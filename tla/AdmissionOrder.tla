---------------------------- MODULE AdmissionOrder ----------------------------
(***************************************************************************)
(* The order of the ranking, the life of an offer row and what lifecycle   *)
(* states protect, for every value of the constants.                       *)
(***************************************************************************)
EXTENDS AdmissionQuota

\* Before the start nothing leaves WAITING; only PENDING rows run out; an
\* ARCHIVED activity has no PENDING row.
Unstarted == \A i \in Application : ActivityOf[i] \notin frozen => application[i] = "WAITING"
OverdueIsPending == \A o \in overdue : offer[o] = "PENDING"
ArchivedIsSettled ==
  \A o \in OfferId : status[ActOf(o)] = "ARCHIVED" => offer[o] # "PENDING"
OrderInv == Unstarted /\ OverdueIsPending /\ ArchivedIsSettled /\ RankOrderKept

\* One step on an offer row, as OfferLifecycle and InactiveUntouched allow it.
LifecycleStep(o) ==
  \/ offer[o] = "NONE" /\ offer'[o] = "PENDING" /\ o \notin overdue'
  \/ offer[o] = "PENDING" /\ offer'[o] = "DECLINED"
  \/ offer[o] = "PENDING" /\ offer'[o] = "EXPIRED" /\ o \in overdue
  \/ offer[o] = "PENDING" /\ offer'[o] = "ACCEPTED" /\ o \notin overdue
InactiveStep(o) ==
  /\ status[ActOf(o)] = "DISABLED"
  /\ \/ offer'[o] = "DECLINED" /\ accepted'[CandOf(o)] # accepted[CandOf(o)]
     \/ offer'[o] = "EXPIRED" /\ status'[ActOf(o)] = "ACTIVE"
\* What a step that keeps OrderInv does to the offers.
OfferSteps ==
  \A o \in OfferId : offer'[o] # offer[o] =>
    LifecycleStep(o) /\ (status[ActOf(o)] # "ACTIVE" => InactiveStep(o))

-----------------------------------------------------------------------------
\* Steps after which the same applications are WAITING.

\* Nothing that keeps the WAITING applications disturbs the ranking.
LEMMA SameWaiting ==
  ASSUME OrderInv, frozen \subseteq frozen',
         \A i \in Application : application'[i] = "WAITING" <=> application[i] = "WAITING",
         \A a \in Activity : mode'[a] # mode[a] => a \notin frozen
  PROVE  Unstarted' /\ RankOrderKept'
<1>1. Unstarted'
  BY DEF OrderInv, Unstarted
<1>2. \A i \in Application : ActivityOf[i] \in Activity
  BY ApplicationAssumption
<1>3. RankOrderKept'
  BY <1>2 DEF OrderInv, Unstarted, RankOrderKept
<1>4. QED
  BY <1>1, <1>3

-----------------------------------------------------------------------------
\* A fill takes WAITING applications from the top of the ranking.

\* The walk reaches a prefix of the ranking: whoever ranks ahead of a reached
\* application that waits is reached too.
LEMMA WalkOrder ==
  ASSUME NEW a \in Activity, NEW room \in Int, NEW j \in Reached(a, room),
         NEW i \in Waiting(a), RankOf[i] < RankOf[j]
  PROVE  i \in Reached(a, room)
<1>1. i \in Application /\ j \in Application /\ ActivityOf[i] = a /\ ActivityOf[j] = a
  BY DEF Waiting, Reached
<1>2. Ahead(i) \subseteq Ahead(j)
  <2>1. ASSUME NEW h \in Ahead(i) PROVE h \in Ahead(j)
    <3>1. h \in Application
      BY <2>1 DEF Ahead, Eligible, Waiting
    <3>2. RankOf[h] \in Nat /\ RankOf[i] \in Nat /\ RankOf[j] \in Nat
      BY <1>1, <3>1, ApplicationAssumption
    <3>3. QED
      BY <1>1, <2>1, <3>2 DEF Ahead
  <2>2. QED
    BY <2>1
<1>3. Ahead(j) \subseteq Application /\ Ahead(i) \subseteq Application
  BY DEF Ahead, Eligible, Waiting
<1>4. /\ Cardinality(Ahead(i)) \in Nat /\ Cardinality(Ahead(j)) \in Nat
      /\ Cardinality(Ahead(i)) <= Cardinality(Ahead(j))
  BY <1>2, <1>3, FiniteApplications, FS_Subset
<1>5. Cardinality(Ahead(j)) < room
  BY DEF Reached
<1>6. QED
  BY <1>4, <1>5 DEF Reached

\* A fill keeps the order invariant and moves offers along their lifecycle.
LEMMA FillOrder ==
  ASSUME TypeOK, OrderInv, NEW a \in Activity,
         NEW S \in SUBSET Due(a), S # {} => status[a] = "ACTIVE",
         NEW room \in Int, room > 0 => status[a] = "ACTIVE" /\ a \in frozen',
         frozen \subseteq frozen', mode' = mode, status' = status,
         FillAfter(a, S, room)
  PROVE  OrderInv' /\ OfferSteps
<1>1. \A i \in Application :
        application'[i] = "WAITING" <=> application[i] = "WAITING" /\ i \notin Reached(a, room)
  BY DEF FillAfter, WithApplications, Issued
<1>2. room <= 0 => Reached(a, room) = {}
  <2>1. \A i \in Waiting(a) : Ahead(i) \subseteq Application
    BY DEF Ahead, Eligible, Waiting
  <2>2. \A i \in Waiting(a) : Cardinality(Ahead(i)) \in Nat
    BY <2>1, FiniteApplications
  <2>3. QED
    BY <2>2 DEF Reached
<1>3. \A i \in Reached(a, room) : i \in Waiting(a) /\ a \in frozen'
  BY <1>2 DEF Reached
<1>4. Unstarted'
  BY <1>1, <1>3 DEF OrderInv, Unstarted, Waiting
<1>5. RankOrderKept'
  <2> SUFFICES ASSUME NEW i \in Application, NEW j \in Application,
                      ActivityOf[i] = ActivityOf[j], RankOf[i] < RankOf[j],
                      mode[ActivityOf[i]] # "MANUAL", application'[i] = "WAITING",
                      application'[j] # "WAITING"
               PROVE  FALSE
    BY DEF RankOrderKept
  <2>1. application[i] = "WAITING" /\ i \notin Reached(a, room)
    BY <1>1
  <2>2. application[j] = "WAITING"
    BY <2>1 DEF OrderInv, RankOrderKept
  <2>3. j \in Reached(a, room) /\ i \in Waiting(a)
    BY <1>1, <1>3, <2>1, <2>2 DEF Waiting
  <2>4. QED
    BY <2>1, <2>3, WalkOrder
<1>6. \A o \in NewRows(Issued(a, room)) :
        offer[o] = "NONE" /\ ActOf(o) = a /\ status[a] = "ACTIVE"
  <2>1. \A o \in NewRows(Issued(a, room)) : offer[o] = "NONE" /\ o[1] \in Issued(a, room)
    BY OfferPair DEF NewRows, NextSlots, FreeSlots
  <2>2. \A i \in Issued(a, room) : i \in Waiting(a) /\ status[a] = "ACTIVE"
    BY <1>2 DEF Issued, Reached
  <2>3. QED
    BY <2>1, <2>2 DEF Waiting, ActOf
<1>7. \A o \in S : o \in OfferId /\ ActOf(o) = a /\ offer[o] = "PENDING" /\ o \in overdue
  BY DEF Due, OffersOf
<1>8. \A o \in OfferId : offer'[o] =
        IF o \in S THEN "EXPIRED"
        ELSE IF o \in NewRows(Issued(a, room)) THEN "PENDING" ELSE offer[o]
  BY DEF FillAfter, WithOffers
<1>9. overdue' = overdue \ S
  BY DEF FillAfter
<1>10. OverdueIsPending'
  BY <1>8, <1>9 DEF OrderInv, OverdueIsPending, TypeOK
<1>11. ArchivedIsSettled'
  BY <1>6, <1>8 DEF OrderInv, ArchivedIsSettled, ActOf
<1>12. OfferSteps
  <2> SUFFICES ASSUME NEW o \in OfferId, offer'[o] # offer[o]
               PROVE  LifecycleStep(o) /\ status[ActOf(o)] = "ACTIVE"
    BY DEF OfferSteps
  <2>1. CASE o \in S
    BY <1>7, <1>8, <2>1 DEF LifecycleStep
  <2>2. CASE o \notin S
    BY <1>6, <1>8, <1>9, <2>2 DEF LifecycleStep, OrderInv, OverdueIsPending
  <2>3. QED
    BY <2>1, <2>2
<1>13. QED
  BY <1>4, <1>5, <1>10, <1>11, <1>12 DEF OrderInv

\* So does a settlement of due offers,
LEMMA SettleOrder ==
  ASSUME TypeOK, OrderInv, NEW a \in Activity, NEW S \in SUBSET Due(a),
         frozen' = frozen, mode' = mode, SettleExpired(S),
         \/ status' = status /\ status[a] = "ACTIVE"
         \/ status' = [status EXCEPT ![a] = "ACTIVE"] /\ status[a] = "DISABLED"
  PROVE  OrderInv' /\ OfferSteps
<1>1. \A i \in Application : application'[i] = "WAITING" <=> application[i] = "WAITING"
  BY DEF SettleExpired, WithApplications
<1>2. Unstarted' /\ RankOrderKept'
  BY <1>1, SameWaiting
<1>3. \A o \in S : o \in OfferId /\ ActOf(o) = a /\ offer[o] = "PENDING" /\ o \in overdue
  BY DEF Due, OffersOf
<1>4. \A o \in OfferId : offer'[o] = IF o \in S THEN "EXPIRED" ELSE offer[o]
  BY DEF SettleExpired, WithOffers
<1>5. OverdueIsPending'
  BY <1>4 DEF SettleExpired, OrderInv, OverdueIsPending, TypeOK
<1>6. \A b \in Activity : status'[b] = "ARCHIVED" => status[b] = "ARCHIVED"
  BY DEF TypeOK
<1>7. \A o \in OfferId : ActOf(o) \in Activity
  BY OfferPair, ApplicationAssumption DEF ActOf
<1>8. ArchivedIsSettled'
  BY <1>4, <1>6, <1>7 DEF OrderInv, ArchivedIsSettled, ActOf
<1>9. OfferSteps
  <2> SUFFICES ASSUME NEW o \in OfferId, offer'[o] # offer[o]
               PROVE  LifecycleStep(o) /\ (status[ActOf(o)] # "ACTIVE" => InactiveStep(o))
    BY DEF OfferSteps
  <2>1. o \in S /\ offer'[o] = "EXPIRED"
    BY <1>4
  <2>2. QED
    BY <1>3, <2>1 DEF LifecycleStep, InactiveStep, TypeOK
<1>10. QED
  BY <1>2, <1>5, <1>8, <1>9 DEF OrderInv

\* an acceptance with its linkage,
LEMMA AcceptOrder ==
  ASSUME TypeOK, OrderInv, NEW o \in OfferId, Accept(o)
  PROVE  OrderInv' /\ OfferSteps
<1>a. o[1] \in Application /\ CandOf(o) \in Candidate
  BY OfferPair, ApplicationAssumption DEF CandOf
<1>b. offer[o] = "PENDING" /\ o \notin overdue /\ status[ActOf(o)] = "ACTIVE"
  BY DEF Accept
<1>c. UNCHANGED <<status, frozen, mode>>
  BY DEF Accept, lifecycleVars, configVars
<1>d. \A p \in Linked(o) : p \in OfferId /\ offer[p] = "PENDING"
  BY <1>b DEF Linked, PendingOf
<1>g. \A p \in OfferId : offer'[p] =
        IF p \in Linked(o) THEN "DECLINED" ELSE IF p = o THEN "ACCEPTED" ELSE offer[p]
  BY DEF Accept
<1>e. \A p \in OfferId : offer'[p] # offer[p] =>
        (p \in Linked(o) /\ offer'[p] = "DECLINED") \/ (p = o /\ offer'[p] = "ACCEPTED")
  BY <1>g
<1>f. \A p \in OfferId : offer'[p] = "PENDING" => offer[p] = "PENDING"
  BY <1>g
<1>1. \A i \in Application : application'[i] = "WAITING" <=> application[i] = "WAITING"
  BY DEF Accept, WithApplications
<1>2. Unstarted' /\ RankOrderKept'
  BY <1>1, <1>c, SameWaiting
<1>3. OverdueIsPending'
  <2>1. overdue' = overdue \ Linked(o) /\ overdue \subseteq OfferId
    BY DEF Accept, TypeOK
  <2>2. QED
    BY <1>b, <1>e, <2>1 DEF OrderInv, OverdueIsPending
<1>4. ArchivedIsSettled'
  BY <1>c, <1>f DEF OrderInv, ArchivedIsSettled, ActOf
<1>5. OfferSteps
  <2> SUFFICES ASSUME NEW p \in OfferId, offer'[p] # offer[p]
               PROVE  LifecycleStep(p) /\ (status[ActOf(p)] # "ACTIVE" => InactiveStep(p))
    BY DEF OfferSteps
  <2>1. LifecycleStep(p)
    BY <1>b, <1>d, <1>e DEF LifecycleStep
  <2>2. ASSUME status[ActOf(p)] # "ACTIVE" PROVE InactiveStep(p)
    <3>1. p # o /\ p \in Linked(o) /\ offer'[p] = "DECLINED" /\ offer[p] = "PENDING"
      BY <1>b, <1>d, <1>e, <2>2
    <3>2. accepted[CandOf(o)] = NoOffer /\ CandOf(p) = CandOf(o)
      BY <3>1 DEF Linked, PendingOf
    <3>3. accepted'[CandOf(p)] = o
      BY <1>a, <3>2 DEF Accept, TypeOK
    <3>4. status[ActOf(p)] \in ActivityStatus
      BY OfferPair, ApplicationAssumption DEF ActOf, TypeOK
    <3>5. status[ActOf(p)] = "DISABLED"
      BY <2>2, <3>1, <3>4 DEF OrderInv, ArchivedIsSettled, ActivityStatus
    <3>6. QED
      BY <3>1, <3>2, <3>3, <3>5, NoOfferAssumption DEF InactiveStep
  <2>3. QED
    BY <2>1, <2>2
<1>6. QED
  BY <1>2, <1>3, <1>4, <1>5 DEF OrderInv

\* a decline,
LEMMA DeclineOrder ==
  ASSUME TypeOK, OrderInv, NEW o \in OfferId, Decline(o)
  PROVE  OrderInv' /\ OfferSteps
<1>a. offer[o] = "PENDING" /\ o \notin overdue /\ status[ActOf(o)] = "ACTIVE"
  BY DEF Decline
<1>b. UNCHANGED <<status, frozen, mode, overdue>>
  BY DEF Decline, lifecycleVars, configVars
<1>c. \A p \in OfferId : offer'[p] = IF p = o THEN "DECLINED" ELSE offer[p]
  BY DEF Decline, WithOffers
<1>1. \A i \in Application : application'[i] = "WAITING" <=> application[i] = "WAITING"
  BY DEF Decline, WithApplications
<1>2. Unstarted' /\ RankOrderKept'
  BY <1>1, <1>b, SameWaiting
<1>3. OverdueIsPending' /\ ArchivedIsSettled'
  BY <1>a, <1>b, <1>c DEF OrderInv, OverdueIsPending, ArchivedIsSettled, ActOf, TypeOK
<1>4. OfferSteps
  BY <1>a, <1>c DEF OfferSteps, LifecycleStep
<1>5. QED
  BY <1>2, <1>3, <1>4 DEF OrderInv

\* and the issue of one offer to a chosen application, which is not used in
\* AUTO or BATCH mode while the application is WAITING.
LEMMA InsertOrder ==
  ASSUME TypeOK, OrderInv, NEW i \in Application, InsertOffer(i), Started(ActivityOf[i]),
         \/ application[i] # "WAITING" 
         \/ mode[ActivityOf[i]] = "MANUAL"
  PROVE  OrderInv' /\ OfferSteps
<1>a. UNCHANGED <<status, frozen, mode, overdue>>
  BY DEF InsertOffer, lifecycleVars, configVars
<1>b. \A j \in Application : application'[j] = IF j = i THEN "OFFERED" ELSE application[j]
  BY DEF InsertOffer, TypeOK
<1>c. \A o \in NewRows({i}) : offer[o] = "NONE" /\ ActOf(o) = ActivityOf[i]
  BY OfferPair DEF NewRows, NextSlots, FreeSlots, ActOf
<1>d. \A o \in OfferId : offer'[o] = IF o \in NewRows({i}) THEN "PENDING" ELSE offer[o]
  BY DEF InsertOffer, WithOffers
<1>e. status[ActivityOf[i]] = "ACTIVE" /\ ActivityOf[i] \in frozen
  BY DEF Started
<1>1. Unstarted'
  BY <1>a, <1>b, <1>e DEF OrderInv, Unstarted
<1>2. RankOrderKept'
  BY <1>a, <1>b DEF OrderInv, RankOrderKept
<1>3. OverdueIsPending'
  BY <1>a, <1>d DEF OrderInv, OverdueIsPending, TypeOK
<1>4. ArchivedIsSettled'
  BY <1>a, <1>c, <1>d, <1>e DEF OrderInv, ArchivedIsSettled, ActOf
<1>5. OfferSteps
  BY <1>a, <1>c, <1>d, <1>e DEF OfferSteps, LifecycleStep, OrderInv, OverdueIsPending
<1>6. QED
  BY <1>1, <1>2, <1>3, <1>4, <1>5 DEF OrderInv

\* Steps on neither offers nor applications.
LEMMA IdleOrder ==
  ASSUME TypeOK, OrderInv, UNCHANGED <<application, offer>>, frozen' = frozen,
         \A o \in overdue' : offer[o] = "PENDING",
         \A a \in Activity : mode'[a] # mode[a] => a \notin frozen,
         \A a \in Activity : status'[a] = "ARCHIVED" =>
            \/ status[a] = "ARCHIVED"
            \/ \A o \in OffersOf(a) : offer[o] # "PENDING"
  PROVE  OrderInv' /\ OfferSteps
<1>1. Unstarted' /\ RankOrderKept'
  BY SameWaiting
<1>2. \A o \in OfferId : ActOf(o) \in Activity
  BY OfferPair, ApplicationAssumption DEF ActOf
<1>3. ArchivedIsSettled'
  BY <1>2 DEF OrderInv, ArchivedIsSettled, OffersOf, ActOf
<1>4. OverdueIsPending' /\ OfferSteps
  BY DEF OverdueIsPending, OfferSteps
<1>5. QED
  BY <1>1, <1>3, <1>4 DEF OrderInv

-----------------------------------------------------------------------------
\* Every step keeps the order invariant and moves the offers as allowed.

\* The candidates' requests keep the order invariant.
LEMMA CandidateOrder ==
  ASSUME TypeOK, OrderInv, CandidateNext
  PROVE  OrderInv' /\ OfferSteps
<1>1. ASSUME NEW o \in OfferId, AcceptExpired(o)
      PROVE  OrderInv' /\ OfferSteps
  <2>1. ActOf(o) \in Activity
    BY ApplicationAssumption, OfferPair DEF ActOf
  <2>2. {o} \in SUBSET Due(ActOf(o)) /\ SettleExpired({o}) /\ status[ActOf(o)] = "ACTIVE"
        /\ UNCHANGED <<status, frozen, mode>>
    BY <1>1 DEF AcceptExpired, lifecycleVars, configVars
  <2>3. QED
    BY <2>1, <2>2, SettleOrder
<1>2. QED
  BY <1>1, AcceptOrder, DeclineOrder DEF CandidateNext

\* fill called with the free seats in S's place.
LEMMA SeatsOrder ==
  ASSUME TypeOK, OrderInv, NEW a \in Activity, NEW S \in SUBSET Due(a),
         S # {} => status[a] = "ACTIVE", FillAfter(a, S, Seats(a, S)),
         UNCHANGED <<status, frozen, mode>>
  PROVE  OrderInv' /\ OfferSteps
<1>1. Seats(a, S) \in Int /\ (Seats(a, S) > 0 => status[a] = "ACTIVE" /\ a \in frozen)
  BY SeatsType DEF Seats, Started
<1>2. QED
  BY <1>1, FillOrder

\* So do the follow-ups, the failures, the worker and the clock.
LEMMA BackgroundOrder ==
  ASSUME TypeOK, OrderInv, FollowUpNext \/ Failure \/ WorkerNext
  PROVE  OrderInv' /\ OfferSteps
<1>1. ASSUME NEW a \in Activity, PostCommitRefill(a) \/ ExecuteIntents(a)
      PROVE  OrderInv' /\ OfferSteps
  <2>1. FillAfter(a, {}, Seats(a, {})) /\ UNCHANGED <<status, frozen, mode>>
    BY <1>1 DEF PostCommitRefill, ExecuteIntents, FillByRank, lifecycleVars, configVars
  <2>2. QED
    BY <2>1, SeatsOrder
<1>2. ASSUME NEW a \in Activity, NEW S \in SUBSET Due(a), SettleDue(a, S)
      PROVE  OrderInv' /\ OfferSteps
  BY <1>2, SettleOrder DEF SettleDue, lifecycleVars, configVars
<1>3. ASSUME UNCHANGED <<lifecycleVars, configVars, rowVars>>
      PROVE  OrderInv' /\ OfferSteps
  BY <1>3, IdleOrder DEF lifecycleVars, configVars, rowVars, OrderInv, OverdueIsPending
<1>4. ASSUME NEW a \in Activity,
             \/ RecheckRefill(a) \/ RefillFails(a) \/ QuotaRefillFails(a)
             \/ QuotaSignalLost(a)
      PROVE  OrderInv' /\ OfferSteps
  BY <1>3, <1>4 DEF RecheckRefill, RefillFails, QuotaRefillFails, QuotaSignalLost
<1>5. ASSUME Crash PROVE OrderInv' /\ OfferSteps
  BY <1>3, <1>5 DEF Crash
<1>6. ASSUME NEW o \in OfferId, PassDeadline(o) PROVE OrderInv' /\ OfferSteps
  <2>1. UNCHANGED <<application, offer, frozen, mode, status>>
    BY <1>6 DEF PassDeadline, lifecycleVars, configVars
  <2>2. \A p \in overdue' : offer[p] = "PENDING"
    BY <1>6 DEF PassDeadline, OrderInv, OverdueIsPending
  <2>3. QED
    BY <2>1, <2>2, IdleOrder
<1>7. QED
  BY <1>1, <1>2, <1>4, <1>5, <1>6 DEF FollowUpNext, Failure, WorkerNext

\* So do the staff's lifecycle and configuration requests.
LEMMA LifecycleOrder ==
  ASSUME TypeOK, OrderInv, LifecycleNext
  PROVE  OrderInv' /\ OfferSteps
<1>1. ASSUME NEW a \in Activity, StartAdmission(a)
      PROVE  OrderInv' /\ OfferSteps
  <2> DEFINE room == IF mode[a] = "AUTO" THEN Room(a, {}) ELSE 0
  <2>1. room \in Int
    BY SeatsType
  <2>2. FillAfter(a, {}, room) /\ UNCHANGED <<status, mode>> /\ status[a] = "ACTIVE"
        /\ frozen' = frozen \cup {a}
    BY <1>1 DEF StartAdmission, configVars
  <2> HIDE DEF room
  <2>3. QED
    BY <2>1, <2>2, FillOrder
<1>2. ASSUME NEW a \in Activity, ResumeRefill(a)
      PROVE  OrderInv' /\ OfferSteps
  <2>1. FillAfter(a, Due(a), Seats(a, Due(a))) /\ UNCHANGED <<status, frozen, mode>>
        /\ status[a] = "ACTIVE"
    BY <1>2 DEF ResumeRefill, configVars
  <2>2. QED
    BY <2>1, SeatsOrder
<1>3. ASSUME NEW a \in Activity, Activate(a)
      PROVE  OrderInv' /\ OfferSteps
  BY <1>3, SettleOrder DEF Activate, configVars
<1>4. ASSUME NEW a \in Activity, Disable(a) \/ Archive(a)
      PROVE  OrderInv' /\ OfferSteps
  <2>1. UNCHANGED <<application, offer, overdue, frozen, mode>>
    BY <1>4 DEF Disable, Archive, rowVars, configVars
  <2>2. \A b \in Activity : status'[b] = "ARCHIVED" =>
            \/ status[b] = "ARCHIVED"
            \/ \A o \in OffersOf(b) : offer[o] # "PENDING"
    BY <1>4 DEF Disable, Archive, TypeOK
  <2>3. QED
    BY <2>1, <2>2, IdleOrder DEF OrderInv, OverdueIsPending
<1>5. ASSUME UNCHANGED <<application, offer, overdue, frozen, status>>,
             \A b \in Activity : mode'[b] # mode[b] => b \notin frozen
      PROVE  OrderInv' /\ OfferSteps
  BY <1>5, IdleOrder DEF OrderInv, OverdueIsPending
<1>6. ASSUME NEW a \in Activity, NEW m, UpdateOfferMode(a, m)
      PROVE  OrderInv' /\ OfferSteps
  BY <1>5, <1>6 DEF UpdateOfferMode, lifecycleVars, rowVars, TypeOK
<1>7. ASSUME NEW a \in Activity, PauseRefill(a) \/ \E q \in Quotas[a] : UpdateQuota(a, q)
      PROVE  OrderInv' /\ OfferSteps
  BY <1>5, <1>7 DEF PauseRefill, UpdateQuota, lifecycleVars, configVars, rowVars
<1>8. ASSUME PauseAllAutoRefills
      PROVE  OrderInv' /\ OfferSteps
  BY <1>5, <1>8 DEF PauseAllAutoRefills, configVars, rowVars
<1>9. QED
  BY <1>1, <1>2, <1>3, <1>4, <1>6, <1>7, <1>8 DEF LifecycleNext

\* So does issuing by batch, by hand and as a special offer.
LEMMA IssueOrder ==
  ASSUME TypeOK, OrderInv, IssueNext
  PROVE  OrderInv' /\ OfferSteps
<1>1. ASSUME NEW a \in Activity, NEW limit \in Quotas[a], IssueBatch(a, limit)
      PROVE  OrderInv' /\ OfferSteps
  <2> DEFINE room == IF limit < Room(a, {}) THEN limit ELSE Room(a, {})
  <2>1. room \in Int
    BY SeatsType, BoundAssumption
  <2>2. FillAfter(a, {}, room) /\ UNCHANGED <<status, frozen, mode>>
        /\ status[a] = "ACTIVE" /\ a \in frozen
    BY <1>1 DEF IssueBatch, Started, lifecycleVars, configVars
  <2> HIDE DEF room
  <2>3. QED
    BY <2>1, <2>2, FillOrder
<1>2. QED
  BY <1>1, InsertOrder DEF IssueNext, IssueManual, IssueSpecial

\* Before the admission starts every application is WAITING.
LEMMA InitOrder == Init => OrderInv
<1> SUFFICES ASSUME Init PROVE OrderInv
  OBVIOUS
<1>1. Unstarted /\ RankOrderKept
  BY DEF Init, Unstarted, RankOrderKept
<1>2. OverdueIsPending /\ ArchivedIsSettled
  BY DEF Init, OverdueIsPending, ArchivedIsSettled
<1>3. QED
  BY <1>1, <1>2 DEF OrderInv

\* Every step keeps the order invariant and moves offers along their lifecycle.
LEMMA NextOrder == TypeOK /\ OrderInv /\ [Next]_vars => OrderInv' /\ OfferSteps
<1>1. ASSUME TypeOK, OrderInv, UNCHANGED vars PROVE OrderInv' /\ OfferSteps
  BY <1>1, IdleOrder
  DEF vars, lifecycleVars, configVars, rowVars, OrderInv, OverdueIsPending
<1>2. QED
  BY <1>1, CandidateOrder, BackgroundOrder, LifecycleOrder, IssueOrder DEF Next, Steady

-----------------------------------------------------------------------------
\* The order invariant holds throughout.
LEMMA OrderCorrect == Spec => [](TypeOK /\ OrderInv)
  BY InitType, NextType, InitOrder, NextOrder, PTL DEF Spec

\* AUTO and BATCH issuing follows the frozen ranking (NextWaitingByRank and the
\* locks that keep UpdateOfferMode out of a started admission).
THEOREM RankingFollowed == Spec => []RankOrderKept
<1>1. OrderInv => RankOrderKept
  BY DEF OrderInv
<1>2. QED
  BY <1>1, OrderCorrect, PTL

\* An offer row lives once: inserted, then settled by one of the guarded updates,
\* accepted in time only, expired past its deadline only.
THEOREM OffersLiveOnce == Spec => OfferLifecycle
<1>1. OfferSteps => [\A o \in OfferId : offer'[o] # offer[o] =>
         \/ offer[o] = "NONE" /\ offer'[o] = "PENDING" /\ o \notin overdue'
         \/ offer[o] = "PENDING" /\ offer'[o] = "DECLINED"
         \/ offer[o] = "PENDING" /\ offer'[o] = "EXPIRED" /\ o \in overdue
         \/ offer[o] = "PENDING" /\ offer'[o] = "ACCEPTED" /\ o \notin overdue]_vars
  BY DEF OfferSteps, LifecycleStep
<1>2. QED
  BY <1>1, OrderCorrect, NextOrder, PTL DEF Spec, OfferLifecycle

\* D1/D2: the offers of DISABLED and ARCHIVED activities are left alone, but for
\* the linkage and the settlement by the re-activation.
THEOREM InactiveLeftAlone == Spec => InactiveUntouched
<1>1. OfferSteps => [\A o \in OfferId : offer'[o] # offer[o] /\ status[ActOf(o)] # "ACTIVE" =>
         /\ status[ActOf(o)] = "DISABLED"
         /\ \/ offer'[o] = "DECLINED" /\ accepted'[CandOf(o)] # accepted[CandOf(o)]
            \/ offer'[o] = "EXPIRED" /\ status'[ActOf(o)] = "ACTIVE"]_vars
  BY DEF OfferSteps, InactiveStep
<1>2. QED
  BY <1>1, OrderCorrect, NextOrder, PTL DEF Spec, InactiveUntouched
=============================================================================
