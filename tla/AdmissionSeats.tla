---------------------------- MODULE AdmissionSeats ----------------------------
(***************************************************************************)
(* Admission implements SingleAcceptance, for every value of the           *)
(* constants.                                                              *)
(*                                                                         *)
(* The refinement looks at the offer rows only.  A step either is an       *)
(* acceptance, or moves the offers of one activity without accepting any,  *)
(* or leaves the offers alone; the row, quota and order invariants then    *)
(* say that it is a step of the abstract specification.                    *)
(***************************************************************************)
EXTENDS AdmissionOrder

\* The step moves offers of activity a only, and accepts none of them.
Local(a) ==
  /\ quota' = quota
  /\ \A o \in OfferId : offer'[o] # offer[o] => ActOf(o) = a /\ offer'[o] # "ACCEPTED"
\* The step changes one quota and no offer.
Resized ==
  /\ offer' = offer
  /\ \E a \in Activity : \E q \in Quotas[a] : quota' = [quota EXCEPT ![a] = q]
Kept == offer' = offer /\ quota' = quota
\* What a step may be.
Kinds ==
  \/ \E o \in OfferId : Accept(o)
  \/ \E a \in Activity : Local(a)
  \/ Resized
  \/ Kept

-----------------------------------------------------------------------------
\* Which kind each action is.

\* A fill inserts and settles offers of its own activity.
LEMMA FillLocal ==
  ASSUME NEW a \in Activity, NEW S \in SUBSET OffersOf(a), NEW room,
         offer \in [OfferId -> OfferStatus], FillAfter(a, S, room), quota' = quota
  PROVE  Local(a)
<1>1. \A o \in NewRows(Issued(a, room)) : o \in OfferId /\ ActOf(o) = a
  BY DEF NewRows, Issued, Reached, Waiting, ActOf
<1>2. offer' = WithOffers(S, "EXPIRED", NewRows(Issued(a, room)))
  BY DEF FillAfter
<1>3. QED
  BY <1>1, <1>2 DEF Local, WithOffers, OffersOf

\* So does a settlement.
LEMMA SettleLocal ==
  ASSUME NEW a \in Activity, NEW S \in SUBSET OffersOf(a),
         offer \in [OfferId -> OfferStatus], SettleExpired(S), quota' = quota
  PROVE  Local(a)
  BY DEF SettleExpired, Local, WithOffers, OffersOf

\* So does an offer made by hand.
LEMMA InsertLocal ==
  ASSUME NEW i \in Application, offer \in [OfferId -> OfferStatus], InsertOffer(i)
  PROVE  Local(ActivityOf[i])
  BY DEF InsertOffer, NewRows, WithOffers, Local, ActOf, configVars

\* The candidates' requests.
LEMMA CandidateKinds == TypeOK /\ CandidateNext => Kinds
<1> SUFFICES ASSUME TypeOK, NEW o \in OfferId, AcceptExpired(o) \/ Decline(o)
             PROVE  Kinds
  BY DEF CandidateNext, Kinds
<1>1. ActOf(o) \in Activity /\ o \in OffersOf(ActOf(o))
  BY ApplicationAssumption, OfferPair DEF ActOf, OffersOf
<1>2. CASE AcceptExpired(o)
  <2>1. SettleExpired({o}) /\ quota' = quota
    BY <1>2 DEF AcceptExpired, configVars
  <2>2. QED
    BY <1>1, <2>1, SettleLocal DEF TypeOK, Kinds
<1>3. CASE Decline(o)
  <2>1. offer' = WithOffers({o}, "DECLINED", {}) /\ quota' = quota
    BY <1>3 DEF Decline, configVars
  <2>2. Local(ActOf(o))
    BY <2>1 DEF WithOffers, Local, TypeOK
  <2>3. QED
    BY <1>1, <2>2 DEF Kinds
<1>4. QED
  BY <1>2, <1>3

\* The follow-ups, the failures, the worker and the clock.
LEMMA BackgroundKinds == TypeOK /\ (FollowUpNext \/ Failure \/ WorkerNext) => Kinds
<1> SUFFICES ASSUME TypeOK, FollowUpNext \/ Failure \/ WorkerNext PROVE Kinds
  OBVIOUS
<1>1. ASSUME NEW a \in Activity, PostCommitRefill(a) \/ ExecuteIntents(a)
      PROVE  Kinds
  <2>1. FillAfter(a, {}, Seats(a, {})) /\ quota' = quota
    BY <1>1 DEF PostCommitRefill, ExecuteIntents, FillByRank, configVars
  <2>2. QED
    BY <2>1, FillLocal DEF TypeOK, Kinds
<1>2. ASSUME NEW a \in Activity, NEW S \in SUBSET Due(a), SettleDue(a, S)
      PROVE  Kinds
  <2>1. S \in SUBSET OffersOf(a) /\ SettleExpired(S) /\ quota' = quota
    BY <1>2 DEF SettleDue, configVars, Due
  <2>2. QED
    BY <2>1, SettleLocal DEF TypeOK, Kinds
<1>3. ASSUME NEW a \in Activity,
             \/ RecheckRefill(a) \/ RefillFails(a) \/ QuotaRefillFails(a)
             \/ QuotaSignalLost(a)
      PROVE  Kinds
  BY <1>3 DEF RecheckRefill, RefillFails, QuotaRefillFails, QuotaSignalLost,
              rowVars, configVars, Kinds, Kept
<1>4. ASSUME Crash PROVE Kinds
  BY <1>4 DEF Crash, rowVars, configVars, Kinds, Kept
<1>5. ASSUME NEW o \in OfferId, PassDeadline(o) PROVE Kinds
  BY <1>5 DEF PassDeadline, configVars, Kinds, Kept
<1>6. QED
  BY <1>1, <1>2, <1>3, <1>4, <1>5 DEF FollowUpNext, Failure, WorkerNext

\* The staff's lifecycle and configuration requests.
LEMMA LifecycleKinds == TypeOK /\ LifecycleNext => Kinds
<1> SUFFICES ASSUME TypeOK, LifecycleNext PROVE Kinds
  OBVIOUS
<1>1. ASSUME NEW a \in Activity, StartAdmission(a) PROVE Kinds
  <2>1. PICK room : FillAfter(a, {}, room) /\ quota' = quota
    BY <1>1 DEF StartAdmission, configVars
  <2>2. QED
    BY <2>1, FillLocal DEF TypeOK, Kinds
<1>2. ASSUME NEW a \in Activity, ResumeRefill(a) PROVE Kinds
  <2>1. FillAfter(a, Due(a), Seats(a, Due(a))) /\ quota' = quota
    BY <1>2 DEF ResumeRefill, configVars
  <2>2. Due(a) \in SUBSET OffersOf(a)
    BY DEF Due
  <2>3. QED
    BY <2>1, <2>2, FillLocal DEF TypeOK, Kinds
<1>3. ASSUME NEW a \in Activity, Activate(a) PROVE Kinds
  <2>1. SettleExpired(Due(a)) /\ quota' = quota /\ Due(a) \in SUBSET OffersOf(a)
    BY <1>3 DEF Activate, configVars, Due
  <2>2. QED
    BY <2>1, SettleLocal DEF TypeOK, Kinds
<1>4. ASSUME NEW a \in Activity, NEW q \in Quotas[a], UpdateQuota(a, q) PROVE Kinds
  BY <1>4 DEF UpdateQuota, rowVars, Kinds, Resized
<1>5. ASSUME \/ PauseAllAutoRefills
             \/ \E a \in Activity :
                  \/ Disable(a) \/ Archive(a) \/ PauseRefill(a)
                  \/ \E m \in Modes[a] : UpdateOfferMode(a, m)
      PROVE  Kinds
  BY <1>5 DEF PauseAllAutoRefills, Disable, Archive, PauseRefill, UpdateOfferMode,
              rowVars, configVars, Kinds, Kept
<1>6. QED
  BY <1>1, <1>2, <1>3, <1>4, <1>5 DEF LifecycleNext

\* Issuing by batch, by hand and as a special offer.
LEMMA IssueKinds == TypeOK /\ IssueNext => Kinds
<1> SUFFICES ASSUME TypeOK, IssueNext PROVE Kinds
  OBVIOUS
<1>1. ASSUME NEW a \in Activity, NEW limit, IssueBatch(a, limit) PROVE Kinds
  <2>1. PICK room : FillAfter(a, {}, room) /\ quota' = quota
    BY <1>1 DEF IssueBatch, configVars
  <2>2. QED
    BY <2>1, FillLocal DEF TypeOK, Kinds
<1>2. ASSUME NEW i \in Application, InsertOffer(i) PROVE Kinds
  BY <1>2, InsertLocal, ApplicationAssumption DEF TypeOK, Kinds
<1>3. QED
  BY <1>1, <1>2 DEF IssueNext, IssueManual, IssueSpecial

\* Every step is of one of the kinds.
LEMMA NextKinds == TypeOK /\ [Next]_vars => Kinds
<1>1. UNCHANGED vars => Kinds
  BY DEF vars, rowVars, configVars, Kinds, Kept
<1>2. QED
  BY <1>1, CandidateKinds, BackgroundKinds, LifecycleKinds, IssueKinds DEF Next, Steady

-----------------------------------------------------------------------------
\* The abstract state.

\* Candidates that each have one of the offers in F are no more than F.
LEMMA FewerHolders ==
  ASSUME NEW F \in SUBSET OfferId, NEW H, \A c \in H : \E o \in F : c = CandOf(o)
  PROVE  /\ Cardinality(H) <= Cardinality(F)
         /\ Cardinality(H) \in Nat /\ Cardinality(F) \in Nat
<1> DEFINE G == {o \in F : CandOf(o) \in H}
           f == [o \in G |-> CandOf(o)]
<1>1. IsFiniteSet(F) /\ G \in SUBSET F
  BY FiniteOffers
<1>2. IsFiniteSet(G) /\ Cardinality(G) <= Cardinality(F)
  BY <1>1, FS_Subset
<1>3. f \in Surjection(G, H)
  BY DEF Surjection
<1>4. IsFiniteSet(H) /\ Cardinality(H) <= Cardinality(G)
  <2> HIDE DEF G, f
  <2>1. QED
    BY <1>2, <1>3, FS_Surjection
<1>5. Cardinality(H) \in Nat /\ Cardinality(G) \in Nat /\ Cardinality(F) \in Nat
  BY <1>1, <1>2, <1>4, FS_CardinalityType
<1>6. QED
  BY <1>2, <1>4, <1>5

\* Cardinality is the same operator inside the abstract specification.
LEMMA SameCardinality == \A S : Promise!Cardinality(S) = Cardinality(S)
  BY DEF Promise!Cardinality, Cardinality, Promise!IsFiniteSet, IsFiniteSet

\* Nobody holds an offer or a seat before the admission starts.
LEMMA InitSeats == Init => Promise!AdmissionInit
<1> SUFFICES ASSUME Init PROVE Promise!AdmissionInit
  OBVIOUS
<1>1. \A o \in OfferId : offer[o] = "NONE"
  BY DEF Init
<1>2. OpenOffers = [c \in Candidate |-> {}] /\ SeatsTaken = [c \in Candidate |-> {}]
  BY <1>1 DEF OpenOffers, SeatsTaken, PendingOf
<1>3. quota \in [Activity -> UNION {Quotas[a] : a \in Activity}]
  BY DEF Init
<1>4. QED
  BY <1>2, <1>3 DEF Promise!AdmissionInit

-----------------------------------------------------------------------------
\* What each kind of step does to it.

\* A step that leaves the offers alone leaves the offers and seats alone.
LEMMA SameSeats ==
  ASSUME offer' = offer
  PROVE  OpenOffers' = OpenOffers /\ SeatsTaken' = SeatsTaken
  BY DEF OpenOffers, SeatsTaken, PendingOf, CandOf, ActOf

\* The activities of the offers of a candidate, element by element.
LEMMA OpenElement ==
  \A c \in Candidate : \A b :
    b \in OpenOffers[c] <=>
      \E o \in OfferId : offer[o] = "PENDING" /\ CandOf(o) = c /\ ActOf(o) = b
  BY DEF OpenOffers, PendingOf

\* A step on one activity's offers is an Issue of that activity.
LEMMA LocalIsIssue ==
  ASSUME TypeOK, RowInv, RowInv', QuotaRespected', OfferSteps,
         NEW a \in Activity, Local(a)
  PROVE  Promise!Issue(a)
<1> DEFINE closed == {c \in Candidate : a \in OpenOffers[c] /\ a \notin OpenOffers'[c]}
           made == {c \in Candidate : a \notin OpenOffers[c] /\ a \in OpenOffers'[c]}
<1>1. \A o \in OfferId : offer'[o] = "ACCEPTED" <=> offer[o] = "ACCEPTED"
  BY DEF Local, OfferSteps, LifecycleStep
<1>2. SeatsTaken' = SeatsTaken
  <2>1. SeatsTaken' = [c \in Candidate |->
           {ActOf(o) : o \in {p \in OfferId : offer'[p] = "ACCEPTED" /\ CandOf(p) = c}}]
    BY DEF SeatsTaken, ActOf, CandOf
  <2>2. QED
    BY <1>1, <2>1 DEF SeatsTaken
<1>3. \A c \in Candidate : \A b :
        b \in OpenOffers'[c] <=>
          \E o \in OfferId : offer'[o] = "PENDING" /\ CandOf(o) = c /\ ActOf(o) = b
  BY DEF OpenOffers, PendingOf, ActOf, CandOf
<1>4. \A c \in Candidate : OpenOffers'[c] \ {a} = OpenOffers[c] \ {a}
  <2>1. \A o \in OfferId : ActOf(o) # a => offer'[o] = offer[o]
    BY DEF Local
  <2>2. QED
    BY <1>3, <2>1, OpenElement
<1>5. \A c \in made : SeatsTaken[c] = {}
  <2>1. SUFFICES ASSUME NEW c \in made, SeatsTaken[c] # {} PROVE FALSE
    OBVIOUS
  <2>2. PICK o \in OfferId : offer'[o] = "ACCEPTED" /\ CandOf(o) = c
    BY <1>1, <2>1 DEF SeatsTaken
  <2>3. PICK p \in OfferId : offer'[p] = "PENDING" /\ CandOf(p) = c
    BY <1>3
  <2>4. accepted'[c] = o
    BY <2>2 DEF RowInv, AcceptedOnce, CandOf
  <2>5. accepted'[c] = NoOffer
    BY <2>3 DEF RowInv, NoPendingAfterAccept, CandOf
  <2>6. QED
    BY <2>4, <2>5, NoOfferAssumption
<1>6. Cardinality((Promise!Holders(a) \ closed) \cup made) <= quota[a]
  <2> DEFINE F == {o \in OfferId : offer'[o] \in {"PENDING", "ACCEPTED"} /\ ActOf(o) = a}
             H == (Promise!Holders(a) \ closed) \cup made
  <2>1. Cardinality(F) <= quota[a]
    <3>1. F = (Active \cap OffersOf(a))'
      BY DEF Active, OffersOf, ActOf
    <3>2. QED
      BY <3>1 DEF QuotaRespected, Occupied, Local
  <2>2. \A c \in H : c \in Candidate /\ (a \in OpenOffers'[c] \/ a \in SeatsTaken[c])
    BY DEF Promise!Holders
  <2>3. \A c \in H : \E o \in F : c = CandOf(o)
    <3>1. SUFFICES ASSUME NEW c \in H PROVE \E o \in F : c = CandOf(o)
      OBVIOUS
    <3>2. CASE a \in OpenOffers'[c]
      BY <1>3, <2>2, <3>2
    <3>3. CASE a \in SeatsTaken[c]
      <4>1. PICK o \in OfferId : offer[o] = "ACCEPTED" /\ CandOf(o) = c /\ ActOf(o) = a
        BY <2>2, <3>3 DEF SeatsTaken
      <4>2. QED
        BY <1>1, <4>1
    <3>4. QED
      BY <2>2, <3>2, <3>3
  <2>4. /\ Cardinality(H) <= Cardinality(F)
        /\ Cardinality(H) \in Nat /\ Cardinality(F) \in Nat
    <3>1. F \in SUBSET OfferId
      OBVIOUS
    <3> HIDE DEF F, H
    <3>2. QED
      BY <2>3, <3>1, FewerHolders
  <2>5. quota[a] \in Nat
    BY DEF TypeOK
  <2> HIDE DEF F, H
  <2>6. Cardinality(H) <= quota[a]
    BY <2>1, <2>4, <2>5
  <2>7. QED
    BY <2>6 DEF H
<1>7. OpenOffers' = [c \in Candidate |->
         (OpenOffers[c] \ (IF c \in closed THEN {a} ELSE {}))
           \cup (IF c \in made THEN {a} ELSE {})]
  <2>1. OpenOffers' = [c \in Candidate |-> OpenOffers'[c]]
    BY DEF OpenOffers, PendingOf, ActOf, CandOf
  <2>2. \A c \in Candidate : OpenOffers'[c] =
          (OpenOffers[c] \ (IF c \in closed THEN {a} ELSE {}))
            \cup (IF c \in made THEN {a} ELSE {})
    BY <1>4
  <2> HIDE DEF closed, made
  <2>3. QED
    BY <2>1, <2>2
<1>8. closed \in SUBSET Candidate /\ made \in SUBSET Candidate
  OBVIOUS
<1>9. /\ \A c \in closed : a \in OpenOffers[c]
      /\ \A c \in made : a \notin OpenOffers[c] /\ SeatsTaken[c] = {}
  BY <1>5
<1>10. quota' = quota
  BY DEF Local
<1> HIDE DEF closed, made
<1>11. QED
  BY <1>2, <1>6, <1>7, <1>8, <1>9, <1>10, SameCardinality DEF Promise!Issue

\* A candidate with a pending offer has no seat.
LEMMA PendingHasNoSeat ==
  ASSUME AcceptedOnce, NoPendingAfterAccept, NEW o \in OfferId, offer[o] = "PENDING"
  PROVE  /\ accepted[CandOf(o)] = NoOffer
         /\ \A p \in OfferId : CandOf(p) = CandOf(o) => offer[p] # "ACCEPTED"
<1>1. accepted[CandOf(o)] = NoOffer
  BY DEF NoPendingAfterAccept
<1>2. \A p \in OfferId : offer[p] = "ACCEPTED" => accepted[CandOf(p)] # NoOffer
  BY NoOfferAssumption DEF AcceptedOnce
<1>3. QED
  BY <1>1, <1>2

\* An acceptance is a Take: the "accepted elsewhere" branch is never reached.
LEMMA AcceptIsTake ==
  ASSUME TypeOK, RowInv, NEW o \in OfferId, Accept(o)
  PROVE  CandOf(o) \in Candidate /\ Promise!Take(CandOf(o))
<1> DEFINE c == CandOf(o)
<1>1. c \in Candidate
  BY ApplicationAssumption, OfferPair DEF CandOf
<1>2. offer[o] = "PENDING"
  BY DEF Accept
<1>3. accepted[c] = NoOffer /\ \A p \in OfferId : CandOf(p) = c => offer[p] # "ACCEPTED"
  BY <1>2, PendingHasNoSeat DEF RowInv
<1>4. /\ offer' = [p \in OfferId |->
           IF p \in Linked(o) THEN "DECLINED" ELSE IF p = o THEN "ACCEPTED" ELSE offer[p]]
      /\ Linked(o) = PendingOf(c) \ {o}
      /\ quota' = quota
  BY <1>3 DEF Accept, Linked, configVars
<1>5. \A p \in OfferId :
        offer'[p] = IF p = o THEN "ACCEPTED"
                    ELSE IF offer[p] = "PENDING" /\ CandOf(p) = c THEN "DECLINED"
                    ELSE offer[p]
  BY <1>4 DEF PendingOf
<1>6. SeatsTaken[c] = {}
  BY <1>1, <1>3 DEF SeatsTaken
<1>7. ActOf(o) \in OpenOffers[c]
  BY <1>1, <1>2, OpenElement
<1>8. OpenOffers' = [OpenOffers EXCEPT ![c] = {}]
  <2>1. OpenOffers' = [d \in Candidate |->
          {ActOf(p) : p \in {q \in OfferId : offer'[q] = "PENDING" /\ CandOf(q) = d}}]
    BY DEF OpenOffers, PendingOf, ActOf, CandOf
  <2>2. OpenOffers = [d \in Candidate |->
          {ActOf(p) : p \in {q \in OfferId : offer[q] = "PENDING" /\ CandOf(q) = d}}]
    BY DEF OpenOffers, PendingOf
  <2>3. \A q \in OfferId : CandOf(q) = c => offer'[q] # "PENDING"
    BY <1>5
  <2>4. \A q \in OfferId : CandOf(q) # c => offer'[q] = offer[q]
    BY <1>5
  <2>5. \A d \in Candidate :
          {q \in OfferId : offer'[q] = "PENDING" /\ CandOf(q) = d} =
            IF d = c THEN {} ELSE {q \in OfferId : offer[q] = "PENDING" /\ CandOf(q) = d}
    BY <2>3, <2>4
  <2> HIDE DEF c
  <2>6. QED
    BY <2>1, <2>2, <2>5
<1>9. SeatsTaken' = [SeatsTaken EXCEPT ![c] = {ActOf(o)}]
  <2>1. SeatsTaken' = [d \in Candidate |->
          {ActOf(p) : p \in {q \in OfferId : offer'[q] = "ACCEPTED" /\ CandOf(q) = d}}]
    BY DEF SeatsTaken, ActOf, CandOf
  <2>2. \A q \in OfferId : CandOf(q) = c => (offer'[q] = "ACCEPTED" <=> q = o)
    BY <1>3, <1>5
  <2>3. \A q \in OfferId : CandOf(q) # c => offer'[q] = offer[q]
    BY <1>5
  <2>4. \A d \in Candidate :
          {q \in OfferId : offer'[q] = "ACCEPTED" /\ CandOf(q) = d} =
            IF d = c THEN {o} ELSE {q \in OfferId : offer[q] = "ACCEPTED" /\ CandOf(q) = d}
    BY <2>2, <2>3
  <2>5. {ActOf(p) : p \in {o}} = {ActOf(o)}
    OBVIOUS
  <2> HIDE DEF c
  <2>6. QED
    BY <2>1, <2>4, <2>5 DEF SeatsTaken
<1>10. QED
  BY <1>1, <1>4, <1>6, <1>7, <1>8, <1>9 DEF Promise!Take

\* The holders of an activity are no more than its active offers.
LEMMA HoldersFit ==
  ASSUME NEW a \in Activity
  PROVE  /\ Cardinality(Promise!Holders(a)) <= Occupied(a)
         /\ Cardinality(Promise!Holders(a)) \in Nat
<1>1. Active \cap OffersOf(a) \in SUBSET OfferId
  BY DEF Active
<1>2. ASSUME NEW c \in Promise!Holders(a)
      PROVE  \E o \in Active \cap OffersOf(a) : c = CandOf(o)
  <2>1. c \in Candidate /\ (a \in OpenOffers[c] \/ a \in SeatsTaken[c])
    BY <1>2 DEF Promise!Holders
  <2>2. PICK o \in OfferId : /\ offer[o] \in {"PENDING", "ACCEPTED"}
                             /\ CandOf(o) = c /\ ActOf(o) = a
    BY <2>1, OpenElement DEF SeatsTaken
  <2>3. QED
    BY <2>2 DEF Active, OffersOf
<1>3. QED
  BY <1>1, <1>2, FewerHolders DEF Occupied

\* A change of quota is a Resize.
LEMMA ResizedIsResize ==
  ASSUME TypeOK, TypeOK', QuotaRespected', Resized
  PROVE  \E a \in Activity : Promise!Resize(a)
<1>1. PICK a \in Activity : \E q \in Quotas[a] : quota' = [quota EXCEPT ![a] = q]
  BY DEF Resized
<1>2. PICK q \in Quotas[a] : quota' = [quota EXCEPT ![a] = q]
  BY <1>1
<1>3. quota'[a] = q /\ q \in Nat
  BY <1>2, BoundAssumption DEF TypeOK
<1>4. Occupied(a) <= q
  <2>1. Occupied(a)' = Occupied(a)
    BY DEF Resized, Occupied, Active, OffersOf, ActOf
  <2>2. QED
    BY <1>3, <2>1 DEF QuotaRespected
<1>5. Cardinality(Promise!Holders(a)) <= q
  BY <1>3, <1>4, HoldersFit, OccupiedType
<1>6. q \in UNION {Quotas[b] : b \in Activity}
  OBVIOUS
<1>7. QED
  BY <1>2, <1>5, <1>6, SameSeats, SameCardinality DEF Promise!Resize, Resized

\* Every step of Admission is a step of SingleAcceptance, or none.
LEMMA StepRefines ==
  ASSUME TypeOK, TypeOK', RowInv, RowInv', QuotaRespected', OfferSteps, [Next]_vars
  PROVE  [Promise!AdmissionNext]_(Promise!admissionVars)
<1>1. Kinds
  BY NextKinds
<1>2. ASSUME NEW o \in OfferId, Accept(o) PROVE Promise!AdmissionNext
  BY <1>2, AcceptIsTake DEF Promise!AdmissionNext
<1>3. ASSUME NEW a \in Activity, Local(a) PROVE Promise!AdmissionNext
  BY <1>3, LocalIsIssue DEF Promise!AdmissionNext
<1>4. ASSUME Resized PROVE Promise!AdmissionNext
  BY <1>4, ResizedIsResize DEF Promise!AdmissionNext
<1>5. ASSUME Kept PROVE UNCHANGED Promise!admissionVars
  BY <1>5, SameSeats DEF Kept, Promise!admissionVars
<1>6. QED
  BY <1>1, <1>2, <1>3, <1>4, <1>5 DEF Kinds

\* INV-1, INV-2 and D1 together (acceptTx, fill, UpdateQuota and every other
\* transaction): the offer rows behave as SingleAcceptance says.
THEOREM OneSeatEach == Spec => OneSeat
<1> DEFINE Inv == TypeOK /\ RowInv /\ QuotaRespected /\ OrderInv
<1>1. Init => Inv
  BY InitType, InitRows, InitQuota, InitOrder
<1>2. Inv /\ [Next]_vars => Inv' /\ [Promise!AdmissionNext]_(Promise!admissionVars)
  BY NextType, NextRows, NextQuota, NextOrder, StepRefines
<1>3. QED
  BY <1>1, <1>2, InitSeats, PTL DEF Spec, OneSeat, Promise!AdmissionSpec
=============================================================================
