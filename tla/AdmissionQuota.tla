---------------------------- MODULE AdmissionQuota ----------------------------
(***************************************************************************)
(* The seats of an activity, for every value of the constants: never more  *)
(* taken than the quota has, and none left free unsignalled while an       *)
(* eligible application of a running AUTO activity waits for it.           *)
(***************************************************************************)
EXTENDS AdmissionRows, FiniteSetTheorems, WellFoundedInduction

\* There are finitely many offer rows.
LEMMA FiniteOffers ==
  /\ IsFiniteSet(OfferId)
  /\ \A S : S \subseteq OfferId => IsFiniteSet(S) /\ Cardinality(S) \in Nat
<1>1. IsFiniteSet(Attempt)
  BY FS_Interval, BoundAssumption DEF Attempt
<1>2. IsFiniteSet(OfferId)
  BY <1>1, FS_Product, ApplicationAssumption DEF OfferId
<1>3. QED
  BY <1>2, FS_Subset, FS_CardinalityType

\* There are finitely many applications.
LEMMA FiniteApplications ==
  \A S : S \subseteq Application => IsFiniteSet(S) /\ Cardinality(S) \in Nat
  BY ApplicationAssumption, FS_Subset, FS_CardinalityType

-----------------------------------------------------------------------------
\* The walk of fill issues at most as many offers as there is room for.

\* Some application of a non-empty set has the most eligible ones ahead of it.
LEMMA FarthestExists ==
  ASSUME NEW T \in SUBSET Application, T # {}, NEW n \in Nat,
         \A i \in T : Cardinality(Ahead(i)) < n
  PROVE  \E i \in T : \A j \in T : Cardinality(Ahead(j)) <= Cardinality(Ahead(i))
<1> DEFINE left(i) == n - Cardinality(Ahead(i))
           L == {left(i) : i \in T}
<1>1. \A i \in T : Cardinality(Ahead(i)) \in Nat /\ left(i) \in Nat
  <2>1. \A i \in T : Ahead(i) \subseteq Application
    BY DEF Ahead, Eligible, Waiting
  <2>2. \A i \in T : Cardinality(Ahead(i)) \in Nat
    BY <2>1, FiniteApplications
  <2>3. QED
    BY <2>2
<1>2. L \subseteq Nat /\ L # {}
  BY <1>1
<1>3. PICK m \in L : \A k \in L : ~(<<k, m>> \in OpToRel(<, Nat))
  <2> HIDE DEF L
  <2>1. QED
    BY <1>2, NatLessThanWellFounded, WFMin
<1>4. \A k \in L : m <= k
  <2> HIDE DEF L
  <2>1. \A k \in Nat : k < m /\ m \in Nat => <<k, m>> \in OpToRel(<, Nat)
    BY Zenon DEF OpToRel
  <2>2. \A k \in L : ~(k < m)
    BY <1>2, <1>3, <2>1
  <2>3. QED
    BY <1>2, <2>2
<1>5. PICK i \in T : m = left(i)
  OBVIOUS
<1>6. \A j \in T : left(i) <= left(j)
  BY <1>4, <1>5
<1>7. QED
  BY <1>1, <1>6

\* The walk issues at most "room" offers: the lowest ranked issued application
\* has all the others ahead of it, and fewer than "room" are.
LEMMA WalkBound ==
  ASSUME NEW a \in Activity, NEW room \in Int
  PROVE  /\ IsFiniteSet(Issued(a, room))
         /\ Cardinality(Issued(a, room)) <= IF room > 0 THEN room ELSE 0
<1> DEFINE T == Issued(a, room)
<1>1. T \subseteq Application /\ T \subseteq Eligible(a)
  BY DEF Issued, Eligible, Waiting
<1>2. IsFiniteSet(T)
  BY <1>1, FiniteApplications
<1>3. \A i \in T : Ahead(i) \subseteq Application /\ Cardinality(Ahead(i)) < room
  BY DEF Issued, Reached, Ahead, Eligible, Waiting
<1>4. \A i \in T : IsFiniteSet(Ahead(i)) /\ Cardinality(Ahead(i)) \in Nat
  BY <1>3, FiniteApplications
<1>5. CASE T = {}
  BY <1>5, FS_EmptySet
<1>6. CASE T # {}
  <2>1. room \in Nat /\ room > 0
    BY <1>3, <1>4, <1>6
  <2>2. PICK i \in T : \A j \in T : Cardinality(Ahead(j)) <= Cardinality(Ahead(i))
    <3> HIDE DEF T
    <3>1. QED
      BY <1>1, <1>3, <1>6, <2>1, FarthestExists
  <2>3. ASSUME NEW j \in T, j # i PROVE j \in Ahead(i)
    <3>1. j \in Eligible(a) /\ i \in Eligible(a) /\ ActivityOf[i] = a /\ ActivityOf[j] = a
      BY <1>1 DEF Eligible, Waiting
    <3>2. RankOf[i] \in Nat /\ RankOf[j] \in Nat /\ RankOf[i] # RankOf[j]
      BY <1>1, <2>3, <3>1, ApplicationAssumption
    <3>3. ASSUME RankOf[i] < RankOf[j] PROVE FALSE
      <4>1. Ahead(i) \cup {i} \subseteq Ahead(j)
        <5>1. ASSUME NEW h \in Ahead(i) PROVE h \in Ahead(j)
          <6>1. h \in Eligible(a) /\ RankOf[h] < RankOf[i] /\ h \in Application
            BY <3>1 DEF Ahead, Eligible, Waiting
          <6>2. RankOf[h] \in Nat
            BY <6>1, ApplicationAssumption
          <6>3. QED
            BY <3>1, <3>2, <3>3, <6>1, <6>2 DEF Ahead
        <5>2. i \in Ahead(j)
          BY <3>1, <3>3 DEF Ahead
        <5>3. QED
          BY <5>1, <5>2
      <4>2. i \notin Ahead(i)
        BY <3>2 DEF Ahead
      <4>3. Cardinality(Ahead(i) \cup {i}) = Cardinality(Ahead(i)) + 1
        BY <1>4, <4>2, FS_AddElement
      <4>4. Cardinality(Ahead(i) \cup {i}) <= Cardinality(Ahead(j))
        BY <1>4, <4>1, FS_Subset
      <4>5. QED
        BY <1>4, <2>2, <4>3, <4>4
    <3>4. QED
      BY <3>1, <3>2, <3>3 DEF Ahead
  <2>4. T \subseteq Ahead(i) \cup {i}
    BY <2>3
  <2>5. IsFiniteSet(Ahead(i) \cup {i}) /\ Cardinality(Ahead(i) \cup {i}) <= Cardinality(Ahead(i)) + 1
    BY <1>4, FS_AddElement
  <2>6. Cardinality(T) <= Cardinality(Ahead(i) \cup {i})
    BY <2>4, <2>5, FS_Subset
  <2>7. Cardinality(T) \in Nat /\ Cardinality(Ahead(i) \cup {i}) \in Nat
    BY <1>2, <2>5, FS_CardinalityType
  <2>8. QED
    BY <1>2, <1>3, <1>4, <2>1, <2>5, <2>6, <2>7
<1>7. QED
  BY <1>2, <1>5, <1>6

\* An INSERT per application: at most one new row each.
LEMMA NewRowsBound ==
  ASSUME NEW T \in SUBSET Application
  PROVE  /\ NewRows(T) \subseteq OfferId
         /\ Cardinality(NewRows(T)) <= Cardinality(T)
<1>1. \A o, p \in NewRows(T) : o[1] = p[1] => o = p
  <2> SUFFICES ASSUME NEW o \in NewRows(T), NEW p \in NewRows(T), o[1] = p[1]
               PROVE  o = p
    OBVIOUS
  <2>1. o[2] \in NextSlots(o[1]) /\ p[2] \in NextSlots(o[1])
    BY DEF NewRows
  <2>2. o[2] \in Attempt /\ p[2] \in Attempt /\ o[2] <= p[2] /\ p[2] <= o[2]
    BY <2>1 DEF NextSlots, FreeSlots
  <2>3. o[2] = p[2]
    BY <2>2, BoundAssumption DEF Attempt
  <2>4. QED
    BY <2>3, OfferPair DEF NewRows
<1> DEFINE f == [o \in NewRows(T) |-> o[1]]
<1>2. f \in Injection(NewRows(T), T)
  BY <1>1 DEF Injection, IsInjective, NewRows
<1>3. IsFiniteSet(T)
  BY FiniteApplications
<1>4. QED
  BY <1>2, <1>3, FS_Injection DEF NewRows

-----------------------------------------------------------------------------
\* The groups of writes and the seats of an activity.

Seated(b) == Active \cap OffersOf(b)

\* The occupancy is a natural number.
LEMMA OccupiedType ==
  \A b : Seated(b) \subseteq OfferId /\ IsFiniteSet(Seated(b)) /\ Occupied(b) \in Nat
  BY FiniteOffers DEF Seated, Occupied, Active, OffersOf

\* Nothing is inserted: no activity occupies more seats than before.
LEMMA NoInsertQuota ==
  ASSUME TypeOK, QuotaRespected, UNCHANGED quota,
         \A o \in OfferId : offer'[o] \in {"PENDING", "ACCEPTED"} =>
                           offer[o] \in {"PENDING", "ACCEPTED"}
  PROVE  QuotaRespected'
<1> SUFFICES ASSUME NEW b \in Activity PROVE Occupied(b)' <= quota[b]
  BY DEF QuotaRespected
<1>1. Seated(b)' \subseteq Seated(b)
  BY DEF Seated, Active, OffersOf, ActOf
<1>2. Cardinality(Seated(b)') <= Cardinality(Seated(b))
  BY <1>1, OccupiedType, FS_Subset
<1>3. Cardinality(Seated(b)') = Occupied(b)' /\ Cardinality(Seated(b)) = Occupied(b)
  BY DEF Occupied, Seated
<1>4. Occupied(b) <= quota[b] /\ quota[b] \in Nat /\ Occupied(b) \in Nat
  BY OccupiedType DEF QuotaRespected, TypeOK
<1>5. Occupied(b)' \in Nat
  <2>1. Seated(b)' \subseteq OfferId
    BY DEF Seated, Active
  <2>2. QED
    BY <1>3, <2>1, FiniteOffers
<1>6. QED
  BY <1>2, <1>3, <1>4, <1>5

\* Offers are inserted in one activity, at most as many as there is room for
\* once the offers in S have left.
LEMMA InsertQuota ==
  ASSUME TypeOK, QuotaRespected, UNCHANGED quota, NEW a \in Activity,
         NEW S \in SUBSET OfferId, NEW T \in SUBSET Application,
         \A i \in T : ActivityOf[i] = a,
         Cardinality(T) = 0 \/ Cardinality(T) <= Room(a, S),
         \A o \in OfferId : offer'[o] \in {"PENDING", "ACCEPTED"} =>
           o \in NewRows(T) \/ (o \notin S /\ offer[o] \in {"PENDING", "ACCEPTED"})
  PROVE  QuotaRespected'
<1> SUFFICES ASSUME NEW b \in Activity PROVE Occupied(b)' <= quota[b]
  BY DEF QuotaRespected
<1>1. /\ NewRows(T) \subseteq OfferId
      /\ Cardinality(NewRows(T)) <= Cardinality(T)
      /\ Cardinality(NewRows(T)) \in Nat /\ Cardinality(T) \in Nat
      /\ IsFiniteSet(NewRows(T))
  BY NewRowsBound, FiniteOffers, FiniteApplications
<1>2. Occupied(b)' = Cardinality(Seated(b)') /\ Occupied(b) = Cardinality(Seated(b))
  BY DEF Occupied, Seated
<1>3. Occupied(b) <= quota[b] /\ quota[b] \in Nat /\ Occupied(b) \in Nat
  BY OccupiedType DEF QuotaRespected, TypeOK
<1>4. Seated(b)' \subseteq OfferId
  BY DEF Seated, Active
<1>5. Occupied(b)' \in Nat /\ IsFiniteSet(Seated(b)')
  BY <1>2, <1>4, FiniteOffers
<1>6. CASE b # a \/ Cardinality(T) = 0
  <2>1. Seated(b)' \subseteq Seated(b)
    <3>1. ASSUME NEW o \in Seated(b)' PROVE o \notin NewRows(T)
      <4>1. CASE b # a
        BY <3>1, <4>1 DEF NewRows, Seated, OffersOf, ActOf
      <4>2. CASE Cardinality(T) = 0
        <5>1. T = {}
          BY <4>2, FiniteApplications, FS_EmptySet
        <5>2. QED
          BY <5>1 DEF NewRows
      <4>3. QED
        BY <1>6, <4>1, <4>2
    <3>2. QED
      BY <3>1 DEF Seated, Active, OffersOf, ActOf
  <2>2. Cardinality(Seated(b)') <= Cardinality(Seated(b))
    BY <2>1, OccupiedType, FS_Subset
  <2>3. QED
    BY <1>2, <1>3, <1>5, <2>2
<1>7. CASE b = a /\ Cardinality(T) <= Room(a, S)
  <2> DEFINE kept == Seated(a) \ S
  <2>1. Seated(b)' \subseteq kept \cup NewRows(T)
    BY <1>7 DEF Seated, Active, OffersOf, ActOf
  <2>2. IsFiniteSet(kept) /\ Cardinality(kept) \in Nat
    BY OccupiedType, FiniteOffers
  <2>3. /\ IsFiniteSet(kept \cup NewRows(T))
        /\ Cardinality(kept \cup NewRows(T)) <= Cardinality(kept) + Cardinality(NewRows(T))
    <3>1. Cardinality(kept \cap NewRows(T)) \in Nat
      BY <2>2, FS_Intersection, FS_CardinalityType
    <3> HIDE DEF kept
    <3>2. /\ IsFiniteSet(kept \cup NewRows(T))
          /\ Cardinality(kept \cup NewRows(T)) =
               Cardinality(kept) + Cardinality(NewRows(T)) - Cardinality(kept \cap NewRows(T))
      BY <1>1, <2>2, FS_Union
    <3>3. QED
      BY <1>1, <2>2, <3>1, <3>2
  <2>4. Cardinality(Seated(b)') <= Cardinality(kept \cup NewRows(T))
    BY <2>1, <2>3, FS_Subset
  <2>5. Room(a, S) = quota[a] - Cardinality(kept)
    BY DEF Room, Seated
  <2>6. Cardinality(kept \cup NewRows(T)) \in Nat
    BY <2>3, FS_CardinalityType
  <2> HIDE DEF kept
  <2>7. QED
    BY <1>1, <1>2, <1>3, <1>5, <1>7, <2>2, <2>3, <2>4, <2>5, <2>6
<1>8. QED
  BY <1>6, <1>7

\* A fill given at most the seats left keeps the quota.
LEMMA FillQuota ==
  ASSUME TypeOK, QuotaRespected, UNCHANGED quota, NEW a \in Activity,
         NEW S \in SUBSET OfferId, NEW room \in Int,
         room <= 0 \/ room <= Room(a, S), FillAfter(a, S, room)
  PROVE  QuotaRespected'
<1> DEFINE T == Issued(a, room)
<1>1. T \in SUBSET Application /\ \A i \in T : ActivityOf[i] = a
  BY DEF Issued, Eligible, Waiting
<1>2. Cardinality(T) \in Nat /\ Cardinality(T) <= IF room > 0 THEN room ELSE 0
  BY <1>1, WalkBound, FiniteApplications
<1>3. Room(a, S) \in Int
  BY FiniteOffers DEF TypeOK, Room, Active, OffersOf
<1>4. \A o \in OfferId : offer'[o] \in {"PENDING", "ACCEPTED"} =>
           o \in NewRows(T) \/ (o \notin S /\ offer[o] \in {"PENDING", "ACCEPTED"})
  BY DEF FillAfter, WithOffers
<1> HIDE DEF T
<1>5. Cardinality(T) = 0 \/ Cardinality(T) <= Room(a, S)
  BY <1>2, <1>3
<1>6. QED
  BY <1>1, <1>4, <1>5, InsertQuota

\* A settlement only frees seats.
LEMMA SettleQuota ==
  ASSUME TypeOK, QuotaRespected, UNCHANGED quota, NEW S, SettleExpired(S)
  PROVE  QuotaRespected'
<1>1. \A o \in OfferId : offer'[o] \in {"PENDING", "ACCEPTED"} =>
                        offer[o] \in {"PENDING", "ACCEPTED"}
  BY DEF SettleExpired, WithOffers
<1>2. QED
  BY <1>1, NoInsertQuota

\* FillByRank asks for no seat, or for at most those left.
LEMMA SeatsType ==
  ASSUME TypeOK, NEW a \in Activity, NEW S
  PROVE  /\ Room(a, S) \in Int /\ Seats(a, S) \in Int
         /\ Seats(a, S) <= 0 \/ Seats(a, S) <= Room(a, S)
<1>1. Room(a, S) \in Int
  BY FiniteOffers DEF TypeOK, Room, Active, OffersOf
<1>2. QED
  BY <1>1 DEF Seats

\* The candidates' requests keep the quota: none makes another row active.
LEMMA CandidateQuota == TypeOK /\ QuotaRespected /\ CandidateNext => QuotaRespected'
<1> SUFFICES ASSUME TypeOK, QuotaRespected, NEW o \in OfferId,
                    AcceptExpired(o) \/ Accept(o) \/ Decline(o)
             PROVE  QuotaRespected'
  BY DEF CandidateNext
<1>1. CASE AcceptExpired(o)
  BY <1>1, SettleQuota DEF AcceptExpired, configVars
<1>2. CASE Accept(o) \/ Decline(o)
  <2>1. UNCHANGED quota /\ \A p \in OfferId : offer'[p] \in {"PENDING", "ACCEPTED"} =>
                                              offer[p] \in {"PENDING", "ACCEPTED"}
    BY <1>2 DEF Accept, Decline, WithOffers, configVars
  <2>2. QED
    BY <2>1, NoInsertQuota
<1>3. QED
  BY <1>1, <1>2

\* The fills that take what Seats allows.
LEMMA SeatsQuota ==
  ASSUME TypeOK, QuotaRespected, UNCHANGED quota, NEW a \in Activity,
         NEW S \in SUBSET OfferId, FillAfter(a, S, Seats(a, S))
  PROVE  QuotaRespected'
  BY SeatsType, FillQuota

\* The refills, however late, keep the quota.
LEMMA BackgroundQuota ==
  TypeOK /\ QuotaRespected /\ (FollowUpNext \/ Failure \/ WorkerNext) => QuotaRespected'
<1> SUFFICES ASSUME TypeOK, QuotaRespected PROVE FollowUpNext \/ Failure \/ WorkerNext => QuotaRespected'
  OBVIOUS
<1>1. ASSUME NEW a \in Activity, PostCommitRefill(a) \/ ExecuteIntents(a)
      PROVE  QuotaRespected'
  <2>1. FillAfter(a, {}, Seats(a, {})) /\ UNCHANGED quota
    BY <1>1 DEF PostCommitRefill, ExecuteIntents, FillByRank, configVars
  <2>2. QED
    BY <2>1, SeatsQuota
<1>2. ASSUME NEW a \in Activity, NEW S, SettleDue(a, S)
      PROVE  QuotaRespected'
  BY <1>2, SettleQuota DEF SettleDue, configVars
<1>3. ASSUME UNCHANGED <<offer, quota>> PROVE QuotaRespected'
  BY <1>3 DEF QuotaRespected, Occupied, Active, OffersOf, ActOf
<1>4. ASSUME NEW a \in Activity,
             \/ RecheckRefill(a) \/ RefillFails(a) \/ QuotaRefillFails(a)
             \/ QuotaSignalLost(a)
      PROVE  QuotaRespected'
  BY <1>3, <1>4
  DEF RecheckRefill, RefillFails, QuotaRefillFails, QuotaSignalLost, rowVars, configVars
<1>5. ASSUME Crash PROVE QuotaRespected'
  BY <1>3, <1>5 DEF Crash, rowVars, configVars
<1>6. ASSUME NEW o \in OfferId, PassDeadline(o) PROVE QuotaRespected'
  BY <1>3, <1>6 DEF PassDeadline, configVars
<1>7. QED
  BY <1>1, <1>2, <1>4, <1>5, <1>6 DEF FollowUpNext, Failure, WorkerNext

\* The start, the resume and the change of the quota keep it.
LEMMA LifecycleQuota == TypeOK /\ QuotaRespected /\ LifecycleNext => QuotaRespected'
<1> SUFFICES ASSUME TypeOK, QuotaRespected PROVE LifecycleNext => QuotaRespected'
  OBVIOUS
<1>1. ASSUME NEW a \in Activity, StartAdmission(a)
      PROVE  QuotaRespected'
  <2> DEFINE room == IF mode[a] = "AUTO" THEN Room(a, {}) ELSE 0
  <2>1. room \in Int /\ (room <= 0 \/ room <= Room(a, {}))
    BY SeatsType
  <2>2. FillAfter(a, {}, room) /\ UNCHANGED quota
    BY <1>1 DEF StartAdmission, configVars
  <2> HIDE DEF room
  <2>3. QED
    BY <2>1, <2>2, FillQuota
<1>2. ASSUME NEW a \in Activity, ResumeRefill(a)
      PROVE  QuotaRespected'
  <2>1. FillAfter(a, Due(a), Seats(a, Due(a))) /\ UNCHANGED quota
    BY <1>2 DEF ResumeRefill, configVars
  <2>2. Due(a) \in SUBSET OfferId
    BY DEF Due, OffersOf
  <2>3. QED
    BY <2>1, <2>2, SeatsQuota
<1>3. ASSUME NEW a \in Activity, Activate(a)
      PROVE  QuotaRespected'
  BY <1>3, SettleQuota DEF Activate, configVars
<1>4. ASSUME NEW a \in Activity, NEW q \in Quotas[a], UpdateQuota(a, q)
      PROVE  QuotaRespected'
  <2> SUFFICES ASSUME NEW b \in Activity PROVE Occupied(b)' <= quota'[b]
    BY DEF QuotaRespected
  <2>1. Occupied(b)' = Occupied(b)
    BY <1>4 DEF UpdateQuota, rowVars, Occupied, Active, OffersOf, ActOf
  <2>2. q >= Occupied(a) /\ quota'[b] = IF b = a THEN q ELSE quota[b]
    BY <1>4 DEF UpdateQuota, TypeOK
  <2>3. q \in Nat /\ Occupied(a) \in Nat
    BY BoundAssumption, OccupiedType
  <2>4. QED
    BY <2>1, <2>2, <2>3 DEF QuotaRespected
<1>5. ASSUME UNCHANGED <<offer, quota>> PROVE QuotaRespected'
  BY <1>5 DEF QuotaRespected, Occupied, Active, OffersOf, ActOf
<1>6. ASSUME NEW a \in Activity,
             \/ Disable(a) \/ Archive(a) \/ PauseRefill(a)
             \/ \E m \in Modes[a] : UpdateOfferMode(a, m)
      PROVE  QuotaRespected'
  BY <1>5, <1>6 DEF Disable, Archive, PauseRefill, UpdateOfferMode, rowVars, configVars
<1>7. ASSUME PauseAllAutoRefills PROVE QuotaRespected'
  BY <1>5, <1>7 DEF PauseAllAutoRefills, rowVars, configVars
<1>8. QED
  BY <1>1, <1>2, <1>3, <1>4, <1>6, <1>7 DEF LifecycleNext

\* Issuing by batch, by hand and as a special offer keeps it.
LEMMA IssueQuota == TypeOK /\ QuotaRespected /\ IssueNext => QuotaRespected'
<1> SUFFICES ASSUME TypeOK, QuotaRespected PROVE IssueNext => QuotaRespected'
  OBVIOUS
<1>1. ASSUME NEW a \in Activity, NEW limit \in Quotas[a], IssueBatch(a, limit)
      PROVE  QuotaRespected'
  <2> DEFINE room == IF limit < Room(a, {}) THEN limit ELSE Room(a, {})
  <2>1. limit \in Int
    BY BoundAssumption
  <2>2. room \in Int /\ room <= Room(a, {})
    BY <2>1, SeatsType
  <2>3. FillAfter(a, {}, room) /\ UNCHANGED quota
    BY <1>1 DEF IssueBatch, configVars
  <2> HIDE DEF room
  <2>4. QED
    BY <2>2, <2>3, FillQuota
<1>2. ASSUME NEW i \in Application, InsertOffer(i)
      PROVE  QuotaRespected'
  <2>1. UNCHANGED quota /\ Room(ActivityOf[i], {}) > 0
    BY <1>2 DEF InsertOffer, configVars
  <2>2. ActivityOf[i] \in Activity /\ Room(ActivityOf[i], {}) \in Int
    BY SeatsType, ApplicationAssumption
  <2>3. Cardinality({i}) <= Room(ActivityOf[i], {})
    BY <2>1, <2>2, FS_Singleton
  <2>4. \A o \in OfferId : offer'[o] \in {"PENDING", "ACCEPTED"} =>
          o \in NewRows({i}) \/ (o \notin {} /\ offer[o] \in {"PENDING", "ACCEPTED"})
    BY <1>2 DEF InsertOffer, WithOffers
  <2> DEFINE T == {i}
             none == {}
  <2>5. /\ T \in SUBSET Application /\ none \in SUBSET OfferId
        /\ \A j \in T : ActivityOf[j] = ActivityOf[i]
    OBVIOUS
  <2>6. Cardinality(T) <= Room(ActivityOf[i], none)
    BY <2>3
  <2>7. \A o \in OfferId : offer'[o] \in {"PENDING", "ACCEPTED"} =>
          o \in NewRows(T) \/ (o \notin none /\ offer[o] \in {"PENDING", "ACCEPTED"})
    BY <2>4
  <2> HIDE DEF T, none
  <2>8. QED
    BY <2>1, <2>2, <2>5, <2>6, <2>7, InsertQuota
<1>3. QED
  BY <1>1, <1>2 DEF IssueNext, IssueManual, IssueSpecial

\* No offer is active before the admission starts.
LEMMA InitQuota == Init => QuotaRespected
<1> SUFFICES ASSUME Init, NEW a \in Activity PROVE Occupied(a) <= quota[a]
  BY DEF QuotaRespected
<1>1. Active \cap OffersOf(a) = {}
  BY DEF Init, Active
<1>2. Occupied(a) = 0
  BY <1>1, FS_EmptySet DEF Occupied
<1>3. quota[a] \in Nat
  BY InitType DEF TypeOK
<1>4. QED
  BY <1>2, <1>3

\* Every step keeps the quota.
LEMMA NextQuota == TypeOK /\ QuotaRespected /\ [Next]_vars => QuotaRespected'
<1>1. QuotaRespected /\ UNCHANGED vars => QuotaRespected'
  BY DEF vars, rowVars, configVars, QuotaRespected, Occupied, Active, OffersOf, ActOf
<1>2. QED
  BY <1>1, CandidateQuota, BackgroundQuota, LifecycleQuota, IssueQuota DEF Next, Steady

\* INV-1: whatever issues offers, the PENDING and ACCEPTED ones of an activity
\* never exceed its quota (fill, IssueManual, IssueSpecial, IssueBatch, UpdateQuota).
THEOREM NeverOverIssued == Spec => []QuotaRespected
  BY InitType, NextType, InitQuota, NextQuota, PTL DEF Spec

-----------------------------------------------------------------------------
\* A fill for all the free seats leaves no seat or nobody eligible.

\* The walk leaves nobody out while it may still issue: when some eligible
\* application is not issued an offer, "room" others are.
LEMMA WalkComplete ==
  ASSUME NEW a \in Activity, NEW room \in Int, Eligible(a) \ Issued(a, room) # {}
  PROVE  room <= Cardinality(Issued(a, room))
<1> DEFINE T == Issued(a, room)
           L == {RankOf[i] : i \in Eligible(a) \ T}
<1>1. Eligible(a) \subseteq Application /\ T \subseteq Eligible(a)
  BY DEF Issued, Eligible, Waiting
<1>2. L \subseteq Nat /\ L # {}
  BY <1>1, ApplicationAssumption
<1>3. PICK m \in L : \A k \in L : ~(<<k, m>> \in OpToRel(<, Nat))
  <2> HIDE DEF L
  <2>1. QED
    BY <1>2, NatLessThanWellFounded, WFMin
<1>4. \A k \in L : ~(k < m)
  <2> HIDE DEF L
  <2>1. \A k \in Nat : k < m /\ m \in Nat => <<k, m>> \in OpToRel(<, Nat)
    BY Zenon DEF OpToRel
  <2>2. QED
    BY <1>2, <1>3, <2>1
<1>5. PICK i \in Eligible(a) \ T : m = RankOf[i]
  OBVIOUS
<1>6. Ahead(i) \subseteq T
  <2> SUFFICES ASSUME NEW j \in Ahead(i), j \notin T PROVE FALSE
    OBVIOUS
  <2>1. j \in Eligible(a) /\ RankOf[j] < m
    BY <1>5 DEF Ahead, Eligible, Waiting
  <2>2. QED
    BY <1>4, <2>1
<1>7. IsFiniteSet(T) /\ Cardinality(T) \in Nat /\ Cardinality(Ahead(i)) <= Cardinality(T)
      /\ Cardinality(Ahead(i)) \in Nat
  <2>1. IsFiniteSet(T) /\ Cardinality(T) \in Nat
    BY <1>1, FiniteApplications
  <2> HIDE DEF T
  <2>2. QED
    BY <1>6, <2>1, FS_Subset, FS_CardinalityType
<1>8. ~(Cardinality(Ahead(i)) < room)
  BY <1>1, <1>5 DEF Issued, Reached, Eligible
<1>9. QED
  BY <1>7, <1>8

\* An INSERT per application: exactly one new row each.
LEMMA NewRowsExact ==
  ASSUME NEW T \in SUBSET Application, \A i \in T : FreeSlots(i) # {}
  PROVE  Cardinality(T) <= Cardinality(NewRows(T))
<1>1. \A i \in T : NextSlots(i) # {}
  <2> SUFFICES ASSUME NEW i \in T PROVE NextSlots(i) # {}
    OBVIOUS
  <2>1. FreeSlots(i) \subseteq Nat
    BY BoundAssumption DEF FreeSlots, Attempt
  <2>2. PICK m \in FreeSlots(i) : \A k \in FreeSlots(i) : ~(<<k, m>> \in OpToRel(<, Nat))
    BY <2>1, NatLessThanWellFounded, WFMin
  <2>3. \A k \in Nat : k < m /\ m \in Nat => <<k, m>> \in OpToRel(<, Nat)
    BY Zenon DEF OpToRel
  <2>4. \A k \in FreeSlots(i) : ~(k < m)
    BY <2>1, <2>2, <2>3
  <2>5. \A k \in FreeSlots(i) : m <= k
    BY <2>1, <2>4
  <2>6. QED
    BY <2>5 DEF NextSlots
<1> DEFINE f == [i \in T |-> <<i, CHOOSE k \in NextSlots(i) : TRUE>>]
<1>2. \A i \in T : (CHOOSE k \in NextSlots(i) : TRUE) \in NextSlots(i)
  BY <1>1
<1>3. \A i \in T : f[i] \in NewRows(T)
  <2> SUFFICES ASSUME NEW i \in T PROVE f[i] \in NewRows(T)
    OBVIOUS
  <2>1. PICK k \in NextSlots(i) : f[i] = <<i, k>>
    BY <1>2
  <2>2. k \in Attempt
    BY DEF NextSlots, FreeSlots
  <2> HIDE DEF f
  <2>3. QED
    BY <2>1, <2>2 DEF NewRows, OfferId
<1>4. f \in Injection(T, NewRows(T))
  BY <1>3 DEF Injection, IsInjective
<1>5. IsFiniteSet(NewRows(T))
  BY NewRowsBound, FiniteOffers
<1> HIDE DEF f
<1>6. QED
  BY <1>4, <1>5, FS_Injection

\* After a fill for all the free seats, no seat is free or nobody eligible waits.
LEMMA FillComplete ==
  ASSUME TypeOK, NEW a \in Activity, NEW S \in SUBSET Due(a), UNCHANGED quota,
         FillAfter(a, S, Room(a, S))
  PROVE  ~(Occupied(a) < quota[a] /\ Eligible(a) # {})'
<1> DEFINE T == Issued(a, Room(a, S))
           kept == Seated(a) \ S
<1>1. SUFFICES ASSUME NEW i \in Eligible(a)'
               PROVE  quota[a] <= Occupied(a)' /\ quota[a] \in Int /\ Occupied(a)' \in Int
  OBVIOUS
<1>2. Room(a, S) \in Int /\ Room(a, S) = quota[a] - Cardinality(kept) /\ quota[a] \in Nat
  BY SeatsType DEF Room, Seated, TypeOK
<1>3. T \in SUBSET Application /\ \A j \in T : FreeSlots(j) # {}
  BY DEF FillAfter, Issued, Eligible, Waiting
<1>4. i \in Eligible(a) \ T
  <2>1. i \in Application /\ ActivityOf[i] = a /\ application'[i] = "WAITING"
        /\ accepted[CandidateOf[i]] = NoOffer
    BY <1>1 DEF Eligible, Waiting, FillAfter
  <2>2. application[i] = "WAITING" /\ i \notin T
    BY <2>1 DEF FillAfter, WithApplications
  <2>3. QED
    BY <2>1, <2>2 DEF Eligible, Waiting
<1>5. Room(a, S) <= Cardinality(T)
  BY <1>2, <1>4, WalkComplete
<1>6. /\ Cardinality(T) <= Cardinality(NewRows(T)) /\ Cardinality(T) \in Nat
      /\ NewRows(T) \subseteq OfferId
  BY <1>3, NewRowsExact, NewRowsBound, FiniteApplications
<1>7. kept \cup NewRows(T) \subseteq Seated(a)'
  <2>1. \A o \in NewRows(T) : offer[o] = "NONE" /\ o[1] \in T /\ o \in OfferId
    BY OfferPair DEF NewRows, NextSlots, FreeSlots
  <2>2. \A j \in T : ActivityOf[j] = a
    BY DEF Issued, Eligible, Waiting
  <2>3. \A o \in S : offer[o] = "PENDING"
    BY DEF Due
  <2>4. \A o \in OfferId : offer'[o] =
          IF o \in S THEN "EXPIRED" ELSE IF o \in NewRows(T) THEN "PENDING" ELSE offer[o]
    BY DEF FillAfter, WithOffers
  <2> HIDE DEF T
  <2>5. QED
    BY <2>1, <2>2, <2>3, <2>4 DEF Seated, Active, OffersOf, ActOf
<1>8. kept \cap NewRows(T) = {}
  BY OfferPair DEF NewRows, NextSlots, FreeSlots, Seated, Active
<1>9. /\ IsFiniteSet(kept) /\ Cardinality(kept) \in Nat
      /\ IsFiniteSet(NewRows(T)) /\ Cardinality(NewRows(T)) \in Nat
  BY <1>6, OccupiedType, FiniteOffers
<1>10. /\ Seated(a)' \subseteq OfferId /\ IsFiniteSet(Seated(a)')
       /\ Occupied(a)' = Cardinality(Seated(a)')
       /\ Cardinality(Seated(a)') \in Nat
  <2>1. Seated(a)' \subseteq OfferId
    BY DEF Seated, Active
  <2>2. QED
    BY <2>1, FiniteOffers DEF Occupied, Seated
<1> HIDE DEF T, kept
<1>11. /\ IsFiniteSet(kept \cup NewRows(T))
       /\ Cardinality(kept \cup NewRows(T)) = Cardinality(kept) + Cardinality(NewRows(T))
  <2>1. Cardinality(kept \cap NewRows(T)) = 0
    BY <1>8, FS_EmptySet
  <2>2. /\ IsFiniteSet(kept \cup NewRows(T))
        /\ Cardinality(kept \cup NewRows(T)) =
             Cardinality(kept) + Cardinality(NewRows(T)) - Cardinality(kept \cap NewRows(T))
    BY <1>9, FS_Union
  <2>3. QED
    BY <1>9, <2>1, <2>2
<1>12. Cardinality(kept \cup NewRows(T)) <= Cardinality(Seated(a)')
  BY <1>7, <1>10, FS_Subset
<1>13. QED
  BY <1>2, <1>5, <1>6, <1>9, <1>10, <1>11, <1>12

-----------------------------------------------------------------------------
\* D4: a seat that could be filled is signalled, as long as nothing is cut off.

\* A running AUTO activity has a free seat and somebody to offer it to.
Wanting(a) == MayRefill(a) /\ Occupied(a) < quota[a] /\ Eligible(a) # {}
Signalled(a) == a \in intents \/ todo["QUOTA"][a] > 0
\* Disable pauses the refills, and only ResumeRefill, which fills the seats, lifts
\* the pause: Activate brings no activity back running.
DisabledIsPaused == \A a \in Activity : status[a] = "DISABLED" => a \in paused
SignalInv == DisabledIsPaused /\ SignalKept

\* Nothing new is wanted: no seat is freed, nobody becomes eligible and the
\* activity does not start running.
NoNewWant(a) ==
  /\ MayRefill(a)' => MayRefill(a)
  /\ Seated(a) \subseteq Seated(a)' /\ quota'[a] <= quota[a]
  /\ Eligible(a)' \subseteq Eligible(a)
\* A step keeps the signal of activity a.
SignalStep(a) == ~Wanting(a)' \/ Signalled(a)' \/ (NoNewWant(a) /\ (Signalled(a) => Signalled(a)'))

\* Such steps keep SignalKept.
LEMMA SignalSteps ==
  ASSUME TypeOK, TypeOK', SignalKept, \A a \in Activity : SignalStep(a)
  PROVE  SignalKept'
<1>1. SignalKept <=> \A a \in Activity : Wanting(a) => Signalled(a)
  BY DEF SignalKept, Wanting, Signalled
<1>2. SignalKept' <=> \A a \in Activity : Wanting(a)' => Signalled(a)'
  BY DEF SignalKept, Wanting, Signalled
<1>3. SUFFICES ASSUME NEW a \in Activity, NoNewWant(a), Wanting(a)' PROVE Wanting(a)
  BY <1>1, <1>2 DEF SignalStep
<1>4. /\ Occupied(a) = Cardinality(Seated(a)) /\ Occupied(a)' = Cardinality(Seated(a)')
      /\ Seated(a)' \subseteq OfferId
  BY DEF Occupied, Seated, Active
<1>5. /\ Occupied(a) \in Nat /\ Occupied(a)' \in Nat
      /\ IsFiniteSet(Seated(a)') /\ Cardinality(Seated(a)) <= Cardinality(Seated(a)')
  BY <1>3, <1>4, OccupiedType, FiniteOffers, FS_Subset DEF NoNewWant
<1>6. Occupied(a)' < quota'[a] /\ quota'[a] <= quota[a] /\ quota[a] \in Nat /\ quota'[a] \in Nat
  BY <1>3 DEF Wanting, NoNewWant, TypeOK
<1>7. Occupied(a) < quota[a]
  BY <1>4, <1>5, <1>6
<1>8. QED
  BY <1>3, <1>7 DEF Wanting, NoNewWant

\* Nobody becomes eligible when applications only leave WAITING and acceptances
\* are only added.
LEMMA FewerEligible ==
  ASSUME \A i \in Application : application'[i] = "WAITING" => application[i] = "WAITING",
         \A c \in Candidate : accepted'[c] = NoOffer => accepted[c] = NoOffer
  PROVE  \A a : Eligible(a)' \subseteq Eligible(a)
  BY ApplicationAssumption DEF Eligible, Waiting

\* A fill of all the seats that are free keeps the signals, also as it closes the
\* activity's own.
LEMMA FillSignal ==
  ASSUME TypeOK, NEW a \in Activity, NEW S \in SUBSET Due(a), NEW room,
         FillAfter(a, S, room), UNCHANGED <<quota, mode, status>>,
         paused \subseteq paused' \cup {a}, frozen' \subseteq frozen \cup {a},
         \A b \in Activity \ {a} : Signalled(b) => Signalled(b)',
         MayRefill(a)' => room = Room(a, S)
  PROVE  \A b \in Activity : SignalStep(b)
<1>1. ASSUME MayRefill(a)' PROVE ~Wanting(a)'
  BY <1>1, FillComplete DEF Wanting
<1>2. ASSUME NEW b \in Activity, b # a PROVE NoNewWant(b)
  <2>1. MayRefill(b)' => MayRefill(b)
    BY <1>2 DEF MayRefill, Started
  <2>2. Eligible(b)' \subseteq Eligible(b)
    BY FewerEligible DEF FillAfter, WithApplications
  <2>3. \A o \in S : ActOf(o) = a
    BY DEF Due, OffersOf
  <2>4. \A o \in OfferId : offer'[o] =
          IF o \in S THEN "EXPIRED"
          ELSE IF o \in NewRows(Issued(a, room)) THEN "PENDING" ELSE offer[o]
    BY DEF FillAfter, WithOffers
  <2>5. Seated(b) \subseteq Seated(b)'
    BY <1>2, <2>3, <2>4 DEF Seated, Active, OffersOf, ActOf
  <2>6. QED
    BY <2>1, <2>2, <2>5 DEF NoNewWant, TypeOK
<1>3. QED
  BY <1>1, <1>2 DEF SignalStep, Wanting

\* Seats that leave in S are signalled.
LEMMA FreedSignal ==
  ASSUME TypeOK, NEW S \in SUBSET OfferId,
         \A o \in OfferId \ S : offer[o] \in {"PENDING", "ACCEPTED"} =>
           offer'[o] \in {"PENDING", "ACCEPTED"},
         \A i \in Application : application'[i] = "WAITING" => application[i] = "WAITING",
         \A c \in Candidate : accepted'[c] = NoOffer => accepted[c] = NoOffer,
         intents' = intents \cup Signals(S), todo'["QUOTA"] = todo["QUOTA"],
         UNCHANGED <<quota, mode, paused, frozen>>,
         \A b \in Activity : status'[b] = "ACTIVE" => status[b] = "ACTIVE" \/ b \in paused
  PROVE  \A b \in Activity : SignalStep(b)
<1> SUFFICES ASSUME NEW b \in Activity PROVE SignalStep(b)
  OBVIOUS
<1>1. (Signalled(b) => Signalled(b)') /\ (b \in Signals(S) => Signalled(b)')
  BY DEF Signalled
<1>2. CASE mode[b] # "AUTO"
  BY <1>2 DEF SignalStep, Wanting, MayRefill
<1>3. CASE mode[b] = "AUTO" /\ \A o \in S : ActOf(o) # b
  <2>1. Seated(b) \subseteq Seated(b)'
    BY <1>3 DEF Seated, Active, OffersOf, ActOf
  <2>2. Eligible(b)' \subseteq Eligible(b)
    BY FewerEligible
  <2>3. MayRefill(b)' => MayRefill(b)
    BY DEF MayRefill, Started
  <2>4. QED
    BY <1>1, <2>1, <2>2, <2>3 DEF SignalStep, NoNewWant, TypeOK
<1>4. CASE mode[b] = "AUTO" /\ \E o \in S : ActOf(o) = b
  BY <1>1, <1>4 DEF SignalStep, Signals
<1>5. QED
  BY <1>2, <1>3, <1>4

\* A step that leaves the rows.
LEMMA IdleSignal ==
  ASSUME TypeOK, UNCHANGED <<offer, application, accepted>>, NEW b \in Activity,
         MayRefill(b)' => MayRefill(b), quota'[b] <= quota[b], Signalled(b) => Signalled(b)'
  PROVE  SignalStep(b)
  BY DEF SignalStep, NoNewWant, Seated, Active, OffersOf, ActOf, Eligible, Waiting

\* The candidates' requests: an acceptance and a decline free other seats, and
\* signal them in the same transaction.
LEMMA CandidateSignal ==
  ASSUME TypeOK, CandidateNext
  PROVE  \A b \in Activity : SignalStep(b)
<1> PICK o \in OfferId : AcceptExpired(o) \/ Accept(o) \/ Decline(o)
  BY DEF CandidateNext
<1> USE DEF lifecycleVars, configVars
<1>1. CASE AcceptExpired(o)
  <2>1. /\ SettleExpired({o}) /\ todo' = todo /\ UNCHANGED <<quota, mode, paused, frozen, status>>
    BY <1>1 DEF AcceptExpired
  <2>2. QED
    BY <2>1, FreedSignal DEF SettleExpired, WithOffers, WithApplications
<1>2. CASE Decline(o)
  <2>1. /\ intents' = intents \cup Signals({o}) /\ accepted' = accepted
        /\ UNCHANGED <<quota, mode, paused, frozen, status>>
        /\ offer' = WithOffers({o}, "DECLINED", {})
        /\ application' = WithApplications({o[1]}, "DECLINED")
    BY <1>2 DEF Decline
  <2>2. todo'["QUOTA"] = todo["QUOTA"]
    BY <1>2 DEF Decline, Begin, TypeOK, PostCommit
  <2>3. QED
    BY <2>1, <2>2, FreedSignal DEF WithOffers, WithApplications
<1>3. CASE Accept(o)
  <2>1. /\ intents' = intents \cup Signals(Linked(o))
        /\ UNCHANGED <<quota, mode, paused, frozen, status>>
        /\ Linked(o) \subseteq OfferId
    BY <1>3 DEF Accept, Linked, PendingOf
  <2>2. \A p \in OfferId \ Linked(o) : offer[p] \in {"PENDING", "ACCEPTED"} =>
           offer'[p] \in {"PENDING", "ACCEPTED"}
    BY <1>3 DEF Accept
  <2>3. \A i \in Application : application'[i] = "WAITING" => application[i] = "WAITING"
    BY <1>3 DEF Accept, WithApplications
  <2>4. \A c \in Candidate : accepted'[c] = NoOffer => accepted[c] = NoOffer
    BY <1>3, NoOfferAssumption DEF Accept, TypeOK
  <2>5. todo'["QUOTA"] = todo["QUOTA"]
    BY <1>3 DEF Accept, BeginAll, TypeOK, PostCommit
  <2>6. QED
    BY <2>1, <2>2, <2>3, <2>4, <2>5, FreedSignal
<1>4. QED
  BY <1>1, <1>2, <1>3

\* The follow-ups and the worker: each refill fills all the free seats, or the
\* signal stays.
LEMMA BackgroundSignal ==
  ASSUME TypeOK, FollowUpNext \/ WorkerNext
  PROVE  \A b \in Activity : SignalStep(b)
<1> USE DEF lifecycleVars, configVars, rowVars, signalVars
<1>1. ASSUME NEW a \in Activity, PostCommitRefill(a) \/ ExecuteIntents(a)
      PROVE  \A b \in Activity : SignalStep(b)
  <2>1. /\ FillAfter(a, {}, Seats(a, {})) /\ UNCHANGED <<quota, mode, status, paused, frozen>>
    BY <1>1 DEF PostCommitRefill, ExecuteIntents, FillByRank
  <2>2. \A b \in Activity \ {a} : Signalled(b) => Signalled(b)'
    BY <1>1 DEF PostCommitRefill, ExecuteIntents, End, Signalled, TypeOK, PostCommit
  <2>3. MayRefill(a)' => Seats(a, {}) = Room(a, {})
    BY <2>1 DEF MayRefill, Started, Seats
  <2>4. QED
    BY <2>1, <2>2, <2>3, FillSignal
<1>2. ASSUME NEW a \in Activity, NEW S \in SUBSET Due(a), SettleDue(a, S)
      PROVE  \A b \in Activity : SignalStep(b)
  <2>1. /\ SettleExpired(S) /\ UNCHANGED <<quota, mode, paused, frozen, status>>
        /\ S \in SUBSET OfferId
    BY <1>2 DEF SettleDue, Due, OffersOf
  <2>2. todo'["QUOTA"] = todo["QUOTA"]
    BY <1>2 DEF SettleDue, Begin, TypeOK, PostCommit
  <2>3. QED
    BY <2>1, <2>2, FreedSignal DEF SettleExpired, WithOffers, WithApplications
<1>3. ASSUME NEW a \in Activity, RecheckRefill(a) \/ RefillFails(a) \/ QuotaRefillFails(a),
             NEW b \in Activity
      PROVE  SignalStep(b)
  <2>1. UNCHANGED <<offer, application, accepted, quota, status, mode, paused, frozen>>
    BY <1>3 DEF RecheckRefill, RefillFails, QuotaRefillFails
  <2>2. Signalled(b) => Signalled(b)'
    BY <1>3 DEF RecheckRefill, RefillFails, QuotaRefillFails, Begin, End, Signalled, TypeOK,
       PostCommit
  <2>3. QED
    BY <2>1, <2>2, IdleSignal DEF MayRefill, Started, TypeOK
<1>4. ASSUME NEW o \in OfferId, PassDeadline(o), NEW b \in Activity PROVE SignalStep(b)
  BY <1>4, IdleSignal DEF PassDeadline, MayRefill, Started, Signalled, TypeOK
<1>5. QED
  BY <1>1, <1>2, <1>3, <1>4 DEF FollowUpNext, WorkerNext

\* The staff's lifecycle requests: a start and a resume fill all the seats, a quota
\* increase signals, and a re-activated activity is paused.
LEMMA LifecycleSignal ==
  ASSUME TypeOK, DisabledIsPaused, LifecycleNext
  PROVE  \A b \in Activity : SignalStep(b)
<1> USE DEF lifecycleVars, configVars, rowVars, signalVars
<1>1. ASSUME NEW a \in Activity, StartAdmission(a)
      PROVE  \A b \in Activity : SignalStep(b)
  <2>1. PICK room : /\ FillAfter(a, {}, room) /\ (mode[a] = "AUTO" => room = Room(a, {}))
                    /\ UNCHANGED <<quota, mode, status, paused, intents, todo>>
                    /\ frozen' = frozen \cup {a}
    BY <1>1 DEF StartAdmission
  <2>2. QED
    BY <2>1, FillSignal DEF MayRefill, Signalled
<1>2. ASSUME NEW a \in Activity, ResumeRefill(a)
      PROVE  \A b \in Activity : SignalStep(b)
  <2>1. /\ FillAfter(a, Due(a), Seats(a, Due(a))) /\ paused' = paused \ {a}
        /\ UNCHANGED <<quota, mode, status, frozen, todo>> /\ intents' = intents \ {a}
    BY <1>2 DEF ResumeRefill
  <2>2. MayRefill(a)' => Seats(a, Due(a)) = Room(a, Due(a))
    BY <2>1 DEF MayRefill, Started, Seats
  <2>3. QED
    BY <2>1, <2>2, FillSignal DEF Signalled
<1>3. ASSUME NEW a \in Activity, Activate(a)
      PROVE  \A b \in Activity : SignalStep(b)
  <2>1. /\ SettleExpired(Due(a)) /\ UNCHANGED <<quota, mode, paused, frozen, todo>>
        /\ Due(a) \in SUBSET OfferId
        /\ \A b \in Activity : status'[b] = "ACTIVE" => status[b] = "ACTIVE" \/ b \in paused
    BY <1>3 DEF Activate, Due, OffersOf, DisabledIsPaused, TypeOK
  <2>2. QED
    BY <2>1, FreedSignal DEF SettleExpired, WithOffers, WithApplications
<1>4. ASSUME UNCHANGED <<offer, application, accepted, quota, intents, todo, frozen>>,
             \A b \in Activity : /\ status'[b] = "ACTIVE" => status[b] = "ACTIVE"
                                 /\ mode'[b] # mode[b] => b \notin frozen,
             paused \subseteq paused', NEW b \in Activity
      PROVE  SignalStep(b)
  <2>1. (MayRefill(b)' => MayRefill(b)) /\ (Signalled(b) => Signalled(b)')
    BY <1>4 DEF MayRefill, Started, Signalled
  <2>2. quota'[b] <= quota[b]
    BY <1>4 DEF TypeOK
  <2>3. QED
    BY <1>4, <2>1, <2>2, IdleSignal
<1>5. ASSUME NEW a \in Activity, NEW m, UpdateOfferMode(a, m), NEW b \in Activity
      PROVE  SignalStep(b)
  BY <1>4, <1>5 DEF UpdateOfferMode, TypeOK
<1>6. ASSUME NEW a \in Activity, Disable(a) \/ Archive(a) \/ PauseRefill(a), NEW b \in Activity
      PROVE  SignalStep(b)
  BY <1>4, <1>6 DEF Disable, Archive, PauseRefill, TypeOK
<1>7. ASSUME PauseAllAutoRefills, NEW b \in Activity PROVE SignalStep(b)
  BY <1>4, <1>7 DEF PauseAllAutoRefills
<1>8. ASSUME NEW a \in Activity, NEW q \in Quotas[a], UpdateQuota(a, q), NEW b \in Activity
      PROVE  SignalStep(b)
  <2>1. /\ UNCHANGED <<offer, application, accepted, status, mode, paused, frozen>>
        /\ quota' = [quota EXCEPT ![a] = q] /\ q \in Nat
    BY <1>8, BoundAssumption DEF UpdateQuota
  <2>2. Signalled(b) => Signalled(b)'
    BY <1>8, BoundAssumption DEF UpdateQuota, Signalled, Begin, TypeOK, PostCommit
  <2>3. CASE b # a \/ q <= quota[a] \/ ~MayRefill(a)
    <3>1. MayRefill(b)' => MayRefill(b) /\ quota'[b] <= quota[b]
      BY <2>1, <2>3 DEF MayRefill, Started, TypeOK
    <3>2. CASE MayRefill(b)'
      BY <2>1, <2>2, <3>1, <3>2, IdleSignal
    <3>3. CASE ~MayRefill(b)'
      BY <3>3 DEF SignalStep, Wanting
    <3>4. QED
      BY <3>2, <3>3
  <2>4. CASE b = a /\ q > quota[a] /\ MayRefill(a)
    <3>1. todo' = Begin(todo, "QUOTA", a)
      BY <1>8, <2>4 DEF UpdateQuota, MayRefill, Started
    <3>2. todo'["QUOTA"][a] > 0
      BY <3>1, BoundAssumption DEF Begin, TypeOK, PostCommit
    <3>3. QED
      BY <2>4, <3>2 DEF SignalStep, Signalled
  <2>5. QED
    BY <2>1, <2>3, <2>4 DEF TypeOK
<1>9. QED
  BY <1>1, <1>2, <1>3, <1>5, <1>6, <1>7, <1>8 DEF LifecycleNext

\* Issuing only takes seats.
LEMMA IssueSignal ==
  ASSUME TypeOK, IssueNext
  PROVE  \A b \in Activity : SignalStep(b)
<1> USE DEF lifecycleVars, configVars, signalVars
<1>1. ASSUME NEW a \in Activity, NEW limit, IssueBatch(a, limit)
      PROVE  \A b \in Activity : SignalStep(b)
  <2>1. PICK room : /\ FillAfter(a, {}, room) /\ mode[a] = "BATCH"
                    /\ UNCHANGED <<quota, mode, status, paused, frozen, intents, todo>>
    BY <1>1 DEF IssueBatch
  <2>2. QED
    BY <2>1, FillSignal DEF MayRefill, Signalled
<1>2. ASSUME NEW i \in Application, InsertOffer(i), NEW b \in Activity
      PROVE  SignalStep(b)
  <2>1. \A o \in OfferId : offer[o] \in {"PENDING", "ACCEPTED"} =>
           offer'[o] \in {"PENDING", "ACCEPTED"}
    BY <1>2 DEF InsertOffer, WithOffers
  <2>2. Seated(b) \subseteq Seated(b)'
    BY <2>1 DEF Seated, Active, OffersOf, ActOf
  <2>3. Eligible(b)' \subseteq Eligible(b)
    BY <1>2, FewerEligible DEF InsertOffer, TypeOK
  <2>4. QED
    BY <1>2, <2>2, <2>3
    DEF SignalStep, NoNewWant, InsertOffer, MayRefill, Started, Signalled, TypeOK
<1>3. QED
  BY <1>1, <1>2 DEF IssueNext, IssueManual, IssueSpecial

\* A disabled activity is paused.
LEMMA DisabledStep == TypeOK /\ DisabledIsPaused /\ [Steady]_vars => DisabledIsPaused'
<1> SUFFICES ASSUME TypeOK, DisabledIsPaused, [Steady]_vars PROVE DisabledIsPaused'
  OBVIOUS
<1> USE DEF lifecycleVars, DisabledIsPaused
<1>1. ASSUME status' = status, paused \subseteq paused' PROVE DisabledIsPaused'
  BY <1>1
<1>2. CASE CandidateNext \/ FollowUpNext \/ WorkerNext \/ IssueNext \/ UNCHANGED vars
  BY <1>1, <1>2 DEF CandidateNext, AcceptExpired, Accept, Decline, FollowUpNext, RecheckRefill,
     PostCommitRefill, RefillFails, QuotaRefillFails, WorkerNext, ExecuteIntents, SettleDue,
     PassDeadline, IssueNext, IssueBatch, IssueManual, IssueSpecial, InsertOffer, vars
<1>3. ASSUME NEW a \in Activity, Disable(a) \/ Activate(a) \/ Archive(a) \/ ResumeRefill(a)
      PROVE  DisabledIsPaused'
  BY <1>3 DEF Disable, Activate, Archive, ResumeRefill, TypeOK
<1>4. ASSUME NEW a \in Activity,
             \/ StartAdmission(a) \/ PauseRefill(a) \/ PauseAllAutoRefills
             \/ (\E q : UpdateQuota(a, q)) \/ \E m : UpdateOfferMode(a, m)
      PROVE  DisabledIsPaused'
  BY <1>1, <1>4 DEF StartAdmission, PauseRefill, PauseAllAutoRefills, UpdateQuota, UpdateOfferMode
<1>5. CASE PauseAllAutoRefills
  BY <1>1, <1>5 DEF PauseAllAutoRefills
<1>6. QED
  BY <1>2, <1>3, <1>4, <1>5 DEF Steady, LifecycleNext

\* The refill signal of a running AUTO activity is never lost while the process
\* runs and finishes the requests it began (the refill_intent rows written with
\* every freed seat, UpdateQuota's fallback, the complete fills of executeOne and
\* ResumeRefill); that it is lost otherwise is the run quota_signal_lost.
THEOREM SignalAlwaysKept == SteadySpec => []SignalKept
<1>1. Init => SignalInv
  BY DEF Init, SignalInv, DisabledIsPaused, SignalKept, MayRefill, Started
<1>2. [Steady]_vars => [Next]_vars
  BY DEF Next
<1>3. ASSUME TypeOK, TypeOK', SignalInv, [Steady]_vars
      PROVE  SignalInv'
  <2>1. ASSUME UNCHANGED vars, NEW b \in Activity PROVE SignalStep(b)
    <3>1. /\ UNCHANGED <<offer, application, accepted>>
          /\ MayRefill(b)' => MayRefill(b)
          /\ Signalled(b) => Signalled(b)'
      BY <2>1 DEF vars, lifecycleVars, configVars, rowVars, signalVars, MayRefill, Started,
         Signalled
    <3>2. quota'[b] <= quota[b]
      BY <1>3, <2>1 DEF vars, configVars, TypeOK
    <3>3. QED
      BY <1>3, <3>1, <3>2, IdleSignal
  <2>2. \A b \in Activity : SignalStep(b)
    BY <1>3, <2>1, CandidateSignal, BackgroundSignal, LifecycleSignal, IssueSignal
    DEF Steady, SignalInv
  <2>3. QED
    BY <1>3, <2>2, SignalSteps, DisabledStep DEF SignalInv
<1>4. QED
  BY <1>1, <1>2, <1>3, InitType, NextType, PTL DEF SteadySpec, SignalInv
=============================================================================
