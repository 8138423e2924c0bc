--------------------------- MODULE AdmissionProofs ---------------------------
(***************************************************************************)
(* Theorems about Admission, for every value of its constants.             *)
(***************************************************************************)
EXTENDS Admission, TLAPS

Todos == [PostCommit -> [Activity -> 0 .. MaxInFlight]]

\* The value of an offer that is not a member of the sets written.
LEMMA WithOffersType ==
  ASSUME TypeOK, NEW S, NEW S2, NEW new \in OfferStatus
  PROVE  WithOffers(S, new, S2) \in [OfferId -> OfferStatus]
  BY DEF TypeOK, WithOffers, OfferStatus

\* The value of the applications after a guarded update.
LEMMA WithApplicationsType ==
  ASSUME TypeOK, NEW S, NEW new \in ApplicationStatus
  PROVE  WithApplications(S, new) \in [Application -> ApplicationStatus]
  BY DEF TypeOK, WithApplications, ApplicationStatus

\* Post-commit steps in flight stay within the bound.
LEMMA BeginType ==
  ASSUME NEW T \in Todos, NEW k \in PostCommit, NEW a \in Activity
  PROVE  Begin(T, k, a) \in Todos
  BY BoundAssumption DEF Begin, Todos

\* The same for several activities at once.
LEMMA BeginAllType ==
  ASSUME NEW T \in Todos, NEW k \in PostCommit, NEW A
  PROVE  BeginAll(T, k, A) \in Todos
  BY BoundAssumption DEF BeginAll, Todos

\* The same for a post-commit step that ends.
LEMMA EndType ==
  ASSUME NEW T \in Todos, NEW k \in PostCommit, NEW a \in Activity, T[k][a] > 0
  PROVE  End(T, k, a) \in Todos
  BY BoundAssumption DEF End, Todos

\* The rows a fill writes keep their columns' domains.
LEMMA FillType ==
  ASSUME TypeOK, NEW a \in Activity, NEW S, NEW room, FillAfter(a, S, room)
  PROVE  /\ offer' \in [OfferId -> OfferStatus]
         /\ application' \in [Application -> ApplicationStatus]
         /\ overdue' \subseteq OfferId
         /\ declineSource' = declineSource
         /\ accepted' = accepted
<1>1. WithApplications(AppsOf(S), "EXPIRED") \in [Application -> ApplicationStatus]
  BY WithApplicationsType DEF ApplicationStatus
<1>2. \A R : WithOffers(S, "EXPIRED", R) \in [OfferId -> OfferStatus]
  BY WithOffersType DEF OfferStatus
<1>3. application' \in [Application -> ApplicationStatus]
  BY <1>1 DEF FillAfter, ApplicationStatus
<1>4. QED
  BY <1>2, <1>3 DEF FillAfter, TypeOK

\* The rows a settlement writes keep their columns' domains.
LEMMA SettleType ==
  ASSUME TypeOK, NEW S, SettleExpired(S)
  PROVE  /\ offer' \in [OfferId -> OfferStatus]
         /\ application' \in [Application -> ApplicationStatus]
         /\ overdue' \subseteq OfferId
         /\ declineSource' = declineSource
         /\ accepted' = accepted
         /\ intents' \subseteq Activity
<1>1. WithApplications(AppsOf(S), "EXPIRED") \in [Application -> ApplicationStatus]
  BY WithApplicationsType DEF ApplicationStatus
<1>2. WithOffers(S, "EXPIRED", {}) \in [OfferId -> OfferStatus]
  BY WithOffersType DEF OfferStatus
<1>3. Signals(S) \subseteq Activity
  BY DEF Signals
<1>4. QED
  BY <1>1, <1>2, <1>3 DEF SettleExpired, TypeOK

\* So do those of a single issue.
LEMMA InsertType ==
  ASSUME TypeOK, NEW i \in Application, InsertOffer(i)
  PROVE  TypeOK'
<1>1. WithOffers({}, "NONE", NewRows({i})) \in [OfferId -> OfferStatus]
  BY WithOffersType DEF OfferStatus
<1>2. QED
  BY <1>1 DEF TypeOK, InsertOffer, lifecycleVars, configVars, signalVars, ApplicationStatus

\* The candidates' requests are well typed.
LEMMA CandidateType == TypeOK /\ CandidateNext => TypeOK'
<1> SUFFICES ASSUME TypeOK, NEW o \in OfferId,
                    AcceptExpired(o) \/ Accept(o) \/ Decline(o)
             PROVE  TypeOK'
  BY DEF CandidateNext
<1>a. ActOf(o) \in Activity /\ CandOf(o) \in Candidate /\ o[1] \in Application
  BY ApplicationAssumption DEF ActOf, CandOf, OfferId
<1>1. CASE AcceptExpired(o)
  BY <1>1, SettleType DEF AcceptExpired, TypeOK, lifecycleVars, configVars
<1>2. CASE Accept(o)
  <2>1. offer' \in [OfferId -> OfferStatus]
    BY <1>2 DEF Accept, TypeOK, OfferStatus
  <2>2. declineSource' \in [OfferId -> DeclineSource]
    BY <1>2 DEF Accept, TypeOK, DeclineSource
  <2>3. application' \in [Application -> ApplicationStatus]
    <3>1. WithApplications(AppsOf(Linked(o)), "DECLINED") \in [Application -> ApplicationStatus]
      BY WithApplicationsType DEF ApplicationStatus
    <3>2. QED
      BY <1>2, <3>1 DEF Accept, ApplicationStatus
  <2>4. accepted' \in [Candidate -> OfferId \cup {NoOffer}]
    BY <1>2, <1>a DEF Accept, TypeOK
  <2>5. todo' \in Todos
    BY <1>2, BeginAllType DEF Accept, TypeOK, Todos, PostCommit
  <2>6. QED
    BY <1>2, <2>1, <2>2, <2>3, <2>4, <2>5
    DEF Accept, TypeOK, Signals, Todos, lifecycleVars, configVars
<1>3. CASE Decline(o)
  <2>1. WithOffers({o}, "DECLINED", {}) \in [OfferId -> OfferStatus]
    BY WithOffersType DEF OfferStatus
  <2>2. WithApplications({o[1]}, "DECLINED") \in [Application -> ApplicationStatus]
    BY WithApplicationsType DEF ApplicationStatus
  <2>3. todo' \in Todos
    BY <1>3, <1>a, BeginType DEF Decline, TypeOK, Todos, PostCommit
  <2>4. declineSource' \in [OfferId -> DeclineSource]
    BY <1>3 DEF Decline, TypeOK, DeclineSource
  <2>5. QED
    BY <1>3, <2>1, <2>2, <2>3, <2>4
    DEF Decline, TypeOK, Signals, Todos, lifecycleVars, configVars
<1>4. QED
  BY <1>1, <1>2, <1>3

\* A restart is.
LEMMA CrashType == TypeOK /\ Crash => TypeOK'
<1> SUFFICES ASSUME TypeOK, Crash PROVE TypeOK'
  OBVIOUS
<1>1. todo' \in Todos
  BY BoundAssumption DEF Crash, Todos
<1>2. QED
  BY <1>1 DEF Crash, TypeOK, Todos, lifecycleVars, configVars, rowVars

\* The follow-ups and their failures are.
LEMMA FollowUpType ==
  ASSUME TypeOK, NEW a \in Activity,
         \/ RecheckRefill(a) \/ PostCommitRefill(a)
         \/ RefillFails(a) \/ QuotaRefillFails(a) \/ QuotaSignalLost(a)
  PROVE  TypeOK'
<1> USE DEF PostCommit
<1>a. todo \in Todos
  BY DEF TypeOK, Todos
<1>b. \A k \in PostCommit : todo[k][a] > 0 => End(todo, k, a) \in Todos
  BY <1>a, EndType
<1>1. CASE RecheckRefill(a)
  <2>1. todo' \in Todos
    BY <1>1, <1>b, BeginType DEF RecheckRefill
  <2>2. QED
    BY <1>1, <2>1 DEF RecheckRefill, TypeOK, Todos, lifecycleVars, configVars, rowVars
<1>2. CASE PostCommitRefill(a)
  <2>1. todo' \in Todos
    BY <1>2, <1>b DEF PostCommitRefill
  <2>2. QED
    BY <1>2, <2>1, FillType
    DEF PostCommitRefill, FillByRank, TypeOK, Todos, lifecycleVars, configVars
<1>3. CASE RefillFails(a) \/ QuotaRefillFails(a) \/ QuotaSignalLost(a)
  <2>1. todo' \in Todos
    BY <1>3, <1>b DEF RefillFails, QuotaRefillFails, QuotaSignalLost
  <2>2. QED
    BY <1>3, <2>1
    DEF RefillFails, QuotaRefillFails, QuotaSignalLost, TypeOK, Todos,
        lifecycleVars, configVars, rowVars
<1>4. QED
  BY <1>1, <1>2, <1>3

\* The worker and the clock are.
LEMMA WorkerType == TypeOK /\ WorkerNext => TypeOK'
<1>1. ASSUME TypeOK, NEW a \in Activity, ExecuteIntents(a)
      PROVE  TypeOK'
  BY <1>1, FillType DEF ExecuteIntents, FillByRank, TypeOK, lifecycleVars, configVars
<1>2. ASSUME TypeOK, NEW a \in Activity, NEW S, SettleDue(a, S)
      PROVE  TypeOK'
  <2>1. todo' \in Todos
    BY <1>2, BeginType DEF SettleDue, TypeOK, Todos, PostCommit
  <2>2. QED
    BY <1>2, <2>1, SettleType DEF SettleDue, TypeOK, Todos, lifecycleVars, configVars
<1>3. ASSUME TypeOK, NEW o \in OfferId, PassDeadline(o)
      PROVE  TypeOK'
  BY <1>3 DEF PassDeadline, TypeOK, lifecycleVars, configVars, signalVars
<1>4. QED
  BY <1>1, <1>2, <1>3 DEF WorkerNext

\* The staff's lifecycle and configuration requests are.
LEMMA LifecycleType == TypeOK /\ LifecycleNext => TypeOK'
<1> USE DEF lifecycleVars, configVars, rowVars, signalVars
<1>1. ASSUME TypeOK, PauseAllAutoRefills
      PROVE  TypeOK'
  BY <1>1 DEF PauseAllAutoRefills, TypeOK
<1>2. ASSUME TypeOK, NEW a \in Activity, StartAdmission(a)
      PROVE  TypeOK'
  BY <1>2, FillType DEF StartAdmission, TypeOK
<1>3. ASSUME TypeOK, NEW a \in Activity, Disable(a) \/ Archive(a) \/ PauseRefill(a)
      PROVE  TypeOK'
  BY <1>3 DEF Disable, Archive, PauseRefill, TypeOK, ActivityStatus
<1>4. ASSUME TypeOK, NEW a \in Activity, Activate(a)
      PROVE  TypeOK'
  BY <1>4, SettleType DEF Activate, TypeOK, ActivityStatus
<1>5. ASSUME TypeOK, NEW a \in Activity, ResumeRefill(a)
      PROVE  TypeOK'
  BY <1>5, FillType DEF ResumeRefill, TypeOK
<1>6. ASSUME TypeOK, NEW a \in Activity, NEW q \in Quotas[a], UpdateQuota(a, q)
      PROVE  TypeOK'
  <2>1. todo' \in Todos
    BY <1>6, BeginType DEF UpdateQuota, TypeOK, Todos, PostCommit
  <2>2. q \in Nat
    BY BoundAssumption
  <2>3. QED
    BY <1>6, <2>1, <2>2 DEF UpdateQuota, TypeOK, Todos
<1>7. ASSUME TypeOK, NEW a \in Activity, NEW m \in Modes[a], UpdateOfferMode(a, m)
      PROVE  TypeOK'
  BY <1>7, BoundAssumption DEF UpdateOfferMode, TypeOK, OfferMode
<1>8. QED
  BY <1>1, <1>2, <1>3, <1>4, <1>5, <1>6, <1>7 DEF LifecycleNext

\* Issuing is.
LEMMA IssueType == TypeOK /\ IssueNext => TypeOK'
<1>1. ASSUME TypeOK, NEW a \in Activity, NEW limit, IssueBatch(a, limit)
      PROVE  TypeOK'
  BY <1>1, FillType DEF IssueBatch, TypeOK, lifecycleVars, configVars, signalVars
<1>2. QED
  BY <1>1, InsertType DEF IssueNext, IssueManual, IssueSpecial

\* The initial state is.
LEMMA InitType == Init => TypeOK
<1> SUFFICES ASSUME Init PROVE TypeOK
  OBVIOUS
<1>1. quota \in [Activity -> Nat]
  BY BoundAssumption DEF Init
<1>2. todo \in Todos
  <2>1. [k \in PostCommit |-> [a \in Activity |-> 0]] \in Todos
    BY BoundAssumption DEF Todos
  <2>2. QED
    BY <2>1 DEF Init
<1>3. QED
  BY <1>1, <1>2
  DEF Init, TypeOK, Todos, ActivityStatus, ApplicationStatus, OfferStatus, DeclineSource

\* Every step is.
LEMMA NextType == TypeOK /\ [Next]_vars => TypeOK'
<1>1. TypeOK /\ UNCHANGED vars => TypeOK'
  BY DEF vars, TypeOK, lifecycleVars, configVars, rowVars, signalVars
<1>2. QED
  BY <1>1, CandidateType, FollowUpType, CrashType, WorkerType, LifecycleType, IssueType
  DEF Next, Steady, FollowUpNext, Failure

\* Type correctness of the admission core.
THEOREM TypeCorrect == Spec => []TypeOK
  BY InitType, NextType, PTL DEF Spec
=============================================================================
