------------------------------ MODULE Admission ------------------------------
(***************************************************************************)
(* The admission core: activities, the ranked applications of candidates,  *)
(* the offers issued to them, the candidates' single acceptance and the    *)
(* refill signal of AUTO activities.                                       *)
(*                                                                         *)
(* One action is one committed database transaction of offer/service.go,   *)
(* ranking/service.go (fill), activity/service.go, activity/batch.go or    *)
(* admission/worker.go.  Each of them takes the activity row FOR UPDATE    *)
(* first and re-reads what it decides on under that lock, so transactions  *)
(* of one activity are serial; what crosses activities is the candidate    *)
(* row, also taken FOR UPDATE.  What runs AFTER a commit (the best-effort  *)
(* refills) is separate: the commit leaves a post-commit step in "todo",   *)
(* which runs later, or never.                                             *)
(***************************************************************************)
EXTENDS Integers, FiniteSets

CONSTANTS
  Activity,      \* activity rows
  Candidate,     \* candidate rows (one per student, shared by all activities)
  Application,   \* application rows: one candidate's entry in one activity
  ActivityOf,    \* application.activity_id
  CandidateOf,   \* application.candidate_id
  RankOf,        \* application.rank, as frozen when the admission starts
  NoOffer,       \* candidate.accepted_offer_id IS NULL
  Modes,         \* bound: the offer modes explored, per activity
  Quotas,        \* bound: the quotas explored, per activity
  MaxAttempts,   \* bound: offer rows per application (re-issues are new rows)
  MaxInFlight    \* bound: post-commit steps of one kind and activity in flight

Attempt == 1 .. MaxAttempts
\* The k-th offer row of an application; ids grow with k.
OfferId == Application \X Attempt

ASSUME ApplicationAssumption ==
  /\ IsFiniteSet(Application)
  /\ ActivityOf \in [Application -> Activity]
  /\ CandidateOf \in [Application -> Candidate]
  /\ RankOf \in [Application -> Nat]
  /\ \A i, j \in Application :
        i # j /\ ActivityOf[i] = ActivityOf[j] =>
          CandidateOf[i] # CandidateOf[j] /\ RankOf[i] # RankOf[j]
ASSUME BoundAssumption ==
  /\ Modes \in [Activity -> SUBSET {"AUTO", "MANUAL", "BATCH"}]
  /\ Quotas \in [Activity -> SUBSET (Nat \ {0})]
  /\ MaxAttempts \in Nat \ {0}
  /\ MaxInFlight \in Nat \ {0}
ASSUME NoOfferAssumption == NoOffer \notin OfferId

VARIABLES
  status,          \* activity.status
  quota,           \* activity.quota
  mode,            \* activity.offer_mode
  frozen,          \* activities with ranking_frozen (and started_at) set
  paused,          \* activities with refill_paused set
  platformPaused,  \* activities with refill_paused_by_platform set
  application,     \* application.status
  offer,           \* offer.status; "NONE" is a row not inserted yet
  declineSource,   \* offer.decline_source
  overdue,         \* PENDING offers with expires_at <= now
  accepted,        \* candidate.accepted_offer_id
  intents,         \* activities with a PENDING refill_intent row
  todo             \* post-commit steps in flight

lifecycleVars == <<status, frozen, paused, platformPaused>>
configVars == <<quota, mode>>
rowVars == <<application, offer, declineSource, overdue, accepted>>
signalVars == <<intents, todo>>
vars == <<lifecycleVars, configVars, rowVars, signalVars>>

ActivityStatus == {"ACTIVE", "DISABLED", "ARCHIVED"}
OfferMode == {"AUTO", "MANUAL", "BATCH"}
ApplicationStatus ==
  {"WAITING", "OFFERED", "ACCEPTED", "DECLINED", "EXPIRED", "INELIGIBLE"}
OfferStatus == {"NONE", "PENDING", "ACCEPTED", "DECLINED", "EXPIRED"}
DeclineSource == {"", "CANDIDATE", "CROSS_ACTIVITY"}

\* "RECHECK": refillActivitiesPostCommit, about to re-read the activity;
\* "REFILL": a FillByRank(tx = nil) decided on, its transaction not begun;
\* "QUOTA": the same call made by UpdateQuota.
PostCommit == {"RECHECK", "REFILL", "QUOTA"}

-----------------------------------------------------------------------------
\* Reads.

ActOf(o) == ActivityOf[o[1]]
CandOf(o) == CandidateOf[o[1]]
OffersOf(a) == {o \in OfferId : ActOf(o) = a}
Active == {o \in OfferId : offer[o] \in {"PENDING", "ACCEPTED"}}
Occupied(a) == Cardinality(Active \cap OffersOf(a))
\* Mutant: the occupancy counts PENDING offers only.
RoomPendingOnly(a, S) == quota[a] - Cardinality({o \in OffersOf(a) \ S : offer[o] = "PENDING"})
\* Seats left once the offers in S have been settled.
Room(a, S) == quota[a] - Cardinality((Active \cap OffersOf(a)) \ S)
\* Mutant: the settlement forgets to compare expires_at.
DueAnyPending(a) == {o \in OffersOf(a) : offer[o] = "PENDING"}
Due(a) == {o \in OffersOf(a) : offer[o] = "PENDING" /\ o \in overdue}
PendingOf(c) == {o \in OfferId : offer[o] = "PENDING" /\ CandOf(o) = c}
Waiting(a) == {i \in Application : ActivityOf[i] = a /\ application[i] = "WAITING"}
\* Mutant: a candidate who merely HOLDS an offer elsewhere is skipped too.
EligibleNoOffer(a) ==
  {i \in Waiting(a) : accepted[CandidateOf[i]] = NoOffer /\ PendingOf(CandidateOf[i]) = {}}
Eligible(a) == {i \in Waiting(a) : accepted[CandidateOf[i]] = NoOffer}
Started(a) == status[a] = "ACTIVE" /\ a \in frozen
MayRefill(a) == Started(a) /\ mode[a] = "AUTO" /\ a \notin paused

\* The applications the walk by rank reaches when it stops after issuing
\* "room" offers: those with fewer than "room" eligible ones ahead of them.
\* Mutant: the cursor's ORDER BY rank is descending.
AheadDescending(i) == {j \in Eligible(ActivityOf[i]) : RankOf[j] > RankOf[i]}
Ahead(i) == {j \in Eligible(ActivityOf[i]) : RankOf[j] < RankOf[i]}
Reached(a, room) == {i \in Waiting(a) : Cardinality(Ahead(i)) < room}
Issued(a, room) == Reached(a, room) \cap Eligible(a)

-----------------------------------------------------------------------------
\* Writes shared by the transactions.

\* The row an INSERT for application i creates: the first unused one.
FreeSlots(i) == {k \in Attempt : offer[<<i, k>>] = "NONE"}
NextSlots(i) == {k \in FreeSlots(i) : \A m \in FreeSlots(i) : k <= m}
NewRows(S) == {o \in OfferId : o[1] \in S /\ o[2] \in NextSlots(o[1])}

\* offer' when the PENDING offers in S leave PENDING and S2 is inserted.
WithOffers(S, new, S2) ==
  [o \in OfferId |-> IF o \in S THEN new ELSE IF o \in S2 THEN "PENDING" ELSE offer[o]]

\* Guarded application updates: WHERE status = 'OFFERED' / 'WAITING'.
WithApplications(S, new) ==
  [i \in Application |->
     IF i \in S /\ application[i] = "OFFERED" THEN new ELSE application[i]]

AppsOf(S) == {o[1] : o \in S}
\* Activities that get a refill_intent when the offers in S free their seats.
Signals(S) == {a \in Activity : mode[a] = "AUTO" /\ \E o \in S : ActOf(o) = a}

\* A post-commit step of activity a begins (ends): beyond the bound it is lost,
\* which its best-effort nature allows at any time.
Begin(T, k, a) ==
  [T EXCEPT ![k][a] = IF @ < MaxInFlight THEN @ + 1 ELSE @]
End(T, k, a) == [T EXCEPT ![k][a] = @ - 1]
BeginAll(T, k, A) ==
  [T EXCEPT ![k] = [a \in Activity |->
     IF a \in A /\ @[a] < MaxInFlight THEN @[a] + 1 ELSE @[a]]]

\* The body of fill with the expired offers in S settled first in the same
\* transaction: applications reached by the walk are issued an offer or, when
\* their candidate accepted elsewhere, marked INELIGIBLE.
FillAfter(a, S, room) ==
  LET issued == Issued(a, room)
      skipped == Reached(a, room) \ issued
  IN /\ \A i \in issued : FreeSlots(i) # {}
     /\ offer' = WithOffers(S, "EXPIRED", NewRows(issued))
     /\ application' = [i \in Application |->
          IF i \in issued THEN "OFFERED"
          ELSE IF i \in skipped THEN "INELIGIBLE"
          ELSE WithApplications(AppsOf(S), "EXPIRED")[i]]
     /\ overdue' = overdue \ S
     /\ UNCHANGED <<declineSource, accepted>>

\* FillByRank: nothing unless the activity is ACTIVE with a frozen ranking.
\* It looks at neither offer_mode nor refill_paused.
\* Mutant: the refill does not re-check the activity's status.
SeatsAnyStatus(a, S) == IF a \in frozen THEN Room(a, S) ELSE 0
Seats(a, S) == IF Started(a) THEN Room(a, S) ELSE 0
FillByRank(a) == FillAfter(a, {}, Seats(a, {}))

\* Mutant: the application keeps its OFFERED status.
SettleOffersOnly(S) ==
  /\ offer' = WithOffers(S, "EXPIRED", {})
  /\ overdue' = overdue \ S
  /\ intents' = intents \cup Signals(S)
  /\ UNCHANGED <<application, declineSource, accepted>>
\* Mutant: no intent is written, the refill after the commit is trusted.
SettleUnsignalled(S) ==
  /\ offer' = WithOffers(S, "EXPIRED", {})
  /\ application' = WithApplications(AppsOf(S), "EXPIRED")
  /\ overdue' = overdue \ S
  /\ UNCHANGED <<intents, declineSource, accepted>>
\* settleOneExpired / SettleExpiredForActivity for the due offers in S.
SettleExpired(S) ==
  /\ offer' = WithOffers(S, "EXPIRED", {})
  /\ application' = WithApplications(AppsOf(S), "EXPIRED")
  /\ overdue' = overdue \ S
  /\ intents' = intents \cup Signals(S)
  /\ UNCHANGED <<declineSource, accepted>>
-----------------------------------------------------------------------------
\* The candidate's side: POST /api/public/offers/{token}/accept and /decline.

\* Accept, step 2: past the deadline the offer is settled and the caller told 410.
AcceptExpired(o) ==
  /\ status[ActOf(o)] = "ACTIVE"
  /\ o \in Due(ActOf(o))
  /\ SettleExpired({o})
  /\ UNCHANGED <<lifecycleVars, configVars, todo>>

\* Mutant: the linkage query runs before the offer leaves PENDING.
LinkedWithSelf(o) == PendingOf(CandOf(o))
\* Mutant: the linkage joins the activities and keeps the ACTIVE ones.
LinkedActiveOnly(o) ==
  IF accepted[CandOf(o)] # NoOffer THEN {o}
  ELSE {p \in PendingOf(CandOf(o)) \ {o} : status[ActOf(p)] = "ACTIVE"}
\* The offers an acceptance of o declines: o itself when its candidate has
\* accepted elsewhere, every other PENDING offer of the candidate otherwise.
Linked(o) ==
  IF accepted[CandOf(o)] # NoOffer THEN {o} ELSE PendingOf(CandOf(o)) \ {o}

\* Accept, steps 3-5: the candidate row is locked; if the pointer is set this
\* offer is declined as a leftover, else it is accepted and every OTHER pending
\* offer of the candidate, whatever its activity's status, is declined. Those of
\* AUTO activities leave an intent; after the commit the activity itself and
\* the linked ones are refilled when AUTO.
Accept(o) ==
  LET a == ActOf(o)
      c == CandOf(o)
      elsewhere == accepted[c] # NoOffer
      linked == Linked(o)
  IN /\ status[a] = "ACTIVE"
     /\ offer[o] = "PENDING" /\ o \notin overdue /\ accepted[c] # o
     /\ elsewhere \/ application[o[1]] = "OFFERED"
     /\ offer' = [p \in OfferId |->
          IF p \in linked THEN "DECLINED" ELSE IF p = o THEN "ACCEPTED" ELSE offer[p]]
     /\ declineSource' = [p \in OfferId |->
          IF p \in linked THEN "CROSS_ACTIVITY" ELSE declineSource[p]]
     /\ application' = [i \in Application |->
          IF i = o[1] /\ ~elsewhere THEN "ACCEPTED"
          ELSE WithApplications(AppsOf(linked), "DECLINED")[i]]
     /\ accepted' = IF elsewhere THEN accepted ELSE [accepted EXCEPT ![c] = o]
     /\ overdue' = overdue \ linked
     /\ intents' = intents \cup Signals(linked)
     /\ todo' = IF elsewhere THEN todo
                ELSE BeginAll(todo, "RECHECK", Signals(linked \cup {o}))
     /\ UNCHANGED <<lifecycleVars, configVars>>

\* Decline. Past the deadline the transaction settles the offer and then returns
\* an error, so it is rolled back and nothing changes: no action models it.
Decline(o) ==
  LET a == ActOf(o)
  IN /\ status[a] = "ACTIVE"
     /\ offer[o] = "PENDING" /\ o \notin overdue
     /\ application[o[1]] = "OFFERED"
     /\ offer' = WithOffers({o}, "DECLINED", {})
     /\ declineSource' = [declineSource EXCEPT ![o] = "CANDIDATE"]
     /\ application' = WithApplications({o[1]}, "DECLINED")
     /\ intents' = intents \cup Signals({o})
     /\ todo' = IF MayRefill(a) THEN Begin(todo, "REFILL", a) ELSE todo
     /\ UNCHANGED <<lifecycleVars, configVars, overdue, accepted>>

-----------------------------------------------------------------------------
\* What runs after a commit, best effort, outside its transaction.

\* refillActivitiesPostCommit re-reads the activity without a lock...
RecheckRefill(a) ==
  /\ todo["RECHECK"][a] > 0
  /\ todo' = IF MayRefill(a) THEN Begin(End(todo, "RECHECK", a), "REFILL", a)
             ELSE End(todo, "RECHECK", a)
  /\ UNCHANGED <<lifecycleVars, configVars, rowVars, intents>>

\* ... and then FillByRank runs in a transaction of its own.
PostCommitRefill(a) ==
  \E k \in {"REFILL", "QUOTA"} :
    /\ todo[k][a] > 0
    /\ todo' = End(todo, k, a)
    /\ FillByRank(a)
    /\ UNCHANGED <<lifecycleVars, configVars, intents>>

\* A refill that errors, or whose request context is cancelled, is only logged.
RefillFails(a) ==
  \E k \in {"RECHECK", "REFILL"} :
    /\ todo[k][a] > 0
    /\ todo' = End(todo, k, a)
    /\ UNCHANGED <<lifecycleVars, configVars, rowVars, intents>>

\* UpdateQuota persists the intent when its refill returns an error...
QuotaRefillFails(a) ==
  /\ todo["QUOTA"][a] > 0
  /\ todo' = End(todo, "QUOTA", a)
  /\ intents' = intents \cup {a}
  /\ UNCHANGED <<lifecycleVars, configVars, rowVars>>

\* ... unless that INSERT fails as well, as it does when the client has gone and
\* the request's context is cancelled: the error is swallowed.
QuotaSignalLost(a) ==
  /\ todo["QUOTA"][a] > 0
  /\ todo' = End(todo, "QUOTA", a)
  /\ UNCHANGED <<lifecycleVars, configVars, rowVars, intents>>

\* The process stops: the rows stay, everything in flight is gone.
Crash ==
  /\ todo' = [k \in PostCommit |-> [a \in Activity |-> 0]]
  /\ UNCHANGED <<lifecycleVars, configVars, rowVars, intents>>

-----------------------------------------------------------------------------
\* The background worker (admission/worker.go RunOnce) and the clock.

\* expires_at of a PENDING offer passes.
PassDeadline(o) ==
  /\ offer[o] = "PENDING" /\ o \notin overdue
  /\ overdue' = overdue \cup {o}
  /\ UNCHANGED <<lifecycleVars, configVars, application, offer, declineSource,
                 accepted, signalVars>>

\* Mutant: a pause also stops the settlement of what has run out.
SettleDueUnlessPaused(a, S) ==
  /\ status[a] = "ACTIVE" /\ a \notin paused
  /\ SettleExpired(S)
  /\ todo' = IF mode[a] = "AUTO" THEN Begin(todo, "RECHECK", a) ELSE todo
  /\ UNCHANGED <<lifecycleVars, configVars>>
\* One per-activity transaction of SettleDue; S is what is still due of the
\* rows its earlier, unlocked scan listed. DISABLED activities are skipped.
SettleDue(a, S) ==
  /\ status[a] = "ACTIVE"
  /\ SettleExpired(S)
  /\ todo' = IF mode[a] = "AUTO" THEN Begin(todo, "RECHECK", a) ELSE todo
  /\ UNCHANGED <<lifecycleVars, configVars>>

\* executeOne: fill and close every PENDING intent of the activity.
ExecuteIntents(a) ==
  /\ MayRefill(a)
  /\ a \in intents
  /\ FillByRank(a)
  /\ intents' = intents \ {a}
  /\ UNCHANGED <<lifecycleVars, configVars, todo>>

-----------------------------------------------------------------------------
\* The staff's side: lifecycle and configuration of one activity.

\* Whether the ranking is clean and complete and the SMTP account ready is read
\* from state kept elsewhere; it can only refuse the call.
StartAdmission(a) ==
  /\ status[a] = "ACTIVE" /\ a \notin frozen /\ quota[a] >= 1
  /\ frozen' = frozen \cup {a}
  /\ FillAfter(a, {}, IF mode[a] = "AUTO" THEN Room(a, {}) ELSE 0)
  /\ UNCHANGED <<status, paused, platformPaused, configVars, signalVars>>

UpdateQuota(a, q) ==
  /\ status[a] = "ACTIVE"
  /\ q # quota[a] /\ q >= Occupied(a)
  /\ quota' = [quota EXCEPT ![a] = q]
  /\ LET signalled == q > quota[a] /\ mode[a] = "AUTO" /\ a \in frozen
     IN /\ intents' = IF signalled /\ a \in paused THEN intents \cup {a} ELSE intents
        /\ todo' = IF signalled /\ a \notin paused THEN Begin(todo, "QUOTA", a) ELSE todo
  /\ UNCHANGED <<lifecycleVars, mode, rowVars>>

UpdateOfferMode(a, m) ==
  /\ status[a] = "ACTIVE" /\ a \notin frozen /\ m # mode[a]
  /\ mode' = [mode EXCEPT ![a] = m]
  /\ UNCHANGED <<lifecycleVars, quota, rowVars, signalVars>>

Disable(a) ==
  /\ status[a] = "ACTIVE"
  /\ status' = [status EXCEPT ![a] = "DISABLED"]
  /\ paused' = paused \cup {a}
  /\ UNCHANGED <<frozen, platformPaused, configVars, rowVars, signalVars>>

\* Offers that ran out while the activity was DISABLED expire now; refill_paused
\* stays set.
Activate(a) ==
  /\ status[a] = "DISABLED"
  /\ status' = [status EXCEPT ![a] = "ACTIVE"]
  /\ SettleExpired(Due(a))
  /\ UNCHANGED <<frozen, paused, platformPaused, configVars, todo>>

Archive(a) ==
  /\ status[a] = "ACTIVE"
  /\ \A o \in OffersOf(a) : offer[o] # "PENDING"
  /\ status' = [status EXCEPT ![a] = "ARCHIVED"]
  /\ UNCHANGED <<frozen, paused, platformPaused, configVars, rowVars, signalVars>>

PauseRefill(a) ==
  /\ MayRefill(a)
  /\ paused' = paused \cup {a}
  /\ UNCHANGED <<status, frozen, platformPaused, configVars, rowVars, signalVars>>

\* One transaction over every ACTIVE, started AUTO activity.
PauseAllAutoRefills ==
  LET S == {a \in Activity : Started(a) /\ mode[a] = "AUTO"}
  IN /\ paused' = paused \cup S
     /\ platformPaused' = platformPaused \cup S
     /\ UNCHANGED <<status, frozen, configVars, rowVars, signalVars>>

ResumeRefill(a) ==
  LET S == Due(a)
  IN /\ mode[a] = "AUTO" /\ status[a] = "ACTIVE"
     /\ a \notin platformPaused /\ a \in paused
     /\ paused' = paused \ {a}
     /\ FillAfter(a, S, Seats(a, S))
     /\ intents' = intents \ {a}
     /\ UNCHANGED <<status, frozen, platformPaused, configVars, todo>>

-----------------------------------------------------------------------------
\* The staff's side: issuing. The SMTP gate can only refuse the call.

\* IssueBatch: with no eligible application left nothing is issued, yet the
\* INELIGIBLE marks of the walk are committed.
IssueBatch(a, limit) ==
  /\ Started(a) /\ mode[a] = "BATCH"
  /\ Room(a, {}) > 0
  /\ FillAfter(a, {}, IF limit < Room(a, {}) THEN limit ELSE Room(a, {}))
  /\ UNCHANGED <<lifecycleVars, configVars, signalVars>>

\* Mutant: the candidate row is locked but its pointer is not looked at.
InsertOfferUnchecked(i) ==
  /\ Room(ActivityOf[i], {}) > 0
  /\ FreeSlots(i) # {}
  /\ offer' = WithOffers({}, "NONE", NewRows({i}))
  /\ application' = [application EXCEPT ![i] = "OFFERED"]
  /\ UNCHANGED <<lifecycleVars, configVars, declineSource, overdue, accepted, signalVars>>
\* Mutant: the application gets the offer's status.
InsertOfferWrongStatus(i) ==
  /\ accepted[CandidateOf[i]] = NoOffer
  /\ Room(ActivityOf[i], {}) > 0
  /\ FreeSlots(i) # {}
  /\ offer' = WithOffers({}, "NONE", NewRows({i}))
  /\ application' = [application EXCEPT ![i] = "PENDING"]
  /\ UNCHANGED <<lifecycleVars, configVars, declineSource, overdue, accepted, signalVars>>
\* Insert one offer for application i, whose candidate row is locked.
InsertOffer(i) ==
  /\ accepted[CandidateOf[i]] = NoOffer
  /\ Room(ActivityOf[i], {}) > 0
  /\ FreeSlots(i) # {}
  /\ offer' = WithOffers({}, "NONE", NewRows({i}))
  /\ application' = [application EXCEPT ![i] = "OFFERED"]
  /\ UNCHANGED <<lifecycleVars, configVars, declineSource, overdue, accepted, signalVars>>

IssueManual(i) ==
  LET a == ActivityOf[i]
  IN /\ Started(a) /\ mode[a] = "MANUAL"
     /\ application[i] = "WAITING"
     /\ \A o \in Active : ~(ActOf(o) = a /\ CandOf(o) = CandidateOf[i])
     /\ InsertOffer(i)

\* LatestForApplication prefers an active row, so the latest is DECLINED or
\* EXPIRED exactly when the application has rows and none of them is active.
IssueSpecial(i) ==
  /\ Started(ActivityOf[i])
  /\ application[i] \in {"DECLINED", "EXPIRED"}
  /\ \E k \in Attempt : offer[<<i, k>>] # "NONE"
  /\ \A k \in Attempt : <<i, k>> \notin Active
  /\ InsertOffer(i)

-----------------------------------------------------------------------------
\* Activities are created ACTIVE with a quota of at least 1 in any mode, their
\* applications imported as WAITING.
Init ==
  /\ status = [a \in Activity |-> "ACTIVE"]
  /\ quota \in [Activity -> UNION {Quotas[a] : a \in Activity}]
  /\ \A a \in Activity : quota[a] \in Quotas[a]
  /\ mode \in [Activity -> OfferMode] /\ \A a \in Activity : mode[a] \in Modes[a]
  /\ frozen = {} /\ paused = {} /\ platformPaused = {}
  /\ application = [i \in Application |-> "WAITING"]
  /\ offer = [o \in OfferId |-> "NONE"]
  /\ declineSource = [o \in OfferId |-> ""]
  /\ overdue = {}
  /\ accepted = [c \in Candidate |-> NoOffer]
  /\ intents = {}
  /\ todo = [k \in PostCommit |-> [a \in Activity |-> 0]]

CandidateNext ==
  \E o \in OfferId : AcceptExpired(o) \/ Accept(o) \/ Decline(o)
FollowUpNext ==
  \E a \in Activity :
    \/ RecheckRefill(a) \/ PostCommitRefill(a) \/ RefillFails(a) \/ QuotaRefillFails(a)
WorkerNext ==
  \/ \E a \in Activity : ExecuteIntents(a) \/ \E S \in SUBSET Due(a) : SettleDue(a, S)
  \/ \E o \in OfferId : PassDeadline(o)
LifecycleNext ==
  \/ PauseAllAutoRefills
  \/ \E a \in Activity :
       \/ StartAdmission(a) \/ Disable(a) \/ Activate(a) \/ Archive(a)
       \/ PauseRefill(a) \/ ResumeRefill(a)
       \/ \E q \in Quotas[a] : UpdateQuota(a, q)
       \/ \E m \in Modes[a] : UpdateOfferMode(a, m)
IssueNext ==
  \/ \E a \in Activity : \E limit \in Quotas[a] : IssueBatch(a, limit)
  \/ \E i \in Application : IssueManual(i) \/ IssueSpecial(i)

\* What happens while the process runs and finishes the requests it began.
Steady == CandidateNext \/ FollowUpNext \/ WorkerNext \/ LifecycleNext \/ IssueNext
\* A crash, or a request cut off after its commit.
Failure == Crash \/ \E a \in Activity : QuotaSignalLost(a)

Next == Steady \/ Failure

Spec == Init /\ [][Next]_vars
SteadySpec == Init /\ [][Steady]_vars

\* The worker's loop keeps ticking (RunOnce), and a follow-up that began ends.
WorkerFairness ==
  \A a \in Activity :
    /\ WF_vars(Due(a) # {} /\ SettleDue(a, Due(a)))
    /\ WF_vars(ExecuteIntents(a))
FollowUpFairness ==
  \A a \in Activity :
    /\ WF_vars(RecheckRefill(a))
    /\ WF_vars(PostCommitRefill(a) \/ QuotaRefillFails(a))
SteadyLiveSpec == SteadySpec /\ WorkerFairness /\ FollowUpFairness
-----------------------------------------------------------------------------
\* Properties.

\* Every variable stays within its column's domain.
TypeOK ==
  /\ status \in [Activity -> ActivityStatus]
  /\ quota \in [Activity -> Nat]
  /\ mode \in [Activity -> OfferMode]
  /\ frozen \subseteq Activity /\ paused \subseteq Activity
  /\ platformPaused \subseteq Activity
  /\ application \in [Application -> ApplicationStatus]
  /\ offer \in [OfferId -> OfferStatus]
  /\ declineSource \in [OfferId -> DeclineSource]
  /\ overdue \subseteq OfferId
  /\ accepted \in [Candidate -> OfferId \cup {NoOffer}]
  /\ intents \subseteq Activity
  /\ todo \in [PostCommit -> [Activity -> 0 .. MaxInFlight]]

\* INV-1: no interleaving of manual, special, batch and automatic issuing, late
\* post-commit refills and quota changes makes the PENDING and ACCEPTED offers
\* of an activity exceed its quota.
QuotaRespected == \A a \in Activity : Occupied(a) <= quota[a]

\* INV-2: a candidate has accepted at most one offer over all activities, and
\* candidate.accepted_offer_id names exactly that offer.
AcceptedOnce ==
  /\ \A o \in OfferId : offer[o] = "ACCEPTED" => accepted[CandOf(o)] = o
  /\ \A c \in Candidate : accepted[c] # NoOffer =>
       offer[accepted[c]] = "ACCEPTED" /\ CandOf(accepted[c]) = c

\* D1: from the commit of an acceptance on, its candidate holds no PENDING offer
\* in any activity, not even a DISABLED one, and is never issued another: the
\* "accepted elsewhere" reconciliation in acceptTx is never needed.
NoPendingAfterAccept ==
  \A o \in OfferId : offer[o] = "PENDING" => accepted[CandOf(o)] = NoOffer

RowsOf(i) == {k \in Attempt : offer[<<i, k>>] # "NONE"}
Mirrored(i) ==
  IF application[i] \in {"WAITING", "INELIGIBLE"} THEN RowsOf(i) = {}
  ELSE \E last \in RowsOf(i) :
         /\ offer[<<i, last>>] =
              IF application[i] = "OFFERED" THEN "PENDING" ELSE application[i]
         /\ \A k \in Attempt \ {last} :
              offer[<<i, k>>] \in IF k < last THEN {"DECLINED", "EXPIRED"} ELSE {"NONE"}

\* The application mirrors its offers: WAITING and INELIGIBLE ones have no offer
\* row, the status of every other is that of its newest row, and all older rows
\* are DECLINED or EXPIRED (so at most one is active, INV-3): no transaction
\* writes one table and forgets the other.
ApplicationMirrorsOffers == \A i \in Application : Mirrored(i)

\* An application is INELIGIBLE only if its candidate accepted another activity's
\* offer, and a CROSS_ACTIVITY decline is backed by an acceptance elsewhere.
ElsewhereIsReal ==
  /\ \A i \in Application : application[i] = "INELIGIBLE" =>
       /\ accepted[CandidateOf[i]] # NoOffer
       /\ ActOf(accepted[CandidateOf[i]]) # ActivityOf[i]
  /\ \A o \in OfferId : declineSource[o] = "CROSS_ACTIVITY" =>
       /\ accepted[CandOf(o)] # NoOffer
       /\ ActOf(accepted[CandOf(o)]) # ActOf(o)

\* AUTO and BATCH admissions go strictly down the frozen ranking: nobody is
\* served while someone ranked higher in the same activity is still WAITING.
RankOrderKept ==
  \A i, j \in Application :
    /\ ActivityOf[i] = ActivityOf[j] /\ RankOf[i] < RankOf[j]
    /\ mode[ActivityOf[i]] # "MANUAL"
    /\ application[i] = "WAITING"
    => application[j] = "WAITING"

\* D4: while a running AUTO activity has a free seat and an eligible application,
\* an intent is PENDING or the refill of a quota increase is still on its way.
SignalKept ==
  \A a \in Activity :
    MayRefill(a) /\ Occupied(a) < quota[a] /\ Eligible(a) # {} =>
      a \in intents \/ todo["QUOTA"][a] > 0

\* D1/D2: an offer of a DISABLED activity changes only by its candidate's
\* acceptance elsewhere or by the re-activation; nothing of an ARCHIVED
\* activity changes, whatever was in flight when it was archived.
InactiveUntouched ==
  [][\A o \in OfferId : offer'[o] # offer[o] /\ status[ActOf(o)] # "ACTIVE" =>
       /\ status[ActOf(o)] = "DISABLED"
       /\ \/ offer'[o] = "DECLINED" /\ accepted'[CandOf(o)] # accepted[CandOf(o)]
          \/ offer'[o] = "EXPIRED" /\ status'[ActOf(o)] = "ACTIVE"]_vars

\* D4: in a paused AUTO activity whose admission has started no WAITING
\* application is issued an offer, other than by the resume that lifts the pause.
PauseHonoured ==
  [][\A i \in Application :
       LET a == ActivityOf[i]
       IN mode[a] = "AUTO" /\ a \in frozen /\ a \in paused /\ a \in paused'
            => ~(application[i] = "WAITING" /\ application'[i] = "OFFERED")]_vars

\* An offer moves NONE -> PENDING -> one terminal status and never again; it
\* expires only past its deadline and is accepted only before it.
OfferLifecycle ==
  [][\A o \in OfferId : offer'[o] # offer[o] =>
       \/ offer[o] = "NONE" /\ offer'[o] = "PENDING" /\ o \notin overdue'
       \/ offer[o] = "PENDING" /\ offer'[o] = "DECLINED"
       \/ offer[o] = "PENDING" /\ offer'[o] = "EXPIRED" /\ o \in overdue
       \/ offer[o] = "PENDING" /\ offer'[o] = "ACCEPTED" /\ o \notin overdue]_vars

\* The offers open to each candidate and the seats taken, by activity, as the
\* offer rows have them.
OpenOffers == [c \in Candidate |-> {ActOf(o) : o \in PendingOf(c)}]
SeatsTaken ==
  [c \in Candidate |->
     {ActOf(o) : o \in {p \in OfferId : offer[p] = "ACCEPTED" /\ CandOf(p) = c}}]

\* INV-1, INV-2 and D1 as one promise: the transactions together behave as
\* SingleAcceptance does, in which an acceptance closes all other offers of its
\* student in one step and a step touches one activity's offers otherwise.
Promise == INSTANCE SingleAcceptance
  WITH Student <- Candidate, Sizes <- UNION {Quotas[a] : a \in Activity},
       size <- quota, open <- OpenOffers, seat <- SeatsTaken
OneSeat == Promise!AdmissionSpec

\* An offer past its deadline is settled unless its activity is taken out of
\* service first.
OverdueSettled ==
  \A o \in OfferId : o \in overdue ~> o \notin overdue \/ status[ActOf(o)] # "ACTIVE"

\* A running AUTO activity that is left running does not keep a seat free while
\* an eligible application waits for it.
SeatsRefilled ==
  \A a \in Activity :
    <>[]MayRefill(a) => []<>(Occupied(a) >= quota[a] \/ Eligible(a) = {})

=============================================================================
