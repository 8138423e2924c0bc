---------------------------- MODULE MailQueueProofs ----------------------------
(***************************************************************************)
(* Theorems about MailQueue, for every number of workers, tasks, retries   *)
(* and mishaps.                                                            *)
(***************************************************************************)
EXTENDS MailQueue, FiniteSetTheorems, TLAPS

-----------------------------------------------------------------------------
\* Types.

\* A step of a busy worker keeps the types of what the worker holds.
LEMMA GotoType ==
  ASSUME TypeOK, NEW w \in Worker, NEW step \in Step \ {"idle"}, pc[w] # "idle",
         Goto(w, step), task' = task
  PROVE  pc' \in [Worker -> Step] /\ \A v \in Worker : pc'[v] = "idle" <=> task'[v] = NoTask
  BY DEF TypeOK, Goto

\* So does giving the task up.
LEMMA ReleaseType ==
  ASSUME TypeOK, NEW w \in Worker, Release(w)
  PROVE  /\ pc' \in [Worker -> Step] /\ task' \in [Worker -> Task \cup {NoTask}]
         /\ seen' \in [Worker -> Nat]
         /\ \A v \in Worker : pc'[v] = "idle" <=> task'[v] = NoTask
  BY DEF TypeOK, Release, Step

\* A busy worker has a task.
LEMMA BusyTask ==
  ASSUME TypeOK, NEW w \in Worker, pc[w] # "idle"
  PROVE  task[w] \in Task
  BY DEF TypeOK

\* The guarded UPDATE keeps the types of the rows.
LEMMA CompleteType ==
  ASSUME TypeOK, NEW w \in Worker, pc[w] # "idle",
         NEW new \in {"SENT", "FAILED", "PENDING"}, CompleteTask(w, new)
  PROVE  /\ status' \in [Task -> MailTaskStatus]
         /\ leaseOwner' \in [Task -> Worker \cup {Nobody, Gone}]
         /\ lapsed' \subseteq Task /\ due' \subseteq Task
         /\ retryCount' \in [Task -> Nat]
<1>1. task[w] \in Task
  BY BusyTask
<1>2. CASE Holds(w)
  BY <1>1, <1>2 DEF CompleteTask, TypeOK, MailTaskStatus
<1>3. CASE ~Holds(w)
  BY <1>3 DEF CompleteTask, TypeOK, rowVars
<1>4. QED
  BY <1>2, <1>3

\* The steps of a worker up to its submission.
LEMMA ClaimType ==
  ASSUME TypeOK, NEW w \in Worker,
         \/ RequeueExpiredLease(w) \/ \E t \in Task : SelectNext(w, t)
         \/ Claim(w) \/ Defer(w) \/ CheckLease(w)
  PROVE  TypeOK'
<1> USE DEF worldVars, historyVars, workerVars, rowVars
<1>1. CASE RequeueExpiredLease(w)
  BY <1>1 DEF RequeueExpiredLease, TypeOK, MailTaskStatus
<1>2. ASSUME NEW t \in Task, SelectNext(w, t) PROVE TypeOK'
  BY <1>2, OwnerAssumption DEF SelectNext, Goto, TypeOK, Step
<1>3. CASE Claim(w)
  <2>1. task[w] \in Task
    BY <1>3, BusyTask DEF Claim
  <2>2. CASE status[task[w]] = "PENDING"
    BY <1>3, <2>1, <2>2, GotoType DEF Claim, TypeOK, MailTaskStatus, Step
  <2>3. CASE status[task[w]] # "PENDING"
    BY <1>3, <2>3, ReleaseType DEF Claim, TypeOK
  <2>4. QED
    BY <2>2, <2>3
<1>4. CASE Defer(w)
  <2>1. task[w] \in Task
    BY <1>4, BusyTask DEF Defer
  <2>2. status' \in [Task -> MailTaskStatus]
    BY <1>4, <2>1 DEF Defer, TypeOK, MailTaskStatus
  <2>3. QED
    BY <1>4, <2>1, <2>2, ReleaseType DEF Defer, TypeOK
<1>5. CASE CheckLease(w)
  <2>1. CASE Holds(w)
    BY <1>5, <2>1, GotoType DEF CheckLease, TypeOK, Step
  <2>2. CASE ~Holds(w)
    BY <1>5, <2>2, ReleaseType DEF CheckLease, TypeOK
  <2>3. QED
    BY <2>1, <2>2
<1>6. QED
  BY <1>1, <1>2, <1>3, <1>4, <1>5

\* The steps that only move the worker on.
LEMMA MoveType ==
  ASSUME TypeOK, NEW w \in Worker,
         \/ FirstRecheck(w) \/ MintOfferToken(w) \/ LastRecheck(w)
         \/ ResolveFails(w) \/ PassGate(w) \/ RecheckErrs(w) \/ PrepareFails(w)
  PROVE  TypeOK'
<1>1. /\ pc[w] # "idle" /\ task' = task
      /\ \E step \in Step \ {"idle"} : Goto(w, step)
  BY DEF FirstRecheck, MintOfferToken, LastRecheck, Recheck, ResolveFails, PassGate,
         RecheckErrs, PrepareFails, Step
<1>2. UNCHANGED <<rowVars, worldVars, seen, resting, delivered, excused, blocked, sentAt>>
  BY DEF FirstRecheck, MintOfferToken, LastRecheck, Recheck, ResolveFails, PassGate,
         RecheckErrs, PrepareFails, historyVars
<1>3. mishaps' \in Nat
  BY DEF FirstRecheck, MintOfferToken, LastRecheck, Recheck, ResolveFails, PassGate,
         RecheckErrs, PrepareFails, historyVars, Mishap, TypeOK
<1>4. QED
  BY <1>1, <1>2, <1>3, GotoType DEF TypeOK, rowVars, worldVars

\* The submission and what follows it.
LEMMA SubmitType ==
  ASSUME TypeOK, NEW w \in Worker,
         \/ SubmitSucceeds(w) \/ SubmitUnconfirmed(w) \/ SubmitFails(w)
         \/ Complete(w) \/ Backfill(w) \/ FinishFailure(w) \/ Cancel(w)
  PROVE  TypeOK'
<1> USE DEF worldVars, historyVars
<1>1. task[w] \in Task /\ pc[w] # "idle" /\ SubjectOf[task[w]] \in Subject
  <2>1. pc[w] # "idle"
    BY DEF SubmitSucceeds, SubmitUnconfirmed, SubmitFails, Complete, Backfill,
           FinishFailure, Cancel
  <2>2. QED
    BY <2>1, BusyTask, TaskAssumption
<1>2. CASE SubmitSucceeds(w)
  BY <1>1, <1>2, GotoType DEF SubmitSucceeds, TypeOK, rowVars, Step
<1>3. CASE SubmitUnconfirmed(w)
  BY <1>1, <1>3, GotoType DEF SubmitUnconfirmed, TypeOK, rowVars, Step
<1>4. CASE SubmitFails(w)
  BY <1>1, <1>4, GotoType DEF SubmitFails, TypeOK, rowVars, Step
<1>5. CASE Complete(w)
  <2>1. CompleteTask(w, "SENT")
    BY <1>5 DEF Complete
  <2>2. /\ pc' \in [Worker -> Step] /\ task' \in [Worker -> Task \cup {NoTask}]
        /\ seen' \in [Worker -> Nat]
        /\ \A v \in Worker : pc'[v] = "idle" <=> task'[v] = NoTask
    <3>1. CASE Holds(w) /\ SubjectOf[task[w]] \in Offer
      BY <1>1, <1>5, <3>1, GotoType DEF Complete, Step, TypeOK
    <3>2. CASE ~(Holds(w) /\ SubjectOf[task[w]] \in Offer)
      BY <1>5, <3>2, ReleaseType DEF Complete
    <3>3. QED
      BY <3>1, <3>2
  <2>3. QED
    BY <1>1, <1>5, <2>1, <2>2, CompleteType DEF Complete, TypeOK
<1>6. CASE Backfill(w)
  BY <1>1, <1>6, ReleaseType DEF Backfill, TypeOK, rowVars
<1>7. CASE FinishFailure(w)
  <2>1. \E new \in {"FAILED", "PENDING"} : CompleteTask(w, new)
    BY <1>7 DEF FinishFailure
  <2>2. QED
    BY <1>1, <1>7, <2>1, CompleteType, ReleaseType DEF FinishFailure, TypeOK
<1>8. CASE Cancel(w)
  BY <1>1, <1>8, ReleaseType DEF Cancel, TypeOK, MailTaskStatus
<1>9. QED
  BY <1>2, <1>3, <1>4, <1>5, <1>6, <1>7, <1>8

\* The rest of the system and the clock.
LEMMA OutsideType == TypeOK /\ (SystemNext \/ ClockNext) => TypeOK'
<1> SUFFICES ASSUME TypeOK, SystemNext \/ ClockNext PROVE TypeOK'
  OBVIOUS
<1> USE DEF worldVars, historyVars, workerVars, TypeOK
<1>1. ASSUME NEW t \in Task, QueueMail(t) \/ Requeue(t) PROVE TypeOK'
  BY <1>1 DEF QueueMail, Requeue, Mishap, MailTaskStatus
<1>2. ASSUME NEW s \in Subject, CloseSubject(s) PROVE TypeOK'
  BY <1>2 DEF CloseSubject, BlockedIn, rowVars
<1>3. ASSUME NEW S, CancelPending(S)
      PROVE  /\ status' \in [Task -> MailTaskStatus]
             /\ UNCHANGED <<leaseOwner, lapsed, due, retryCount>>
  BY <1>3 DEF CancelPending, MailTaskStatus
<1>4. ASSUME NEW s \in Subject, Supersede(s) PROVE TypeOK'
  BY <1>3, <1>4 DEF Supersede, BlockedIn
<1>5. ASSUME NEW new \in {"DISABLED", "ARCHIVED"}, TakeOutOfService(new) PROVE TypeOK'
  BY <1>3, <1>5 DEF TakeOutOfService, BlockedIn, ActivityStatus
<1>6. CASE Activate \/ ConfigureSMTP
  BY <1>6 DEF Activate, ConfigureSMTP, ActivityStatus, rowVars
<1>7. ASSUME NEW t \in Task, PassRetryTime(t) \/ LeaseLapses(t) PROVE TypeOK'
  BY <1>7 DEF PassRetryTime, LeaseLapses
<1>8. ASSUME NEW w \in Worker, RestEnds(w) PROVE TypeOK'
  BY <1>8 DEF RestEnds, rowVars
<1>9. QED
  BY <1>1, <1>2, <1>4, <1>5, <1>6, <1>7, <1>8 DEF SystemNext, ClockNext

\* What goes wrong.
LEMMA InterruptionType == TypeOK /\ Interruption => TypeOK'
<1> SUFFICES ASSUME TypeOK, Interruption PROVE TypeOK'
  OBVIOUS
<1> USE DEF worldVars, historyVars, workerVars
<1>1. ASSUME NEW w \in Worker, Crash(w) PROVE TypeOK'
  BY <1>1, ReleaseType DEF Crash, Mishap, TypeOK
<1>2. ASSUME NEW w \in Worker, StatementFails(w) PROVE TypeOK'
  BY <1>2, ReleaseType DEF StatementFails, Mishap, TypeOK, rowVars
<1>3. ASSUME NEW t \in Task, Stall(t) PROVE TypeOK'
  BY <1>3 DEF Stall, Mishap, TypeOK
<1>4. QED
  BY <1>1, <1>2, <1>3, MoveType DEF Interruption

\* Every step keeps the types.
LEMMA NextType == TypeOK /\ [Next]_vars => TypeOK'
<1>1. TypeOK /\ UNCHANGED vars => TypeOK'
  BY DEF vars, rowVars, worldVars, workerVars, historyVars, TypeOK
<1>2. QED
  BY <1>1, ClaimType, MoveType, SubmitType, OutsideType, InterruptionType
  DEF Next, WithInterruptions, WorkerStep

\* Nothing is queued at first.
LEMMA InitType == Init => TypeOK
  BY DEF Init, TypeOK, MailTaskStatus, ActivityStatus, Step

\* Every column and every worker's variables stay in their domains (the mail_task
\* rows, the worker's loop), and a worker that does something has a task.
THEOREM TypeCorrect == Spec => []TypeOK
  BY InitType, NextType, PTL DEF Spec

-----------------------------------------------------------------------------
\* The life of a row.

\* The moves of mail_task.status, each with what lets it happen.
RowMove(t) ==
  \/ status[t] = "NONE" /\ status'[t] = "PENDING" /\ (Sendable(t) \/ t \in blocked')
  \/ status[t] = "FAILED" /\ status'[t] = "PENDING" /\ retryCount'[t] = 0
  \/ status[t] = "PENDING" /\ status'[t] = "SENDING"
  \/ status[t] = "SENDING" /\ status'[t] \in {"PENDING", "FAILED"}
  \/ /\ status[t] = "SENDING" /\ status'[t] = "SENT"
     /\ \E w \in Worker : pc[w] = "complete" /\ task[w] = t
  \/ /\ status[t] \in {"PENDING", "SENDING"} /\ status'[t] = "CANCELLED"
     /\ \E w \in Worker : pc[w] = "cancel" /\ task[w] = t
  \/ status[t] = "PENDING" /\ status'[t] = "CANCELLED" /\ ~Sendable(t)'
RowMoves == \A t \in Task : status'[t] # status[t] => RowMove(t)

\* The rows moved by a worker.
LEMMA WorkerMoves ==
  ASSUME TypeOK, NEW w \in Worker, WorkerStep(w)
  PROVE  RowMoves
<1>1. CASE RequeueExpiredLease(w)
  BY <1>1 DEF RequeueExpiredLease, RowMoves, RowMove, TypeOK
<1>2. CASE Claim(w)
  <2>1. task[w] \in Task
    BY <1>2, BusyTask DEF Claim
  <2>2. QED
    BY <1>2, <2>1 DEF Claim, RowMoves, RowMove, TypeOK
<1>3. CASE Defer(w)
  <2>1. task[w] \in Task
    BY <1>3, BusyTask DEF Defer
  <2>2. QED
    BY <1>3, <2>1 DEF Defer, Holds, RowMoves, RowMove, TypeOK
<1>4. CASE Complete(w)
  <2>1. task[w] \in Task /\ pc[w] = "complete" /\ CompleteTask(w, "SENT")
    BY <1>4, BusyTask DEF Complete
  <2>2. QED
    BY <2>1 DEF CompleteTask, Holds, RowMoves, RowMove, TypeOK, rowVars
<1>5. CASE FinishFailure(w)
  <2>1. task[w] \in Task /\ \E new \in {"FAILED", "PENDING"} : CompleteTask(w, new)
    BY <1>5, BusyTask DEF FinishFailure
  <2>2. QED
    BY <2>1 DEF CompleteTask, Holds, RowMoves, RowMove, TypeOK, rowVars
<1>6. CASE Cancel(w)
  <2>1. task[w] \in Task /\ pc[w] = "cancel"
    BY <1>6, BusyTask DEF Cancel
  <2>2. QED
    BY <1>6, <2>1 DEF Cancel, RowMoves, RowMove, TypeOK
<1>7. CASE \/ \E t \in Task : SelectNext(w, t)
           \/ FirstRecheck(w) \/ MintOfferToken(w) \/ LastRecheck(w)
           \/ ResolveFails(w) \/ PassGate(w) \/ CheckLease(w)
           \/ SubmitSucceeds(w) \/ SubmitUnconfirmed(w) \/ SubmitFails(w) \/ Backfill(w)
  BY <1>7 DEF SelectNext, FirstRecheck, MintOfferToken, LastRecheck, Recheck, ResolveFails,
     PassGate, CheckLease, SubmitSucceeds, SubmitUnconfirmed, SubmitFails, Backfill,
     rowVars, RowMoves
<1>8. QED
  BY <1>1, <1>2, <1>3, <1>4, <1>5, <1>6, <1>7 DEF WorkerStep

\* The rows moved by the rest of the system.
LEMMA SystemMoves ==
  ASSUME TypeOK, SystemNext
  PROVE  RowMoves
<1>1. ASSUME NEW t \in Task, QueueMail(t) \/ Requeue(t) PROVE RowMoves
  BY <1>1 DEF QueueMail, Requeue, RowMoves, RowMove, TypeOK
<1>2. ASSUME NEW S \in SUBSET Task, CancelPending(S), \A t \in S : ~Sendable(t)'
      PROVE  RowMoves
  BY <1>2 DEF CancelPending, RowMoves, RowMove, TypeOK
<1>3. ASSUME NEW s \in Subject, Supersede(s) PROVE RowMoves
  <2>1. \A t \in {u \in Task : SubjectOf[u] = s} : ~Sendable(t)'
    BY <1>3 DEF Supersede, Sendable, SendableIn
  <2>2. QED
    BY <1>2, <1>3, <2>1 DEF Supersede
<1>4. ASSUME NEW new \in {"DISABLED", "ARCHIVED"}, TakeOutOfService(new) PROVE RowMoves
  <2>1. \A t \in Task : ~Sendable(t)'
    BY <1>4 DEF TakeOutOfService, Sendable, SendableIn
  <2>2. QED
    BY <1>2, <1>4, <2>1 DEF TakeOutOfService
<1>5. ASSUME status' = status PROVE RowMoves
  BY <1>5 DEF RowMoves
<1>6. ASSUME NEW s \in Subject, CloseSubject(s) PROVE RowMoves
  BY <1>5, <1>6 DEF CloseSubject, rowVars
<1>7. CASE Activate \/ ConfigureSMTP
  BY <1>5, <1>7 DEF Activate, ConfigureSMTP, rowVars
<1>8. QED
  BY <1>1, <1>3, <1>4, <1>6, <1>7 DEF SystemNext

\* Every step moves the rows as RowMove says.
LEMMA NextMoves == TypeOK /\ [Next]_vars => RowMoves
<1> SUFFICES ASSUME TypeOK, [Next]_vars PROVE RowMoves
  OBVIOUS
<1>1. CASE \/ ClockNext \/ Interruption \/ (\E w \in Worker : RecheckErrs(w))
           \/ UNCHANGED vars
  <2>1. status' = status
    BY <1>1 DEF ClockNext, PassRetryTime, RestEnds, LeaseLapses, Interruption, Crash, Stall,
       StatementFails, PrepareFails, RecheckErrs, rowVars, vars
  <2>2. QED
    BY <2>1 DEF RowMoves
<1>2. QED
  BY <1>1, WorkerMoves, SystemMoves DEF Next, WithInterruptions

\* Terminal rows are final: the guarded UPDATE of CompleteTask, CancelTask's
\* WHERE and ClaimNext's WHERE keep every late worker off them.
THEOREM SettledForGood == Spec => SettledStays
<1>1. TypeOK /\ RowMoves =>
        [\A t \in Task : status[t] \in {"SENT", "FAILED", "CANCELLED"} /\ status'[t] # status[t] =>
           status[t] = "FAILED" /\ status'[t] = "PENDING" /\ retryCount'[t] = 0]_vars
  BY DEF RowMoves, RowMove
<1>2. QED
  BY <1>1, TypeCorrect, NextMoves, PTL DEF Spec, SettledStays

-----------------------------------------------------------------------------
\* SENT means sent.

\* A worker that records a success has made one.
ConfirmedInv ==
  \A w \in Worker : pc[w] \in {"complete", "backfill"} => delivered[task[w]] > 0
SentInv == ConfirmedInv /\ SentIsReal

\* What a step may do on the way to SENT: submissions are only added, a worker
\* gets past its submission by one, and sent_at is set after that.
Confirming ==
  /\ \A t \in Task : delivered'[t] \in Nat /\ delivered'[t] >= delivered[t]
  /\ \A w \in Worker : pc'[w] \in {"complete", "backfill"} =>
       /\ task'[w] = task[w] /\ task[w] \in Task
       /\ pc[w] \in {"complete", "backfill"} \/ delivered'[task[w]] > 0
  /\ \A s \in sentAt' : s \in sentAt \/ \E w \in Worker :
       pc[w] = "backfill" /\ s = SubjectOf[task[w]] /\ task[w] \in Task

\* The workers' steps are such.
LEMMA WorkerConfirms ==
  ASSUME TypeOK, NEW w \in Worker, WorkerStep(w)
  PROVE  Confirming
<1> USE DEF Confirming
<1>1. \A v \in Worker : pc[v] # "idle" => task[v] \in Task
  BY DEF TypeOK
<1>2. ASSUME delivered' = delivered, sentAt' = sentAt,
             \/ Release(w)
             \/ pc' = pc /\ task' = task
             \/ /\ task' = task
                /\ \E step : Goto(w, step) /\ (step = "backfill" => pc[w] = "complete")
                             /\ step # "complete"
             \/ \E t \in Task : pc[w] = "idle" /\ Goto(w, "claim") /\ task' = [task EXCEPT ![w] = t]
      PROVE  Confirming
  BY <1>1, <1>2 DEF TypeOK, Goto, Release
<1>3. CASE RequeueExpiredLease(w)
  BY <1>2, <1>3 DEF RequeueExpiredLease, workerVars
<1>4. CASE \E t \in Task : SelectNext(w, t)
  BY <1>2, <1>4 DEF SelectNext, historyVars
<1>5. CASE Claim(w) \/ Defer(w) \/ CheckLease(w) \/ FinishFailure(w) \/ Cancel(w)
  BY <1>2, <1>5 DEF Claim, Defer, CheckLease, FinishFailure, Cancel, historyVars
<1>6. CASE \/ FirstRecheck(w) \/ MintOfferToken(w) \/ LastRecheck(w)
           \/ ResolveFails(w) \/ PassGate(w)
  BY <1>2, <1>6 DEF FirstRecheck, MintOfferToken, LastRecheck, Recheck, ResolveFails,
     PassGate, historyVars
<1>7. CASE SubmitFails(w) \/ Complete(w)
  BY <1>2, <1>7 DEF SubmitFails, Complete, historyVars
<1>8. CASE SubmitSucceeds(w) \/ SubmitUnconfirmed(w)
  <2>1. /\ task[w] \in Task /\ delivered' = [delivered EXCEPT ![task[w]] = @ + 1]
        /\ sentAt' = sentAt /\ task' = task
        /\ \E step : Goto(w, step)
    BY <1>1, <1>8 DEF SubmitSucceeds, SubmitUnconfirmed
  <2>2. QED
    BY <1>1, <2>1 DEF TypeOK, Goto
<1>9. CASE Backfill(w)
  <2>1. /\ task[w] \in Task /\ pc[w] = "backfill" /\ Release(w) /\ delivered' = delivered
        /\ sentAt' = sentAt \cup {SubjectOf[task[w]]}
    BY <1>1, <1>9 DEF Backfill, historyVars
  <2>2. QED
    BY <1>1, <2>1 DEF TypeOK, Release
<1>10. QED
  BY <1>3, <1>4, <1>5, <1>6, <1>7, <1>8, <1>9 DEF WorkerStep

\* So is every step.
LEMMA NextConfirms == TypeOK /\ [Next]_vars => Confirming
<1> SUFFICES ASSUME TypeOK, [Next]_vars PROVE Confirming
  OBVIOUS
<1>1. \A v \in Worker : pc[v] # "idle" => task[v] \in Task
  BY DEF TypeOK
<1>2. ASSUME UNCHANGED <<delivered, sentAt>>,
             \/ pc' = pc /\ task' = task
             \/ \E w \in Worker :
                  Release(w) \/ (task' = task /\ \E step \in {"fail", "cancel"} : Goto(w, step))
      PROVE  Confirming
  BY <1>1, <1>2 DEF Confirming, TypeOK, Goto, Release
<1>3. CASE SystemNext \/ ClockNext \/ UNCHANGED vars
  <2>1. UNCHANGED <<delivered, sentAt, pc, task>>
    BY <1>3 DEF SystemNext, QueueMail, Requeue, CloseSubject, Supersede, TakeOutOfService,
       Activate, ConfigureSMTP, ClockNext, PassRetryTime, LeaseLapses, RestEnds,
       vars, workerVars, historyVars
  <2>2. QED
    BY <1>2, <2>1
<1>4. CASE Interruption \/ \E w \in Worker : RecheckErrs(w)
  BY <1>2, <1>4 DEF Interruption, Crash, StatementFails, PrepareFails, Stall, RecheckErrs,
     workerVars
<1>5. QED
  BY <1>3, <1>4, WorkerConfirms DEF Next, WithInterruptions

LEMMA SentInvHolds == Spec => []SentInv
<1>1. Init => SentInv
  BY DEF Init, SentInv, ConfirmedInv, SentIsReal
<1>2. ASSUME TypeOK, TypeOK', SentInv, [Next]_vars
      PROVE  SentInv'
  <2>1. Confirming /\ RowMoves
    BY <1>2, NextConfirms, NextMoves
  <2>2. ConfirmedInv'
    BY <1>2, <2>1 DEF Confirming, SentInv, ConfirmedInv, TypeOK
  <2>3. \A t \in Task : status'[t] = "SENT" => delivered'[t] > 0
    <3>1. SUFFICES ASSUME NEW t \in Task, status'[t] = "SENT" PROVE delivered'[t] > 0
      OBVIOUS
    <3>2. delivered'[t] >= delivered[t] /\ delivered[t] \in Nat /\ delivered'[t] \in Nat
      BY <1>2, <2>1 DEF Confirming, TypeOK
    <3>3. delivered[t] > 0
      <4>1. CASE status[t] = "SENT"
        BY <1>2, <4>1 DEF SentInv, SentIsReal
      <4>2. CASE status[t] # "SENT"
        BY <1>2, <2>1, <3>1, <4>2 DEF RowMoves, RowMove, SentInv, ConfirmedInv
      <4>3. QED
        BY <4>1, <4>2
    <3>4. QED
      BY <3>2, <3>3
  <2>4. \A s \in sentAt' : \E t \in Task : SubjectOf[t] = s /\ delivered'[t] > 0
    <3>1. SUFFICES ASSUME NEW s \in sentAt'
                   PROVE  \E t \in Task : SubjectOf[t] = s /\ delivered[t] > 0
      BY <1>2, <2>1 DEF Confirming, TypeOK
    <3>2. CASE s \in sentAt
      BY <1>2, <3>2 DEF SentInv, SentIsReal
    <3>3. CASE s \notin sentAt
      BY <1>2, <2>1, <3>3 DEF Confirming, SentInv, ConfirmedInv
    <3>4. QED
      BY <3>2, <3>3
  <2>5. QED
    BY <2>2, <2>3, <2>4 DEF SentInv, SentIsReal
<1>3. QED
  BY <1>1, <1>2, InitType, NextType, PTL DEF Spec

\* SENT and sent_at stand for a submission the server confirmed (CompleteTask and
\* BackfillOfferSentAt run after sender.Send only).
THEOREM SentForReal == Spec => []SentIsReal
  BY SentInvHolds, PTL DEF SentInv

-----------------------------------------------------------------------------
\* CANCELLED has a cause, as long as the rechecks can read.

\* What is unsendable now has been since it was queued; a worker about to cancel
\* its row has seen it so.
RememberedInv == \A t \in Task : status[t] # "NONE" /\ ~Sendable(t) => t \in blocked
QueuedInv == \A w \in Worker : task[w] # NoTask => status[task[w]] # "NONE"
CancellingInv == \A w \in Worker : pc[w] = "cancel" => task[w] \in blocked
CauseInv == RememberedInv /\ QueuedInv /\ CancellingInv /\ CancelledForCause

\* What a step does to what CauseInv looks at.
WorldStep ==
  /\ blocked \subseteq blocked'
  /\ \A t \in Task : status'[t] # "NONE" /\ ~Sendable(t)' =>
       t \in blocked' \/ (status[t] # "NONE" /\ ~Sendable(t))
WorkerCause ==
  \A w \in Worker :
    /\ pc'[w] = "cancel" =>
         /\ task'[w] = task[w] /\ task[w] \in Task
         /\ pc[w] = "cancel" \/ ~Sendable(task[w])
    /\ task'[w] # NoTask => task'[w] = task[w] \/ status[task'[w]] = "PENDING"

\* A change of the world remembers what it makes unsendable.
LEMMA WorldSteps == TypeOK /\ [WithInterruptions]_vars => WorldStep
<1> SUFFICES ASSUME TypeOK, [WithInterruptions]_vars PROVE WorldStep
  OBVIOUS
<1> USE DEF Sendable, SendableIn
<1>1. ASSUME blocked' = BlockedIn(activity', open'),
             \A t \in Task : status[t] = "NONE" => status'[t] = "NONE"
      PROVE  WorldStep
  BY <1>1 DEF BlockedIn, WorldStep
<1>2. ASSUME NEW S, CancelPending(S) PROVE \A t \in Task : status[t] = "NONE" => status'[t] = "NONE"
  BY <1>2 DEF CancelPending
<1>3. CASE \/ \E s \in Subject : CloseSubject(s) \/ Supersede(s)
           \/ \E new \in {"DISABLED", "ARCHIVED"} : TakeOutOfService(new)
  BY <1>1, <1>2, <1>3 DEF CloseSubject, Supersede, TakeOutOfService, rowVars
<1>4. ASSUME blocked \subseteq blocked', open' = open, activity' \in {activity, "ACTIVE"},
             \A t \in Task : \/ status'[t] = "NONE" \/ status[t] # "NONE"
                            \/ Sendable(t) \/ t \in blocked'
      PROVE  WorldStep
  BY <1>4 DEF WorldStep
<1>5. ASSUME status' = status
      PROVE  \A t \in Task : status'[t] = "NONE" \/ status[t] # "NONE"
  BY <1>5
<1>6. CASE Activate
  BY <1>4, <1>5, <1>6 DEF Activate, historyVars, rowVars
<1>7. RowMoves => \A t \in Task : \/ status'[t] = "NONE" \/ status[t] # "NONE"
                                   \/ Sendable(t) \/ t \in blocked'
  BY DEF RowMoves, RowMove
<1>8. RowMoves
  BY NextMoves DEF Next
<1>9. CASE \/ \E t \in Task : QueueMail(t) \/ Requeue(t)
           \/ ConfigureSMTP \/ ClockNext \/ Interruption \/ UNCHANGED vars
  <2>1. UNCHANGED <<activity, open>> /\ blocked \subseteq blocked'
    BY <1>9 DEF QueueMail, Requeue, ConfigureSMTP, ClockNext, PassRetryTime, RestEnds,
       LeaseLapses, Interruption, Crash, Stall, StatementFails, PrepareFails,
       worldVars, historyVars, vars
  <2>2. QED
    BY <1>4, <1>7, <1>8, <2>1
<1>10. ASSUME NEW w \in Worker, WorkerStep(w) PROVE WorldStep
  <2>1. UNCHANGED <<activity, open, blocked>>
    BY <1>10 DEF WorkerStep, RequeueExpiredLease, SelectNext, Claim, FirstRecheck,
       MintOfferToken, LastRecheck, Recheck, ResolveFails, Defer, PassGate, CheckLease,
       SubmitSucceeds, SubmitUnconfirmed, SubmitFails, Complete, Backfill, FinishFailure,
       Cancel, worldVars, historyVars
  <2>2. QED
    BY <1>4, <1>7, <1>8, <2>1
<1>11. QED
  BY <1>3, <1>6, <1>9, <1>10 DEF WithInterruptions, SystemNext

\* A worker goes on to cancel only from a recheck that missed.
LEMMA WorkerCauses == TypeOK /\ [WithInterruptions]_vars => WorkerCause
<1> SUFFICES ASSUME TypeOK, [WithInterruptions]_vars PROVE WorkerCause
  OBVIOUS
<1>1. \A v \in Worker : pc[v] # "idle" => task[v] \in Task
  BY DEF TypeOK
<1>2. ASSUME \/ UNCHANGED <<pc, task>>
             \/ \E w \in Worker : Release(w)
             \/ \E w \in Worker : \E step \in Step \ {"cancel"} : Goto(w, step) /\ task' = task
      PROVE  WorkerCause
  BY <1>1, <1>2 DEF WorkerCause, TypeOK, Goto, Release
<1>3. ASSUME NEW w \in Worker, NEW from \in Step \ {"idle"}, NEW to \in Step \ {"cancel"},
             Recheck(w, from, to)
      PROVE  WorkerCause
  BY <1>1, <1>3 DEF Recheck, Goto, WorkerCause, TypeOK
<1>4. ASSUME NEW w \in Worker, FirstRecheck(w) \/ MintOfferToken(w) \/ LastRecheck(w)
      PROVE  WorkerCause
  BY <1>3, <1>4 DEF FirstRecheck, MintOfferToken, LastRecheck, Step
<1>5. ASSUME NEW w \in Worker, NEW t \in Task, SelectNext(w, t) PROVE WorkerCause
  BY <1>1, <1>5 DEF SelectNext, Goto, WorkerCause, TypeOK
<1>6. ASSUME NEW w \in Worker, Claim(w) \/ CheckLease(w) \/ Complete(w) PROVE WorkerCause
  BY <1>2, <1>6 DEF Claim, CheckLease, Complete, Step
<1>7. ASSUME NEW w \in Worker,
             \/ RequeueExpiredLease(w) \/ ResolveFails(w) \/ Defer(w) \/ PassGate(w)
             \/ SubmitSucceeds(w) \/ SubmitUnconfirmed(w) \/ SubmitFails(w)
             \/ Backfill(w) \/ FinishFailure(w) \/ Cancel(w)
      PROVE  WorkerCause
  BY <1>2, <1>7 DEF RequeueExpiredLease, ResolveFails, Defer, PassGate, SubmitSucceeds,
     SubmitUnconfirmed, SubmitFails, Backfill, FinishFailure, Cancel, workerVars, Step
<1>8. CASE SystemNext \/ ClockNext \/ UNCHANGED vars
  BY <1>2, <1>8 DEF SystemNext, QueueMail, Requeue, CloseSubject, Supersede, TakeOutOfService,
     Activate, ConfigureSMTP, ClockNext, PassRetryTime, LeaseLapses, RestEnds, vars, workerVars
<1>9. CASE Interruption
  BY <1>2, <1>9 DEF Interruption, Crash, StatementFails, PrepareFails, Stall, workerVars, Step
<1>10. QED
  BY <1>4, <1>5, <1>6, <1>7, <1>8, <1>9 DEF WithInterruptions, WorkerStep

LEMMA CauseInvHolds == InterruptedSpec => []CauseInv
<1>1. Init => CauseInv
  BY DEF Init, CauseInv, RememberedInv, QueuedInv, CancellingInv, CancelledForCause
<1>2. ASSUME TypeOK, TypeOK', CauseInv, [WithInterruptions]_vars
      PROVE  CauseInv'
  <2>1. WorldStep /\ WorkerCause /\ RowMoves
    BY <1>2, WorldSteps, WorkerCauses, NextMoves DEF Next
  <2>2. RememberedInv'
    BY <1>2, <2>1 DEF WorldStep, CauseInv, RememberedInv
  <2>3. QueuedInv'
    BY <1>2, <2>1 DEF WorkerCause, RowMoves, RowMove, CauseInv, QueuedInv, TypeOK
  <2>4. CancellingInv'
    BY <1>2, <2>1 DEF WorldStep, WorkerCause, CauseInv, RememberedInv, QueuedInv, CancellingInv,
       TypeOK
  <2>5. CancelledForCause'
    <3>1. SUFFICES ASSUME NEW t \in Task, status'[t] = "CANCELLED" PROVE t \in blocked'
      BY DEF CancelledForCause
    <3>2. CASE status[t] = "CANCELLED"
      BY <1>2, <2>1, <3>2 DEF WorldStep, CauseInv, CancelledForCause
    <3>3. CASE status[t] # "CANCELLED"
      BY <1>2, <2>1, <2>2, <3>1, <3>3
      DEF WorldStep, RowMoves, RowMove, CauseInv, CancellingInv, RememberedInv
    <3>4. QED
      BY <3>2, <3>3
  <2>6. QED
    BY <2>2, <2>3, <2>4, <2>5 DEF CauseInv
<1>3. [WithInterruptions]_vars => [Next]_vars
  BY DEF Next
<1>4. QED
  BY <1>1, <1>2, <1>3, InitType, NextType, PTL DEF InterruptedSpec

\* CANCELLED stands for an activity out of service or a closed subject, at some
\* time since the mail was queued (recheckSubjectTx and CancelPendingForActivity);
\* what a failed read does instead is the run mail_read_error.
THEOREM CancelledWithCause == InterruptedSpec => []CancelledForCause
  BY CauseInvHolds, PTL DEF CauseInv
-----------------------------------------------------------------------------
\* Duplicates: every submission is covered by the first one, a recovered lease or
\* a submission that the worker saw fail.

\* status and lease_owner agree, and a worker that has only selected its row, or
\* has completed it, does not hold its lease.
OwnerInv == \A t \in Task : status[t] = "SENDING" <=> leaseOwner[t] # Nobody
HandsOffInv == \A w \in Worker : pc[w] \in {"claim", "backfill"} => leaseOwner[task[w]] # w
LeaseInv == OwnerInv /\ HandsOffInv

\* A worker past its lease check submits, whatever has happened to the row since:
\* without the lease it is a stray.
Armed(w, t) == task[w] = t /\ pc[w] \in {"last", "send"}
Stray(t) == {w \in Worker : Armed(w, t) /\ leaseOwner[t] # w}
\* The row may lead to a submission without another recovery: it waits, or its
\* holder is at work on it and has not submitted successfully.
Waiting(t) == status[t] \in {"NONE", "PENDING", "FAILED"}
Underway(t) == \E w \in Worker : leaseOwner[t] = w /\ task[w] = t /\ pc[w] # "complete"
Live(t) == Waiting(t) \/ Underway(t)
\* The submissions made and those still to come.
Owed(t) == Cardinality(Stray(t)) + (IF Live(t) THEN 1 ELSE 0)
SubmissionInv ==
  \A t \in Task : IsFiniteSet(Stray(t)) /\ delivered[t] + Owed(t) <= 1 + excused[t]
DuplicateInv == LeaseInv /\ SubmissionInv

\* What a step does to the books of a task.
Untouched(t) == delivered'[t] = delivered[t] /\ excused'[t] = excused[t]
Kept(t) == Stray(t)' \subseteq Stray(t) /\ (Live(t)' => Live(t)) /\ Untouched(t)
\* The holder becomes a stray, and the row is over.
Disowned(t) ==
  /\ Live(t) /\ ~Live(t)' /\ Untouched(t)
  /\ \E v \in Worker : Stray(t)' \subseteq Stray(t) \cup {v}
\* The lease is recovered: the holder becomes a stray, and the row goes round again.
Recovered(t) ==
  /\ delivered'[t] = delivered[t] /\ excused'[t] = excused[t] + 1
  /\ \/ Stray(t)' \subseteq Stray(t)
     \/ Live(t) /\ \E v \in Worker : Stray(t)' \subseteq Stray(t) \cup {v}
\* A submission: by a stray, by the holder, or one that the worker sees fail.
Submitted(t) ==
  /\ delivered'[t] = delivered[t] + 1 /\ Stray(t)' \subseteq Stray(t) /\ (Live(t)' => Live(t))
  /\ \/ excused'[t] = excused[t] /\ \E v \in Stray(t) : v \notin Stray(t)'
     \/ excused'[t] = excused[t] /\ Live(t) /\ ~Live(t)'
     \/ excused'[t] = excused[t] + 1
Booked == \A t \in Task : Kept(t) \/ Disowned(t) \/ Recovered(t) \/ Submitted(t)

\* The books balance after any such step.
LEMMA BooksBalance == TypeOK /\ TypeOK' /\ SubmissionInv /\ Booked => SubmissionInv'
<1> SUFFICES ASSUME TypeOK, TypeOK', SubmissionInv, Booked, NEW t \in Task
             PROVE  /\ IsFiniteSet(Stray(t)')
                    /\ delivered'[t] + Owed(t)' <= 1 + excused'[t]
  BY DEF SubmissionInv
<1> DEFINE S == Stray(t)
           N == Stray(t)'
<1>1. /\ IsFiniteSet(S) /\ Cardinality(S) \in Nat
      /\ delivered[t] \in Nat /\ delivered'[t] \in Nat
      /\ excused[t] \in Nat /\ excused'[t] \in Nat
      /\ delivered[t] + Cardinality(S) + (IF Live(t) THEN 1 ELSE 0) <= 1 + excused[t]
  <2>1. IsFiniteSet(S) /\ delivered[t] + Owed(t) <= 1 + excused[t]
    BY DEF SubmissionInv
  <2>2. Cardinality(S) \in Nat
    BY <2>1, FS_CardinalityType
  <2>3. QED
    BY <2>1, <2>2 DEF Owed, TypeOK
<1>2. N \subseteq S => IsFiniteSet(N) /\ Cardinality(N) \in Nat /\ Cardinality(N) <= Cardinality(S)
  BY <1>1, FS_Subset, FS_CardinalityType
<1>3. ASSUME NEW v \in Worker, N \subseteq S \cup {v}
      PROVE  IsFiniteSet(N) /\ Cardinality(N) \in Nat /\ Cardinality(N) <= Cardinality(S) + 1
  <2>1. /\ IsFiniteSet(S \cup {v})
        /\ Cardinality(S \cup {v}) \in {Cardinality(S), Cardinality(S) + 1}
    BY <1>1, FS_AddElement
  <2>2. QED
    BY <1>1, <1>3, <2>1, FS_Subset, FS_CardinalityType
<1>4. ASSUME NEW v \in S, v \notin N, N \subseteq S
      PROVE  Cardinality(N) <= Cardinality(S) - 1
  <2>1. IsFiniteSet(S \ {v}) /\ Cardinality(S \ {v}) = Cardinality(S) - 1
    BY <1>1, FS_RemoveElement
  <2>2. N \subseteq S \ {v}
    BY <1>4
  <2>3. QED
    BY <2>1, <2>2, FS_Subset
<1>5. /\ IsFiniteSet(N) /\ Cardinality(N) \in Nat
      /\ delivered'[t] + Cardinality(N) + (IF Live(t)' THEN 1 ELSE 0) <= 1 + excused'[t]
  <2>1. CASE Kept(t)
    BY <1>1, <1>2, <2>1 DEF Kept, Untouched
  <2>2. CASE Disowned(t)
    BY <1>1, <1>3, <2>2 DEF Disowned, Untouched
  <2>3. CASE Recovered(t)
    BY <1>1, <1>2, <1>3, <2>3 DEF Recovered
  <2>4. CASE Submitted(t)
    BY <1>1, <1>2, <1>4, <2>4 DEF Submitted
  <2>5. QED
    BY <2>1, <2>2, <2>3, <2>4 DEF Booked
<1>6. Owed(t)' = Cardinality(N) + (IF Live(t)' THEN 1 ELSE 0)
  BY DEF Owed
<1>7. QED
  BY <1>1, <1>5, <1>6

\* A step that leaves the rows, and lets at most the holder of a lease up to its
\* submission.
LEMMA MoveBooks ==
  ASSUME TypeOK, UNCHANGED <<rowVars, delivered, excused>>, NEW w \in Worker,
         \/ Release(w)
         \/ \E step \in Step :
              /\ Goto(w, step) /\ task' = task /\ pc[w] # "complete"
              /\ \/ step \notin {"last", "send"}
                 \/ pc[w] \in {"last", "send"}
                 \/ leaseOwner[task[w]] = w
  PROVE  Booked
<1> SUFFICES ASSUME NEW t \in Task PROVE Kept(t)
  BY DEF Booked
<1>1. UNCHANGED <<status, leaseOwner>> /\ Untouched(t)
  BY DEF rowVars, Untouched
<1>2. \A v \in Worker : Armed(v, t)' => Armed(v, t) \/ leaseOwner[t] = v
  BY OwnerAssumption DEF TypeOK, Armed, Goto, Release
<1>3. \A v \in Worker : task'[v] = t /\ pc'[v] # "complete" => task[v] = t /\ pc[v] # "complete"
  BY OwnerAssumption DEF TypeOK, Goto, Release
<1>4. QED
  BY <1>1, <1>2, <1>3 DEF Kept, Stray, Live, Waiting, Underway

\* A step of the outside leaves the workers and the leases.
LEMMA OutsideBooks ==
  ASSUME UNCHANGED <<pc, task, leaseOwner, delivered, excused>>,
         \A t \in Task : Waiting(t)' => Waiting(t)
  PROVE  Booked
  BY DEF Booked, Kept, Untouched, Stray, Armed, Live, Underway

\* The steps of a worker that change rows it may hold.
LEMMA RecoverBooks ==
  ASSUME TypeOK, OwnerInv, NEW w \in Worker, RequeueExpiredLease(w)
  PROVE  Booked
<1> SUFFICES ASSUME NEW t \in Task PROVE Kept(t) \/ Recovered(t)
  BY DEF Booked
<1>1. UNCHANGED <<pc, task, delivered>>
  BY DEF RequeueExpiredLease, workerVars
<1>2. CASE t \in lapsed /\ status[t] = "SENDING"
  <2>1. delivered'[t] = delivered[t] /\ excused'[t] = excused[t] + 1 /\ leaseOwner[t] # Nobody
    BY <1>1, <1>2 DEF RequeueExpiredLease, TypeOK, OwnerInv
  <2>2. \A v \in Stray(t)' : v \in Stray(t) \/ (leaseOwner[t] = v /\ Armed(v, t) /\ v \in Worker)
    BY <1>1 DEF Stray, Armed
  <2>3. CASE \E v \in Worker : leaseOwner[t] = v /\ Armed(v, t)
    <3>1. PICK v \in Worker : leaseOwner[t] = v /\ Armed(v, t)
      BY <2>3
    <3>2. Live(t) /\ Stray(t)' \subseteq Stray(t) \cup {v}
      BY <2>2, <3>1 DEF Live, Underway, Armed
    <3>3. QED
      BY <2>1, <3>2 DEF Recovered
  <2>4. CASE ~\E v \in Worker : leaseOwner[t] = v /\ Armed(v, t)
    BY <2>1, <2>2, <2>4 DEF Recovered
  <2>5. QED
    BY <2>3, <2>4
<1>3. CASE ~(t \in lapsed /\ status[t] = "SENDING")
  <2>1. status'[t] = status[t] /\ leaseOwner'[t] = leaseOwner[t] /\ Untouched(t)
    BY <1>3 DEF RequeueExpiredLease, TypeOK, Untouched
  <2>2. QED
    BY <1>1, <2>1 DEF Kept, Stray, Armed, Live, Waiting, Underway
<1>4. QED
  BY <1>2, <1>3

\* Taking a row up, and giving it back.
LEMMA ClaimBooks ==
  ASSUME TypeOK, LeaseInv, NEW w \in Worker, (\E t \in Task : SelectNext(w, t)) \/ Claim(w)
  PROVE  Booked
<1>1. ASSUME NEW t \in Task, SelectNext(w, t), NEW u \in Task PROVE Kept(u)
  <2>1. /\ UNCHANGED <<status, leaseOwner>> /\ Untouched(u)
        /\ leaseOwner[t] = Nobody /\ pc'[w] = "claim" /\ task'[w] = t
    BY <1>1 DEF SelectNext, Goto, rowVars, historyVars, Untouched, LeaseInv, OwnerInv, TypeOK
  <2>2. \A v \in Worker \ {w} : pc'[v] = pc[v] /\ task'[v] = task[v]
    BY <1>1 DEF SelectNext, Goto, TypeOK
  <2>3. QED
    BY <2>1, <2>2, OwnerAssumption DEF Kept, Stray, Armed, Live, Waiting, Underway
<1>2. CASE Claim(w) /\ status[task[w]] = "PENDING"
  <2> DEFINE t == task[w]
  <2>1. t \in Task
    BY <1>2, BusyTask DEF Claim
  <2>2. /\ task' = task /\ pc'[w] = "first" /\ UNCHANGED <<delivered, excused>>
        /\ status[t] = "PENDING" /\ leaseOwner[t] = Nobody
    BY <1>2, <2>1 DEF Claim, Goto, TypeOK, historyVars, LeaseInv, OwnerInv
  <2>3. \A v \in Worker \ {w} : pc'[v] = pc[v]
    BY <1>2 DEF Claim, Goto, TypeOK
  <2>4. \A u \in Task \ {t} : status'[u] = status[u] /\ leaseOwner'[u] = leaseOwner[u]
    BY <1>2, <2>1 DEF Claim, TypeOK
  <2>5. ASSUME NEW u \in Task PROVE Kept(u)
    <3>1. CASE u = t
      BY <2>2, <2>3, <3>1, OwnerAssumption DEF Kept, Untouched, Stray, Armed, Live, Waiting
    <3>2. CASE u # t
      BY <2>2, <2>3, <2>4, <3>2 DEF Kept, Untouched, Stray, Armed, Live, Waiting, Underway
    <3>3. QED
      BY <3>1, <3>2
  <2>6. QED
    BY <2>5 DEF Booked
<1>3. CASE Claim(w) /\ status[task[w]] # "PENDING"
  BY <1>3, MoveBooks DEF Claim, rowVars, historyVars
<1>4. QED
  BY <1>1, <1>2, <1>3 DEF Booked

\* The holder gives its row back, or settles it, when it is not armed.
LEMMA HolderBooks ==
  ASSUME TypeOK, LeaseInv, UNCHANGED <<delivered, excused>>, NEW w \in Worker, NEW t \in Task,
         task[w] = t, Holds(w), \A u \in Task \ {t} :
           status'[u] = status[u] /\ leaseOwner'[u] = leaseOwner[u],
         leaseOwner'[t] = Nobody, status'[t] # "NONE",
         pc[w] # "complete" \/ status'[t] = "SENT",
         Release(w) \/ (task' = task /\ Goto(w, "backfill"))
  PROVE  Booked
<1>1. /\ ~Armed(w, t)' /\ \A u \in Task \ {t} : ~Armed(w, u)'
      /\ \A v \in Worker \ {w} : pc'[v] = pc[v] /\ task'[v] = task[v]
  BY DEF Release, Goto, Armed, TypeOK
<1>2. ASSUME NEW u \in Task \ {t} PROVE task'[w] # u
  BY <1>2, OwnerAssumption DEF Release, TypeOK
<1>3. leaseOwner[t] = w
  BY DEF Holds
<1>4. Live(t)' => Live(t)
  BY <1>3, OwnerAssumption DEF Live, Waiting, Underway
<1>5. Kept(t)
  BY <1>1, <1>3, <1>4 DEF Kept, Untouched, Stray, Armed
<1>6. ASSUME NEW u \in Task \ {t} PROVE Kept(u)
  BY <1>1, <1>2, <1>6 DEF Kept, Untouched, Stray, Armed, Live, Waiting, Underway
<1>7. QED
  BY <1>5, <1>6 DEF Booked

\* The submission.
LEMMA SubmitBooks ==
  ASSUME TypeOK, OwnerInv, NEW w \in Worker, SubmitSucceeds(w) \/ SubmitUnconfirmed(w)
  PROVE  Booked
<1>0. PICK t \in Task : t = task[w]
  BY BusyTask DEF SubmitSucceeds, SubmitUnconfirmed
<1>1. task[w] = t /\ pc[w] = "send" /\ task' = task /\ UNCHANGED <<status, leaseOwner>>
  BY <1>0 DEF SubmitSucceeds, SubmitUnconfirmed, rowVars
<1>2. /\ pc'[w] \in {"complete", "fail"} /\ (SubmitSucceeds(w) => pc'[w] = "complete")
      /\ \A v \in Worker \ {w} : pc'[v] = pc[v]
  BY DEF SubmitSucceeds, SubmitUnconfirmed, Goto, TypeOK
<1>3. ASSUME NEW u \in Task PROVE Stray(u)' \subseteq Stray(u) /\ (Live(u)' => Live(u))
  BY <1>1, <1>2 DEF Stray, Armed, Live, Waiting, Underway
<1>4. ASSUME NEW u \in Task \ {t} PROVE Kept(u)
  <2>1. Untouched(u)
    BY <1>1 DEF SubmitSucceeds, SubmitUnconfirmed, Untouched, TypeOK
  <2>2. QED
    BY <1>3, <2>1 DEF Kept
<1>5. Submitted(t)
  <2>1. delivered'[t] = delivered[t] + 1
    BY <1>1 DEF SubmitSucceeds, SubmitUnconfirmed, TypeOK
  <2>2. CASE SubmitUnconfirmed(w)
    <3>1. excused'[t] = excused[t] + 1
      BY <1>1, <2>2 DEF SubmitUnconfirmed, TypeOK
    <3>2. QED
      BY <1>1, <1>3, <2>1, <3>1 DEF Submitted
  <2>3. CASE SubmitSucceeds(w)
    <3>1. excused' = excused /\ pc'[w] = "complete"
      BY <1>2, <2>3 DEF SubmitSucceeds
    <3>2. CASE leaseOwner[t] = w
      <4>1. Live(t)
        BY <1>1, <3>2 DEF Live, Underway
      <4>2. status[t] = "SENDING"
        BY <1>1, <3>2, OwnerAssumption DEF OwnerInv
      <4>3. ~Live(t)'
        BY <1>1, <3>1, <3>2, <4>2 DEF Live, Waiting, Underway
      <4>4. QED
        BY <1>1, <1>3, <2>1, <3>1, <4>1, <4>3 DEF Submitted
    <3>3. CASE leaseOwner[t] # w
      <4>1. w \in Stray(t) /\ w \notin Stray(t)'
        BY <1>1, <3>1, <3>3 DEF Stray, Armed
      <4>2. QED
        BY <1>1, <1>3, <2>1, <3>1, <4>1 DEF Submitted
    <3>4. QED
      BY <3>2, <3>3
  <2>4. QED
    BY <2>2, <2>3
<1>6. QED
  BY <1>4, <1>5 DEF Booked

\* A cancelled row is over, whoever holds it.
LEMMA CancelBooks ==
  ASSUME TypeOK, OwnerInv, NEW w \in Worker, Cancel(w)
  PROVE  Booked
<1>0. PICK t \in Task : t = task[w]
  BY BusyTask DEF Cancel
<1>1. task[w] = t /\ pc[w] = "cancel" /\ Release(w) /\ UNCHANGED <<delivered, excused>>
  BY <1>0 DEF Cancel, historyVars
<1>2. /\ pc'[w] = "idle" /\ task'[w] = NoTask
      /\ \A v \in Worker \ {w} : pc'[v] = pc[v] /\ task'[v] = task[v]
  BY <1>1 DEF Release, TypeOK
<1>3. \A u \in Task, v \in Worker : Armed(v, u)' => Armed(v, u)
  BY <1>2 DEF Armed
<1>4. CASE status[t] \in {"PENDING", "SENDING"}
  <2>1. /\ status'[t] = "CANCELLED" /\ leaseOwner'[t] = Nobody
        /\ \A u \in Task \ {t} : status'[u] = status[u] /\ leaseOwner'[u] = leaseOwner[u]
    BY <1>1, <1>4 DEF Cancel, TypeOK
  <2>2. ASSUME NEW u \in Task \ {t} PROVE Kept(u)
    BY <1>1, <1>2, <1>3, <2>1, OwnerAssumption
    DEF Kept, Untouched, Stray, Live, Waiting, Underway
  <2>3. Untouched(t) /\ ~Live(t)'
    BY <1>1, <2>1, OwnerAssumption DEF Untouched, Live, Waiting, Underway
  <2>4. \A v \in Stray(t)' : v \in Stray(t) \/ (leaseOwner[t] = v /\ Armed(v, t) /\ v \in Worker)
    BY <1>3 DEF Stray
  <2>5. CASE \E v \in Worker : leaseOwner[t] = v /\ Armed(v, t)
    <3>1. PICK v \in Worker : leaseOwner[t] = v /\ Armed(v, t)
      BY <2>5
    <3>2. Live(t) /\ Stray(t)' \subseteq Stray(t) \cup {v}
      BY <2>4, <3>1 DEF Live, Underway, Armed
    <3>3. QED
      BY <2>2, <2>3, <3>2 DEF Booked, Disowned
  <2>6. CASE ~\E v \in Worker : leaseOwner[t] = v /\ Armed(v, t)
    BY <2>2, <2>3, <2>4, <2>6 DEF Booked, Kept
  <2>7. QED
    BY <2>5, <2>6
<1>5. CASE status[t] \notin {"PENDING", "SENDING"}
  BY <1>1, <1>5, MoveBooks DEF Cancel, rowVars
<1>6. QED
  BY <1>4, <1>5

\* A process that stops takes its submission with it.
LEMMA CrashBooks ==
  ASSUME TypeOK, NEW w \in Worker, Crash(w)
  PROVE  Booked
<1> SUFFICES ASSUME NEW t \in Task PROVE Kept(t)
  BY DEF Booked
<1>1. /\ pc'[w] = "idle" /\ task'[w] = NoTask
      /\ \A v \in Worker \ {w} : pc'[v] = pc[v] /\ task'[v] = task[v]
  BY DEF Crash, Release, TypeOK
<1>2. /\ status' = status /\ Untouched(t)
      /\ leaseOwner'[t] = IF leaseOwner[t] = w THEN Gone ELSE leaseOwner[t]
  BY DEF Crash, Untouched
<1>3. QED
  BY <1>1, <1>2, OwnerAssumption DEF Kept, Stray, Armed, Live, Waiting, Underway

\* Every step of a worker is in the books.
LEMMA WorkerBooks ==
  ASSUME TypeOK, LeaseInv, NEW w \in Worker, WorkerStep(w)
  PROVE  Booked
<1> USE DEF historyVars
<1>1. CASE RequeueExpiredLease(w)
  BY <1>1, RecoverBooks DEF LeaseInv
<1>2. CASE (\E t \in Task : SelectNext(w, t)) \/ Claim(w)
  BY <1>2, ClaimBooks
<1>3. CASE FirstRecheck(w) \/ MintOfferToken(w) \/ LastRecheck(w)
  BY <1>3, MoveBooks DEF FirstRecheck, MintOfferToken, LastRecheck, Recheck, Step
<1>4. CASE ResolveFails(w) \/ PassGate(w) \/ SubmitFails(w) \/ Backfill(w)
  BY <1>4, MoveBooks DEF ResolveFails, PassGate, SubmitFails, Backfill, Step
<1>5. CASE CheckLease(w)
  BY <1>5, MoveBooks DEF CheckLease, Holds, Step
<1>6. CASE SubmitSucceeds(w) \/ SubmitUnconfirmed(w)
  BY <1>6, SubmitBooks DEF LeaseInv
<1>7. CASE Cancel(w)
  BY <1>7, CancelBooks DEF LeaseInv
<1>8. CASE ~Holds(w) /\ (Defer(w) \/ Complete(w) \/ FinishFailure(w))
  <2>1. Release(w) /\ UNCHANGED <<delivered, excused>>
    BY <1>8 DEF Defer, Complete, FinishFailure
  <2>2. UNCHANGED <<status, leaseOwner>>
    BY <1>8 DEF Defer, Complete, FinishFailure, CompleteTask, rowVars, TypeOK
  <2>3. QED
    BY <1>8, <2>1, <2>2, MoveBooks DEF Defer, Complete, FinishFailure, CompleteTask, rowVars, TypeOK
<1>9. CASE Holds(w) /\ (Defer(w) \/ Complete(w) \/ FinishFailure(w))
  <2>1. task[w] \in Task /\ UNCHANGED <<delivered, excused>>
    BY <1>9, BusyTask DEF Defer, Complete, FinishFailure
  <2>2. /\ \A u \in Task \ {task[w]} : status'[u] = status[u] /\ leaseOwner'[u] = leaseOwner[u]
        /\ leaseOwner'[task[w]] = Nobody /\ status'[task[w]] # "NONE"
        /\ pc[w] # "complete" \/ status'[task[w]] = "SENT"
    BY <1>9, <2>1 DEF Defer, Complete, FinishFailure, CompleteTask, TypeOK
  <2>3. Release(w) \/ (task' = task /\ Goto(w, "backfill"))
    BY <1>9 DEF Defer, Complete, FinishFailure
  <2>4. QED
    BY <1>9, <2>1, <2>2, <2>3, HolderBooks
<1>10. QED
  BY <1>1, <1>2, <1>3, <1>4, <1>5, <1>6, <1>7, <1>8, <1>9 DEF WorkerStep

\* So is every step.
LEMMA NextBooks == TypeOK /\ LeaseInv /\ [Next]_vars => Booked
<1> SUFFICES ASSUME TypeOK, LeaseInv, [Next]_vars PROVE Booked
  OBVIOUS
<1> USE DEF worldVars, workerVars, historyVars
<1>1. CASE SystemNext \/ ClockNext \/ (\E t \in Task : Stall(t)) \/ UNCHANGED vars
  <2>1. UNCHANGED <<pc, task, leaseOwner, delivered, excused>>
    BY <1>1 DEF SystemNext, QueueMail, Requeue, CloseSubject, Supersede, TakeOutOfService,
       CancelPending, Activate, ConfigureSMTP, ClockNext, PassRetryTime, LeaseLapses,
       RestEnds, Stall, rowVars, vars
  <2>2. ASSUME NEW S, CancelPending(S), NEW t \in Task PROVE Waiting(t)' => Waiting(t)
    BY <2>2 DEF CancelPending, Waiting
  <2>3. \A t \in Task : Waiting(t)' => Waiting(t)
    <3>1. CASE \/ \E s \in Subject : Supersede(s)
               \/ \E new \in {"DISABLED", "ARCHIVED"} : TakeOutOfService(new)
      BY <2>2, <3>1 DEF Supersede, TakeOutOfService
    <3>2. CASE \E t \in Task : QueueMail(t) \/ Requeue(t)
      BY <3>2 DEF QueueMail, Requeue, Waiting, TypeOK
    <3>3. CASE \/ ClockNext \/ (\E t \in Task : Stall(t)) \/ UNCHANGED vars
               \/ (\E s \in Subject : CloseSubject(s)) \/ Activate \/ ConfigureSMTP
      BY <3>3 DEF ClockNext, PassRetryTime, LeaseLapses, RestEnds, Stall, CloseSubject,
         Activate, ConfigureSMTP, rowVars, vars, Waiting
    <3>4. QED
      BY <1>1, <3>1, <3>2, <3>3 DEF SystemNext
  <2>4. QED
    BY <2>1, <2>3, OutsideBooks
<1>2. ASSUME NEW w \in Worker, StatementFails(w) \/ PrepareFails(w) \/ RecheckErrs(w)
      PROVE  Booked
  BY <1>2, MoveBooks DEF StatementFails, PrepareFails, RecheckErrs, Step
<1>3. QED
  BY <1>1, <1>2, CrashBooks, WorkerBooks DEF Next, WithInterruptions, Interruption

\* The two halves of LeaseInv, step by step.
LEMMA OwnerStep == TypeOK /\ OwnerInv /\ [Next]_vars => OwnerInv'
<1> SUFFICES ASSUME TypeOK, OwnerInv, [Next]_vars PROVE OwnerInv'
  OBVIOUS
<1> USE DEF OwnerInv
<1>1. ASSUME UNCHANGED <<status, leaseOwner>> PROVE OwnerInv'
  BY <1>1
<1>2. ASSUME leaseOwner' = leaseOwner, \A t \in Task : status'[t] # status[t] =>
               status[t] # "SENDING" /\ status'[t] # "SENDING"
      PROVE  OwnerInv'
  BY <1>2
<1>3. ASSUME NEW w \in Worker, WorkerStep(w) PROVE OwnerInv'
  <2>1. CASE RequeueExpiredLease(w)
    BY <2>1, OwnerAssumption DEF RequeueExpiredLease, TypeOK
  <2>2. CASE Claim(w)
    BY <2>2, OwnerAssumption DEF Claim, TypeOK
  <2>3. CASE Defer(w)
    BY <2>3, OwnerAssumption DEF Defer, TypeOK, Holds
  <2>4. ASSUME NEW new \in {"SENT", "FAILED", "PENDING"}, CompleteTask(w, new)
        PROVE  OwnerInv'
    BY <2>4, OwnerAssumption DEF CompleteTask, TypeOK, rowVars
  <2>5. CASE Complete(w) \/ FinishFailure(w)
    BY <2>4, <2>5 DEF Complete, FinishFailure
  <2>6. CASE Cancel(w)
    BY <2>6, OwnerAssumption DEF Cancel, TypeOK
  <2>7. CASE \/ \E t \in Task : SelectNext(w, t)
             \/ FirstRecheck(w) \/ MintOfferToken(w) \/ LastRecheck(w)
             \/ ResolveFails(w) \/ PassGate(w) \/ CheckLease(w)
             \/ SubmitSucceeds(w) \/ SubmitUnconfirmed(w) \/ SubmitFails(w) \/ Backfill(w)
    BY <1>1, <2>7 DEF SelectNext, FirstRecheck, MintOfferToken, LastRecheck, Recheck,
       ResolveFails, PassGate, CheckLease, SubmitSucceeds, SubmitUnconfirmed, SubmitFails,
       Backfill, rowVars
  <2>8. QED
    BY <1>3, <2>1, <2>2, <2>3, <2>5, <2>6, <2>7 DEF WorkerStep
<1>4. CASE SystemNext
  <2>1. ASSUME NEW S, CancelPending(S) PROVE OwnerInv'
    BY <1>2, <2>1 DEF CancelPending
  <2>2. CASE \E t \in Task : QueueMail(t) \/ Requeue(t)
    BY <1>2, <2>2 DEF QueueMail, Requeue, TypeOK
  <2>3. CASE (\E s \in Subject : CloseSubject(s)) \/ Activate \/ ConfigureSMTP
    BY <1>1, <2>3 DEF CloseSubject, Activate, ConfigureSMTP, rowVars
  <2>4. QED
    BY <1>4, <2>1, <2>2, <2>3 DEF SystemNext, Supersede, TakeOutOfService
<1>5. CASE ClockNext \/ UNCHANGED vars
  BY <1>1, <1>5 DEF ClockNext, PassRetryTime, LeaseLapses, RestEnds, rowVars, vars
<1>6. CASE Interruption \/ \E w \in Worker : RecheckErrs(w)
  <2>1. ASSUME NEW w \in Worker, Crash(w) PROVE OwnerInv'
    BY <2>1, OwnerAssumption DEF Crash, TypeOK
  <2>2. QED
    BY <1>1, <1>6, <2>1 DEF Interruption, StatementFails, PrepareFails, Stall, RecheckErrs, rowVars
<1>7. QED
  BY <1>3, <1>4, <1>5, <1>6 DEF Next, WithInterruptions

\* A worker comes to "claim" from the loop, with a row that nobody holds, and to
\* "backfill" as it gives the lease up; a lease is taken by Claim only.
LEMMA HandsOffStep == TypeOK /\ LeaseInv /\ [Next]_vars => HandsOffInv'
<1> SUFFICES ASSUME TypeOK, LeaseInv, [Next]_vars, NEW v \in Worker,
                    pc'[v] \in {"claim", "backfill"}
             PROVE  leaseOwner'[task'[v]] # v
  BY DEF HandsOffInv
<1> USE DEF LeaseInv, HandsOffInv
<1>1. \A t \in Task : leaseOwner'[t] = v =>
        leaseOwner[t] = v \/ (pc[v] = "claim" /\ pc'[v] = "first")
  <2>1. ASSUME NEW w \in Worker, Claim(w)
        PROVE  \A t \in Task : leaseOwner'[t] = v =>
                 leaseOwner[t] = v \/ (pc[v] = "claim" /\ pc'[v] = "first")
    BY <2>1 DEF Claim, Goto, TypeOK
  <2>2. ASSUME NEW w \in Worker, WorkerStep(w), ~Claim(w)
        PROVE  \A t \in Task : leaseOwner'[t] \in {leaseOwner[t], Nobody}
    <3>1. CASE RequeueExpiredLease(w) \/ Defer(w) \/ Cancel(w)
      BY <3>1 DEF RequeueExpiredLease, Defer, Cancel, TypeOK
    <3>2. CASE Complete(w) \/ FinishFailure(w)
      <4>1. \E new : CompleteTask(w, new)
        BY <3>2 DEF Complete, FinishFailure
      <4>2. QED
        BY <4>1 DEF CompleteTask, TypeOK, rowVars
    <3>3. CASE \/ \E t \in Task : SelectNext(w, t)
               \/ FirstRecheck(w) \/ MintOfferToken(w) \/ LastRecheck(w)
               \/ ResolveFails(w) \/ PassGate(w) \/ CheckLease(w)
               \/ SubmitSucceeds(w) \/ SubmitUnconfirmed(w) \/ SubmitFails(w) \/ Backfill(w)
      BY <3>3 DEF SelectNext, FirstRecheck, MintOfferToken, LastRecheck, Recheck,
         ResolveFails, PassGate, CheckLease, SubmitSucceeds, SubmitUnconfirmed, SubmitFails,
         Backfill, rowVars
    <3>4. QED
      BY <2>2, <3>1, <3>2, <3>3 DEF WorkerStep
  <2>3. CASE SystemNext \/ ClockNext \/ UNCHANGED vars
    BY <2>3 DEF SystemNext, QueueMail, Requeue, CloseSubject, Supersede, TakeOutOfService,
       CancelPending, Activate, ConfigureSMTP, ClockNext, PassRetryTime, LeaseLapses, RestEnds,
       rowVars, vars
  <2>4. CASE Interruption \/ \E w \in Worker : RecheckErrs(w)
    BY <2>4, OwnerAssumption DEF Interruption, Crash, StatementFails, PrepareFails, Stall,
       RecheckErrs, rowVars
  <2>5. QED
    BY <2>1, <2>2, <2>3, <2>4, OwnerAssumption DEF Next, WithInterruptions
<1>2. \/ pc[v] = pc'[v] /\ task'[v] = task[v]
      \/ \E t \in Task : SelectNext(v, t)
      \/ Complete(v) /\ Holds(v) /\ task' = task /\ pc[v] = "complete"
  <2>1. ASSUME NEW w \in Worker, Release(w) PROVE v # w /\ pc[v] = pc'[v] /\ task'[v] = task[v]
    BY <2>1 DEF Release, TypeOK
  <2>2. ASSUME NEW w \in Worker, NEW step \in Step \ {"claim", "backfill"}, Goto(w, step),
               task' = task
        PROVE  pc[v] = pc'[v] /\ task'[v] = task[v]
    BY <2>2 DEF Goto, TypeOK
  <2>3. ASSUME NEW w \in Worker, NEW t \in Task, SelectNext(w, t), w # v
        PROVE  pc[v] = pc'[v] /\ task'[v] = task[v]
    BY <2>3 DEF SelectNext, Goto, TypeOK
  <2>4. ASSUME NEW w \in Worker, Complete(w), w # v
        PROVE  pc[v] = pc'[v] /\ task'[v] = task[v]
    BY <2>1, <2>4 DEF Complete, Goto, TypeOK
  <2>5. CASE Complete(v)
    BY <2>1, <2>5 DEF Complete
  <2>6. ASSUME NEW w \in Worker, FirstRecheck(w) \/ MintOfferToken(w) \/ LastRecheck(w)
        PROVE  pc[v] = pc'[v] /\ task'[v] = task[v]
    BY <2>2, <2>6 DEF FirstRecheck, MintOfferToken, LastRecheck, Recheck, Step
  <2>7. ASSUME NEW w \in Worker,
               \/ RequeueExpiredLease(w) \/ Claim(w) \/ ResolveFails(w) \/ Defer(w) \/ PassGate(w)
               \/ CheckLease(w) \/ SubmitSucceeds(w) \/ SubmitUnconfirmed(w) \/ SubmitFails(w)
               \/ Backfill(w) \/ FinishFailure(w) \/ Cancel(w)
        PROVE  pc[v] = pc'[v] /\ task'[v] = task[v]
    BY <2>1, <2>2, <2>7 DEF RequeueExpiredLease, Claim, ResolveFails, Defer, PassGate, CheckLease,
       SubmitSucceeds, SubmitUnconfirmed, SubmitFails, Backfill, FinishFailure, Cancel,
       workerVars, Step
  <2>8. CASE SystemNext \/ ClockNext \/ UNCHANGED vars
    BY <2>8 DEF SystemNext, QueueMail, Requeue, CloseSubject, Supersede, TakeOutOfService,
       Activate, ConfigureSMTP, ClockNext, PassRetryTime, LeaseLapses, RestEnds, vars, workerVars
  <2>9. CASE Interruption \/ \E w \in Worker : RecheckErrs(w)
    BY <2>1, <2>2, <2>9 DEF Interruption, Crash, StatementFails, PrepareFails, Stall,
       RecheckErrs, workerVars, Step
  <2>10. QED
    BY <2>3, <2>4, <2>5, <2>6, <2>7, <2>8, <2>9 DEF Next, WithInterruptions, WorkerStep
<1>3. CASE pc[v] = pc'[v] /\ task'[v] = task[v]
  <2>1. task[v] \in Task /\ leaseOwner[task[v]] # v /\ pc'[v] # "first"
    BY <1>3, BusyTask
  <2>2. QED
    BY <1>1, <1>3, <2>1
<1>4. ASSUME NEW t \in Task, SelectNext(v, t) PROVE leaseOwner'[task'[v]] # v
  BY <1>4, OwnerAssumption DEF SelectNext, OwnerInv, TypeOK, rowVars
<1>5. CASE Complete(v) /\ Holds(v) /\ task' = task /\ pc[v] = "complete"
  <2>1. task[v] \in Task /\ leaseOwner'[task[v]] = Nobody
    BY <1>5, BusyTask DEF Complete, CompleteTask, TypeOK
  <2>2. QED
    BY <1>5, <2>1, OwnerAssumption
<1>6. QED
  BY <1>2, <1>3, <1>4, <1>5

\* The worker of ClaimNext, stillOurs, Send and finishFailure, raced by others,
\* stalled or stopped at any statement, delivers a mail a second time only after a
\* lease was recovered or a submission that the server took was seen to fail.
THEOREM DuplicatesOnlyExcused == Spec => []DuplicatesExcused
<1>1. Init => DuplicateInv
  <2>1. SUFFICES ASSUME Init PROVE DuplicateInv
    OBVIOUS
  <2>2. LeaseInv
    BY <2>1 DEF Init, LeaseInv, OwnerInv, HandsOffInv
  <2>3. \A t \in Task : Stray(t) = {} /\ delivered[t] = 0 /\ excused[t] = 0
    BY <2>1, OwnerAssumption DEF Init, Stray, Armed
  <2>4. QED
    BY <2>2, <2>3, FS_EmptySet DEF DuplicateInv, SubmissionInv, Owed
<1>2. TypeOK /\ TypeOK' /\ DuplicateInv /\ [Next]_vars => DuplicateInv'
  BY NextBooks, BooksBalance, OwnerStep, HandsOffStep DEF DuplicateInv, LeaseInv
<1>3. TypeOK /\ DuplicateInv => DuplicatesExcused
  <2>1. SUFFICES ASSUME TypeOK, DuplicateInv, NEW t \in Task PROVE delivered[t] <= 1 + excused[t]
    BY DEF DuplicatesExcused
  <2>2. Cardinality(Stray(t)) \in Nat
    BY <2>1, FS_CardinalityType DEF DuplicateInv, SubmissionInv
  <2>3. QED
    BY <2>1, <2>2 DEF DuplicateInv, SubmissionInv, Owed, TypeOK
<1>4. QED
  BY <1>1, <1>2, <1>3, InitType, NextType, PTL DEF Spec

-----------------------------------------------------------------------------
\* The promise of AtLeastOnce.

\* How the mapped variables move with the rows.
LEMMA FateMoves ==
  ASSUME TypeOK, NEW t \in Task, NEW new \in MailTaskStatus,
         status' = [status EXCEPT ![t] = new]
  PROVE  FateNow' = [FateNow EXCEPT ![t] =
                       IF new \in {"PENDING", "SENDING"} THEN "QUEUED" ELSE new]
  BY DEF FateNow, TypeOK

LEMMA FateStays ==
  ASSUME \A t \in Task : \/ status'[t] = status[t]
                         \/ {status[t], status'[t]} \subseteq {"PENDING", "SENDING"}
  PROVE  FateNow' = FateNow
  BY DEF FateNow

LEMMA CreditStays == UNCHANGED <<delivered, excused>> => CreditNow' = CreditNow
  BY DEF CreditNow

LEMMA FateTypes ==
  ASSUME TypeOK
  PROVE  /\ FateNow \in [Task -> Promise!Fate] /\ CreditNow \in [Task -> Int]
         /\ \A t \in Task : /\ status[t] \in {"PENDING", "SENDING"} <=> FateNow[t] = "QUEUED"
                            /\ status[t] = "NONE" <=> FateNow[t] = "NONE"
                            /\ status[t] = "FAILED" <=> FateNow[t] = "FAILED"
  BY DEF FateNow, CreditNow, TypeOK, MailTaskStatus, Promise!Fate

\* A step that the promise does not see.
LEMMA PromiseStutters ==
  ASSUME UNCHANGED <<delivered, excused, blocked>>,
         \A t \in Task : \/ status'[t] = status[t]
                         \/ {status[t], status'[t]} \subseteq {"PENDING", "SENDING"}
  PROVE  UNCHANGED Promise!mailVars
  BY FateStays, CreditStays DEF Promise!mailVars

LEMMA QuietSteps ==
  ASSUME TypeOK,
         \/ \E w \in Worker : \/ \E t \in Task : SelectNext(w, t)
                              \/ Claim(w) \/ FirstRecheck(w) \/ MintOfferToken(w)
                              \/ LastRecheck(w) \/ ResolveFails(w) \/ Defer(w) \/ PassGate(w)
                              \/ CheckLease(w) \/ SubmitFails(w) \/ Backfill(w)
         \/ Activate \/ ConfigureSMTP \/ ClockNext \/ Interruption \/ UNCHANGED vars
  PROVE  UNCHANGED Promise!mailVars
<1>1. UNCHANGED <<delivered, excused, blocked>>
  BY DEF SelectNext, Claim, FirstRecheck, MintOfferToken, LastRecheck, Recheck, ResolveFails,
     Defer, PassGate, CheckLease, SubmitFails, Backfill, Activate, ConfigureSMTP, ClockNext,
     PassRetryTime, RestEnds, LeaseLapses, Interruption, Crash, Stall, StatementFails,
     PrepareFails, vars, historyVars
<1>2. CASE \E w \in Worker : Claim(w)
  BY <1>1, <1>2, BusyTask, PromiseStutters DEF Claim, TypeOK
<1>3. CASE \E w \in Worker : Defer(w)
  BY <1>1, <1>3, BusyTask, PromiseStutters DEF Defer, Holds, TypeOK
<1>4. CASE status' = status
  BY <1>1, <1>4, PromiseStutters
<1> QED
  BY <1>2, <1>3, <1>4
  DEF SelectNext, FirstRecheck, MintOfferToken, LastRecheck, Recheck, ResolveFails,
     PassGate, CheckLease, SubmitFails, Backfill, Activate, ConfigureSMTP, ClockNext,
     PassRetryTime, RestEnds, LeaseLapses, Interruption, Crash, Stall, StatementFails,
     PrepareFails, vars, rowVars

\* A recovered lease gives credit to a mail that is still queued.
LEMMA PromiseAllow ==
  ASSUME TypeOK, TypeOK', NEW w \in Worker, RequeueExpiredLease(w)
  PROVE  Promise!Allow
<1> DEFINE S == {t \in lapsed : status[t] = "SENDING"}
<1>1. /\ status' = [t \in Task |-> IF t \in S THEN "PENDING" ELSE status[t]]
      /\ excused' = [t \in Task |-> IF t \in S THEN excused[t] + 1 ELSE excused[t]]
      /\ UNCHANGED <<delivered, blocked>>
  BY DEF RequeueExpiredLease
<1>2. \A t \in S : t \in Task /\ status[t] = "SENDING"
  BY DEF TypeOK
<1> HIDE DEF S
<1>3. FateNow' = FateNow
  BY <1>1, <1>2, FateStays
<1>4. \A t \in Task : \/ CreditNow'[t] = CreditNow[t]
                      \/ FateNow[t] = "QUEUED" /\ CreditNow'[t] = CreditNow[t] + 1
  BY <1>1, <1>2, FateTypes DEF CreditNow, TypeOK
<1>5. CreditNow' \in [Task -> Int]
  BY DEF CreditNow, TypeOK
<1> QED
  BY <1>1, <1>3, <1>4, <1>5 DEF Promise!Allow

\* A delivery is paid for, by DuplicatesExcused.
LEMMA PromiseDeliver ==
  ASSUME TypeOK, QueuedInv, DuplicatesExcused', NEW w \in Worker,
         SubmitSucceeds(w) \/ SubmitUnconfirmed(w)
  PROVE  Promise!Deliver(task[w]) \/ Promise!DeliverUnnoticed(task[w])
<1> DEFINE t == task[w]
<1>1. t \in Task /\ pc[w] = "send"
  BY BusyTask DEF SubmitSucceeds, SubmitUnconfirmed
<1>2. /\ delivered' = [delivered EXCEPT ![t] = @ + 1]
      /\ UNCHANGED <<status, blocked>>
  BY DEF SubmitSucceeds, SubmitUnconfirmed, rowVars
<1>3. FateNow[t] # "NONE"
  BY <1>1, FateTypes, OwnerAssumption DEF QueuedInv
<1>4. Promise!Delivers(t)
  BY <1>2, <1>3, FateStays DEF Promise!Delivers
<1>5. CASE SubmitSucceeds(w)
  <2>1. excused' = excused
    BY <1>5 DEF SubmitSucceeds
  <2>2. CreditNow' = [CreditNow EXCEPT ![t] = @ - 1]
    <3>1. \A u \in Task : CreditNow'[u] = IF u = t THEN CreditNow[u] - 1 ELSE CreditNow[u]
      BY <1>1, <1>2, <2>1 DEF CreditNow, TypeOK
    <3> QED
      BY <1>1, <3>1 DEF CreditNow
  <2>3. delivered'[t] <= 1 + excused[t]
    BY <1>1, <2>1 DEF DuplicatesExcused
  <2>4. CreditNow[t] > 0
    BY <1>1, <1>2, <2>3 DEF CreditNow, TypeOK
  <2> QED
    BY <1>4, <2>2, <2>4 DEF Promise!Deliver
<1>6. CASE SubmitUnconfirmed(w)
  <2>1. excused' = [excused EXCEPT ![t] = @ + 1]
    BY <1>6 DEF SubmitUnconfirmed
  <2>2. CreditNow' = CreditNow
    BY <1>1, <1>2, <2>1 DEF CreditNow, TypeOK
  <2> QED
    BY <1>4, <2>2 DEF Promise!DeliverUnnoticed
<1> QED
  BY <1>5, <1>6

\* The holder settles its row, or lets it go round again.
LEMMA PromiseComplete ==
  ASSUME TypeOK, ConfirmedInv, NEW w \in Worker, Complete(w) \/ FinishFailure(w)
  PROVE  \/ Promise!Confirm(task[w]) \/ Promise!GiveUp(task[w])
         \/ UNCHANGED Promise!mailVars
<1> DEFINE t == task[w]
<1>1. t \in Task /\ UNCHANGED <<delivered, excused, blocked>>
  BY BusyTask DEF Complete, FinishFailure, historyVars
<1>2. PICK new \in {"SENT", "FAILED", "PENDING"} :
        /\ CompleteTask(w, new)
        /\ new = "SENT" => pc[w] = "complete"
  BY DEF Complete, FinishFailure
<1>3. CASE ~Holds(w)
  BY <1>1, <1>2, <1>3, PromiseStutters DEF CompleteTask, rowVars
<1>4. CASE Holds(w)
  <2>1. status[t] = "SENDING" /\ status' = [status EXCEPT ![t] = new]
    BY <1>2, <1>4 DEF CompleteTask, Holds
  <2>2. CASE new = "PENDING"
    BY <1>1, <2>1, <2>2, PromiseStutters DEF TypeOK
  <2>3. CASE new \in {"SENT", "FAILED"}
    <3>1. FateNow' = [FateNow EXCEPT ![t] = new]
      BY <1>1, <2>1, <2>3, FateMoves DEF MailTaskStatus
    <3>2. FateNow[t] = "QUEUED"
      BY <1>1, <2>1, FateTypes
    <3>3. new = "SENT" => delivered[t] > 0
      BY <1>2 DEF ConfirmedInv
    <3> QED
      BY <1>1, <2>3, <3>1, <3>2, <3>3, CreditStays
      DEF Promise!Confirm, Promise!GiveUp, Promise!Moves
  <2> QED
    BY <2>2, <2>3
<1> QED
  BY <1>3, <1>4

\* Rows are queued, by the system or by the staff.
LEMMA PromiseQueue ==
  ASSUME TypeOK, NEW t \in Task, QueueMail(t) \/ Requeue(t)
  PROVE  Promise!Queue(t) \/ Promise!SendAgain(t)
<1>1. /\ status' = [status EXCEPT ![t] = "PENDING"] /\ status[t] \in {"NONE", "FAILED"}
      /\ UNCHANGED <<delivered, excused>>
  BY DEF QueueMail, Requeue
<1>2. FateNow' = [FateNow EXCEPT ![t] = "QUEUED"]
  BY <1>1, FateMoves DEF MailTaskStatus
<1>3. CASE QueueMail(t)
  <2>1. FateNow[t] = "NONE" /\ blocked' \in {blocked, blocked \cup {t}}
    BY <1>3, FateTypes DEF QueueMail
  <2> QED
    BY <1>1, <1>2, <2>1, CreditStays DEF Promise!Queue
<1>4. CASE Requeue(t)
  <2>1. FateNow[t] = "FAILED" /\ blocked' = blocked
    BY <1>4, FateTypes DEF Requeue
  <2> QED
    BY <1>1, <1>2, <2>1, CreditStays DEF Promise!SendAgain, Promise!Moves
<1> QED
  BY <1>3, <1>4

\* Subjects are closed and rows cancelled, all of them for a cause.
LEMMA PromiseWithdraw ==
  ASSUME TypeOK, TypeOK', CancelledForCause',
         \/ \E w \in Worker : Cancel(w)
         \/ \E s \in Subject : CloseSubject(s) \/ Supersede(s)
         \/ \E new \in {"DISABLED", "ARCHIVED"} : TakeOutOfService(new)
  PROVE  Promise!Withdraw
<1>1. UNCHANGED <<delivered, excused>>
  BY DEF Cancel, CloseSubject, Supersede, TakeOutOfService, historyVars
<1>2. blocked' = blocked \/ blocked' = BlockedIn(activity', open')
  BY DEF Cancel, CloseSubject, Supersede, TakeOutOfService, historyVars
<1>3. blocked \subseteq blocked' /\ \A t \in blocked' \ blocked : FateNow[t] # "NONE"
  BY <1>2, FateTypes DEF BlockedIn
<1>4. \A t \in Task : \/ status'[t] = status[t]
                      \/ status[t] \in {"PENDING", "SENDING"} /\ status'[t] = "CANCELLED"
  <2>1. CASE \E w \in Worker : Cancel(w)
    BY <2>1, BusyTask DEF Cancel, TypeOK
  <2>2. CASE \/ \E s \in Subject : CloseSubject(s) \/ Supersede(s)
             \/ \E new \in {"DISABLED", "ARCHIVED"} : TakeOutOfService(new)
    <3>1. status' = status \/ \E S : CancelPending(S)
      BY <2>2 DEF CloseSubject, Supersede, TakeOutOfService, rowVars
    <3> QED
      BY <3>1 DEF CancelPending
  <2> QED
    BY <2>1, <2>2
<1>5. \A t \in Task : \/ FateNow'[t] = FateNow[t]
                      \/ FateNow[t] = "QUEUED" /\ FateNow'[t] = "CANCELLED" /\ t \in blocked'
  BY <1>4, FateTypes DEF FateNow, CancelledForCause
<1>6. FateNow' \in [Task -> Promise!Fate]
  BY DEF FateNow, TypeOK, MailTaskStatus, Promise!Fate
<1> QED
  BY <1>1, <1>3, <1>5, <1>6, CreditStays DEF Promise!Withdraw

\* Every step keeps the promise or is not seen by it.
LEMMA PromiseStep ==
  ASSUME TypeOK, TypeOK', ConfirmedInv, QueuedInv, CancelledForCause', DuplicatesExcused',
         [WithInterruptions]_vars
  PROVE  [Promise!MailNext]_(Promise!mailVars)
<1> USE DEF Promise!MailNext
<1>1. CASE \E w \in Worker : RequeueExpiredLease(w)
  BY <1>1, PromiseAllow
<1>2. CASE \E w \in Worker : SubmitSucceeds(w) \/ SubmitUnconfirmed(w)
  BY <1>2, BusyTask, PromiseDeliver DEF SubmitSucceeds, SubmitUnconfirmed
<1>3. CASE \E w \in Worker : Complete(w) \/ FinishFailure(w)
  BY <1>3, BusyTask, PromiseComplete DEF Complete, FinishFailure
<1>4. CASE \E t \in Task : QueueMail(t) \/ Requeue(t)
  BY <1>4, PromiseQueue
<1>5. CASE \/ \E w \in Worker : Cancel(w)
           \/ \E s \in Subject : CloseSubject(s) \/ Supersede(s)
           \/ \E new \in {"DISABLED", "ARCHIVED"} : TakeOutOfService(new)
  BY <1>5, PromiseWithdraw
<1>6. CASE UNCHANGED Promise!mailVars
  BY <1>6
<1> QED
  BY <1>1, <1>2, <1>3, <1>4, <1>5, <1>6, QuietSteps DEF WithInterruptions, WorkerStep, SystemNext

\* The workers and everything that happens to them between two statements implement
\* AtLeastOnce, as long as the rechecks can read.
THEOREM PromiseAlwaysKept == InterruptedSpec => PromiseKept
<1>1. Init => Promise!MailInit
  BY DEF Init, Promise!MailInit, FateNow, CreditNow
<1>2. TypeOK /\ TypeOK' /\ SentInv /\ CauseInv /\ CauseInv' /\ DuplicatesExcused'
        /\ [WithInterruptions]_vars => [Promise!MailNext]_(Promise!mailVars)
  BY PromiseStep DEF SentInv, CauseInv
<1>3. InterruptedSpec => Spec
  <2>1. [WithInterruptions]_vars => [Next]_vars
    BY DEF Next
  <2> QED
    BY <2>1, PTL DEF Spec, InterruptedSpec
<1> QED
  BY <1>1, <1>2, <1>3, TypeCorrect, SentInvHolds, CauseInvHolds, DuplicatesOnlyExcused, PTL
     DEF InterruptedSpec, PromiseKept, Promise!MailSpec
=============================================================================
