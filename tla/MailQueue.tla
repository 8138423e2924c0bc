------------------------------ MODULE MailQueue ------------------------------
(***************************************************************************)
(* The mail queue of one activity: mail_task rows claimed under a lease by *)
(* the workers of several server processes (mail/worker.go), the staff's   *)
(* requeue (mail/service.go) and what the rest of the system does to the   *)
(* rows and to the offers and invitations they are about.                  *)
(*                                                                         *)
(* A worker handles one task at a time.  Each of its database statements,  *)
(* its short token transaction and its SMTP submission is one step, so a   *)
(* lease may lapse, a process may stop and the subject may change between  *)
(* any two of them.  ClaimNext is two steps: its SELECT ... FOR UPDATE     *)
(* SKIP LOCKED runs outside a transaction and holds nothing.               *)
(***************************************************************************)
EXTENDS Integers, FiniteSets

CONSTANTS
  Worker,      \* mail workers, one per server process
  Task,        \* mail_task rows; task ids order the claims
  Subject,     \* offers and invitations
  Offer,       \* the subjects that are offers
  SubjectOf,   \* mail_task.offer_id or invite_token_id
  IdOf,        \* mail_task.id
  Nobody,      \* lease_owner IS NULL
  Gone,        \* a lease_owner whose process has stopped
  NoTask,
  MaxRetries,  \* failed attempts before FAILED (8 in the code)
  MaxMishaps   \* bound: crashes, stalls and failed statements

ASSUME TaskAssumption ==
  /\ Offer \subseteq Subject
  /\ SubjectOf \in [Task -> Subject]
  /\ IdOf \in [Task -> Nat]
  /\ \A s, t \in Task : IdOf[s] = IdOf[t] => s = t
ASSUME OwnerAssumption ==
  Nobody \notin Worker /\ Gone \notin Worker /\ Nobody # Gone /\ NoTask \notin Task
ASSUME LimitAssumption == MaxRetries \in Nat \ {0} /\ MaxMishaps \in Nat

VARIABLES
  status,      \* mail_task.status; "NONE" is a row not inserted yet
  leaseOwner,  \* mail_task.lease_owner
  lapsed,      \* SENDING rows with locked_at older than the lease
  due,         \* rows with next_retry_at <= now
  retryCount,  \* mail_task.retry_count
  activity,    \* activity.status
  open,        \* subjects still sendable: PENDING and before their deadline
  sentAt,      \* offers with sent_at set
  smtp,        \* whether a verified SMTP configuration exists
  pc,          \* what a worker does next
  task,        \* the row it holds
  seen,        \* retry_count as it read it with the row
  resting,     \* workers within SendInterval of their last submission
  delivered,   \* history: submissions of a task that the server took
  excused,     \* history: recovered leases and unconfirmed submissions of a task
  blocked,     \* history: tasks whose subject was unsendable since they were queued
  mishaps      \* how many mishaps there have been

rowVars == <<status, leaseOwner, lapsed, due, retryCount>>
worldVars == <<activity, open, smtp>>
workerVars == <<pc, task, seen, resting>>
historyVars == <<delivered, excused, blocked, mishaps>>
vars == <<rowVars, worldVars, workerVars, historyVars, sentAt>>

MailTaskStatus == {"NONE", "PENDING", "SENDING", "SENT", "FAILED", "CANCELLED"}
ActivityStatus == {"ACTIVE", "DISABLED", "ARCHIVED"}
Step == {"idle", "claim", "first", "gate", "mint", "lease", "last", "send",
         "complete", "backfill", "fail", "cancel"}

\* recheckSubjectTx, for an activity status and the set of open subjects.
SendableIn(act, opened, t) == act = "ACTIVE" /\ SubjectOf[t] \in opened
Sendable(t) == SendableIn(activity, open, t)
\* The tasks of a changed world that have been unsendable since they were queued.
BlockedIn(act, opened) ==
  blocked \cup {t \in Task : status[t] # "NONE" /\ ~SendableIn(act, opened, t)}
Holds(w) == status[task[w]] = "SENDING" /\ leaseOwner[task[w]] = w

Goto(w, step) == pc' = [pc EXCEPT ![w] = step]
\* Mutant: the worker returns to its loop with the task still in hand.
ReleaseKeepsTask(w) ==
  /\ pc' = [pc EXCEPT ![w] = "idle"]
  /\ UNCHANGED <<task, seen>>
\* The worker is done with its task.
Release(w) ==
  /\ pc' = [pc EXCEPT ![w] = "idle"]
  /\ task' = [task EXCEPT ![w] = NoTask]
  /\ seen' = [seen EXCEPT ![w] = 0]

-----------------------------------------------------------------------------
\* The worker.

\* Mutant: a process looks after the leases of its own identity only.
RequeueOwnLease(w) ==
  LET S == {t \in lapsed : status[t] = "SENDING" /\ leaseOwner[t] = w}
  IN /\ pc[w] = "idle" /\ S # {}
     /\ status' = [t \in Task |-> IF t \in S THEN "PENDING" ELSE status[t]]
     /\ leaseOwner' = [t \in Task |-> IF t \in S THEN Nobody ELSE leaseOwner[t]]
     /\ lapsed' = lapsed \ S
     /\ excused' = [t \in Task |-> IF t \in S THEN excused[t] + 1 ELSE excused[t]]
     /\ UNCHANGED <<due, retryCount, worldVars, workerVars, delivered, blocked, mishaps, sentAt>>
\* RequeueExpiredLease, at the start of each scan.
RequeueExpiredLease(w) ==
  LET S == {t \in lapsed : status[t] = "SENDING"}
  IN /\ pc[w] = "idle" /\ S # {}
     /\ status' = [t \in Task |-> IF t \in S THEN "PENDING" ELSE status[t]]
     /\ leaseOwner' = [t \in Task |-> IF t \in S THEN Nobody ELSE leaseOwner[t]]
     /\ lapsed' = {}
     /\ excused' = [t \in Task |-> IF t \in S THEN excused[t] + 1 ELSE excused[t]]
     /\ UNCHANGED <<due, retryCount, worldVars, workerVars, delivered, blocked, mishaps, sentAt>>

\* ClaimNext, the SELECT: the due PENDING row with the lowest id.
SelectNext(w, t) ==
  /\ pc[w] = "idle"
  /\ status[t] = "PENDING" /\ t \in due
  /\ \A u \in due : status[u] = "PENDING" => IdOf[t] <= IdOf[u]
  /\ Goto(w, "claim")
  /\ task' = [task EXCEPT ![w] = t]
  /\ seen' = [seen EXCEPT ![w] = retryCount[t]]
  /\ UNCHANGED <<rowVars, worldVars, resting, historyVars, sentAt>>

\* ClaimNext, the UPDATE ... WHERE status = 'PENDING'.
\* Mutant: the UPDATE is not conditional.
ClaimAnyStatus(w) ==
  /\ pc[w] = "claim"
  /\ status' = [status EXCEPT ![task[w]] = "SENDING"]
  /\ leaseOwner' = [leaseOwner EXCEPT ![task[w]] = w]
  /\ lapsed' = lapsed \ {task[w]}
  /\ Goto(w, "first")
  /\ UNCHANGED <<due, retryCount, worldVars, task, seen, resting, historyVars, sentAt>>
Claim(w) ==
  /\ pc[w] = "claim"
  /\ IF status[task[w]] = "PENDING"
     THEN /\ status' = [status EXCEPT ![task[w]] = "SENDING"]
          /\ leaseOwner' = [leaseOwner EXCEPT ![task[w]] = w]
          /\ lapsed' = lapsed \ {task[w]}
          /\ Goto(w, "first")
          /\ UNCHANGED <<task, seen>>
     ELSE Release(w) /\ UNCHANGED <<status, leaseOwner, lapsed>>
  /\ UNCHANGED <<due, retryCount, worldVars, resting, historyVars, sentAt>>

\* The rechecks: #1 after the claim, #2 in the transaction that mints the offer
\* token, #3 right before the submission. A miss leads to cancel.
Recheck(w, from, to) ==
  /\ pc[w] = from
  /\ Goto(w, IF Sendable(task[w]) THEN to ELSE "cancel")
  /\ UNCHANGED <<rowVars, worldVars, task, seen, resting, historyVars, sentAt>>
FirstRecheck(w) == Recheck(w, "first", "gate")
MintOfferToken(w) == Recheck(w, "mint", "lease")
LastRecheck(w) == Recheck(w, "last", "send")

\* resolveSMTP, then pacingGate: while the host rests, the row goes back to
\* PENDING (DeferTask) without counting an attempt. Only offers mint a token.
ResolveFails(w) ==
  /\ pc[w] = "gate" /\ ~smtp
  /\ Goto(w, "fail")
  /\ UNCHANGED <<rowVars, worldVars, task, seen, resting, historyVars, sentAt>>
Defer(w) ==
  LET t == task[w]
  IN /\ pc[w] = "gate" /\ smtp /\ w \in resting
     /\ status' = [status EXCEPT ![t] = IF Holds(w) THEN "PENDING" ELSE @]
     /\ leaseOwner' = [leaseOwner EXCEPT ![t] = IF Holds(w) THEN Nobody ELSE @]
     /\ lapsed' = IF Holds(w) THEN lapsed \ {t} ELSE lapsed
     /\ due' = IF Holds(w) THEN due \ {t} ELSE due
     /\ Release(w)
     /\ UNCHANGED <<retryCount, worldVars, resting, historyVars, sentAt>>
PassGate(w) ==
  /\ pc[w] = "gate" /\ smtp /\ w \notin resting
  /\ Goto(w, IF SubjectOf[task[w]] \in Offer THEN "mint" ELSE "lease")
  /\ UNCHANGED <<rowVars, worldVars, task, seen, resting, historyVars, sentAt>>

\* stillOurs: a lost lease is the new holder's business.
\* Mutant: a row that is no longer ours is cancelled.
CheckLeaseCancels(w) ==
  /\ pc[w] = "lease"
  /\ Goto(w, IF Holds(w) THEN "last" ELSE "cancel")
  /\ UNCHANGED <<rowVars, worldVars, task, seen, resting, historyVars, sentAt>>
CheckLease(w) ==
  /\ pc[w] = "lease"
  /\ IF Holds(w) THEN Goto(w, "last") /\ UNCHANGED <<task, seen>> ELSE Release(w)
  /\ UNCHANGED <<rowVars, worldVars, resting, historyVars, sentAt>>

\* The submission; a mail that can not be rendered fails without one.
SubmitSucceeds(w) ==
  /\ pc[w] = "send"
  /\ delivered' = [delivered EXCEPT ![task[w]] = @ + 1]
  /\ resting' = resting \cup {w}
  /\ Goto(w, "complete")
  /\ UNCHANGED <<rowVars, worldVars, task, seen, excused, blocked, mishaps, sentAt>>
\* The server has the mail, but QUIT, or reading the reply, fails: an error as well.
SubmitUnconfirmed(w) ==
  LET t == task[w]
  IN /\ pc[w] = "send"
     /\ delivered' = [delivered EXCEPT ![t] = @ + 1]
     /\ excused' = [excused EXCEPT ![t] = @ + 1]
     /\ resting' = resting \cup {w}
     /\ Goto(w, "fail")
     /\ UNCHANGED <<rowVars, worldVars, task, seen, blocked, mishaps, sentAt>>
SubmitFails(w) ==
  /\ pc[w] = "send"
  /\ resting' \in {resting, resting \cup {w}}
  /\ Goto(w, "fail")
  /\ UNCHANGED <<rowVars, worldVars, task, seen, historyVars, sentAt>>

\* Mutant: WHERE id = ?, whatever the row's status and lease.
CompleteUnguarded(w, new) ==
  LET t == task[w]
  IN /\ status' = [status EXCEPT ![t] = new]
     /\ leaseOwner' = [leaseOwner EXCEPT ![t] = Nobody]
     /\ lapsed' = lapsed \ {t}
     /\ retryCount' = [retryCount EXCEPT ![t] = IF new = "SENT" THEN @ ELSE @ + 1]
     /\ due' = IF new = "PENDING" THEN due \ {t} ELSE due
\* CompleteTask: WHERE id = ? AND status = 'SENDING' AND lease_owner = me.
CompleteTask(w, new) ==
  LET t == task[w]
  IN IF Holds(w)
     THEN /\ status' = [status EXCEPT ![t] = new]
          /\ leaseOwner' = [leaseOwner EXCEPT ![t] = Nobody]
          /\ lapsed' = lapsed \ {t}
          /\ retryCount' = [retryCount EXCEPT ![t] = IF new = "SENT" THEN @ ELSE @ + 1]
          /\ due' = IF new = "PENDING" THEN due \ {t} ELSE due
     ELSE UNCHANGED rowVars

Complete(w) ==
  /\ pc[w] = "complete"
  /\ CompleteTask(w, "SENT")
  /\ IF Holds(w) /\ SubjectOf[task[w]] \in Offer
     THEN Goto(w, "backfill") /\ UNCHANGED <<task, seen>>
     ELSE Release(w)
  /\ UNCHANGED <<worldVars, resting, historyVars, sentAt>>

\* BackfillOfferSentAt: the first delivery sets offer.sent_at.
Backfill(w) ==
  /\ pc[w] = "backfill"
  /\ sentAt' = sentAt \cup {SubjectOf[task[w]]}
  /\ Release(w)
  /\ UNCHANGED <<rowVars, worldVars, resting, historyVars>>

\* finishFailure: the ceiling is judged by the count read with the row.
FinishFailure(w) ==
  /\ pc[w] = "fail"
  /\ CompleteTask(w, IF seen[w] + 1 >= MaxRetries THEN "FAILED" ELSE "PENDING")
  /\ Release(w)
  /\ UNCHANGED <<worldVars, resting, historyVars, sentAt>>

\* CancelTask: WHERE id = ? AND status IN ('PENDING', 'SENDING'), whoever holds it.
\* Mutant: a skipped mail is recorded like a sent one.
CancelAsSent(w) ==
  /\ pc[w] = "cancel"
  /\ IF status[task[w]] \in {"PENDING", "SENDING"}
     THEN /\ status' = [status EXCEPT ![task[w]] = "SENT"]
          /\ leaseOwner' = [leaseOwner EXCEPT ![task[w]] = Nobody]
          /\ lapsed' = lapsed \ {task[w]}
     ELSE UNCHANGED <<status, leaseOwner, lapsed>>
  /\ Release(w)
  /\ UNCHANGED <<due, retryCount, worldVars, resting, historyVars, sentAt>>
Cancel(w) ==
  /\ pc[w] = "cancel"
  /\ IF status[task[w]] \in {"PENDING", "SENDING"}
     THEN /\ status' = [status EXCEPT ![task[w]] = "CANCELLED"]
          /\ leaseOwner' = [leaseOwner EXCEPT ![task[w]] = Nobody]
          /\ lapsed' = lapsed \ {task[w]}
     ELSE UNCHANGED <<status, leaseOwner, lapsed>>
  /\ Release(w)
  /\ UNCHANGED <<due, retryCount, worldVars, resting, historyVars, sentAt>>

WorkerStep(w) ==
  \/ RequeueExpiredLease(w)
  \/ \E t \in Task : SelectNext(w, t)
  \/ Claim(w) \/ FirstRecheck(w) \/ MintOfferToken(w) \/ LastRecheck(w)
  \/ ResolveFails(w) \/ Defer(w) \/ PassGate(w) \/ CheckLease(w)
  \/ SubmitSucceeds(w) \/ SubmitUnconfirmed(w) \/ SubmitFails(w)
  \/ Complete(w) \/ Backfill(w) \/ FinishFailure(w) \/ Cancel(w)

-----------------------------------------------------------------------------
\* The rest of the system.

\* QueueOfferMail and QueueInviteMail, in the transaction that issues the offer,
\* re-sends its mail or invites.  Only offers ask for an activity in service: the
\* mail of an owner's invitation to another one is left to the rechecks.
QueueMail(t) ==
  /\ status[t] = "NONE" /\ SubjectOf[t] \in open
  /\ SubjectOf[t] \in Offer => activity = "ACTIVE"
  /\ status' = [status EXCEPT ![t] = "PENDING"]
  /\ due' = due \cup {t}
  /\ blocked' = IF Sendable(t) THEN blocked ELSE blocked \cup {t}
  /\ UNCHANGED <<leaseOwner, lapsed, retryCount, worldVars, workerVars, delivered, excused,
                 mishaps, sentAt>>

\* An offer is answered or settled, an invitation accepted, a deadline passes:
\* queued rows stay and are left to the rechecks.
CloseSubject(s) ==
  /\ s \in open
  /\ open' = open \ {s}
  /\ blocked' = BlockedIn(activity, open')
  /\ UNCHANGED <<rowVars, activity, smtp, workerVars, delivered, excused, mishaps, sentAt>>

CancelPending(S) ==
  /\ status' = [t \in Task |->
       IF t \in S /\ status[t] = "PENDING" THEN "CANCELLED" ELSE status[t]]
  /\ UNCHANGED <<leaseOwner, lapsed, due, retryCount>>

\* supersedePendingInvitations: the token is revoked, its PENDING rows cancelled.
Supersede(s) ==
  /\ s \in open \ Offer
  /\ open' = open \ {s}
  /\ CancelPending({t \in Task : SubjectOf[t] = s})
  /\ blocked' = BlockedIn(activity, open')
  /\ UNCHANGED <<activity, smtp, workerVars, delivered, excused, mishaps, sentAt>>

\* activity.Disable and Archive cancel the PENDING rows; SENDING ones are left
\* to the rechecks. An activity is archived without pending offers only.
TakeOutOfService(new) ==
  /\ activity = "ACTIVE"
  /\ new = "ARCHIVED" => open \cap Offer = {}
  /\ activity' = new
  /\ CancelPending(Task)
  /\ blocked' = BlockedIn(new, open)
  /\ UNCHANGED <<open, smtp, workerVars, delivered, excused, mishaps, sentAt>>
Activate ==
  /\ activity = "DISABLED"
  /\ activity' = "ACTIVE"
  /\ UNCHANGED <<rowVars, open, smtp, workerVars, historyVars, sentAt>>

\* smtpconfig: an edit takes the verification away, a delivered test gives it.
ConfigureSMTP ==
  /\ smtp' = ~smtp
  /\ UNCHANGED <<rowVars, activity, open, workerVars, historyVars, sentAt>>

Mishap == mishaps < MaxMishaps /\ mishaps' = mishaps + 1

\* Mutant: any settled row may be sent round again.
RequeueSettled(t) ==
  /\ Mishap
  /\ status[t] \in {"SENT", "FAILED", "CANCELLED"} /\ Sendable(t)
  /\ status' = [status EXCEPT ![t] = "PENDING"]
  /\ retryCount' = [retryCount EXCEPT ![t] = 0]
  /\ due' = due \cup {t}
  /\ UNCHANGED <<leaseOwner, lapsed, worldVars, workerVars, delivered, excused, blocked, sentAt>>
\* mail.Service.Requeue: the staff sends a FAILED row round again.
Requeue(t) ==
  /\ Mishap
  /\ status[t] = "FAILED" /\ Sendable(t)
  /\ status' = [status EXCEPT ![t] = "PENDING"]
  /\ retryCount' = [retryCount EXCEPT ![t] = 0]
  /\ due' = due \cup {t}
  /\ UNCHANGED <<leaseOwner, lapsed, worldVars, workerVars, delivered, excused, blocked, sentAt>>

-----------------------------------------------------------------------------
\* The clock.

PassRetryTime(t) ==
  /\ status[t] = "PENDING" /\ t \notin due
  /\ due' = due \cup {t}
  /\ UNCHANGED <<status, leaseOwner, lapsed, retryCount, worldVars, workerVars, historyVars, sentAt>>
RestEnds(w) ==
  /\ w \in resting
  /\ resting' = resting \ {w}
  /\ UNCHANGED <<rowVars, worldVars, pc, task, seen, historyVars, sentAt>>
Attended(t) == \E w \in Worker : leaseOwner[t] = w /\ task[w] = t
\* locked_at becomes older than the lease, with nobody at work on the row.
LeaseLapses(t) ==
  /\ status[t] = "SENDING" /\ t \notin lapsed /\ ~Attended(t)
  /\ lapsed' = lapsed \cup {t}
  /\ UNCHANGED <<status, leaseOwner, due, retryCount, worldVars, workerVars, historyVars, sentAt>>

-----------------------------------------------------------------------------
\* What goes wrong.

\* A process stops; its successor has a new lease identity and no pacing state.
Crash(w) ==
  /\ Mishap
  /\ leaseOwner' = [t \in Task |-> IF leaseOwner[t] = w THEN Gone ELSE leaseOwner[t]]
  /\ resting' = resting \ {w}
  /\ Release(w)
  /\ UNCHANGED <<status, lapsed, due, retryCount, worldVars, delivered, excused, blocked, sentAt>>
\* A process is so slow that the lease lapses while it works on the row.
Stall(t) ==
  /\ Mishap
  /\ status[t] = "SENDING" /\ t \notin lapsed /\ Attended(t)
  /\ lapsed' = lapsed \cup {t}
  /\ UNCHANGED <<status, leaseOwner, due, retryCount, worldVars, workerVars, delivered,
                 excused, blocked, sentAt>>
\* A statement fails: it is logged, the row waits for its lease to lapse.
StatementFails(w) ==
  /\ Mishap
  /\ pc[w] \in {"claim", "gate", "lease", "complete", "backfill", "fail", "cancel"}
  /\ Release(w)
  /\ UNCHANGED <<rowVars, worldVars, resting, delivered, excused, blocked, sentAt>>
\* The configuration can not be read or the token not be inserted.
PrepareFails(w) ==
  /\ Mishap
  /\ pc[w] \in {"gate", "mint"}
  /\ Goto(w, "fail")
  /\ UNCHANGED <<rowVars, worldVars, task, seen, resting, delivered, excused, blocked, sentAt>>
\* A recheck that can not read its rows answers "DB_ERROR, not sendable".
RecheckErrs(w) ==
  /\ Mishap
  /\ pc[w] \in {"first", "mint", "last"}
  /\ Goto(w, "cancel")
  /\ UNCHANGED <<rowVars, worldVars, task, seen, resting, delivered, excused, blocked, sentAt>>

-----------------------------------------------------------------------------
Init ==
  /\ status = [t \in Task |-> "NONE"]
  /\ leaseOwner = [t \in Task |-> Nobody]
  /\ lapsed = {} /\ due = {}
  /\ retryCount = [t \in Task |-> 0]
  /\ activity = "ACTIVE" /\ open = Subject /\ sentAt = {} /\ smtp = TRUE
  /\ pc = [w \in Worker |-> "idle"]
  /\ task = [w \in Worker |-> NoTask]
  /\ seen = [w \in Worker |-> 0]
  /\ resting = {}
  /\ delivered = [t \in Task |-> 0]
  /\ excused = [t \in Task |-> 0]
  /\ blocked = {} /\ mishaps = 0

SystemNext ==
  \/ \E t \in Task : QueueMail(t) \/ Requeue(t)
  \/ \E s \in Subject : CloseSubject(s) \/ Supersede(s)
  \/ \E new \in {"DISABLED", "ARCHIVED"} : TakeOutOfService(new)
  \/ Activate \/ ConfigureSMTP
ClockNext ==
  \/ \E t \in Task : PassRetryTime(t) \/ LeaseLapses(t)
  \/ \E w \in Worker : RestEnds(w)
\* Crashes, stalls and failed writes ...
Interruption ==
  \/ \E w \in Worker : Crash(w) \/ StatementFails(w) \/ PrepareFails(w)
  \/ \E t \in Task : Stall(t)
WithInterruptions ==
  (\E w \in Worker : WorkerStep(w)) \/ SystemNext \/ ClockNext \/ Interruption
\* ... and failed reads during a recheck.
Next == WithInterruptions \/ \E w \in Worker : RecheckErrs(w)

Spec == Init /\ [][Next]_vars
InterruptedSpec == Init /\ [][WithInterruptions]_vars

\* Every living worker keeps scanning and time passes.
Fairness ==
  /\ \A w \in Worker : WF_vars(WorkerStep(w)) /\ WF_vars(RestEnds(w))
  /\ \A t \in Task : WF_vars(PassRetryTime(t)) /\ WF_vars(LeaseLapses(t))
LiveSpec == InterruptedSpec /\ Fairness

-----------------------------------------------------------------------------
\* Properties.

\* Every variable stays within its domain, and a busy worker has a task.
TypeOK ==
  /\ status \in [Task -> MailTaskStatus]
  /\ leaseOwner \in [Task -> Worker \cup {Nobody, Gone}]
  /\ lapsed \subseteq Task /\ due \subseteq Task
  /\ retryCount \in [Task -> Nat]
  /\ activity \in ActivityStatus
  /\ open \subseteq Subject /\ sentAt \subseteq Subject /\ smtp \in BOOLEAN
  /\ pc \in [Worker -> Step]
  /\ task \in [Worker -> Task \cup {NoTask}]
  /\ seen \in [Worker -> Nat]
  /\ resting \subseteq Worker
  /\ delivered \in [Task -> Nat] /\ excused \in [Task -> Nat]
  /\ blocked \subseteq Task /\ mishaps \in Nat
  /\ \A w \in Worker : pc[w] = "idle" <=> task[w] = NoTask

\* At-least-once, and no worse: a mail is delivered again only after its lease
\* lapsed and was recovered, or after a submission that the server took and the
\* worker saw fail, however many workers compete for it.
DuplicatesExcused == \A t \in Task : delivered[t] <= 1 + excused[t]

\* SENT, and an offer's sent_at, stand for a confirmed delivery.
SentIsReal ==
  /\ \A t \in Task : status[t] = "SENT" => delivered[t] > 0
  /\ \A s \in sentAt : \E t \in Task : SubjectOf[t] = s /\ delivered[t] > 0

\* A mail is given up as CANCELLED only if, at some time since it was queued, its
\* activity was out of service or its offer or invitation no longer open.
CancelledForCause == \A t \in Task : status[t] = "CANCELLED" => t \in blocked

\* A settled row is never taken up again by a worker, not even by one that
\* claimed it long ago: only the staff's requeue of a FAILED row moves it.
SettledStays ==
  [][\A t \in Task : status[t] \in {"SENT", "FAILED", "CANCELLED"} /\ status'[t] # status[t] =>
       status[t] = "FAILED" /\ status'[t] = "PENDING" /\ retryCount'[t] = 0]_vars

\* The lease guard: a row whose lease has not lapsed leaves SENDING only by a
\* step of the worker that holds it.
LeaseHeld ==
  [][\A t \in Task, w \in Worker :
       leaseOwner[t] = w /\ t \notin lapsed /\ leaseOwner'[t] \notin {w, Gone} => pc'[w] # pc[w]]_vars

\* The queue keeps the promise of AtLeastOnce.  Its rows settle once, on a delivery
\* or for a cause; every delivery is on the first attempt's credit or on that of a
\* recovered lease, and no settled mail is given credit, even though workers that
\* have lost their lease go on and deliver whatever the row says by then.
FateNow == [t \in Task |-> IF status[t] \in {"PENDING", "SENDING"} THEN "QUEUED" ELSE status[t]]
CreditNow == [t \in Task |-> 1 + excused[t] - delivered[t]]
Promise == INSTANCE AtLeastOnce
  WITH Mail <- Task, fate <- FateNow, copies <- delivered, credit <- CreditNow, unwanted <- blocked
PromiseKept == Promise!MailSpec

\* Every queued mail is eventually sent, failed or cancelled, also after crashes.
MailSettles ==
  \A t \in Task : status[t] \in {"PENDING", "SENDING"} ~> status[t] \in {"SENT", "FAILED", "CANCELLED"}
=============================================================================
