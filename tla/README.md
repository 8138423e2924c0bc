# A TLA+ model of Rollin

Rollin is a rolling-admission platform: candidates are imported and ranked, an
activity issues offers down the ranking, candidates accept or decline, and freed
seats are refilled automatically. This directory holds TLA+ modules that model its
backend (`src/rollin-backend`) and its web client (`src/rollin-frontend`), the TLC
configurations that check them on small instances, and proofs checked by TLAPS. `PROJECT.json` maps every definition to
the lines it models; the documents cited are `src/docs/design/01..08`.

Contents: [the system](#the-system) ·
[the modules](#the-modules) · [Admission](#admission) · [MailQueue](#mailqueue) ·
[OfferPage](#offerpage) · [Console](#console) ·
[runs](#the-runs) · [bounds](#bounds) · [fairness](#fairness) · [proofs](#the-proofs) ·
[where the code and the documents differ](#where-the-code-and-the-documents-differ) ·
[what is left out](#what-is-left-out) · [plan](#plan)

## The system

One Go binary, usually several instances of it, in front of MySQL (InnoDB,
REPEATABLE READ) and Redis; a React client; shell scripts that deploy both. Paths
of the backend below are under `src/rollin-backend/internal/`, those of the client
under `src/rollin-frontend/src/`.

| component | state | operations | what makes it correct | module |
|---|---|---|---|---|
| **offers** `offer/` | `offer` rows, `candidate.accepted_offer_id` | view, accept, decline, settle expired, issue manually and specially, resend, and the post-commit refills | one acceptance per student; the linkage leaves no pending offer; rows agree; the deadline decides | `Admission` |
| **ranking** `ranking/` | `application.rank`, `activity.ranking_dirty` | recalculate, tie order, readiness, the walk of a refill (`fill`) | quota never exceeded; nobody overtaken | `Admission` (walk); `Ranking` planned |
| **admission worker** `admission/worker.go` | `refill_intent` rows | a ticking loop: settle due offers, drain pending intents | every freed seat and every overdue offer is dealt with eventually | `Admission`; `AdmissionSweep` planned |
| **activities** `activity/` | status, mode, quota, frozen, paused flags | create, disable, activate, archive, quota, mode, start, pause one or all, resume, batches | an inactive activity is left alone; a pause holds; no refill signal is lost | `Admission` |
| **mail queue** `mail/` | `mail_task` rows, leases, the pacer | queue, claim, recheck, mint token, send, complete, retry, requeue, recover, cancel | duplicates only after a recovered lease or an unconfirmed submission; settled rows final; every mail settles | `MailQueue`, refining `AtLeastOnce` |
| **offer tokens** `mailtoken/` | `offer_token` rows | mint, resolve | a token resolves to its offer as long as the row is there | inside `MailQueue` and `OfferPage` |
| **applications and import** `application/`, `candidate/`, `importtoken/` | `application`, `candidate`, `import_token` | import, patch, list; create, revoke, use a token | nothing changes after the freeze; edits are not lost; dirty is set | `Ranking` planned |
| **members and invitations** `member/` | `activity_member`, `invite_token`, `account` | invite, re-invite (supersede), accept, resend, disable, remove | one valid token per user; a disabled member does not come back by an old link | `Invitations` planned |
| **authentication, sessions** `auth/`, `httpapi/session.go` | Redis sessions | log in, log out, resolve per request | a disabled account loses access at its next request | `Sessions` planned |
| **SMTP configuration** `smtpconfig/` | `smtp_config` rows with a version | upsert, send a test, effective | what is marked verified is what was tested | `SmtpConfig` planned |
| **settings** `settings/` | a cached copy with a time to live | get, update | staleness bounded by the time to live | planned |
| **policy** `policy/` | none (a table) | allow | roles cannot exceed the table | planned, pure operators |
| **rate limit** `ratelimit/` | Redis counters | allow | a window ends | planned |
| **candidate lease** `redisclient/` | Redis keys | acquire, release, renew | only the owner releases | its refusal, in `OfferPage`; `Lease` planned |
| **migrations** `db/migrations/` | ledger and progress rows, an advisory lock | up, resume, precheck | one runner; a resumed step is applied once or is idempotent | `Migrations` planned |
| **audit, dashboard, export** | append-only rows; none; none | record; read; read | no rule of the system reads them | not modelled |
| **HTTP, validation, errors, tokens, encryption, configuration, server start** | none of their own | decoding, checks, wiring | - | not modelled |
| **candidate offer page** `pages/offer/`, `api/modules/offer.ts` | the cached offer, a countdown, a dialog, three requests | load, answer, confirm, give a reason, retry, calibrate, reload | what the candidate is shown is true; no answer twice; a countdown that ends early is put right | `OfferPage`, refining `OfferAnswer` |
| **activity workspace** `pages/activity/` | cached dashboard and list per page, dialogs, mutations in flight | navigate, 24 writes, refetch | an acknowledged write is on the page; a reply finds its dialog | `ActivityForms`, `Console` |
| **platform console** `pages/platform/` | the same | 10 writes | the same; a dialog belongs to the row it was opened for | `PlatformForms`, `Console` |
| **console session** `auth/`, `router/`, `api/client.ts`, `App.tsx` | the account, two cookies | restore, sign in, sign out, the redirect on UNAUTHORIZED | no page without its role | `Console` |
| **invitation page, shell** `pages/auth/InviteAcceptPage.tsx`, `components/`, `layouts/` | a form; none | accept an invitation; layout | - | not modelled |
| **deployment** | none the rules depend on | - | - | not modelled |

### How they interact

* *Shared rows under locks.* Every transaction that changes an activity's admission
  takes the activity row `FOR UPDATE` first and re-reads what it decides on under
  that lock, so those transactions are serial per activity. The snapshot of
  REPEATABLE READ begins at the first plain read, which comes after the lock.
  What crosses activities is the candidate row, taken `FOR UPDATE` before an offer
  is issued or accepted. The linkage of an acceptance writes other activities'
  offers under that candidate lock only. The intents it inserts for them refer to their
  activities by a foreign key, so they wait for whoever holds the activity's row: none
  appears between the fill of a drain and its close-out.
* *After the commit.* A decline, an acceptance, a settlement and a quota increase
  commit first and refill afterwards in a second transaction, best effort. A
  `refill_intent` row written in the first transaction is the signal that the
  worker picks up when the second one never happens.
* *Queues.* Issuing an offer inserts a `mail_task` row in the same transaction;
  the mail workers of all instances compete for the rows, and re-check the offer
  or the invitation three times before they send.
* *The browser* talks to the backend over HTTP and keeps what it was told in a query
  cache. A write's success merges its result into the cache (offer page) or
  invalidates the queries under the key of its page (consoles), which drops a fetch in
  flight; nothing is pushed to it, so anybody else's change arrives with a refetch.
  An UNAUTHORIZED reply sends the tab to the login page of the request's console.
* *Redis* holds sessions, rate limits and a short lease per candidate. The lease
  only lowers contention: the rules are enforced again inside the transaction.

### What is hard about it

Two offers of a student accepted at the same moment in two activities; a refill
that runs long after its commit, between a pause, a disable, a quota reduction and
somebody else's drain; offers that run out while answered, while the activity is
disabled, or while it is resumed; processes that stop between a commit and its
follow-up; mail workers whose lease lapses while they send; read errors taken for
answers; edits during a test; an answer confirmed twice in two tabs, or lost and
arriving after the opposite one; a reply that arrives when its dialog, its page or its
account is gone; a countdown on a device with a wrong clock; a connection pool whose
users each wait for a second connection. `PROJECT.json` lists them as hazards, each at its line, with the
properties that cover it or the module planned for it.

## The modules

| module | what it is |
|---|---|
| `SingleAcceptance` | what the admission promises: an abstract specification |
| `Admission` | the admission core: activities, applications, offers, acceptance, refills |
| `MCAdmission` | its TLC instances |
| `AdmissionProofs` | type correctness, and the type lemmas of its writes |
| `AdmissionRows` | rows: acceptance, linkage, mirrors |
| `AdmissionQuota` | the quota, and the signal for a free seat |
| `AdmissionOrder` | the ranking, the offers' lifecycle, inactive activities |
| `AdmissionSeats` | the refinement of `SingleAcceptance` |
| `AtLeastOnce` | what the mail queue promises: an abstract specification |
| `MailQueue` | the mail queue of one activity |
| `MCMailQueue` | its TLC instances |
| `MailQueueProofs` | type correctness, settled rows, causes, duplicates, and the refinement |
| `OfferAnswer` | what the candidate's page promises: an abstract specification |
| `OfferPage` | the candidate's page and the public offer service, for one offer |
| `MCOfferPage` | its TLC instance |
| `OfferPageProofs` | type correctness, the countdown, the feedback, and the refinement |
| `Forms` | the record that describes a write of the consoles |
| `ActivityForms`, `PlatformForms` | one record per dialog, card or button, and the pages |
| `Console` | one tab of either console: session, navigation, query cache, dialogs, mutations |
| `MCConsole` | its TLC instances |
| `ConsoleProofs` | type correctness, own writes, dialogs |

Definitions named `...Unchecked`, `...OnlyX` and the like, with a comment that starts
"Mutant:", are plausible bugs of the definition below them. They are never used by
the specifications; each shows that some property would notice the bug.

### Admission

*State.* The columns the admission depends on: `status`, `quota`, `mode`, `frozen`,
`paused` and `platformPaused` of an activity; `application` statuses; `offer` rows
(the k-th row of an application is `<<i, k>>`, so a re-issue is a new row, as in the
code) with `declineSource` and whether they are `overdue`; `accepted`, the
candidate's pointer; `intents`, the activities with a pending `refill_intent`; and
`todo`, the post-commit steps in flight. Ranks are constants because a started
admission has frozen them.

*Actions.* One action is one committed transaction, guards and early returns
included:

| action | code |
|---|---|
| `Accept`, `AcceptExpired`, `Decline` | `offer.acceptTx`, `Decline`, with `declineLinkageRow` |
| `RecheckRefill`, `PostCommitRefill`, `RefillFails` | `refillActivitiesPostCommit`, then `ranking.FillByRank` |
| `QuotaRefillFails`, `QuotaSignalLost` | `activity.persistQuotaRefillIntent`, and its dropped error |
| `SettleDue`, `ExecuteIntents`, `PassDeadline` | the worker's `RunOnce` (`SettleDue`, `executeOne`), and the clock |
| `StartAdmission`, `UpdateQuota`, `UpdateOfferMode`, `Disable`, `Activate`, `Archive`, `PauseRefill`, `PauseAllAutoRefills`, `ResumeRefill` | the methods of the same names in `activity/service.go` |
| `IssueManual`, `IssueSpecial`, `IssueBatch` | `offer/service.go`, `activity/batch.go` |
| `Crash` | the process stops: rows stay, everything in flight is gone |

`FillAfter(a, S, room)` is the walk of `ranking.fill`: the code moves a cursor by
rank, issues to a WAITING application whose candidate has not accepted, marks it
INELIGIBLE otherwise, and stops when the seats are used up. The operator says which
applications such a walk reaches: those with fewer than `room` eligible ones ahead
of them. The same operator serves starting (AUTO), refilling, draining, resuming
and batches, as `fill` does in the code.

*The abstract specification.* `SingleAcceptance` knows nothing of tables, modes,
ranks, pauses or refills: activities have a `size`, students have `open` offers and a
`seat`. An activity closes some of its open offers and makes new ones to students
without a seat, within its size (`Issue`); a student takes one of her offers, and all
her others are closed in the same step (`Take`); an activity is resized to no less
than it holds (`Resize`). `OneSeat` maps `open` and `seat` to the PENDING and ACCEPTED
offer rows alone, not to the candidate's pointer or the applications: those are the
means by which the code keeps the promise. Besides quota and single acceptance it says
that a seat is never taken back, that an acceptance closes the student's own offers
only and all of them at once, in every activity, and that no other transaction touches
the offers of two activities.

*Left out of it.* The reads of readiness and SMTP state, which can only refuse a
call (`Ranking`, `SmtpConfig`); tokens and replies (`OfferPage`); the LIMIT 20 of
the worker's scans (`AdmissionSweep`); audit rows and mail tasks written along the way.

### MailQueue

*State.* The `mail_task` rows of one activity (`status`, `leaseOwner`, whether the
lease has `lapsed`, whether `next_retry_at` is `due`, `retryCount`); the world the
rechecks look at (`activity`, `open` subjects, `smtp`); for every worker what it
does next (`pc`), its `task`, the retry count it read with it (`seen`) and whether
the pacer makes it rest; and histories: `delivered`, `excused`, `blocked`.

*Actions.* One action is one statement, one short transaction or one submission of
a worker, because no lock is held between them:

    idle -> claim -> first -> gate -> mint -> lease -> last -> send -> complete -> backfill
                       \        |       \                  \      \
                        cancel  |        cancel             cancel  fail
                                +-> back to PENDING (pacing) or fail (no SMTP)

`SelectNext` and `Claim` are the two statements of `ClaimNext`; `Recheck` is
`recheckSubjectTx`; `CompleteTask` is the UPDATE guarded by `lease_owner`, `Cancel`
the one that is not. The rest of the system queues (`QueueMail`; only offers need an
activity in service for it, an owner's invitation to another one is queued and then
cancelled by a recheck), answers or
settles subjects (`CloseSubject`), revokes invitations (`Supersede`), disables,
archives and re-activates the activity, edits SMTP and requeues FAILED rows. Things
that go wrong: a process stops (`Crash`), is slower than its lease (`Stall`), a
statement fails (`StatementFails`, `PrepareFails`), a recheck cannot read
(`RecheckErrs`). They are separate actions, so that a run can say which it allows:
`InterruptedSpec` has all but the last, `Spec` has all.

*The abstract specification.* `AtLeastOnce` knows neither workers nor leases. A mail has
a `fate` (not queued, queued, or one of three ends), a number of `copies` delivered and
a `credit` of copies that may still be delivered: one to begin with, and one more each
time the queued mail is taken from whoever was to deliver it. It is sent only once a copy
is delivered, cancelled only when it was `unwanted`, and queued again only when it had
failed. `Promise` maps `fate` to the row's status with PENDING and SENDING as one
(`FateNow`), `copies` to `delivered`, `unwanted` to `blocked` and `credit` to
`1 + excused - delivered` (`CreditNow`). What makes it hard is a worker that has lost its
lease and does not know: it delivers on credit that was given up for it, whatever the
row says by then, also after its end (`Deliver` asks for credit, not for a queued mail).
The abstract specification may deliver a copy that no credit covers (`DeliverUnnoticed`),
because an SMTP server may take a mail and the submission still end in an error.

*Left out of it.* Rendering, PLATFORM-scope mails (the same code with another
configuration row), several SMTP hosts (the pacer rests per host and process).

### OfferPage

*State.* The offer's row as the service sees it (`link`, `activity`, `status`,
`source`, `reason`, `now`); what react-query holds for the page (`data`, `error`, the
GET in flight `get`); the two mutations `post` and `feedback`; the dialog and whether
its confirmation word is typed; the countdown (`clock`, what a heartbeat would read
next, `seen`, what it read last, `recalibrate`, its pending timeout); `orphans`,
answers still travelling whose reply nobody waits for; and the history `asked`.

*Actions.* A request is at the `"server"` (on its way or waiting) or on its way back to
the `"browser"`. `ServeGet`, `ServePost`, `ServeFeedback` are `ResolveByToken`,
`Accept`/`Decline` and `SubmitDeclineReason`; `Receive...`, `ActionSucceeds` and
`ActionFails` are the handlers of the page; `Lose...` drops a request or its reply, and
a lost request may stay in `orphans` and be executed later. The candidate opens, types,
confirms, closes, retries, reloads, or answers in another tab. `Heartbeat`, `Calibrate`
and `TabVisible` are `useOfferCountdown`. `Server` is the rest of the system: the
sweep, disabling and archiving, an acceptance in another activity.

*The abstract specification.* `OfferAnswer` has three variables: the offer's `answer`,
the answers `asked` for, and what the page has `shown`. An offer is settled once, with
an answer that was asked for, or lapses; the page may forget what it showed, and
shows no result but the answer. `OfferPage` implements it under the mapping
`answer <- AnswerNow`, `shown <- ShownNow`. `AnswerNow` calls an offer lapsed from its
deadline on, before anybody has written that down, and also when an acceptance
elsewhere released it, which the page presents as a decline.

*Left out of it.* The texts; the countdown's display (only whether it has ended); more
than one offer; the lease's own timing (a `CONFLICT` may happen to an acceptance at any
time). `TypeWord` toggles: the letters do not matter. The view of an archived activity
with a pending offer is unreachable, because archiving requires that there is none.

### Console

*State.* `user` and `restoring` (AuthProvider), the two session `cookies`, the `page`;
`queries`, the cached dashboard (`"gate"`) and the page's `"list"`, each with data, error
and the fetch in flight; the open `dialog`, the "sent" state of an invitation dialog and
the `text` of the forms a run follows; the mutations `sent`. The server is a
version that every write raises, and the few facts of an activity on which forms
depend (mode, frozen, paused, writable). `Accepts` asks for the role of the route
(`Writers`) and for those facts again; a start, a pause, a resume or a mode repeated
changes nothing. `owed` is a history: the version of the last
write this tab was told had succeeded.

*Forms.* What the 34 writes have in common is one record (`Forms`): the page and the
role, the facts under which it is shown, enabled and checked again, whether a row and
a dialog go with it, what locks while it waits, what a success closes, clears,
invalidates and does to the facts. `ActivityForms` and `PlatformForms` give one record
per component, and `Console` has the actions that all share: `Open`, `Type`, `Close`,
`Submit`, `ServeWrite`, `ReceiveWrite`. A component that is unmounted (its page left,
the gate closed, its card removed by new facts, its list failed) makes its mutation
`watched = FALSE`: the reply still refreshes the cache, but closes nothing.

*Actions.* Besides those: `Restore`, `SignIn`, `SignOut`, `SessionEnds`, `Navigate`,
`Reload`; `ServeFetch`, `ReceiveList`, `ReceiveGate`, `Refetch`; `Elsewhere`, a write by
somebody else. A page that is entered again starts from a cached version that is any
of those it may have seen, or none.

*Left out of it.* The contents of forms and drafts, paging and filters, the export
button, queries inside dialogs (batch preview, ranking history), a batch's number of
offers, and the plain import token. Nobody signs in before the probes of a start are over, so
that a late probe replacing a new account is a hazard without a property.

## The runs

| run | configuration | asks |
|---|---|---|
| `admission_shared` | two activities, one student in both, any mode in the second, crashes | `TypeOK`; `AcceptedOnce`: one acceptance per student, named by the pointer; `NoPendingAfterAccept`: the linkage is complete at the commit and nobody issues to the student later; `ElsewhereIsReal`: INELIGIBLE and CROSS_ACTIVITY have their reason; `InactiveUntouched`; `OneSeat`: the refinement of `SingleAcceptance` |
| `admission_solo` | one activity, any mode, three applications, quota 1 or 2, two offer rows each, late refills, crashes | `QuotaRespected`, `ApplicationMirrorsOffers`, `RankOrderKept`, `OfferLifecycle` |
| `admission_live` | one AUTO activity, two applications, quota 1 or 2, no crash | `SignalKept`: no free seat without a signal; `SeatsRefilled`; `OverdueSettled` |
| `mail_race` | two workers, one mail, two mishaps | `TypeOK`, `DuplicatesExcused`, `SentIsReal`, `CancelledForCause`, `SettledStays`; `PromiseKept`: the refinement of `AtLeastOnce` |
| `mail_live` | one worker, the mails of an offer and of an invitation, one mishap | `MailSettles` |
| `offer_page` | one offer, one page, one unit of time to the deadline, one stray answer, a device clock right or ahead | `TypeOK`; `EarlyCutoffIsBrief`: while the page calls the deadline past too early, the calibration that undoes it is pending; `EarlyCutoffAtFirstOnly`: that starts with the first offer an opened page receives only; `ThanksIsReal`; `OneAnswer`: the refinement of `OfferAnswer`; `ResultLearnt`: a settled offer does not stay open on the screen |
| `console_work` | an owner before the start, on the offers and members pages, a card that goes with the facts, a confirmation, a direct button, an invitation | `TypeOK`; `OwnWriteShown`: at rest a page shows what this tab was told had succeeded; `ReplyFindsItsDialog`: a reply closes the dialog it was sent from and no other |
| `owner_invite_kept` | the platform's activity list with two rows | `InvitationReset`: a comment, see [below](#where-the-code-and-the-documents-differ) |
| `pause_bypassed`, `quota_signal_lost`, `mail_read_error`, `mail_lease_broken` | the instances of the backend | one statement of a document or comment each, which the code does not keep: see [below](#where-the-code-and-the-documents-differ) |

Every property of a passing run fails in some mutant listed in `PROJECT.json`.
Deadlock is checked in every run.

## Bounds

* `MaxAttempts` (offer rows per application): 2 lets an application be declined or
  expire and be re-issued; a third row adds nothing the second does not, since an
  action looks at whether rows exist and at the newest one. With two activities it is
  1, which the linkage does not depend on.
* `Quotas`: 1 and 2. Between them a quota is raised, lowered below and to what is
  occupied. Three applications then leave one waiting behind a full activity.
* `MaxInFlight` (post-commit steps of a kind per activity): 1. A further one is
  dropped, which its best-effort nature allows at any time; what matters is that one
  may run arbitrarily late. The proofs hold for every bound.
* Two activities and one shared student are what a linkage needs; a second
  applicant in the first activity makes the freed seat matter. Their quotas stay 1, so
  the run of `OneSeat` sees no `Resize`; `OneSeatEach` covers it for all quotas.
* `MaxMishaps` (crashes, stalls, failed statements and requeues together): 2 in
  `mail_race` lets both workers lose the lease of the same mail one after the other, or one
  lose it and a statement of the other fail; 1 in `mail_live`. A third only repeats
  this on the row as it is left, and the proofs hold for any number.
* `MaxRetries`: 2 rather than 8: one retry and then FAILED.
* `OfferPage`: `Deadline` 1, because only "before" and "past" matter to the code;
  `MaxOrphans` 1, a stray answer next to the page's own, enough for the opposite answer
  to arrive late; `Skews` {0, 1}, a device on time or one that believes the deadline has
  passed. A device behind the server reads a clock that is smaller, which the
  properties cannot tell from time that has not passed. The proofs hold for any
  deadline, bound and skews.
* `Console`: `FormNames`, `Pages`, `Accounts`, `Kept` select the writes and pages a run
  follows: one form of each shape (`modal` or not, with a row or not, closing or
  turning to "sent", `shown` depending on facts), as forms of one shape differ only in the
  page and the facts. `MaxWrites` and `Slots` 1: one write, by this tab or somebody
  else, against every fetch begun before or after it; a second one repeats the same race.
  The records of all 34 forms are checked for their type on every run.
* SYMMETRY is used over the two workers of `mail_race` only (safety).

## Fairness

* Admission, `WorkerFairness`: `admission.Worker.Run` calls `RunOnce` at every tick
  in every instance, forever, so a settlement or a drain that stays possible happens.
  Weak fairness is per activity. It assumes that the scans' LIMIT of 20 rows does
  not hide an activity for good, which is a hazard of its own (`AdmissionSweep`).
* Admission, `FollowUpFairness`: a request that has committed runs its follow-up or
  ends with an error; calls have deadlines. `admission_live` therefore excludes crashes
  (`SteadySpec`): with a crash at the wrong time the quota signal is lost for good,
  which `quota_signal_lost` shows.
* Mail: each living worker keeps scanning and finishes its steps (the SMTP call has
  a timeout), and time passes for retries, rests and leases. Mishaps and manual
  requeues are finite, otherwise a mail may be interrupted for ever.

* Offer page: time passes, the page's timers run, a GET is answered and its reply is
  handled (react-query and the client's deadline see to that; `LoseGet` may still win).
  `ResultLearnt` needs in addition that the tab is not hidden and shown again for
  ever: each time it is shown, the countdown restarts from the old reading. The console
  modules state no liveness: their data is refreshed by what people do.

Nothing is assumed about candidates or staff: no fairness on answers, issuing or
configuration. `SeatsRefilled` is conditional on the activity being left running
(`<>[]MayRefill`), because staff may pause it again and again.

## The proofs

The theorems about `Admission` hold for any finite set of applications and for any sets of
activities, candidates, modes, quotas and any bounds that satisfy the named
assumptions of `Admission` (a candidate has at most one application per activity;
ranks are distinct within an activity: both are unique keys or the result of the
ranking).

| theorem | property | invariant it rests on |
|---|---|---|
| `TypeCorrect` | `TypeOK` | inductive as it stands |
| `AcceptedAtMostOnce`, `LinkageComplete`, `RowsMirrored`, `ElsewhereJustified` | `AcceptedOnce`, `NoPendingAfterAccept`, `ApplicationMirrorsOffers`, `ElsewhereIsReal` | `RowInv`, their conjunction (`RowsCorrect`) |
| `NeverOverIssued` | `QuotaRespected` | `TypeOK` |
| `RankingFollowed`, `OffersLiveOnce`, `InactiveLeftAlone` | `RankOrderKept`, `OfferLifecycle`, `InactiveUntouched` | `OrderInv` |
| `OneSeatEach` | `OneSeat` (the refinement) | all of the above |
| `SignalAlwaysKept` (of `SteadySpec`) | `SignalKept` | `SignalInv` |
| `MailQueueProofs!TypeCorrect` | `MailQueue!TypeOK` | inductive as it stands |
| `SettledForGood` | `SettledStays` | `TypeOK` |
| `SentForReal` | `SentIsReal` | `SentInv` |
| `CancelledWithCause` (of `InterruptedSpec`) | `CancelledForCause` | `CauseInv` |
| `DuplicatesOnlyExcused` | `DuplicatesExcused` | `DuplicateInv` |
| `PromiseAlwaysKept` (of `InterruptedSpec`) | `PromiseKept` (the refinement) | all of the above but `SettledStays` |
| `OfferPageProofs!TypeCorrect` | `OfferPage!TypeOK` | inductive as it stands |
| `EarlyCutoffBriefHolds` | `EarlyCutoffIsBrief` | `ClockInv` |
| `EarlyCutoffAtFirstHolds` | `EarlyCutoffAtFirstOnly` | `ClockInv`, `AnswerInv` |
| `ThanksIsRealHolds` | `ThanksIsReal` | `ThanksInv` |
| `OneAnswerHolds` | `OneAnswer` (the refinement) | `AnswerInv` |
| `ConsoleProofs!TypeCorrect` | `Console!TypeOK` | `TypeInv` |
| `OwnWritesShown` | `OwnWriteShown` | `OwnWriteInv` |
| `ReplyAtItsDialog` | `ReplyFindsItsDialog` | `DialogInv` |

* `RowInv` is inductive only as a whole. An acceptance keeps `AcceptedOnce` because
  the pointer was empty, that leaves no pending offer only because the linkage
  declines all others, and the mirror of each application holds because the two
  guarded updates always find the row the mirror promises: an application is
  OFFERED exactly when its newest row is PENDING.
* `QuotaRespected` rests on `WalkBound`: a walk issues at most `max(room, 0)`
  offers. If it issued more, the one with the worst rank among those issued would
  have `room` eligible ones ahead of it and would not have been reached.
* `OrderInv` adds to `RankOrderKept` that an activity that was not started has only
  WAITING applications (so that its mode may still change), that overdue offers are
  pending and that an archived activity has no pending offer. `OfferSteps` collects
  what a step may do to an offer and is proved with it.

* `OneSeatEach` first sorts the steps (`NextKinds`): an acceptance, a step on the offers
  of one activity that accepts none, a change of one quota, or none of these. The row
  invariant makes the acceptance a `Take` (the "accepted elsewhere" branch of `acceptTx`
  is not reached, so the linkage is complete), and keeps new offers away from students
  with a seat. The quota invariant bounds the students who hold an activity by its
  active offers (`FewerHolders`), which is what `Issue` and `Resize` ask.

* `SignalAlwaysKept` is about `SteadySpec`, which has every action but `Crash` and
  `QuotaSignalLost` (a refill that fails is in it); `quota_signal_lost` shows that it does not hold
  with them. An activity *wants* a refill when it runs in AUTO mode with a free seat and an
  eligible application. A step frees no seat and makes nobody eligible, or leaves a
  signal, or fills: `WalkComplete` says that a walk that stops with room left has
  reached every eligible application, the converse of `WalkBound`. `SignalKept` alone is not
  inductive, for an activity could be re-activated with a free seat and nothing to
  signal it: `SignalInv` adds that a disabled activity is paused, which its
  re-activation does not undo.

Those about `MailQueue` hold for any sets of mails, subjects and workers, any retry limit
above 0 and any number of mishaps. The named assumptions say that mails have
distinct ids and that "no worker", "a stopped worker" and "no task" are not workers or
tasks.

* `SettledForGood`: `RowMoves` lists the moves a row may make in one step, with the
  guards of the UPDATEs; the queue needs nothing else for it, whoever makes the step.
* `SentInv` adds that a worker past its submission has delivered, also when its lease is
  long gone.
* `CauseInv` adds that a mail that cannot be sent now is in `blocked`, and so is that of
  a worker on its way to `Cancel`, which may get there when the world has changed
  again. With `RecheckErrs` it is false, as `mail_read_error` shows.
* `DuplicateInv` is an account. The submissions a mail may still see are owed by its
  *strays*, workers past their last lease check that no longer hold the lease, and, if
  the row is waiting or its holder has not submitted, by the row. `SubmissionInv` says
  that what is delivered and what is owed never exceed one more than what is excused.
  The property speaks of deliveries alone and cannot be inductive: it says nothing of
  the strays. Every step keeps the account of a mail, makes its holder a stray, recovers
  its lease, or submits (`Booked`, one lemma per kind of step), and `BooksBalance` is the
  arithmetic. `LeaseInv` says who can be a holder: a row that is SENDING, and no other, has
  an owner, and a worker that has only selected a row, or has completed it, is not it.
* `PromiseAlwaysKept` says that each step of the queue is a step of `AtLeastOnce` or a
  stutter (`PromiseStep`). The account gives a submission its credit, `SentInv`
  the copy before `Confirm`, `CauseInv` the reason of a `Withdraw`.

Those about `OfferPage` hold for any deadline, any bound on stray answers and any
set of clock errors within the deadline.

* `ClockInv`: no server time the page holds, or is on its way to it, is ahead of the
  server, nor is the calibrated clock of an open offer, whose time only runs as fast as
  the server's. `EarlyCutoffIsBrief` alone is not inductive: it says nothing of a clock
  that has not reached the deadline yet. For `EarlyCutoffAtFirstOnly`, a new reading of an
  open offer's clock is not ahead of the server (`SeenStep`), and a page that has had
  a result gets no open offer again (`FreshInv`).
* `ThanksInv` follows the thanks through the GET and the feedback reply on their way.
* `AnswerInv` has four parts: every answer on its way was asked for (`AskedInv`); a source
  of a decline implies a decline (`SourceInv`); every result in the cache or on its way,
  in a GET or in an answer's reply, is the offer's (`ResultInv`); and once the cache
  holds a result, no open offer is on its way (`FreshInv`), because merging a result
  drops the GET in flight. `OfferSettles` says what any step may do to the offer. A step
  then settles the abstract offer, confirms, shows, or stutters, according to what it
  leaves unchanged (`RefineSettle`, `RefineConfirm`, `RefineShow`).

Those about `Console` hold for any selection of the forms, pages and accounts, any rows,
any number of writes at a time and any bound on the writes of others. They rest on the
tables: `FormShapes` derives from the records of the 34 forms the facts the
proofs need (`Shaped`), such as that a form with a dialog of its own and no row is locked
as long as it waits.

* `TypeInv` adds to `TypeOK` that a list is fetched only on a page that may have one
  (`ListOnPage`), and that a write under way is one of a form of the run and a watched one
  is under way (`SentForms`): without them a reply would have no record to look up.
* `OwnWriteInv` is about the moments in between, of which `OwnWriteShown` says nothing: no
  version the tab was told is ahead of the server (`Told`), and the answer to a fetch
  that is already on its way back is at least what is owed to the query
  (`KeepsUp`). Without it a fetch answered before a write and received after it would undo
  what the write's reply had shown; it holds because the reply's invalidation drops that
  fetch.
* `ReplyFindsItsDialog` is nearly inductive: with `TypeInv` it is enough, because a
  watched form with a dialog keeps that dialog open (`WatchedForms`), nothing opens over
  an open dialog, and whatever removes a card lets go of its reply.

Only model-checked: the liveness properties `SeatsRefilled`, `OverdueSettled`,
`MailSettles` and `ResultLearnt`, because the prover has no support for ENABLED and
hence for fairness. All other properties of the passing runs are proved. The five runs that
expect a violation show that a statement is false, which no proof could.

## Where the code and the documents differ

* **A pause is bypassed** (`PauseHonoured`, `offer/service.go:695`). The refill after
  a commit reads `refill_paused` outside the transaction that issues, and `fill` does
  not look at it. A pause that commits in between is acknowledged and followed by
  offers. Documents 01 and 04 say that every automatic refill reads the flag.
* **A quota increase is forgotten** (`SignalKept`, `activity/service.go:630`). Unless
  the activity is paused, no intent is written with the quota; when the process stops
  before the refill, or the client goes away and takes both the refill's and the
  fallback's context with it, the seats stay free with nothing to signal it. Document
  08 says that no crash window loses the signal.
* **A failed read cancels a mail** (`CancelledForCause`, `mail/worker.go:594`). A
  recheck answers "DB_ERROR, not sendable" and the task becomes CANCELLED, for good.
  Document 02 lists the causes of a cancellation, and this is none.
* **A cancellation ignores the lease** (`LeaseHeld`, `mail/repository_gorm.go:141`).
  The comments say that every terminal write is conditional on `lease_owner`; this
  one is not, and settles a row under its next holder.
* **An invitation keeps what was typed for another activity** (`InvitationReset`,
  `OwnerInviteDialog.tsx:85`). The comment there says that opening the dialog resets the
  form. The handler it stands in is called by the dialog only to close, and is not
  called when a row's button opens it: a second activity's dialog shows the first one's
  form, or its "sent" notice.

Noted while modelling and not claimed by any document: starting an admission issues
offers although `refill_paused` may be set by an earlier disable, and the activity
then runs paused; nothing ever clears `refill_paused_by_platform`; the retry ceiling
is judged by the count read with the row, so overtaken claims can exceed it; the card
that starts an admission is called the owner's in a comment but is rendered for
administrators, whom the server refuses; network errors reach react-query wrapped, so
that the rule in `App.tsx` about which errors are retried sees them as any other; the
cache of queries survives a sign-out; on a device whose clock is ahead, the first render
of an offer calls its deadline past although the server would still take the answer, with
its buttons disabled and one GET more, until the `setTimeout(0)` of
`useOfferCountdown.ts:63` fires. The
comments there (lines 6 and 44) promise a countdown in the server's time and say nothing
of that moment; `EarlyCutoffIsBrief` and `EarlyCutoffAtFirstOnly` say how far it goes.

## What is left out

Read-only parts (dashboard, export, previews, lists), audit rows, rendering, HTTP
decoding, validation, configuration, encryption, the client's layout, theme and shared
components, its invitation page and the deployment scripts keep no state that the
rules above depend on. Everything listed under Plan
is state the system has and the modules do not have yet. Transactions are taken as
atomic where the locks make them so. MySQL and
Redis themselves are taken at their word.

## Plan

In this order; each module is to carry its instances, its runs and, where marked,
its proofs.

1. `AdmissionSweep`: LIMIT 20 in `SettleDue` and in the list of activities with
   intents; when do rows that cannot be worked on hide those that can? Several
   instances at once.
2. `SmtpConfig`: versions, edits during a test, `MarkVerified`. *Proofs.*
3. `Invitations`: supersede, accept, disable, resend, with their row locks. *Proofs.*
4. `Ranking`: import, patch with its early read, recalculate, tie order, dirty flag,
   readiness and freeze; ranks against a reference definition.
5. The client's rest: probes of `AuthProvider` as requests of their own, the invitation
   page, a batch whose reply is lost.
6. `ConnPool`: transactions that take a second connection; deadlock at the limit.
7. `Sessions`, `Migrations`, `RateLimit`, the settings cache, the policy table: small.
