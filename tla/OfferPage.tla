------------------------------- MODULE OfferPage -------------------------------
(***************************************************************************)
(* The candidate's page /o/:token (pages/offer/) and the public offer      *)
(* service it talks to (offer/service.go), for one offer.                  *)
(*                                                                         *)
(* The page keeps the last GET reply in the query cache, a countdown       *)
(* calibrated by that reply's serverTime, one confirmation dialog, and at  *)
(* most one request of each kind.  A request is first "server" (on its way *)
(* or waiting), then "browser" (answered, the reply on its way).  It may   *)
(* fail in both places; one that failed or was left behind by a reload may *)
(* still be executed later: it stays in "orphans".                         *)
(***************************************************************************)
EXTENDS Integers, FiniteSets

CONSTANTS
  Deadline,  \* expires_at; server time is 0 .. Deadline, Deadline meaning "past"
  MaxOrphans,\* bound: answers travelling whose reply no page awaits
  Skews      \* bound: the device clock minus the server's, when the page opens

ASSUME BoundAssumption ==
  /\ Deadline \in Nat \ {0} /\ Skews \subseteq -Deadline .. Deadline
  /\ MaxOrphans \in Nat

VARIABLES
  link,         \* the token in the URL resolves to an offer
  activity,     \* activity.status
  status,       \* offer.status
  source,       \* offer.decline_source
  reason,       \* offer.decline_reason is set
  now,          \* the server's clock
  orphans,      \* answers still travelling whose reply no page awaits
  data,         \* query.data: the cached PublicOffer
  error,        \* query.error: a code, or "OK" when status is not 'error'
  get,          \* the GET in flight
  post,         \* actionMutation
  feedback,     \* reasonMutation
  dialog,       \* activeDialog
  typed,        \* DeclineOfferDialog: the confirmation word is typed
  clock,        \* device time plus offsetMs: what the next heartbeat would see
  seen,         \* snapshot.now + snapshot.offsetMs
  recalibrate,  \* the recalibrate timeout is pending
  asked         \* history: the answers confirmed so far, in any tab

serverVars == <<link, activity, status, source, reason, now>>
dialogVars == <<dialog, typed>>
clockVars == <<clock, seen, recalibrate>>
vars == <<serverVars, orphans, data, error, get, post, feedback, dialogVars,
          clockVars, asked>>

Answer == {"accept", "decline"}
Result == [accept |-> "ACCEPTED", decline |-> "DECLINED"]
OfferStatus == {"PENDING", "ACCEPTED", "DECLINED", "EXPIRED"}
\* The answers to a GET; and to a POST, where "CHANGED" stands for the codes of
\* STATE_CHANGED_CODES and "NETWORK_ERROR" for every other failure.
GetCode == {"OK", "TOKEN_INVALID", "ACTIVITY_DISABLED", "NETWORK_ERROR"}
PostCode == {"OK", "CHANGED", "NETWORK_ERROR"}

\* A PublicOffer as far as the page looks at it; "NONE" before the first reply.
NoOffer == [effective |-> "NONE", source |-> "UNSET", thanked |-> FALSE, time |-> 0]
PublicOffer ==
  [effective : OfferStatus \cup {"NONE"}, source : {"UNSET", "CANDIDATE", "CROSS_ACTIVITY"},
   thanked : BOOLEAN, time : 0 .. Deadline]
\* A request: "idle", on its way to the server, or its reply on the way back.
Place == {"idle", "server", "browser"}
GetRequest == [at : Place, code : GetCode, view : PublicOffer]
PostRequest == [at : Place, code : PostCode, kind : Answer]
FeedbackRequest == [at : Place, code : PostCode]
NoGet == [at |-> "idle", code |-> "OK", view |-> NoOffer]
NoPost == [at |-> "idle", code |-> "OK", kind |-> "accept"]
NoFeedback == [at |-> "idle", code |-> "OK"]
Sent(request) == [request EXCEPT !.at = "server"]
Replied(request, code) == [request EXCEPT !.at = "browser", !.code = code]
\* Beyond the bound an answer left behind is lost, as any of them may be.
MayOrphan == Cardinality(orphans) < MaxOrphans
Late(t) == IF t >= Deadline THEN Deadline ELSE t

-----------------------------------------------------------------------------
\* The public offer service.

Overdue == status = "PENDING" /\ now = Deadline

\* activityStateGate, after the token was resolved.
GateCode ==
  IF ~link THEN "TOKEN_INVALID"
  ELSE IF activity = "DISABLED" THEN "ACTIVITY_DISABLED"
  ELSE IF activity = "ARCHIVED" THEN "ACTIVITY_ARCHIVED"
  ELSE "OK"

\* Mutant: an archived activity is refused here too.
ViewCodeAsGate == GateCode
\* ResolveByToken: an archived activity still shows the result; the computed
\* expiry is shown and not written.
ViewCode == IF GateCode = "ACTIVITY_ARCHIVED" THEN "OK" ELSE GateCode
FullView ==
  [effective |-> IF Overdue THEN "EXPIRED" ELSE status,
   source |-> source, thanked |-> reason,
   time |-> IF status = "PENDING" /\ ~Overdue THEN now ELSE 0]

\* Mutant: the row's status is not read again under the lock.
AnswerCodeUnchecked(a) == IF GateCode = "OK" /\ ~Overdue THEN "OK" ELSE "CHANGED"
\* Accept and Decline give the same answers up to the roles of the two results:
\* a repeat is answered with the result it has, anything else that is settled or
\* past its deadline is refused.
AnswerCode(a) ==
  IF GateCode = "OK" /\ (status = Result[a] \/ (status = "PENDING" /\ ~Overdue))
  THEN "OK" ELSE "CHANGED"

\* Only Accept commits the expiry it finds: Decline returns an error from the
\* same transaction, which rolls the settlement back.
Execute(a) ==
  LET code == AnswerCode(a)
  IN /\ status' = IF code = "OK" THEN Result[a]
                  ELSE IF a = "accept" /\ Overdue /\ GateCode = "OK" THEN "EXPIRED"
                  ELSE status
     /\ source' = IF code = "OK" /\ a = "decline" /\ status = "PENDING"
                  THEN "CANDIDATE" ELSE source
     /\ UNCHANGED <<link, activity, reason, now>>

PassTime ==
  /\ now < Deadline \/ clock < Deadline
  /\ now' = Late(now + 1)
  /\ clock' = Late(clock + 1)
  /\ UNCHANGED <<link, activity, status, source, reason, orphans, data, error, get, post,
                 feedback, dialogVars, seen, recalibrate, asked>>

\* The rest of the system: the sweep, the staff, an acceptance elsewhere.
Server ==
  /\ \/ /\ activity = "ACTIVE" /\ Overdue
        /\ status' = "EXPIRED"
        /\ UNCHANGED <<activity, source>>
     \/ /\ activity = "ACTIVE" /\ activity' = "DISABLED"
        /\ UNCHANGED <<status, source>>
     \/ /\ activity = "DISABLED" /\ activity' = "ACTIVE"
        /\ status' = IF Overdue THEN "EXPIRED" ELSE status
        /\ UNCHANGED source
     \/ /\ activity = "ACTIVE" /\ status # "PENDING"
        /\ activity' = "ARCHIVED"
        /\ UNCHANGED <<status, source>>
     \/ /\ status = "PENDING"
        /\ status' = "DECLINED" /\ source' = "CROSS_ACTIVITY"
        /\ UNCHANGED activity
  /\ UNCHANGED <<link, reason, now, orphans, data, error, get, post, feedback,
                 dialogVars, clockVars, asked>>

-----------------------------------------------------------------------------
\* What is on the screen.

Open == data.effective = "PENDING"
Past == Open /\ seen >= Deadline
Busy == post.at # "idle"

\* The dispatch at the end of OfferPage.
View ==
  IF error = "TOKEN_INVALID" THEN "invalid"
  ELSE IF error = "ACTIVITY_DISABLED" THEN "disabled"
  ELSE IF error # "OK" THEN "error"
  ELSE IF data = NoOffer THEN "loading"
  ELSE data.effective

\* The confirmation word lives as long as the open view is mounted.
Unmounts == typed' = (typed /\ View' = "PENDING")

\* Mutant: the countdown only disables the buttons.
DeadlineEffectNone(get1) == get' = get1
\* The effect on pastDeadline: once, when it becomes true, the query is
\* invalidated, which drops the GET in flight.
DeadlineEffect(get1) ==
  get' = IF Past' /\ ~Past THEN Sent(NoGet) ELSE get1

\* A settled offer has no countdown and never opens again: its readings are
\* of no use any more.
StopClock == clock' = Deadline /\ seen' = Deadline

\* A fetch that starts without data clears the error: the skeleton is back.
Refetch ==
  /\ get' = Sent(NoGet)
  /\ error' = IF data = NoOffer THEN "OK" ELSE error

-----------------------------------------------------------------------------
\* The page's requests.

ServeGet ==
  /\ get.at = "server"
  /\ get' = [Replied(get, ViewCode) EXCEPT !.view = IF ViewCode = "OK" THEN FullView ELSE NoOffer]
  /\ UNCHANGED <<serverVars, orphans, data, error, post, feedback, dialogVars, clockVars, asked>>

\* As a GET changes nothing, losing it or its reply is the same.
LoseGet ==
  /\ get.at = "server"
  /\ get' = Replied(get, "NETWORK_ERROR")
  /\ UNCHANGED <<serverVars, orphans, data, error, post, feedback, dialogVars, clockVars, asked>>

\* A failed GET keeps the data it could not refresh. A new serverTime restarts
\* the countdown's effect.
ReceiveGet ==
  /\ get.at = "browser"
  /\ data' = IF get.code = "OK" THEN get.view ELSE data
  /\ error' = get.code
  /\ recalibrate' = IF get.code = "OK" THEN data'.effective = "PENDING" ELSE recalibrate
  /\ IF get.code = "OK" /\ data'.effective # "PENDING" THEN StopClock ELSE UNCHANGED <<clock, seen>>
  /\ DeadlineEffect(NoGet)
  /\ Unmounts
  /\ UNCHANGED <<serverVars, orphans, post, feedback, dialog, asked>>

\* CONFLICT: another answer of the candidate holds the lease.
ServePost ==
  /\ post.at = "server"
  /\ \/ /\ Execute(post.kind)
        /\ post' = Replied(post, AnswerCode(post.kind))
     \/ /\ post.kind = "accept" /\ GateCode = "OK" /\ status = "PENDING"
        /\ post' = Replied(post, "CHANGED")
        /\ UNCHANGED serverVars
  /\ UNCHANGED <<orphans, data, error, get, feedback, dialogVars, clockVars, asked>>

\* The request or its reply is lost; a request thought lost may still arrive.
LosePost ==
  /\ post.at # "idle" /\ post.code # "NETWORK_ERROR"
  /\ post' = Replied(post, "NETWORK_ERROR")
  /\ \/ UNCHANGED orphans
     \/ post.at = "server" /\ MayOrphan /\ orphans' = orphans \cup {post.kind}
  /\ UNCHANGED <<serverVars, data, error, get, feedback, dialogVars, clockVars, asked>>

ServeOrphan(a) ==
  /\ a \in orphans
  /\ orphans' = orphans \ {a}
  /\ Execute(a)
  /\ UNCHANGED <<data, error, get, post, feedback, dialogVars, clockVars, asked>>

\* actionMutation.onSuccess: the result is merged into the cached offer (which
\* also ends an error), the dialog closes, the query is refetched.
ActionSucceeds ==
  /\ post.at = "browser" /\ post.code = "OK"
  /\ data' = [data EXCEPT !.effective = Result[post.kind]]
  /\ error' = "OK"
  /\ get' = Sent(NoGet)
  /\ dialog' = "none"
  /\ recalibrate' = FALSE /\ StopClock
  /\ Unmounts
  /\ post' = NoPost
  /\ UNCHANGED <<serverVars, orphans, feedback, asked>>

\* actionMutation.onError: the server's state has changed, so the dialog closes
\* and the query is refetched; anything else stays in the dialog for a retry.
\* Mutant: a refusal is merged into the cache like a success.
ActionFailsAsDone ==
  /\ post.at = "browser" /\ post.code # "OK"
  /\ data' = [data EXCEPT !.effective = Result[post.kind]]
  /\ dialog' = "none"
  /\ Refetch
  /\ Unmounts
  /\ post' = NoPost
  /\ UNCHANGED <<serverVars, orphans, feedback, clockVars, asked>>
ActionFails ==
  /\ post.at = "browser" /\ post.code # "OK"
  /\ IF post.code = "CHANGED"
     THEN dialog' = "none" /\ Refetch
     ELSE UNCHANGED <<dialog, get, error>>
  /\ post' = NoPost
  /\ UNCHANGED data
  /\ Unmounts
  /\ UNCHANGED <<serverVars, orphans, feedback, clockVars, asked>>

\* SubmitDeclineReason: the first reason is kept, a repeat is answered alike.
\* "CHANGED" stands for all its errors: the page only shows them.
ServeFeedback ==
  /\ feedback.at = "server"
  /\ LET taken == GateCode = "OK" /\ status = "DECLINED"
     IN /\ reason' = (reason \/ taken)
        /\ feedback' = Replied(feedback, IF taken THEN "OK" ELSE "CHANGED")
  /\ UNCHANGED <<link, activity, status, source, now, orphans, data, error, get,
                 post, dialogVars, clockVars, asked>>

LoseFeedback ==
  /\ feedback.at # "idle" /\ feedback.code = "OK"
  /\ feedback' = Replied(feedback, "CHANGED")
  /\ UNCHANGED <<serverVars, orphans, data, error, get, post, dialogVars, clockVars, asked>>

\* reasonMutation.onSuccess; its errors are only shown.
\* Mutant: the thanks are shown whatever the reply says.
ReceiveFeedbackAnyCode ==
  /\ feedback.at = "browser"
  /\ feedback' = NoFeedback
  /\ data' = [data EXCEPT !.thanked = TRUE]
  /\ error' = "OK" /\ get' = Sent(NoGet)
  /\ Unmounts
  /\ UNCHANGED <<serverVars, orphans, post, dialog, clockVars, asked>>
ReceiveFeedback ==
  /\ feedback.at = "browser"
  /\ feedback' = NoFeedback
  /\ IF feedback.code = "OK"
     THEN /\ data' = [data EXCEPT !.thanked = TRUE]
          /\ error' = "OK" /\ get' = Sent(NoGet)
     ELSE UNCHANGED <<data, error, get>>
  /\ Unmounts
  /\ UNCHANGED <<serverVars, orphans, post, dialog, clockVars, asked>>

-----------------------------------------------------------------------------
\* The candidate.

OpenDialog(a) ==
  /\ View = "PENDING" /\ dialog = "none" /\ ~Busy /\ ~Past
  /\ dialog' = a
  /\ UNCHANGED <<serverVars, orphans, data, error, get, post, feedback, typed,
                 clockVars, asked>>

\* Neither dialog closes while its request is in flight.
CloseDialog ==
  /\ View = "PENDING" /\ dialog # "none" /\ ~Busy
  /\ dialog' = "none"
  /\ typed' = (typed /\ dialog # "decline")
  /\ UNCHANGED <<serverVars, orphans, data, error, get, post, feedback,
                 clockVars, asked>>

TypeWord ==
  /\ View = "PENDING" /\ dialog = "decline" /\ ~Busy
  /\ typed' = ~typed
  /\ UNCHANGED <<serverVars, orphans, data, error, get, post, feedback, dialog,
                 clockVars, asked>>

\* The dialog stays usable after the deadline: only its buttons behind it are
\* disabled.
ConfirmDialog(a) ==
  /\ View = "PENDING" /\ dialog = a /\ ~Busy
  /\ a = "decline" => typed
  /\ post' = [Sent(NoPost) EXCEPT !.kind = a]
  /\ asked' = asked \cup {Result[a]}
  /\ UNCHANGED <<serverVars, orphans, data, error, get, feedback, dialogVars, clockVars>>

MayComment == View = "DECLINED" /\ data.source # "UNSET" /\ ~data.thanked /\ feedback.at = "idle"
SubmitReason ==
  /\ MayComment
  /\ feedback' = Sent(NoFeedback)
  /\ UNCHANGED <<serverVars, orphans, data, error, get, post, dialogVars, clockVars, asked>>

\* The retry button of the error view; the browser is online again.
Retry ==
  /\ View = "error" \/ get.at = "idle"
  /\ Refetch
  /\ UNCHANGED data
  /\ Unmounts
  /\ UNCHANGED <<serverVars, orphans, post, feedback, dialog, clockVars, asked>>

\* The page is opened again: only what is at the server remains.
Reload ==
  /\ data' = NoOffer /\ error' = "OK" /\ get' = Sent(NoGet)
  /\ orphans' = IF post.at = "server" /\ MayOrphan THEN orphans \cup {post.kind} ELSE orphans
  /\ post' = NoPost /\ feedback' = NoFeedback
  /\ dialog' = "none" /\ typed' = FALSE
  /\ \E s \in Skews : clock' = Late(now + s)
  /\ seen' = clock' /\ recalibrate' = FALSE
  /\ UNCHANGED <<serverVars, asked>>

\* The same answer is confirmed in another tab.
OtherTab(a) ==
  /\ MayOrphan
  /\ orphans' = orphans \cup {a}
  /\ asked' = asked \cup {Result[a]}
  /\ UNCHANGED <<serverVars, data, error, get, post, feedback, dialogVars, clockVars>>

-----------------------------------------------------------------------------
\* The countdown (useOfferCountdown).

\* The heartbeat, once a second while the offer is open.
Heartbeat ==
  /\ Open /\ ~recalibrate /\ seen # clock
  /\ seen' = clock
  /\ UNCHANGED data
  /\ DeadlineEffect(get)
  /\ UNCHANGED <<serverVars, orphans, data, error, post, feedback, dialogVars, clock,
                 recalibrate, asked>>

\* Mutant: the offset is left at zero.
CalibrateNever ==
  /\ Open /\ recalibrate
  /\ recalibrate' = FALSE
  /\ seen' = clock
  /\ UNCHANGED data
  /\ DeadlineEffect(get)
  /\ UNCHANGED <<serverVars, orphans, error, post, feedback, dialogVars, clock, asked>>
\* Mutant: the reply's travel time is added, as a fixed estimate.
TakeOffsetAhead ==
  /\ clock' = Late(data.time + 1) /\ seen' = Late(data.time + 1)
  /\ UNCHANGED data
  /\ DeadlineEffect(get)
  /\ UNCHANGED <<serverVars, orphans, error, post, feedback, dialogVars, asked>>
\* serverOffsetMs takes the offset as if the reply's serverTime were now.
TakeOffset ==
  /\ clock' = data.time /\ seen' = data.time
  /\ UNCHANGED data
  /\ DeadlineEffect(get)
  /\ UNCHANGED <<serverVars, orphans, error, post, feedback, dialogVars, asked>>
\* Once for every reply...
Calibrate == Open /\ recalibrate /\ recalibrate' = FALSE /\ TakeOffset
\* ... and again, from the same serverTime, whenever the tab becomes visible.
TabVisible == Open /\ TakeOffset /\ UNCHANGED recalibrate

-----------------------------------------------------------------------------
Init ==
  /\ link \in BOOLEAN
  /\ activity = "ACTIVE" /\ status = "PENDING" /\ source = "UNSET" /\ reason = FALSE
  /\ now = 0 /\ orphans = {} /\ asked = {}
  /\ data = NoOffer /\ error = "OK" /\ get = Sent(NoGet)
  /\ post = NoPost /\ feedback = NoFeedback
  /\ dialog = "none" /\ typed = FALSE
  /\ \E s \in Skews : clock = Late(s)
  /\ seen = clock /\ recalibrate = FALSE

Requests ==
  \/ ServeGet \/ LoseGet \/ ReceiveGet
  \/ ServePost \/ LosePost \/ (\E a \in Answer : ServeOrphan(a))
  \/ ActionSucceeds \/ ActionFails
  \/ ServeFeedback \/ LoseFeedback \/ ReceiveFeedback

CandidateActs ==
  \/ \E a \in Answer : OpenDialog(a) \/ ConfirmDialog(a) \/ OtherTab(a)
  \/ CloseDialog \/ TypeWord \/ SubmitReason \/ Retry \/ Reload

Next ==
  \/ PassTime \/ Server \/ Requests \/ CandidateActs
  \/ Heartbeat \/ Calibrate \/ TabVisible

Spec == Init /\ [][Next]_vars

\* Time passes, the timers of the page run, requests are answered or fail.
Fairness ==
  /\ WF_vars(PassTime) /\ WF_vars(Heartbeat) /\ WF_vars(Calibrate)
  /\ WF_vars(ServeGet) /\ WF_vars(ReceiveGet)
FairSpec == Spec /\ Fairness

-----------------------------------------------------------------------------
\* Every variable stays in its domain.
TypeOK ==
  /\ link \in BOOLEAN /\ reason \in BOOLEAN
  /\ activity \in {"ACTIVE", "DISABLED", "ARCHIVED"}
  /\ status \in OfferStatus /\ source \in {"UNSET", "CANDIDATE", "CROSS_ACTIVITY"}
  /\ now \in 0 .. Deadline /\ orphans \subseteq Answer
  /\ data \in PublicOffer /\ error \in GetCode
  /\ get \in GetRequest /\ post \in PostRequest /\ feedback \in FeedbackRequest
  /\ dialog \in Answer \cup {"none"}
  /\ typed \in BOOLEAN
  /\ clock \in -Deadline .. Deadline /\ seen \in -Deadline .. Deadline
  /\ recalibrate \in BOOLEAN
  /\ asked \subseteq {"ACCEPTED", "DECLINED"}

\* The page implements the abstract promise of OfferAnswer: one answer, asked
\* for, and a result on the screen that is that answer and stays it. An offer
\* past its deadline has lapsed, settled or not; one released by an acceptance
\* elsewhere too, which the page also presents as declined.
AnswerNow ==
  IF Overdue \/ status = "EXPIRED" \/ source = "CROSS_ACTIVITY" THEN "LAPSED"
  ELSE status
ShownNow ==
  IF View \notin OfferStatus THEN "UNKNOWN"
  ELSE IF View = "EXPIRED" THEN "LAPSED"
  ELSE IF View = "DECLINED" /\ status = "DECLINED" THEN AnswerNow
  ELSE View
Promise == INSTANCE OfferAnswer WITH answer <- AnswerNow, shown <- ShownNow
OneAnswer == Promise!AnswerSpec

\* A page calls the deadline past too early only between a reply and the timeout
\* that reply schedules, which undoes it.  In between the first render has read
\* the device's own clock, its buttons are disabled, and one GET more is sent.
EarlyCutoffIsBrief == Past /\ now < Deadline => recalibrate /\ data.time < Deadline

\* It happens with the first offer an opened page receives only: from then on
\* no reply, heartbeat or return to the tab ends the countdown early, however
\* wrong the device's clock and however late the reply it was set by.
EarlyCutoffAtFirstOnly ==
  [][Past' /\ ~Past /\ now' < Deadline => data.effective = "NONE"]_vars

\* The page thanks for feedback only when the server has it.
ThanksIsReal == data.thanked => reason

\* When an answer's reply is lost, or somebody else settles the offer, the page
\* stops presenting it as open in the end (the countdown asks the server again),
\* provided the tab is not hidden and shown again for ever.
ResultLearnt ==
  <>[][~TabVisible]_vars => (status # "PENDING" ~> View # "PENDING")
===============================================================================
