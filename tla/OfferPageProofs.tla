---------------------------- MODULE OfferPageProofs ----------------------------
(***************************************************************************)
(* What OfferPage's runs check for one unit of time, proved for every      *)
(* deadline, every bound on the answers left behind and every set of       *)
(* clock errors.                                                           *)
(***************************************************************************)
EXTENDS OfferPage, TLAPS

\* The actions, one by one.
LEMMA Steps ==
  ASSUME [Next]_vars
  PROVE  \/ PassTime \/ Server \/ ServeGet \/ LoseGet \/ ReceiveGet \/ ServePost \/ LosePost
         \/ \E a \in Answer : ServeOrphan(a)
         \/ ActionSucceeds \/ ActionFails \/ ServeFeedback \/ LoseFeedback \/ ReceiveFeedback
         \/ \E a \in Answer : OpenDialog(a)
         \/ \E a \in Answer : ConfirmDialog(a)
         \/ \E a \in Answer : OtherTab(a)
         \/ CloseDialog \/ TypeWord \/ SubmitReason \/ Retry \/ Reload
         \/ Heartbeat \/ Calibrate \/ TabVisible \/ UNCHANGED vars
BY Zenon DEF Next, Requests, CandidateActs

-----------------------------------------------------------------------------
\* The types.

LEMMA LateBounded ==
  ASSUME NEW t \in Int, t >= -Deadline
  PROVE  Late(t) \in -Deadline .. Deadline /\ (t >= 0 => Late(t) \in 0 .. Deadline)
BY BoundAssumption DEF Late

LEMMA OfferTyped ==
  /\ NoOffer \in PublicOffer /\ NoOffer.effective # "PENDING"
  /\ \A d \in PublicOffer :
       /\ d.time \in 0 .. Deadline
       /\ [d EXCEPT !.thanked = TRUE] \in PublicOffer
       /\ \A a \in Answer : [d EXCEPT !.effective = Result[a]] \in PublicOffer
<1>1. NoOffer \in PublicOffer /\ NoOffer.effective # "PENDING"
  BY BoundAssumption DEF NoOffer, PublicOffer, OfferStatus
<1>2. ASSUME NEW d \in PublicOffer
      PROVE  d.time \in 0 .. Deadline /\ [d EXCEPT !.thanked = TRUE] \in PublicOffer
  BY DEF PublicOffer
<1>3. ASSUME NEW d \in PublicOffer, NEW a \in Answer
      PROVE  [d EXCEPT !.effective = Result[a]] \in PublicOffer
  <2>1. Result[a] \in OfferStatus
    BY DEF Answer, Result, OfferStatus
  <2> QED
    BY <2>1 DEF PublicOffer
<1> QED
  BY <1>1, <1>2, <1>3

LEMMA GetTyped ==
  /\ NoGet \in GetRequest /\ Sent(NoGet) \in GetRequest
  /\ \A r \in GetRequest :
       /\ r.code \in GetCode /\ r.view \in PublicOffer
       /\ \A c \in GetCode, v \in PublicOffer :
            /\ Replied(r, c) \in GetRequest
            /\ [Replied(r, c) EXCEPT !.view = v] \in GetRequest
<1>1. NoGet \in GetRequest /\ Sent(NoGet) \in GetRequest
  BY OfferTyped DEF NoGet, Sent, GetRequest, Place, GetCode
<1>2. ASSUME NEW r \in GetRequest, NEW c \in GetCode, NEW v \in PublicOffer
      PROVE  /\ Replied(r, c) \in GetRequest
             /\ [Replied(r, c) EXCEPT !.view = v] \in GetRequest
  BY DEF GetRequest, Replied, Place
<1> QED
  BY <1>1, <1>2 DEF GetRequest

LEMMA PostTyped ==
  /\ NoPost \in PostRequest /\ NoFeedback \in FeedbackRequest
  /\ Sent(NoFeedback) \in FeedbackRequest
  /\ \A a \in Answer : [Sent(NoPost) EXCEPT !.kind = a] \in PostRequest
  /\ \A r \in PostRequest : r.kind \in Answer
  /\ \A r \in PostRequest, c \in PostCode : Replied(r, c) \in PostRequest
  /\ \A r \in FeedbackRequest, c \in PostCode : Replied(r, c) \in FeedbackRequest
BY DEF NoPost, NoFeedback, Sent, Replied, PostRequest, FeedbackRequest, Place, PostCode, Answer

LEMMA ViewTyped ==
  ASSUME TypeOK
  PROVE  FullView \in PublicOffer /\ ViewCode \in GetCode
<1>1. FullView \in PublicOffer
  BY BoundAssumption DEF TypeOK, FullView, PublicOffer, OfferStatus
<1>2. ViewCode \in GetCode
  BY DEF TypeOK, ViewCode, GateCode, GetCode
<1> QED
  BY <1>1, <1>2

LEMMA ExecuteTyped ==
  ASSUME TypeOK, NEW a \in Answer, Execute(a)
  PROVE  /\ status' \in OfferStatus /\ source' \in {"UNSET", "CANDIDATE", "CROSS_ACTIVITY"}
         /\ AnswerCode(a) \in {"OK", "CHANGED"}
         /\ UNCHANGED <<link, activity, reason, now>>
BY DEF TypeOK, Execute, AnswerCode, OfferStatus, Answer, Result

LEMMA TypeInit == Init => TypeOK
<1> SUFFICES ASSUME Init PROVE TypeOK
  OBVIOUS
<1>1. clock \in -Deadline .. Deadline
  BY LateBounded, BoundAssumption DEF Init
<1>2. seen \in -Deadline .. Deadline
  BY <1>1 DEF Init
<1>3. /\ data \in PublicOffer /\ get \in GetRequest
      /\ post \in PostRequest /\ feedback \in FeedbackRequest
  BY OfferTyped, GetTyped, PostTyped DEF Init
<1>4. now \in 0 .. Deadline
  BY BoundAssumption DEF Init
<1> QED
  BY <1>1, <1>2, <1>3, <1>4 DEF Init, TypeOK, GetCode, OfferStatus

LEMMA TypeStep == TypeOK /\ [Next]_vars => TypeOK'
<1> SUFFICES ASSUME TypeOK, [Next]_vars PROVE TypeOK'
  OBVIOUS
<1> USE DEF TypeOK, serverVars, dialogVars, clockVars
<1>1. CASE PassTime
  BY <1>1, LateBounded, BoundAssumption DEF PassTime
<1>2. CASE Server
  BY <1>2 DEF Server, OfferStatus
<1>3. CASE ServeGet
  <2>1. (IF ViewCode = "OK" THEN FullView ELSE NoOffer) \in PublicOffer
    BY ViewTyped, OfferTyped
  <2> QED
    BY <1>3, <2>1, ViewTyped, GetTyped DEF ServeGet
<1>4. CASE LoseGet
  <2>1. "NETWORK_ERROR" \in GetCode /\ NoOffer \in PublicOffer
    BY OfferTyped DEF GetCode
  <2> QED
    BY <1>4, <2>1, GetTyped DEF LoseGet
<1>5. CASE ReceiveGet
  <2>1. get' \in GetRequest
    BY <1>5, GetTyped DEF ReceiveGet, DeadlineEffect
  <2>2. data' \in PublicOffer /\ error' \in GetCode
    BY <1>5, GetTyped DEF ReceiveGet
  <2>3. clock' \in -Deadline .. Deadline /\ seen' \in -Deadline .. Deadline
    BY <1>5, BoundAssumption DEF ReceiveGet, StopClock
  <2>4. recalibrate' \in BOOLEAN /\ typed' \in BOOLEAN
    BY <1>5 DEF ReceiveGet, Unmounts
  <2> QED
    BY <1>5, <2>1, <2>2, <2>3, <2>4 DEF ReceiveGet
<1>6. CASE ServePost
  <2>1. post.kind \in Answer /\ "CHANGED" \in PostCode
    BY PostTyped DEF PostCode
  <2>2. CASE Execute(post.kind) /\ post' = Replied(post, AnswerCode(post.kind))
    BY <1>6, <2>1, <2>2, ExecuteTyped, PostTyped DEF ServePost, PostCode
  <2>3. CASE post' = Replied(post, "CHANGED") /\ UNCHANGED serverVars
    BY <1>6, <2>1, <2>3, PostTyped DEF ServePost
  <2> QED
    BY <1>6, <2>2, <2>3 DEF ServePost
<1>7. CASE LosePost
  <2>1. "NETWORK_ERROR" \in PostCode /\ post.kind \in Answer
    BY PostTyped DEF PostCode
  <2> QED
    BY <1>7, <2>1, PostTyped DEF LosePost
<1>8. CASE \E a \in Answer : ServeOrphan(a)
  BY <1>8, ExecuteTyped DEF ServeOrphan
<1>9. CASE ActionSucceeds
  <2>1. post.kind \in Answer /\ "OK" \in GetCode
    BY PostTyped DEF GetCode
  <2>2. data' \in PublicOffer
    BY <1>9, <2>1, OfferTyped DEF ActionSucceeds
  <2>3. clock' \in -Deadline .. Deadline /\ seen' \in -Deadline .. Deadline
    BY <1>9, BoundAssumption DEF ActionSucceeds, StopClock
  <2> QED
    BY <1>9, <2>1, <2>2, <2>3, GetTyped, PostTyped DEF ActionSucceeds, Unmounts
<1>10. CASE ActionFails
  BY <1>10, GetTyped, PostTyped DEF ActionFails, Refetch, Unmounts, GetCode
<1>11. CASE ServeFeedback
  BY <1>11, PostTyped DEF ServeFeedback, PostCode
<1>12. CASE LoseFeedback
  BY <1>12, PostTyped DEF LoseFeedback, PostCode
<1>13. CASE ReceiveFeedback
  BY <1>13, OfferTyped, GetTyped, PostTyped DEF ReceiveFeedback, Unmounts, GetCode
<1>14. CASE \E a \in Answer : OpenDialog(a)
  BY <1>14 DEF OpenDialog
<1>15. CASE \E a \in Answer : ConfirmDialog(a)
  BY <1>15, PostTyped DEF ConfirmDialog, Answer, Result
<1>16. CASE \E a \in Answer : OtherTab(a)
  <2>1. PICK a \in Answer : OtherTab(a)
    BY <1>16
  <2>2. Result[a] \in {"ACCEPTED", "DECLINED"}
    BY DEF Answer, Result
  <2> QED
    BY <2>1, <2>2 DEF OtherTab
<1>17. CASE CloseDialog
  BY <1>17 DEF CloseDialog
<1>18. CASE TypeWord
  BY <1>18 DEF TypeWord
<1>19. CASE SubmitReason
  BY <1>19, PostTyped DEF SubmitReason
<1>20. CASE Retry
  BY <1>20, GetTyped DEF Retry, Refetch, Unmounts, GetCode
<1>21. CASE Reload
  <2>1. clock' \in -Deadline .. Deadline
    BY <1>21, LateBounded, BoundAssumption DEF Reload
  <2>2. orphans' \subseteq Answer
    BY <1>21, PostTyped DEF Reload
  <2> QED
    BY <1>21, <2>1, <2>2, OfferTyped, GetTyped, PostTyped DEF Reload, GetCode
<1>22. CASE Heartbeat
  BY <1>22, GetTyped DEF Heartbeat, DeadlineEffect
<1>23. CASE Calibrate \/ TabVisible
  <2>1. data.time \in -Deadline .. Deadline
    <3>1. data.time \in 0 .. Deadline
      BY OfferTyped
    <3> QED
      BY <3>1, BoundAssumption
  <2>2. get' \in GetRequest
    BY <1>23, GetTyped DEF Calibrate, TabVisible, TakeOffset, DeadlineEffect
  <2> QED
    BY <1>23, <2>1, <2>2 DEF Calibrate, TabVisible, TakeOffset
<1>24. CASE UNCHANGED vars
  BY <1>24 DEF vars
<1> HIDE DEF TypeOK, serverVars, dialogVars, clockVars
<1> QED
  BY <1>1, <1>2, <1>3, <1>4, <1>5, <1>6, <1>7, <1>8, <1>9, <1>10, <1>11, <1>12, <1>13,
     <1>14, <1>15, <1>16, <1>17, <1>18, <1>19, <1>20, <1>21, <1>22, <1>23, <1>24, Steps,
     Zenon

\* Every variable of the page and of the offer stays in its domain.
THEOREM TypeCorrect == Spec => []TypeOK
<1>1. TypeOK /\ [Next]_vars => TypeOK'
  BY TypeStep
<1> QED
  BY TypeInit, <1>1, PTL DEF Spec

-----------------------------------------------------------------------------
\* The inductive invariants.

\* No reading of the server's clock, and no calibrated clock of the open
\* offer's countdown, is ahead of the server.
ClockInv ==
  /\ data.time <= now /\ get.view.time <= now
  /\ Open /\ ~recalibrate => clock <= now /\ seen <= now

\* Thanks only travel, and are only shown, once the reason is stored.
ThanksInv ==
  /\ data.thanked => reason
  /\ get.view.thanked => reason
  /\ feedback.at = "browser" /\ feedback.code = "OK" => reason

\* A result of the page's data is the offer's.
Honest(result) ==
  /\ result = "ACCEPTED" => status = "ACCEPTED"
  /\ result = "DECLINED" => status = "DECLINED"
  /\ result = "EXPIRED" => AnswerNow = "LAPSED"

\* Every answer on its way was asked for.
AskedInv ==
  /\ \A a \in orphans : Result[a] \in asked
  /\ post.at # "idle" => Result[post.kind] \in asked

\* Only a settled offer has a source of its decline.
SourceInv ==
  /\ status = "PENDING" => source = "UNSET"
  /\ source = "CROSS_ACTIVITY" => status = "DECLINED"

\* Every result on its way or in the cache is the offer's...
ResultInv ==
  /\ Honest(data.effective) /\ Honest(get.view.effective)
  /\ post.at = "browser" /\ post.code = "OK" => status = Result[post.kind]

\* ... and no open offer is on its way once the cache holds a result.
Final == {"ACCEPTED", "DECLINED", "EXPIRED"}
FreshInv ==
  data.effective \in Final /\ get.at = "browser" /\ get.code = "OK"
    => get.view.effective # "PENDING"

AnswerInv == AskedInv /\ SourceInv /\ ResultInv /\ FreshInv

-----------------------------------------------------------------------------
\* What the requests and the updates of the cached offer hold.

LEMMA OfferFields ==
  /\ NoOffer.time = 0 /\ NoOffer.thanked = FALSE /\ NoOffer.effective = "NONE"
  /\ \A d \in PublicOffer :
       LET thanks == [d EXCEPT !.thanked = TRUE]
       IN  thanks.time = d.time /\ thanks.effective = d.effective /\ thanks.thanked = TRUE
  /\ \A d \in PublicOffer, e \in OfferStatus :
       LET merged == [d EXCEPT !.effective = e]
       IN  merged.time = d.time /\ merged.effective = e /\ merged.thanked = d.thanked
BY DEF NoOffer, PublicOffer

LEMMA GetFields ==
  /\ NoGet.at = "idle" /\ NoGet.view = NoOffer
  /\ Sent(NoGet).at = "server" /\ Sent(NoGet).view = NoOffer
  /\ \A r \in GetRequest, c \in GetCode :
       /\ Replied(r, c).at = "browser" /\ Replied(r, c).code = c /\ Replied(r, c).view = r.view
       /\ \A v \in PublicOffer :
            LET served == [Replied(r, c) EXCEPT !.view = v]
            IN  served.at = "browser" /\ served.code = c /\ served.view = v
BY DEF NoGet, Sent, GetRequest, Replied

LEMMA PostFields ==
  /\ NoPost.at = "idle" /\ NoFeedback.at = "idle" /\ Sent(NoFeedback).at = "server"
  /\ \A a \in Answer :
       LET sent == [Sent(NoPost) EXCEPT !.kind = a]
       IN  sent.at = "server" /\ sent.kind = a
  /\ \A r \in PostRequest, c \in PostCode :
       Replied(r, c).at = "browser" /\ Replied(r, c).code = c /\ Replied(r, c).kind = r.kind
  /\ \A r \in FeedbackRequest, c \in PostCode :
       Replied(r, c).at = "browser" /\ Replied(r, c).code = c
BY DEF NoPost, NoFeedback, Sent, PostRequest, FeedbackRequest, Replied

-----------------------------------------------------------------------------
\* The countdown.

LEMMA ViewTime ==
  ASSUME TypeOK
  PROVE  FullView.time \in 0 .. now
BY DEF TypeOK, FullView

LEMMA ClockInit == Init => ClockInv
BY OfferFields, GetFields DEF Init, ClockInv, Open

LEMMA ClockStep == TypeOK /\ ClockInv /\ [Next]_vars => ClockInv'
<1> SUFFICES ASSUME TypeOK, ClockInv, [Next]_vars PROVE ClockInv'
  OBVIOUS
<1>t. /\ now \in 0 .. Deadline /\ Deadline \in Nat
      /\ clock \in -Deadline .. Deadline /\ seen \in -Deadline .. Deadline
      /\ data \in PublicOffer /\ get \in GetRequest /\ post \in PostRequest
      /\ data.time \in 0 .. Deadline /\ get.view \in PublicOffer
  BY BoundAssumption, OfferTyped, GetTyped DEF TypeOK
<1>f. get.view.time \in 0 .. Deadline
  BY <1>t, OfferTyped
<1> USE DEF ClockInv, Open
<1>1. CASE PassTime
  <2>1. now' \in Int /\ now' >= now /\ (clock <= now => clock' <= now')
    BY <1>1, <1>t DEF PassTime, Late
  <2> QED
    BY <1>1, <1>t, <1>f, <2>1 DEF PassTime
<1>2. CASE ServeGet
  <2>1. /\ FullView.time \in 0 .. now /\ FullView \in PublicOffer /\ ViewCode \in GetCode
        /\ NoOffer.time = 0 /\ NoOffer \in PublicOffer
    BY ViewTime, ViewTyped, OfferTyped, OfferFields
  <2>2. get'.view \in {FullView, NoOffer}
    BY <1>2, <1>t, <2>1, GetFields DEF ServeGet
  <2> QED
    BY <1>2, <1>t, <2>1, <2>2 DEF ServeGet, serverVars, clockVars
<1>3. CASE LoseGet
  BY <1>3, <1>t, GetFields DEF LoseGet, GetCode, serverVars, clockVars
<1>4. CASE ReceiveGet
  <2>1. get'.view.time = 0
    BY <1>4, GetFields, OfferFields DEF ReceiveGet, DeadlineEffect
  <2>2. data'.time <= now
    BY <1>4, <1>t, <1>f DEF ReceiveGet
  <2>3. CASE get.code = "OK"
    <3>1. Open' => recalibrate'
      BY <1>4, <2>3, Zenon DEF ReceiveGet
    <3> QED
      BY <1>4, <1>t, <2>1, <2>2, <3>1 DEF ReceiveGet, serverVars
  <2>4. CASE get.code # "OK"
    BY <1>4, <1>t, <2>1, <2>2, <2>4 DEF ReceiveGet, serverVars
  <2> QED
    BY <2>3, <2>4
<1>5. CASE ActionSucceeds
  <2>1. Result[post.kind] \in {"ACCEPTED", "DECLINED"}
    BY <1>t, PostTyped DEF Answer, Result
  <2>2. data'.time = data.time /\ data'.effective # "PENDING"
    BY <1>5, <1>t, <2>1, OfferFields DEF ActionSucceeds, OfferStatus
  <2> QED
    BY <1>5, <1>t, <2>2, GetFields, OfferFields DEF ActionSucceeds, serverVars
<1>6. CASE ActionFails
  BY <1>6, <1>t, GetFields, OfferFields DEF ActionFails, Refetch, serverVars, clockVars
<1>7. CASE ReceiveFeedback
  <2>1. data'.time = data.time /\ data'.effective = data.effective
    BY <1>7, <1>t, OfferFields DEF ReceiveFeedback
  <2> QED
    BY <1>7, <1>t, <2>1, GetFields, OfferFields DEF ReceiveFeedback, serverVars, clockVars
<1>8. CASE Retry
  BY <1>8, <1>t, GetFields, OfferFields DEF Retry, Refetch, serverVars, clockVars
<1>9. CASE Reload
  BY <1>9, <1>t, GetFields, OfferFields DEF Reload, serverVars
<1>10. CASE Heartbeat
  BY <1>10, <1>t, GetFields, OfferFields DEF Heartbeat, DeadlineEffect, serverVars
<1>11. CASE Calibrate \/ TabVisible
  BY <1>11, <1>t, GetFields, OfferFields
     DEF Calibrate, TabVisible, TakeOffset, DeadlineEffect, serverVars
<1>12. CASE UNCHANGED <<now, data, get, clockVars>>
  BY <1>12 DEF clockVars
<1>13. ASSUME \/ Server \/ ServePost \/ LosePost \/ (\E a \in Answer : ServeOrphan(a))
              \/ ServeFeedback \/ LoseFeedback \/ CloseDialog \/ TypeWord \/ SubmitReason
              \/ (\E a \in Answer : OpenDialog(a)) \/ (\E a \in Answer : ConfirmDialog(a))
              \/ (\E a \in Answer : OtherTab(a)) \/ UNCHANGED vars
       PROVE  UNCHANGED <<now, data, get, clockVars>>
  BY <1>13 DEF Server, ServePost, LosePost, ServeOrphan, Execute, ServeFeedback, LoseFeedback,
     CloseDialog, TypeWord, SubmitReason, OpenDialog, ConfirmDialog, OtherTab, vars, serverVars,
     dialogVars, clockVars
<1> HIDE DEF ClockInv
<1> QED
  BY <1>1, <1>2, <1>3, <1>4, <1>5, <1>6, <1>7, <1>8, <1>9, <1>10, <1>11, <1>12, <1>13, Steps,
     Zenon

\* A page that calls the deadline past too early has a reply's timeout pending,
\* and that reply was sent before the deadline (useOfferCountdown).
THEOREM EarlyCutoffBriefHolds == Spec => []EarlyCutoffIsBrief
<1>1. TypeOK /\ ClockInv => EarlyCutoffIsBrief
  <2> SUFFICES ASSUME TypeOK, ClockInv, Past, now < Deadline
               PROVE  recalibrate /\ data.time < Deadline
    BY DEF EarlyCutoffIsBrief
  <2>1. /\ now \in 0 .. Deadline /\ Deadline \in Nat /\ seen \in -Deadline .. Deadline
        /\ data.time \in 0 .. Deadline /\ recalibrate \in BOOLEAN
    BY BoundAssumption, OfferTyped DEF TypeOK
  <2> QED
    BY <2>1 DEF ClockInv, Past
<1>2. Init => TypeOK /\ ClockInv
  BY TypeInit, ClockInit
<1>3. TypeOK /\ ClockInv /\ [Next]_vars => TypeOK' /\ ClockInv'
  BY TypeStep, ClockStep
<1> QED
  BY <1>1, <1>2, <1>3, PTL DEF Spec

\* While the offer is open, a new reading of the clock is not ahead of the server.
LEMMA SeenStep ==
  ASSUME TypeOK, ClockInv, [Next]_vars, Open, Open'
  PROVE  seen' = seen \/ seen' <= now'
<1> DEFINE Goal == seen' = seen \/ seen' <= now'
<1>1. CASE ReceiveGet
  BY <1>1 DEF ReceiveGet, Open
<1>2. CASE ActionSucceeds
  <2>1. Result[post.kind] \in {"ACCEPTED", "DECLINED"}
    BY PostTyped DEF TypeOK, Answer, Result
  <2>2. data'.effective # "PENDING"
    BY <1>2, <2>1, OfferFields DEF ActionSucceeds, OfferStatus, TypeOK
  <2> QED
    BY <2>2 DEF Open
<1>3. CASE Reload
  BY <1>3, OfferFields DEF Reload, Open
<1>4. CASE Heartbeat
  BY <1>4 DEF Heartbeat, ClockInv, serverVars
<1>5. CASE Calibrate \/ TabVisible
  BY <1>5 DEF Calibrate, TabVisible, TakeOffset, ClockInv, serverVars
<1>6. ASSUME \/ PassTime \/ Server \/ ServeGet \/ LoseGet \/ ServePost \/ LosePost
             \/ (\E a \in Answer : ServeOrphan(a)) \/ ActionFails \/ ServeFeedback \/ LoseFeedback
             \/ ReceiveFeedback \/ (\E a \in Answer : OpenDialog(a))
             \/ (\E a \in Answer : ConfirmDialog(a)) \/ (\E a \in Answer : OtherTab(a))
             \/ CloseDialog \/ TypeWord \/ SubmitReason \/ Retry \/ UNCHANGED vars
      PROVE  Goal
  BY <1>6 DEF PassTime, Server, ServeGet, LoseGet, ServePost, LosePost, ServeOrphan, ActionFails,
     ServeFeedback, LoseFeedback, ReceiveFeedback, OpenDialog, ConfirmDialog, OtherTab,
     CloseDialog, TypeWord, SubmitReason, Retry, vars, clockVars
<1> HIDE DEF Goal
<1>7. Goal
  BY <1>1, <1>2, <1>3, <1>4, <1>5, <1>6, Steps, Zenon DEF Goal
<1> QED
  BY <1>7 DEF Goal

-----------------------------------------------------------------------------
\* The feedback.

LEMMA ThanksInit == Init => ThanksInv
BY OfferFields, GetFields, PostFields DEF Init, ThanksInv

LEMMA ThanksStep == TypeOK /\ ThanksInv /\ [Next]_vars => ThanksInv'
<1> SUFFICES ASSUME TypeOK, ThanksInv, [Next]_vars PROVE ThanksInv'
  OBVIOUS
<1>t. /\ data \in PublicOffer /\ get \in GetRequest /\ post \in PostRequest
      /\ feedback \in FeedbackRequest
  BY DEF TypeOK
<1> USE DEF ThanksInv
<1>1. CASE ServeGet
  <2>1. /\ FullView.thanked = reason /\ FullView \in PublicOffer /\ ViewCode \in GetCode
        /\ NoOffer.thanked = FALSE /\ NoOffer \in PublicOffer
    BY ViewTyped, OfferTyped, OfferFields DEF FullView
  <2>2. get'.view \in {FullView, NoOffer}
    BY <1>1, <1>t, <2>1, GetFields DEF ServeGet
  <2> QED
    BY <1>1, <2>1, <2>2 DEF ServeGet, serverVars
<1>2. CASE LoseGet
  BY <1>2, <1>t, GetFields DEF LoseGet, GetCode, serverVars
<1>3. CASE ReceiveGet
  <2>1. get'.view.thanked = FALSE
    BY <1>3, GetFields, OfferFields DEF ReceiveGet, DeadlineEffect
  <2> QED
    BY <1>3, <2>1 DEF ReceiveGet, serverVars
<1>4. CASE ActionSucceeds
  <2>1. Result[post.kind] \in OfferStatus
    BY <1>t, PostTyped DEF Answer, Result, OfferStatus
  <2>2. data'.thanked = data.thanked
    BY <1>4, <1>t, <2>1, OfferFields DEF ActionSucceeds
  <2> QED
    BY <1>4, <2>2, GetFields, OfferFields DEF ActionSucceeds, serverVars
<1>5. CASE ActionFails
  BY <1>5, GetFields, OfferFields DEF ActionFails, Refetch, serverVars
<1>6. CASE ServeFeedback
  <2>1. /\ reason => reason'
        /\ feedback'.code = "OK" => reason'
    BY <1>6, <1>t, PostFields DEF ServeFeedback, PostCode
  <2> QED
    BY <1>6, <2>1 DEF ServeFeedback
<1>7. CASE LoseFeedback
  BY <1>7, <1>t, PostFields DEF LoseFeedback, PostCode, serverVars
<1>8. CASE ReceiveFeedback
  BY <1>8, <1>t, GetFields, OfferFields, PostFields DEF ReceiveFeedback, serverVars
<1>9. CASE Retry
  BY <1>9, GetFields, OfferFields DEF Retry, Refetch, serverVars
<1>10. CASE Reload
  BY <1>10, GetFields, OfferFields, PostFields DEF Reload, serverVars
<1>11. CASE Heartbeat \/ Calibrate \/ TabVisible
  BY <1>11, GetFields, OfferFields
     DEF Heartbeat, Calibrate, TabVisible, TakeOffset, DeadlineEffect, serverVars
<1>12. CASE SubmitReason
  BY <1>12, PostFields DEF SubmitReason, serverVars
<1>13. CASE UNCHANGED <<reason, data, get, feedback>>
  BY <1>13
<1>14. ASSUME \/ PassTime \/ Server \/ ServePost \/ LosePost \/ (\E a \in Answer : ServeOrphan(a))
              \/ CloseDialog \/ TypeWord
              \/ (\E a \in Answer : OpenDialog(a)) \/ (\E a \in Answer : ConfirmDialog(a))
              \/ (\E a \in Answer : OtherTab(a)) \/ UNCHANGED vars
       PROVE  UNCHANGED <<reason, data, get, feedback>>
  BY <1>14 DEF PassTime, Server, ServePost, LosePost, ServeOrphan, Execute,
     CloseDialog, TypeWord, OpenDialog, ConfirmDialog, OtherTab, vars, serverVars
<1> HIDE DEF ThanksInv
<1> QED
  BY <1>1, <1>2, <1>3, <1>4, <1>5, <1>6, <1>7, <1>8, <1>9, <1>10, <1>11, <1>12, <1>13, <1>14,
     Steps, Zenon

\* The page thanks for feedback only when the server has stored it, whichever
\* replies are lost and whatever the GETs in flight still say.
THEOREM ThanksIsRealHolds == Spec => []ThanksIsReal
<1>1. ThanksInv => ThanksIsReal
  BY DEF ThanksInv, ThanksIsReal
<1>2. Init => TypeOK /\ ThanksInv
  BY TypeInit, ThanksInit
<1>3. TypeOK /\ ThanksInv /\ [Next]_vars => TypeOK' /\ ThanksInv'
  BY TypeStep, ThanksStep
<1> QED
  BY <1>1, <1>2, <1>3, PTL DEF Spec

-----------------------------------------------------------------------------
\* The answer.

\* What any step does to the offer: a result stays, and an open offer gets an
\* answer that was asked for, or lapses.
LEMMA ExecuteSettles ==
  ASSUME TypeOK, SourceInv, NEW a \in Answer, Execute(a), Result[a] \in asked
  PROVE  /\ status \in {"ACCEPTED", "DECLINED"} => status' = status
         /\ status' = "PENDING" => source' = "UNSET"
         /\ source' = "CROSS_ACTIVITY" => status' = "DECLINED"
         /\ AnswerNow' = AnswerNow \/ (AnswerNow = "PENDING" /\ AnswerNow' \in asked \cup {"LAPSED"})
         /\ AnswerCode(a) = "OK" => status' = Result[a]
<1> DEFINE ok == AnswerCode(a) = "OK"
<1>1. /\ Result[a] \in {"ACCEPTED", "DECLINED"}
      /\ a = "decline" <=> Result[a] = "DECLINED"
  BY DEF Answer, Result
<1>2. ok => status = Result[a] \/ (status = "PENDING" /\ ~Overdue)
  BY DEF AnswerCode
<1>3. /\ status' = IF ok THEN Result[a]
                   ELSE IF a = "accept" /\ Overdue /\ GateCode = "OK" THEN "EXPIRED" ELSE status
      /\ source' = IF ok /\ a = "decline" /\ status = "PENDING" THEN "CANDIDATE" ELSE source
      /\ now' = now
  BY DEF Execute
<1>4. /\ status = "PENDING" => source = "UNSET"
      /\ source = "CROSS_ACTIVITY" => status = "DECLINED"
      /\ source \in {"UNSET", "CANDIDATE", "CROSS_ACTIVITY"} /\ status \in OfferStatus
  BY DEF SourceInv, TypeOK
<1> HIDE DEF ok
<1>5. /\ status \in {"ACCEPTED", "DECLINED"} => status' = status
      /\ ok => status' = Result[a]
  BY <1>1, <1>2, <1>3, <1>4 DEF Overdue
<1>6. /\ status' = "PENDING" => source' = "UNSET"
      /\ source' = "CROSS_ACTIVITY" => status' = "DECLINED"
  BY <1>1, <1>2, <1>3, <1>4 DEF Overdue
<1>7. AnswerNow' = AnswerNow \/ (AnswerNow = "PENDING" /\ AnswerNow' \in asked \cup {"LAPSED"})
  BY <1>1, <1>2, <1>3, <1>4 DEF AnswerNow, Overdue, OfferStatus
<1> QED
  BY <1>5, <1>6, <1>7 DEF ok

LEMMA OfferSettles ==
  ASSUME TypeOK, AnswerInv, [Next]_vars
  PROVE  /\ status \in {"ACCEPTED", "DECLINED"} => status' = status
         /\ status' = "PENDING" => source' = "UNSET"
         /\ source' = "CROSS_ACTIVITY" => status' = "DECLINED"
         /\ AnswerNow' = AnswerNow \/ (AnswerNow = "PENDING" /\ AnswerNow' \in asked \cup {"LAPSED"})
<1> DEFINE Goal == /\ status \in {"ACCEPTED", "DECLINED"} => status' = status
                   /\ status' = "PENDING" => source' = "UNSET"
                   /\ source' = "CROSS_ACTIVITY" => status' = "DECLINED"
                   /\ AnswerNow' = AnswerNow
                      \/ (AnswerNow = "PENDING" /\ AnswerNow' \in asked \cup {"LAPSED"})
<1>t. /\ now \in 0 .. Deadline /\ Deadline \in Nat /\ status \in OfferStatus
      /\ status = "PENDING" => source = "UNSET"
      /\ source = "CROSS_ACTIVITY" => status = "DECLINED"
  BY BoundAssumption DEF TypeOK, AnswerInv, SourceInv
<1>1. CASE PassTime
  <2>1. now = Deadline => now' = Deadline
    BY <1>1, <1>t DEF PassTime, Late
  <2> QED
    BY <1>1, <1>t, <2>1 DEF PassTime, AnswerNow, Overdue
<1>2. CASE Server
  <2>1. now' = now
    BY <1>2 DEF Server
  <2> QED
    BY <1>2, <1>t, <2>1 DEF Server, AnswerNow, Overdue, OfferStatus
<1>3. CASE ServePost
  <2>1. post.kind \in Answer /\ Result[post.kind] \in asked
    BY <1>3, PostTyped DEF ServePost, TypeOK, AnswerInv, AskedInv
  <2>2. CASE Execute(post.kind)
    BY <2>1, <2>2, ExecuteSettles DEF AnswerInv
  <2>3. CASE UNCHANGED serverVars
    BY <1>t, <2>3 DEF serverVars, AnswerNow, Overdue
  <2> QED
    BY <1>3, <2>2, <2>3 DEF ServePost
<1>4. CASE \E a \in Answer : ServeOrphan(a)
  <2>1. PICK a \in Answer : ServeOrphan(a)
    BY <1>4
  <2> QED
    BY <2>1, ExecuteSettles DEF ServeOrphan, AnswerInv, AskedInv
<1>5. CASE UNCHANGED <<status, source, now>>
  BY <1>t, <1>5 DEF AnswerNow, Overdue
<1>6. ASSUME \/ ServeGet \/ LoseGet \/ ReceiveGet \/ LosePost \/ ActionSucceeds \/ ActionFails
             \/ ServeFeedback \/ LoseFeedback \/ ReceiveFeedback \/ CloseDialog \/ TypeWord
             \/ (\E a \in Answer : OpenDialog(a)) \/ (\E a \in Answer : ConfirmDialog(a))
             \/ (\E a \in Answer : OtherTab(a)) \/ SubmitReason \/ Retry \/ Reload
             \/ Heartbeat \/ Calibrate \/ TabVisible \/ UNCHANGED vars
      PROVE  UNCHANGED <<status, source, now>>
  BY <1>6 DEF ServeGet, LoseGet, ReceiveGet, LosePost, ActionSucceeds, ActionFails, ServeFeedback,
     LoseFeedback, ReceiveFeedback, CloseDialog, TypeWord, OpenDialog, ConfirmDialog, OtherTab,
     SubmitReason, Retry, Reload, Heartbeat, Calibrate, TabVisible, TakeOffset, vars, serverVars
<1> HIDE DEF Goal
<1>7. Goal
  BY <1>1, <1>2, <1>3, <1>4, <1>5, <1>6, Steps, Zenon DEF Goal
<1> QED
  BY <1>7 DEF Goal

LEMMA HonestStays ==
  ASSUME TypeOK, AnswerInv, [Next]_vars, NEW result, Honest(result)
  PROVE  /\ result = "ACCEPTED" => status' = "ACCEPTED"
         /\ result = "DECLINED" => status' = "DECLINED"
         /\ result = "EXPIRED" => AnswerNow' = "LAPSED"
BY OfferSettles DEF Honest

\* What the server answers a GET with is the offer's result.
LEMMA ViewHonest ==
  ASSUME TypeOK, AnswerInv
  PROVE  /\ Honest(FullView.effective) /\ FullView.effective \in OfferStatus
         /\ FullView.effective = "PENDING" => AnswerNow = "PENDING"
BY DEF TypeOK, AnswerInv, SourceInv, FullView, Honest, AnswerNow, Overdue, OfferStatus

LEMMA AnswerInit == Init => AnswerInv
BY OfferFields, GetFields, PostFields
   DEF Init, AnswerInv, AskedInv, SourceInv, ResultInv, FreshInv, Honest, Final

LEMMA AskedStep == TypeOK /\ AskedInv /\ [Next]_vars => AskedInv'
<1> SUFFICES ASSUME TypeOK, AskedInv, [Next]_vars PROVE AskedInv'
  OBVIOUS
<1>t. post \in PostRequest /\ post.kind \in Answer
  BY PostTyped DEF TypeOK
<1> USE DEF AskedInv
<1>1. CASE ServePost
  <2>1. post'.kind = post.kind
    BY <1>1, <1>t, ExecuteTyped, PostFields DEF ServePost, PostCode
  <2> QED
    BY <1>1, <2>1 DEF ServePost
<1>2. CASE LosePost
  <2>1. post'.kind = post.kind
    BY <1>2, <1>t, PostFields DEF LosePost, PostCode
  <2> QED
    BY <1>2, <2>1 DEF LosePost
<1>3. CASE \E a \in Answer : ServeOrphan(a)
  BY <1>3 DEF ServeOrphan
<1>4. CASE ActionSucceeds \/ ActionFails
  BY <1>4, PostFields DEF ActionSucceeds, ActionFails
<1>5. CASE \E a \in Answer : ConfirmDialog(a)
  BY <1>5, PostFields DEF ConfirmDialog
<1>6. CASE \E a \in Answer : OtherTab(a)
  BY <1>6 DEF OtherTab
<1>7. CASE Reload
  BY <1>7, PostFields DEF Reload
<1>8. CASE UNCHANGED <<orphans, post, asked>>
  BY <1>8
<1>9. ASSUME \/ PassTime \/ Server \/ ServeGet \/ LoseGet \/ ReceiveGet
             \/ ServeFeedback \/ LoseFeedback \/ ReceiveFeedback \/ CloseDialog \/ TypeWord
             \/ (\E a \in Answer : OpenDialog(a)) \/ SubmitReason \/ Retry
             \/ Heartbeat \/ Calibrate \/ TabVisible \/ UNCHANGED vars
      PROVE  UNCHANGED <<orphans, post, asked>>
  BY <1>9 DEF PassTime, Server, ServeGet, LoseGet, ReceiveGet, ServeFeedback,
     LoseFeedback, ReceiveFeedback, CloseDialog, TypeWord, OpenDialog,
     SubmitReason, Retry, Heartbeat, Calibrate, TabVisible, TakeOffset, vars
<1> HIDE DEF AskedInv
<1> QED
  BY <1>1, <1>2, <1>3, <1>4, <1>5, <1>6, <1>7, <1>8, <1>9, Steps, Zenon

LEMMA ReplyStep ==
  ASSUME TypeOK, AnswerInv, [Next]_vars
  PROVE  post'.at = "browser" /\ post'.code = "OK" => status' = Result[post'.kind]
<1> DEFINE Goal == post'.at = "browser" /\ post'.code = "OK" => status' = Result[post'.kind]
<1>t. post \in PostRequest /\ post.kind \in Answer /\ Result[post.kind] \in {"ACCEPTED", "DECLINED"}
  BY PostTyped DEF TypeOK, Answer, Result
<1>1. CASE ServePost
  <2>1. CASE Execute(post.kind) /\ post' = Replied(post, AnswerCode(post.kind))
    <3>1. AnswerCode(post.kind) = "OK" => status' = Result[post.kind]
      BY <1>1, <1>t, <2>1, ExecuteSettles DEF ServePost, AnswerInv, AskedInv
    <3> QED
      BY <1>t, <2>1, <3>1, ExecuteTyped, PostFields DEF PostCode
  <2>2. CASE post' = Replied(post, "CHANGED")
    BY <1>t, <2>2, PostFields DEF PostCode
  <2> QED
    BY <1>1, <2>1, <2>2 DEF ServePost
<1>2. CASE LosePost
  BY <1>2, <1>t, PostFields DEF LosePost, PostCode
<1>3. CASE ActionSucceeds \/ ActionFails \/ Reload
  BY <1>3, PostFields DEF ActionSucceeds, ActionFails, Reload
<1>4. CASE \E a \in Answer : ConfirmDialog(a)
  BY <1>4, PostFields DEF ConfirmDialog
<1>5. CASE UNCHANGED post
  BY <1>5, <1>t, OfferSettles DEF AnswerInv, ResultInv
<1>6. ASSUME \/ PassTime \/ Server \/ ServeGet \/ LoseGet \/ ReceiveGet
             \/ (\E a \in Answer : ServeOrphan(a)) \/ (\E a \in Answer : OtherTab(a))
             \/ ServeFeedback \/ LoseFeedback \/ ReceiveFeedback \/ CloseDialog \/ TypeWord
             \/ (\E a \in Answer : OpenDialog(a)) \/ SubmitReason \/ Retry
             \/ Heartbeat \/ Calibrate \/ TabVisible \/ UNCHANGED vars
      PROVE  UNCHANGED post
  BY <1>6 DEF PassTime, Server, ServeGet, LoseGet, ReceiveGet, ServeOrphan, OtherTab, ServeFeedback,
     LoseFeedback, ReceiveFeedback, CloseDialog, TypeWord, OpenDialog,
     SubmitReason, Retry, Heartbeat, Calibrate, TabVisible, TakeOffset, vars
<1> HIDE DEF Goal
<1>7. Goal
  BY <1>1, <1>2, <1>3, <1>4, <1>5, <1>6, Steps, Zenon DEF Goal
<1> QED
  BY <1>7 DEF Goal

\* Where the cached offer, and the one on its way, come from.
DataSource ==
  \/ data'.effective \in {data.effective, "NONE"}
  \/ /\ post.at = "browser" /\ post.code = "OK" /\ data'.effective = Result[post.kind]
  \/ /\ get.at = "browser" /\ get.code = "OK" /\ data' = get.view
GetSource ==
  \/ get'.at # "browser" /\ get'.view = NoOffer
  \/ get' = get /\ data'.effective \in {data.effective, "NONE"}
  \/ get'.code # "OK" /\ get'.view = get.view
  \/ get'.view \in {FullView, NoOffer} /\ data' = data

LEMMA Sources == TypeOK /\ [Next]_vars => DataSource /\ GetSource
<1> SUFFICES ASSUME TypeOK, [Next]_vars PROVE DataSource /\ GetSource
  OBVIOUS
<1>t. /\ data \in PublicOffer /\ get \in GetRequest /\ Result[post.kind] \in OfferStatus
      /\ NoOffer \in PublicOffer /\ NoOffer.effective = "NONE"
  BY PostTyped, OfferTyped, OfferFields DEF TypeOK, Answer, Result, OfferStatus
<1> USE DEF DataSource, GetSource
<1>1. CASE ServeGet
  BY <1>1, <1>t, ViewTyped, GetFields DEF ServeGet
<1>2. CASE LoseGet
  BY <1>2, <1>t, GetFields DEF LoseGet, GetCode
<1>3. CASE ReceiveGet
  BY <1>3, GetFields DEF ReceiveGet, DeadlineEffect
<1>4. CASE ActionSucceeds
  BY <1>4, <1>t, GetFields, OfferFields DEF ActionSucceeds
<1>5. CASE ActionFails
  BY <1>5, GetFields DEF ActionFails, Refetch
<1>6. CASE ReceiveFeedback
  <2>1. data'.effective = data.effective
    BY <1>6, <1>t, OfferFields DEF ReceiveFeedback
  <2> QED
    BY <1>6, <2>1, GetFields DEF ReceiveFeedback
<1>7. CASE Retry
  BY <1>7, GetFields DEF Retry, Refetch
<1>8. CASE Reload
  BY <1>8, <1>t, GetFields DEF Reload
<1>9. CASE Heartbeat \/ Calibrate \/ TabVisible
  BY <1>9, GetFields DEF Heartbeat, Calibrate, TabVisible, TakeOffset, DeadlineEffect
<1>10. CASE UNCHANGED <<data, get>>
  BY <1>10
<1>11. ASSUME \/ PassTime \/ Server \/ ServePost \/ LosePost \/ (\E a \in Answer : ServeOrphan(a))
              \/ ServeFeedback \/ LoseFeedback \/ CloseDialog \/ TypeWord \/ SubmitReason
              \/ (\E a \in Answer : OpenDialog(a)) \/ (\E a \in Answer : ConfirmDialog(a))
              \/ (\E a \in Answer : OtherTab(a)) \/ UNCHANGED vars
       PROVE  UNCHANGED <<data, get>>
  BY <1>11 DEF PassTime, Server, ServePost, LosePost, ServeOrphan, ServeFeedback, LoseFeedback,
     CloseDialog, TypeWord, SubmitReason, OpenDialog, ConfirmDialog, OtherTab, vars
<1> HIDE DEF DataSource, GetSource
<1> QED
  BY <1>1, <1>2, <1>3, <1>4, <1>5, <1>6, <1>7, <1>8, <1>9, <1>10, <1>11, Steps, Zenon

LEMMA ResultStep ==
  ASSUME TypeOK, AnswerInv, [Next]_vars
  PROVE  Honest(data.effective)' /\ Honest(get.view.effective)' /\ FreshInv'
<1>a. /\ Honest(data.effective) /\ Honest(get.view.effective) /\ Honest(FullView.effective)
      /\ NoOffer.effective = "NONE" /\ Honest("NONE")
      /\ post.at = "browser" /\ post.code = "OK" => Honest(Result[post.kind])
  BY ViewHonest, OfferFields, PostTyped DEF AnswerInv, ResultInv, Honest, TypeOK, Answer, Result
<1>b. ASSUME NEW e, Honest(e)
      PROVE  /\ e = "ACCEPTED" => status' = "ACCEPTED"
             /\ e = "DECLINED" => status' = "DECLINED"
             /\ e = "EXPIRED" => AnswerNow' = "LAPSED"
  BY <1>b, HonestStays
<1>c. DataSource /\ GetSource
  BY Sources
<1>1. Honest(data'.effective)
  BY <1>a, <1>c DEF DataSource
<1>2. Honest(get'.view.effective)
  BY <1>a, <1>c DEF GetSource
<1>3. Honest(data.effective)' /\ Honest(get.view.effective)'
  BY <1>1, <1>2, <1>b DEF Honest
<1>4. ASSUME data'.effective \in Final, get'.at = "browser", get'.code = "OK"
      PROVE  get'.view.effective # "PENDING"
  <2>1. CASE get' = get /\ data'.effective \in {data.effective, "NONE"}
    BY <1>4, <2>1 DEF AnswerInv, FreshInv, Final
  <2>2. CASE get'.view \in {FullView, NoOffer} /\ data' = data
    <3>1. AnswerNow # "PENDING"
      BY <1>4, <1>a, <2>2 DEF Honest, AnswerNow, Final
    <3> QED
      BY <1>a, <2>2, <3>1, ViewHonest
  <2> QED
    BY <1>4, <1>c, <2>1, <2>2 DEF GetSource
<1> QED
  BY <1>3, <1>4 DEF FreshInv

LEMMA AnswerStep == TypeOK /\ AnswerInv /\ [Next]_vars => AnswerInv'
BY AskedStep, OfferSettles, ResultStep, ReplyStep DEF AnswerInv, SourceInv, ResultInv

LEMMA CutoffStep ==
  ASSUME TypeOK, ClockInv, AnswerInv, [Next]_vars, Past', ~Past, now' < Deadline
  PROVE  data.effective = "NONE"
<1>1. data'.effective = "PENDING"
  BY DEF Past, Open
<1>2. data.effective # "PENDING"
  <2>1. SUFFICES ASSUME Open PROVE FALSE
    BY DEF Open
  <2>2. seen' = seen \/ seen' <= now'
    BY <1>1, <2>1, SeenStep DEF Open
  <2>3. now' \in Int /\ seen' \in Int /\ Deadline \in Int
    BY TypeStep, BoundAssumption DEF TypeOK
  <2> QED
    BY <2>1, <2>2, <2>3 DEF Past
<1>3. data.effective \notin Final
  <2>1. SUFFICES ASSUME data.effective \in Final PROVE FALSE
    OBVIOUS
  <2>2. data'.effective # Result[post.kind]
    BY <1>1, PostTyped DEF TypeOK, Answer, Result
  <2> QED
    BY <1>1, <1>2, <2>1, <2>2, Sources DEF DataSource, AnswerInv, FreshInv
<1> QED
  BY <1>2, <1>3 DEF TypeOK, PublicOffer, OfferStatus, Final

\* Once a page has an open offer, nothing ends its countdown before the server's
\* deadline (useOfferCountdown; OfferPage's merge of replies).
THEOREM EarlyCutoffAtFirstHolds == Spec => EarlyCutoffAtFirstOnly
<1>1. Init => TypeOK /\ ClockInv /\ AnswerInv
  BY TypeInit, ClockInit, AnswerInit
<1>2. TypeOK /\ ClockInv /\ AnswerInv /\ [Next]_vars => TypeOK' /\ ClockInv' /\ AnswerInv'
  BY TypeStep, ClockStep, AnswerStep
<1>3. TypeOK /\ ClockInv /\ AnswerInv /\ [Next]_vars
      => [Past' /\ ~Past /\ now' < Deadline => data.effective = "NONE"]_vars
  BY CutoffStep
<1> QED
  BY <1>1, <1>2, <1>3, PTL DEF Spec, EarlyCutoffAtFirstOnly

-----------------------------------------------------------------------------
\* The refinement.

\* A result on the screen is the answer.
ShownInv ==
  /\ ShownNow \in {"UNKNOWN", "PENDING", AnswerNow}
  /\ ShownNow \notin {"UNKNOWN", "PENDING"} => data.effective \in Final
  /\ ShownNow = "PENDING" => data.effective = "PENDING" \/ AnswerNow = "PENDING"

LEMMA ShownIsAnswer == TypeOK /\ AnswerInv => ShownInv
<1> SUFFICES ASSUME TypeOK, AnswerInv PROVE ShownInv
  OBVIOUS
<1>1. View \in OfferStatus => View = data.effective
  BY DEF View, OfferStatus
<1>2. Honest(data.effective) /\ (status = "PENDING" => source = "UNSET")
      /\ (source = "CROSS_ACTIVITY" => status = "DECLINED")
  BY DEF AnswerInv, ResultInv, SourceInv
<1> QED
  BY <1>1, <1>2 DEF ShownInv, ShownNow, AnswerNow, Honest, Overdue, OfferStatus, Final

LEMMA RefineInit == Init => Promise!AnswerInit
BY OfferFields, BoundAssumption
   DEF Init, Promise!AnswerInit, AnswerNow, ShownNow, View, Overdue, OfferStatus

\* A step of the offer alone settles it, or nothing.
LEMMA RefineSettle ==
  ASSUME TypeOK, AnswerInv, [Next]_vars, UNCHANGED <<data, error, asked>>
  PROVE  Promise!Settle \/ UNCHANGED <<AnswerNow, asked, ShownNow>>
<1>1. View' = View /\ (View \in OfferStatus => View = data.effective)
  BY DEF View, OfferStatus
<1>2. View = "DECLINED" => status = "DECLINED" /\ status' = "DECLINED" /\ AnswerNow' = AnswerNow
  <2>1. View = "DECLINED" => status = "DECLINED"
    BY <1>1 DEF AnswerInv, ResultInv, Honest, OfferStatus
  <2>2. status = "DECLINED" => AnswerNow # "PENDING"
    BY DEF AnswerNow
  <2> QED
    BY <2>1, <2>2, OfferSettles
<1>3. ShownNow' = ShownNow
  BY <1>1, <1>2 DEF ShownNow
<1> QED
  BY <1>3, OfferSettles DEF Promise!Settle

\* The candidate's confirmations.
LEMMA RefineConfirm ==
  ASSUME NEW a \in Answer, asked' = asked \cup {Result[a]},
         UNCHANGED <<status, source, now, data, error>>
  PROVE  Promise!Confirm
<1>1. Result[a] \in {"ACCEPTED", "DECLINED"}
  BY DEF Answer, Result
<1>2. AnswerNow' = AnswerNow /\ ShownNow' = ShownNow
  BY DEF AnswerNow, ShownNow, View, Overdue
<1> QED
  BY <1>1, <1>2 DEF Promise!Confirm

\* Whatever the page takes into its cache.
LEMMA RefineShow ==
  ASSUME TypeOK, AnswerInv, [Next]_vars, UNCHANGED <<status, source, now, asked>>
  PROVE  Promise!Show
<1>1. TypeOK' /\ AnswerInv'
  BY TypeStep, AnswerStep
<1>2. AnswerNow' = AnswerNow
  BY DEF AnswerNow, Overdue
<1>3. /\ ShownNow' \in {"UNKNOWN", "PENDING", AnswerNow}
      /\ ShownNow' = "PENDING" => data'.effective = "PENDING" \/ AnswerNow = "PENDING"
  <2>1. ShownInv'
    BY <1>1, ShownIsAnswer, PTL
  <2> QED
    BY <1>2, <2>1 DEF ShownInv
<1>4. ASSUME ShownNow \in Promise!Final
      PROVE  ShownNow = AnswerNow /\ ShownNow' # "PENDING"
  <2>1. ShownNow = AnswerNow /\ data.effective \in Final /\ AnswerNow # "PENDING"
    BY <1>4, ShownIsAnswer DEF ShownInv, Promise!Final
  <2>2. data'.effective # "PENDING"
    <3>1. CASE data'.effective \in {data.effective, "NONE"}
      BY <2>1, <3>1 DEF Final
    <3>2. CASE post.kind \in Answer /\ data'.effective = Result[post.kind]
      BY <3>2 DEF Answer, Result
    <3>3. CASE get.at = "browser" /\ get.code = "OK" /\ data' = get.view
      BY <2>1, <3>3 DEF AnswerInv, FreshInv
    <3> QED
      BY <3>1, <3>2, <3>3, Sources, PostTyped DEF DataSource, TypeOK
  <2> QED
    BY <1>3, <2>1, <2>2
<1> QED
  BY <1>2, <1>3, <1>4 DEF Promise!Show, Promise!Final

LEMMA RefineStep ==
  ASSUME TypeOK, AnswerInv, [Next]_vars
  PROVE  [Promise!Confirm \/ Promise!Settle \/ Promise!Show]_<<AnswerNow, asked, ShownNow>>
<1> DEFINE Goal == [Promise!Confirm \/ Promise!Settle \/ Promise!Show]_<<AnswerNow, asked, ShownNow>>
<1>1. CASE UNCHANGED <<data, error, asked>>
  BY <1>1, RefineSettle
<1>2. CASE UNCHANGED <<status, source, now, asked>>
  BY <1>2, RefineShow
<1>3. CASE \E a \in Answer : ConfirmDialog(a) \/ OtherTab(a)
  BY <1>3, RefineConfirm DEF ConfirmDialog, OtherTab, serverVars
<1>4. ASSUME \/ PassTime \/ Server \/ ServeGet \/ LoseGet \/ ServePost \/ LosePost
             \/ (\E a \in Answer : ServeOrphan(a)) \/ ServeFeedback \/ LoseFeedback
             \/ (\E a \in Answer : OpenDialog(a)) \/ CloseDialog \/ TypeWord \/ SubmitReason
             \/ Heartbeat \/ Calibrate \/ TabVisible \/ UNCHANGED vars
      PROVE  UNCHANGED <<data, error, asked>>
  BY <1>4 DEF PassTime, Server, ServeGet, LoseGet, ServePost, LosePost, ServeOrphan, ServeFeedback,
     LoseFeedback, OpenDialog, CloseDialog, TypeWord, SubmitReason, Heartbeat, Calibrate,
     TabVisible, TakeOffset, vars
<1>5. ASSUME ReceiveGet \/ ActionSucceeds \/ ActionFails \/ ReceiveFeedback \/ Retry \/ Reload
      PROVE  UNCHANGED <<status, source, now, asked>>
  BY <1>5 DEF ReceiveGet, ActionSucceeds, ActionFails, ReceiveFeedback, Retry, Reload, serverVars
<1> HIDE DEF Goal
<1>6. Goal
  BY <1>1, <1>2, <1>3, <1>4, <1>5, Steps, Zenon DEF Goal
<1> QED
  BY <1>6 DEF Goal

\* The page keeps the promise of OfferAnswer: at most one final answer, one the
\* candidate confirmed (or the offer lapses), and no result on the screen that
\* is not that answer or that another one replaces.
THEOREM OneAnswerHolds == Spec => OneAnswer
<1>1. Init => TypeOK /\ AnswerInv
  BY TypeInit, AnswerInit
<1>2. TypeOK /\ AnswerInv /\ [Next]_vars => TypeOK' /\ AnswerInv'
  BY TypeStep, AnswerStep
<1>3. TypeOK /\ AnswerInv /\ [Next]_vars
      => [Promise!Confirm \/ Promise!Settle \/ Promise!Show]_<<AnswerNow, asked, ShownNow>>
  BY RefineStep
<1>4. Init => Promise!AnswerInit
  BY RefineInit
<1> QED
  BY <1>1, <1>2, <1>3, <1>4, PTL
     DEF Spec, OneAnswer, Promise!AnswerSpec, Promise!answerVars
===============================================================================
