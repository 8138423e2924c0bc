------------------------------ MODULE OfferAnswer ------------------------------
(***************************************************************************)
(* What the candidate's offer page promises, whatever the browser, the     *)
(* network and the deadline do: one offer gets at most one final answer,   *)
(* it is one the candidate confirmed (or the system's own), and a result   *)
(* the page shows is that answer and is not replaced by another one.       *)
(***************************************************************************)

VARIABLES
  answer,  \* the offer's answer: "PENDING" or one of Final
  asked,   \* the answers the candidate has confirmed so far, in any tab
  shown    \* what the page shows: an answer, "PENDING", or "UNKNOWN"

answerVars == <<answer, asked, shown>>

\* "LAPSED": expired, or released by an acceptance elsewhere.
Final == {"ACCEPTED", "DECLINED", "LAPSED"}

AnswerInit ==
  /\ answer = "PENDING"
  /\ asked = {}
  /\ shown = "UNKNOWN"

\* The candidate confirms an answer.
Confirm ==
  /\ \E a \in {"ACCEPTED", "DECLINED"} : asked' = asked \cup {a}
  /\ UNCHANGED <<answer, shown>>

\* The open offer gets its final answer: a confirmed one, or it lapses.
Settle ==
  /\ answer = "PENDING"
  /\ answer' \in asked \cup {"LAPSED"}
  /\ UNCHANGED <<asked, shown>>

\* The page may forget what it showed; it learns nothing but the answer, or,
\* as long as it has shown no result, that the offer was open.
Show ==
  /\ shown' \in {"UNKNOWN", answer} \cup (IF shown \in Final THEN {} ELSE {"PENDING"})
  /\ shown \in Final => shown' \in {"UNKNOWN", shown}
  /\ UNCHANGED <<answer, asked>>

AnswerSpec == AnswerInit /\ [][Confirm \/ Settle \/ Show]_answerVars
===============================================================================
