--------------------------- MODULE SingleAcceptance ---------------------------
(***************************************************************************)
(* What the admission promises, whatever is issued, refilled, paused,      *)
(* disabled or cut off meanwhile: an activity never has more students than *)
(* its size; a student takes one seat at most, out of the offers open to   *)
(* her, and keeps it; taking it closes all her other offers in the same    *)
(* step, and apart from that no activity touches the offers of another.    *)
(***************************************************************************)
EXTENDS Integers, FiniteSets

CONSTANTS
  Student,
  Activity,
  Sizes      \* the sizes an activity may have

VARIABLES
  size,  \* how many students each activity may have
  open,  \* the activities each student holds an open offer of
  seat   \* the activities each student has accepted: none or one

admissionVars == <<size, open, seat>>

Holders(a) == {s \in Student : a \in open[s] \cup seat[s]}

AdmissionInit ==
  /\ size \in [Activity -> Sizes]
  /\ open = [s \in Student |-> {}]
  /\ seat = [s \in Student |-> {}]

\* Activity a closes some of its open offers and makes new ones, to students
\* who have no seat anywhere.
Issue(a) ==
  \E closed, made \in SUBSET Student :
    /\ \A s \in closed : a \in open[s]
    /\ \A s \in made : a \notin open[s] /\ seat[s] = {}
    /\ Cardinality((Holders(a) \ closed) \cup made) <= size[a]
    /\ open' = [s \in Student |->
         (open[s] \ (IF s \in closed THEN {a} ELSE {}))
           \cup (IF s \in made THEN {a} ELSE {})]
    /\ UNCHANGED <<size, seat>>

\* A student takes a seat she was offered; all her offers are closed.
Take(s) ==
  /\ seat[s] = {}
  /\ \E a \in open[s] : seat' = [seat EXCEPT ![s] = {a}]
  /\ open' = [open EXCEPT ![s] = {}]
  /\ UNCHANGED size

Resize(a) ==
  /\ \E n \in Sizes : Cardinality(Holders(a)) <= n /\ size' = [size EXCEPT ![a] = n]
  /\ UNCHANGED <<open, seat>>

AdmissionNext ==
  \/ \E a \in Activity : Issue(a) \/ Resize(a)
  \/ \E s \in Student : Take(s)

AdmissionSpec == AdmissionInit /\ [][AdmissionNext]_admissionVars
===============================================================================
