----------------------------- MODULE MCAdmission -----------------------------
(***************************************************************************)
(* Instances of Admission for TLC.                                         *)
(*                                                                         *)
(* Shared: two activities; c1 applies to a1 only, c2 to both.              *)
(* Solo:   one activity, three candidates.                                 *)
(* Pair:   the same activity with its first two candidates.                *)
(***************************************************************************)
EXTENDS Admission, TLC

CONSTANTS a1, a2, c1, c2, c3, x1, x2, x3, y2

\* a1 is AUTO, a2 any mode, one seat each: linkage, late refills, lifecycle.
SharedActivity == {a1, a2}
SharedCandidate == {c1, c2}
SharedApplication == {x1, x2, y2}
SharedActivityOf == x1 :> a1 @@ x2 :> a1 @@ y2 :> a2
SharedCandidateOf == x1 :> c1 @@ x2 :> c2 @@ y2 :> c2
SharedRankOf == x1 :> 1 @@ x2 :> 2 @@ y2 :> 1
SharedModes == a1 :> {"AUTO"} @@ a2 :> {"AUTO", "MANUAL", "BATCH"}
SharedQuotas == [a \in SharedActivity |-> {1}]

\* Every mode, a quota that moves between one and two, re-issued offers.
SoloActivity == {a1}
SoloCandidate == {c1, c2, c3}
SoloApplication == {x1, x2, x3}
SoloActivityOf == x1 :> a1 @@ x2 :> a1 @@ x3 :> a1
SoloCandidateOf == x1 :> c1 @@ x2 :> c2 @@ x3 :> c3
SoloRankOf == x1 :> 1 @@ x2 :> 2 @@ x3 :> 3
SoloModes == a1 :> {"AUTO", "MANUAL", "BATCH"}
SoloQuotas == a1 :> {1, 2}

PairCandidate == {c1, c2}
PairApplication == {x1, x2}
PairActivityOf == x1 :> a1 @@ x2 :> a1
PairCandidateOf == x1 :> c1 @@ x2 :> c2
PairRankOf == x1 :> 1 @@ x2 :> 2
PairModes == a1 :> {"AUTO"}
=============================================================================
