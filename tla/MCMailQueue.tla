----------------------------- MODULE MCMailQueue -----------------------------
(***************************************************************************)
(* Instances of MailQueue for TLC.                                         *)
(*                                                                         *)
(* Race: two workers compete for the mail of one offer.                    *)
(* Solo: one worker, the mail of an offer and the mail of an invitation.   *)
(***************************************************************************)
EXTENDS MailQueue, TLC

CONSTANTS w1, w2, m1, m2, offer1, invite1

RaceWorker == {w1, w2}
RaceTask == {m1}
RaceSubject == {offer1}
RaceSubjectOf == m1 :> offer1
Symmetric == Permutations(RaceWorker)

SoloWorker == {w1}
SoloTask == {m1, m2}
SoloSubject == {offer1, invite1}
SoloSubjectOf == m1 :> offer1 @@ m2 :> invite1

MCOffer == {offer1}
MCIdOf == [t \in Task |-> IF t = m1 THEN 1 ELSE 2]
=============================================================================
