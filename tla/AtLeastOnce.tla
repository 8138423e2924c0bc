------------------------------ MODULE AtLeastOnce ------------------------------
(***************************************************************************)
(* What the mail queue promises, without workers, leases, rechecks,        *)
(* retries and pacing.  A queued mail comes to one end: sent, failed or    *)
(* cancelled.  It is sent only with a copy delivered, and cancelled only   *)
(* when it was unwanted at some time since it was queued; only a failed    *)
(* one is queued again.  A copy is delivered on a credit: a mail starts    *)
(* with one, and gets another only while it is queued, each time whoever   *)
(* was to deliver it is given up.                                          *)
(***************************************************************************)
EXTENDS Integers

CONSTANT Mail

VARIABLES
  fate,     \* "NONE" before it is queued, "QUEUED", or its end
  copies,   \* the copies delivered
  credit,   \* the copies that may still be delivered
  unwanted  \* the mails nobody wanted at some time since they were queued

mailVars == <<fate, copies, credit, unwanted>>

Fate == {"NONE", "QUEUED", "SENT", "FAILED", "CANCELLED"}

MailInit ==
  /\ fate = [m \in Mail |-> "NONE"]
  /\ copies = [m \in Mail |-> 0]
  /\ credit = [m \in Mail |-> 1]
  /\ unwanted = {}

Moves(m, from, to) ==
  /\ fate[m] = from /\ fate' = [fate EXCEPT ![m] = to]
  /\ UNCHANGED <<copies, credit, unwanted>>
\* A mail may be unwanted from the start.
Queue(m) ==
  /\ fate[m] = "NONE" /\ fate' = [fate EXCEPT ![m] = "QUEUED"]
  /\ unwanted' \in {unwanted, unwanted \cup {m}}
  /\ UNCHANGED <<copies, credit>>
Confirm(m) == copies[m] > 0 /\ Moves(m, "QUEUED", "SENT")
GiveUp(m) == Moves(m, "QUEUED", "FAILED")
SendAgain(m) == Moves(m, "FAILED", "QUEUED")

\* Subjects are closed, and mails that need not be sent any more are cancelled.
Withdraw ==
  /\ unwanted \subseteq unwanted' /\ \A m \in unwanted' \ unwanted : fate[m] # "NONE"
  /\ fate' \in [Mail -> Fate]
  /\ \A m \in Mail : \/ fate'[m] = fate[m]
                     \/ fate[m] = "QUEUED" /\ fate'[m] = "CANCELLED" /\ m \in unwanted'
  /\ UNCHANGED <<copies, credit>>

\* Those at work on some queued mails are given up: these may be delivered anew.
Allow ==
  /\ credit' \in [Mail -> Int]
  /\ \A m \in Mail : \/ credit'[m] = credit[m]
                     \/ fate[m] = "QUEUED" /\ credit'[m] = credit[m] + 1
  /\ UNCHANGED <<fate, copies, unwanted>>

\* A copy is delivered, maybe by somebody who was given up, maybe after the mail
\* has come to its end.
Delivers(m) ==
  /\ fate[m] # "NONE"
  /\ copies' = [copies EXCEPT ![m] = @ + 1]
  /\ UNCHANGED <<fate, unwanted>>
Deliver(m) == credit[m] > 0 /\ Delivers(m) /\ credit' = [credit EXCEPT ![m] = @ - 1]
\* One that its sender takes for a failure does not count.
DeliverUnnoticed(m) == Delivers(m) /\ UNCHANGED credit

MailNext ==
  \/ Withdraw \/ Allow
  \/ \E m \in Mail : \/ Queue(m) \/ Confirm(m) \/ GiveUp(m) \/ SendAgain(m)
                     \/ Deliver(m) \/ DeliverUnnoticed(m)
MailSpec == MailInit /\ [][MailNext]_mailVars
===============================================================================
