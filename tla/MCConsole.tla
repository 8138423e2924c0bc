------------------------------- MODULE MCConsole -------------------------------
(***************************************************************************)
(* An owner before the start, on two pages of the workspace: a card that   *)
(* goes with the facts, a confirmation about a row, a direct button and an *)
(* invitation dialog.  And the platform's activity list with two rows, for *)
(* the invitation of an owner.                                             *)
(***************************************************************************)
EXTENDS Console
MCStarts == {{"AUTO", "unfrozen", "running", "writable"}}
MCRow == {"r1"}
MCForms == {"startAdmission", "resendOfferMail", "resendMemberInvitation", "inviteMember"}
MCKept == {"inviteMember"}
MCPages == {"offers", "members"}
MCOwner == {"OWNER"}
MCSlots == {1}

MCTwoRows == {"r1", "r2"}
MCInvite == {"ownerInvite"}
MCActivities == {"activities"}
MCAdmin == {"SUPER_ADMIN"}
===============================================================================
