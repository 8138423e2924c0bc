--------------------------------- MODULE Forms ---------------------------------
(***************************************************************************)
(* The shape shared by all writes the consoles offer: a button, or a       *)
(* dialog around it, with one mutation behind it.  What differs from one   *)
(* to the next is in a record of Form; ActivityForms and PlatformForms     *)
(* give one record per component of the source, Console what they do.      *)
(***************************************************************************)
EXTENDS FiniteSets

\* What the dashboard's reply says of the activity, and the forms look at.
Mode == {"AUTO", "BATCH", "MANUAL"}
Fact == Mode \cup {"frozen", "unfrozen", "paused", "running", "writable"}

\* The ways a dialog loses what was typed into it.
Clearing == {"dismiss", "cancel", "success"}

Form ==
  [page : STRING,          \* where it is
   role : {"OWNER", "ADMIN", "SUPER_ADMIN"},  \* the least role it is shown to
   shown : SUBSET Fact,    \* it is rendered only when these hold
   enabled : SUBSET Fact,  \* ... and can be opened or pressed only when these do
   checked : SUBSET Fact,  \* ... and its dialog looks at these once more
   rows : BOOLEAN,         \* it is about a row of the list
   modal : BOOLEAN,        \* a dialog comes first
   nested : BOOLEAN,       \* its component lives inside the loaded list
   perRow : BOOLEAN,       \* only the row last sent is locked while it waits
   closes : BOOLEAN,       \* a success closes the dialog
   asks : BOOLEAN,         \* the row is a field of the form itself
   clears : SUBSET Clearing,
   refreshes : BOOLEAN,    \* a success invalidates the queries of its page
   gives : SUBSET Fact, takes : SUBSET Fact]  \* what the write does to the facts

\* The common case: a dialog that locks itself while it waits, closes and
\* refreshes on success and stays open, with its text, on failure.
Plain ==
  [page |-> "nowhere", role |-> "ADMIN", shown |-> {}, enabled |-> {"writable"}, checked |-> {},
   rows |-> FALSE, modal |-> TRUE, nested |-> FALSE, perRow |-> FALSE, closes |-> TRUE,
   asks |-> FALSE, clears |-> {"dismiss", "success"}, refreshes |-> TRUE,
   gives |-> {}, takes |-> {}]

\* A page: its console, and the root of the keys its list is cached under.
Page == [console : {"activity", "platform"}, key : STRING, lists : BOOLEAN,
         ownerOnly : BOOLEAN]
===============================================================================
