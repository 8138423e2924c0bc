----------------------------- MODULE PlatformForms -----------------------------
(***************************************************************************)
(* The writes of the platform console (pages/platform/) and its pages.     *)
(* Nothing here looks at one activity's facts.                             *)
(***************************************************************************)
EXTENDS Forms

PlatformPlain == [Plain EXCEPT !.role = "SUPER_ADMIN", !.enabled = {}]

\* activities: disable and re-activate share a dialog about the row it was
\* opened for.
SetActivityStatus == [PlatformPlain EXCEPT !.page = "activities", !.rows = TRUE]
PauseAllRefills == [PlatformPlain EXCEPT !.page = "activities"]
\* Closing clears its error messages, not its fields.
CreateActivity == [PlatformPlain EXCEPT !.page = "activities", !.clears = {"success"}]

\* activities and owners: opened by a row, but the activity is a field of the
\* form, which nothing resets: the handler that would is only called to close.
OwnerInvite(page) ==
  [PlatformPlain EXCEPT !.page = page, !.rows = TRUE, !.closes = FALSE, !.asks = TRUE,
                        !.clears = {}]

\* owners
ResendOwnerInvitation ==
  [PlatformPlain EXCEPT !.page = "owners", !.rows = TRUE, !.modal = FALSE, !.refreshes = FALSE]
DisableOwner == [PlatformPlain EXCEPT !.page = "owners", !.rows = TRUE]

\* platformSettings: all parameters in one write.
SavePlatformSettings ==
  [PlatformPlain EXCEPT !.page = "platformSettings", !.modal = FALSE, !.nested = TRUE]

\* platformSmtp
SavePlatformSmtp == [PlatformPlain EXCEPT !.page = "platformSmtp", !.modal = FALSE, !.nested = TRUE]
TestPlatformSmtp ==
  [PlatformPlain EXCEPT !.page = "platformSmtp", !.modal = FALSE, !.nested = TRUE,
                        !.refreshes = FALSE]

PlatformForm ==
  [setActivityStatus |-> SetActivityStatus, pauseAllRefills |-> PauseAllRefills,
   createActivity |-> CreateActivity, ownerInvite |-> OwnerInvite("activities"),
   ownerInviteAgain |-> OwnerInvite("owners"),
   resendOwnerInvitation |-> ResendOwnerInvitation, disableOwner |-> DisableOwner,
   savePlatformSettings |-> SavePlatformSettings, savePlatformSmtp |-> SavePlatformSmtp,
   testPlatformSmtp |-> TestPlatformSmtp]

\* The pages; activities and owners read the same list.
PlatformPage(key) ==
  [console |-> "platform", key |-> key, lists |-> TRUE, ownerOnly |-> FALSE]
ActivityListPage == PlatformPage("activities")
OwnerManagePage == PlatformPage("activities")
PlatformSettingsPage == PlatformPage("platformSettings")
PlatformSmtpPage == PlatformPage("platformSmtp")

PlatformPages ==
  [activities |-> ActivityListPage, owners |-> OwnerManagePage,
   platformSettings |-> PlatformSettingsPage, platformSmtp |-> PlatformSmtpPage]
===============================================================================
