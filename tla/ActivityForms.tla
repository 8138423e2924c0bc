----------------------------- MODULE ActivityForms -----------------------------
(***************************************************************************)
(* The writes of the activity workspace (pages/activity/), one record per  *)
(* dialog, card or button, and its pages.                                  *)
(***************************************************************************)
EXTENDS Forms

\* candidates
EditScore ==
  [Plain EXCEPT !.page = "candidates", !.rows = TRUE,
                !.enabled = {"writable", "unfrozen"}, !.checked = {"writable", "unfrozen"}]

\* ranking
RecalculateRanking ==
  [Plain EXCEPT !.page = "ranking", !.enabled = {"writable", "unfrozen"}]
TieOrder ==
  [Plain EXCEPT !.page = "ranking", !.rows = TRUE, !.modal = FALSE, !.perRow = TRUE,
                !.enabled = {"writable", "unfrozen"}]

\* offers
BatchIssue == [Plain EXCEPT !.page = "offers", !.shown = {"BATCH", "frozen"}]
ManualIssue ==
  [Plain EXCEPT !.page = "offers", !.enabled = {"writable", "MANUAL", "frozen"}]
SpecialIssue == [Plain EXCEPT !.page = "offers", !.role = "OWNER", !.rows = TRUE]
ResendOfferMail == [Plain EXCEPT !.page = "offers", !.rows = TRUE]
\* The card is gone as soon as the ranking is frozen, its dialog with it. It is
\* rendered for administrators too, whom the server refuses.
StartAdmission ==
  [Plain EXCEPT !.page = "offers", !.shown = {"unfrozen"}, !.checked = {"writable"},
                !.gives = {"frozen"}, !.takes = {"unfrozen"}]
PauseRefill ==
  [Plain EXCEPT !.page = "offers", !.role = "OWNER", !.shown = {"AUTO", "frozen", "running"},
                !.gives = {"paused"}, !.takes = {"running"}]
\* A pause by the platform hides the button; such a resume is refused.
ResumeRefill ==
  [Plain EXCEPT !.page = "offers", !.role = "OWNER", !.shown = {"AUTO", "paused"},
                !.gives = {"running"}, !.takes = {"paused"}]

\* mail
RetryMail == [Plain EXCEPT !.page = "mail", !.rows = TRUE, !.modal = FALSE]

\* members: the button of a row resends at once.
InviteMember ==
  [Plain EXCEPT !.page = "members", !.role = "OWNER", !.closes = FALSE, !.clears = {}]
ResendMemberInvitation ==
  [Plain EXCEPT !.page = "members", !.role = "OWNER", !.rows = TRUE, !.modal = FALSE]
DisableMember == [Plain EXCEPT !.page = "members", !.role = "OWNER", !.rows = TRUE]

\* importTokens: a dismissed dialog keeps the name it was given.
CreateImportToken ==
  [Plain EXCEPT !.page = "importTokens", !.role = "OWNER", !.clears = {"success"}]
RevokeImportToken == [Plain EXCEPT !.page = "importTokens", !.role = "OWNER", !.rows = TRUE]

\* settings: cards with a button of their own; the mode is locked by the start.
SaveQuota == [Plain EXCEPT !.page = "settings", !.role = "OWNER", !.modal = FALSE]
SwitchMode(mode) ==
  [Plain EXCEPT !.page = "settings", !.role = "OWNER", !.modal = FALSE,
                !.enabled = {"writable", "unfrozen"},
                !.gives = {mode}, !.takes = Mode \ {mode}]
SaveSuccessMessage == [Plain EXCEPT !.page = "settings", !.modal = FALSE]
ArchiveActivity ==
  [Plain EXCEPT !.page = "settings", !.role = "OWNER", !.takes = {"writable"}]

\* smtp: the form is built anew for every configuration version; a test
\* refreshes nothing.
SaveActivitySmtp ==
  [Plain EXCEPT !.page = "smtp", !.role = "OWNER", !.modal = FALSE, !.nested = TRUE]
TestActivitySmtp ==
  [Plain EXCEPT !.page = "smtp", !.role = "OWNER", !.modal = FALSE, !.nested = TRUE,
                !.refreshes = FALSE]

ActivityForm ==
  [editScore |-> EditScore, recalculateRanking |-> RecalculateRanking, tieOrder |-> TieOrder,
   batchIssue |-> BatchIssue, manualIssue |-> ManualIssue, specialIssue |-> SpecialIssue,
   resendOfferMail |-> ResendOfferMail, startAdmission |-> StartAdmission,
   pauseRefill |-> PauseRefill, resumeRefill |-> ResumeRefill, retryMail |-> RetryMail,
   inviteMember |-> InviteMember, resendMemberInvitation |-> ResendMemberInvitation,
   disableMember |-> DisableMember, createImportToken |-> CreateImportToken,
   revokeImportToken |-> RevokeImportToken, saveQuota |-> SaveQuota,
   switchToAuto |-> SwitchMode("AUTO"), switchToBatch |-> SwitchMode("BATCH"),
   switchToManual |-> SwitchMode("MANUAL"), saveSuccessMessage |-> SaveSuccessMessage,
   archiveActivity |-> ArchiveActivity, saveActivitySmtp |-> SaveActivitySmtp,
   testActivitySmtp |-> TestActivitySmtp]

-----------------------------------------------------------------------------
\* The pages. All are behind the gate and under the key of the activity; some
\* fetch a list of their own, two of these for the owner only.
ListPage == [console |-> "activity", key |-> "activity", lists |-> TRUE, ownerOnly |-> FALSE]
OwnerPage == [ListPage EXCEPT !.ownerOnly = TRUE]
CardPage == [ListPage EXCEPT !.lists = FALSE]

CandidatesPage == ListPage
RankingPage == ListPage
OffersPage == ListPage
MailTasksPage == ListPage
MembersPage == ListPage
ImportTokensPage == OwnerPage
ActivitySmtpPage == OwnerPage
AuditLogsPage == OwnerPage
ActivitySettingsPage == CardPage
DashboardPage == CardPage

ActivityPage ==
  [candidates |-> CandidatesPage, ranking |-> RankingPage, offers |-> OffersPage,
   mail |-> MailTasksPage, members |-> MembersPage, smtp |-> ActivitySmtpPage,
   importTokens |-> ImportTokensPage, audit |-> AuditLogsPage,
   settings |-> ActivitySettingsPage, dashboard |-> DashboardPage]
===============================================================================
