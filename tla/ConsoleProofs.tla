----------------------------- MODULE ConsoleProofs -----------------------------
(***************************************************************************)
(* What holds of Console for every choice of pages, forms, rows, accounts, *)
(* slots and bounds: the types, that a page at rest shows this tab's own   *)
(* writes, and that a reply finds the dialog it was sent from.             *)
(***************************************************************************)
EXTENDS Console, TLAPS

-----------------------------------------------------------------------------
\* What the tables of ActivityForms and PlatformForms have in common: no form is
\* called "none", a form with a dialog is locked for all rows while it waits, and
\* every write but the silent ones refreshes.
Shaped(n, f) ==
  n # "none" /\ (f.modal => ~f.perRow) /\ (n \notin Silent => f.refreshes)

LEMMA ActivityShapes == \A n \in DOMAIN ActivityForm : Shaped(n, ActivityForm[n])
<1>1. DOMAIN ActivityForm =
       {"editScore", "recalculateRanking", "tieOrder", "batchIssue",
        "manualIssue", "specialIssue", "resendOfferMail", "startAdmission",
        "pauseRefill", "resumeRefill", "retryMail", "inviteMember",
        "resendMemberInvitation", "disableMember", "createImportToken",
        "revokeImportToken", "saveQuota", "switchToAuto", "switchToBatch",
        "switchToManual", "saveSuccessMessage", "archiveActivity",
        "saveActivitySmtp", "testActivitySmtp"}
  BY DEF ActivityForm
<1>2. /\ ActivityForm["editScore"] = EditScore
      /\ ActivityForm["recalculateRanking"] = RecalculateRanking
      /\ ActivityForm["tieOrder"] = TieOrder
      /\ ActivityForm["batchIssue"] = BatchIssue
      /\ ActivityForm["manualIssue"] = ManualIssue
      /\ ActivityForm["specialIssue"] = SpecialIssue
      /\ ActivityForm["resendOfferMail"] = ResendOfferMail
      /\ ActivityForm["startAdmission"] = StartAdmission
      /\ ActivityForm["pauseRefill"] = PauseRefill
      /\ ActivityForm["resumeRefill"] = ResumeRefill
      /\ ActivityForm["retryMail"] = RetryMail
      /\ ActivityForm["inviteMember"] = InviteMember
      /\ ActivityForm["resendMemberInvitation"] = ResendMemberInvitation
      /\ ActivityForm["disableMember"] = DisableMember
      /\ ActivityForm["createImportToken"] = CreateImportToken
      /\ ActivityForm["revokeImportToken"] = RevokeImportToken
      /\ ActivityForm["saveQuota"] = SaveQuota
      /\ ActivityForm["switchToAuto"] = SwitchMode("AUTO")
      /\ ActivityForm["switchToBatch"] = SwitchMode("BATCH")
      /\ ActivityForm["switchToManual"] = SwitchMode("MANUAL")
      /\ ActivityForm["saveSuccessMessage"] = SaveSuccessMessage
      /\ ActivityForm["archiveActivity"] = ArchiveActivity
      /\ ActivityForm["saveActivitySmtp"] = SaveActivitySmtp
      /\ ActivityForm["testActivitySmtp"] = TestActivitySmtp
  BY DEF ActivityForm
<1>3. /\ Shaped("editScore", EditScore)
      /\ Shaped("recalculateRanking", RecalculateRanking)
      /\ Shaped("tieOrder", TieOrder)
      /\ Shaped("batchIssue", BatchIssue)
      /\ Shaped("manualIssue", ManualIssue)
      /\ Shaped("specialIssue", SpecialIssue)
      /\ Shaped("resendOfferMail", ResendOfferMail)
      /\ Shaped("startAdmission", StartAdmission)
      /\ Shaped("pauseRefill", PauseRefill)
      /\ Shaped("resumeRefill", ResumeRefill)
      /\ Shaped("retryMail", RetryMail)
      /\ Shaped("inviteMember", InviteMember)
      /\ Shaped("resendMemberInvitation", ResendMemberInvitation)
      /\ Shaped("disableMember", DisableMember)
      /\ Shaped("createImportToken", CreateImportToken)
      /\ Shaped("revokeImportToken", RevokeImportToken)
      /\ Shaped("saveQuota", SaveQuota)
      /\ Shaped("switchToAuto", SwitchMode("AUTO"))
      /\ Shaped("switchToBatch", SwitchMode("BATCH"))
      /\ Shaped("switchToManual", SwitchMode("MANUAL"))
      /\ Shaped("saveSuccessMessage", SaveSuccessMessage)
      /\ Shaped("archiveActivity", ArchiveActivity)
      /\ Shaped("saveActivitySmtp", SaveActivitySmtp)
      /\ Shaped("testActivitySmtp", TestActivitySmtp)
  BY DEF Shaped, Silent, Plain, EditScore, RecalculateRanking, TieOrder, BatchIssue,
     ManualIssue, SpecialIssue, ResendOfferMail, StartAdmission, PauseRefill,
     ResumeRefill, RetryMail, InviteMember, ResendMemberInvitation, DisableMember,
     CreateImportToken, RevokeImportToken, SaveQuota, SwitchMode, SaveSuccessMessage,
     ArchiveActivity, SaveActivitySmtp, TestActivitySmtp
<1> QED  BY <1>1, <1>2, <1>3, Zenon

LEMMA PlatformShapes == \A n \in DOMAIN PlatformForm : Shaped(n, PlatformForm[n])
<1>1. DOMAIN PlatformForm =
       {"setActivityStatus", "pauseAllRefills", "createActivity", "ownerInvite",
        "ownerInviteAgain", "resendOwnerInvitation", "disableOwner",
        "savePlatformSettings", "savePlatformSmtp", "testPlatformSmtp"}
  BY DEF PlatformForm
<1>2. /\ PlatformForm["setActivityStatus"] = SetActivityStatus
      /\ PlatformForm["pauseAllRefills"] = PauseAllRefills
      /\ PlatformForm["createActivity"] = CreateActivity
      /\ PlatformForm["ownerInvite"] = OwnerInvite("activities")
      /\ PlatformForm["ownerInviteAgain"] = OwnerInvite("owners")
      /\ PlatformForm["resendOwnerInvitation"] = ResendOwnerInvitation
      /\ PlatformForm["disableOwner"] = DisableOwner
      /\ PlatformForm["savePlatformSettings"] = SavePlatformSettings
      /\ PlatformForm["savePlatformSmtp"] = SavePlatformSmtp
      /\ PlatformForm["testPlatformSmtp"] = TestPlatformSmtp
  BY DEF PlatformForm
<1>3. /\ Shaped("setActivityStatus", SetActivityStatus)
      /\ Shaped("pauseAllRefills", PauseAllRefills)
      /\ Shaped("createActivity", CreateActivity)
      /\ Shaped("ownerInvite", OwnerInvite("activities"))
      /\ Shaped("ownerInviteAgain", OwnerInvite("owners"))
      /\ Shaped("resendOwnerInvitation", ResendOwnerInvitation)
      /\ Shaped("disableOwner", DisableOwner)
      /\ Shaped("savePlatformSettings", SavePlatformSettings)
      /\ Shaped("savePlatformSmtp", SavePlatformSmtp)
      /\ Shaped("testPlatformSmtp", TestPlatformSmtp)
  BY DEF Shaped, Silent, Plain, PlatformPlain, SetActivityStatus, PauseAllRefills,
     CreateActivity, OwnerInvite, ResendOwnerInvitation, DisableOwner,
     SavePlatformSettings, SavePlatformSmtp, TestPlatformSmtp
<1> QED  BY <1>1, <1>2, <1>3, Zenon

LEMMA FormShapes ==
  \A n \in FormNames :
    /\ AllForms[n] \in Form /\ Shaped(n, AllForms[n])
<1>1. \A n \in DOMAIN AllForms : Shaped(n, AllForms[n])
  BY ActivityShapes, PlatformShapes DEF AllForms
<1> QED  BY <1>1, FormsAssumption

LEMMA PageShapes == \A p \in Pages : AllPages[p] \in Page /\ AllPages[p].console \in Scope
  BY FormsAssumption DEF Page, Scope

-----------------------------------------------------------------------------
\* The types, and two facts they rest on: a list is fetched on a page only, and
\* a mutation in flight is one of a form.
ListOnPage == queries["list"].fetch.at # "idle" => page \in Pages
SentForms ==
  \A s \in Slots : (sent[s].at # "idle" => sent[s].form \in FormNames)
                /\ (sent[s].watched => sent[s].at # "idle")
TypeInv == TypeOK /\ ListOnPage /\ SentForms

Places == Pages \cup {Login[scope] : scope \in Scope}
Users == Accounts \cup {"none"}

\* The values a query or a mutation starts from, and what the cache makes of one.
LEMMA QueryShapes ==
  /\ NoQuery \in QueryState /\ NoQuery.fetch.at = "idle" /\ Fetch.at = "server"
  /\ Fetch \in [at : At, code : Code, data : Data]
  /\ \A q \in QueryState : Refetched(q) \in QueryState /\ Restarted(q) \in QueryState
<1>1. NoData \in Data  BY BoundAssumption DEF NoData, Data
<1>2. IdleFetch \in [at : At, code : Code, data : Data]
  BY <1>1 DEF IdleFetch, At, Code
<1>3. Fetch \in [at : At, code : Code, data : Data] /\ Fetch.at = "server"
  BY <1>2 DEF Fetch, At
<1>4. NoQuery \in QueryState /\ NoQuery.fetch.at = "idle"
  BY <1>1, <1>2 DEF NoQuery, QueryState, Code, IdleFetch
<1>5. ASSUME NEW q \in QueryState  PROVE Refetched(q) \in QueryState
  BY <1>3, <1>5 DEF Refetched, QueryState, Code
<1>6. ASSUME NEW q \in QueryState  PROVE Restarted(q) \in QueryState
  BY <1>3, <1>5, <1>6 DEF Restarted, QueryState
<1> QED  BY <1>3, <1>4, <1>5, <1>6

LEMMA AnsweredShape ==
  ASSUME TypeOK, NEW q \in Query
  PROVE  Answered(q) \in QueryState /\ Answered(q).fetch.at = "idle"
<1>1. queries[q] \in QueryState  BY DEF TypeOK
<1>2. IdleFetch \in [at : At, code : Code, data : Data] /\ IdleFetch.at = "idle"
  BY QueryShapes DEF NoQuery, QueryState
<1> QED  BY <1>1, <1>2 DEF Answered, QueryState

LEMMA ListShapes ==
  ASSUME TypeOK, NEW p, NEW account, NEW list \in MountedList(p, account)
  PROVE  list \in QueryState
<1> DEFINE Older == {[version |-> v, facts |-> {}, loaded |-> TRUE] : v \in 0 .. server.version}
<1>1. Older \subseteq Data
  <2>1. server.version \in 0 .. MaxWrites  BY DEF TypeOK
  <2>2. ASSUME NEW v \in 0 .. server.version
        PROVE  [version |-> v, facts |-> {}, loaded |-> TRUE] \in Data
    <3>1. v \in 0 .. MaxWrites  BY <2>1, BoundAssumption
    <3> QED  BY <3>1 DEF Data
  <2> QED  BY <2>2
<1>2. CASE ~Lists(p, account)  BY <1>2, QueryShapes DEF MountedList
<1>3. CASE Lists(p, account)
  <2>1. NoData \in Data /\ "OK" \in Code /\ "browser" \in At
    BY QueryShapes DEF NoQuery, QueryState, Code, At
  <2>2. ASSUME NEW o \in Older
        PROVE  [Fetch EXCEPT !.at = "browser", !.data = o] \in [at : At, code : Code, data : Data]
    BY <1>1, <2>1, <2>2, QueryShapes
  <2>3. list \in [data : Older \cup {NoData}, error : {"OK"},
                  fetch : {Fetch} \cup {[Fetch EXCEPT !.at = "browser", !.data = o] : o \in Older}]
    BY <1>3 DEF MountedList
  <2> HIDE DEF Older
  <2>4. list.data \in Data /\ list.error \in Code
    BY <1>1, <2>1, <2>3
  <2>5. list.fetch \in [at : At, code : Code, data : Data]
    BY <2>2, <2>3, QueryShapes
  <2>6. list = [data |-> list.data, error |-> list.error, fetch |-> list.fetch]
    BY <2>3
  <2> QED  BY <2>4, <2>5, <2>6 DEF QueryState
<1> QED  BY <1>2, <1>3

LEMMA MutationShapes ==
  ASSUME TypeInv
  PROVE  /\ IdleWrite \in Mutation /\ IdleWrite.at = "idle" /\ ~IdleWrite.watched
         /\ Unwatched \in [Slots -> Mutation]
         /\ \A s \in Slots : /\ ~Unwatched[s].watched /\ Unwatched[s].at = sent[s].at
                             /\ Unwatched[s].form = sent[s].form
                             /\ Unwatched[s].version = sent[s].version
         /\ NoDialog \in [form : FormNames \cup {"none"}, row : Rows \cup {NoRow}]
         /\ NoText \in [Kept -> Rows \cup {NoRow, Nothing}]
<1>1. IdleWrite \in Mutation /\ IdleWrite.at = "idle" /\ ~IdleWrite.watched
  BY BoundAssumption DEF IdleWrite, Mutation, At, Code
<1>2. \A s \in Slots : sent[s] \in Mutation  BY DEF TypeInv, TypeOK
<1>3. Unwatched \in [Slots -> Mutation]
  BY <1>2 DEF Unwatched, Mutation
<1>4. \A s \in Slots : /\ ~Unwatched[s].watched /\ Unwatched[s].at = sent[s].at
                       /\ Unwatched[s].form = sent[s].form
                       /\ Unwatched[s].version = sent[s].version
  BY <1>2 DEF Unwatched, Mutation
<1>5. NoDialog \in [form : FormNames \cup {"none"}, row : Rows \cup {NoRow}]
  BY DEF NoDialog
<1>6. NoText \in [Kept -> Rows \cup {NoRow, Nothing}]
  BY DEF NoText
<1> QED  BY <1>1, <1>3, <1>4, <1>5, <1>6

\* A document that is loaded, a path that is entered.
LEMMA LoadTypes ==
  ASSUME TypeInv, NEW p \in Places, Load(p)
  PROVE  TypeInv'
<1>1. /\ page' = p /\ user' = "none" /\ restoring' = TRUE
      /\ dialog' = NoDialog /\ sentTo' = FALSE /\ text' = NoText
      /\ UNCHANGED <<cookies, server>>
  BY DEF Load
<1>2. queries' \in [Query -> QueryState] /\ owed' \in [Query -> 0 .. MaxWrites]
  BY QueryShapes, BoundAssumption DEF Load
<1>3. sent' \in [Slots -> Mutation]  BY MutationShapes DEF Load
<1>4. TypeOK'
  BY <1>1, <1>2, <1>3, MutationShapes DEF TypeInv, TypeOK, Places
<1>5. ListOnPage'  BY QueryShapes DEF ListOnPage, Load, Query
<1>6. SentForms'  BY MutationShapes DEF SentForms, Load
<1> QED  BY <1>4, <1>5, <1>6 DEF TypeInv

LEMMA EnterTypes ==
  ASSUME TypeInv, NEW p \in Places, NEW account \in Users, Enter(p, account),
         restoring' \in BOOLEAN, cookies' \in [Scope -> Users], UNCHANGED server
  PROVE  TypeInv'
<1> DEFINE gate == IF Admitted(p, account) /\ AllPages[p].console = "activity"
                      /\ ~Active("gate")
                   THEN Refetched(queries["gate"]) ELSE queries["gate"]
<1>1. gate \in QueryState
  BY QueryShapes DEF TypeInv, TypeOK, Query
<1>2. /\ queries' \in [Query -> QueryState]
      /\ Admitted(p, account) \/ queries'["list"].fetch.at = "idle"
  <2>1. CASE Admitted(p, account) /\ Passes(p, gate)
    <3>1. PICK list \in MountedList(p, account) : queries' = [gate |-> gate, list |-> list]
      BY <2>1 DEF Enter
    <3>2. list \in QueryState  BY ListShapes DEF TypeInv
    <3> HIDE DEF gate
    <3> QED  BY <1>1, <2>1, <3>1, <3>2 DEF Query
  <2>2. CASE ~(Admitted(p, account) /\ Passes(p, gate))
    <3>1. queries' = [gate |-> gate, list |-> NoQuery]  BY <2>2 DEF Enter
    <3> HIDE DEF gate
    <3> QED  BY <1>1, <3>1, QueryShapes DEF Query
  <2> QED  BY <2>1, <2>2
<1>3. owed' \in [Query -> 0 .. MaxWrites]
  BY BoundAssumption DEF Enter, TypeInv, TypeOK, Query
<1>4. /\ page' = p /\ user' = account /\ dialog' = NoDialog /\ sentTo' = FALSE
      /\ text' = NoText /\ sent' = Unwatched
  BY DEF Enter, ClearContent
<1>5. TypeOK'
  BY <1>2, <1>3, <1>4, MutationShapes DEF TypeInv, TypeOK, Places, Users
<1>6. ListOnPage'  BY <1>2, <1>4 DEF ListOnPage, Admitted
<1>7. SentForms'  BY <1>4, MutationShapes DEF SentForms, TypeInv
<1> QED  BY <1>5, <1>6, <1>7 DEF TypeInv

-----------------------------------------------------------------------------
\* One lemma per kind of action.
LEMMA UnauthorizedTypes ==
  ASSUME TypeInv, NEW scope \in Scope, Unauthorized(scope)
  PROVE  TypeInv'
<1>1. Login[scope] \in Places  BY DEF Places
<1> QED  BY <1>1, LoadTypes DEF Unauthorized

LEMMA SessionTypes == ASSUME TypeInv, Session  PROVE TypeInv'
<1>1. page \in Places /\ user \in Users /\ cookies \in [Scope -> Users]
  BY DEF TypeInv, TypeOK, Places, Users
<1>2. \A account : ScopeOf(account) \in Scope /\ Login[ScopeOf(account)] \in Places
  BY DEF ScopeOf, Scope, Places
<1>3. "none" \in Users /\ Accounts \subseteq Users /\ Pages \subseteq Places
  BY DEF Users, Places
<1>4. CASE Restore
  <2>1. PICK account \in {cookies[scope] : scope \in Scope} \cup {"none"} :
          IF account # "none" THEN Enter(page, account)
          ELSE IF page \in Pages /\ user = "none"
               THEN Enter(Login[AllPages[page].console], "none")
               ELSE UNCHANGED <<user, page, queries, owed, formVars, sent>>
    BY <1>4 DEF Restore
  <2>2. account \in Users  BY <1>1, <1>3
  <2>3. restoring' \in BOOLEAN /\ UNCHANGED <<cookies, server>>  BY <1>4 DEF Restore
  <2>4. CASE account # "none"  BY <1>1, <2>1, <2>2, <2>3, <2>4, EnterTypes
  <2>5. CASE account = "none" /\ page \in Pages /\ user = "none"
    <3>1. Login[AllPages[page].console] \in Places  BY <2>5, PageShapes DEF Places
    <3> QED  BY <1>1, <1>3, <2>1, <2>3, <2>5, <3>1, EnterTypes
  <2>6. CASE UNCHANGED <<user, page, queries, owed, formVars, sent>>
    BY <2>3, <2>6 DEF TypeInv, TypeOK, ListOnPage, SentForms, formVars
  <2> QED  BY <2>1, <2>4, <2>5, <2>6
<1>5. CASE SignOut
  <2>1. cookies' \in [Scope -> Users]  BY <1>1, <1>3, <1>5 DEF SignOut
  <2>2. Enter(Login[ScopeOf(user)], "none") /\ UNCHANGED <<restoring, server>>
    BY <1>5 DEF SignOut
  <2>3. restoring' \in BOOLEAN  BY <2>2 DEF TypeInv, TypeOK
  <2> QED  BY <1>2, <1>3, <2>1, <2>2, <2>3, EnterTypes
<1>6. CASE Reload
  BY <1>1, <1>6, LoadTypes DEF Reload
<1>7. ASSUME NEW account \in Accounts, SignIn(account)  PROVE TypeInv'
  <2>1. PICK p \in Pages : Enter(p, account)  BY <1>7 DEF SignIn
  <2>2. cookies' \in [Scope -> Users]  BY <1>1, <1>3, <1>7 DEF SignIn
  <2>3. UNCHANGED <<restoring, server>>  BY <1>7 DEF SignIn
  <2>4. restoring' \in BOOLEAN  BY <2>3 DEF TypeInv, TypeOK
  <2> QED  BY <1>3, <2>1, <2>2, <2>3, <2>4, EnterTypes
<1>8. ASSUME NEW scope \in Scope, SessionEnds(scope)  PROVE TypeInv'
  <2>1. cookies' \in [Scope -> Users]  BY <1>1, <1>3, <1>8 DEF SessionEnds
  <2> QED  BY <1>8, <2>1 DEF SessionEnds, TypeInv, TypeOK, ListOnPage, SentForms, formVars, Users
<1>9. ASSUME NEW p \in Pages \cup {Login["activity"]}, Navigate(p)  PROVE TypeInv'
  <2>1. p \in Places  BY DEF Places, Scope
  <2>2. Enter(p, user) /\ UNCHANGED <<restoring, cookies, server>>  BY <1>9 DEF Navigate
  <2>3. restoring' \in BOOLEAN  BY <2>2 DEF TypeInv, TypeOK
  <2> QED  BY <1>1, <2>1, <2>2, <2>3, EnterTypes
<1> QED  BY <1>4, <1>5, <1>6, <1>7, <1>8, <1>9 DEF Session

LEMMA FetchTypes ==
  ASSUME TypeInv, NEW q \in Query, ServeFetch(q) \/ Refetch(q)
  PROVE  TypeInv'
<1>1. queries \in [Query -> QueryState] /\ queries[q] \in QueryState
  BY DEF TypeInv, TypeOK
<1>2. CASE ServeFetch(q)
  <2> DEFINE answer(code) ==
        [at |-> "browser", code |-> code,
         data |-> IF code # "OK" THEN NoData
                  ELSE IF q = "gate" THEN Loaded(server)
                  ELSE [Loaded(server) EXCEPT !.facts = {}]]
  <2>1. PICK code \in Code : queries' = [queries EXCEPT ![q].fetch = answer(code)]
    BY <1>2 DEF ServeFetch, Code
  <2>2. NoData \in Data /\ Loaded(server) \in Data
        /\ [Loaded(server) EXCEPT !.facts = {}] \in Data
    BY QueryShapes DEF NoQuery, QueryState, Loaded, Data, TypeInv, TypeOK
  <2>3. answer(code) \in [at : At, code : Code, data : Data]
    BY <2>2 DEF At
  <2> HIDE DEF answer
  <2>4. queries' \in [Query -> QueryState]
    BY <1>1, <2>1, <2>3 DEF QueryState
  <2>5. queries[q].fetch.at # "idle"  BY <1>2 DEF ServeFetch
  <2>6. queries'["list"].fetch.at # "idle" => queries["list"].fetch.at # "idle"
    BY <1>1, <2>1, <2>5 DEF Query
  <2> QED
    BY <1>2, <2>4, <2>6
    DEF ServeFetch, TypeInv, TypeOK, ListOnPage, SentForms, sessionVars, formVars
<1>3. CASE Refetch(q)
  <2>1. queries' = [queries EXCEPT ![q] = Refetched(@)]  BY <1>3 DEF Refetch
  <2>2. queries' \in [Query -> QueryState]  BY <1>1, <2>1, QueryShapes
  <2>3. q = "list" => page \in Pages  BY <1>3 DEF Refetch, Active, OnScreen, Admitted
  <2>4. queries'["list"].fetch.at # "idle" => page \in Pages
    BY <1>1, <2>1, <2>3 DEF TypeInv, ListOnPage, Query
  <2> QED
    BY <1>3, <2>2, <2>4
    DEF Refetch, TypeInv, TypeOK, ListOnPage, SentForms, sessionVars, formVars
<1> QED  BY <1>2, <1>3

LEMMA ReceiveListTypes == ASSUME TypeInv, ReceiveList  PROVE TypeInv'
<1>1. queries["list"].fetch.at = "browser" /\ page \in Pages
  BY DEF ReceiveList, TypeInv, ListOnPage
<1>2. CASE Unauthorized(AllPages[page].console)
  BY <1>1, <1>2, PageShapes, UnauthorizedTypes
<1>3. CASE /\ queries' = [queries EXCEPT !["list"] = Answered("list")]
           /\ \/ UNCHANGED sent
              \/ sent' = [s \in Slots |->
                     [sent[s] EXCEPT !.watched = @ /\ ~Nested(sent[s].form)]]
           /\ UNCHANGED <<sessionVars, server, owed, formVars>>
  <2>1. queries' \in [Query -> QueryState] /\ queries'["list"].fetch.at = "idle"
    BY <1>3, AnsweredShape DEF TypeInv, TypeOK, Query
  <2>2. sent \in [Slots -> Mutation]  BY DEF TypeInv, TypeOK
  <2>3. sent' \in [Slots -> Mutation]
    <3>1. ASSUME NEW s \in Slots
          PROVE  [sent[s] EXCEPT !.watched = @ /\ ~Nested(sent[s].form)] \in Mutation
      BY <2>2, <3>1 DEF Mutation
    <3> QED  BY <1>3, <2>2, <3>1
  <2>4. \A s \in Slots : /\ sent'[s].at = sent[s].at /\ sent'[s].form = sent[s].form
                         /\ sent'[s].watched => sent[s].watched
    BY <1>3, <2>2 DEF Mutation
  <2>5. TypeOK'  BY <1>3, <2>1, <2>3 DEF TypeInv, TypeOK, sessionVars, formVars
  <2>6. ListOnPage'  BY <2>1 DEF ListOnPage
  <2>7. SentForms'  BY <2>4 DEF SentForms, TypeInv
  <2> QED  BY <2>5, <2>6, <2>7 DEF TypeInv
<1> QED  BY <1>2, <1>3 DEF ReceiveList

LEMMA ReceiveGateTypes == ASSUME TypeInv, ReceiveGate  PROVE TypeInv'
<1>1. CASE Unauthorized("activity")
  BY <1>1, UnauthorizedTypes DEF Scope
<1>2. CASE ~(queries["gate"].fetch.code = "UNAUTHORIZED" /\ page # Login["activity"])
  <2> DEFINE gate == Answered("gate")
             is == Admitted(page, user) /\ Passes(page, gate)
  <2>1. gate \in QueryState  BY AnsweredShape DEF TypeInv, Query
  <2>2. queries \in [Query -> QueryState] /\ sent \in [Slots -> Mutation]
    BY DEF TypeInv, TypeOK
  <2>3. /\ queries' \in [Query -> QueryState]
        /\ is \/ queries'["list"].fetch.at = "idle"
    <3>1. CASE is /\ ~OnScreen
      <4>1. PICK list \in MountedList(page, user) : queries' = [gate |-> gate, list |-> list]
        BY <1>2, <3>1 DEF ReceiveGate
      <4>2. list \in QueryState  BY ListShapes DEF TypeInv
      <4> HIDE DEF gate
      <4> QED  BY <2>1, <3>1, <4>1, <4>2 DEF Query
    <3>2. CASE ~(is /\ ~OnScreen)
      <4>1. queries' = [gate |-> gate, list |-> IF is THEN queries["list"] ELSE NoQuery]
        BY <1>2, <3>2 DEF ReceiveGate
      <4> HIDE DEF gate, is
      <4> QED  BY <2>1, <2>2, <4>1, QueryShapes DEF Query
    <3> QED  BY <3>1, <3>2
  <2>4. UNCHANGED <<sessionVars, server>>  BY <1>2 DEF ReceiveGate
  <2>5. owed' \in [Query -> 0 .. MaxWrites]
    BY <1>2, BoundAssumption DEF ReceiveGate, TypeInv, TypeOK, Query
  <2>6. /\ dialog' \in {dialog, NoDialog}
        /\ \/ sentTo' = FALSE /\ text' = NoText
           \/ UNCHANGED <<sentTo, text>>
        /\ \/ sent' = Unwatched
           \/ sent' = [s \in Slots |-> [sent[s] EXCEPT !.watched =
                         @ /\ ~Removed(sent[s].form, gate.data.facts)]]
    BY <1>2 DEF ReceiveGate, ClearContent
  <2>7. /\ sent' \in [Slots -> Mutation]
        /\ \A s \in Slots : /\ sent'[s].at = sent[s].at /\ sent'[s].form = sent[s].form
                            /\ sent'[s].watched => sent[s].watched
    <3>1. CASE sent' = Unwatched  BY <3>1, MutationShapes
    <3>2. CASE sent' = [s \in Slots |-> [sent[s] EXCEPT !.watched =
                         @ /\ ~Removed(sent[s].form, gate.data.facts)]]
      BY <2>2, <3>2 DEF Mutation, Removed
    <3> QED  BY <2>6, <3>1, <3>2
  <2>8. TypeOK'
    BY <2>3, <2>4, <2>5, <2>6, <2>7, MutationShapes DEF TypeInv, TypeOK, sessionVars
  <2>9. ListOnPage'  BY <2>3, <2>4 DEF ListOnPage, Admitted, sessionVars
  <2>10. SentForms'  BY <2>7 DEF SentForms, TypeInv
  <2> QED  BY <2>8, <2>9, <2>10 DEF TypeInv
<1> QED  BY <1>1, <1>2 DEF ReceiveGate

\* A form is opened, typed into, closed: only the variables of the forms change.
LEMMA FormTypes ==
  ASSUME TypeInv,
         \/ \E n \in FormNames, row \in Rows \cup {NoRow} : Open(n, row)
         \/ \E how \in {"dismiss", "cancel"} : Close(how)
         \/ \E n \in Kept, row \in Rows \cup {NoRow} : Type(n, row)
         \/ \E n \in FormNames : InviteAgain(n)
  PROVE  TypeInv'
<1>1. UNCHANGED <<sessionVars, server, queries, owed, sent>>
  BY DEF Open, Close, Type, InviteAgain
<1>2. dialog' \in [form : FormNames \cup {"none"}, row : Rows \cup {NoRow}]
  BY MutationShapes DEF Open, Close, Type, InviteAgain, TypeInv, TypeOK
<1>3. sentTo' \in BOOLEAN
  BY DEF Open, Close, Type, InviteAgain, TypeInv, TypeOK
<1>4. text' \in [Kept -> Rows \cup {NoRow, Nothing}]
  BY DEF Open, Close, Type, InviteAgain, Typed, TypeInv, TypeOK
<1> QED
  BY <1>1, <1>2, <1>3, <1>4 DEF TypeInv, TypeOK, ListOnPage, SentForms, sessionVars

LEMMA SubmitTypes ==
  ASSUME TypeInv, NEW n \in FormNames, NEW row \in Rows \cup {NoRow}, Submit(n, row)
  PROVE  TypeInv'
<1>1. PICK s \in Slots :
        /\ sent[s].at = "idle"
        /\ sent' = [t \in Slots |->
             IF t = s THEN Write(n, row)
             ELSE [sent[t] EXCEPT !.watched = @ /\ sent[t].form # n]]
  BY DEF Submit
<1>2. sent \in [Slots -> Mutation]  BY DEF TypeInv, TypeOK
<1>3. Write(n, row) \in Mutation /\ Write(n, row).at = "server" /\ Write(n, row).form = n
  BY BoundAssumption DEF Write, Mutation, At, Code, TypeInv, TypeOK
<1>4. sent' \in [Slots -> Mutation]  BY <1>1, <1>2, <1>3 DEF Mutation
<1>5. SentForms'  BY <1>1, <1>2, <1>3 DEF SentForms, TypeInv, Mutation
<1> QED
  BY <1>4, <1>5 DEF Submit, TypeInv, TypeOK, ListOnPage, sessionVars, formVars

LEMMA WrittenShape ==
  ASSUME TypeInv, NEW n \in FormNames, Repeated(n) \/ server.version < MaxWrites
  PROVE  Written(n) \in [version : 0 .. MaxWrites, facts : SUBSET Fact]
<1>1. AllForms[n].gives \subseteq Fact  BY FormShapes DEF Form
<1>2. server \in [version : 0 .. MaxWrites, facts : SUBSET Fact]  BY DEF TypeInv, TypeOK
<1> QED  BY <1>1, <1>2, BoundAssumption DEF Written

LEMMA ServeWriteTypes ==
  ASSUME TypeInv, NEW s \in Slots, ServeWrite(s)
  PROVE  TypeInv'
<1>1. sent[s].at = "server" /\ sent[s].form \in FormNames
  BY DEF ServeWrite, TypeInv, SentForms
<1>2. PICK code \in Code : Reply(s, code)  BY DEF ServeWrite, Code
<1>3. server' \in [version : 0 .. MaxWrites, facts : SUBSET Fact]
  BY <1>1, WrittenShape DEF ServeWrite, TypeInv, TypeOK
<1>4. sent \in [Slots -> Mutation]  BY DEF TypeInv, TypeOK
<1>5. sent' \in [Slots -> Mutation]
  <2>1. server'.version \in 0 .. MaxWrites  BY <1>3
  <2>2. [sent[s] EXCEPT !.at = "browser", !.code = code, !.version = server'.version] \in Mutation
    BY <1>4, <2>1 DEF Mutation, At
  <2>3. sent' = [sent EXCEPT ![s] =
           [sent[s] EXCEPT !.at = "browser", !.code = code, !.version = server'.version]]
    BY <1>2, <1>4 DEF Reply, Mutation
  <2> QED  BY <1>4, <2>2, <2>3
<1>6. SentForms'  BY <1>1, <1>2, <1>4 DEF SentForms, TypeInv, Reply, Mutation
<1> QED
  BY <1>3, <1>5, <1>6 DEF ServeWrite, TypeInv, TypeOK, ListOnPage, sessionVars, formVars

LEMMA ReceiveWriteTypes ==
  ASSUME TypeInv, NEW s \in Slots, ReceiveWrite(s)
  PROVE  TypeInv'
<1> DEFINE n == sent[s].form
           done == [t \in Slots |-> IF t = s THEN IdleWrite
                                    ELSE [sent[t] EXCEPT !.watched = @ /\ sent[t].form # n]]
<1>1. CASE Unauthorized(ScopeOf(sent[s].by))
  BY <1>1, UnauthorizedTypes DEF Scope, ScopeOf
<1>2. CASE ~(sent[s].code = "UNAUTHORIZED" /\ page # Login[ScopeOf(sent[s].by)])
  <2>1. sent \in [Slots -> Mutation] /\ queries \in [Query -> QueryState]
        /\ owed \in [Query -> 0 .. MaxWrites]
    BY DEF TypeInv, TypeOK
  <2>2. sent' \in {done, [sent EXCEPT ![s] = IdleWrite]}  BY <1>2 DEF ReceiveWrite
  <2>3. /\ sent' \in [Slots -> Mutation]
        /\ \A t \in Slots : \/ sent'[t] = IdleWrite
                            \/ /\ sent'[t].at = sent[t].at /\ sent'[t].form = sent[t].form
                               /\ sent'[t].watched => sent[t].watched
    <3>2. CASE sent' = done
      <4> DEFINE still(t) == sent[t].watched /\ sent[t].form # n
      <4>1. \A t \in Slots : t # s => sent'[t] = [sent[t] EXCEPT !.watched = still(t)]
        BY <2>1, <3>2 DEF Mutation
      <4>2. sent'[s] = IdleWrite  BY <3>2
      <4>3. \A t \in Slots : still(t) \in BOOLEAN /\ (still(t) => sent[t].watched)
        OBVIOUS
      <4> HIDE DEF still
      <4>4. \A t \in Slots : t # s =>
              /\ sent'[t] \in Mutation
              /\ sent'[t].at = sent[t].at /\ sent'[t].form = sent[t].form
              /\ sent'[t].watched => sent[t].watched
        <5> SUFFICES ASSUME NEW t \in Slots, t # s
                     PROVE  /\ sent'[t] \in Mutation
                            /\ sent'[t].at = sent[t].at /\ sent'[t].form = sent[t].form
                            /\ sent'[t].watched => sent[t].watched
          OBVIOUS
        <5>1. sent[t] \in Mutation  BY <2>1
        <5>2. still(t) \in BOOLEAN /\ (still(t) => sent[t].watched)  BY <4>3
        <5>3. sent'[t] = [sent[t] EXCEPT !.watched = still(t)]  BY <4>1
        <5> QED  BY <5>1, <5>2, <5>3 DEF Mutation
      <4>5. sent' \in [Slots -> Mutation]
        BY <3>2, <4>2, <4>4, MutationShapes
      <4> QED  BY <4>2, <4>4, <4>5
    <3>3. CASE sent' = [sent EXCEPT ![s] = IdleWrite]
      BY <2>1, <3>3, MutationShapes
    <3> QED  BY <2>2, <3>2, <3>3
  <2>4. /\ queries' \in [Query -> QueryState]
        /\ queries'["list"].fetch.at # "idle" =>
             queries["list"].fetch.at # "idle" \/ Active("list")
    <3>1. queries' = queries \/ queries' = Refreshed(n)  BY <1>2 DEF ReceiveWrite
    <3>2. Refreshed(n) \in [Query -> QueryState]  BY <2>1, QueryShapes DEF Refreshed
    <3>3. Refreshed(n)["list"].fetch.at # "idle" =>
             queries["list"].fetch.at # "idle" \/ Active("list")
      BY DEF Refreshed, Query
    <3> QED  BY <2>1, <3>1, <3>2, <3>3
  <2>5. owed' \in [Query -> 0 .. MaxWrites]
    <3>1. sent[s].version \in 0 .. MaxWrites  BY <2>1 DEF Mutation
    <3> QED  BY <1>2, <2>1, <3>1 DEF ReceiveWrite
  <2>6. /\ dialog' \in {dialog, NoDialog} /\ sentTo' \in BOOLEAN
        /\ text' \in [Kept -> Rows \cup {NoRow, Nothing}]
    BY <1>2 DEF ReceiveWrite, Typed, TypeInv, TypeOK, formVars
  <2>7. UNCHANGED <<sessionVars, server>>  BY <1>2 DEF ReceiveWrite
  <2>8. TypeOK'
    BY <2>3, <2>4, <2>5, <2>6, <2>7, MutationShapes DEF TypeInv, TypeOK, sessionVars
  <2>9. ListOnPage'
    BY <2>4, <2>7 DEF TypeInv, ListOnPage, Active, OnScreen, Admitted, sessionVars
  <2>10. SentForms'  BY <2>3, MutationShapes DEF SentForms, TypeInv
  <2> QED  BY <2>8, <2>9, <2>10 DEF TypeInv
<1> QED  BY <1>1, <1>2 DEF ReceiveWrite

LEMMA ElsewhereTypes ==
  ASSUME TypeInv, NEW n \in FormNames, Elsewhere(n)
  PROVE  TypeInv'
BY WrittenShape
DEF Elsewhere, TypeInv, TypeOK, ListOnPage, SentForms, sessionVars, formVars

LEMMA InitTypes == ASSUME Init  PROVE TypeInv
<1>1. \A facts \in Starts : facts \subseteq Fact
  <2>1. SUFFICES ASSUME NEW facts \in Starts  PROVE facts \subseteq Fact
    OBVIOUS
  <2>2. PICK mode \in Mode, ranking \in {"frozen", "unfrozen"},
             refill \in {"paused", "running"} : facts \ {"writable"} = {mode, ranking, refill}
    BY StartAssumption
  <2> QED  BY <2>2 DEF Fact
<1>2. server \in [version : 0 .. MaxWrites, facts : SUBSET Fact]
  BY <1>1, BoundAssumption DEF Init
<1>3. NoQuery \in QueryState /\ NoQuery.fetch.at = "idle"  BY QueryShapes
<1>4. IdleWrite \in Mutation /\ IdleWrite.at = "idle" /\ ~IdleWrite.watched
  BY BoundAssumption DEF IdleWrite, Mutation, At, Code
<1>5. queries \in [Query -> QueryState] /\ owed \in [Query -> 0 .. MaxWrites]
  BY <1>3, BoundAssumption DEF Init
<1>6. sent \in [Slots -> Mutation]  BY <1>4 DEF Init
<1>7. TypeOK
  BY <1>2, <1>5, <1>6 DEF Init, TypeOK, NoDialog, NoText
<1>8. ListOnPage  BY <1>3 DEF Init, ListOnPage, Query
<1>9. SentForms  BY <1>4 DEF Init, SentForms
<1> QED  BY <1>7, <1>8, <1>9 DEF TypeInv

LEMMA NextTypes == ASSUME TypeInv, [Next]_vars  PROVE TypeInv'
<1>1. CASE Session  BY <1>1, SessionTypes
<1>2. CASE Cache  BY <1>2, ReceiveListTypes, ReceiveGateTypes, FetchTypes DEF Cache
<1>3. CASE Dialogs
  <2>1. ASSUME NEW n \in FormNames, NEW row \in Rows \cup {NoRow}, Open(n, row) \/ Submit(n, row)
        PROVE  TypeInv'
    BY <2>1, FormTypes, SubmitTypes
  <2>2. ASSUME NEW how \in {"dismiss", "cancel"}, Close(how)  PROVE TypeInv'
    BY <2>2, FormTypes
  <2>3. ASSUME NEW n \in Kept, NEW row \in Rows \cup {NoRow}, Type(n, row)  PROVE TypeInv'
    BY <2>3, FormTypes
  <2>4. ASSUME NEW n \in FormNames, InviteAgain(n) \/ Elsewhere(n)  PROVE TypeInv'
    BY <2>4, FormTypes, ElsewhereTypes
  <2>5. ASSUME NEW s \in Slots, ServeWrite(s) \/ ReceiveWrite(s)  PROVE TypeInv'
    BY <2>5, ServeWriteTypes, ReceiveWriteTypes
  <2> QED  BY <1>3, <2>1, <2>2, <2>3, <2>4, <2>5 DEF Dialogs
<1>4. CASE UNCHANGED vars
  BY <1>4 DEF vars, TypeInv, TypeOK, ListOnPage, SentForms
<1> QED  BY <1>1, <1>2, <1>3, <1>4 DEF Next

\* TypeCorrect: whatever a tab, its server and its other users do, every variable
\* stays in its domain.
THEOREM TypeCorrect == Spec => []TypeOK
<1>1. Init => TypeInv  BY InitTypes
<1>2. TypeInv /\ [Next]_vars => TypeInv'  BY NextTypes
<1>3. TypeInv => TypeOK  BY DEF TypeInv
<1> QED  BY <1>1, <1>2, <1>3, PTL DEF Spec

-----------------------------------------------------------------------------
\* A tab's own writes.  What it was told is never ahead of the server, and a query
\* that is looked at keeps up with what is owed to it: by its data when it is at
\* rest, and by the answer it has already been given when one is on its way.  A
\* fetch still at the server keeps up by itself, for it reads what is there then.
KeepsUpWith(query, version) ==
  /\ query.fetch.at = "browser" /\ query.fetch.code = "OK" => query.fetch.data.version >= version
  /\ query.fetch.at = "idle" /\ query.error = "OK" => query.data.version >= version
Told ==
  /\ \A q \in Query : owed[q] <= server.version
  /\ \A s \in Slots : sent[s].version <= server.version
KeepsUp == \A q \in Query : Active(q) => KeepsUpWith(queries[q], owed[q])
OwnWriteInv == TypeInv /\ Told /\ KeepsUp

LEMMA NothingOwed == \A query \in QueryState : KeepsUpWith(query, 0)
  BY BoundAssumption DEF QueryState, Data, KeepsUpWith

LEMMA FetchKeepsUp ==
  ASSUME NEW query \in QueryState, NEW version \in Nat
  PROVE  /\ KeepsUpWith(query, version) => KeepsUpWith(Refetched(query), version)
         /\ query.data.loaded \/ KeepsUpWith(query, version)
              => KeepsUpWith(Restarted(query), version)
<1>1. Fetch.at = "server" /\ Fetch \in [at : At, code : Code, data : Data]  BY QueryShapes
<1>2. query.fetch \in [at : At, code : Code, data : Data]  BY DEF QueryState
<1>3. Refetched(query).fetch = (IF query.fetch.at = "idle" THEN Fetch ELSE query.fetch)
  BY DEF Refetched, QueryState
<1>4. query.data.loaded => Restarted(query).fetch = Fetch
  BY DEF Restarted, QueryState
<1>5. ~query.data.loaded => Restarted(query) = Refetched(query)
  BY DEF Restarted
<1>6. KeepsUpWith(query, version) => KeepsUpWith(Refetched(query), version)
  BY <1>1, <1>3 DEF KeepsUpWith
<1>7. query.data.loaded => KeepsUpWith(Restarted(query), version)
  BY <1>1, <1>4 DEF KeepsUpWith
<1> QED  BY <1>5, <1>6, <1>7

LEMMA AnswerKeepsUp ==
  ASSUME TypeOK, NEW q \in Query, NEW version \in Nat,
         queries[q].fetch.at = "browser", KeepsUpWith(queries[q], version)
  PROVE  KeepsUpWith(Answered(q), version)
<1>1. /\ Answered(q).error = queries[q].fetch.code /\ Answered(q).fetch = IdleFetch
      /\ queries[q].fetch.code = "OK" => Answered(q).data = queries[q].fetch.data
  BY DEF Answered
<1>2. IdleFetch.at = "idle"  BY DEF IdleFetch
<1> QED  BY <1>1, <1>2 DEF KeepsUpWith

\* Without a new page or account, only a dashboard that was not there, or was in
\* error, makes a query active.
LEMMA ActiveBefore ==
  ASSUME UNCHANGED <<page, user>>,
         queries'["gate"].data.loaded /\ queries'["gate"].error = "OK"
           => queries["gate"].data.loaded /\ queries["gate"].error = "OK",
         NEW q \in Query, Active(q)'
  PROVE  Active(q)
  BY DEF Active, OnScreen, Admitted, Passes, Lists

LEMMA OwnTypes ==
  ASSUME TypeOK
  PROVE  /\ server.version \in Nat
         /\ \A q \in Query : owed[q] \in Nat /\ queries[q] \in QueryState
         /\ \A s \in Slots : sent[s].version \in Nat
  BY BoundAssumption DEF TypeOK, Mutation

LEMMA LoadOwn ==
  ASSUME OwnWriteInv, TypeInv', NEW p, Load(p)
  PROVE  OwnWriteInv'
<1>1. \A q \in Query : owed'[q] = 0  BY DEF Load
<1>2. \A s \in Slots : sent'[s].version = 0  BY DEF Load, IdleWrite
<1>3. server' = server /\ server.version \in Nat  BY OwnTypes DEF Load, OwnWriteInv, TypeInv
<1>4. Told'  BY <1>1, <1>2, <1>3 DEF Told
<1>5. \A q \in Query : queries'[q] \in QueryState  BY DEF TypeInv, TypeOK
<1>6. KeepsUp'  BY <1>1, <1>5, NothingOwed DEF KeepsUp
<1> QED  BY <1>4, <1>6 DEF OwnWriteInv

LEMMA EnterOwn ==
  ASSUME OwnWriteInv, TypeInv', NEW p, NEW account, Enter(p, account), UNCHANGED server
  PROVE  OwnWriteInv'
<1>1. owed' = [gate |-> IF Active("gate") THEN owed["gate"] ELSE 0, list |-> 0]
  BY DEF Enter
<1>2. sent' = Unwatched  BY DEF Enter, ClearContent
<1>3. \A q \in Query : queries'[q] \in QueryState  BY DEF TypeInv, TypeOK
<1>4. Active("gate") => queries'["gate"] = queries["gate"]
  BY DEF Enter
<1>5. Told'
  BY <1>1, <1>2, OwnTypes, MutationShapes DEF Told, OwnWriteInv, TypeInv, Query
<1>6. KeepsUpWith(queries["gate"], owed["gate"])'
  <2>1. CASE Active("gate")
    BY <1>1, <1>4, <2>1 DEF OwnWriteInv, KeepsUp, Query, KeepsUpWith
  <2>2. CASE ~Active("gate")
    <3>1. owed'["gate"] = 0  BY <1>1, <2>2
    <3> QED  BY <1>3, <3>1, NothingOwed DEF Query
  <2> QED  BY <2>1, <2>2
<1>7. KeepsUpWith(queries["list"], owed["list"])'
  <2>1. owed'["list"] = 0  BY <1>1
  <2> QED  BY <1>3, <2>1, NothingOwed DEF Query
<1>8. KeepsUp'  BY <1>6, <1>7 DEF KeepsUp, Query
<1> QED  BY <1>5, <1>8 DEF OwnWriteInv

LEMMA SessionOwn == ASSUME OwnWriteInv, TypeInv', Session  PROVE OwnWriteInv'
<1>1. CASE Restore
  <2>1. UNCHANGED server  BY <1>1 DEF Restore
  <2>2. CASE \E p, account : Enter(p, account)  BY <2>1, <2>2, EnterOwn
  <2>3. CASE UNCHANGED <<user, page, queries, owed, formVars, sent>>
    BY <2>1, <2>3 DEF OwnWriteInv, Told, KeepsUp, Active, OnScreen
  <2> QED  BY <1>1, <2>2, <2>3 DEF Restore
<1>2. CASE SignOut  BY <1>2, EnterOwn DEF SignOut
<1>3. CASE Reload  BY <1>3, LoadOwn DEF Reload
<1>4. ASSUME NEW account \in Accounts, SignIn(account)  PROVE OwnWriteInv'
  BY <1>4, EnterOwn DEF SignIn
<1>5. ASSUME NEW scope \in Scope, SessionEnds(scope)  PROVE OwnWriteInv'
  BY <1>5 DEF SessionEnds, OwnWriteInv, Told, KeepsUp, Active, OnScreen
<1>6. ASSUME NEW p \in Pages \cup {Login["activity"]}, Navigate(p)  PROVE OwnWriteInv'
  BY <1>6, EnterOwn DEF Navigate
<1> QED  BY <1>1, <1>2, <1>3, <1>4, <1>5, <1>6 DEF Session

LEMMA FetchOwn ==
  ASSUME OwnWriteInv, TypeInv', NEW q \in Query, ServeFetch(q) \/ Refetch(q)
  PROVE  OwnWriteInv'
<1>1. queries \in [Query -> QueryState] /\ queries[q] \in QueryState
  BY DEF OwnWriteInv, TypeInv, TypeOK
<1>2. UNCHANGED <<user, page, server, owed, sent>>
  BY DEF ServeFetch, Refetch, sessionVars
<1>3. Told'  BY <1>2 DEF OwnWriteInv, Told
<1>4. \A r \in Query : owed[r] \in Nat /\ server.version >= owed[r] /\ server.version \in Nat
  BY OwnTypes DEF OwnWriteInv, TypeInv, Told
<1>5. /\ \A r \in Query : r # q => queries'[r] = queries[r]
      /\ queries'[q].data = queries[q].data
      /\ queries'[q].error # queries[q].error => ~queries[q].data.loaded
  <2>1. CASE ServeFetch(q)
    <3>1. PICK fetch : queries' = [queries EXCEPT ![q].fetch = fetch]  BY <2>1 DEF ServeFetch
    <3> QED  BY <1>1, <3>1 DEF QueryState
  <2>2. CASE Refetch(q)
    <3>1. queries' = [queries EXCEPT ![q] = Refetched(queries[q])]  BY <2>2 DEF Refetch
    <3>2. /\ Refetched(queries[q]).data = queries[q].data
          /\ Refetched(queries[q]).error # queries[q].error => ~queries[q].data.loaded
      BY <1>1 DEF Refetched, QueryState
    <3> QED  BY <1>1, <3>1, <3>2
  <2> QED  BY <2>1, <2>2
<1>6. Active(q) => KeepsUpWith(queries'[q], owed[q])
  <2>1. CASE ServeFetch(q)
    <3>1. /\ queries'[q].fetch.at = "browser"
          /\ queries'[q].fetch.code = "OK" => queries'[q].fetch.data.version = server.version
      <4>1. PICK code :
              queries' = [queries EXCEPT ![q].fetch =
                [at |-> "browser", code |-> code,
                 data |-> IF code # "OK" THEN NoData
                          ELSE IF q = "gate" THEN Loaded(server)
                          ELSE [Loaded(server) EXCEPT !.facts = {}]]]
        BY <2>1 DEF ServeFetch
      <4>2. queries'[q].fetch =
                [at |-> "browser", code |-> code,
                 data |-> IF code # "OK" THEN NoData
                          ELSE IF q = "gate" THEN Loaded(server)
                          ELSE [Loaded(server) EXCEPT !.facts = {}]]
        BY <1>1, <4>1 DEF QueryState
      <4> QED  BY <4>2 DEF Loaded
    <3> QED  BY <1>4, <3>1 DEF KeepsUpWith
  <2>2. CASE Refetch(q)
    <3>1. queries'[q] = Refetched(queries[q])  BY <1>1, <2>2 DEF Refetch
    <3> QED  BY <1>1, <1>4, <3>1, FetchKeepsUp DEF OwnWriteInv, KeepsUp
  <2> QED  BY <2>1, <2>2
<1>7. \A r \in Query : Active(r)' => Active(r)
  BY <1>2, <1>5, ActiveBefore DEF Query
<1>8. KeepsUp'
  BY <1>2, <1>5, <1>6, <1>7 DEF OwnWriteInv, KeepsUp, KeepsUpWith
<1> QED  BY <1>3, <1>8 DEF OwnWriteInv

LEMMA ReceiveListOwn == ASSUME OwnWriteInv, TypeInv', ReceiveList  PROVE OwnWriteInv'
<1>1. CASE \E scope : Unauthorized(scope)  BY <1>1, LoadOwn DEF Unauthorized
<1>2. CASE /\ queries' = [queries EXCEPT !["list"] = Answered("list")]
           /\ \/ UNCHANGED sent
              \/ sent' = [s \in Slots |->
                     [sent[s] EXCEPT !.watched = @ /\ ~Nested(sent[s].form)]]
           /\ UNCHANGED <<sessionVars, server, owed, formVars>>
  <2>1. queries \in [Query -> QueryState] /\ sent \in [Slots -> Mutation]
    BY DEF OwnWriteInv, TypeInv, TypeOK
  <2>2. \A s \in Slots : sent'[s].version = sent[s].version
    BY <1>2, <2>1 DEF Mutation
  <2>3. Told'  BY <1>2, <2>2 DEF OwnWriteInv, Told
  <2>4. queries'["gate"] = queries["gate"] /\ queries'["list"] = Answered("list")
    BY <1>2, <2>1 DEF Query
  <2>5. \A q \in Query : Active(q)' => Active(q)
    BY <1>2, <2>4, ActiveBefore DEF sessionVars
  <2>6. Active("list") => KeepsUpWith(Answered("list"), owed["list"])
    <3>1. queries["list"].fetch.at = "browser"  BY DEF ReceiveList
    <3> QED  BY <3>1, AnswerKeepsUp, OwnTypes DEF OwnWriteInv, TypeInv, KeepsUp, Query
  <2>7. KeepsUp'
    BY <1>2, <2>4, <2>5, <2>6 DEF OwnWriteInv, KeepsUp, Query, KeepsUpWith
  <2> QED  BY <2>3, <2>7 DEF OwnWriteInv
<1> QED  BY <1>1, <1>2 DEF ReceiveList

LEMMA ReceiveGateOwn == ASSUME OwnWriteInv, TypeInv', ReceiveGate  PROVE OwnWriteInv'
<1>1. CASE Unauthorized("activity")  BY <1>1, LoadOwn DEF Unauthorized
<1>2. CASE ~(queries["gate"].fetch.code = "UNAUTHORIZED" /\ page # Login["activity"])
  <2> DEFINE gate == Answered("gate")
             is == Admitted(page, user) /\ Passes(page, gate)
  <2>1. queries'["gate"] = gate
    <3>1. \E list : queries' = [gate |-> gate, list |-> list]  BY <1>2 DEF ReceiveGate
    <3> HIDE DEF gate
    <3> QED  BY <3>1
  <2>2. owed' = IF is /\ OnScreen THEN owed ELSE [owed EXCEPT !["list"] = 0]
    BY <1>2 DEF ReceiveGate
  <2>3. is /\ OnScreen => queries'["list"] = queries["list"]
    <3>1. is /\ OnScreen => queries' = [gate |-> gate, list |-> queries["list"]]
      BY <1>2 DEF ReceiveGate
    <3> HIDE DEF gate, is
    <3> QED  BY <3>1
  <2>4. UNCHANGED <<user, page, server>>  BY <1>2 DEF ReceiveGate, sessionVars
  <2>5. \A q \in Query : queries'[q] \in QueryState  BY DEF TypeInv, TypeOK
  <2>6. sent \in [Slots -> Mutation] /\ owed \in [Query -> 0 .. MaxWrites]
    BY DEF OwnWriteInv, TypeInv, TypeOK
  <2>7. \A s \in Slots : sent'[s].version = sent[s].version
    <3>1. CASE ~is  BY <1>2, <3>1, MutationShapes DEF ReceiveGate, ClearContent, OwnWriteInv
    <3>2. CASE is  BY <1>2, <2>6, <3>2 DEF ReceiveGate, Mutation
    <3> QED  BY <3>1, <3>2
  <2>8. Told'
    BY <2>2, <2>4, <2>6, <2>7, OwnTypes DEF OwnWriteInv, TypeInv, Told, Query
  <2>9. Active("gate")' => KeepsUpWith(queries'["gate"], owed'["gate"])
    <3>1. Active("gate")' => Active("gate")  BY <2>4 DEF Active, Admitted
    <3>2. queries["gate"].fetch.at = "browser"  BY DEF ReceiveGate
    <3>3. Active("gate") => KeepsUpWith(gate, owed["gate"])
      BY <3>2, AnswerKeepsUp, OwnTypes DEF OwnWriteInv, TypeInv, KeepsUp, Query
    <3>4. owed'["gate"] = owed["gate"]  BY <2>2, <2>6 DEF Query
    <3> QED  BY <2>1, <3>1, <3>3, <3>4
  <2>10. Active("list")' => KeepsUpWith(queries'["list"], owed'["list"])
    <3>1. CASE is /\ OnScreen
      <4>1. owed' = owed /\ queries'["list"] = queries["list"]  BY <2>2, <2>3, <3>1
      <4>2. Active("list")' => Active("list")
        BY <2>4, <3>1 DEF Active, OnScreen, Lists
      <4> QED  BY <4>1, <4>2 DEF OwnWriteInv, KeepsUp, Query
    <3>2. CASE ~(is /\ OnScreen)
      <4>1. owed'["list"] = 0  BY <2>2, <2>6, <3>2 DEF Query
      <4> QED  BY <2>5, <4>1, NothingOwed DEF Query
    <3> QED  BY <3>1, <3>2
  <2>11. KeepsUp'  BY <2>9, <2>10 DEF KeepsUp, Query
  <2> QED  BY <2>8, <2>11 DEF OwnWriteInv
<1> QED  BY <1>1, <1>2 DEF ReceiveGate

LEMMA SubmitOwn ==
  ASSUME OwnWriteInv, TypeInv', NEW n, NEW row, Submit(n, row)
  PROVE  OwnWriteInv'
<1>1. UNCHANGED <<sessionVars, server, queries, owed>>  BY DEF Submit
<1>2. \A s \in Slots : sent'[s].version \in {0, sent[s].version}
  <2>1. sent \in [Slots -> Mutation]  BY DEF OwnWriteInv, TypeInv, TypeOK
  <2>2. PICK s \in Slots :
          sent' = [t \in Slots |-> IF t = s THEN Write(n, row)
                                   ELSE [sent[t] EXCEPT !.watched = @ /\ sent[t].form # n]]
    BY DEF Submit
  <2>3. Write(n, row).version = 0  BY DEF Write
  <2> HIDE DEF Write
  <2> QED  BY <2>1, <2>2, <2>3 DEF Mutation
<1>3. Told'  BY <1>1, <1>2, OwnTypes DEF OwnWriteInv, TypeInv, Told
<1>4. KeepsUp'  BY <1>1 DEF OwnWriteInv, KeepsUp, Active, OnScreen, sessionVars
<1> QED  BY <1>3, <1>4 DEF OwnWriteInv

\* The server's data only gets newer.
LEMMA ServerOwn ==
  ASSUME OwnWriteInv, TypeInv',
         (\E s \in Slots : ServeWrite(s)) \/ (\E n \in FormNames : Elsewhere(n))
  PROVE  OwnWriteInv'
<1>1. UNCHANGED <<sessionVars, queries, owed>>  BY DEF ServeWrite, Elsewhere
<1>2. server'.version \in Nat /\ server.version <= server'.version
  BY OwnTypes DEF ServeWrite, Elsewhere, Written, OwnWriteInv, TypeInv
<1>3. \A s \in Slots : sent'[s].version \in {server'.version, sent[s].version}
  <2>1. sent \in [Slots -> Mutation]  BY DEF OwnWriteInv, TypeInv, TypeOK
  <2>2. CASE \E s \in Slots : \E code : Reply(s, code)
    BY <2>1, <2>2 DEF Reply, Mutation
  <2>3. CASE UNCHANGED sent  BY <2>3
  <2> QED  BY <2>2, <2>3 DEF ServeWrite, Elsewhere
<1>4. Told'  BY <1>1, <1>2, <1>3, OwnTypes DEF OwnWriteInv, TypeInv, Told
<1>5. KeepsUp'  BY <1>1 DEF OwnWriteInv, KeepsUp, Active, OnScreen, sessionVars
<1> QED  BY <1>4, <1>5 DEF OwnWriteInv

LEMMA ReceiveWriteOwn ==
  ASSUME OwnWriteInv, TypeInv', NEW s \in Slots, ReceiveWrite(s)
  PROVE  OwnWriteInv'
<1> DEFINE n == sent[s].form
<1>1. CASE \E scope : Unauthorized(scope)  BY <1>1, LoadOwn DEF Unauthorized
<1>2. CASE ~(sent[s].code = "UNAUTHORIZED" /\ page # Login[ScopeOf(sent[s].by)])
  <2>1. /\ sent \in [Slots -> Mutation] /\ queries \in [Query -> QueryState]
        /\ owed \in [Query -> 0 .. MaxWrites]
    BY DEF OwnWriteInv, TypeInv, TypeOK
  <2>2. UNCHANGED <<user, page, server>>  BY <1>2 DEF ReceiveWrite, sessionVars
  <2>3. \A t \in Slots : sent'[t].version \in {0, sent[t].version}
    <3>1. IdleWrite.version = 0  BY DEF IdleWrite
    <3> QED  BY <1>2, <2>1, <3>1 DEF ReceiveWrite, Mutation
  <2>4. \A q \in Query : owed'[q] \in {owed[q], sent[s].version}
    BY <1>2, <2>1 DEF ReceiveWrite
  <2>5. Told'
    BY <2>2, <2>3, <2>4, OwnTypes DEF OwnWriteInv, TypeInv, Told
  <2>6. CASE sent[s].code = "OK"
    <3>1. queries' = Refreshed(n)  BY <1>2, <2>6 DEF ReceiveWrite
    <3>2. n \notin Silent => AllForms[n].refreshes
      <4>1. n \in FormNames  BY DEF ReceiveWrite, OwnWriteInv, TypeInv, SentForms
      <4> QED  BY <4>1, FormShapes DEF Shaped
    <3>3. owed' = [q \in Query |->
             IF n \notin Silent /\ SameKey(n) /\ Active(q) /\ queries[q].data.loaded
                /\ sent[s].version > owed[q]
             THEN sent[s].version ELSE owed[q]]
      BY <1>2, <2>6 DEF ReceiveWrite
    <3> HIDE DEF n
    <3>4. ASSUME NEW q \in Query
          PROVE  /\ Active(q) => KeepsUpWith(queries'[q], owed'[q])
                 /\ queries'[q].data = queries[q].data
                 /\ queries'[q].error # queries[q].error => ~queries[q].data.loaded
      <4>1. queries[q] \in QueryState /\ owed[q] \in Nat /\ owed'[q] \in Nat
        BY <2>1, OwnTypes DEF OwnWriteInv, TypeInv, TypeOK
      <4>2. CASE AllForms[n].refreshes /\ SameKey(n) /\ Active(q)
        <5>1. queries'[q] = Restarted(queries[q])  BY <3>1, <4>2 DEF Refreshed
        <5>2. ~queries[q].data.loaded => owed'[q] = owed[q]  BY <3>3
        <5>3. queries[q].data.loaded \/ KeepsUpWith(queries[q], owed'[q])
          BY <4>2, <5>2 DEF OwnWriteInv, KeepsUp
        <5>4. KeepsUpWith(queries'[q], owed'[q])  BY <4>1, <5>1, <5>3, FetchKeepsUp
        <5>5. /\ Restarted(queries[q]).data = queries[q].data
              /\ Restarted(queries[q]).error # queries[q].error => ~queries[q].data.loaded
          BY <4>1 DEF Restarted, Refetched, QueryState
        <5> QED  BY <5>1, <5>4, <5>5
      <4>3. CASE ~(AllForms[n].refreshes /\ SameKey(n) /\ Active(q))
        <5>1. queries'[q] = queries[q]  BY <3>1, <4>3 DEF Refreshed
        <5>2. owed'[q] = owed[q]  BY <3>2, <3>3, <4>3
        <5> QED  BY <5>1, <5>2 DEF OwnWriteInv, KeepsUp
      <4> QED  BY <4>2, <4>3
    <3>5. \A q \in Query : Active(q)' => Active(q)
      BY <2>2, <3>4, ActiveBefore DEF Query
    <3>6. KeepsUp'  BY <3>4, <3>5 DEF KeepsUp
    <3> QED  BY <2>5, <3>6 DEF OwnWriteInv
  <2>7. CASE sent[s].code # "OK"
    <3>1. UNCHANGED <<queries, owed>>  BY <1>2, <2>7 DEF ReceiveWrite
    <3>2. KeepsUp'  BY <2>2, <3>1 DEF OwnWriteInv, KeepsUp, Active, OnScreen
    <3> QED  BY <2>5, <3>2 DEF OwnWriteInv
  <2> QED  BY <2>6, <2>7
<1> QED  BY <1>1, <1>2 DEF ReceiveWrite

LEMMA NextOwn == ASSUME OwnWriteInv, [Next]_vars  PROVE OwnWriteInv'
<1>1. TypeInv'  BY NextTypes DEF OwnWriteInv
<1>2. CASE Session  BY <1>1, <1>2, SessionOwn
<1>3. CASE Cache  BY <1>1, <1>3, ReceiveListOwn, ReceiveGateOwn, FetchOwn DEF Cache
<1>4. CASE Dialogs
  <2>1. CASE UNCHANGED <<sessionVars, server, queries, owed, sent>>
    BY <1>1, <2>1 DEF OwnWriteInv, Told, KeepsUp, Active, OnScreen, sessionVars
  <2>2. CASE \E n \in FormNames, row \in Rows \cup {NoRow} : Submit(n, row)
    BY <1>1, <2>2, SubmitOwn
  <2>3. CASE (\E s \in Slots : ServeWrite(s)) \/ (\E n \in FormNames : Elsewhere(n))
    BY <1>1, <2>3, ServerOwn
  <2>4. CASE \E s \in Slots : ReceiveWrite(s)
    BY <1>1, <2>4, ReceiveWriteOwn
  <2> QED  BY <1>4, <2>1, <2>2, <2>3, <2>4 DEF Dialogs, Open, Close, Type, InviteAgain
<1>5. CASE UNCHANGED vars
  BY <1>1, <1>5 DEF vars, OwnWriteInv, Told, KeepsUp, Active, OnScreen
<1> QED  BY <1>2, <1>3, <1>4, <1>5 DEF Next

\* OwnWritesShown: whichever fetches and writes are in flight, wherever a write was
\* sent from and however replies overtake each other, a page at rest shows every
\* write this tab was told had succeeded.
THEOREM OwnWritesShown == Spec => []OwnWriteShown
<1>1. Init => OwnWriteInv
  <2> SUFFICES ASSUME Init  PROVE Told /\ KeepsUp
    BY InitTypes DEF OwnWriteInv
  <2>1. server.version = 0 /\ (\A q \in Query : owed[q] = 0 /\ queries[q] = NoQuery)
    BY DEF Init
  <2>2. \A s \in Slots : sent[s].version = 0  BY DEF Init, IdleWrite
  <2> QED  BY <2>1, <2>2, QueryShapes, NothingOwed DEF Told, KeepsUp
<1>2. OwnWriteInv /\ [Next]_vars => OwnWriteInv'  BY NextOwn
<1>3. OwnWriteInv => OwnWriteShown
  BY DEF OwnWriteInv, KeepsUp, KeepsUpWith, OwnWriteShown
<1> QED  BY <1>1, <1>2, <1>3, PTL DEF Spec

-----------------------------------------------------------------------------
\* Dialogs.  While a form with a dialog waits, that dialog is the open one; no
\* other opens over it, it does not close but by the reply or with its page, and
\* what removes its card from the page also lets go of the reply.
DialogInv == TypeInv /\ ReplyFindsItsDialog

LEMMA LeftBehind ==
  ASSUME \A s \in Slots : ~sent'[s].watched
  PROVE  ReplyFindsItsDialog'
  BY DEF ReplyFindsItsDialog

\* Nothing that is watched is new, and the dialog stays.
LEMMA DialogKept ==
  ASSUME DialogInv, UNCHANGED dialog,
         \A s \in Slots : sent'[s].watched =>
           sent[s].watched /\ sent'[s].form = sent[s].form /\ sent'[s].row = sent[s].row
  PROVE  ReplyFindsItsDialog'
  BY DEF DialogInv, ReplyFindsItsDialog

LEMMA WatchedForms ==
  ASSUME DialogInv, NEW s \in Slots, sent[s].watched
  PROVE  /\ sent[s].form \in FormNames /\ sent[s].form # "none"
         /\ AllForms[sent[s].form].modal =>
              ~AllForms[sent[s].form].perRow /\ dialog.form = sent[s].form
<1>1. sent[s].form \in FormNames  BY DEF DialogInv, TypeInv, SentForms
<1> QED  BY <1>1, FormShapes DEF Shaped, DialogInv, ReplyFindsItsDialog

LEMMA LoadDialog == ASSUME NEW p, Load(p)  PROVE ReplyFindsItsDialog'
  BY LeftBehind DEF Load, IdleWrite

LEMMA EnterDialog ==
  ASSUME DialogInv, NEW p, NEW account, Enter(p, account)
  PROVE  ReplyFindsItsDialog'
  BY LeftBehind, MutationShapes DEF Enter, ClearContent, DialogInv

LEMMA SessionDialog == ASSUME DialogInv, Session  PROVE ReplyFindsItsDialog'
<1>1. CASE UNCHANGED <<dialog, sent>>  BY <1>1, DialogKept
<1>2. CASE \E p, account : Enter(p, account)  BY <1>2, EnterDialog
<1>3. CASE Reload  BY <1>3, LoadDialog DEF Reload
<1> QED  BY <1>1, <1>2, <1>3 DEF Session, Restore, SignOut, SignIn, SessionEnds, Navigate, formVars

LEMMA CacheDialog == ASSUME DialogInv, Cache  PROVE ReplyFindsItsDialog'
<1> USE DEF Unauthorized
<1>1. sent \in [Slots -> Mutation]  BY DEF DialogInv, TypeInv, TypeOK
<1>2. CASE \E q \in Query : ServeFetch(q) \/ Refetch(q)
  BY <1>2, DialogKept DEF ServeFetch, Refetch, formVars
<1>3. CASE \E p : Load(p)  BY <1>3, LoadDialog
<1>4. CASE ReceiveList /\ ~\E p : Load(p)
  <2>1. dialog' = dialog  BY <1>4 DEF ReceiveList, formVars
  <2>2. \A s \in Slots : /\ sent'[s].watched => sent[s].watched
                         /\ sent'[s].form = sent[s].form /\ sent'[s].row = sent[s].row
    BY <1>1, <1>4 DEF ReceiveList, Mutation
  <2> QED  BY <2>1, <2>2, DialogKept
<1>5. CASE ReceiveGate /\ ~\E p : Load(p)
  <2> DEFINE gate == Answered("gate")
             is == Admitted(page, user) /\ Passes(page, gate)
  <2>1. CASE ~is
    BY <1>5, <2>1, LeftBehind, MutationShapes DEF ReceiveGate, ClearContent, DialogInv
  <2>2. CASE is
    <3>1. /\ dialog' = IF Removed(dialog.form, gate.data.facts) THEN NoDialog ELSE dialog
          /\ sent' = [s \in Slots |-> [sent[s] EXCEPT !.watched =
                        @ /\ ~Removed(sent[s].form, gate.data.facts)]]
      BY <1>5, <2>2 DEF ReceiveGate
    <3>2. \A s \in Slots :
            /\ sent'[s].watched => sent[s].watched /\ ~Removed(sent[s].form, gate.data.facts)
            /\ sent'[s].form = sent[s].form /\ sent'[s].row = sent[s].row
      BY <1>1, <3>1 DEF Mutation
    <3> HIDE DEF gate, is
    <3> QED  BY <3>1, <3>2, WatchedForms DEF DialogInv, ReplyFindsItsDialog
  <2> QED  BY <2>1, <2>2
<1> QED  BY <1>2, <1>3, <1>4, <1>5 DEF Cache

LEMMA OpenDialog ==
  ASSUME DialogInv, NEW n \in FormNames, NEW row, Open(n, row)
  PROVE  ReplyFindsItsDialog'
<1>1. dialog.form = "none" /\ UNCHANGED sent  BY DEF Open, NoDialog
<1>2. \A s \in Slots : sent[s].watched => ~AllForms[sent[s].form].modal
  BY <1>1, WatchedForms
<1> QED  BY <1>1, <1>2 DEF ReplyFindsItsDialog

LEMMA CloseDialog ==
  ASSUME DialogInv, NEW how, Close(how)
  PROVE  ReplyFindsItsDialog'
<1>1. UNCHANGED sent /\ ~Waiting(dialog.form, dialog.row)  BY DEF Close
<1>2. \A s \in Slots : sent[s].watched => ~AllForms[sent[s].form].modal
  BY <1>1, WatchedForms DEF Waiting
<1> QED  BY <1>1, <1>2 DEF ReplyFindsItsDialog

LEMMA SubmitDialog ==
  ASSUME DialogInv, NEW n \in FormNames, NEW row, Submit(n, row)
  PROVE  ReplyFindsItsDialog'
<1>1. sent \in [Slots -> Mutation]  BY DEF DialogInv, TypeInv, TypeOK
<1>2. PICK s \in Slots :
        sent' = [t \in Slots |-> IF t = s THEN Write(n, row)
                                 ELSE [sent[t] EXCEPT !.watched = @ /\ sent[t].form # n]]
  BY DEF Submit
<1>3. \A t \in Slots : t # s =>
        /\ sent'[t].watched => sent[t].watched
        /\ sent'[t].form = sent[t].form /\ sent'[t].row = sent[t].row
  BY <1>1, <1>2 DEF Mutation
<1>4. sent'[s].form = n /\ sent'[s].row = row
  BY <1>2 DEF Write
<1>5. dialog' = dialog  BY DEF Submit, formVars
<1>6. AllForms[n].modal => dialog.form = n /\ (AllForms[n].asks \/ row = dialog.row)
  BY DEF Submit, Opened
<1> QED
  BY <1>3, <1>4, <1>5, <1>6 DEF DialogInv, ReplyFindsItsDialog

LEMMA ServeWriteDialog ==
  ASSUME DialogInv, NEW s \in Slots, ServeWrite(s)
  PROVE  ReplyFindsItsDialog'
<1>1. sent \in [Slots -> Mutation]  BY DEF DialogInv, TypeInv, TypeOK
<1>2. PICK code : Reply(s, code)  BY DEF ServeWrite
<1>3. \A t \in Slots : /\ sent'[t].watched = sent[t].watched
                       /\ sent'[t].form = sent[t].form /\ sent'[t].row = sent[t].row
  BY <1>1, <1>2 DEF Reply, Mutation
<1>4. dialog' = dialog  BY DEF ServeWrite, formVars
<1> QED  BY <1>3, <1>4, DialogKept

LEMMA ReceiveWriteDialog ==
  ASSUME DialogInv, NEW s \in Slots, ReceiveWrite(s)
  PROVE  ReplyFindsItsDialog'
<1> DEFINE n == sent[s].form
<1>1. CASE \E p : Load(p)  BY <1>1, LoadDialog
<1>2. CASE ~(sent[s].code = "UNAUTHORIZED" /\ page # Login[ScopeOf(sent[s].by)])
  <2>1. sent \in [Slots -> Mutation]  BY DEF DialogInv, TypeInv, TypeOK
  <2>2. ~IdleWrite.watched  BY DEF IdleWrite
  <2>3. \A t \in Slots : sent'[t].watched =>
          /\ t # s /\ sent[t].watched
          /\ sent'[t].form = sent[t].form /\ sent'[t].row = sent[t].row
          /\ sent[s].watched => sent[t].form # n
    <3>1. CASE sent[s].watched
      <4>1. sent' = [t \in Slots |-> IF t = s THEN IdleWrite
                                     ELSE [sent[t] EXCEPT !.watched = @ /\ sent[t].form # n]]
        BY <1>2, <3>1 DEF ReceiveWrite
      <4> QED  BY <2>1, <2>2, <4>1 DEF Mutation
    <3>2. CASE ~sent[s].watched
      <4>1. sent' = [sent EXCEPT ![s] = IdleWrite]  BY <1>2, <3>2 DEF ReceiveWrite
      <4> QED  BY <2>1, <2>2, <3>2, <4>1
    <3> QED  BY <3>1, <3>2
  <2>4. CASE UNCHANGED dialog  BY <2>3, <2>4, DialogKept
  <2>5. CASE sent[s].watched /\ AllForms[n].modal
    \* The open dialog is that of the reply, and no other reply is awaited in it.
    <3>1. \A t \in Slots : sent'[t].watched => ~AllForms[sent'[t].form].modal
      BY <2>3, <2>5, WatchedForms
    <3> QED  BY <3>1 DEF ReplyFindsItsDialog
  <2> QED  BY <1>2, <2>4, <2>5 DEF ReceiveWrite, formVars
<1> QED  BY <1>1, <1>2 DEF ReceiveWrite, Unauthorized

LEMMA NextDialog == ASSUME DialogInv, [Next]_vars  PROVE DialogInv'
<1>1. TypeInv'  BY NextTypes DEF DialogInv
<1>2. CASE Session  BY <1>1, <1>2, SessionDialog DEF DialogInv
<1>3. CASE Cache  BY <1>1, <1>3, CacheDialog DEF DialogInv
<1>4. CASE Dialogs
  <2>1. CASE \E n \in FormNames, row \in Rows \cup {NoRow} : Open(n, row) \/ Submit(n, row)
    BY <1>1, <2>1, OpenDialog, SubmitDialog DEF DialogInv
  <2>2. CASE \E how \in {"dismiss", "cancel"} : Close(how)
    BY <1>1, <2>2, CloseDialog DEF DialogInv
  <2>3. CASE \E s \in Slots : ServeWrite(s) \/ ReceiveWrite(s)
    BY <1>1, <2>3, ServeWriteDialog, ReceiveWriteDialog DEF DialogInv
  <2>4. CASE UNCHANGED <<dialog, sent>>
    BY <1>1, <2>4, DialogKept DEF DialogInv
  <2> QED
    BY <1>4, <2>1, <2>2, <2>3, <2>4 DEF Dialogs, Type, InviteAgain, Elsewhere, formVars
<1>5. CASE UNCHANGED vars
  BY <1>1, <1>5, DialogKept DEF vars, DialogInv
<1> QED  BY <1>2, <1>3, <1>4, <1>5 DEF Next

\* ReplyAtItsDialog: a reply that closes a dialog, or clears what was typed in it,
\* finds the dialog it was sent from, for the row it was sent for.
THEOREM ReplyAtItsDialog == Spec => []ReplyFindsItsDialog
<1>1. Init => DialogInv
  <2> SUFFICES ASSUME Init  PROVE ReplyFindsItsDialog
    BY InitTypes DEF DialogInv
  <2>1. \A s \in Slots : ~sent[s].watched  BY DEF Init, IdleWrite
  <2> QED  BY <2>1 DEF ReplyFindsItsDialog
<1>2. DialogInv /\ [Next]_vars => DialogInv'  BY NextDialog
<1>3. DialogInv => ReplyFindsItsDialog  BY DEF DialogInv
<1> QED  BY <1>1, <1>2, <1>3, PTL DEF Spec
===============================================================================
