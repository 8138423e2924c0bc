-------------------------------- MODULE Console --------------------------------
(***************************************************************************)
(* One browser tab on the activity workspace or the platform console:      *)
(* signing in, moving between pages, the query cache behind a page, and    *)
(* the dialogs and mutations of ActivityForms and PlatformForms.           *)
(*                                                                         *)
(* A page reads two queries: "gate", the dashboard of the activity, which  *)
(* every workspace page waits for, and "list", its own.  The server's data *)
(* is a version, counted by the writes, and the facts of the activity.     *)
(* A fetch and a write are first at the "server", then on their way back   *)
(* to the "browser"; a reply is UNAUTHORIZED when the session has ended,   *)
(* and FAILED for a lost request or reply and for every other refusal.     *)
(***************************************************************************)
EXTENDS ActivityForms, PlatformForms, Naturals

CONSTANTS
  Starts,     \* the facts of the activity when the tab is opened
  Rows,       \* the rows of a list; none of them is NoRow
  NoRow,
  FormNames,  \* bound: the writes a run looks at
  Kept,       \* bound: the forms whose typed text a run follows
  Pages,      \* bound: the pages a run visits
  Accounts,   \* bound: who may sign in
  MaxWrites,  \* bound: how often the server's data changes
  Slots       \* bound: the writes in flight at once

AllForms == [n \in (DOMAIN ActivityForm) \cup (DOMAIN PlatformForm) |->
              IF n \in DOMAIN ActivityForm THEN ActivityForm[n] ELSE PlatformForm[n]]
AllPages == [p \in (DOMAIN ActivityPage) \cup (DOMAIN PlatformPages) |->
              IF p \in DOMAIN ActivityPage THEN ActivityPage[p] ELSE PlatformPages[p]]

ASSUME FormsAssumption ==
  /\ \A n \in DOMAIN AllForms : AllForms[n] \in Form
  /\ \A p \in DOMAIN AllPages : AllPages[p] \in Page
  /\ FormNames \subseteq DOMAIN AllForms /\ Kept \subseteq FormNames
  /\ Pages \subseteq DOMAIN AllPages
  /\ Accounts \subseteq {"OWNER", "ADMIN", "SUPER_ADMIN"}
ASSUME StartAssumption ==
  \A facts \in Starts : \E mode \in Mode, ranking \in {"frozen", "unfrozen"},
                            refill \in {"paused", "running"} :
    facts \ {"writable"} = {mode, ranking, refill}
ASSUME BoundAssumption == {NoRow, "nothing"} \cap Rows = {} /\ MaxWrites \in Nat

VARIABLES
  user,       \* the account AuthProvider holds, or "none"
  restoring,  \* AuthProvider's probes are not over
  cookies,    \* the account whose session each console's cookie carries
  server,     \* the data behind the pages
  page,       \* the path: a page, or the login page of a console
  queries,    \* the observed entries of the query cache
  owed,       \* history: the version of this tab's last acknowledged write
  dialog,     \* the open dialog and the row it was opened for
  sentTo,     \* an invitation dialog shows "sent" instead of its form
  text,       \* what each followed form's text was typed for: a row, NoRow or Nothing
  sent        \* the mutations in flight

vars == <<user, restoring, cookies, server, page, queries, owed, dialog, sentTo, text, sent>>
sessionVars == <<user, restoring, cookies, page>>
formVars == <<dialog, sentTo, text>>

Scope == {"activity", "platform"}
Query == {"gate", "list"}
Login == [activity |-> "login", platform |-> "login/platform"]
ScopeOf(account) == IF account = "SUPER_ADMIN" THEN "platform" ELSE "activity"

NoData == [version |-> 0, facts |-> {}, loaded |-> FALSE]
Loaded(data) == [version |-> data.version, facts |-> data.facts, loaded |-> TRUE]
IdleFetch == [at |-> "idle", code |-> "OK", data |-> NoData]
Fetch == [IdleFetch EXCEPT !.at = "server"]
NoQuery == [data |-> NoData, error |-> "OK", fetch |-> IdleFetch]
NoDialog == [form |-> "none", row |-> NoRow]
Nothing == "nothing"
NoText == [n \in Kept |-> Nothing]
IdleWrite == [at |-> "idle", form |-> "none", row |-> NoRow, code |-> "OK", by |-> "none",
              version |-> 0, watched |-> FALSE]

-----------------------------------------------------------------------------
\* What is on the screen.

\* ProtectedRoute: the route of a page admits the roles of its console.
Admitted(p, account) ==
  p \in Pages /\ account # "none" /\ ScopeOf(account) = AllPages[p].console
\* WorkspaceGate renders its children only when the dashboard is there.
Passes(p, gate) ==
  AllPages[p].console = "activity" => gate.data.loaded /\ gate.error = "OK"
OnScreen == Admitted(page, user) /\ Passes(page, queries["gate"])
Lists(p, account) == AllPages[p].lists /\ (AllPages[p].ownerOnly => account = "OWNER")
\* A query is active while a mounted component observes it.
Active(q) ==
  IF q = "gate" THEN Admitted(page, user) /\ AllPages[page].console = "activity"
  ELSE OnScreen /\ Lists(page, user)
ListReady == queries["list"].data.loaded /\ queries["list"].error = "OK"
Facts == queries["gate"].data.facts

\* A form's opener, or its button, is on the screen and enabled.
Offered(n) ==
  LET f == AllForms[n]
  IN /\ OnScreen /\ f.page = page
     /\ f.role = "OWNER" => user = "OWNER"
     /\ f.shown \cup f.enabled \subseteq Facts
     /\ f.rows \/ f.nested => ListReady

\* The form still waits for a reply: its buttons are disabled and its dialog
\* does not close. A component only watches the mutation it sent last.
Waiting(n, row) ==
  \E s \in Slots : /\ sent[s].watched /\ sent[s].form = n
                   /\ AllForms[n].perRow => sent[s].row = row

-----------------------------------------------------------------------------
\* Mounting and unmounting.

\* What a newly mounted list finds in the cache: nothing or an older reply, and
\* a fetch of its own or the reply to one that was left behind.
MountedList(p, account) ==
  IF ~Lists(p, account) THEN {NoQuery}
  ELSE LET older == {[version |-> v, facts |-> {}, loaded |-> TRUE] : v \in 0 .. server.version}
       IN [data : older \cup {NoData}, error : {"OK"},
           fetch : {Fetch} \cup {[Fetch EXCEPT !.at = "browser", !.data = o] : o \in older}]

Refetched(q) ==
  [q EXCEPT !.fetch = IF @.at = "idle" THEN Fetch ELSE @,
            !.error = IF q.data.loaded THEN @ ELSE "OK"]
\* invalidateQueries drops the fetch in flight, unless it is the first one.
Restarted(q) == IF q.data.loaded THEN [q EXCEPT !.fetch = Fetch] ELSE Refetched(q)

\* The components of the page are gone, and their state with them; the
\* mutations go on and still run their callbacks.
Unwatched == [s \in Slots |-> [sent[s] EXCEPT !.watched = FALSE]]
ClearContent ==
  /\ dialog' = NoDialog /\ sentTo' = FALSE /\ text' = NoText
  /\ sent' = Unwatched

\* The path p is rendered for the account.
Enter(p, account) ==
  LET gate == IF Admitted(p, account) /\ AllPages[p].console = "activity"
                 /\ ~Active("gate")
              THEN Refetched(queries["gate"]) ELSE queries["gate"]
  IN /\ page' = p /\ user' = account
     /\ IF Admitted(p, account) /\ Passes(p, gate)
        THEN \E list \in MountedList(p, account) : queries' = [gate |-> gate, list |-> list]
        ELSE queries' = [gate |-> gate, list |-> NoQuery]
     /\ owed' = [gate |-> IF Active("gate") THEN owed["gate"] ELSE 0, list |-> 0]
     /\ ClearContent

\* The document is loaded: nothing of the tab survives.
Load(p) ==
  /\ page' = p /\ user' = "none" /\ restoring' = TRUE
  /\ queries' = [q \in Query |-> NoQuery] /\ owed' = [q \in Query |-> 0]
  /\ dialog' = NoDialog /\ sentTo' = FALSE /\ text' = NoText
  /\ sent' = [s \in Slots |-> IdleWrite]
  /\ UNCHANGED <<cookies, server>>

-----------------------------------------------------------------------------
\* The session.

\* The probes answer with an account whose session is alive, or find none.
Restore ==
  /\ restoring /\ restoring' = FALSE
  /\ \E account \in {cookies[scope] : scope \in Scope} \cup {"none"} :
       IF account # "none" THEN Enter(page, account)
       ELSE IF page \in Pages /\ user = "none"
            THEN Enter(Login[AllPages[page].console], "none")
            ELSE UNCHANGED <<user, page, queries, owed, formVars, sent>>
  /\ UNCHANGED <<cookies, server>>

\* Once the probes are over: one answered later would replace this account.
SignIn(account) ==
  /\ ~restoring /\ page = Login[ScopeOf(account)]
  /\ cookies' = [cookies EXCEPT ![ScopeOf(account)] = account]
  /\ \E p \in Pages : AllPages[p].console = ScopeOf(account) /\ Enter(p, account)
  /\ UNCHANGED <<restoring, server>>

\* The logout request is best effort.
SignOut ==
  /\ Admitted(page, user)
  /\ \/ cookies' = [cookies EXCEPT ![ScopeOf(user)] = "none"]
     \/ UNCHANGED cookies
  /\ Enter(Login[ScopeOf(user)], "none")
  /\ UNCHANGED <<restoring, server>>

SessionEnds(scope) ==
  /\ cookies[scope] # "none"
  /\ cookies' = [cookies EXCEPT ![scope] = "none"]
  /\ UNCHANGED <<user, restoring, server, page, queries, owed, formVars, sent>>

\* From one page to another, or from the page a role is refused to the login.
Navigate(p) ==
  /\ user # "none" /\ page \in Pages /\ p # page
  /\ IF Admitted(page, user) THEN Admitted(p, user) ELSE p = Login["activity"]
  /\ Enter(p, user)
  /\ UNCHANGED <<restoring, cookies, server>>

Reload == Load(page)

\* installUnauthorizedRedirect: to the login of the request's console, once.
Unauthorized(scope) == page # Login[scope] /\ Load(Login[scope])

-----------------------------------------------------------------------------
\* The queries.

ServeFetch(q) ==
  /\ queries[q].fetch.at = "server"
  /\ LET scope == IF q = "gate" THEN "activity" ELSE AllPages[page].console
     IN \E code \in {IF cookies[scope] = "none" THEN "UNAUTHORIZED" ELSE "OK", "FAILED"} :
          queries' = [queries EXCEPT ![q].fetch =
            [at |-> "browser", code |-> code,
             data |-> IF code # "OK" THEN NoData
                      ELSE IF q = "gate" THEN Loaded(server)
                      ELSE [Loaded(server) EXCEPT !.facts = {}]]]
  /\ UNCHANGED <<sessionVars, server, owed, formVars, sent>>

\* A failed refresh keeps the data and is shown instead of it.
Answered(q) ==
  [data |-> IF queries[q].fetch.code = "OK" THEN queries[q].fetch.data ELSE queries[q].data,
   error |-> queries[q].fetch.code, fetch |-> IdleFetch]

\* A component nested in the list goes when the list fails, and is built anew
\* when the version it is keyed by has changed.
Nested(n) == n # "none" /\ AllForms[n].nested
ReceiveList ==
  /\ queries["list"].fetch.at = "browser"
  /\ IF queries["list"].fetch.code = "UNAUTHORIZED" /\ page # Login[AllPages[page].console]
     THEN Unauthorized(AllPages[page].console)
     ELSE /\ queries' = [queries EXCEPT !["list"] = Answered("list")]
          /\ \/ queries'["list"].error = "OK" /\ UNCHANGED sent
             \/ /\ \/ queries'["list"].error # "OK"
                   \/ queries'["list"].data.version # queries["list"].data.version
                /\ sent' = [s \in Slots |->
                     [sent[s] EXCEPT !.watched = @ /\ ~Nested(sent[s].form)]]
          /\ UNCHANGED <<sessionVars, server, owed, formVars>>

\* The gate may close, which unmounts the page, or open, which mounts it; new
\* facts may remove a card from it.
Removed(n, facts) == n # "none" /\ ~(AllForms[n].shown \subseteq facts)
ReceiveGate ==
  /\ queries["gate"].fetch.at = "browser"
  /\ IF queries["gate"].fetch.code = "UNAUTHORIZED" /\ page # Login["activity"]
     THEN Unauthorized("activity")
     ELSE /\ LET gate == Answered("gate")
                 was == OnScreen
                 is == Admitted(page, user) /\ Passes(page, gate)
             IN /\ IF is /\ ~was
                   THEN \E list \in MountedList(page, user) :
                          queries' = [gate |-> gate, list |-> list]
                   ELSE queries' = [gate |-> gate,
                                    list |-> IF is THEN queries["list"] ELSE NoQuery]
                /\ owed' = IF is /\ was THEN owed ELSE [owed EXCEPT !["list"] = 0]
                /\ IF ~is THEN ClearContent
                   ELSE /\ dialog' = IF Removed(dialog.form, gate.data.facts) THEN NoDialog ELSE dialog
                        /\ sent' = [s \in Slots |-> [sent[s] EXCEPT !.watched =
                                      @ /\ ~Removed(sent[s].form, gate.data.facts)]]
                        /\ UNCHANGED <<sentTo, text>>
          /\ UNCHANGED <<sessionVars, server>>

\* The retry button of an error, or the browser is online again.
Refetch(q) ==
  /\ Active(q) /\ queries[q].fetch.at = "idle"
  /\ queries' = [queries EXCEPT ![q] = Refetched(@)]
  /\ UNCHANGED <<sessionVars, server, owed, formVars, sent>>

-----------------------------------------------------------------------------
\* The forms.

Open(n, row) ==
  /\ Offered(n) /\ AllForms[n].modal /\ dialog = NoDialog
  /\ AllForms[n].rows <=> row # NoRow
  /\ dialog' = [form |-> n, row |-> row]
  /\ UNCHANGED <<sessionVars, server, queries, owed, sentTo, text, sent>>

Opened(n) == OnScreen /\ dialog.form = n
Typed(n, row) == [text EXCEPT ![n] = row]

\* By its cross or the Escape key ("dismiss"), or by its own button ("cancel").
\* Mutant: a dialog closes while it waits.
CloseAnyTime(how) ==
  /\ OnScreen /\ dialog # NoDialog
  /\ dialog' = NoDialog
  /\ text' = IF dialog.form \in Kept /\ how \in AllForms[dialog.form].clears
             THEN Typed(dialog.form, Nothing) ELSE text
  /\ UNCHANGED <<sessionVars, server, queries, owed, sentTo, sent>>
Close(how) ==
  /\ OnScreen /\ dialog # NoDialog /\ ~Waiting(dialog.form, dialog.row)
  /\ dialog' = NoDialog
  /\ text' = IF dialog.form \in Kept /\ how \in AllForms[dialog.form].clears
             THEN Typed(dialog.form, Nothing) ELSE text
  /\ UNCHANGED <<sessionVars, server, queries, owed, sentTo, sent>>

Type(n, row) ==
  /\ Opened(n) /\ ~Waiting(n, dialog.row) /\ ~(sentTo /\ ~AllForms[n].closes)
  /\ IF AllForms[n].asks THEN row # NoRow ELSE row = dialog.row
  /\ text' = Typed(n, row)
  /\ UNCHANGED <<sessionVars, server, queries, owed, dialog, sentTo, sent>>

\* "Invite another": the form is back.
InviteAgain(n) ==
  /\ Opened(n) /\ sentTo /\ ~AllForms[n].closes
  /\ sentTo' = FALSE
  /\ UNCHANGED <<sessionVars, server, queries, owed, dialog, text, sent>>

Write(n, row) ==
  [at |-> "server", form |-> n, row |-> row, code |-> "OK", by |-> user,
   version |-> 0, watched |-> TRUE]
Submit(n, row) ==
  /\ LET f == AllForms[n]
     IN /\ f.rows <=> row # NoRow
        /\ IF f.modal
           THEN /\ Opened(n) /\ f.checked \subseteq Facts
                /\ ~f.closes => ~sentTo
                /\ f.asks \/ row = dialog.row
                /\ n \in Kept => text[n] # Nothing /\ (f.asks => row = text[n])
           ELSE Offered(n)
  /\ ~Waiting(n, row)
  /\ \E s \in Slots :
       /\ sent[s].at = "idle" /\ \A t \in Slots : sent[t].at = "idle" => s <= t
       /\ sent' = [t \in Slots |->
            IF t = s THEN Write(n, row)
            ELSE [sent[t] EXCEPT !.watched = @ /\ sent[t].form # n]]
  /\ UNCHANGED <<sessionVars, server, queries, owed, formVars>>

\* requireMember and requirePlatform: whose write a route takes.  A start is the
\* owner's, although its card is rendered for administrators too.
Writers(n) ==
  IF n = "startAdmission" \/ AllForms[n].role = "OWNER" THEN {"OWNER"}
  ELSE IF AllForms[n].role = "ADMIN" THEN {"OWNER", "ADMIN"}
  ELSE {"SUPER_ADMIN"}
\* The services ask for what the pages ask for, but what the write itself ends.
Accepts(n, account) ==
  /\ account \in Writers(n)
  /\ AllForms[n].shown \cup AllForms[n].enabled
       \subseteq server.facts \cup (AllForms[n].takes \ {"writable"})
\* A start, a pause, a resume or a mode repeated is answered alike and changes
\* nothing.
Repeated(n) == AllForms[n].takes # {} /\ AllForms[n].takes \cap server.facts = {}
\* Mutant: the write is applied twice.
WrittenTwice(n) ==
  [version |-> server.version + 2,
   facts |-> (server.facts \ AllForms[n].takes) \cup AllForms[n].gives]
Written(n) ==
  IF Repeated(n) THEN server
  ELSE [version |-> server.version + 1,
        facts |-> (server.facts \ AllForms[n].takes) \cup AllForms[n].gives]

Reply(s, code) ==
  sent' = [sent EXCEPT ![s].at = "browser", ![s].code = code, ![s].version = server'.version]
ServeWrite(s) ==
  /\ sent[s].at = "server"
  /\ LET n == sent[s].form
         cookie == cookies[ScopeOf(sent[s].by)]
     IN \/ cookie = "none" /\ UNCHANGED server /\ Reply(s, "UNAUTHORIZED")
        \/ UNCHANGED server /\ Reply(s, "FAILED")
        \/ /\ cookie # "none" /\ Accepts(n, cookie)
           /\ Repeated(n) \/ server.version < MaxWrites
           /\ server' = Written(n)
           /\ \E code \in {"OK", "FAILED"} : Reply(s, code)
  /\ UNCHANGED <<sessionVars, queries, owed, formVars>>

\* A success refreshes the queries under the same key that are active now.
SameKey(n) == page \in Pages /\ AllPages[page].key = AllPages[AllForms[n].page].key
\* Mutant: a fetch in flight is left to finish.
RefreshedJoined(n) ==
  [q \in Query |-> IF AllForms[n].refreshes /\ SameKey(n) /\ Active(q)
                   THEN Refetched(queries[q]) ELSE queries[q]]
Refreshed(n) ==
  [q \in Query |-> IF AllForms[n].refreshes /\ SameKey(n) /\ Active(q)
                   THEN Restarted(queries[q]) ELSE queries[q]]

\* The writes whose success handlers say nothing to the cache.
Silent == {"testActivitySmtp", "testPlatformSmtp", "resendOwnerInvitation"}
ReceiveWrite(s) ==
  /\ sent[s].at = "browser"
  /\ LET n == sent[s].form
         f == AllForms[n]
         done == [t \in Slots |-> IF t = s THEN IdleWrite
                                  ELSE [sent[t] EXCEPT !.watched = @ /\ sent[t].form # n]]
     IN IF sent[s].code = "UNAUTHORIZED" /\ page # Login[ScopeOf(sent[s].by)]
        THEN Unauthorized(ScopeOf(sent[s].by))
        ELSE /\ sent' = IF sent[s].watched THEN done ELSE [sent EXCEPT ![s] = IdleWrite]
             /\ IF sent[s].code = "OK"
                THEN /\ queries' = Refreshed(n)
                     /\ owed' = [q \in Query |->
                          IF n \notin Silent /\ SameKey(n) /\ Active(q) /\ queries[q].data.loaded
                             /\ sent[s].version > owed[q]
                          THEN sent[s].version ELSE owed[q]]
                ELSE UNCHANGED <<queries, owed>>
             /\ IF sent[s].code = "OK" /\ sent[s].watched /\ f.modal
                THEN /\ dialog' = IF f.closes THEN NoDialog ELSE dialog
                     /\ sentTo' = (sentTo \/ ~f.closes)
                     /\ text' = IF n \in Kept /\ "success" \in f.clears
                                THEN Typed(n, Nothing) ELSE text
                ELSE UNCHANGED formVars
             /\ UNCHANGED <<sessionVars, server>>

\* Somebody else, or this person in another tab, changes the same data.
Elsewhere(n) ==
  /\ server.version < MaxWrites /\ \E account \in {"OWNER", "ADMIN", "SUPER_ADMIN"} : Accepts(n, account)
  /\ server' = Written(n)
  /\ UNCHANGED <<sessionVars, queries, owed, formVars, sent>>

-----------------------------------------------------------------------------
Init ==
  /\ user = "none" /\ restoring = TRUE
  /\ cookies \in {c \in [Scope -> Accounts \cup {"none"}] :
                    \A scope \in Scope : c[scope] # "none" => ScopeOf(c[scope]) = scope}
  /\ server \in [version : {0}, facts : Starts]
  /\ page \in Pages \cup {Login[scope] : scope \in Scope}
  /\ queries = [q \in Query |-> NoQuery] /\ owed = [q \in Query |-> 0]
  /\ dialog = NoDialog /\ sentTo = FALSE /\ text = NoText
  /\ sent = [s \in Slots |-> IdleWrite]

Session ==
  \/ Restore \/ SignOut \/ Reload
  \/ \E account \in Accounts : SignIn(account)
  \/ \E scope \in Scope : SessionEnds(scope)
  \/ \E p \in Pages \cup {Login["activity"]} : Navigate(p)

Cache == ReceiveList \/ ReceiveGate \/ \E q \in Query : ServeFetch(q) \/ Refetch(q)

Dialogs ==
  \/ \E n \in FormNames, row \in Rows \cup {NoRow} : Open(n, row) \/ Submit(n, row)
  \/ \E how \in {"dismiss", "cancel"} : Close(how)
  \/ \E n \in Kept, row \in Rows \cup {NoRow} : Type(n, row)
  \/ \E n \in FormNames : InviteAgain(n) \/ Elsewhere(n)
  \/ \E s \in Slots : ServeWrite(s) \/ ReceiveWrite(s)

Next == Session \/ Cache \/ Dialogs
Spec == Init /\ [][Next]_vars

-----------------------------------------------------------------------------
\* Every variable stays in its domain.
Data == [version : 0 .. MaxWrites, facts : SUBSET Fact, loaded : BOOLEAN]
Code == {"OK", "FAILED", "UNAUTHORIZED"}
At == {"idle", "server", "browser"}
QueryState == [data : Data, error : Code, fetch : [at : At, code : Code, data : Data]]
Mutation == [at : At, form : FormNames \cup {"none"}, row : Rows \cup {NoRow}, code : Code,
             by : Accounts \cup {"none"}, version : 0 .. MaxWrites, watched : BOOLEAN]
TypeOK ==
  /\ user \in Accounts \cup {"none"} /\ restoring \in BOOLEAN
  /\ cookies \in [Scope -> Accounts \cup {"none"}]
  /\ server \in [version : 0 .. MaxWrites, facts : SUBSET Fact]
  /\ page \in Pages \cup {Login[scope] : scope \in Scope}
  /\ queries \in [Query -> QueryState] /\ owed \in [Query -> 0 .. MaxWrites]
  /\ dialog \in [form : FormNames \cup {"none"}, row : Rows \cup {NoRow}]
  /\ sentTo \in BOOLEAN /\ text \in [Kept -> Rows \cup {NoRow, Nothing}]
  /\ sent \in [Slots -> Mutation]

\* A page at rest shows every write this tab was told had succeeded, wherever it
\* was sent from and whatever fetch was in flight then, provided the page had its
\* first data by then and the write is not one of Silent.
OwnWriteShown ==
  \A q \in Query :
    Active(q) /\ queries[q].fetch.at = "idle" /\ queries[q].error = "OK"
      => queries[q].data.version >= owed[q]

\* A reply that closes a dialog closes the one it was sent from: while a form
\* waits for its reply, that form's dialog stays open, for the same row.
ReplyFindsItsDialog ==
  \A s \in Slots :
    LET f == AllForms[sent[s].form]
    IN sent[s].watched /\ f.modal
         => dialog.form = sent[s].form /\ (f.asks \/ dialog.row = sent[s].row)

\* The comment in OwnerInviteDialog: opening the dialog resets the form, which
\* then holds nothing of the row it was opened for before.
InvitationReset ==
  [][\A n \in Kept : dialog.form # n /\ dialog'.form = n
       => ~sentTo' /\ text'[n] \in {Nothing, dialog'.row}]_vars
===============================================================================
