------------------------------ MODULE Console -------------------------------
(***************************************************************************)
(* The pages and forms of main.py as one browser uses them: the tabs share *)
(* one cookie, which holds the whole session.  A request carries a copy of *)
(* the cookie, its handler changes the copy, and the answer puts the copy  *)
(* back, whatever became of the cookie meanwhile.  The templates decide    *)
(* where a tab goes with an answer.  What a login or a stop does to an     *)
(* account besides is in AccountSession and KeepAliveService.  Left out:   *)
(* the answer to the challenge of an SMS login (api_login_sms_trust), with *)
(* pending_trust in the session; it may select an account that was deleted *)
(* since, which the next me unselects.                                     *)
(***************************************************************************)
EXTENDS Naturals, Sequences

CONSTANTS
    Tabs,       \* of the browser
    Passwords,  \* an admin may choose
    MaxId       \* bound: account ids

ASSUME ConsoleAssumption == MaxId \in Nat

Ids == 1..MaxId

VARIABLES
    admins,    \* admin_users: the password of each id
    accounts,  \* ids of accounts
    lastId,    \* AUTOINCREMENT of accounts
    cookie,    \* the session cookie
    tab,       \* what each tab shows, and its request
    stolen     \* history: tabs whose page another tab's answer or a new database overtook

store == <<admins, accounts, lastId>>
vars == <<store, cookie, tab, stolen>>

(* admin_user_id and account_id; 0: the key is missing. *)
SessionData == [admin : {0, 1}, account : 0..MaxId]
NoSession == [admin |-> 0, account |-> 0]

Pages == {"blank", "setup", "login", "accounts", "overview", "account"}
Paths == {"/", "/setup", "/admin/login", "/overview", "/accounts", "/account"}
Forms == {"setup", "login", "change", "logout", "select", "delete", "add",
          "logoutAccount", "me", "control"}

(* Where an answer leads: a page, another GET, or nowhere. *)
Show(page, a) == [how |-> "show", page |-> page, account |-> a]
Go(path, a) == [how |-> "go", page |-> path, account |-> a]
Stay == [how |-> "stay", page |-> "", account |-> 0]

Request(what, a, c) ==
    [what |-> what, arg |-> a, sent |-> c, session |-> c, to |-> Stay,
     answered |-> FALSE]
NoRequest == Request("none", 0, NoSession)

Answer == [how : {"show", "go", "stay"}, page : Pages \cup Paths \cup {""}, account : 0..MaxId]
Tab == [page : Pages, account : 0..MaxId,
        request : [what : {"none"} \cup Paths \cup Forms, arg : 0..MaxId, sent : SessionData,
                   session : SessionData, to : Answer, answered : BOOLEAN]]

TypeOK ==
    /\ admins \in Seq(Passwords) /\ Len(admins) <= 1
    /\ accounts \subseteq Ids /\ lastId \in 0..MaxId /\ \A a \in accounts : a <= lastId
    /\ cookie \in SessionData
    /\ tab \in [Tabs -> Tab]
    /\ stolen \subseteq Tabs

Init ==
    /\ admins = <<>> /\ accounts = {} /\ lastId = 0
    /\ cookie = NoSession
    /\ tab = [t \in Tabs |-> [page |-> "blank", account |-> 0, request |-> NoRequest]]
    /\ stolen = {}

-----------------------------------------------------------------------------
(* The pages: where a GET with the session s leads, and the session it leaves. *)

HasAdmin == admins # <<>>

LoggedIn(s) == s.admin \in DOMAIN admins

Leads(to, s) == [to |-> to, session |-> s]

Index(s) ==
    CASE ~HasAdmin -> Leads(Go("/setup", 0), s)
      [] HasAdmin /\ ~LoggedIn(s) -> Leads(Go("/admin/login", 0), NoSession)
      [] HasAdmin /\ LoggedIn(s) ->
            Leads(IF accounts = {} THEN Show("accounts", 0) ELSE Go("/overview", 0), s)

(* Plausible bug: the setup page is only for browsers that are not logged in. *)
SetupPageForStrangers(s) ==
    Leads(IF HasAdmin \/ s.admin # 0 THEN Go("/admin/login", 0) ELSE Show("setup", 0), s)

SetupPage(s) == Leads(IF HasAdmin THEN Go("/admin/login", 0) ELSE Show("setup", 0), s)

AdminLoginPage(s) ==
    Leads(CASE ~HasAdmin -> Go("/setup", 0)
            [] HasAdmin /\ s.admin # 0 -> Go("/", 0)
            [] HasAdmin /\ s.admin = 0 -> Show("login", 0), s)

(* What the inner pages have in common: for whoever is logged in. *)
Guarded(s, answer) ==
    CASE ~HasAdmin -> Leads(Go("/setup", 0), s)
      [] HasAdmin /\ ~LoggedIn(s) -> Leads(Go("/admin/login", 0), s)
      [] HasAdmin /\ LoggedIn(s) -> answer

OverviewPage(s) ==
    Guarded(s, Leads(IF accounts = {} THEN Go("/accounts", 0) ELSE Show("overview", 0), s))

AccountsPage(s) == Guarded(s, Leads(Show("accounts", 0), s))

(* Plausible bug: the page does not select its account. *)
AccountDetailUnselected(s, a) ==
    Guarded(s, Leads(IF a \in accounts THEN Show("account", a) ELSE Go("/overview", 0), s))

(* The console of an account selects it. *)
AccountDetail(s, a) ==
    Guarded(s, IF a \in accounts THEN Leads(Show("account", a), [s EXCEPT !.account = a])
                                 ELSE Leads(Go("/overview", 0), s))

Page(path, a, s) ==
    CASE path = "/" -> Index(s)
      [] path = "/setup" -> SetupPage(s)
      [] path = "/admin/login" -> AdminLoginPage(s)
      [] path = "/overview" -> OverviewPage(s)
      [] path = "/accounts" -> AccountsPage(s)
      [] path = "/account" -> AccountDetail(s, a)

-----------------------------------------------------------------------------
(* The browser.                                                            *)

Free(t) == tab[t].request = NoRequest

(* The user opens or reloads a page. *)
Opens(t, path, a) ==
    /\ Free(t)
    /\ tab' = [tab EXCEPT ![t].request = Request(path, a, cookie)]
    /\ UNCHANGED <<store, cookie, stolen>>

(* The forms a page has; the API has change and me without a form. *)
FormsOf(page) ==
    CASE page = "blank" -> {}
      [] page = "setup" -> {"setup"}
      [] page = "login" -> {"login"}
      [] page = "accounts" -> {"select", "delete", "add", "me"}
      [] page = "overview" -> {"logout", "change", "me"}
      [] page = "account" -> {"logoutAccount", "control", "logout", "me"}

Submits(t, form, a) ==
    /\ Free(t) /\ form \in FormsOf(tab[t].page)
    /\ tab' = [tab EXCEPT ![t].request = Request(form, a, cookie)]
    /\ UNCHANGED <<store, cookie, stolen>>

(* SessionMiddleware: a session with something in it is set again with every
   answer, an emptied one is deleted.                                      *)
SetCookie(r, c) == IF r.session # NoSession \/ r.sent # NoSession THEN r.session ELSE c

(* The answer arrives: its cookie is stored, and the tab goes where it leads. *)
Receives(t) ==
    LET r == tab[t].request IN
    /\ r.answered
    /\ cookie' = SetCookie(r, cookie)
    /\ tab' = [u \in Tabs |->
          CASE u = t /\ r.to.how = "show" ->
                  [page |-> r.to.page, account |-> r.to.account, request |-> NoRequest]
            [] u = t /\ r.to.how = "go" ->
                  [tab[t] EXCEPT !.request = Request(r.to.page, r.to.account, cookie')]
            [] u = t /\ r.to.how = "stay" -> [tab[t] EXCEPT !.request = NoRequest]
            [] u # t -> tab[u]]
    /\ stolen' = (IF r.to.how = "show" THEN stolen \ {t} ELSE stolen)
                    \cup (IF cookie' # cookie THEN Tabs \ {t} ELSE {})
    /\ UNCHANGED store

-----------------------------------------------------------------------------
(* The handlers.  A handler that awaits the platform is the code after it.  *)

Asked(t, what) == tab[t].request.what = what /\ ~tab[t].request.answered

Session(t) == tab[t].request.session

Answers(t, to, s) ==
    /\ tab' = [tab EXCEPT ![t].request.answered = TRUE, ![t].request.to = to,
                          ![t].request.session = s]
    /\ UNCHANGED <<cookie, stolen>>

GetPage(t) ==
    LET r == tab[t].request IN
    /\ r.what \in Paths /\ ~r.answered
    /\ UNCHANGED store
    /\ LET p == Page(r.what, r.arg, r.session) IN Answers(t, p.to, p.session)

(* require_admin: 401, and a session of an admin that is gone is emptied. *)
Refuses(t) ==
    /\ \E form \in Forms \ {"setup", "login", "logout"} : Asked(t, form)
    /\ UNCHANGED store
    /\ ~LoggedIn(Session(t))
    /\ Answers(t, Stay, IF HasAdmin /\ Session(t).admin # 0 THEN NoSession ELSE Session(t))

Admitted(t, what) == Asked(t, what) /\ LoggedIn(Session(t))

CreateAdmin(password) == admins' = Append(admins, password)

(* Plausible bug: whoever still has the setup page makes another admin. *)
SetupSubmitAgain(t, password) ==
    /\ Asked(t, "setup")
    /\ UNCHANGED <<accounts, lastId>>
    /\ CreateAdmin(password)
    /\ Answers(t, Go("/", 0), [Session(t) EXCEPT !.admin = Len(admins')])

(* has_admin and create_admin without an await between them; a second admin, and
   a password that is not repeated or too short, are refused.              *)
SetupSubmit(t, password) ==
    /\ Asked(t, "setup")
    /\ UNCHANGED <<accounts, lastId>>
    /\ \/ /\ ~HasAdmin /\ CreateAdmin(password)
          /\ Answers(t, Go("/", 0), [Session(t) EXCEPT !.admin = Len(admins')])
       \/ Answers(t, Stay, Session(t)) /\ UNCHANGED admins

(* _verify_password: the hash with the stored salt is the stored hash. *)
Verifies(password, stored) == password = stored

(* The id of the admin with this password, 0 if there is none. *)
VerifyAdmin(password) == IF HasAdmin /\ Verifies(password, admins[1]) THEN 1 ELSE 0

(* Plausible bug: the id is in the session before the password is verified. *)
LoginSubmitUnverified(t, password) ==
    /\ Asked(t, "login")
    /\ UNCHANGED store
    /\ IF HasAdmin
         THEN Answers(t, IF VerifyAdmin(password) # 0 THEN Go("/", 0) ELSE Stay,
                      [Session(t) EXCEPT !.admin = 1])
         ELSE Answers(t, Stay, Session(t))

LoginSubmit(t, password) ==
    /\ Asked(t, "login")
    /\ UNCHANGED store
    /\ IF VerifyAdmin(password) # 0
         THEN Answers(t, Go("/", 0), [Session(t) EXCEPT !.admin = VerifyAdmin(password)])
         ELSE Answers(t, Stay, Session(t))

ChangeAdminPassword(id, old, new) ==
    admins' = IF Verifies(old, admins[id]) THEN [admins EXCEPT ![id] = new] ELSE admins

ChangePassword(t, old, new) ==
    /\ Admitted(t, "change")
    /\ UNCHANGED <<accounts, lastId>>
    /\ ChangeAdminPassword(Session(t).admin, old, new)
    /\ Answers(t, Stay, Session(t))

AdminLogout(t) ==
    /\ Asked(t, "logout")
    /\ UNCHANGED store
    /\ Answers(t, Go("/admin/login", 0), NoSession)

SelectAccount(t) ==
    LET a == tab[t].request.arg IN
    /\ Admitted(t, "select")
    /\ UNCHANGED store
    /\ IF a \in accounts THEN Answers(t, Go("/", 0), [Session(t) EXCEPT !.account = a])
                         ELSE Answers(t, Stay, Session(t))

(* After the stop of its keep-alive. *)
DeleteAccount(t) ==
    LET a == tab[t].request.arg IN
    /\ Admitted(t, "delete")
    /\ UNCHANGED <<admins, lastId>>
    /\ accounts' = accounts \ {a}
    /\ Answers(t, Go("/accounts", 0),
               IF Session(t).account = a THEN [Session(t) EXCEPT !.account = 0] ELSE Session(t))

(* api_login and its kin, once the platform accepted: the account is selected,
   but the SMS login of a device the platform does not know has the account
   stored and answers with a challenge.                                    *)
AddAccount(t, a) ==
    /\ Admitted(t, "add")
    /\ UNCHANGED admins
    /\ a \in accounts \/ (a = lastId + 1 /\ a <= MaxId)
    /\ accounts' = accounts \cup {a} /\ lastId' = IF a > lastId THEN a ELSE lastId
    /\ \/ Answers(t, Go("/", 0), [Session(t) EXCEPT !.account = a])
       \/ Answers(t, Stay, Session(t))

(* The platform refused. *)
AddFails(t) ==
    /\ Admitted(t, "add")
    /\ UNCHANGED store
    /\ Answers(t, Stay, Session(t))

LogoutAccount(t) ==
    /\ Admitted(t, "logoutAccount")
    /\ UNCHANGED store
    /\ Answers(t, Go("/overview", 0), [Session(t) EXCEPT !.account = 0])

(* A selected account that is gone is unselected. *)
Me(t) ==
    /\ Admitted(t, "me")
    /\ UNCHANGED store
    /\ Answers(t, Stay, IF Session(t).account \in accounts THEN Session(t)
                        ELSE [Session(t) EXCEPT !.account = 0])

(* Refresh, operate, keep-alive: they act on the selected account, and the
   page reloads when they succeeded; without a selection they answer 400.  *)
Control(t) ==
    /\ Admitted(t, "control")
    /\ UNCHANGED store
    /\ \/ Session(t).account # 0 /\ Answers(t, Go("/account", tab[t].account), Session(t))
       \/ Answers(t, Stay, Session(t))

(* The way out for a forgotten password: pcas.db is deleted and the program
   started again.  The browser keeps its cookie, which is signed with a key
   from the settings.  Requests under way fail, a page under way with them. *)
StartOver ==
    /\ HasAdmin
    /\ admins' = <<>> /\ accounts' = {} /\ lastId' = 0
    /\ tab' = [t \in Tabs |->
          [tab[t] EXCEPT !.request = NoRequest,
                         !.page = IF tab[t].request.what \in Paths THEN "blank" ELSE @]]
    /\ stolen' = Tabs
    /\ UNCHANGED cookie

-----------------------------------------------------------------------------
Handles(t) ==
    \/ GetPage(t) \/ Refuses(t) \/ AdminLogout(t) \/ SelectAccount(t) \/ DeleteAccount(t)
    \/ AddFails(t) \/ LogoutAccount(t) \/ Me(t) \/ Control(t)
    \/ \E a \in Ids : AddAccount(t, a)
    \/ \E p \in Passwords : SetupSubmit(t, p) \/ LoginSubmit(t, p)
    \/ \E p, q \in Passwords : ChangePassword(t, p, q)

Uses(t) ==
    \/ \E path \in Paths \ {"/account"} : Opens(t, path, 0)
    \/ \E a \in Ids : Opens(t, "/account", a)
    \/ \E form \in Forms \ {"select", "delete"} : Submits(t, form, 0)
    \/ \E form \in {"select", "delete"}, a \in Ids : Submits(t, form, a)

Next == StartOver \/ \E t \in Tabs : Handles(t) \/ Uses(t) \/ Receives(t)

Spec == Init /\ [][Next]_vars

-----------------------------------------------------------------------------
(* Properties.                                                             *)

Hop(p) == IF p.to.how = "show" THEN p ELSE Page(p.to.page, p.to.account, p.session)

(* Redirects end: whatever the browser's cookie says of admins and accounts
   that may be gone, every address leads to a page in a few hops.          *)
RedirectsSettle ==
    \A path \in Paths, a \in Ids :
        Hop(Hop(Hop(Hop(Page(path, a, cookie))))).to.how = "show"

(* The forms of an account's console say no account: they act on the selected
   one.  That is the account of the page, as long as it exists, and since the
   page was shown no other tab got an answer that changed the cookie and the
   database was not replaced.                                              *)
ConsoleActsOnItsAccount ==
    \A t \in Tabs :
        /\ tab[t].page = "account" /\ tab[t].account \in accounts
        /\ Free(t) /\ t \notin stolen
        => cookie.account = tab[t].account

(* After an admin logged out, the browser is logged in again only by a setup or
   a login that was accepted, or by the answer to a request that was sent
   before the logout.                                                      *)
LogoutUndoneOnlyByOverlap ==
    [][cookie.admin = 0 /\ cookie'.admin # 0 =>
          \E t \in Tabs : LET r == tab[t].request IN
              r.answered /\ (r.sent.admin # 0 \/ (r.what \in {"setup", "login"} /\ r.to # Stay))]_vars

-----------------------------------------------------------------------------
(* The inductive invariant behind the last two.                            *)

(* A session has an admin because its request was sent with one, or because it
   was accepted.                                                           *)
AdminsComeFrom ==
    \A t \in Tabs : LET r == tab[t].request IN
        r.session.admin # 0 =>
            r.sent.admin # 0 \/ (r.answered /\ r.what \in {"setup", "login"} /\ r.to # Stay)

(* A tab whose page was not overtaken knows the cookie, until a form of the page
   led away from it.                                                       *)
Knows(shown, c, existing, last) ==
    LET r == shown.request
        a == shown.account IN
    /\ a \in 1..last
    /\ r.what \in {"none"} \cup Paths \cup FormsOf("account")
    /\ r.what \notin Paths /\ ~r.answered /\ a \in existing =>
          c.account = a /\ (r # NoRequest => r.session = c /\ r.sent = c)
    /\ r.what \notin Paths /\ r.answered /\ r.to.how = "stay" /\ a \in existing =>
          SetCookie(r, c).account = a

ConsoleKnowsCookie ==
    \A t \in Tabs : tab[t].page = "account" /\ t \notin stolen =>
        Knows(tab[t], cookie, accounts, lastId)

(* Answers lead where their session fits: an account's console is shown with
   the account selected, and a GET never stays.                            *)
AnswersFit ==
    \A t \in Tabs : LET r == tab[t].request IN
        /\ ~r.answered => r.to = Stay
        /\ r.answered => r.what # "none"
        /\ r.what = "none" => r = NoRequest
        /\ r.answered /\ r.what \in Paths => r.to.how # "stay"
        /\ r.to.how = "show" =>
              /\ r.to.page \in Pages
              /\ r.to.page = "account" => r.to.account \in 1..lastId /\ r.session.account = r.to.account
        /\ r.to.how = "go" => r.to.page \in Paths

IInv == TypeOK /\ AdminsComeFrom /\ ConsoleKnowsCookie /\ AnswersFit
=============================================================================
