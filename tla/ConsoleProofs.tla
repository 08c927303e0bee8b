---------------------------- MODULE ConsoleProofs ----------------------------
(***************************************************************************)
(* Proofs about Console, for any tabs, passwords and account ids: redirects *)
(* end, a console acts on its account, and a logout is undone by           *)
(* overlapping requests only.                                              *)
(***************************************************************************)
EXTENDS Console, SequenceTheorems, TLAPS

(* There is at most one admin, and a session that names one names that. *)
LEMMA AdminFacts ==
    ASSUME TypeOK
    PROVE  /\ HasAdmin <=> Len(admins) = 1
           /\ \A s \in SessionData : LoggedIn(s) <=> HasAdmin /\ s.admin = 1
           /\ \A s \in SessionData : HasAdmin /\ ~LoggedIn(s) => s.admin = 0
<1>1. admins \in Seq(Passwords) /\ Len(admins) \in Nat /\ DOMAIN admins = 1..Len(admins)
    BY DEF TypeOK
<1>2. Len(admins) = 0 \/ Len(admins) = 1
    BY <1>1 DEF TypeOK
<1>3. HasAdmin <=> Len(admins) = 1
    BY <1>1, <1>2, EmptySeq DEF HasAdmin
<1>4. \A n : n \in DOMAIN admins <=> HasAdmin /\ n = 1
  <2>1. 1..0 = {} /\ 1..1 = {1}
      OBVIOUS
  <2>. QED
      BY <1>1, <1>2, <1>3, <2>1
<1>. QED
    BY <1>3, <1>4 DEF LoggedIn, SessionData

LEMMA SessionFacts ==
    /\ NoSession \in SessionData /\ NoSession.admin = 0 /\ NoSession.account = 0
    /\ \A s \in SessionData, a \in 0..MaxId :
          /\ [s EXCEPT !.account = a] \in SessionData
          /\ [s EXCEPT !.account = a].account = a /\ [s EXCEPT !.account = a].admin = s.admin
    /\ \A s \in SessionData :
          /\ [s EXCEPT !.admin = 1] \in SessionData
          /\ [s EXCEPT !.admin = 1].admin = 1 /\ [s EXCEPT !.admin = 1].account = s.account
BY ConsoleAssumption DEF NoSession, SessionData

(* Where answers lead. *)
LEMMA AnswerFacts ==
    ASSUME NEW a \in 0..MaxId
    PROVE  /\ \A page \in Pages :
                 /\ Show(page, a) \in Answer /\ Show(page, a).how = "show"
                 /\ Show(page, a).page = page /\ Show(page, a).account = a
           /\ \A path \in Paths :
                 /\ Go(path, a) \in Answer /\ Go(path, a).how = "go"
                 /\ Go(path, a).page = path /\ Go(path, a).account = a
           /\ Stay \in Answer /\ Stay.how = "stay"
<1>1. 0 \in 0..MaxId
    BY ConsoleAssumption
<1>2. ASSUME NEW page \in Pages
      PROVE  /\ Show(page, a) \in Answer /\ Show(page, a).how = "show"
             /\ Show(page, a).page = page /\ Show(page, a).account = a
    BY DEF Show, Answer
<1>3. ASSUME NEW path \in Paths
      PROVE  /\ Go(path, a) \in Answer /\ Go(path, a).how = "go"
             /\ Go(path, a).page = path /\ Go(path, a).account = a
    BY DEF Go, Answer
<1>4. Stay \in Answer /\ Stay.how = "stay"
    BY <1>1 DEF Stay, Answer
<1>. QED
    BY <1>2, <1>3, <1>4

(* A request carries the cookie of its moment. *)
LEMMA RequestFacts ==
    ASSUME NEW what, NEW a, NEW c
    PROVE  LET r == Request(what, a, c) IN
           /\ r.what = what /\ r.arg = a /\ r.sent = c /\ r.session = c
           /\ r.to = Stay /\ ~r.answered
BY DEF Request

(* A page is shown, or another address is; what is shown fits the session. *)
LEMMA PageFacts ==
    ASSUME TypeOK, NEW path \in Paths, NEW a \in 0..MaxId, NEW s \in SessionData
    PROVE  LET p == Page(path, a, s) IN
           /\ p.to \in Answer /\ p.session \in SessionData
           /\ p.to.how \in {"show", "go"}
           /\ p.to.how = "show" =>
                 /\ p.to.page \in Pages
                 /\ p.to.page = "account" =>
                       p.to.account \in accounts /\ p.session.account = p.to.account
           /\ p.to.how = "go" => p.to.page \in Paths
           /\ p.session.admin # 0 => s.admin # 0
<1> DEFINE Fits(p) ==
           /\ p.to \in Answer /\ p.session \in SessionData
           /\ p.to.how \in {"show", "go"}
           /\ p.to.how = "show" =>
                 /\ p.to.page \in Pages
                 /\ p.to.page = "account" =>
                       p.to.account \in accounts /\ p.session.account = p.to.account
           /\ p.to.how = "go" => p.to.page \in Paths
           /\ p.session.admin # 0 => s.admin # 0
<1>1. 0 \in 0..MaxId
    BY ConsoleAssumption
<1>2. \A q \in Paths, t \in {s, NoSession} : Fits(Leads(Go(q, 0), t))
    BY <1>1, AnswerFacts, SessionFacts DEF Leads
<1>3. \A page \in Pages \ {"account"} : Fits(Leads(Show(page, 0), s))
    BY <1>1, AnswerFacts DEF Leads
<1>4. ASSUME a \in accounts
      PROVE  Fits(Leads(Show("account", a), [s EXCEPT !.account = a]))
  <2>1. "account" \in Pages
      BY DEF Pages
  <2>2. /\ Show("account", a) \in Answer /\ Show("account", a).how = "show"
        /\ Show("account", a).page = "account" /\ Show("account", a).account = a
      BY <2>1, AnswerFacts
  <2>3. /\ [s EXCEPT !.account = a] \in SessionData
        /\ [s EXCEPT !.account = a].account = a /\ [s EXCEPT !.account = a].admin = s.admin
      BY SessionFacts
  <2>. QED
      BY <1>4, <2>1, <2>2, <2>3 DEF Leads
<1> HIDE DEF Fits
<1>5. /\ {"/setup", "/admin/login", "/", "/overview", "/accounts"} \subseteq Paths
      /\ {"setup", "login", "accounts", "overview"} \subseteq Pages \ {"account"}
    BY DEF Paths, Pages
<1>6. \A answer : Fits(answer) => Fits(Guarded(s, answer))
    BY <1>2, <1>5 DEF Guarded
<1>7. Fits(Index(s)) /\ Fits(SetupPage(s))
    BY <1>2, <1>3, <1>5 DEF Index, SetupPage
<1>8. Fits(AdminLoginPage(s))
  <2>1. CASE ~HasAdmin
      BY <1>2, <1>5, <2>1 DEF AdminLoginPage
  <2>2. CASE HasAdmin /\ s.admin # 0
      BY <1>2, <1>5, <2>2 DEF AdminLoginPage
  <2>3. CASE HasAdmin /\ s.admin = 0
      BY <1>3, <1>5, <2>3 DEF AdminLoginPage
  <2>. QED
      BY <2>1, <2>2, <2>3
<1>9. Fits(OverviewPage(s)) /\ Fits(AccountsPage(s))
    BY <1>2, <1>3, <1>5, <1>6 DEF OverviewPage, AccountsPage
<1>10. Fits(AccountDetail(s, a))
    BY <1>2, <1>4, <1>5, <1>6 DEF AccountDetail
<1>11. Fits(Page(path, a, s))
    BY <1>7, <1>8, <1>9, <1>10 DEF Page, Paths
<1>. QED
    BY <1>11 DEF Fits

(* A page that is shown stays, another address is opened. *)
LEMMA HopFacts ==
    /\ \A p : p.to.how = "show" => Hop(p) = p
    /\ \A q \in Paths : \A s : Hop(Leads(Go(q, 0), s)) = Page(q, 0, s)
<1>1. \A p : p.to.how = "show" => Hop(p) = p
    BY DEF Hop
<1>2. ASSUME NEW q \in Paths, NEW s
      PROVE  Hop(Leads(Go(q, 0), s)) = Page(q, 0, s)
  <2>1. /\ Leads(Go(q, 0), s).to = Go(q, 0) /\ Leads(Go(q, 0), s).session = s
        /\ Go(q, 0).how = "go" /\ Go(q, 0).page = q /\ Go(q, 0).account = 0
      BY DEF Leads, Go
  <2>. QED
      BY <2>1 DEF Hop
<1>. QED
    BY <1>1, <1>2

(* Every address leads to a page in a few hops. *)
LEMMA Settling ==
    ASSUME TypeOK, NEW path \in Paths, NEW a \in Ids
    PROVE  Hop(Hop(Hop(Hop(Page(path, a, cookie))))).to.how = "show"
<1> DEFINE s == cookie
           Shown(p) == p.to.how = "show"
<1>1. s \in SessionData /\ (HasAdmin /\ ~LoggedIn(s) => s.admin = 0)
    BY AdminFacts DEF TypeOK
<1>2. {"/setup", "/admin/login", "/", "/overview", "/accounts", "/account"} = Paths
    BY DEF Paths
<1>3. \A page, b, t : Shown(Leads(Show(page, b), t))
    BY DEF Leads, Show
<1>4. \A p : Shown(p) => Hop(p) = p
    BY HopFacts
<1>5. \A q \in Paths : \A t : Hop(Leads(Go(q, 0), t)) = Page(q, 0, t)
    BY HopFacts
<1> HIDE DEF Shown, s
<1>6. SUFFICES Shown(Hop(Hop(Hop(Hop(Page(path, a, s))))))
    BY DEF Shown, s
<1>7. CASE ~HasAdmin
  <2>1. \A t, b : Page("/setup", b, t) = Leads(Show("setup", 0), t)
      BY <1>7 DEF Page, SetupPage
  <2>2. path # "/setup" => Page(path, a, s) = Leads(Go("/setup", 0), s)
      BY <1>2, <1>7 DEF Page, Index, AdminLoginPage, OverviewPage, AccountsPage, AccountDetail, Guarded
  <2>. QED
      BY <1>2, <1>3, <1>4, <1>5, <2>1, <2>2
<1>8. CASE HasAdmin /\ ~LoggedIn(s)
  <2>1. \A t \in {s, NoSession} : \A b : Page("/admin/login", b, t) = Leads(Show("login", 0), t)
      BY <1>1, <1>8, SessionFacts DEF Page, AdminLoginPage
  <2>2. path # "/admin/login" =>
            \E t \in {s, NoSession} : Page(path, a, s) = Leads(Go("/admin/login", 0), t)
      BY <1>2, <1>8 DEF Page, Index, SetupPage, OverviewPage, AccountsPage, AccountDetail, Guarded
  <2>. QED
      BY <1>2, <1>3, <1>4, <1>5, <2>1, <2>2
<1>9. CASE HasAdmin /\ LoggedIn(s)
  <2>1. s.admin = 1
      BY <1>1, <1>9, AdminFacts
  <2>2. \A b : Page("/accounts", b, s) = Leads(Show("accounts", 0), s)
      BY <1>9 DEF Page, AccountsPage, Guarded
  <2>3. \A b : \/ Shown(Page("/overview", b, s))
               \/ Page("/overview", b, s) = Leads(Go("/accounts", 0), s)
      BY <1>3, <1>9 DEF Page, OverviewPage, Guarded
  <2>4. \A b : \/ Shown(Page("/", b, s))
               \/ Page("/", b, s) = Leads(Go("/overview", 0), s)
      BY <1>3, <1>9 DEF Page, Index
  <2>5. \A b : Shown(Hop(Page("/overview", b, s)))
      BY <1>2, <1>3, <1>4, <1>5, <2>2, <2>3
  <2>6. \A b : accounts # {} => Shown(Page("/overview", b, s))
      BY <1>3, <1>9 DEF Page, OverviewPage, Guarded
  <2>7. \A b : accounts = {} => Shown(Page("/", b, s))
      BY <1>3, <1>9 DEF Page, Index
  <2>8. \A b : Shown(Hop(Page("/", b, s)))
      BY <1>2, <1>4, <1>5, <2>4, <2>6, <2>7
  <2>9. \A b : /\ Page("/admin/login", b, s) = Leads(Go("/", 0), s)
               /\ Page("/setup", b, s) = Leads(Go("/admin/login", 0), s)
      BY <1>9, <2>1 DEF Page, AdminLoginPage, SetupPage
  <2>10. \/ Shown(Page("/account", a, s))
         \/ Page("/account", a, s) = Leads(Go("/overview", 0), s)
      BY <1>3, <1>9 DEF Page, AccountDetail, Guarded
  <2>11. CASE path = "/setup"
    <3>1. Hop(Hop(Page(path, a, s))) = Page("/", 0, s)
        BY <1>2, <1>5, <2>9, <2>11
    <3>. QED
        BY <1>4, <2>8, <3>1
  <2>12. CASE path = "/admin/login"
    <3>1. Hop(Page(path, a, s)) = Page("/", 0, s)
        BY <1>2, <1>5, <2>9, <2>12
    <3>. QED
        BY <1>4, <2>8, <3>1
  <2>13. CASE path = "/"
      BY <1>4, <2>8, <2>13
  <2>14. CASE path = "/overview"
      BY <1>4, <2>5, <2>14
  <2>15. CASE path = "/accounts"
      BY <1>3, <1>4, <2>2, <2>15
  <2>16. CASE path = "/account"
    <3>1. Shown(Page(path, a, s)) \/ Hop(Page(path, a, s)) = Page("/overview", 0, s)
        BY <1>2, <1>5, <2>10, <2>16
    <3>. QED
        BY <1>4, <2>5, <3>1
  <2>. QED
      BY <1>2, <2>11, <2>12, <2>13, <2>14, <2>15, <2>16
<1>. QED
    BY <1>7, <1>8, <1>9

(* The shape of a tab and its request. *)
LEMMA TabFacts ==
    ASSUME TypeOK, NEW t \in Tabs
    PROVE  /\ tab[t] \in Tab
           /\ tab[t].page \in Pages /\ tab[t].account \in 0..MaxId
           /\ tab[t].request.what \in {"none"} \cup Paths \cup Forms
           /\ tab[t].request.arg \in 0..MaxId
           /\ tab[t].request.sent \in SessionData /\ tab[t].request.session \in SessionData
           /\ tab[t].request.to \in Answer /\ tab[t].request.answered \in BOOLEAN
<1>1. tab[t] \in Tab
    BY DEF TypeOK
<1>. QED
    BY <1>1 DEF Tab

(* Nothing was asked before the first request. *)
LEMMA InitIInv == Init => IInv
<1> SUFFICES ASSUME Init PROVE IInv
    OBVIOUS
<1>1. 0 \in 0..MaxId
    BY ConsoleAssumption
<1>2. NoSession \in SessionData /\ NoSession.admin = 0 /\ Stay \in Answer /\ Stay.how = "stay"
    BY <1>1, SessionFacts, AnswerFacts
<1>3. /\ NoRequest.what = "none" /\ NoRequest.arg = 0 /\ NoRequest.sent = NoSession
      /\ NoRequest.session = NoSession /\ NoRequest.to = Stay /\ ~NoRequest.answered
    BY DEF NoRequest, Request
<1>4. [page |-> "blank", account |-> 0, request |-> NoRequest] \in Tab
    BY <1>1, <1>2 DEF Tab, Pages, NoRequest, Request
<1>5. \A t \in Tabs : tab[t].page = "blank" /\ tab[t].request = NoRequest
    BY DEF Init
<1>6. TypeOK
  <2>1. admins \in Seq(Passwords) /\ Len(admins) <= 1
      BY EmptySeq DEF Init
  <2>. QED
      BY <1>1, <1>2, <1>4, <2>1 DEF Init, TypeOK
<1>7. AdminsComeFrom /\ ConsoleKnowsCookie /\ AnswersFit
    BY <1>2, <1>3, <1>5 DEF AdminsComeFrom, ConsoleKnowsCookie, AnswersFit
<1>. QED
    BY <1>6, <1>7 DEF IInv

(* A tab sends a request with the cookie as it is: for an address, or with a form
   of its page.                                                            *)
LEMMA RequestKeepsIInv ==
    ASSUME IInv, NEW t \in Tabs, Free(t), NEW what \in Paths \cup Forms, NEW a \in 0..MaxId,
           what \in Paths \/ what \in FormsOf(tab[t].page),
           tab' = [tab EXCEPT ![t].request = Request(what, a, cookie)],
           UNCHANGED <<store, cookie, stolen>>
    PROVE  IInv'
<1> DEFINE r == Request(what, a, cookie)
<1>1. /\ r.what = what /\ r.arg = a /\ r.sent = cookie /\ r.session = cookie
      /\ r.to = Stay /\ ~r.answered
    BY RequestFacts
<1>2. cookie \in SessionData /\ Stay \in Answer /\ Stay.how = "stay" /\ tab \in [Tabs -> Tab]
    BY AnswerFacts DEF IInv, TypeOK
<1>3. r \in [what : {"none"} \cup Paths \cup Forms, arg : 0..MaxId, sent : SessionData,
              session : SessionData, to : Answer, answered : BOOLEAN]
    BY <1>2 DEF Request
<1>4. what # "none"
    BY DEF Paths, Forms
<1> HIDE DEF r
<1>5. /\ tab' \in [Tabs -> Tab]
      /\ tab'[t].request = r /\ tab'[t].page = tab[t].page /\ tab'[t].account = tab[t].account
      /\ \A u \in Tabs \ {t} : tab'[u] = tab[u]
  <2>1. tab' = [tab EXCEPT ![t].request = r]
      BY DEF r
  <2>. QED
      BY <1>2, <1>3, <2>1 DEF Tab
<1>6. UNCHANGED <<admins, accounts, lastId, cookie, stolen>>
    BY DEF store
<1>7. TypeOK'
    BY <1>5, <1>6 DEF IInv, TypeOK
<1>8. AdminsComeFrom'
    BY <1>1, <1>5 DEF IInv, AdminsComeFrom
<1>9. AnswersFit'
    BY <1>1, <1>2, <1>4, <1>5, <1>6 DEF IInv, AnswersFit
<1>10. ConsoleKnowsCookie'
  <2>1. ASSUME tab[t].page = "account", t \notin stolen
        PROVE  Knows(tab'[t], cookie, accounts, lastId)
    <3>1. Knows(tab[t], cookie, accounts, lastId)
        BY <2>1 DEF IInv, ConsoleKnowsCookie
    <3>2. tab[t].request.what = "none" /\ ~tab[t].request.answered
        BY DEF Free, NoRequest, Request
    <3>3. "none" \notin Paths /\ what \in Paths \cup FormsOf("account")
        BY <2>1 DEF Paths
    <3>. QED
        BY <1>1, <1>5, <3>1, <3>2, <3>3 DEF Knows
  <2>. QED
      BY <1>5, <1>6, <2>1 DEF IInv, ConsoleKnowsCookie
<1>. QED
    BY <1>7, <1>8, <1>9, <1>10 DEF IInv

(* A handler answers: the accounts and the session may have changed, account ids
   only grow, an admin comes into a session by setup or login, and an answer
   that stays on a console leaves its account selected.                    *)
LEMMA AnswerKeepsIInv ==
    ASSUME IInv, NEW t \in Tabs, NEW to \in Answer, NEW s \in SessionData,
           tab[t].request.what # "none", ~tab[t].request.answered, Answers(t, to, s),
           admins' \in Seq(Passwords), Len(admins') <= 1,
           accounts' \subseteq Ids, lastId' \in 0..MaxId, lastId <= lastId',
           \A a \in accounts' : a <= lastId' /\ (a \in accounts \/ a > lastId),
           s.admin # 0 => \/ tab[t].request.session.admin # 0
                          \/ tab[t].request.what \in {"setup", "login"} /\ to # Stay,
           tab[t].request.what \in Paths => to.how # "stay",
           to.how = "show" => /\ to.page \in Pages
                              /\ to.page = "account" =>
                                    to.account \in 1..lastId' /\ s.account = to.account,
           to.how = "go" => to.page \in Paths,
           to.how = "stay" => \/ s = tab[t].request.session
                              \/ s.account # 0 /\ s.account = tab[t].request.session.account
                              \/ /\ tab[t].request.session.account \notin accounts
                                 /\ accounts' = accounts
    PROVE  IInv'
<1> DEFINE r == tab[t].request
           new == [r EXCEPT !.answered = TRUE, !.to = to, !.session = s]
<1>1. /\ tab[t] \in Tab /\ tab \in [Tabs -> Tab]
      /\ r.what \in {"none"} \cup Paths \cup Forms /\ r.arg \in 0..MaxId
      /\ r.sent \in SessionData /\ r.session \in SessionData
    BY TabFacts DEF IInv, TypeOK
<1>2. r \in [what : {"none"} \cup Paths \cup Forms, arg : 0..MaxId, sent : SessionData,
              session : SessionData, to : Answer, answered : BOOLEAN]
    BY <1>1 DEF Tab
<1>3. /\ new.answered /\ new.to = to /\ new.session = s
      /\ new.what = r.what /\ new.arg = r.arg /\ new.sent = r.sent
      /\ new \in [what : {"none"} \cup Paths \cup Forms, arg : 0..MaxId, sent : SessionData,
                  session : SessionData, to : Answer, answered : BOOLEAN]
    BY <1>2
<1>4. /\ tab' = [tab EXCEPT ![t].request.answered = TRUE, ![t].request.to = to,
                            ![t].request.session = s]
      /\ UNCHANGED <<cookie, stolen>>
    BY DEF Answers
<1>5. /\ tab' \in [Tabs -> Tab]
      /\ tab'[t].request = new /\ tab'[t].page = tab[t].page /\ tab'[t].account = tab[t].account
      /\ \A u \in Tabs \ {t} : tab'[u] = tab[u]
  <2>1. tab' = [tab EXCEPT ![t] = [tab[t] EXCEPT !.request = new]]
      BY <1>1, <1>4
  <2> HIDE DEF new
  <2>. QED
      BY <1>1, <1>3, <2>1 DEF Tab
<1> HIDE DEF new
<1>6. TypeOK'
    BY <1>4, <1>5 DEF IInv, TypeOK
<1>7. AdminsComeFrom'
    BY <1>3, <1>4, <1>5 DEF IInv, AdminsComeFrom
<1>8. lastId \in Nat /\ lastId' \in Nat
    BY ConsoleAssumption DEF IInv, TypeOK
<1>9. AnswersFit'
  <2>1. ASSUME NEW u \in Tabs, u # t
        PROVE  LET q == tab'[u].request IN
               /\ ~q.answered => q.to = Stay
               /\ q.answered => q.what # "none"
               /\ q.what = "none" => q = NoRequest
               /\ q.answered /\ q.what \in Paths => q.to.how # "stay"
               /\ q.to.how = "show" =>
                     /\ q.to.page \in Pages
                     /\ q.to.page = "account" =>
                           q.to.account \in 1..lastId' /\ q.session.account = q.to.account
               /\ q.to.how = "go" => q.to.page \in Paths
      BY <1>5, <1>8, <2>1 DEF IInv, AnswersFit
  <2>. QED
      BY <1>3, <1>5, <2>1 DEF AnswersFit
<1>10. \A a \in 1..lastId : a \in 1..lastId' /\ (a \in accounts' => a \in accounts)
    BY <1>8 DEF IInv, TypeOK
<1>11. ASSUME NEW u \in Tabs, u # t, tab[u].page = "account", u \notin stolen
       PROVE  Knows(tab'[u], cookie, accounts', lastId')
    BY <1>5, <1>10, <1>11 DEF IInv, ConsoleKnowsCookie, Knows
<1>12. ASSUME tab[t].page = "account", t \notin stolen
       PROVE  Knows(tab'[t], cookie, accounts', lastId')
  <2>1. Knows(tab[t], cookie, accounts, lastId)
      BY <1>12 DEF IInv, ConsoleKnowsCookie
  <2>2. /\ tab'[t].account \in 1..lastId'
        /\ new.what \in {"none"} \cup Paths \cup FormsOf("account")
      BY <1>3, <1>5, <1>10, <2>1 DEF Knows
  <2>3. ASSUME new.what \notin Paths, to.how = "stay", tab[t].account \in accounts'
        PROVE  SetCookie(new, cookie).account = tab[t].account
    <3>1. r # NoRequest
        BY DEF NoRequest, Request
    <3>2. /\ tab[t].account \in accounts /\ cookie.account = tab[t].account
          /\ r.session = cookie /\ r.sent = cookie
        BY <1>3, <1>10, <2>1, <2>3, <3>1 DEF Knows
    <3>3. s.account = tab[t].account
        BY <2>3, <3>2
    <3>. QED
        BY <1>3, <3>2, <3>3 DEF SetCookie
  <2>. QED
      BY <1>3, <1>5, <2>2, <2>3 DEF Knows
<1>13. ConsoleKnowsCookie'
    BY <1>4, <1>5, <1>11, <1>12 DEF ConsoleKnowsCookie
<1>. QED
    BY <1>6, <1>7, <1>9, <1>13 DEF IInv

(* Every handler answers as AnswerKeepsIInv asks. *)
LEMMA HandlerKeepsIInv ==
    ASSUME IInv, NEW t \in Tabs, Handles(t)
    PROVE  IInv'
<1> DEFINE r == tab[t].request
           s == Session(t)
<1>1. /\ s = r.session /\ s \in SessionData /\ r.arg \in 0..MaxId
      /\ admins \in Seq(Passwords) /\ Len(admins) <= 1
      /\ accounts \subseteq Ids /\ lastId \in 0..MaxId /\ \A a \in accounts : a <= lastId
      /\ tab[t].account \in 0..MaxId
    BY TabFacts DEF IInv, TypeOK, Session
<1>2. /\ 0 \in 0..MaxId /\ lastId \in Nat /\ lastId <= lastId
      /\ \A a \in accounts : a \in 1..lastId /\ a \in 0..MaxId
    BY <1>1, ConsoleAssumption DEF Ids
<1>3. \A what \in Paths \cup Forms : what # "none"
    BY DEF Paths, Forms
<1>4. /\ NoSession \in SessionData /\ NoSession.admin = 0
      /\ \A a \in 0..MaxId : /\ [s EXCEPT !.account = a] \in SessionData
                             /\ [s EXCEPT !.account = a].admin = s.admin
      /\ [s EXCEPT !.admin = 1] \in SessionData
    BY <1>1, SessionFacts
<1>5. /\ Stay \in Answer /\ Stay.how = "stay"
      /\ \A path \in Paths, a \in 0..MaxId :
            /\ Go(path, a) \in Answer /\ Go(path, a).how = "go"
            /\ Go(path, a).page = path /\ Go(path, a) # Stay
    BY <1>2, AnswerFacts
<1>6. {"/", "/accounts", "/admin/login", "/overview", "/account"} \subseteq Paths
    BY DEF Paths
<1>7. \A form \in Forms : form \notin Paths
    BY DEF Paths, Forms
<1>8. {"setup", "login", "change", "logout", "select", "delete", "add", "logoutAccount",
       "me", "control"} = Forms
    BY DEF Forms
<1>9. \A form \in Forms : Asked(t, form) =>
          /\ r.what = form /\ r.what # "none" /\ ~r.answered /\ r.what \notin Paths
    BY <1>3, <1>7 DEF Asked
<1> DEFINE Grows ==
           /\ admins' \in Seq(Passwords) /\ Len(admins') <= 1
           /\ accounts' \subseteq Ids /\ lastId' \in 0..MaxId /\ lastId <= lastId'
           /\ \A a \in accounts' : a <= lastId' /\ (a \in accounts \/ a > lastId)
<1> HIDE DEF s
<1>go. ASSUME NEW form \in Forms, Asked(t, form), NEW path \in Paths, NEW a \in 0..MaxId,
              NEW u \in SessionData, Answers(t, Go(path, a), u), Grows,
              u.admin # 0 => s.admin # 0 \/ form \in {"setup", "login"}
       PROVE  IInv'
    BY <1>1, <1>5, <1>9, <1>go, AnswerKeepsIInv
<1>same. UNCHANGED store => Grows
    BY <1>1, <1>2 DEF store
<1>stay. ASSUME NEW form \in Forms, Asked(t, form), Answers(t, Stay, s), Grows
         PROVE  IInv'
    BY <1>1, <1>5, <1>9, <1>stay, AnswerKeepsIInv
<1>10. ASSUME GetPage(t)
       PROVE  IInv'
  <2> DEFINE p == Page(r.what, r.arg, r.session)
  <2>1. r.what \in Paths /\ ~r.answered /\ UNCHANGED store /\ Answers(t, p.to, p.session)
      BY <1>10 DEF GetPage
  <2>2. /\ p.to \in Answer /\ p.session \in SessionData
        /\ p.to.how \in {"show", "go"}
        /\ p.to.how = "show" =>
              /\ p.to.page \in Pages
              /\ p.to.page = "account" =>
                    p.to.account \in accounts /\ p.session.account = p.to.account
        /\ p.to.how = "go" => p.to.page \in Paths
        /\ p.session.admin # 0 => r.session.admin # 0
      BY <1>1, <2>1, PageFacts DEF IInv
  <2> HIDE DEF p
  <2>. QED
      BY <1>1, <1>2, <1>3, <2>1, <2>2, AnswerKeepsIInv DEF store
<1>11. ASSUME Refuses(t)
       PROVE  IInv'
  <2>1. PICK form \in Forms : Asked(t, form)
      BY <1>11 DEF Refuses
  <2>2. ~(HasAdmin /\ s.admin # 0)
      BY <1>1, <1>11, AdminFacts DEF Refuses, IInv, s
  <2>3. Answers(t, Stay, s) /\ UNCHANGED store
      BY <1>11, <2>2 DEF Refuses, s
  <2>. QED
      BY <1>1, <1>2, <1>5, <1>9, <2>1, <2>3, AnswerKeepsIInv DEF store
<1>12. ASSUME AdminLogout(t)
       PROVE  IInv'
    BY <1>1, <1>2, <1>4, <1>5, <1>6, <1>8, <1>9, <1>12, AnswerKeepsIInv DEF AdminLogout, store
<1>13. ASSUME SelectAccount(t)
       PROVE  IInv'
  <2>1. Asked(t, "select") /\ UNCHANGED store
      BY <1>13 DEF SelectAccount, Admitted
  <2>2. \/ Answers(t, Go("/", 0), [s EXCEPT !.account = r.arg])
        \/ Answers(t, Stay, s)
      BY <1>13 DEF SelectAccount, s
  <2>. QED
      BY <1>1, <1>2, <1>4, <1>6, <1>8, <1>go, <1>same, <1>stay, <2>1, <2>2
<1>14. ASSUME DeleteAccount(t)
       PROVE  IInv'
  <2>1. /\ Asked(t, "delete") /\ UNCHANGED <<admins, lastId>>
        /\ accounts' \subseteq accounts
      BY <1>14 DEF DeleteAccount, Admitted
  <2>2. \/ Answers(t, Go("/accounts", 0), [s EXCEPT !.account = 0])
        \/ Answers(t, Go("/accounts", 0), s)
      BY <1>14 DEF DeleteAccount, s
  <2>3. Grows
      BY <1>1, <1>2, <2>1
  <2>. QED
      BY <1>1, <1>2, <1>4, <1>6, <1>8, <1>go, <2>1, <2>2, <2>3
<1>15. ASSUME NEW a \in Ids, AddAccount(t, a)
       PROVE  IInv'
  <2>1. /\ Asked(t, "add") /\ UNCHANGED admins
        /\ a \in accounts \/ (a = lastId + 1 /\ a <= MaxId)
        /\ accounts' = accounts \cup {a} /\ lastId' = IF a > lastId THEN a ELSE lastId
        /\ \/ Answers(t, Go("/", 0), [s EXCEPT !.account = a])
           \/ Answers(t, Stay, s)
      BY <1>15 DEF AddAccount, Admitted, s
  <2>2. a \in 0..MaxId
      BY ConsoleAssumption DEF Ids
  <2>3. /\ accounts' \subseteq Ids /\ lastId' \in 0..MaxId /\ lastId <= lastId'
        /\ \A b \in accounts' : b <= lastId' /\ (b \in accounts \/ b > lastId)
      BY <1>1, <1>2, <2>1, <2>2, ConsoleAssumption DEF Ids
  <2>4. Grows
      BY <1>1, <2>1, <2>3
  <2>5. CASE Answers(t, Go("/", 0), [s EXCEPT !.account = a])
      BY <1>2, <1>4, <1>6, <1>8, <1>go, <2>1, <2>2, <2>4, <2>5
  <2>6. CASE Answers(t, Stay, s)
      BY <1>2, <1>4, <1>6, <1>8, <1>stay, <2>1, <2>2, <2>4, <2>6
  <2>. QED
      BY <2>1, <2>5, <2>6
<1>16. ASSUME AddFails(t)
       PROVE  IInv'
    BY <1>8, <1>16, <1>same, <1>stay DEF AddFails, Admitted, s
<1>17. ASSUME LogoutAccount(t)
       PROVE  IInv'
  <2>1. Asked(t, "logoutAccount") /\ Grows
      BY <1>17, <1>same DEF LogoutAccount, Admitted
  <2>2. Answers(t, Go("/overview", 0), [s EXCEPT !.account = 0])
      BY <1>17 DEF LogoutAccount, s
  <2>. QED
      BY <1>2, <1>4, <1>6, <1>8, <1>go, <2>1, <2>2
<1>18. ASSUME Me(t)
       PROVE  IInv'
  <2>1. Asked(t, "me") /\ UNCHANGED store
      BY <1>18 DEF Me, Admitted
  <2>2. \/ Answers(t, Stay, s)
        \/ s.account \notin accounts /\ Answers(t, Stay, [s EXCEPT !.account = 0])
      BY <1>18 DEF Me, s
  <2>. QED
      BY <1>1, <1>2, <1>4, <1>5, <1>8, <1>9, <2>1, <2>2, AnswerKeepsIInv DEF store
<1>19. ASSUME Control(t)
       PROVE  IInv'
  <2>1. Asked(t, "control") /\ UNCHANGED store
      BY <1>19 DEF Control, Admitted
  <2>2. \/ Answers(t, Go("/account", tab[t].account), s)
        \/ Answers(t, Stay, s)
      BY <1>19 DEF Control, s
  <2>. QED
      BY <1>1, <1>2, <1>5, <1>6, <1>8, <1>9, <2>1, <2>2, AnswerKeepsIInv DEF store
<1>20. ASSUME NEW password \in Passwords, SetupSubmit(t, password)
       PROVE  IInv'
  <2>1. Asked(t, "setup") /\ UNCHANGED <<accounts, lastId>>
      BY <1>20 DEF SetupSubmit
  <2>2. CASE ~HasAdmin /\ CreateAdmin(password)
             /\ Answers(t, Go("/", 0), [s EXCEPT !.admin = Len(admins')])
    <3>1. admins' \in Seq(Passwords) /\ Len(admins') = 1
        BY <2>2, AppendProperties, EmptySeq DEF CreateAdmin, HasAdmin
    <3>. QED
        BY <1>1, <1>2, <1>4, <1>5, <1>6, <1>8, <1>9, <2>1, <2>2, <3>1, AnswerKeepsIInv
  <2>3. CASE Answers(t, Stay, s) /\ UNCHANGED admins
      BY <1>1, <1>2, <1>5, <1>8, <1>9, <2>1, <2>3, AnswerKeepsIInv
  <2>. QED
      BY <1>20, <2>2, <2>3 DEF SetupSubmit, s
<1>21. ASSUME NEW password \in Passwords, LoginSubmit(t, password)
       PROVE  IInv'
  <2>1. Asked(t, "login") /\ UNCHANGED store
      BY <1>21 DEF LoginSubmit
  <2>2. \/ Answers(t, Go("/", 0), [s EXCEPT !.admin = 1])
        \/ Answers(t, Stay, s)
      BY <1>21 DEF LoginSubmit, VerifyAdmin, s
  <2>. QED
      BY <1>1, <1>2, <1>4, <1>5, <1>6, <1>8, <1>9, <2>1, <2>2, AnswerKeepsIInv DEF store
<1>22. ASSUME NEW old \in Passwords, NEW new \in Passwords, ChangePassword(t, old, new)
       PROVE  IInv'
  <2>1. /\ Asked(t, "change") /\ UNCHANGED <<accounts, lastId>>
        /\ ChangeAdminPassword(s.admin, old, new) /\ Answers(t, Stay, s)
      BY <1>22 DEF ChangePassword, Admitted, s
  <2>2. s.admin \in 1..Len(admins)
      BY <1>1, <1>22 DEF ChangePassword, Admitted, LoggedIn, s
  <2>3. admins' = admins \/ admins' = [admins EXCEPT ![s.admin] = new]
      BY <2>1 DEF ChangeAdminPassword
  <2>4. admins' \in Seq(Passwords) /\ Len(admins') = Len(admins)
      BY <1>1, <2>2, <2>3, ExceptSeq
  <2>5. Grows
      BY <1>1, <1>2, <2>1, <2>4
  <2>. QED
      BY <1>8, <1>stay, <2>1, <2>5
<1>. QED
    BY <1>10, <1>11, <1>12, <1>13, <1>14, <1>15, <1>16, <1>17, <1>18, <1>19, <1>20, <1>21, <1>22
    DEF Handles

(* An answer arrives: a console that is shown has its account selected, one that
   stays keeps it, and whoever else shows a console knows the cookie still, or
   was overtaken.                                                          *)
LEMMA ReceivesKeepsIInv ==
    ASSUME IInv, NEW t \in Tabs, Receives(t)
    PROVE  IInv'
<1> DEFINE r == tab[t].request
           c == SetCookie(r, cookie)
           next == tab'[t]
<1>1. /\ tab[t] \in Tab /\ tab[t].page \in Pages /\ tab[t].account \in 0..MaxId
      /\ r.what \in {"none"} \cup Paths \cup Forms /\ r.to \in Answer
      /\ r.session \in SessionData /\ cookie \in SessionData /\ r.answered
    BY TabFacts DEF IInv, TypeOK, Receives
<1>2. /\ cookie' = c
      /\ r.to.how = "show" =>
            next = [page |-> r.to.page, account |-> r.to.account, request |-> NoRequest]
      /\ r.to.how = "go" =>
            next = [tab[t] EXCEPT !.request = Request(r.to.page, r.to.account, c)]
      /\ r.to.how = "stay" => next = [tab[t] EXCEPT !.request = NoRequest]
      /\ \A u \in Tabs \ {t} : tab'[u] = tab[u]
      /\ tab' = [u \in Tabs |-> tab'[u]]
      /\ stolen' = (IF r.to.how = "show" THEN stolen \ {t} ELSE stolen)
                      \cup (IF c # cookie THEN Tabs \ {t} ELSE {})
      /\ UNCHANGED <<admins, accounts, lastId>>
    BY <1>1 DEF Receives, store, Answer
<1>3. c \in SessionData
    BY <1>1 DEF SetCookie
<1>4. /\ r.to.how \in {"show", "go", "stay"} /\ r.to.account \in 0..MaxId
      /\ r.what # "none"
      /\ r.what \in Paths => r.to.how # "stay"
      /\ r.to.how = "show" =>
            /\ r.to.page \in Pages
            /\ r.to.page = "account" => r.to.account \in 1..lastId /\ r.session.account = r.to.account
      /\ r.to.how = "go" => r.to.page \in Paths
    BY <1>1 DEF IInv, AnswersFit, Answer
<1>5. /\ NoRequest.what = "none" /\ NoRequest.arg = 0 /\ NoRequest.sent = NoSession
      /\ NoRequest.session = NoSession /\ NoRequest.to = Stay /\ ~NoRequest.answered
      /\ NoSession \in SessionData /\ NoSession.admin = 0 /\ NoSession.account = 0
      /\ Stay \in Answer /\ Stay.how = "stay" /\ 0 \in 0..MaxId
    BY ConsoleAssumption, SessionFacts, AnswerFacts, RequestFacts DEF NoRequest
<1>6. "none" \notin Paths
    BY DEF Paths
<1> DEFINE go == Request(r.to.page, r.to.account, c)
<1>7. /\ go.what = r.to.page /\ go.arg = r.to.account /\ go.sent = c /\ go.session = c
      /\ go.to = Stay /\ ~go.answered
    BY RequestFacts
<1>8. /\ NoRequest \in [what : {"none"} \cup Paths \cup Forms, arg : 0..MaxId, sent : SessionData,
                        session : SessionData, to : Answer, answered : BOOLEAN]
      /\ r.to.how = "go" =>
            go \in [what : {"none"} \cup Paths \cup Forms, arg : 0..MaxId, sent : SessionData,
                    session : SessionData, to : Answer, answered : BOOLEAN]
    BY <1>3, <1>4, <1>5 DEF NoRequest, Request
<1> HIDE DEF go, r, c, next
<1>9. /\ next \in Tab
      /\ r.to.how = "show" =>
            next.page = r.to.page /\ next.account = r.to.account /\ next.request = NoRequest
      /\ r.to.how # "show" => next.page = tab[t].page /\ next.account = tab[t].account
      /\ r.to.how = "stay" => next.request = NoRequest
      /\ r.to.how = "go" => next.request = go
  <2>1. CASE r.to.how = "show"
      BY <1>2, <1>4, <1>8, <2>1 DEF Tab
  <2>2. CASE r.to.how = "go"
    <3>1. next = [tab[t] EXCEPT !.request = go]
        BY <1>2, <2>2 DEF go
    <3>. QED
        BY <1>1, <1>8, <2>2, <3>1 DEF Tab
  <2>3. CASE r.to.how = "stay"
      BY <1>1, <1>2, <1>8, <2>3 DEF Tab
  <2>. QED
      BY <1>4, <2>1, <2>2, <2>3
<1>10. next.request = NoRequest \/ (next.request = go /\ r.to.page \in Paths)
    BY <1>4, <1>9
<1>11. tab' \in [Tabs -> Tab] /\ tab'[t] = next /\ \A u \in Tabs \ {t} : tab'[u] = tab[u]
  <2>1. \A u \in Tabs : tab'[u] \in Tab
    <3>1. \A u \in Tabs : tab[u] \in Tab
        BY TabFacts DEF IInv
    <3>. QED
        BY <1>2, <1>9, <3>1 DEF next
  <2>. QED
      BY <1>2, <2>1 DEF next
<1>12. TypeOK'
  <2>1. stolen' \subseteq Tabs
      BY <1>2 DEF IInv, TypeOK
  <2>. QED
      BY <1>2, <1>3, <1>11, <2>1 DEF IInv, TypeOK
<1>13. AdminsComeFrom'
    BY <1>5, <1>7, <1>10, <1>11 DEF IInv, AdminsComeFrom
<1>14. AnswersFit'
  <2>1. ASSUME NEW u \in Tabs
        PROVE  LET q == tab'[u].request IN
               /\ ~q.answered => q.to = Stay
               /\ q.answered => q.what # "none"
               /\ q.what = "none" => q = NoRequest
               /\ q.answered /\ q.what \in Paths => q.to.how # "stay"
               /\ q.to.how = "show" =>
                     /\ q.to.page \in Pages
                     /\ q.to.page = "account" =>
                           q.to.account \in 1..lastId' /\ q.session.account = q.to.account
               /\ q.to.how = "go" => q.to.page \in Paths
    <3>1. CASE u = t
      <4>1. CASE next.request = NoRequest
          BY <1>5, <1>11, <3>1, <4>1
      <4>2. CASE next.request = go /\ r.to.page \in Paths
          BY <1>5, <1>6, <1>7, <1>11, <3>1, <4>2
      <4>. QED
          BY <1>10, <4>1, <4>2
    <3>2. CASE u # t
        BY <1>2, <1>11, <3>2 DEF IInv, AnswersFit
    <3>. QED
        BY <3>1, <3>2
  <2>. QED
      BY <2>1 DEF AnswersFit
<1>15. ASSUME NEW u \in Tabs, u # t, tab'[u].page = "account", u \notin stolen'
       PROVE  Knows(tab'[u], c, accounts, lastId)
  <2>1. u \notin stolen /\ c = cookie
      BY <1>2, <1>15
  <2>. QED
      BY <1>11, <1>15, <2>1 DEF IInv, ConsoleKnowsCookie
<1>16. ASSUME next.page = "account", t \notin stolen'
       PROVE  Knows(next, c, accounts, lastId)
  <2>1. CASE r.to.how = "show"
    <3>1. r.session.account = r.to.account /\ r.to.account \in 1..lastId /\ lastId \in Nat
        BY <1>4, <1>9, <1>16, <2>1, ConsoleAssumption DEF IInv, TypeOK
    <3>2. r.session # NoSession
        BY <1>5, <3>1
    <3>3. c = r.session
        BY <3>2 DEF c, SetCookie
    <3>. QED
        BY <1>5, <1>9, <2>1, <3>1, <3>3 DEF Knows
  <2>2. CASE r.to.how # "show"
    <3>1. tab[t].page = "account" /\ t \notin stolen
        BY <1>2, <1>9, <1>16, <2>2
    <3>2. Knows(tab[t], cookie, accounts, lastId)
        BY <3>1 DEF IInv, ConsoleKnowsCookie
    <3>3. next.account = tab[t].account /\ next.account \in 1..lastId
        BY <1>9, <2>2, <3>2 DEF Knows
    <3>4. CASE r.to.how = "go"
        BY <1>4, <1>7, <1>9, <3>3, <3>4 DEF Knows
    <3>5. CASE r.to.how = "stay"
      <4>1. next.account \in accounts => c.account = next.account
          BY <1>1, <1>4, <3>2, <3>3, <3>5 DEF Knows, r, c
      <4>. QED
          BY <1>5, <1>9, <3>3, <3>5, <4>1 DEF Knows
    <3>. QED
        BY <1>4, <2>2, <3>4, <3>5
  <2>. QED
      BY <2>1, <2>2
<1>17. ConsoleKnowsCookie'
    BY <1>2, <1>11, <1>15, <1>16 DEF ConsoleKnowsCookie
<1>. QED
    BY <1>12, <1>13, <1>14, <1>17 DEF IInv

(* Whatever the tabs show was overtaken, and no request is under way. *)
LEMMA StartOverKeepsIInv ==
    ASSUME IInv, StartOver
    PROVE  IInv'
<1>1. /\ admins' = <<>> /\ accounts' = {} /\ lastId' = 0 /\ stolen' = Tabs /\ cookie' = cookie
      /\ \A t \in Tabs : tab'[t].request = NoRequest
    BY TabFacts DEF StartOver, IInv, Tab
<1>2. /\ NoRequest.what = "none" /\ NoRequest.arg = 0 /\ NoRequest.sent = NoSession
      /\ NoRequest.session = NoSession /\ NoRequest.to = Stay /\ ~NoRequest.answered
      /\ NoSession \in SessionData /\ NoSession.admin = 0
      /\ Stay \in Answer /\ Stay.how = "stay" /\ 0 \in 0..MaxId
    BY ConsoleAssumption, SessionFacts, AnswerFacts, RequestFacts DEF NoRequest
<1>3. tab' \in [Tabs -> Tab]
  <2>1. NoRequest \in [what : {"none"} \cup Paths \cup Forms, arg : 0..MaxId, sent : SessionData,
                       session : SessionData, to : Answer, answered : BOOLEAN]
      BY <1>2 DEF NoRequest, Request
  <2>2. "blank" \in Pages
      BY DEF Pages
  <2>3. ASSUME NEW t \in Tabs
        PROVE  [tab[t] EXCEPT !.request = NoRequest,
                              !.page = IF tab[t].request.what \in Paths THEN "blank" ELSE @] \in Tab
    <3>1. tab[t] \in Tab
        BY TabFacts DEF IInv
    <3>. QED
        BY <2>1, <2>2, <3>1 DEF Tab
  <2>. QED
      BY <2>3 DEF StartOver
<1>4. TypeOK'
  <2>1. admins' \in Seq(Passwords) /\ Len(admins') <= 1
      BY <1>1, EmptySeq
  <2>. QED
      BY <1>1, <1>2, <1>3, <2>1 DEF IInv, TypeOK
<1>5. AdminsComeFrom' /\ ConsoleKnowsCookie' /\ AnswersFit'
    BY <1>1, <1>2 DEF AdminsComeFrom, ConsoleKnowsCookie, AnswersFit
<1>. QED
    BY <1>4, <1>5 DEF IInv

LEMMA UsesKeepsIInv ==
    ASSUME IInv, NEW t \in Tabs, Uses(t)
    PROVE  IInv'
<1>1. 0 \in 0..MaxId /\ Ids \subseteq 0..MaxId /\ "/account" \in Paths
      /\ "select" \in Forms /\ "delete" \in Forms
    BY ConsoleAssumption DEF Ids, Paths, Forms
<1>2. ASSUME NEW path \in Paths, NEW a \in 0..MaxId, Opens(t, path, a)
      PROVE  IInv'
    BY <1>2, RequestKeepsIInv DEF Opens
<1>3. ASSUME NEW form \in Forms, NEW a \in 0..MaxId, Submits(t, form, a)
      PROVE  IInv'
    BY <1>3, RequestKeepsIInv DEF Submits
<1>. QED
    BY <1>1, <1>2, <1>3 DEF Uses

LEMMA NextIInv == IInv /\ [Next]_vars => IInv'
<1> SUFFICES ASSUME IInv, [Next]_vars PROVE IInv'
    OBVIOUS
<1>1. CASE UNCHANGED vars
    BY <1>1 DEF vars, store, IInv, TypeOK, AdminsComeFrom, ConsoleKnowsCookie, AnswersFit
<1>. QED
    BY <1>1, StartOverKeepsIInv, HandlerKeepsIInv, UsesKeepsIInv, ReceivesKeepsIInv DEF Next

(* The inductive invariant holds throughout. *)
LEMMA Invariance == Spec => []IInv
BY InitIInv, NextIInv, PTL DEF Spec

(* The types of Console: there is at most one admin, whatever the tabs do. *)
THEOREM TypeCorrect == Spec => []TypeOK
<1>1. IInv => TypeOK
    BY DEF IInv
<1>. QED
    BY <1>1, Invariance, PTL

(* The redirects of the pages end, also for a cookie of another database. *)
THEOREM RedirectSafety == Spec => []RedirectsSettle
<1>1. IInv => RedirectsSettle
    BY Settling DEF IInv, RedirectsSettle
<1>. QED
    BY <1>1, Invariance, PTL

(* The forms of an account's console act on its account, unless another tab or a
   new database overtook the page.                                         *)
THEOREM ConsoleSafety == Spec => []ConsoleActsOnItsAccount
<1>1. IInv => ConsoleActsOnItsAccount
  <2> SUFFICES ASSUME IInv, NEW t \in Tabs, tab[t].page = "account",
                      tab[t].account \in accounts, Free(t), t \notin stolen
               PROVE  cookie.account = tab[t].account
      BY DEF ConsoleActsOnItsAccount
  <2>1. Knows(tab[t], cookie, accounts, lastId)
      BY DEF IInv, ConsoleKnowsCookie
  <2>2. tab[t].request.what = "none" /\ ~tab[t].request.answered /\ "none" \notin Paths
      BY DEF Free, NoRequest, Request, Paths
  <2>. QED
      BY <2>1, <2>2 DEF Knows
<1>. QED
    BY <1>1, Invariance, PTL

(* Only an answer that arrives puts an admin into the cookie, and the admin came
   with its request, or with an accepted setup or login.                   *)
LEMMA UndoneByOverlap ==
    ASSUME IInv, Next, cookie.admin = 0, cookie'.admin # 0
    PROVE  \E t \in Tabs : LET r == tab[t].request IN
               r.answered /\ (r.sent.admin # 0 \/ (r.what \in {"setup", "login"} /\ r.to # Stay))
<1>1. cookie' # cookie
    OBVIOUS
<1>2. ~StartOver
    BY <1>1 DEF StartOver
<1>3. ASSUME NEW t \in Tabs, Handles(t) PROVE FALSE
  <2>1. ASSUME NEW to, NEW s, Answers(t, to, s) PROVE FALSE
      BY <1>1, <2>1 DEF Answers
  <2>2. CASE GetPage(t) \/ Refuses(t) \/ AdminLogout(t)
      BY <2>1, <2>2 DEF GetPage, Refuses, AdminLogout
  <2>3. CASE SelectAccount(t) \/ DeleteAccount(t)
      BY <2>1, <2>3 DEF SelectAccount, DeleteAccount
  <2>4. CASE AddFails(t) \/ \E a \in Ids : AddAccount(t, a)
      BY <2>1, <2>4 DEF AddFails, AddAccount
  <2>5. CASE LogoutAccount(t) \/ Me(t) \/ Control(t)
      BY <2>1, <2>5 DEF LogoutAccount, Me, Control
  <2>6. CASE \E p \in Passwords : SetupSubmit(t, p) \/ LoginSubmit(t, p)
      BY <2>1, <2>6 DEF SetupSubmit, LoginSubmit
  <2>7. CASE \E p, q \in Passwords : ChangePassword(t, p, q)
      BY <2>1, <2>7 DEF ChangePassword
  <2>. QED
      BY <1>3, <2>2, <2>3, <2>4, <2>5, <2>6, <2>7 DEF Handles
<1>4. \A t \in Tabs : ~Uses(t)
    BY <1>1 DEF Uses, Opens, Submits
<1>5. PICK t \in Tabs : Receives(t)
    BY <1>2, <1>3, <1>4 DEF Next
<1>6. tab[t].request.answered /\ cookie' = SetCookie(tab[t].request, cookie)
    BY <1>5 DEF Receives
<1>7. tab[t].request.session.admin # 0
    BY <1>1, <1>6 DEF SetCookie
<1>. QED
    BY <1>6, <1>7 DEF IInv, AdminsComeFrom

(* A logout of the admin is undone by overlapping requests only. *)
THEOREM LogoutSafety == Spec => LogoutUndoneOnlyByOverlap
<1>1. IInv /\ [Next]_vars =>
        [cookie.admin = 0 /\ cookie'.admin # 0 =>
            \E t \in Tabs : LET r == tab[t].request IN
                r.answered /\ (r.sent.admin # 0 \/ (r.what \in {"setup", "login"} /\ r.to # Stay))]_vars
    BY UndoneByOverlap
<1>. QED
    BY <1>1, Invariance, PTL DEF Spec, LogoutUndoneOnlyByOverlap
=============================================================================
