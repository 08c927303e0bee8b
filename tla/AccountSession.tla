--------------------------- MODULE AccountSession ---------------------------
(***************************************************************************)
(* The session (access ticket and token) of one cloud account, and         *)
(* everybody who writes it: the login, logout, refresh, operate and delete *)
(* handlers of main.py, the start of its keep-alive and the refreshes of   *)
(* its top task (keepalive.py), over the account row of db.py and the      *)
(* calls of pcas/client.py.                                                *)
(*                                                                         *)
(* Tickets are numbered in the order the platform issues them, and a token *)
(* is named by the ticket it was exchanged for; 0 is no ticket or token.   *)
(* Row ids are numbered as SQLite gives them (AUTOINCREMENT); 0 is none.   *)
(* An action is what a task runs from one await to the next.               *)
(***************************************************************************)
EXTENDS Naturals

CONSTANTS
    Clients,     \* bound: concurrent web requests
    NoOne,       \* the lock is free
    MaxTickets,  \* bound: tickets the platform issues
    MaxIds       \* bound: times the account is created

ASSUME SessionAssumption ==
    /\ NoOne \notin Clients
    /\ MaxTickets \in Nat /\ MaxIds \in Nat

VARIABLES
    row,       \* the accounts row of the mobile
    nextId,    \* the next id of accounts
    machines,  \* ids that machines rows refer to
    pending,   \* session["pending_trust"] of the browser
    issued,    \* tickets the platform has issued
    rt,        \* the AccountRuntime of the account, with its top task
    lock,      \* KeepAliveService._lock
    work       \* the web requests

vars == <<row, nextId, machines, pending, issued, rt, lock, work>>

Tickets == 0..MaxTickets
Ids == 0..MaxIds

(* password: password_blob is not the empty one.  History: logout, what became
   of the last logout: "wiped", or "undone" by a write of a session that was
   not a login.                                                            *)
NoRow == [id |-> 0, token |-> 0, ticket |-> 0, password |-> FALSE,
          logout |-> "none"]
NoChallenge == [ticket |-> 0, id |-> 0]
(* client: the ticket of the PCASClient the top task is using. *)
NoRuntime == [id |-> 0, token |-> 0, ticket |-> 0, client |-> 0,
              running |-> FALSE, pc |-> "none"]
(* id, ticket, password: what the handler read before its first await; fresh:
   the ticket comes from this request's own login; again: the retry after a
   token refresh.  History: runs, how often the platform performed the
   operation; misread, a performed one was answered like a refused token;
   early, the request was under way when a logout wiped the row.           *)
Request(op, pc, id, ticket, password) ==
    [op |-> op, pc |-> pc, id |-> id, ticket |-> ticket, password |-> password,
     fresh |-> FALSE, again |-> FALSE, runs |-> 0, misread |-> FALSE,
     early |-> FALSE]
Idle == Request("none", "idle", 0, 0, FALSE)

Rows ==
    [id : Ids, token : Tickets, ticket : Tickets, password : BOOLEAN,
     logout : {"none", "wiped", "undone"}]
Runtimes ==
    [id : Ids, token : Tickets, ticket : Tickets, client : Tickets, running : BOOLEAN,
     pc : {"none", "sleeping", "listing", "exchange", "verify", "relogin", "relisting"}]
Requests ==
    [op : {"none", "login", "sms", "trust", "refresh", "operate",
           "start", "stop", "logout", "delete"},
     pc : {"idle", "verify", "exchange", "call", "performed", "refused", "lock", "gather"},
     id : Ids, ticket : Tickets, password : BOOLEAN, fresh : BOOLEAN,
     again : BOOLEAN, runs : 0..2, misread : BOOLEAN, early : BOOLEAN]

TypeOK ==
    /\ row \in Rows
    /\ nextId \in 1..(MaxIds + 1)
    /\ machines \subseteq Ids
    /\ pending \in [ticket : Tickets, id : Ids]
    /\ issued \in Tickets
    /\ rt \in Runtimes
    /\ lock \in Clients \cup {NoOne}
    /\ work \in [Clients -> Requests]

Init ==
    /\ row = NoRow /\ nextId = 1 /\ machines = {}
    /\ pending = NoChallenge /\ issued = 0
    /\ rt = NoRuntime /\ lock = NoOne
    /\ work = [c \in Clients |-> Idle]

-----------------------------------------------------------------------------
(* The account store.                                                      *)

(* update_account_session: no row of that id, no update. *)
Stored(id, token, ticket) ==
    IF row.id = id
      THEN [row EXCEPT !.token = token, !.ticket = ticket,
                       !.logout = IF @ = "wiped" /\ ticket # 0 THEN "undone" ELSE @]
      ELSE row

Wiped(id) == Stored(id, 0, 0)

(* upsert_account: the row of the mobile, made if there is none. *)
Upserted(password) ==
    IF row.id = 0 THEN [NoRow EXCEPT !.id = nextId, !.password = password]
                  ELSE [row EXCEPT !.password = password]

UpsertPossible == row.id # 0 \/ nextId <= MaxIds
IdUsed == nextId' = IF row.id = 0 THEN nextId + 1 ELSE nextId

-----------------------------------------------------------------------------
(* Requests.                                                               *)

Becomes(c, w) == work' = [work EXCEPT ![c] = w]

(* The handler returns or raises; async with releases the lock. *)
Returns(c) ==
    /\ Becomes(c, Idle)
    /\ lock' = IF lock = c THEN NoOne ELSE lock

(* api_login, api_login_sms: what exists already is read before the call. *)
LoginBegins(c, op) ==
    /\ work[c] = Idle
    /\ Becomes(c, Request(op, "verify", row.id, 0, row.password))
    /\ UNCHANGED <<row, nextId, machines, pending, issued, rt, lock>>

(* api_login_sms_trust, for the challenge the browser session holds. *)
TrustBegins(c) ==
    /\ work[c] = Idle /\ pending # NoChallenge
    /\ Becomes(c, Request("trust", "verify", pending.id, pending.ticket, FALSE))
    /\ UNCHANGED <<row, nextId, machines, pending, issued, rt, lock>>

(* api_refresh: without a row the handler raises, without a ticket the client
   does, before any call.                                                  *)
RefreshBegins(c) ==
    /\ work[c] = Idle /\ row.id # 0 /\ row.ticket # 0
    /\ Becomes(c, Request("refresh", "exchange", row.id, row.ticket, FALSE))
    /\ UNCHANGED <<row, nextId, machines, pending, issued, rt, lock>>

(* api_op: the machine must be known, and the account. *)
OperateBegins(c) ==
    /\ work[c] = Idle /\ row.id # 0 /\ row.id \in machines
    /\ Becomes(c, Request("operate", "call", row.id, row.ticket, FALSE))
    /\ UNCHANGED <<row, nextId, machines, pending, issued, rt, lock>>

(* api_ka_start, api_ka_stop, api_logout, delete_account wait for the lock of
   the service, for an account id the browser has seen.                    *)
ServiceBegins(c, op, id) ==
    /\ work[c] = Idle /\ id < nextId
    /\ Becomes(c, Request(op, "lock", id, 0, FALSE))
    /\ UNCHANGED <<row, nextId, machines, pending, issued, rt, lock>>

-----------------------------------------------------------------------------
(* The login flows of the client and their ends in the handlers.           *)

LoginOps == {"login", "sms", "trust", "start"}

(* The platform accepts the credentials: a new ticket, except for a trusted
   device, which continues with the ticket of its challenge.               *)
Verified(c) ==
    LET w == work[c] IN
    /\ w.pc = "verify"
    /\ IF w.op = "trust"
         THEN issued' = issued /\ Becomes(c, [w EXCEPT !.pc = "exchange"])
         ELSE /\ issued < MaxTickets
              /\ issued' = issued + 1
              /\ Becomes(c, [w EXCEPT !.pc = "exchange", !.ticket = issued + 1,
                                      !.fresh = TRUE])
    /\ UNCHANGED <<row, nextId, machines, pending, rt, lock>>

(* A call of a login failed, for whatever reason (PCASError).  A login form
   clears the session of the account that existed; trust only logs; a start
   raises.                                                                 *)
LoginFails(c) ==
    LET w == work[c] IN
    /\ w.op \in LoginOps
    /\ w.pc = "verify" \/ (w.pc = "exchange" /\ (w.op # "start" \/ w.fresh))
    /\ row' = IF w.op \in {"login", "sms"} /\ w.id # 0 THEN Wiped(w.id) ELSE row
    /\ Returns(c)
    /\ UNCHANGED <<nextId, machines, pending, issued, rt>>

(* The device is not trusted: a password login or a start ends here. *)
DeviceChallenged(c) ==
    /\ work[c].pc = "verify" /\ work[c].op \in {"login", "start"}
    /\ Returns(c)
    /\ UNCHANGED <<row, nextId, machines, pending, issued, rt>>

(* An SMS login from a new device: the row is upserted, the choice of the
   device type is left to api_login_sms_trust.                             *)
SmsChallenged(c) ==
    LET w == work[c] IN
    /\ w.pc = "verify" /\ w.op = "sms"
    /\ issued < MaxTickets /\ UpsertPossible
    /\ issued' = issued + 1
    /\ row' = Upserted(w.password) /\ IdUsed
    /\ pending' = [ticket |-> issued + 1, id |-> row'.id]
    /\ Returns(c)
    /\ UNCHANGED <<machines, rt>>

(* A form login got its token and machine list: account, session and machines
   are stored without another await.                                       *)
LoginSucceeds(c) ==
    LET w == work[c] IN
    /\ w.pc = "exchange" /\ w.op \in {"login", "sms"}
    /\ UpsertPossible /\ IdUsed
    /\ row' = [Upserted(w.op = "login" \/ w.password) EXCEPT
                  !.token = w.ticket, !.ticket = w.ticket,
                  !.logout = "none"]
    /\ machines' = machines \cup {row'.id}
    /\ Returns(c)
    /\ UNCHANGED <<pending, issued, rt>>

(* A trusted (or temporary) device: the account of the challenge is updated. *)
TrustSucceeds(c) ==
    LET w == work[c] IN
    /\ w.pc = "exchange" /\ w.op = "trust"
    /\ row' = IF row.id = w.id
                THEN [Stored(w.id, w.ticket, w.ticket) EXCEPT !.logout = "none"]
                ELSE row
    /\ machines' = machines \cup {w.id}
    /\ pending' = NoChallenge
    /\ Returns(c)
    /\ UNCHANGED <<nextId, issued, rt>>

-----------------------------------------------------------------------------
(* Refresh and operate.                                                    *)

(* _complete_login of a refresh got a new token for the ticket it was given. *)
RefreshSucceeds(c) ==
    LET w == work[c] IN
    /\ w.pc = "exchange" /\ w.op = "refresh"
    /\ row' = Stored(w.id, w.ticket, w.ticket)
    /\ machines' = machines \cup {w.id}
    /\ Returns(c)
    /\ UNCHANGED <<nextId, pending, issued, rt>>

(* The platform performs the operation or rejects it; the answer is still
   under way.  "refused": it reads like a refused token to is_auth_failure,
   which looks for words anywhere in a message, also in the page of a gateway
   (an HTTP error, a body that is not JSON) that stands for the answer to an
   operation that was performed.                                           *)
PlatformAnswers(c) ==
    LET w == work[c] IN
    /\ w.pc = "call"
    /\ \/ Becomes(c, [w EXCEPT !.pc = "performed", !.runs = @ + 1])
       \/ Becomes(c, [w EXCEPT !.pc = "refused"])
       \/ Becomes(c, [w EXCEPT !.pc = "refused", !.runs = @ + 1, !.misread = TRUE])
    /\ UNCHANGED <<row, nextId, machines, pending, issued, rt, lock>>

(* call_with_auto_refresh: the first such answer leads to a refresh, which
   needs a ticket.                                                         *)
TokenRefused(c) ==
    LET w == work[c] IN
    /\ w.pc = "refused" /\ ~w.again /\ w.ticket # 0
    /\ Becomes(c, [w EXCEPT !.pc = "exchange"])
    /\ UNCHANGED <<row, nextId, machines, pending, issued, rt, lock>>

(* Plausible bug: every failure is retried, a lost answer too. *)
RetryAfterLoss(c) ==
    LET w == work[c] IN
    /\ w.pc \in {"call", "performed", "refused"}
    /\ IF ~w.again /\ w.ticket # 0
         THEN Becomes(c, [w EXCEPT !.pc = "exchange"]) /\ lock' = lock
         ELSE Returns(c)
    /\ UNCHANGED <<row, nextId, machines, pending, issued, rt>>

(* Plausible bug: and it is retried without end. *)
RetryForever(c) ==
    LET w == work[c] IN
    /\ w.pc \in {"call", "performed", "refused"}
    /\ IF w.ticket # 0
         THEN Becomes(c, [w EXCEPT !.pc = "exchange"]) /\ lock' = lock
         ELSE Returns(c)
    /\ UNCHANGED <<row, nextId, machines, pending, issued, rt>>

(* Any other end of the call: the answer, another error, no answer, or a token
   refused again or without a ticket to refresh it.                        *)
OperateReturns(c) ==
    /\ \/ work[c].pc \in {"call", "performed"}
       \/ work[c].pc = "refused" /\ (work[c].again \/ work[c].ticket = 0)
    /\ Returns(c)
    /\ UNCHANGED <<row, nextId, machines, pending, issued, rt>>

(* Refreshed: on_refresh stores the session, and the call is made again. *)
OperateRetried(c) ==
    LET w == work[c] IN
    /\ w.pc = "exchange" /\ w.op = "operate"
    /\ row' = Stored(w.id, w.ticket, w.ticket)
    /\ Becomes(c, [w EXCEPT !.pc = "call", !.again = TRUE])
    /\ UNCHANGED <<nextId, machines, pending, issued, rt, lock>>

(* The ticket was refused, or nobody answered: logged, nothing stored. *)
RefreshFails(c) ==
    /\ work[c].pc = "exchange" /\ work[c].op \in {"refresh", "operate"}
    /\ Returns(c)
    /\ UNCHANGED <<row, nextId, machines, pending, issued, rt>>

-----------------------------------------------------------------------------
(* The keep-alive service: start, stop, and what logout and delete do after. *)

(* _begin_account from the read of the row: by ticket, else by password. *)
StartCalls(c, w) ==
    IF w.ticket # 0 THEN Becomes(c, [w EXCEPT !.pc = "exchange"]) /\ lock' = c
    ELSE IF w.password THEN Becomes(c, [w EXCEPT !.pc = "verify"]) /\ lock' = c
    ELSE Becomes(c, Idle) /\ lock' = NoOne

StartAcquires(c) ==
    LET w == [work[c] EXCEPT !.ticket = row.ticket, !.password = row.password] IN
    /\ work[c].pc = "lock" /\ work[c].op = "start" /\ lock = NoOne
    /\ IF row.id # work[c].id
         THEN Returns(c) /\ rt' = rt
         ELSE IF rt.id = w.id
           THEN /\ Becomes(c, [w EXCEPT !.pc = "gather"]) /\ lock' = c
                /\ rt' = [rt EXCEPT !.running = FALSE]
           ELSE StartCalls(c, w) /\ rt' = rt
    /\ UNCHANGED <<row, nextId, machines, pending, issued>>

(* After stop_for returned, logout wipes and delete deletes, in one go.  (Both
   would also go on after a stop_for that raised; what it can raise is a failed
   write of the store, and the writes of requests are taken to succeed.)   *)
Aftermath(c) ==
    LET w == work[c]
        hit == w.op = "logout" /\ row.id = w.id
    IN
    /\ row' = CASE w.op = "delete" /\ row.id = w.id -> NoRow
                [] hit -> [Wiped(w.id) EXCEPT !.logout = "wiped"]
                [] OTHER -> row
    /\ machines' = IF w.op = "delete" THEN machines \ {w.id} ELSE machines
    /\ work' = [d \in Clients |->
          IF d = c THEN Idle
          ELSE [work[d] EXCEPT !.early = @ \/ (hit /\ work[d] # Idle)]]
    /\ lock' = NoOne

StopOps == {"stop", "logout", "delete"}

(* Plausible bug: a delete removes the account and then stops its keep-alive. *)
StopAcquiresAfterDelete(c) ==
    /\ work[c].pc = "lock" /\ work[c].op \in StopOps /\ lock = NoOne
    /\ IF rt.id = work[c].id
         THEN /\ row' = IF work[c].op = "delete" THEN NoRow ELSE row
              /\ Becomes(c, [work[c] EXCEPT !.pc = "gather"]) /\ lock' = c
              /\ rt' = [rt EXCEPT !.running = FALSE]
              /\ UNCHANGED machines
         ELSE Aftermath(c) /\ rt' = rt
    /\ UNCHANGED <<nextId, pending, issued>>

StopAcquires(c) ==
    /\ work[c].pc = "lock" /\ work[c].op \in StopOps /\ lock = NoOne
    /\ IF rt.id = work[c].id
         THEN /\ Becomes(c, [work[c] EXCEPT !.pc = "gather"]) /\ lock' = c
              /\ rt' = [rt EXCEPT !.running = FALSE]
              /\ UNCHANGED <<row, machines>>
         ELSE Aftermath(c) /\ rt' = rt
    /\ UNCHANGED <<nextId, pending, issued>>

(* Plausible bug: the top task is left to notice by itself that it must end. *)
GatheredLeavesTop(c) ==
    /\ work[c].pc = "gather"
    /\ rt' = rt
    /\ IF work[c].op = "start"
         THEN StartCalls(c, work[c]) /\ UNCHANGED <<row, machines>>
         ELSE Aftermath(c)
    /\ UNCHANGED <<nextId, pending, issued>>

(* The runners have ended, the cancelled top task too: the account is stopped. *)
Gathered(c) ==
    /\ work[c].pc = "gather"
    /\ rt' = NoRuntime
    /\ IF work[c].op = "start"
         THEN StartCalls(c, work[c]) /\ UNCHANGED <<row, machines>>
         ELSE Aftermath(c)
    /\ UNCHANGED <<nextId, pending, issued>>

(* The stored ticket was refused (PCASError): on to the password, read before
   the stop.  Without one, or for another exception, the start is over.    *)
StartFallsBack(c) ==
    LET w == work[c] IN
    /\ w.pc = "exchange" /\ w.op = "start" /\ ~w.fresh
    /\ \/ w.password /\ Becomes(c, [w EXCEPT !.pc = "verify"]) /\ lock' = lock
       \/ Returns(c)
    /\ UNCHANGED <<row, nextId, machines, pending, issued, rt>>

(* The runtime gets the session, the row too, and the top task starts. *)
StartSucceeds(c) ==
    LET w == work[c] IN
    /\ w.pc = "exchange" /\ w.op = "start"
    /\ rt' = [id |-> w.id, token |-> w.ticket, ticket |-> w.ticket, client |-> 0,
              running |-> TRUE, pc |-> "sleeping"]
    /\ row' = IF row.id = w.id
                THEN [Stored(w.id, w.ticket, w.ticket) EXCEPT !.logout = "none"] ELSE row
    /\ Returns(c)
    /\ UNCHANGED <<nextId, machines, pending, issued>>

-----------------------------------------------------------------------------
(* The top task: the refreshes of its machine list.                        *)

RefreshDue ==
    /\ rt.pc = "sleeping" /\ rt.running
    /\ rt' = [rt EXCEPT !.pc = "listing", !.client = rt.ticket]
    /\ UNCHANGED <<row, nextId, machines, pending, issued, lock, work>>

(* The list arrived, or the call failed in another way: until the next one. *)
Listed ==
    /\ rt.pc \in {"listing", "relisting"}
    /\ rt' = [rt EXCEPT !.pc = "sleeping", !.client = 0]
    /\ UNCHANGED <<row, nextId, machines, pending, issued, lock, work>>

(* An auth failure: _refresh_account_token with a client of its own. *)
ListDenied ==
    /\ rt.pc = "listing"
    /\ rt' = [rt EXCEPT !.pc = "exchange", !.client = rt.ticket]
    /\ UNCHANGED <<row, nextId, machines, pending, issued, lock, work>>

TokenRefreshed ==
    /\ rt.pc = "exchange"
    /\ rt' = [rt EXCEPT !.pc = "relisting", !.token = rt.client]
    /\ row' = Stored(rt.id, rt.client, rt.ticket)
    /\ UNCHANGED <<nextId, machines, pending, issued, lock, work>>

(* The ticket was refused: log in with the stored password, if there is one. *)
TicketRefused ==
    /\ rt.pc = "exchange"
    /\ rt' = [rt EXCEPT !.pc = IF row.id = rt.id /\ row.password
                                 THEN "verify" ELSE "sleeping"]
    /\ UNCHANGED <<row, nextId, machines, pending, issued, lock, work>>

PasswordAccepted ==
    /\ rt.pc = "verify" /\ issued < MaxTickets
    /\ issued' = issued + 1
    /\ rt' = [rt EXCEPT !.pc = "relogin", !.client = issued + 1]
    /\ UNCHANGED <<row, nextId, machines, pending, lock, work>>

ReloginFails ==
    /\ rt.pc \in {"verify", "relogin"}
    /\ rt' = [rt EXCEPT !.pc = "sleeping", !.client = 0]
    /\ UNCHANGED <<row, nextId, machines, pending, issued, lock, work>>

(* Plausible bug: only the token is replaced, as after a ticket refresh. *)
ReloggedInTokenOnly ==
    /\ rt.pc = "relogin"
    /\ rt' = [rt EXCEPT !.pc = "relisting", !.token = rt.client]
    /\ row' = Stored(rt.id, rt.client, rt.ticket)
    /\ UNCHANGED <<nextId, machines, pending, issued, lock, work>>

ReloggedIn ==
    /\ rt.pc = "relogin"
    /\ rt' = [rt EXCEPT !.pc = "relisting", !.token = rt.client, !.ticket = rt.client]
    /\ row' = Stored(rt.id, rt.client, rt.client)
    /\ UNCHANGED <<nextId, machines, pending, issued, lock, work>>

(* The process is gone; the rows stay, and the cookie of the browser. *)
Exit ==
    /\ rt' = NoRuntime /\ lock' = NoOne
    /\ work' = [c \in Clients |-> Idle]
    /\ UNCHANGED <<row, nextId, machines, pending, issued>>

-----------------------------------------------------------------------------
Begins(c) ==
    \/ LoginBegins(c, "login") \/ LoginBegins(c, "sms") \/ TrustBegins(c)
    \/ RefreshBegins(c) \/ OperateBegins(c)
    \/ \E op \in {"start"} \cup StopOps, id \in 1..(nextId - 1) : ServiceBegins(c, op, id)

Login(c) ==
    \/ Verified(c) \/ LoginFails(c) \/ DeviceChallenged(c) \/ SmsChallenged(c)
    \/ LoginSucceeds(c) \/ TrustSucceeds(c)

Uses(c) ==
    \/ RefreshSucceeds(c) \/ PlatformAnswers(c) \/ TokenRefused(c)
    \/ OperateReturns(c) \/ OperateRetried(c) \/ RefreshFails(c)

Service(c) ==
    \/ StartAcquires(c) \/ StopAcquires(c) \/ Gathered(c)
    \/ StartFallsBack(c) \/ StartSucceeds(c)

Top ==
    \/ RefreshDue \/ Listed \/ ListDenied \/ TokenRefreshed \/ TicketRefused
    \/ PasswordAccepted \/ ReloginFails \/ ReloggedIn

Next ==
    \/ \E c \in Clients : Begins(c) \/ Login(c) \/ Uses(c) \/ Service(c)
    \/ Top \/ Exit

Spec == Init /\ [][Next]_vars

-----------------------------------------------------------------------------
(* Properties.                                                             *)

(* A stored token was exchanged for the ticket stored beside it, in the row
   and in the runtime, whoever wrote last: a refresh with that ticket renews
   that session.                                                           *)
SessionsAreWhole == row.token = row.ticket /\ rt.token = rt.ticket

(* The service never works for an account that is gone: neither a runtime nor
   a start that holds the lock survives the delete of its row.             *)
ServedAccountExists ==
    /\ rt.id # 0 => rt.id = row.id
    /\ \A c \in Clients :
          work[c].op = "start" /\ work[c].pc \in {"gather", "verify", "exchange"} =>
              work[c].id = row.id /\ lock = c

(* A session that a logout wiped comes back without a login only through a
   refresh or an operation that was under way when the logout wiped it:
   the keep-alive task does not bring it back.                             *)
LogoutUndoneOnlyByOverlap ==
    [][row.logout = "wiped" /\ row'.logout = "undone" =>
        \E c \in Clients : work[c].early /\ work[c].op \in {"refresh", "operate"}
                              /\ work[c].pc = "exchange"]_vars

(* The retry after a token refresh repeats a power operation that the platform
   has performed only if its answer read like a refused token, and then once:
   a lost answer, a time-out or another error is never followed by a retry. *)
RepeatedOnlyIfMisread ==
    \A c \in Clients : work[c].runs <= IF work[c].misread THEN 2 ELSE 1

-----------------------------------------------------------------------------
(* The inductive invariant behind these properties.                        *)

(* A top task works for an account, and one that refreshes does so with the
   ticket of its runtime.                                                  *)
TopFollowsRuntime ==
    /\ rt.pc # "none" => rt.id # 0
    /\ rt.pc = "exchange" => rt.client = rt.ticket

(* Who waits for a stop holds the lock, and a start names an account. *)
LockFollowsWork ==
    \A c \in Clients :
        /\ work[c].pc = "gather" => lock = c
        /\ work[c].op = "start" => work[c].id # 0

(* What the platform has performed for a request: nothing before its call, and
   before the second call only what was misread.                           *)
RunsFit(w) ==
    /\ w.op # "operate" \/ (w.pc = "call" /\ ~w.again) => w.runs = 0
    /\ w.runs = 0 \/ w.misread \/ (w.runs = 1 /\ w.pc = "performed")
    /\ w.runs = 2 => w.again /\ w.pc \in {"performed", "refused"}

RunsFollowCall == \A c \in Clients : RunsFit(work[c])

(* Only logins present credentials, only operate calls the platform to
   act, only starts and stops wait for a stop.                             *)
PhaseFollowsOp ==
    \A c \in Clients :
        /\ work[c].pc = "verify" => work[c].op \in LoginOps
        /\ work[c].pc \in {"call", "performed", "refused"} => work[c].op = "operate"
        /\ work[c].pc = "gather" => work[c].op \in {"start"} \cup StopOps

(* A logged-out row is served by no runtime, and whoever still carries a
   ticket of it was under way at the logout.                               *)
LogoutStopsOthers ==
    row.logout = "wiped" =>
        /\ row.ticket = 0 /\ rt.id = 0
        /\ \A c \in Clients :
              work[c].op \in {"refresh", "operate"} /\ work[c].ticket # 0 => work[c].early

IInv ==
    /\ TypeOK
    /\ SessionsAreWhole
    /\ ServedAccountExists
    /\ TopFollowsRuntime
    /\ LockFollowsWork
    /\ RunsFollowCall
    /\ PhaseFollowsOp
    /\ LogoutStopsOthers

-----------------------------------------------------------------------------
(* What the code's documents say and the code does not do.                 *)

(* main.py, api_logout: "logs out of the selected account": a row that was
   logged out has no session until the next login.                         *)
LogoutIsFinal == row.logout # "undone"
=============================================================================
