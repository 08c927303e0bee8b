------------------------ MODULE AccountSessionProofs ------------------------
(***************************************************************************)
(* Proofs about AccountSession, for any number of requests, tickets and    *)
(* accounts: types, the pairing of tokens and tickets, the existence of    *)
(* every served account, when an operation may be repeated, and that only  *)
(* overlapping requests undo a logout.                                     *)
(***************************************************************************)
EXTENDS AccountSession, TLAPS

(* A request record that changes leaves the others alone. *)
LEMMA BecomesWrites ==
    ASSUME TypeOK, NEW c \in Clients, NEW w \in Requests, Becomes(c, w)
    PROVE  /\ work' \in [Clients -> Requests]
           /\ work'[c] = w
           /\ \A d \in Clients : d # c => work'[d] = work[d]
BY DEF TypeOK, Becomes

(* What a handler reads at its start makes a well-typed request. *)
LEMMA RequestTyped ==
    ASSUME NEW op \in {"none", "login", "sms", "trust", "refresh", "operate",
                       "start", "stop", "logout", "delete"},
           NEW pc \in {"idle", "verify", "exchange", "call", "lock"},
           NEW id \in Ids, NEW ticket \in Tickets, NEW password \in BOOLEAN
    PROVE  Request(op, pc, id, ticket, password) \in Requests
BY DEF Request, Requests

(* The idle request and the absent row and runtime are well typed. *)
LEMMA NothingTyped == Idle \in Requests /\ NoRow \in Rows /\ NoRuntime \in Runtimes
<1>1. 0 \in Ids /\ 0 \in Tickets
    BY SessionAssumption DEF Ids, Tickets
<1>. QED
    BY <1>1, RequestTyped DEF Idle, NoRow, Rows, NoRuntime, Runtimes

(* A request that moves on keeps what it has read. *)
LEMMA MovedTyped ==
    ASSUME NEW w \in Requests,
           NEW pc \in {"idle", "verify", "exchange", "call", "performed", "refused",
                       "lock", "gather"}
    PROVE  /\ [w EXCEPT !.pc = pc] \in Requests
           /\ [w EXCEPT !.pc = pc].pc = pc
           /\ [w EXCEPT !.pc = pc].op = w.op
           /\ [w EXCEPT !.pc = pc].id = w.id
           /\ [w EXCEPT !.pc = pc].ticket = w.ticket
           /\ [w EXCEPT !.pc = pc].runs = w.runs
           /\ [w EXCEPT !.pc = pc].early = w.early
BY DEF Requests

(* A request that the platform has performed nothing for. *)
LEMMA NoRunsFit == ASSUME NEW w, w.runs = 0 PROVE RunsFit(w)
BY DEF RunsFit

(* An operation under way that the platform performs, whether its answer is
   read as what it is or like a refused token: the second time only after the
   first was misread.                                                      *)
LEMMA PerformedFits ==
    ASSUME NEW w \in Requests, RunsFit(w), w.pc = "call", w.op = "operate",
           NEW p \in Requests, p.op = w.op, p.again = w.again, p.runs = w.runs + 1,
           \/ p.pc = "performed" /\ p.misread = w.misread
           \/ p.pc = "refused" /\ p.misread = TRUE
    PROVE  RunsFit(p)
<1>1. w.runs \in 0..2 /\ w.runs # 2 /\ w.again \in BOOLEAN /\ w.misread \in BOOLEAN
    BY DEF RunsFit, Requests
<1>2. CASE w.runs = 0
    BY <1>1, <1>2 DEF RunsFit
<1>3. CASE w.runs = 1
  <2>1. w.misread /\ w.again
      BY <1>3 DEF RunsFit
  <2>. QED
      BY <1>3, <2>1 DEF RunsFit
<1>. QED
    BY <1>1, <1>2, <1>3

(* The platform performs an operation at most twice. *)
LEMMA RunsInRange ==
    ASSUME NEW w \in Requests, RunsFit(w), w.pc = "call"
    PROVE  w.runs + 1 \in 0..2
<1>1. w.runs \in 0..2 /\ w.runs # 2
    BY DEF RunsFit, Requests
<1>. QED
    BY <1>1

(* A session that is stored keeps the row's id and password. *)
LEMMA StoredRow ==
    ASSUME row \in Rows, NEW id \in Ids, NEW token \in Tickets, NEW ticket \in Tickets
    PROVE  /\ Stored(id, token, ticket) \in Rows
           /\ Stored(id, token, ticket).id = row.id
           /\ row.id # id => Stored(id, token, ticket) = row
           /\ row.id = id => /\ Stored(id, token, ticket).token = token
                             /\ Stored(id, token, ticket).ticket = ticket
           /\ Stored(id, token, ticket).logout = "wiped" =>
                 row.logout = "wiped" /\ (row.id = id => ticket = 0)
BY DEF Rows, Stored

(* An upsert finds the row or makes the one of the next id. *)
LEMMA UpsertedRow ==
    ASSUME TypeOK, UpsertPossible, NEW p \in BOOLEAN
    PROVE  /\ Upserted(p) \in Rows
           /\ Upserted(p).token = row.token \/ (row.id = 0 /\ Upserted(p).token = 0)
           /\ row.id # 0 => /\ Upserted(p).id = row.id
                            /\ Upserted(p).token = row.token
                            /\ Upserted(p).ticket = row.ticket
                            /\ Upserted(p).logout = row.logout
           /\ row.id = 0 => /\ Upserted(p).id = nextId
                            /\ Upserted(p).token = 0
                            /\ Upserted(p).ticket = 0
                            /\ Upserted(p).logout = "none"
<1>1. CASE row.id = 0
  <2>1. nextId \in Ids
    BY <1>1, SessionAssumption DEF TypeOK, UpsertPossible, Ids
  <2>. QED
    BY <1>1, <2>1, NothingTyped DEF Upserted, NoRow, Rows
<1>2. CASE row.id # 0
    BY <1>2 DEF Upserted, TypeOK, Rows
<1>. QED
    BY <1>1, <1>2

LEMMA InitIInv == Init => IInv
<1> SUFFICES ASSUME Init PROVE IInv
    OBVIOUS
<1>1. TypeOK
    BY NothingTyped, SessionAssumption
    DEF Init, TypeOK, Tickets, Ids, NoChallenge
<1>. QED
    BY <1>1 DEF Init, IInv, SessionsAreWhole, ServedAccountExists, TopFollowsRuntime,
        LockFollowsWork, RunsFollowCall, RunsFit, PhaseFollowsOp, LogoutStopsOthers, LoginOps, NoRow, NoRuntime, Idle, Request

(* What a step of one request must leave behind to keep the invariant: its own
   record in order, the row whole, the lock passed on by its holder only, and
   a logged-out row left alone.                                            *)
LEMMA RequestStep ==
    ASSUME IInv, NEW c \in Clients, NEW w \in Requests, Becomes(c, w),
           row' \in Rows, rt' \in Runtimes, issued' \in Tickets,
           nextId' \in 1..(MaxIds + 1), machines' \subseteq Ids,
           pending' \in [ticket : Tickets, id : Ids],
           row'.token = row'.ticket, rt'.token = rt'.ticket,
           rt'.pc # "exchange" \/ rt'.client = rt'.ticket,
           rt'.pc = "none" \/ rt'.id # 0,
           rt'.id = 0 \/ rt'.id = row'.id,
           row'.id = row.id \/ row.id = 0,
           lock' = lock \/ (lock \in {c, NoOne} /\ lock' \in {c, NoOne}),
           RunsFit(w),
           w.pc = "verify" => w.op \in LoginOps,
           w.pc \in {"call", "performed", "refused"} => w.op = "operate",
           w.pc = "gather" => lock' = c /\ w.op \in {"start"} \cup StopOps,
           w.op = "start" =>
               /\ w.id # 0
               /\ w.pc \in {"gather", "verify", "exchange"} => w.id = row'.id /\ lock' = c,
           row'.logout = "wiped" =>
               /\ row.logout = "wiped" /\ row'.ticket = 0 /\ rt'.id = 0
               /\ w.op \in {"refresh", "operate"} /\ w.ticket # 0 => w.early
    PROVE  IInv'
<1>1. /\ work' \in [Clients -> Requests] /\ work'[c] = w
      /\ \A d \in Clients : d # c => work'[d] = work[d]
    BY BecomesWrites DEF IInv
<1>2. TypeOK'
    BY <1>1 DEF IInv, TypeOK
<1>3. SessionsAreWhole' /\ TopFollowsRuntime'
    BY DEF SessionsAreWhole, TopFollowsRuntime
<1>4. ServedAccountExists'
  <2>1. \A d \in Clients :
            d # c /\ work[d].op = "start" /\ work[d].pc \in {"gather", "verify", "exchange"}
              => work[d].id = row'.id /\ lock' = d
      BY SessionAssumption DEF IInv, ServedAccountExists, LockFollowsWork
  <2>. QED
      BY <1>1, <2>1 DEF ServedAccountExists
<1>5. LockFollowsWork'
  <2>1. \A d \in Clients : d # c /\ work[d].pc = "gather" => lock' = d
      BY SessionAssumption DEF IInv, LockFollowsWork
  <2>. QED
      BY <1>1, <2>1 DEF IInv, LockFollowsWork
<1>6. RunsFollowCall' /\ PhaseFollowsOp'
    BY <1>1 DEF IInv, RunsFollowCall, RunsFit, PhaseFollowsOp
<1>7. LogoutStopsOthers'
    BY <1>1 DEF IInv, LogoutStopsOthers
<1>. QED
    BY <1>2, <1>3, <1>4, <1>5, <1>6, <1>7 DEF IInv

(* The same for a request that returns or raises. *)
LEMMA ReturnStep ==
    ASSUME IInv, NEW c \in Clients, Returns(c),
           row' \in Rows, rt' \in Runtimes, issued' \in Tickets,
           nextId' \in 1..(MaxIds + 1), machines' \subseteq Ids,
           pending' \in [ticket : Tickets, id : Ids],
           row'.token = row'.ticket, rt'.token = rt'.ticket,
           rt'.pc # "exchange" \/ rt'.client = rt'.ticket,
           rt'.pc = "none" \/ rt'.id # 0,
           rt'.id = 0 \/ rt'.id = row'.id,
           row'.id = row.id \/ row.id = 0,
           row'.logout = "wiped" => row.logout = "wiped" /\ row'.ticket = 0 /\ rt'.id = 0
    PROVE  IInv'
<1>1. Idle \in Requests /\ Idle.op = "none" /\ Idle.pc = "idle" /\ RunsFit(Idle)
    BY NothingTyped, NoRunsFit DEF Idle, Request
<1>2. /\ Becomes(c, Idle)
      /\ lock' = lock \/ (lock \in {c, NoOne} /\ lock' \in {c, NoOne})
    BY DEF Returns
<1>. QED
    BY <1>1, <1>2, RequestStep

(* Requests that begin: nothing but the request itself changes. *)
LEMMA BeginsKeepsIInv ==
    ASSUME IInv, NEW c \in Clients, Begins(c)
    PROVE  IInv'
<1> USE DEF IInv, SessionsAreWhole, ServedAccountExists, TopFollowsRuntime,
            LockFollowsWork, RunsFollowCall, RunsFit, PhaseFollowsOp, LogoutStopsOthers, LoginOps
<1>0. 0 \in Ids /\ 0 \in Tickets
    BY SessionAssumption DEF Ids, Tickets
<1>1. ASSUME NEW op \in {"login", "sms"}, LoginBegins(c, op)
      PROVE  IInv'
  <2>1. work[c] = Idle /\ UNCHANGED <<row, nextId, machines, pending, issued, rt, lock>>
      BY <1>1 DEF LoginBegins
  <2> DEFINE w == Request(op, "verify", row.id, 0, row.password)
  <2>2. w \in Requests
      BY <1>0, RequestTyped DEF TypeOK, Rows
  <2>3. Becomes(c, w)
      BY <1>1 DEF LoginBegins
  <2>. QED
      BY <2>1, <2>2, <2>3, RequestStep DEF TypeOK, Idle, Request
<1>2. CASE TrustBegins(c)
  <2> DEFINE w == Request("trust", "verify", pending.id, pending.ticket, FALSE)
  <2>1. work[c] = Idle /\ UNCHANGED <<row, nextId, machines, pending, issued, rt, lock>>
      BY <1>2 DEF TrustBegins
  <2>2. w \in Requests
      BY RequestTyped DEF TypeOK
  <2>3. Becomes(c, w)
      BY <1>2 DEF TrustBegins
  <2>. QED
      BY <2>1, <2>2, <2>3, RequestStep DEF TypeOK, Idle, Request
<1>3. CASE RefreshBegins(c)
  <2> DEFINE w == Request("refresh", "exchange", row.id, row.ticket, FALSE)
  <2>1. /\ work[c] = Idle /\ row.ticket # 0
        /\ UNCHANGED <<row, nextId, machines, pending, issued, rt, lock>>
      BY <1>3 DEF RefreshBegins
  <2>2. w \in Requests
      BY RequestTyped DEF TypeOK, Rows
  <2>3. Becomes(c, w)
      BY <1>3 DEF RefreshBegins
  <2>. QED
      BY <2>1, <2>2, <2>3, RequestStep DEF TypeOK, Idle, Request
<1>4. CASE OperateBegins(c)
  <2> DEFINE w == Request("operate", "call", row.id, row.ticket, FALSE)
  <2>1. work[c] = Idle /\ UNCHANGED <<row, nextId, machines, pending, issued, rt, lock>>
      BY <1>4 DEF OperateBegins
  <2>2. w \in Requests
      BY RequestTyped DEF TypeOK, Rows
  <2>3. Becomes(c, w)
      BY <1>4 DEF OperateBegins
  <2>. QED
      BY <2>1, <2>2, <2>3, RequestStep DEF TypeOK, Idle, Request
<1>5. ASSUME NEW op \in {"start"} \cup StopOps, NEW id \in 1..(nextId - 1),
             ServiceBegins(c, op, id)
      PROVE  IInv'
  <2> DEFINE w == Request(op, "lock", id, 0, FALSE)
  <2>1. work[c] = Idle /\ UNCHANGED <<row, nextId, machines, pending, issued, rt, lock>>
      BY <1>5 DEF ServiceBegins
  <2>2. id \in Ids /\ id # 0
      BY SessionAssumption DEF TypeOK, Ids
  <2>3. w \in Requests
      BY <1>0, <2>2, RequestTyped DEF StopOps
  <2>4. Becomes(c, w)
      BY <1>5 DEF ServiceBegins
  <2>. QED
      BY <2>1, <2>2, <2>3, <2>4, RequestStep DEF TypeOK, Idle, Request, StopOps
<1>. QED
    BY <1>1, <1>2, <1>3, <1>4, <1>5 DEF Begins

(* The login flows.  A row that appears gets the next id: nobody is served
   while there is no row, so the service's accounts stay the ones that exist. *)
LEMMA LoginKeepsIInv ==
    ASSUME IInv, NEW c \in Clients, Login(c)
    PROVE  IInv'
<1> USE DEF IInv, SessionsAreWhole, ServedAccountExists, TopFollowsRuntime,
            LockFollowsWork, RunsFollowCall, RunsFit, PhaseFollowsOp, LogoutStopsOthers, LoginOps
<1>0. work[c] \in Requests /\ 0 \in Ids /\ 0 \in Tickets /\ issued \in Tickets
    BY SessionAssumption DEF Ids, Tickets, TypeOK
<1>1. CASE Verified(c)
  <2>1. CASE work[c].op = "trust"
    <3> DEFINE w == [work[c] EXCEPT !.pc = "exchange"]
    <3>1. Becomes(c, w)
        BY <1>1, <2>1 DEF Verified
    <3>2. /\ work[c].pc = "verify"
          /\ UNCHANGED <<row, nextId, machines, pending, rt, lock, issued>>
        BY <1>1, <2>1 DEF Verified
    <3>3. /\ w \in Requests /\ w.pc = "exchange" /\ w.op = "trust"
          /\ w.id = work[c].id /\ w.ticket = work[c].ticket /\ w.runs = work[c].runs
        BY <1>0, <2>1, MovedTyped
    <3>. QED
        BY <1>0, <3>1, <3>2, <3>3, RequestStep DEF TypeOK
  <2>2. CASE work[c].op # "trust"
    <3> DEFINE w == [work[c] EXCEPT !.pc = "exchange", !.ticket = issued + 1,
                                    !.fresh = TRUE]
    <3>1. /\ Becomes(c, w) /\ issued' = issued + 1 /\ issued < MaxTickets
          /\ work[c].pc = "verify"
          /\ UNCHANGED <<row, nextId, machines, pending, rt, lock>>
        BY <1>1, <2>2 DEF Verified
    <3>2. issued + 1 \in Tickets
        BY <1>0, <3>1, SessionAssumption DEF Tickets
    <3>3. /\ w \in Requests /\ w.pc = "exchange" /\ w.op = work[c].op
          /\ w.id = work[c].id /\ w.runs = work[c].runs
        BY <1>0, <3>2 DEF Requests
    <3>4. work[c].op \notin {"refresh", "operate"}
        BY <3>1
    <3>. QED
        BY <2>2, <3>1, <3>2, <3>3, <3>4, RequestStep DEF TypeOK
  <2>. QED
      BY <2>1, <2>2
<1>2. CASE LoginFails(c)
  <2>1. /\ Returns(c) /\ row' \in {row, Wiped(work[c].id)}
        /\ UNCHANGED <<nextId, machines, pending, issued, rt>>
      BY <1>2 DEF LoginFails
  <2>2. work[c].id \in Ids
      BY <1>0 DEF Requests
  <2>3. /\ row' \in Rows /\ row'.id = row.id /\ row'.token = row'.ticket
        /\ row'.logout = "wiped" => row.logout = "wiped" /\ row'.ticket = 0
      BY <1>0, <2>1, <2>2, StoredRow DEF Wiped, TypeOK
  <2>. QED
      BY <2>1, <2>3, ReturnStep DEF TypeOK
<1>3. CASE DeviceChallenged(c)
    BY <1>3, ReturnStep DEF DeviceChallenged, TypeOK
<1>4. CASE SmsChallenged(c)
  <2>1. /\ Returns(c) /\ UpsertPossible /\ issued < MaxTickets
        /\ row' = Upserted(work[c].password) /\ IdUsed
        /\ issued' = issued + 1 /\ pending' = [ticket |-> issued + 1, id |-> row'.id]
        /\ UNCHANGED <<machines, rt>>
      BY <1>4 DEF SmsChallenged
  <2>2. work[c].password \in BOOLEAN
      BY <1>0 DEF Requests
  <2>3. /\ row' \in Rows /\ row'.token = row'.ticket
        /\ row'.id = row.id \/ row.id = 0
        /\ row'.logout = "wiped" => row.logout = "wiped" /\ row'.ticket = row.ticket
        /\ row.id = 0 => row'.logout = "none"
      BY <2>1, <2>2, UpsertedRow
  <2>4. nextId' \in 1..(MaxIds + 1)
      BY <2>1, SessionAssumption DEF UpsertPossible, IdUsed, TypeOK
  <2>5. issued' \in Tickets /\ row'.id \in Ids
      BY <1>0, <2>1, <2>3, SessionAssumption DEF Tickets, Rows
  <2>6. rt.id = 0 \/ rt.id = row'.id
      BY <2>1, <2>2, UpsertedRow
  <2>. QED
      BY <2>1, <2>3, <2>4, <2>5, <2>6, ReturnStep DEF TypeOK
<1>5. CASE LoginSucceeds(c)
  <2> DEFINE up == Upserted(work[c].op = "login" \/ work[c].password)
             tick == work[c].ticket
  <2>1. /\ Returns(c) /\ UpsertPossible /\ IdUsed
        /\ row' = [up EXCEPT !.token = tick, !.ticket = tick, !.logout = "none"]
        /\ machines' = machines \cup {row'.id}
        /\ UNCHANGED <<pending, issued, rt>>
      BY <1>5 DEF LoginSucceeds
  <2>2. (work[c].op = "login" \/ work[c].password) \in BOOLEAN /\ tick \in Tickets
      BY <1>0 DEF Requests
  <2>3. up \in Rows /\ (up.id = row.id \/ row.id = 0)
      BY <2>1, <2>2, UpsertedRow
  <2>4. /\ row' \in Rows /\ row'.id = up.id
        /\ row'.token = row'.ticket /\ row'.logout = "none"
      BY <2>1, <2>2, <2>3 DEF Rows
  <2>5. nextId' \in 1..(MaxIds + 1)
      BY <2>1, SessionAssumption DEF UpsertPossible, IdUsed, TypeOK
  <2>6. row'.id \in Ids
      BY <2>4 DEF Rows
  <2>. QED
      BY <2>1, <2>3, <2>4, <2>5, <2>6, ReturnStep DEF TypeOK
<1>6. CASE TrustSucceeds(c)
  <2> DEFINE st == Stored(work[c].id, work[c].ticket, work[c].ticket)
  <2>1. /\ Returns(c)
        /\ row' = IF row.id = work[c].id THEN [st EXCEPT !.logout = "none"] ELSE row
        /\ machines' = machines \cup {work[c].id} /\ pending' = NoChallenge
        /\ UNCHANGED <<nextId, issued, rt>>
      BY <1>6 DEF TrustSucceeds
  <2>2. work[c].id \in Ids /\ work[c].ticket \in Tickets
      BY <1>0 DEF Requests
  <2>3. st \in Rows /\ st.id = row.id
        /\ (row.id = work[c].id => st.token = st.ticket)
      BY <2>2, StoredRow DEF TypeOK
  <2>4. /\ row' \in Rows /\ row'.id = row.id /\ row'.token = row'.ticket
        /\ row'.logout = "wiped" => row' = row
      BY <2>1, <2>3 DEF Rows, TypeOK
  <2>5. pending' \in [ticket : Tickets, id : Ids]
      BY <1>0, <2>1 DEF NoChallenge
  <2>. QED
      BY <2>1, <2>2, <2>4, <2>5, ReturnStep DEF TypeOK
<1>. QED
    BY <1>1, <1>2, <1>3, <1>4, <1>5, <1>6 DEF Login

(* Refreshes and operations, which store only what the ticket gave. *)
LEMMA UsesKeepsIInv ==
    ASSUME IInv, NEW c \in Clients, Uses(c)
    PROVE  IInv'
<1> USE DEF IInv, SessionsAreWhole, ServedAccountExists, TopFollowsRuntime,
            LockFollowsWork, RunsFollowCall, RunsFit, PhaseFollowsOp, LogoutStopsOthers, LoginOps
<1> DEFINE st == Stored(work[c].id, work[c].ticket, work[c].ticket)
<1>0. /\ work[c] \in Requests /\ work[c].id \in Ids /\ work[c].ticket \in Tickets
      /\ row \in Rows
    BY DEF TypeOK, Requests
<1>1. /\ st \in Rows /\ st.id = row.id /\ st.token = st.ticket
      /\ st.logout = "wiped" => row.logout = "wiped" /\ st.ticket = 0
    BY <1>0, StoredRow
<1>2. CASE RefreshSucceeds(c)
  <2>1. /\ Returns(c) /\ row' = st /\ machines' = machines \cup {work[c].id}
        /\ UNCHANGED <<nextId, pending, issued, rt>>
      BY <1>2 DEF RefreshSucceeds
  <2>. QED
      BY <1>0, <1>1, <2>1, ReturnStep DEF TypeOK
<1>3. CASE PlatformAnswers(c)
  <2> DEFINE w1 == [work[c] EXCEPT !.pc = "performed", !.runs = @ + 1]
             w2 == [work[c] EXCEPT !.pc = "refused"]
             w3 == [work[c] EXCEPT !.pc = "refused", !.runs = @ + 1, !.misread = TRUE]
  <2>1. /\ work[c].pc = "call" /\ work[c].op = "operate" /\ RunsFit(work[c])
        /\ UNCHANGED <<row, nextId, machines, pending, issued, rt, lock>>
      BY <1>3 DEF PlatformAnswers
  <2>2. ASSUME NEW w \in Requests, Becomes(c, w), w.pc \in {"performed", "refused"},
               w.op = "operate", w.ticket = work[c].ticket, w.early = work[c].early,
               RunsFit(w)
        PROVE  IInv'
      BY <2>1, <2>2, RequestStep DEF TypeOK
  <2>3. CASE Becomes(c, w1)
    <3>1. work[c].runs + 1 \in 0..2
        BY <1>0, <2>1, RunsInRange
    <3>3. /\ w1 \in Requests /\ w1.pc = "performed" /\ w1.runs = work[c].runs + 1
          /\ w1.misread = work[c].misread /\ w1.op = work[c].op
          /\ w1.again = work[c].again
          /\ w1.ticket = work[c].ticket /\ w1.early = work[c].early
        BY <1>0, <3>1 DEF Requests
    <3>4. RunsFit(w1)
        BY <1>0, <2>1, <3>3, PerformedFits
    <3>. QED
        BY <2>1, <2>2, <2>3, <3>3, <3>4
  <2>4. CASE Becomes(c, w2)
    <3>1. /\ w2 \in Requests /\ w2.pc = "refused" /\ w2.op = work[c].op
          /\ w2.ticket = work[c].ticket /\ w2.early = work[c].early
          /\ w2.runs = work[c].runs /\ w2.again = work[c].again
          /\ w2.misread = work[c].misread
        BY <1>0 DEF Requests
    <3>2. RunsFit(w2)
        BY <2>1, <3>1
    <3>. QED
        BY <2>1, <2>2, <2>4, <3>1, <3>2
  <2>5. CASE Becomes(c, w3)
    <3>0. work[c].runs + 1 \in 0..2
        BY <1>0, <2>1, RunsInRange
    <3>1. /\ w3 \in Requests /\ w3.pc = "refused" /\ w3.runs = work[c].runs + 1
          /\ w3.misread = TRUE /\ w3.op = work[c].op /\ w3.again = work[c].again
          /\ w3.ticket = work[c].ticket /\ w3.early = work[c].early
        BY <1>0, <3>0 DEF Requests
    <3>2. RunsFit(w3)
        BY <1>0, <2>1, <3>1, PerformedFits
    <3>. QED
        BY <2>1, <2>2, <2>5, <3>1, <3>2
  <2>. QED
      BY <1>3, <2>3, <2>4, <2>5 DEF PlatformAnswers
<1>4. CASE TokenRefused(c)
  <2> DEFINE w == [work[c] EXCEPT !.pc = "exchange"]
  <2>1. /\ work[c].pc = "refused" /\ ~work[c].again /\ Becomes(c, w)
        /\ work[c].op = "operate" /\ RunsFit(work[c])
        /\ UNCHANGED <<row, nextId, machines, pending, issued, rt, lock>>
      BY <1>4 DEF TokenRefused
  <2>2. /\ w \in Requests /\ w.pc = "exchange" /\ w.op = work[c].op
        /\ w.runs = work[c].runs /\ w.misread = work[c].misread
        /\ w.again = work[c].again
        /\ w.ticket = work[c].ticket /\ w.early = work[c].early
      BY <1>0 DEF Requests
  <2>3. RunsFit(w)
      BY <2>1, <2>2
  <2>. QED
      BY <2>1, <2>2, <2>3, RequestStep DEF TypeOK
<1>5. CASE OperateReturns(c)
    BY <1>5, ReturnStep DEF OperateReturns, TypeOK
<1>6. CASE OperateRetried(c)
  <2> DEFINE w == [work[c] EXCEPT !.pc = "call", !.again = TRUE]
  <2>1. /\ work[c].pc = "exchange" /\ work[c].op = "operate" /\ Becomes(c, w)
        /\ row' = st /\ UNCHANGED <<nextId, machines, pending, issued, rt, lock>>
      BY <1>6 DEF OperateRetried
  <2>2. /\ w \in Requests /\ w.pc = "call" /\ w.op = "operate" /\ w.again = TRUE
        /\ w.runs = work[c].runs /\ w.misread = work[c].misread
        /\ w.ticket = work[c].ticket /\ w.early = work[c].early
      BY <1>0, <2>1 DEF Requests
  <2>3. RunsFit(w)
      BY <2>1, <2>2
  <2>. QED
      BY <1>1, <2>1, <2>2, <2>3, RequestStep DEF TypeOK
<1>7. CASE RefreshFails(c)
    BY <1>7, ReturnStep DEF RefreshFails, TypeOK
<1>. QED
    BY <1>2, <1>3, <1>4, <1>5, <1>6, <1>7 DEF Uses

(* A start that goes on to the platform. *)
LEMMA StartMoved ==
    ASSUME NEW w \in Requests, NEW pc \in {"verify", "exchange"}
    PROVE  /\ [w EXCEPT !.pc = pc] \in Requests
           /\ [w EXCEPT !.pc = pc].pc = pc
           /\ [w EXCEPT !.pc = pc].op = w.op
           /\ [w EXCEPT !.pc = pc].id = w.id
           /\ [w EXCEPT !.pc = pc].runs = w.runs
BY DEF Requests

(* A start that holds the lock goes on with the row it has read. *)
LEMMA StartCallsStep ==
    ASSUME IInv, NEW c \in Clients, NEW w \in Requests, StartCalls(c, w),
           w.op = "start", w.id = row.id, w.id # 0, w.runs = 0, lock \in {c, NoOne},
           rt' \in {rt, NoRuntime},
           UNCHANGED <<row, nextId, machines, pending, issued>>
    PROVE  IInv'
<1> USE DEF IInv, SessionsAreWhole, ServedAccountExists, TopFollowsRuntime,
            LogoutStopsOthers, LoginOps
<1>1. /\ rt' \in Runtimes /\ rt'.token = rt'.ticket /\ rt'.id \in {0, rt.id}
      /\ rt'.pc # "exchange" \/ rt'.client = rt'.ticket
      /\ rt'.pc = "none" \/ rt'.id # 0
  <2>1. CASE rt' = rt
      BY <2>1 DEF TypeOK
  <2>2. CASE rt' = NoRuntime
      BY <2>2, NothingTyped DEF NoRuntime
  <2>. QED
      BY <2>1, <2>2
<1>2. ASSUME NEW pc \in {"verify", "exchange"},
             Becomes(c, [w EXCEPT !.pc = pc]), lock' = c
      PROVE  IInv'
  <2> DEFINE w1 == [w EXCEPT !.pc = pc]
  <2>1. /\ w1 \in Requests /\ w1.pc = pc /\ w1.op = "start" /\ w1.runs = 0
        /\ w1.id = w.id
      BY StartMoved
  <2>2. Becomes(c, w1)
      BY <1>2
  <2>3. RunsFit(w1)
      BY <2>1, NoRunsFit
  <2>. QED
      BY <1>1, <1>2, <2>1, <2>2, <2>3, RequestStep DEF TypeOK
<1>3. CASE Becomes(c, Idle) /\ lock' = NoOne
  <2>1. Returns(c)
      BY <1>3 DEF Returns
  <2>. QED
      BY <1>1, <2>1, ReturnStep DEF TypeOK
<1>. QED
    BY <1>2, <1>3 DEF StartCalls

(* A logout or a delete whose account is stopped: nobody else starts one, for
   the lock is free or its own; the row it wipes or deletes is not served.  *)
LEMMA AftermathStep ==
    ASSUME IInv, NEW c \in Clients, Aftermath(c), work[c].op \in StopOps,
           lock \in {c, NoOne},
           rt' = NoRuntime \/ (rt' = rt /\ rt.id # work[c].id),
           UNCHANGED <<nextId, pending, issued>>
    PROVE  IInv'
<1> DEFINE id == work[c].id
           hit == work[c].op = "logout" /\ row.id = id
<1>1. /\ \A d \in Clients : work[d] \in Requests
      /\ id \in Ids /\ row \in Rows /\ rt \in Runtimes /\ 0 \in Tickets
    BY SessionAssumption DEF IInv, TypeOK, Requests, Tickets
<1>2. ASSUME NEW d \in Clients, d # c
      PROVE  /\ work'[d] \in Requests
             /\ work'[d].op = work[d].op /\ work'[d].pc = work[d].pc
             /\ work'[d].id = work[d].id /\ work'[d].ticket = work[d].ticket
             /\ RunsFit(work'[d]) <=> RunsFit(work[d])
             /\ work[d].early => work'[d].early
             /\ hit /\ work[d].op \in {"refresh", "operate"} => work'[d].early
  <2>1. PICK e \in BOOLEAN : /\ work'[d] = [work[d] EXCEPT !.early = e]
                             /\ e <=> work[d].early \/ (hit /\ work[d] # Idle)
      <3>1. work[d].early \in BOOLEAN
          BY <1>1 DEF Requests
      <3>. QED
          BY <1>2, <3>1 DEF Aftermath
  <2>2. work[d].op \in {"refresh", "operate"} => work[d] # Idle
      BY DEF Idle, Request
  <2>3. /\ work'[d] \in Requests
        /\ work'[d].op = work[d].op /\ work'[d].pc = work[d].pc
        /\ work'[d].id = work[d].id /\ work'[d].ticket = work[d].ticket
        /\ work'[d].runs = work[d].runs /\ work'[d].misread = work[d].misread
        /\ work'[d].again = work[d].again
      BY <1>1, <2>1 DEF Requests
  <2>5. RunsFit(work'[d]) <=> RunsFit(work[d])
      BY <2>3 DEF RunsFit
  <2>4. work'[d].early <=> e
      BY <1>1, <2>1 DEF Requests
  <2>. QED
      BY <2>1, <2>2, <2>3, <2>4, <2>5
<1>3. /\ work'[c] = Idle /\ work'[c] \in Requests
      /\ work'[c].op = "none" /\ work'[c].pc = "idle" /\ RunsFit(work'[c])
    BY NothingTyped, NoRunsFit DEF Aftermath, Idle, Request
<1>4. work' \in [Clients -> Requests]
    BY <1>2, <1>3 DEF Aftermath
<1>5. /\ row' \in Rows /\ row'.token = row'.ticket
      /\ row'.logout = "wiped" => row'.ticket = 0 \/ row' = row
      /\ row'.logout = "wiped" /\ row' # row => hit
      /\ row'.id = row.id \/ (row.id = id /\ row'.id = 0)
  <2>1. CASE work[c].op = "delete" /\ row.id = id
    <3>1. row' = NoRow
        BY <2>1 DEF Aftermath
    <3>. QED
        BY <2>1, <3>1, NothingTyped DEF NoRow
  <2>2. CASE hit
    <3>1. row' = [Wiped(id) EXCEPT !.logout = "wiped"]
        BY <2>2 DEF Aftermath
    <3>2. /\ Wiped(id) \in Rows /\ Wiped(id).id = row.id
          /\ Wiped(id).token = 0 /\ Wiped(id).ticket = 0
        BY <1>1, <2>2, StoredRow DEF Wiped
    <3>. QED
        BY <2>2, <3>1, <3>2 DEF Rows
  <2>3. CASE ~(work[c].op = "delete" /\ row.id = id) /\ ~hit
    <3>1. row' = row
        BY <2>3 DEF Aftermath
    <3>. QED
        BY <1>1, <3>1 DEF IInv, SessionsAreWhole
  <2>. QED
      BY <2>1, <2>2, <2>3
<1>6. /\ rt' \in Runtimes /\ rt'.token = rt'.ticket
      /\ rt'.id = 0 \/ (rt'.id = rt.id /\ rt.id # id)
      /\ TopFollowsRuntime'
  <2>1. CASE rt' = NoRuntime
      BY <2>1, NothingTyped DEF TopFollowsRuntime, NoRuntime
  <2>2. CASE rt' = rt /\ rt.id # id
      BY <1>1, <2>2 DEF IInv, SessionsAreWhole, TopFollowsRuntime
  <2>. QED
      BY <2>1, <2>2
<1>7. TypeOK'
    BY <1>4, <1>5, <1>6 DEF Aftermath, IInv, TypeOK
<1>8. ServedAccountExists' /\ LockFollowsWork'
  <2>1. \A d \in Clients :
           d # c => /\ work[d].pc # "gather"
                    /\ work[d].op # "start" \/ work[d].pc \notin {"verify", "exchange"}
      BY SessionAssumption DEF IInv, LockFollowsWork, ServedAccountExists
  <2>2. rt'.id # 0 => rt'.id = row'.id
      BY <1>5, <1>6 DEF IInv, ServedAccountExists
  <2>. QED
      BY <1>2, <1>3, <2>1, <2>2 DEF IInv, LockFollowsWork, ServedAccountExists
<1>9. RunsFollowCall' /\ PhaseFollowsOp'
    BY <1>2, <1>3 DEF IInv, RunsFollowCall, PhaseFollowsOp
<1>10. LogoutStopsOthers'
  <2> SUFFICES ASSUME row'.logout = "wiped" PROVE LogoutStopsOthers'
      BY DEF LogoutStopsOthers
  <2>1. CASE row' = row
      BY <1>2, <1>3, <1>6, <2>1 DEF IInv, LogoutStopsOthers
  <2>2. CASE row' # row
    <3>1. hit /\ row'.ticket = 0
        BY <1>5, <2>2
    <3>2. rt'.id = 0
        BY <1>6, <3>1 DEF IInv, ServedAccountExists
    <3>. QED
        BY <1>2, <1>3, <3>1, <3>2 DEF LogoutStopsOthers
  <2>. QED
      BY <2>1, <2>2
<1>. QED
    BY <1>5, <1>6, <1>7, <1>8, <1>9, <1>10 DEF IInv, SessionsAreWhole

(* A stop begins: the runtime is told, and the request waits for its tasks. *)
LEMMA GatherStep ==
    ASSUME IInv, NEW c \in Clients, NEW w \in Requests,
           w.pc = "gather", w.runs = 0,
           w.op = "start" => w.id = row.id /\ w.id # 0,
           w.op \in {"start"} \cup StopOps,
           Becomes(c, w), lock = NoOne, lock' = c,
           rt' = [rt EXCEPT !.running = FALSE],
           UNCHANGED <<row, nextId, machines, pending, issued>>
    PROVE  IInv'
<1>1. /\ rt' \in Runtimes /\ rt'.id = rt.id /\ rt'.pc = rt.pc
      /\ rt'.token = rt.token /\ rt'.ticket = rt.ticket /\ rt'.client = rt.client
  <2>1. rt \in Runtimes
      BY DEF IInv, TypeOK
  <2>. QED
      BY <2>1 DEF Runtimes
<1>2. w.op \notin {"refresh", "operate"}
    BY DEF StopOps
<1>3. /\ row'.token = row'.ticket /\ rt'.token = rt'.ticket
      /\ rt'.pc # "exchange" \/ rt'.client = rt'.ticket
      /\ rt'.pc = "none" \/ rt'.id # 0
      /\ rt'.id = 0 \/ rt'.id = row'.id
      /\ row'.logout = "wiped" => row'.ticket = 0 /\ rt'.id = 0
    BY <1>1 DEF IInv, SessionsAreWhole, TopFollowsRuntime, ServedAccountExists,
                LogoutStopsOthers
<1>4. /\ row' \in Rows /\ issued' \in Tickets /\ nextId' \in 1..(MaxIds + 1)
      /\ machines' \subseteq Ids /\ pending' \in [ticket : Tickets, id : Ids]
    BY DEF IInv, TypeOK
<1>5. RunsFit(w)
    BY NoRunsFit
<1>. QED
    BY <1>1, <1>2, <1>3, <1>4, <1>5, RequestStep

(* Starts and stops. *)
LEMMA ServiceKeepsIInv ==
    ASSUME IInv, NEW c \in Clients, Service(c)
    PROVE  IInv'
<1>0. /\ work[c] \in Requests /\ work[c].id \in Ids /\ work[c].ticket \in Tickets
      /\ row \in Rows /\ row.ticket \in Tickets /\ row.password \in BOOLEAN
      /\ rt \in Runtimes
    BY DEF IInv, TypeOK, Requests, Rows
<1>2. CASE StartAcquires(c)
  <2> DEFINE w == [work[c] EXCEPT !.ticket = row.ticket, !.password = row.password]
  <2>1. /\ work[c].pc = "lock" /\ work[c].op = "start" /\ lock = NoOne
        /\ UNCHANGED <<row, nextId, machines, pending, issued>>
      BY <1>2 DEF StartAcquires
  <2>2. work[c].runs = 0 /\ work[c].id # 0
      BY <2>1 DEF IInv, RunsFollowCall, RunsFit, LockFollowsWork
  <2>3. /\ w \in Requests /\ w.op = "start" /\ w.id = work[c].id /\ w.runs = 0
      BY <1>0, <2>1, <2>2 DEF Requests
  <2>4. CASE row.id # work[c].id
      BY <1>2, <2>1, <2>4, ReturnStep
      DEF StartAcquires, IInv, TypeOK, SessionsAreWhole, TopFollowsRuntime,
          ServedAccountExists, LogoutStopsOthers
  <2>5. CASE row.id = work[c].id /\ rt.id = w.id
    <3> DEFINE w1 == [w EXCEPT !.pc = "gather"]
    <3>1. Becomes(c, w1) /\ lock' = c /\ rt' = [rt EXCEPT !.running = FALSE]
        BY <1>2, <2>5 DEF StartAcquires
    <3>2. /\ w1 \in Requests /\ w1.pc = "gather" /\ w1.op = "start" /\ w1.runs = 0
          /\ w1.id = work[c].id
        BY <2>3, MovedTyped
    <3>. QED
        BY <2>1, <2>2, <2>5, <3>1, <3>2, GatherStep
  <2>6. CASE row.id = work[c].id /\ rt.id # w.id
    <3>1. StartCalls(c, w) /\ rt' = rt
        BY <1>2, <2>6 DEF StartAcquires
    <3>. QED
        BY <2>1, <2>2, <2>3, <2>6, <3>1, StartCallsStep
  <2>. QED
      BY <2>4, <2>5, <2>6
<1>3. CASE StopAcquires(c)
  <2>1. /\ work[c].pc = "lock" /\ work[c].op \in StopOps /\ lock = NoOne
        /\ UNCHANGED <<nextId, pending, issued>>
      BY <1>3 DEF StopAcquires
  <2>2. CASE rt.id = work[c].id
    <3> DEFINE w1 == [work[c] EXCEPT !.pc = "gather"]
    <3>1. /\ Becomes(c, w1) /\ lock' = c /\ rt' = [rt EXCEPT !.running = FALSE]
          /\ UNCHANGED <<row, machines>>
        BY <1>3, <2>2 DEF StopAcquires
    <3>2. work[c].runs = 0
        BY <2>1 DEF IInv, RunsFollowCall, RunsFit, StopOps
    <3>3. /\ w1 \in Requests /\ w1.pc = "gather" /\ w1.op = work[c].op /\ w1.runs = 0
        BY <1>0, <3>2, MovedTyped
    <3>4. w1.op # "start" /\ w1.op \in {"start"} \cup StopOps
        BY <2>1, <3>3 DEF StopOps
    <3>. QED
        BY <2>1, <3>1, <3>3, <3>4, GatherStep
  <2>3. CASE rt.id # work[c].id
      BY <1>3, <2>1, <2>3, AftermathStep DEF StopAcquires
  <2>. QED
      BY <2>2, <2>3
<1>4. CASE Gathered(c)
  <2>1. /\ work[c].pc = "gather" /\ lock = c /\ rt' = NoRuntime
        /\ UNCHANGED <<nextId, pending, issued>>
      BY <1>4 DEF Gathered, IInv, LockFollowsWork
  <2>2. CASE work[c].op = "start"
    <3>1. StartCalls(c, work[c]) /\ UNCHANGED <<row, machines>>
        BY <1>4, <2>2 DEF Gathered
    <3>2. work[c].id = row.id /\ work[c].id # 0 /\ work[c].runs = 0
        BY <2>1, <2>2 DEF IInv, ServedAccountExists, LockFollowsWork, RunsFollowCall,
                             RunsFit
    <3>. QED
        BY <1>0, <2>1, <2>2, <3>1, <3>2, StartCallsStep
  <2>3. CASE work[c].op # "start"
    <3>1. Aftermath(c)
        BY <1>4, <2>3 DEF Gathered
    <3>2. work[c].op \in StopOps
        BY <2>1, <2>3 DEF IInv, PhaseFollowsOp
    <3>. QED
        BY <2>1, <3>1, <3>2, AftermathStep
  <2>. QED
      BY <2>2, <2>3
<1>5. CASE StartFallsBack(c)
  <2>1. /\ work[c].pc = "exchange" /\ work[c].op = "start"
        /\ UNCHANGED <<row, nextId, machines, pending, issued, rt>>
      BY <1>5 DEF StartFallsBack
  <2>2. CASE Returns(c)
      BY <2>1, <2>2, ReturnStep
      DEF IInv, TypeOK, SessionsAreWhole, TopFollowsRuntime,
          ServedAccountExists, LogoutStopsOthers
  <2>3. CASE Becomes(c, [work[c] EXCEPT !.pc = "verify"]) /\ lock' = lock
    <3> DEFINE w1 == [work[c] EXCEPT !.pc = "verify"]
    <3>1. work[c].runs = 0 /\ work[c].id = row.id /\ work[c].id # 0 /\ lock = c
        BY <2>1 DEF IInv, RunsFollowCall, RunsFit, ServedAccountExists, LockFollowsWork
    <3>2. /\ w1 \in Requests /\ w1.pc = "verify" /\ w1.op = "start" /\ w1.runs = 0
          /\ w1.id = row.id
        BY <1>0, <2>1, <3>1, MovedTyped
    <3>3. Becomes(c, w1) /\ RunsFit(w1)
        BY <2>3, <3>2, NoRunsFit
    <3>. QED
        BY <2>1, <2>3, <3>1, <3>2, <3>3, RequestStep
        DEF IInv, TypeOK, SessionsAreWhole, TopFollowsRuntime,
            ServedAccountExists, LogoutStopsOthers, LoginOps
  <2>. QED
      BY <1>5, <2>2, <2>3 DEF StartFallsBack
<1>6. CASE StartSucceeds(c)
  <2> DEFINE st == Stored(work[c].id, work[c].ticket, work[c].ticket)
  <2>1. /\ work[c].id = row.id /\ work[c].id # 0 /\ Returns(c)
        /\ row' = [st EXCEPT !.logout = "none"]
        /\ rt' = [id |-> work[c].id, token |-> work[c].ticket,
                  ticket |-> work[c].ticket, client |-> 0,
                  running |-> TRUE, pc |-> "sleeping"]
        /\ UNCHANGED <<nextId, machines, pending, issued>>
      BY <1>6 DEF StartSucceeds, IInv, ServedAccountExists, LockFollowsWork
  <2>2. st \in Rows /\ st.id = row.id /\ st.token = st.ticket
      BY <1>0, <2>1, StoredRow
  <2>3. row' \in Rows /\ row'.id = row.id /\ row'.token = row'.ticket /\ row'.logout = "none"
      BY <2>1, <2>2 DEF Rows
  <2>4. 0 \in Tickets
      BY SessionAssumption DEF Tickets
  <2>5. /\ rt' \in Runtimes /\ rt'.token = rt'.ticket /\ rt'.id = work[c].id
        /\ rt'.pc = "sleeping"
      BY <1>0, <2>1, <2>4 DEF Runtimes
  <2>. QED
      BY <2>1, <2>3, <2>5, ReturnStep DEF IInv, TypeOK
<1>. QED
    BY <1>2, <1>3, <1>4, <1>5, <1>6 DEF Service

(* What a step of the top task must leave behind: the requests untouched, the
   account it serves and its row whole.                                    *)
LEMMA TopStep ==
    ASSUME IInv, UNCHANGED <<nextId, machines, pending, lock, work>>,
           row' \in Rows, rt' \in Runtimes, issued' \in Tickets,
           row'.id = row.id, rt'.id = rt.id, rt.id # 0,
           row'.token = row'.ticket, rt'.token = rt'.ticket,
           rt'.pc # "exchange" \/ rt'.client = rt'.ticket,
           row'.logout = "wiped" => row.logout = "wiped"
    PROVE  IInv'
<1>1. TypeOK'
    BY DEF IInv, TypeOK
<1>2. row.logout # "wiped"
    BY DEF IInv, LogoutStopsOthers
<1>3. SessionsAreWhole' /\ TopFollowsRuntime' /\ LogoutStopsOthers'
    BY <1>2 DEF SessionsAreWhole, TopFollowsRuntime, LogoutStopsOthers
<1>4. ServedAccountExists' /\ LockFollowsWork' /\ RunsFollowCall' /\ PhaseFollowsOp'
    BY DEF IInv, ServedAccountExists, LockFollowsWork, RunsFollowCall, RunsFit, PhaseFollowsOp
<1>. QED
    BY <1>1, <1>3, <1>4 DEF IInv

(* The top task: what it stores is the session its runtime has. *)
LEMMA TopKeepsIInv ==
    ASSUME IInv, Top
    PROVE  IInv'
<1>0. /\ row \in Rows /\ rt \in Runtimes /\ issued \in Tickets /\ 0 \in Tickets
      /\ row.token = row.ticket /\ rt.token = rt.ticket
      /\ rt.id \in Ids /\ rt.client \in Tickets /\ rt.ticket \in Tickets
      /\ rt.pc # "none" => rt.id # 0
    BY SessionAssumption
    DEF IInv, TypeOK, SessionsAreWhole, TopFollowsRuntime, Runtimes, Tickets
<1>1. ASSUME NEW pc \in {"sleeping", "listing", "exchange", "verify", "relisting"},
             NEW client \in Tickets,
             rt' = [rt EXCEPT !.pc = pc, !.client = client],
             pc = "exchange" => client = rt.ticket,
             rt.pc # "none",
             UNCHANGED <<row, nextId, machines, pending, issued, lock, work>>
      PROVE  IInv'
  <2>1. /\ rt' \in Runtimes /\ rt'.id = rt.id /\ rt'.pc = pc /\ rt'.client = client
        /\ rt'.token = rt.token /\ rt'.ticket = rt.ticket
      BY <1>0, <1>1 DEF Runtimes
  <2>. QED
      BY <1>0, <1>1, <2>1, TopStep
<1>2. CASE RefreshDue
    BY <1>0, <1>1, <1>2 DEF RefreshDue
<1>3. CASE Listed
    BY <1>0, <1>1, <1>3 DEF Listed
<1>4. CASE ListDenied
    BY <1>0, <1>1, <1>4 DEF ListDenied
<1>5. CASE TokenRefreshed
  <2> DEFINE st == Stored(rt.id, rt.client, rt.ticket)
  <2>1. /\ rt.pc = "exchange" /\ rt.client = rt.ticket
        /\ rt' = [rt EXCEPT !.pc = "relisting", !.token = rt.client] /\ row' = st
        /\ UNCHANGED <<nextId, machines, pending, issued, lock, work>>
      BY <1>5 DEF TokenRefreshed, IInv, TopFollowsRuntime
  <2>2. /\ st \in Rows /\ st.id = row.id /\ st.token = st.ticket
        /\ st.logout = "wiped" => row.logout = "wiped"
      BY <1>0, <2>1, StoredRow
  <2>3. /\ rt' \in Runtimes /\ rt'.id = rt.id /\ rt'.pc = "relisting"
        /\ rt'.token = rt'.ticket
      BY <1>0, <2>1 DEF Runtimes
  <2>. QED
      BY <1>0, <2>1, <2>2, <2>3, TopStep
<1>6. CASE TicketRefused
  <2>1. PICK pc \in {"verify", "sleeping"} : rt' = [rt EXCEPT !.pc = pc]
      BY <1>6 DEF TicketRefused
  <2>2. /\ rt' \in Runtimes /\ rt'.id = rt.id /\ rt'.pc = pc
        /\ rt'.token = rt.token /\ rt'.ticket = rt.ticket
      BY <1>0, <2>1 DEF Runtimes
  <2>. QED
      BY <1>0, <1>6, <2>2, TopStep DEF TicketRefused
<1>7. CASE PasswordAccepted
  <2>1. /\ rt.pc = "verify" /\ issued < MaxTickets /\ issued' = issued + 1
        /\ rt' = [rt EXCEPT !.pc = "relogin", !.client = issued + 1]
        /\ UNCHANGED <<row, nextId, machines, pending, lock, work>>
      BY <1>7 DEF PasswordAccepted
  <2>2. issued + 1 \in Tickets
      BY <1>0, <2>1, SessionAssumption DEF Tickets
  <2>3. /\ rt' \in Runtimes /\ rt'.id = rt.id /\ rt'.pc = "relogin"
        /\ rt'.token = rt.token /\ rt'.ticket = rt.ticket
      BY <1>0, <2>1, <2>2 DEF Runtimes
  <2>. QED
      BY <1>0, <2>1, <2>2, <2>3, TopStep
<1>8. CASE ReloginFails
    BY <1>0, <1>1, <1>8 DEF ReloginFails
<1>9. CASE ReloggedIn
  <2> DEFINE st == Stored(rt.id, rt.client, rt.client)
  <2>1. /\ rt.pc = "relogin" /\ row' = st
        /\ rt' = [rt EXCEPT !.pc = "relisting", !.token = rt.client, !.ticket = rt.client]
        /\ UNCHANGED <<nextId, machines, pending, issued, lock, work>>
      BY <1>9 DEF ReloggedIn
  <2>2. /\ st \in Rows /\ st.id = row.id /\ st.token = st.ticket
        /\ st.logout = "wiped" => row.logout = "wiped"
      BY <1>0, StoredRow
  <2>3. /\ rt' \in Runtimes /\ rt'.id = rt.id /\ rt'.pc = "relisting"
        /\ rt'.token = rt'.ticket
      BY <1>0, <2>1 DEF Runtimes
  <2>. QED
      BY <1>0, <2>1, <2>2, <2>3, TopStep
<1>. QED
    BY <1>2, <1>3, <1>4, <1>5, <1>6, <1>7, <1>8, <1>9 DEF Top

(* The process ends, and with it every request and the runtime. *)
LEMMA ExitKeepsIInv == ASSUME IInv, Exit PROVE IInv'
<1>1. /\ work' \in [Clients -> Requests]
      /\ \A c \in Clients : /\ work'[c].op = "none" /\ work'[c].pc = "idle"
                            /\ work'[c].runs = 0
    BY NothingTyped DEF Exit, Idle, Request
<1>2. /\ rt' \in Runtimes /\ rt'.id = 0 /\ rt'.token = 0 /\ rt'.ticket = 0
      /\ rt'.pc = "none"
    BY NothingTyped DEF Exit, NoRuntime
<1>3. TypeOK'
    BY <1>1, <1>2 DEF Exit, IInv, TypeOK
<1>4. SessionsAreWhole' /\ TopFollowsRuntime' /\ LogoutStopsOthers'
    BY <1>1, <1>2 DEF Exit, IInv, SessionsAreWhole, TopFollowsRuntime, LogoutStopsOthers
<1>5. ServedAccountExists' /\ LockFollowsWork' /\ RunsFollowCall' /\ PhaseFollowsOp'
    BY <1>1, <1>2 DEF ServedAccountExists, LockFollowsWork, RunsFollowCall, RunsFit, PhaseFollowsOp
<1>. QED
    BY <1>3, <1>4, <1>5 DEF IInv

(* Every step keeps the invariant. *)
LEMMA NextIInv == IInv /\ [Next]_vars => IInv'
<1> SUFFICES ASSUME IInv, [Next]_vars PROVE IInv'
    OBVIOUS
<1>1. ASSUME NEW c \in Clients, Begins(c) \/ Login(c) \/ Uses(c) \/ Service(c)
      PROVE  IInv'
    BY <1>1, BeginsKeepsIInv, LoginKeepsIInv, UsesKeepsIInv, ServiceKeepsIInv
<1>2. CASE UNCHANGED vars
    BY <1>2 DEF vars, IInv, TypeOK, SessionsAreWhole, ServedAccountExists,
                TopFollowsRuntime, LockFollowsWork, RunsFollowCall, RunsFit, PhaseFollowsOp,
                LogoutStopsOthers
<1>. QED
    BY <1>1, <1>2, TopKeepsIInv, ExitKeepsIInv DEF Next

(* The inductive invariant holds throughout. *)
LEMMA Invariance == Spec => []IInv
BY InitIInv, NextIInv, PTL DEF Spec

(* The types of AccountSession, for any number of requests. *)
THEOREM TypeCorrect == Spec => []TypeOK
<1>1. IInv => TypeOK
    BY DEF IInv
<1>. QED
    BY <1>1, Invariance, PTL

(* Whoever writes last, a stored token is the one of the ticket beside it: the
   row and the runtime hold a session of the platform, never a mixture.     *)
THEOREM SessionSafety == Spec => []SessionsAreWhole
<1>1. IInv => SessionsAreWhole
    BY DEF IInv
<1>. QED
    BY <1>1, Invariance, PTL

(* Deletes and starts exclude each other: the keep-alive service works only
   for an account whose row exists.                                        *)
THEOREM ServiceSafety == Spec => []ServedAccountExists
<1>1. IInv => ServedAccountExists
    BY DEF IInv
<1>. QED
    BY <1>1, Invariance, PTL

(* call_with_auto_refresh repeats a power operation that was performed only
   after an answer that is_auth_failure misreads, and at most once.        *)
THEOREM RepeatSafety == Spec => []RepeatedOnlyIfMisread
<1>1. IInv => RepeatedOnlyIfMisread
  <2> SUFFICES ASSUME IInv, NEW c \in Clients
               PROVE  work[c].runs <= IF work[c].misread THEN 2 ELSE 1
      BY DEF RepeatedOnlyIfMisread
  <2>1. work[c].runs \in 0..2
      BY DEF IInv, TypeOK, Requests
  <2>2. work[c].misread \/ work[c].runs \in {0, 1}
      BY DEF IInv, RunsFollowCall, RunsFit
  <2>. QED
      BY <2>1, <2>2
<1>. QED
    BY <1>1, Invariance, PTL

(* Only a refresh or an operation that was under way at the logout stores a
   session in the row it wiped: the service holds no runtime of a logged-out
   row, and a start, which must log in, ends the logout.                    *)
LEMMA UndoneByOverlap ==
    ASSUME IInv, Next, row.logout = "wiped", row'.logout = "undone"
    PROVE  \E c \in Clients : work[c].early /\ work[c].op \in {"refresh", "operate"}
                               /\ work[c].pc = "exchange"
<1>0. row \in Rows /\ rt.id = 0 /\ rt.pc = "none" /\ row' # row
    BY DEF IInv, TypeOK, LogoutStopsOthers, TopFollowsRuntime
<1>1. ~Top /\ ~Exit
    BY <1>0 DEF Top, RefreshDue, Listed, ListDenied, TokenRefreshed, TicketRefused,
                PasswordAccepted, ReloginFails, ReloggedIn, Exit
<1>2. PICK c \in Clients : Begins(c) \/ Login(c) \/ Uses(c) \/ Service(c)
    BY <1>1 DEF Next
<1>3. work[c].id \in Ids /\ work[c].ticket \in Tickets /\ 0 \in Tickets
    BY SessionAssumption DEF IInv, TypeOK, Requests, Tickets
<1>4. Wiped(work[c].id).logout # "undone"
    BY <1>0, <1>3 DEF Wiped, Stored, Rows
<1>5. ~Begins(c)
    BY <1>0 DEF Begins, LoginBegins, TrustBegins, RefreshBegins, OperateBegins,
                ServiceBegins
<1>6. ASSUME NEW r \in Rows, NEW ticket \in Tickets
      PROVE  [r EXCEPT !.token = ticket, !.ticket = ticket, !.logout = "none"].logout = "none"
    BY DEF Rows
<1>7. ~Login(c)
  <2>1. ~LoginFails(c)
      BY <1>0, <1>4 DEF LoginFails
  <2>2. ~SmsChallenged(c)
      BY <1>0 DEF SmsChallenged, Upserted, Rows, NoRow
  <2>3. ~LoginSucceeds(c)
    <3> SUFFICES ASSUME LoginSucceeds(c) PROVE FALSE
        OBVIOUS
    <3> DEFINE p == work[c].op = "login" \/ work[c].password
    <3>1. /\ UpsertPossible
          /\ row' = [Upserted(p) EXCEPT !.token = work[c].ticket, !.ticket = work[c].ticket,
                                        !.logout = "none"]
        BY DEF LoginSucceeds
    <3>2. p \in BOOLEAN
        BY DEF IInv, TypeOK, Requests
    <3>3. Upserted(p) \in Rows
        BY <3>1, <3>2, UpsertedRow DEF IInv
    <3>. QED
        BY <1>3, <1>6, <3>1, <3>3
  <2>4. ~TrustSucceeds(c)
      BY <1>0, <1>3, StoredRow DEF TrustSucceeds, Rows
  <2>. QED
      BY <1>0, <2>1, <2>2, <2>3, <2>4 DEF Login, Verified, DeviceChallenged
<1>8. ~Service(c)
  <2>1. ~Aftermath(c)
      BY <1>0, <1>3, StoredRow DEF Aftermath, Wiped, Rows, NoRow
  <2>2. ~StartSucceeds(c)
      BY <1>0, <1>3, StoredRow DEF StartSucceeds, Rows
  <2>. QED
      BY <1>0, <2>1, <2>2
      DEF Service, StartAcquires, StopAcquires, Gathered, StartFallsBack, StartCalls
<1>9. RefreshSucceeds(c) \/ OperateRetried(c)
    BY <1>0, <1>2, <1>5, <1>7, <1>8
    DEF Uses, PlatformAnswers, TokenRefused, OperateReturns, RefreshFails
<1>10. /\ work[c].op \in {"refresh", "operate"} /\ work[c].pc = "exchange"
       /\ row' = Stored(work[c].id, work[c].ticket, work[c].ticket)
    BY <1>9 DEF RefreshSucceeds, OperateRetried
<1>11. work[c].ticket # 0
    BY <1>0, <1>4, <1>10 DEF Wiped
<1>. QED
    BY <1>10, <1>11 DEF IInv, LogoutStopsOthers

(* A logout is undone only by what it overlapped with: the keep-alive task
   never brings a wiped session back.                                      *)
THEOREM LogoutSafety == Spec => LogoutUndoneOnlyByOverlap
<1>1. IInv /\ [Next]_vars =>
        [row.logout = "wiped" /\ row'.logout = "undone" =>
            \E c \in Clients : work[c].early /\ work[c].op \in {"refresh", "operate"}
                                /\ work[c].pc = "exchange"]_vars
    BY UndoneByOverlap
<1>. QED
    BY <1>1, Invariance, PTL DEF Spec, LogoutUndoneOnlyByOverlap
=============================================================================
