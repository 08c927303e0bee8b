----------------------------- MODULE MachineList ----------------------------
(***************************************************************************)
(* How the power of the machines gets from the platform to the rows the    *)
(* pages show and to the runners: get_device_info_list is two calls, the   *)
(* list and a query of the statuses that may fail by itself.  Web requests *)
(* (a refresh, or a login) write what they got to the rows, the top task   *)
(* reconciles its runners with it, and the platform changes meanwhile.     *)
(***************************************************************************)
EXTENDS Naturals, FiniteSets

CONSTANTS
    Machines,  \* of one account
    Statuses,  \* the platform gives them
    Requests,  \* web requests that may overlap
    MaxChanges \* bound: changes of power

Gone == "gone"       \* the platform does not list the machine
Unknown == ""        \* listed without a status
NoRow == "no row"

Top == "top"
Pollers == Requests \cup {Top}

ASSUME MachineListAssumption ==
    /\ Statuses \subseteq {"running", "available", "active", "on", "inactive", "unavailable",
                           "connected", "stopped", "poweroff", "shutdown"}
    /\ Top \notin Requests
    /\ MaxChanges \in Nat

VARIABLES
    bare,      \* the list carries no statuses, only the query does
    power,     \* the platform's truth
    changes,   \* history: how often it changed
    poll,      \* the calls each poller is in
    rows,      \* the status in each machine's row
    machines,  \* rt.machines
    runners,   \* rt.runners
    rowMoved,  \* history: machines that changed since the request that wrote their row began
    listMoved, \* history: those that changed since the list in rt.machines was asked for
    topMoved,  \* history: those that changed since the list last reconciled was asked for
    untold     \* history: those it listed without a status

history == <<rowMoved, listMoved, topMoved, untold>>
vars == <<bare, power, changes, poll, rows, machines, runners, history>>

(* What a listing says of each machine. *)
List == [Machines -> Statuses \cup {Gone, Unknown}]

(* Why the top task lists: its refresh, the renewal of the token by ticket or by
   password, and the refresh once more. moved is history: the machines that
   changed since the list was asked for.                                   *)
Poll == [pc : {"idle", "listing", "querying", "reconciling"},
         why : {"refresh", "ticket", "password", "again"},
         list : List, moved : SUBSET Machines]

Idle == [pc |-> "idle", why |-> "refresh", list |-> [m \in Machines |-> Gone], moved |-> {}]
Lists(why) == [Idle EXCEPT !.pc = "listing", !.why = why]

TypeOK ==
    /\ bare \in BOOLEAN
    /\ power \in [Machines -> Statuses \cup {Gone}] /\ changes \in 0..MaxChanges
    /\ poll \in [Pollers -> Poll]
    /\ \A r \in Requests : poll[r].why = "refresh" /\ poll[r].pc # "reconciling"
    /\ rows \in [Machines -> Statuses \cup {Unknown, NoRow}]
    /\ machines \in List /\ runners \subseteq Machines
    /\ rowMoved \subseteq Machines /\ listMoved \subseteq Machines
    /\ topMoved \subseteq Machines /\ untold \subseteq Machines

(* A machine that is listed without a status has the status "". *)
Mapped(status) == IF status # Gone /\ bare THEN Unknown ELSE status

(* start() listed the machines; its top task will reconcile them. *)
Init ==
    /\ bare \in BOOLEAN
    /\ power \in [Machines -> Statuses \cup {Gone}] /\ changes = 0
    /\ poll = [p \in Pollers |-> IF p = Top THEN [Idle EXCEPT !.pc = "reconciling"] ELSE Idle]
    /\ rows = [m \in Machines |-> NoRow]
    /\ machines \in {power, [m \in Machines |-> Mapped(power[m])]} /\ runners = {}
    /\ rowMoved = {} /\ listMoved = {} /\ topMoved = Machines /\ untold = {}

-----------------------------------------------------------------------------
(* What a status means.                                                    *)

(* The words of RUNNING_STATUS_KEYWORDS that are part of a status. *)
KeywordsIn(status) ==
    CASE status \in {"available", "unavailable"} -> {"available"}
      [] status \in {"active", "inactive"} -> {"active"}
      [] status = "running" -> {"running"}
      [] status = "on" -> {"on"}
      [] status = "connected" -> {"connected", "on"}
      [] OTHER -> {}

(* Plausible bug: the status has to be the word "running". *)
IsMachineRunningWord(status) == status = "running"

IsMachineRunning(status) == KeywordsIn(status) # {}

(* The overview counts whole words. *)
CountedAsRunning(status) == status \in {"running", "active", "available", "on"}

-----------------------------------------------------------------------------
(* How a call of the platform may fail: transport, status code, an answer that
   does not decrypt, an errorCode, and a list that raises when it is mapped.
   What counts as an expired session is told by the words of the message, so an
   HTTP error whose body has one of them counts too.                       *)
AuthFailures == {"http 401", "http page with token", "denied"}
Failures == AuthFailures \cup {"net", "http 500", "garbled", "refused", "unmapped"}

At(p, pc) == poll[p].pc = pc

Listed(p) == {m \in Machines : poll[p].list[m] # Gone}

Begins(p) ==
    /\ At(p, "idle")
    /\ poll' = [poll EXCEPT ![p] = Lists("refresh")]
    /\ UNCHANGED <<bare, power, changes, rows, machines, runners, history>>

(* Plausible bug: a row that exists is left alone. *)
UpsertedOnce(list) ==
    [m \in Machines |-> IF list[m] # Gone /\ rows[m] = NoRow THEN list[m] ELSE rows[m]]

(* Plausible bug: a machine that is not listed loses its status. *)
UpsertedAll(list) == list

(* Rows are never removed here. *)
Upserted(list) == [m \in Machines |-> IF list[m] = Gone THEN rows[m] ELSE list[m]]

(* _reconcile_machine_runners, KeepAliveService has its timing. *)
Reconciled(list) == {m \in Machines : IsMachineRunning(list[m])}

(* What follows a list: the top task reconciles what it refreshed, and refreshes
   again after a renewal, unless the renewed session could not be saved.   *)
AfterList(p) ==
    CASE p \in Requests -> {Idle}
      [] p = Top /\ poll[p].why \in {"refresh", "again"} -> {[Idle EXCEPT !.pc = "reconciling"]}
      [] p = Top /\ poll[p].why \in {"ticket", "password"} -> {Lists("again"), Idle}

(* get_device_info_list returned: a request upserts, the top task sets rt.machines,
   for a renewal as well, which no reconcile follows.                      *)
Delivered(p, list) ==
    LET seen == {m \in Machines : list[m] # Gone} IN
    /\ \E next \in AfterList(p) : poll' = [poll EXCEPT ![p] = next]
    /\ IF p \in Requests
         THEN /\ rows' = Upserted(list)
              /\ rowMoved' = (rowMoved \ seen) \cup (poll[p].moved \cap seen)
              /\ UNCHANGED <<machines, listMoved>>
         ELSE /\ machines' = list /\ listMoved' = poll[p].moved
              /\ UNCHANGED <<rows, rowMoved>>
    /\ UNCHANGED <<bare, power, changes, runners, topMoved, untold>>

(* The client is closed in between, or start() let INITIAL_DELAY_SECONDS pass. *)
Reconciles ==
    /\ At(Top, "reconciling")
    /\ poll' = [poll EXCEPT ![Top] = Idle]
    /\ runners' = Reconciled(machines)
    /\ topMoved' = listMoved /\ untold' = {m \in Machines : machines[m] = Unknown}
    /\ UNCHANGED <<bare, power, changes, rows, machines, rowMoved, listMoved>>

(* The statuses are queried only when something is listed. *)
ListAnswered(p) ==
    LET list == [m \in Machines |-> Mapped(power[m])] IN
    /\ At(p, "listing")
    /\ IF \A m \in Machines : list[m] = Gone THEN Delivered(p, list)
       ELSE /\ poll' = [poll EXCEPT ![p].pc = "querying", ![p].list = list]
            /\ UNCHANGED <<bare, power, changes, rows, machines, runners, history>>

(* What follows a failed listing: the top task renews its token once, a renewal
   by ticket goes on to one by password, if there is a password; all else reports
   the error, or waits for the next refresh, and keeps the runners. An answer that
   cannot be mapped is no PCASError, it ends a renewal.                    *)
AfterFailure(p, failure) ==
    CASE p = Top /\ poll[p].why = "refresh" /\ failure \in AuthFailures -> {Lists("ticket")}
      [] poll[p].why = "ticket" /\ failure # "unmapped" -> {Lists("password"), Idle}
      [] OTHER -> {Idle}

(* A call of a listing fails. Of the query only an answer that cannot be read
   gets that far.                                                          *)
ListFails(p) ==
    /\ At(p, "listing") \/ At(p, "querying")
    /\ LET failures == IF At(p, "listing") THEN Failures ELSE {"unmapped"} IN
       \E next \in UNION {AfterFailure(p, failure) : failure \in failures} :
           poll' = [poll EXCEPT ![p] = next]
    /\ UNCHANGED <<bare, power, changes, rows, machines, runners, history>>

(* _enrich_status: the answer knows some of the machines, by either id. *)
StatusAnswered(p, known) ==
    /\ At(p, "querying")
    /\ known \subseteq {m \in Listed(p) : power[m] # Gone}
    /\ Delivered(p, [m \in Machines |-> IF m \in known THEN power[m] ELSE poll[p].list[m]])

(* A PCASError of the query is swallowed, the list stands as it came. *)
StatusFails(p) == At(p, "querying") /\ Delivered(p, poll[p].list)

(* A machine is switched by anybody, or ordered, or given back. *)
PowerChanges(m, status) ==
    /\ status # power[m] /\ changes < MaxChanges
    /\ changes' = changes + 1
    /\ power' = [power EXCEPT ![m] = status]
    /\ poll' = [p \in Pollers |-> IF At(p, "listing") \/ At(p, "querying")
                                    THEN [poll[p] EXCEPT !.moved = @ \cup {m}] ELSE poll[p]]
    /\ rowMoved' = rowMoved \cup {m} /\ listMoved' = listMoved \cup {m}
    /\ topMoved' = topMoved \cup {m}
    /\ UNCHANGED <<bare, rows, machines, runners, untold>>

-----------------------------------------------------------------------------
Next ==
    \/ \E p \in Pollers :
          \/ Begins(p) \/ ListAnswered(p) \/ ListFails(p) \/ StatusFails(p)
          \/ \E known \in SUBSET Machines : StatusAnswered(p, known)
    \/ Reconciles
    \/ \E m \in Machines, status \in Statuses \cup {Gone} : PowerChanges(m, status)

Spec == Init /\ [][Next]_vars

-----------------------------------------------------------------------------
(* Properties.                                                             *)

(* Requests overlap, their queries fail or answer for some of the machines: the
   row of a machine that has not changed since the request that wrote it began
   has its status, or none if the list has none and the query failed it.   *)
RowsTellTheTruth ==
    \A m \in Machines \ rowMoved :
        \/ rows[m] = NoRow
        \/ rows[m] = power[m]
        \/ bare /\ rows[m] = Unknown

(* Whichever of its calls fail, and however renewals of the token overwrite
   rt.machines: of the machines that did not change since the list that was last
   reconciled was asked for, those the overview counts as running have a runner,
   unless that list came without their status, and only those that read as running
   have one. The runners' reading is the wider: it takes "inactive",
   "unavailable" and "connected" for running too.                          *)
RunnersFollowPower ==
    \A m \in Machines \ topMoved :
        /\ CountedAsRunning(power[m]) => m \in runners \/ m \in untold
        /\ m \in untold => bare
        /\ m \in runners => \/ CountedAsRunning(power[m])
                            \/ power[m] \in {"inactive", "unavailable", "connected"}

-----------------------------------------------------------------------------
(* The inductive invariant behind them.                                    *)

(* What a listing may say of a machine whose power was status all along. *)
Truth(status) == {status, Mapped(status)}

(* A poll that waits for the statuses has a list that was true when the machine
   has not changed since it began; so is rt.machines.                      *)
ListsAreFresh ==
    /\ \A p \in Pollers : At(p, "querying") =>
          \A m \in Machines \ poll[p].moved : poll[p].list[m] \in Truth(power[m])
    /\ \A m \in Machines \ listMoved : machines[m] \in Truth(power[m])

(* The runners are those of the list last reconciled, whatever rt.machines has
   become.                                                                 *)
RunnersAreReconciled ==
    \A m \in Machines \ topMoved :
        /\ m \in runners <=> m \notin untold /\ IsMachineRunning(power[m])
        /\ m \in untold => bare

RowsAreFresh ==
    \A m \in Machines \ rowMoved : rows[m] \in {NoRow} \cup Truth(power[m])

IInv == TypeOK /\ ListsAreFresh /\ RunnersAreReconciled /\ RowsAreFresh
=============================================================================
