-------------------------- MODULE KeepAliveService --------------------------
(***************************************************************************)
(* The KeepAliveService of keepalive.py: the runtimes it registers per     *)
(* account, the top task and the machine runners of each, the web requests *)
(* that start, stop, delete and trigger an account under one asyncio lock, *)
(* and the boot, shutdown and crash of the process around them.            *)
(*                                                                         *)
(* A machine runner is taken at the level of RunnerLifecycle (the runner's *)
(* sessions and links are the subject of MachineRunner): a live runner may *)
(* end by itself, one that is asked to stop does end.  An action is what a *)
(* task runs from one await to the next.                                   *)
(***************************************************************************)
EXTENDS Naturals, Sequences, FiniteSets

CONSTANTS
    Accounts,  \* account ids
    Machines,  \* machine ids of an account
    Clients,   \* bound: concurrent web requests
    Lifespan,  \* the process's own startup and shutdown
    Rts,       \* bound: AccountRuntime objects
    Runners,   \* bound: MachineRunner objects
    MaxLate,   \* bound: live runners started by a runtime that is being stopped
    None       \* null reference

ASSUME NamesAssumption ==
    /\ Lifespan \notin Clients
    /\ None \notin Accounts \cup Rts \cup Runners \cup Machines
    /\ MaxLate \in Nat

VARIABLES
    \* the database
    known,     \* rows of accounts
    enabled,   \* accounts whose keepalive_tasks row has enabled=1
    \* the process
    server,    \* "down", "booting", "serving", "shutting"
    todo,      \* accounts the boot or the shutdown has still to go through
    lock,      \* KeepAliveService._lock: its holder, then its waiters in order
    work,      \* what each request, and the lifespan, is doing
    runtimes,  \* KeepAliveService._runtimes
    \* the AccountRuntime objects
    owner,     \* account_id
    running,   \* running
    listed,    \* the running machines of rt.machines
    held,      \* rt.runners
    top,       \* the task _runner_task: its await, or "ended"
    \* the MachineRunner objects
    runner

db == <<known, enabled>>
process == <<server, todo, lock>>
rtVars == <<owner, running, listed, held, top>>
vars == <<db, process, work, runtimes, rtVars, runner>>

Workers == Clients \cup {Lifespan}

Idle == [op |-> "none", acct |-> None, pc |-> "idle", rt |-> None, waits |-> {}]
(* status: "live"; "leaving": _stopping set but not cancelled; "stopping":
   stop() called; "ended": the task is over.  late: history, the runner was
   started for a runtime that had already been told to stop.               *)
NoRunner == [acct |-> None, machine |-> None, status |-> "ended", late |-> FALSE]

TypeOK ==
    /\ known \subseteq Accounts /\ enabled \subseteq Accounts
    /\ server \in {"down", "booting", "serving", "shutting"}
    /\ todo \subseteq Accounts
    /\ lock \in Seq(Clients)
    /\ \A i, j \in DOMAIN lock : lock[i] = lock[j] => i = j
    /\ work \in [Workers ->
          [op : {"none", "start", "stop", "delete", "boot", "shutdown"},
           acct : Accounts \cup {None},
           pc : {"idle", "queued", "gather", "awaitTop", "login"},
           rt : Rts \cup {None}, waits : SUBSET Runners]]
    /\ runtimes \in [Accounts -> Rts \cup {None}]
    /\ owner \in [Rts -> Accounts \cup {None}]
    /\ running \in [Rts -> BOOLEAN]
    /\ listed \in [Rts -> SUBSET Machines]
    /\ held \in [Rts -> [Machines -> Runners \cup {None}]]
    /\ top \in [Rts -> {"initial", "sleeping", "refreshing", "cancelled", "ended"}]
    /\ runner \in [Runners ->
          [acct : Accounts \cup {None}, machine : Machines \cup {None},
           status : {"live", "leaving", "stopping", "ended"}, late : BOOLEAN]]

(* What a process that holds nothing in memory has. *)
NoWork == [w \in Workers |-> Idle]
NoRuntimes == [a \in Accounts |-> None]
NothingHeld == [m \in Machines |-> None]

Init ==
    /\ known = Accounts /\ enabled = {}
    /\ server = "down" /\ todo = {} /\ lock = <<>>
    /\ work = NoWork /\ runtimes = NoRuntimes
    /\ owner = [t \in Rts |-> None] /\ running = [t \in Rts |-> FALSE]
    /\ listed = [t \in Rts |-> {}] /\ held = [t \in Rts |-> NothingHeld]
    /\ top = [t \in Rts |-> "ended"]
    /\ runner = [r \in Runners |-> NoRunner]

-----------------------------------------------------------------------------
(* Derived state.                                                          *)

HeldBy(t) == {held[t][m] : m \in Machines} \ {None}
Held(r) == \E t \in Rts : owner[t] # None /\ r \in HeldBy(t)
Awaited(r) == \E w \in Workers : r \in work[w].waits
TopLive(t) == top[t] # "ended"
Unasked(r) == runner[r].status \in {"live", "leaving"}
Holder(c) == lock # <<>> /\ Head(lock) = c

(* stop() on each runner of rs: the event is set and the task cancelled;
   on a task that is over it changes nothing more.                         *)
Asked(rs) == [r \in Runners |->
    IF r \in rs /\ Unasked(r) THEN [runner[r] EXCEPT !.status = "stopping"]
    ELSE runner[r]]

(* Plausible bug: the lock is not released on the way out. *)
FinishKeepsLock(w) ==
    /\ work' = [work EXCEPT ![w] = Idle]
    /\ known' = IF work[w].op = "delete" THEN known \ {work[w].acct} ELSE known
    /\ UNCHANGED lock

(* The request returns and the lock, if it holds it, goes to the next waiter.
   delete_account drops the account's rows without another await; its task
   row was disabled by stop_for under the same lock.  (It would also go on
   after a stop_for that raised; what that can raise is a failed write of the
   store, and the writes of requests are taken to succeed.)                *)
Finish(w) ==
    /\ work' = [work EXCEPT ![w] = Idle]
    /\ lock' = IF w \in Clients THEN Tail(lock) ELSE lock
    /\ known' = IF work[w].op = "delete" THEN known \ {work[w].acct} ELSE known

(* Plausible bug: the runners are left to notice by themselves. *)
StopBeginsForgetsRunners(w, job, t) ==
    /\ running' = [running EXCEPT ![t] = FALSE]
    /\ work' = [work EXCEPT ![w] = [job EXCEPT !.pc = "awaitTop", !.rt = t]]
    /\ top' = [top EXCEPT ![t] = IF TopLive(t) THEN "cancelled" ELSE @]
    /\ UNCHANGED <<owner, listed, held, runner>>

(* _stop_account up to its first await, for the job of worker w: with
   runners, gather their stop()s; without, the top task is cancelled at once. *)
StopBegins(w, job, t) ==
    /\ running' = [running EXCEPT ![t] = FALSE]
    /\ IF HeldBy(t) # {}
         THEN /\ work' = [work EXCEPT ![w] =
                    [job EXCEPT !.pc = "gather", !.rt = t, !.waits = HeldBy(t)]]
              /\ runner' = Asked(HeldBy(t))
              /\ UNCHANGED top
         ELSE /\ work' = [work EXCEPT ![w] = [job EXCEPT !.pc = "awaitTop", !.rt = t]]
              /\ top' = [top EXCEPT ![t] = IF TopLive(t) THEN "cancelled" ELSE @]
              /\ UNCHANGED runner
    /\ UNCHANGED <<owner, listed, held>>

-----------------------------------------------------------------------------
(* Web requests: start_for (and set_mode), stop_for, delete_account.       *)

Request(c, op, a) ==
    /\ server = "serving"
    /\ work[c] = Idle
    /\ work' = [work EXCEPT ![c].op = op, ![c].acct = a, ![c].pc = "queued"]
    /\ lock' = Append(lock, c)
    /\ UNCHANGED <<db, server, todo, runtimes, rtVars, runner>>

(* start_for with the lock: the row is enabled first; an unknown account
   raises, a registered runtime is stopped before the login.               *)
StartAcquires(c) ==
    LET a == work[c].acct IN
    /\ Holder(c) /\ work[c].pc = "queued" /\ work[c].op = "start"
    /\ enabled' = enabled \cup {a}
    /\ \/ /\ a \notin known
          /\ Finish(c)
          /\ UNCHANGED <<rtVars, runner>>
       \/ /\ a \in known /\ runtimes[a] = None
          /\ work' = [work EXCEPT ![c].pc = "login"]
          /\ UNCHANGED <<known, lock, rtVars, runner>>
       \/ /\ a \in known /\ runtimes[a] # None
          /\ StopBegins(c, work[c], runtimes[a])
          /\ UNCHANGED <<known, lock>>
    /\ UNCHANGED <<server, todo, runtimes>>

(* Plausible bug: stop_for does not take the lock. *)
StopWithoutLock(c) ==
    LET a == work[c].acct IN
    /\ work[c].pc = "queued" /\ work[c].op \in {"stop", "delete"}
    /\ enabled' = enabled \ {a}
    /\ IF runtimes[a] = None
         THEN Finish(c) /\ UNCHANGED <<rtVars, runner>>
         ELSE StopBegins(c, work[c], runtimes[a]) /\ UNCHANGED <<known, lock>>
    /\ UNCHANGED <<server, todo, runtimes>>

(* stop_for with the lock, from the stop and the delete request. *)
StopAcquires(c) ==
    LET a == work[c].acct IN
    /\ Holder(c) /\ work[c].pc = "queued" /\ work[c].op \in {"stop", "delete"}
    /\ enabled' = enabled \ {a}
    /\ IF runtimes[a] = None
         THEN Finish(c) /\ UNCHANGED <<rtVars, runner>>
         ELSE StopBegins(c, work[c], runtimes[a]) /\ UNCHANGED <<known, lock>>
    /\ UNCHANGED <<server, todo, runtimes>>

(* trigger_now: each registered runner's _stopping is set, with no await. *)
Trigger(a) ==
    LET t == runtimes[a] IN
    /\ server = "serving"
    /\ t # None /\ running[t]
    /\ runner' = [r \in Runners |->
          IF r \in HeldBy(t) /\ runner[r].status = "live"
            THEN [runner[r] EXCEPT !.status = "leaving"] ELSE runner[r]]
    /\ UNCHANGED <<db, process, work, runtimes, rtVars>>

-----------------------------------------------------------------------------
(* _stop_account and _begin_account after their awaits.                    *)

(* Every gathered stop() has returned: the map is cleared, whatever it holds
   by now, and the top task is cancelled.                                  *)
Gathered(w) ==
    LET t == work[w].rt IN
    /\ work[w].pc = "gather"
    /\ \A r \in work[w].waits : runner[r].status = "ended"
    /\ held' = [held EXCEPT ![t] = NothingHeld]
    /\ runner' = [r \in Runners |->
          IF r \in work[w].waits \cup HeldBy(t) /\ runner[r].status = "ended"
            THEN NoRunner ELSE runner[r]]
    /\ top' = [top EXCEPT ![t] = IF TopLive(t) THEN "cancelled" ELSE @]
    /\ work' = [work EXCEPT ![w].pc = "awaitTop", ![w].waits = {}]
    /\ UNCHANGED <<db, process, runtimes, owner, running, listed>>

(* Plausible bug: the cancelled top task is not awaited. *)
TopNotAwaited(w) ==
    LET t == work[w].rt
        a == work[w].acct
    IN
    /\ work[w].pc = "awaitTop"
    /\ runtimes' = [runtimes EXCEPT ![a] = None]
    /\ IF work[w].op = "start"
         THEN /\ work' = [work EXCEPT ![w].pc = "login", ![w].rt = None]
              /\ UNCHANGED <<db, lock>>
         ELSE Finish(w) /\ UNCHANGED enabled
    /\ UNCHANGED <<server, todo, rtVars, runner>>

(* The top task is over: the runtime is unregistered; a start goes on to the
   login, a stop returns, the shutdown takes the next account.             *)
TopGone(w) ==
    LET t == work[w].rt
        a == work[w].acct
    IN
    /\ work[w].pc = "awaitTop"
    /\ ~TopLive(t)
    /\ runtimes' = [runtimes EXCEPT ![a] = None]
    /\ owner' = [owner EXCEPT ![t] = None]
    /\ listed' = [listed EXCEPT ![t] = {}]
    /\ held' = [held EXCEPT ![t] = NothingHeld]
    /\ IF work[w].op = "start"
         THEN /\ work' = [work EXCEPT ![w].pc = "login", ![w].rt = None]
              /\ UNCHANGED <<db, lock>>
         ELSE Finish(w) /\ UNCHANGED enabled
    /\ UNCHANGED <<server, todo, running, top, runner>>

(* The ticket or the password was accepted: the runtime is built, its top
   task created and registered without another await.                      *)
LoginOk(w) ==
    LET a == work[w].acct IN
    /\ work[w].pc = "login"
    /\ \E t \in Rts, ms \in SUBSET Machines :
        /\ owner[t] = None
        /\ owner' = [owner EXCEPT ![t] = a]
        /\ running' = [running EXCEPT ![t] = TRUE]
        /\ listed' = [listed EXCEPT ![t] = ms]
        /\ top' = [top EXCEPT ![t] = "initial"]
        /\ runtimes' = [runtimes EXCEPT ![a] = t]
    /\ Finish(w)
    /\ UNCHANGED <<enabled, server, todo, held, runner>>

(* Plausible bug: the error path keeps the lock. *)
LoginFailsLocked(w) ==
    /\ work[w].pc = "login"
    /\ FinishKeepsLock(w)
    /\ UNCHANGED <<enabled, server, todo, runtimes, rtVars, runner>>

(* Neither was: the request raises; the boot logs it and goes on. *)
LoginFails(w) ==
    /\ work[w].pc = "login"
    /\ Finish(w)
    /\ UNCHANGED <<enabled, server, todo, runtimes, rtVars, runner>>

-----------------------------------------------------------------------------
(* The top task of a runtime.                                              *)

(* Plausible bug: a runner that is gone is stopped but stays in the map. *)
ReconcileKeepsGone(t, ms) ==
    LET fresh == {m \in ms : held[t][m] = None}
        gone == {m \in Machines \ ms : held[t][m] # None}
        stopped == Asked({held[t][m] : m \in gone})
    IN
    /\ Cardinality(fresh) <= 1
    /\ \E new \in [fresh -> {r \in Runners : runner[r] = NoRunner}] :
        /\ held' = [held EXCEPT ![t] = [m \in Machines |->
              IF m \in fresh THEN new[m] ELSE held[t][m]]]
        /\ runner' = [r \in Runners |->
              IF \E m \in fresh : new[m] = r
                THEN [acct |-> owner[t], machine |-> CHOOSE m \in fresh : new[m] = r,
                      status |-> "live", late |-> FALSE]
                ELSE stopped[r]]

(* _reconcile_machine_runners for the running machines ms: a runner for each
   that has none, and a stop, awaited by nobody, for each that is gone.  It
   calls nothing that fails, so the handler of _run_forever_top that ends a
   crashed top task is not modelled.                                       *)
Reconcile(t, ms) ==
    LET fresh == {m \in ms : held[t][m] = None}
        gone == {m \in Machines \ ms : held[t][m] # None}
        free == {r \in Runners : runner[r] = NoRunner}
        stopped == Asked({held[t][m] : m \in gone})
        late == {r \in Runners : runner[r].late /\ Unasked(r)}
    IN
    \E new \in [fresh -> free] :
        /\ \A m, n \in fresh : new[m] = new[n] => m = n
        /\ running[t] \/ Cardinality(late) + Cardinality(fresh) <= MaxLate
        /\ held' = [held EXCEPT ![t] = [m \in Machines |->
              CASE m \in fresh -> new[m] [] m \in gone -> None [] OTHER -> held[t][m]]]
        /\ runner' = [r \in Runners |->
              IF \E m \in fresh : new[m] = r
                THEN [acct |-> owner[t], machine |-> CHOOSE m \in fresh : new[m] = r,
                      status |-> "live", late |-> ~running[t]]
              ELSE IF runner[r].status = "ended" /\ ~Awaited(r)
                      /\ \E m \in gone : held[t][m] = r
                THEN NoRunner
              ELSE stopped[r]]

(* while rt.running: ... *)
LoopAgain(t) == top' = [top EXCEPT ![t] = IF running[t] THEN "sleeping" ELSE "ended"]

(* Plausible bug: the first reconcile is left to the first refresh. *)
InitialDelayNoReconcile(t) ==
    /\ top[t] = "initial"
    /\ LoopAgain(t)
    /\ UNCHANGED <<db, process, work, runtimes, owner, running, listed, held, runner>>

InitialDelayOver(t) ==
    /\ top[t] = "initial"
    /\ Reconcile(t, listed[t])
    /\ LoopAgain(t)
    /\ UNCHANGED <<db, process, work, runtimes, owner, running, listed>>

RefreshDue(t) ==
    /\ top[t] = "sleeping"
    /\ top' = [top EXCEPT ![t] = IF running[t] THEN "refreshing" ELSE "ended"]
    /\ UNCHANGED <<db, process, work, runtimes, owner, running, listed, held, runner>>

RefreshOk(t) ==
    /\ top[t] = "refreshing"
    /\ \E ms \in SUBSET Machines :
        /\ listed' = [listed EXCEPT ![t] = ms]
        /\ Reconcile(t, ms)
    /\ LoopAgain(t)
    /\ UNCHANGED <<db, process, work, runtimes, owner, running>>

(* A refresh that fails after its token refresh has replaced the list too. *)
RefreshFails(t) ==
    /\ top[t] = "refreshing"
    /\ \E ms \in SUBSET Machines : listed' = [listed EXCEPT ![t] = ms]
    /\ LoopAgain(t)
    /\ UNCHANGED <<db, process, work, runtimes, owner, running, held, runner>>

TopCancelled(t) ==
    /\ top[t] = "cancelled"
    /\ top' = [top EXCEPT ![t] = "ended"]
    /\ UNCHANGED <<db, process, work, runtimes, owner, running, listed, held, runner>>

TopStep(t) ==
    InitialDelayOver(t) \/ RefreshDue(t) \/ RefreshOk(t) \/ RefreshFails(t) \/ TopCancelled(t)

-----------------------------------------------------------------------------
(* The runners, as RunnerLifecycle lets them move.                         *)

(* The task of a runner ends; the object is forgotten if nobody refers to it. *)
Ends(r) ==
    /\ runner' = [runner EXCEPT ![r] =
          IF Held(r) \/ Awaited(r) THEN [@ EXCEPT !.status = "ended"] ELSE NoRunner]
    /\ UNCHANGED <<db, process, work, runtimes, rtVars>>

(* A runner that was told to stop, or triggered, ends. *)
RunnerStops(r) == runner[r].status \in {"stopping", "leaving"} /\ Ends(r)

(* A live runner dies of a failed log write. *)
RunnerDies(r) == runner[r].status = "live" /\ Ends(r)

-----------------------------------------------------------------------------
(* The process.                                                            *)

Boot ==
    /\ server = "down"
    /\ server' = "booting"
    /\ todo' = enabled \cap known
    /\ UNCHANGED <<db, lock, work, runtimes, rtVars, runner>>

(* start(): _begin_account for the next enabled task; memory is empty, so
   there is no old runtime to stop.                                        *)
BootNext(a) ==
    /\ server = "booting" /\ a \in todo /\ work[Lifespan] = Idle
    /\ todo' = todo \ {a}
    /\ work' = [work EXCEPT ![Lifespan].op = "boot", ![Lifespan].acct = a,
                            ![Lifespan].pc = "login"]
    /\ UNCHANGED <<db, server, lock, runtimes, rtVars, runner>>

Serve ==
    /\ server = "booting" /\ todo = {} /\ work[Lifespan] = Idle
    /\ server' = "serving"
    /\ UNCHANGED <<db, todo, lock, work, runtimes, rtVars, runner>>

(* Plausible bug: shutdown() stops the first runtime only. *)
ShutdownFirstOnly ==
    /\ server = "serving"
    /\ \A c \in Clients : work[c] = Idle
    /\ server' = "shutting"
    /\ LET all == {a \in Accounts : runtimes[a] # None}
       IN  todo' = IF all = {} THEN {} ELSE {CHOOSE a \in all : TRUE}
    /\ UNCHANGED <<db, lock, work, runtimes, rtVars, runner>>

(* The web server lets the requests under way finish, then shutdown() runs. *)
Shutdown ==
    /\ server = "serving"
    /\ \A c \in Clients : work[c] = Idle
    /\ server' = "shutting"
    /\ todo' = {a \in Accounts : runtimes[a] # None}
    /\ UNCHANGED <<db, lock, work, runtimes, rtVars, runner>>

ShutdownNext(a) ==
    /\ server = "shutting" /\ a \in todo /\ work[Lifespan].pc = "idle"
    /\ todo' = todo \ {a}
    /\ StopBegins(Lifespan, [Idle EXCEPT !.op = "shutdown", !.acct = a], runtimes[a])
    /\ UNCHANGED <<db, server, lock, runtimes>>

(* The process is gone: after its shutdown, or killed at any await. *)
Exit ==
    /\ server # "down"
    /\ server' = "down" /\ todo' = {} /\ lock' = <<>>
    /\ work' = NoWork /\ runtimes' = NoRuntimes
    /\ owner' = [t \in Rts |-> None] /\ running' = [t \in Rts |-> FALSE]
    /\ listed' = [t \in Rts |-> {}] /\ held' = [t \in Rts |-> NothingHeld]
    /\ top' = [t \in Rts |-> "ended"]
    /\ runner' = [r \in Runners |-> NoRunner]
    /\ UNCHANGED db

-----------------------------------------------------------------------------
Work(w) ==
    \/ StartAcquires(w) \/ StopAcquires(w)
    \/ Gathered(w) \/ TopGone(w) \/ LoginOk(w) \/ LoginFails(w)

Next ==
    \/ \E c \in Clients, a \in Accounts :
          \E op \in {"start", "stop", "delete"} : Request(c, op, a)
    \/ \E w \in Workers : Work(w)
    \/ \E a \in Accounts : Trigger(a) \/ BootNext(a) \/ ShutdownNext(a)
    \/ \E t \in Rts : TopStep(t)
    \/ \E r \in Runners : RunnerStops(r) \/ RunnerDies(r)
    \/ Boot \/ Serve \/ Shutdown \/ Exit

Spec == Init /\ [][Next]_vars

(* Awaited calls end: requests to the platform time out, a cancelled task and
   a stopped runner finish, sleeps expire.  Nobody has to send a request, and
   nothing restarts a process that exited.                                 *)
Fairness ==
    /\ \A w \in Workers : WF_vars(Work(w))
    /\ \A t \in Rts : WF_vars(TopStep(t))
    /\ \A r \in Runners : WF_vars(RunnerStops(r))
    /\ \A a \in Accounts : WF_vars(BootNext(a))
    /\ WF_vars(Serve)

FairSpec == Spec /\ Fairness

-----------------------------------------------------------------------------
(* Properties.                                                             *)

Busy(a) == \E w \in Workers : work[w].acct = a /\ work[w].pc \notin {"idle", "queued"}

(* A top task that can still refresh and reconcile belongs to the registered
   runtime of its account: _stop_account unregisters only after it awaited
   the task, so an account never has two of them.                          *)
LiveTopIsRegistered ==
    \A t \in Rts : TopLive(t) => owner[t] # None /\ runtimes[owner[t]] = t

(* Outside a request, an account is kept alive only if its row is enabled and
   the account exists: what a restart will find agrees with what runs.     *)
ServedOnlyIfEnabled ==
    \A a \in Accounts : runtimes[a] # None /\ ~Busy(a) => a \in enabled \cap known

(* A running runtime never holds a runner that was told to stop() : such an
   entry would keep the reconcile from starting the machine's next runner. *)
StoppedRunnersAreLetGo ==
    \A t \in Rts : running[t] =>
        \A r \in HeldBy(t) :
            /\ runner[r].status # "stopping"
            /\ runner[r].acct = owner[t] /\ held[t][runner[r].machine] = r

(* Every runner that nobody asked to stop is held by a registered runtime,
   except those a runtime started after it had been told to stop itself.   *)
OrphansAreLate ==
    \A r \in Runners : Unasked(r) /\ ~runner[r].late =>
        \E a \in Accounts : runtimes[a] # None /\ r \in HeldBy(runtimes[a])

(* When shutdown() is through, no runtime is registered, no top task is left
   and nobody holds a runner.                                              *)
ShutdownIsComplete ==
    server = "shutting" /\ todo = {} /\ work[Lifespan] = Idle =>
        /\ runtimes = NoRuntimes
        /\ \A t \in Rts : ~TopLive(t)
        /\ \A r \in Runners : Unasked(r) => runner[r].late

(* Every start, stop and delete request returns (or the process exits). *)
RequestsReturn == \A c \in Clients : work[c] # Idle ~> work[c] = Idle

(* The machines a login reported running get a runner each, or the runtime
   is stopped.                                                             *)
LoginMachinesGetRunners ==
    \A t \in Rts, m \in Machines :
        (top[t] = "initial" /\ m \in listed[t]) ~> (held[t][m] # None \/ ~running[t])

-----------------------------------------------------------------------------
(* What the code's documents say of the service and the code does not do.  *)

(* keepalive.py: "one MachineRunner per running machine". *)
OneRunnerPerMachine ==
    \A q, r \in Runners :
        Unasked(q) /\ Unasked(r) /\ q # r =>
            <<runner[q].acct, runner[q].machine>> # <<runner[r].acct, runner[r].machine>>

(* What is left of it: for each machine of an account at most one runner that
   nobody asked to stop, beside those a stopping runtime started.          *)
OnlyLateRunnersAreExtra ==
    \A q, r \in Runners :
        Unasked(q) /\ Unasked(r) /\ q # r /\ ~runner[q].late /\ ~runner[r].late =>
            <<runner[q].acct, runner[q].machine>> # <<runner[r].acct, runner[r].machine>>

-----------------------------------------------------------------------------
(* The inductive invariant behind the safety properties.                   *)

Active(w) == work[w].pc \notin {"idle", "queued"}

(* Never do two of the requests, the boot and the shutdown work on accounts at
   once, though the boot and the shutdown take no lock.                    *)
OneWorksAtATime == \A v, w \in Workers : Active(v) /\ Active(w) => v = w

(* Whoever works on an account holds the lock; the others wait for it. *)
LockFollowsWork ==
    /\ \A i \in DOMAIN lock : work[lock[i]].pc # "idle"
    /\ \A c \in Clients : Active(c) => Holder(c)

(* Requests are served by a server that serves; the lifespan works before and
   after.  A login finds no runtime registered for its account, a stop the one
   it took over, which no longer runs.                                     *)
JobsFit ==
    /\ \A w \in Workers : work[w].pc = "idle" => work[w] = Idle
    /\ \A c \in Clients : work[c].pc # "idle" =>
          server = "serving" /\ work[c].op \in {"start", "stop", "delete"}
    /\ work[Lifespan].pc # "idle" =>
          \/ server = "booting" /\ work[Lifespan].op = "boot" /\ work[Lifespan].pc = "login"
          \/ /\ server = "shutting" /\ work[Lifespan].op = "shutdown"
             /\ work[Lifespan].pc \in {"gather", "awaitTop"}
    /\ \A w \in Workers :
          /\ work[w].pc # "idle" => work[w].acct \in Accounts
          /\ work[w].pc = "login" =>
                work[w].op \in {"start", "boot"} /\ runtimes[work[w].acct] = None
          /\ work[w].pc \in {"gather", "awaitTop"} =>
                /\ work[w].rt \in Rts /\ runtimes[work[w].acct] = work[w].rt
                /\ ~running[work[w].rt]
          /\ Active(w) /\ work[w].op \in {"start", "boot"} => work[w].acct \in enabled \cap known
          /\ work[w].pc # "gather" => work[w].waits = {}

(* The registered runtimes are the ones with an owner, one for each account, and
   a running one has a top task that is not cancelled.                     *)
RuntimesAreOwned ==
    /\ \A a \in Accounts, t \in Rts : runtimes[a] = t <=> owner[t] = a
    /\ \A t \in Rts : owner[t] = None => ~TopLive(t) /\ ~running[t] /\ held[t] = NothingHeld
    /\ \A t \in Rts : running[t] => top[t] \in {"initial", "sleeping", "refreshing"}

(* A runner is held for the machine and the account it was made for.  A runtime
   that stops has asked those it holds, but the late ones; those the stop waits
   for are asked and not reused.                                           *)
RunnersFollowHolder ==
    /\ \A t \in Rts, m \in Machines : held[t][m] # None =>
          LET r == runner[held[t][m]] IN
          /\ r.acct = owner[t] /\ r.machine = m
          /\ running[t] => r.status # "stopping"
          /\ ~running[t] => r.status \in {"stopping", "ended"} \/ r.late
    /\ \A w \in Workers : \A r \in work[w].waits :
          runner[r].acct = work[w].acct /\ ~Unasked(r)

(* The boot has still to log in to the accounts that are enabled, the shutdown
   to stop those that are registered.                                      *)
TodoFits ==
    /\ server = "down" => runtimes = NoRuntimes
    /\ server \in {"down", "serving"} => todo = {}
    /\ server = "booting" => \A a \in todo : runtimes[a] = None /\ a \in enabled \cap known
    /\ server = "shutting" => \A a \in Accounts : runtimes[a] # None =>
          a \in todo \/ work[Lifespan].acct = a
    /\ server = "shutting" => \A a \in todo : runtimes[a] # None
    /\ work[Lifespan].acct \notin todo

IInv ==
    /\ TypeOK /\ LockFollowsWork /\ JobsFit /\ RuntimesAreOwned
    /\ RunnersFollowHolder /\ OrphansAreLate /\ TodoFits /\ ServedOnlyIfEnabled
=============================================================================
