----------------------- MODULE KeepAliveServiceProofs -----------------------
(***************************************************************************)
(* Proofs about KeepAliveService, for any accounts, machines, requests,    *)
(* runtimes and runners: the lock keeps the work on accounts apart, what   *)
(* runs is registered and enabled, and only a runner that a stopping       *)
(* runtime started is ever left alone.                                     *)
(***************************************************************************)
EXTENDS KeepAliveService, SequenceTheorems, TLAPS

Job == [op : {"none", "start", "stop", "delete", "boot", "shutdown"},
        acct : Accounts \cup {None},
        pc : {"idle", "queued", "gather", "awaitTop", "login"},
        rt : Rts \cup {None}, waits : SUBSET Runners]

RunnerObject == [acct : Accounts \cup {None}, machine : Machines \cup {None},
                 status : {"live", "leaving", "stopping", "ended"}, late : BOOLEAN]

(* What the references of the objects tell of each other. *)
LEMMA Blanks ==
    /\ Idle \in Job /\ Idle.op = "none" /\ Idle.acct = None /\ Idle.pc = "idle"
    /\ Idle.rt = None /\ Idle.waits = {}
    /\ NoRunner \in RunnerObject /\ NoRunner.acct = None /\ NoRunner.status = "ended"
    /\ ~NoRunner.late
    /\ NothingHeld \in [Machines -> Runners \cup {None}] /\ \A m \in Machines : NothingHeld[m] = None
    /\ NoRuntimes \in [Accounts -> Rts \cup {None}] /\ \A a \in Accounts : NoRuntimes[a] = None
    /\ NoWork \in [Workers -> Job] /\ \A w \in Workers : NoWork[w] = Idle
<1>1. /\ Idle \in Job /\ Idle.op = "none" /\ Idle.acct = None /\ Idle.pc = "idle"
      /\ Idle.rt = None /\ Idle.waits = {}
    BY DEF Idle, Job
<1>2. /\ NoRunner \in RunnerObject /\ NoRunner.acct = None /\ NoRunner.status = "ended"
      /\ ~NoRunner.late
    BY DEF NoRunner, RunnerObject
<1>. QED
    BY <1>1, <1>2 DEF NothingHeld, NoRuntimes, NoWork

(* At most one of the requests and the lifespan works on accounts. *)
LEMMA OneAtATime ==
    ASSUME IInv, NEW v \in Workers, NEW w \in Workers, Active(v), Active(w)
    PROVE  v = w
<1>1. \A c \in Clients : Active(c) => Head(lock) = c /\ server = "serving"
    BY DEF IInv, LockFollowsWork, Holder, JobsFit, Active
<1>2. Active(Lifespan) => server # "serving"
    BY DEF IInv, JobsFit, Active
<1>. QED
    BY <1>1, <1>2 DEF Workers

(* The holder of a runner is one runtime with an owner, and that for one machine. *)
LEMMA HeldFacts ==
    ASSUME IInv, NEW t \in Rts, NEW m \in Machines, held[t][m] # None
    PROVE  /\ held[t][m] \in Runners /\ owner[t] \in Accounts /\ runtimes[owner[t]] = t
           /\ runner[held[t][m]].acct = owner[t] /\ runner[held[t][m]].machine = m
           /\ runner[held[t][m]] # NoRunner
           /\ \A u \in Rts, n \in Machines : held[u][n] = held[t][m] => u = t /\ n = m
<1>1. held[t][m] \in Runners
    BY DEF IInv, TypeOK
<1>2. \A u \in Rts, n \in Machines : held[u][n] # None => owner[u] \in Accounts
    BY Blanks DEF IInv, TypeOK, RuntimesAreOwned
<1>3. \A u \in Rts, n \in Machines : held[u][n] # None =>
          /\ runner[held[u][n]].acct = owner[u] /\ runner[held[u][n]].machine = n
    BY DEF IInv, RunnersFollowHolder
<1>4. \A u \in Rts, a \in Accounts : owner[u] = a => runtimes[a] = u
    BY DEF IInv, RuntimesAreOwned
<1>5. owner[t] # None
    BY <1>2, NamesAssumption
<1>. QED
    BY <1>1, <1>2, <1>3, <1>4, <1>5, Blanks

(* Nothing is registered before the first boot. *)
LEMMA InitIInv == Init => IInv
<1> SUFFICES ASSUME Init PROVE IInv
    OBVIOUS
<1>1. TypeOK
  <2>1. work \in [Workers -> Job] /\ runner \in [Runners -> RunnerObject]
      BY Blanks DEF Init
  <2>2. lock \in Seq(Clients) /\ DOMAIN lock = {}
      BY EmptySeq DEF Init
  <2>. QED
      BY <2>1, <2>2, Blanks DEF Init, TypeOK, Job, RunnerObject
<1>2. \A w \in Workers : work[w] = Idle
    BY Blanks DEF Init
<1>3. Lifespan \in Workers /\ Clients \subseteq Workers
    BY DEF Workers
<1>4. LockFollowsWork
    BY <1>2, <1>3, Blanks, EmptySeq DEF Init, LockFollowsWork, Active
<1>5. JobsFit
    BY <1>2, <1>3, Blanks DEF JobsFit, Active
<1>6. RuntimesAreOwned
    BY Blanks, NamesAssumption DEF Init, RuntimesAreOwned, TopLive
<1>7. RunnersFollowHolder
    BY <1>2, Blanks DEF Init, RunnersFollowHolder
<1>8. OrphansAreLate
    BY Blanks DEF Init, OrphansAreLate, Unasked
<1>9. TodoFits /\ ServedOnlyIfEnabled
    BY <1>2, <1>3, Blanks DEF Init, TodoFits, ServedOnlyIfEnabled
<1>. QED
    BY <1>1, <1>4, <1>5, <1>6, <1>7, <1>8, <1>9 DEF IInv

-----------------------------------------------------------------------------
(* The steps of top tasks and runners.                                     *)

(* A step of a top task or of a runner leaves the requests and the registration
   alone: what matters is whom it holds and asks, and that the task of a
   running runtime goes on.                                                *)
LEMMA RuntimeStep ==
    ASSUME IInv, UNCHANGED <<db, process, work, runtimes, owner, running>>,
           listed' \in [Rts -> SUBSET Machines],
           held' \in [Rts -> [Machines -> Runners \cup {None}]],
           top' \in [Rts -> {"initial", "sleeping", "refreshing", "cancelled", "ended"}],
           runner' \in [Runners -> RunnerObject],
           \A t \in Rts : owner[t] = None => top'[t] = "ended" /\ held'[t] = NothingHeld,
           \A t \in Rts : running[t] => top'[t] \in {"initial", "sleeping", "refreshing"},
           RunnersFollowHolder', OrphansAreLate'
    PROVE  IInv'
<1> USE DEF db, process
<1>1. TypeOK'
    BY DEF IInv, TypeOK, RunnerObject
<1>2. LockFollowsWork'
    BY DEF IInv, LockFollowsWork, Active, Holder
<1>3. JobsFit'
    BY DEF IInv, JobsFit, Active
<1>4. RuntimesAreOwned'
    BY DEF IInv, RuntimesAreOwned, TopLive
<1>5. TodoFits' /\ ServedOnlyIfEnabled'
    BY DEF IInv, TodoFits, ServedOnlyIfEnabled, Busy
<1>. QED
    BY <1>1, <1>2, <1>3, <1>4, <1>5 DEF IInv

(* Whom nobody asked to stop is held by a registered runtime: the machine it is
   held for.                                                               *)
LEMMA OrphanFacts ==
    ASSUME IInv, NEW r \in Runners, Unasked(r), ~runner[r].late
    PROVE  \E a \in Accounts, m \in Machines :
               runtimes[a] \in Rts /\ held[runtimes[a]][m] = r
BY DEF IInv, OrphansAreLate, HeldBy, TypeOK

(* Who is waited for is no free object. *)
LEMMA AwaitedFacts ==
    ASSUME IInv, NEW w \in Workers, NEW r \in work[w].waits
    PROVE  /\ work[w].pc = "gather" /\ work[w].acct \in Accounts /\ r \in Runners
           /\ runner[r].acct = work[w].acct /\ runner[r] # NoRunner /\ ~Unasked(r)
<1>1. work[w].pc = "gather" /\ work[w].acct \in Accounts
    BY DEF IInv, JobsFit
<1>2. r \in Runners
    BY DEF IInv, TypeOK
<1>3. runner[r].acct = work[w].acct /\ ~Unasked(r)
    BY DEF IInv, RunnersFollowHolder
<1>. QED
    BY <1>1, <1>2, <1>3, Blanks, NamesAssumption

(* stop() on some runners: they are asked, and nothing else becomes of them. *)
LEMMA AskedFacts ==
    ASSUME TypeOK, NEW rs, NEW r \in Runners
    PROVE  /\ Asked(rs)[r] \in RunnerObject
           /\ Asked(rs)[r].acct = runner[r].acct /\ Asked(rs)[r].machine = runner[r].machine
           /\ Asked(rs)[r].late = runner[r].late
           /\ r \in rs => Asked(rs)[r].status \in {"stopping", "ended"}
           /\ r \notin rs \/ ~Unasked(r) => Asked(rs)[r] = runner[r]
<1>1. runner[r] \in RunnerObject
    BY DEF TypeOK, RunnerObject
<1>2. CASE r \in rs /\ Unasked(r)
  <2>1. Asked(rs)[r] = [runner[r] EXCEPT !.status = "stopping"]
      BY <1>2 DEF Asked
  <2>. QED
      BY <1>1, <1>2, <2>1 DEF RunnerObject
<1>3. CASE ~(r \in rs /\ Unasked(r))
  <2>1. Asked(rs)[r] = runner[r]
      BY <1>3 DEF Asked
  <2>. QED
      BY <1>1, <1>3, <2>1 DEF RunnerObject, Unasked
<1>. QED
    BY <1>2, <1>3

(* A reconcile keeps apart whom it adds, whom it lets go of, and the others. *)
LEMMA ReconcileFacts ==
    ASSUME IInv, NEW t \in Rts, NEW ms \in SUBSET Machines, TopLive(t), Reconcile(t, ms),
           UNCHANGED <<db, process, work, runtimes, owner, running>>
    PROVE  /\ held' \in [Rts -> [Machines -> Runners \cup {None}]]
           /\ runner' \in [Runners -> RunnerObject]
           /\ \A u \in Rts : owner[u] = None => held'[u] = NothingHeld
           /\ RunnersFollowHolder' /\ OrphansAreLate'
<1> DEFINE fresh == {m \in ms : held[t][m] = None}
           gone == {m \in Machines \ ms : held[t][m] # None}
           free == {r \in Runners : runner[r] = NoRunner}
           stopped == Asked({held[t][m] : m \in gone})
<1>1. PICK new \in [fresh -> free] :
          /\ \A m, n \in fresh : new[m] = new[n] => m = n
          /\ held' = [held EXCEPT ![t] = [m \in Machines |->
                CASE m \in fresh -> new[m] [] m \in gone -> None [] OTHER -> held[t][m]]]
          /\ runner' = [r \in Runners |->
                IF \E m \in fresh : new[m] = r
                  THEN [acct |-> owner[t], machine |-> CHOOSE m \in fresh : new[m] = r,
                        status |-> "live", late |-> ~running[t]]
                ELSE IF runner[r].status = "ended" /\ ~Awaited(r)
                        /\ \E m \in gone : held[t][m] = r
                  THEN NoRunner
                ELSE stopped[r]]
    BY DEF Reconcile
<1>2. /\ owner[t] \in Accounts /\ runtimes[owner[t]] = t /\ owner[t] # None
      /\ held \in [Rts -> [Machines -> Runners \cup {None}]] /\ None \notin Runners
      /\ running \in [Rts -> BOOLEAN]
    BY NamesAssumption DEF IInv, TypeOK, RuntimesAreOwned
<1>3. /\ \A m \in fresh : m \in Machines /\ m \notin gone /\ new[m] \in Runners /\ runner[new[m]] = NoRunner
      /\ \A m \in gone : m \in Machines /\ held[t][m] \in Runners
    BY <1>2
<1> HIDE DEF fresh, gone
<1>4. /\ \A u \in Rts : u # t => held'[u] = held[u]
      /\ \A m \in fresh : held'[t][m] = new[m]
      /\ \A m \in gone : held'[t][m] = None
      /\ \A m \in Machines : m \notin fresh /\ m \notin gone => held'[t][m] = held[t][m]
      /\ held' \in [Rts -> [Machines -> Runners \cup {None}]]
  <2> DEFINE map == [m \in Machines |->
                CASE m \in fresh -> new[m] [] m \in gone -> None [] OTHER -> held[t][m]]
  <2>1. /\ \A m \in fresh : map[m] = new[m]
        /\ \A m \in gone : map[m] = None
        /\ \A m \in Machines : m \notin fresh /\ m \notin gone => map[m] = held[t][m]
      BY <1>3
  <2>2. map \in [Machines -> Runners \cup {None}]
    <3>1. \A m \in Machines : map[m] \in Runners \cup {None}
        BY <1>2, <1>3, <2>1
    <3>. QED
        BY <3>1
  <2>3. held' = [held EXCEPT ![t] = map]
      BY <1>1
  <2> HIDE DEF map
  <2>. QED
      BY <1>2, <2>1, <2>2, <2>3
<1>5. \A m \in fresh :
          /\ runner'[new[m]] \in RunnerObject
          /\ runner'[new[m]].acct = owner[t] /\ runner'[new[m]].machine = m
          /\ runner'[new[m]].status = "live" /\ runner'[new[m]].late = ~running[t]
  <2> SUFFICES ASSUME NEW m \in fresh
               PROVE  /\ runner'[new[m]] \in RunnerObject
                      /\ runner'[new[m]].acct = owner[t] /\ runner'[new[m]].machine = m
                      /\ runner'[new[m]].status = "live" /\ runner'[new[m]].late = ~running[t]
      OBVIOUS
  <2>1. (CHOOSE n \in fresh : new[n] = new[m]) = m
      BY <1>1
  <2>2. runner'[new[m]] = [acct |-> owner[t], machine |-> CHOOSE n \in fresh : new[n] = new[m],
                           status |-> "live", late |-> ~running[t]]
      BY <1>1, <1>3
  <2>3. runner'[new[m]] = [acct |-> owner[t], machine |-> m,
                           status |-> "live", late |-> ~running[t]]
      BY <2>1, <2>2
  <2>. QED
      BY <1>2, <1>3, <2>3 DEF RunnerObject
<1>6. ASSUME NEW m \in gone
      PROVE  LET r == held[t][m] IN
             /\ runner'[r] \in RunnerObject /\ runner'[r].status \in {"stopping", "ended"}
             /\ Awaited(r) => runner'[r].acct = runner[r].acct
  <2> DEFINE r == held[t][m]
  <2>1. r \in Runners /\ runner[r] # NoRunner
      BY <1>2, <1>3, HeldFacts
  <2>2. ~\E n \in fresh : new[n] = r
      BY <1>3, <2>1
  <2>3. \/ runner'[r] = NoRunner /\ ~Awaited(r)
        \/ runner'[r] = stopped[r]
      BY <1>1, <2>1, <2>2
  <2>4. r \in {held[t][n] : n \in gone}
      OBVIOUS
  <2>5. stopped[r] \in RunnerObject /\ stopped[r].status \in {"stopping", "ended"}
        /\ stopped[r].acct = runner[r].acct
      BY <2>1, <2>4, AskedFacts DEF IInv
  <2>. QED
      BY <2>3, <2>5, Blanks
<1>7. ASSUME NEW r \in Runners, ~\E m \in fresh : new[m] = r, ~\E m \in gone : held[t][m] = r
      PROVE  runner'[r] = runner[r]
  <2>1. runner'[r] = stopped[r]
      BY <1>1, <1>7
  <2>. QED
      BY <1>7, <2>1, AskedFacts DEF IInv
<1>8. runner' \in [Runners -> RunnerObject]
  <2>1. \A r \in Runners : runner[r] \in RunnerObject
      BY DEF IInv, TypeOK, RunnerObject
  <2>2. \A r \in Runners : runner'[r] \in RunnerObject
      BY <1>5, <1>6, <1>7, <2>1
  <2>. QED
      BY <1>1, <2>2
<1>9. \A u \in Rts : owner[u] = None => held'[u] = NothingHeld
    BY <1>2, <1>4 DEF IInv, RuntimesAreOwned
<1>10. ASSUME NEW u \in Rts, NEW m \in Machines, held[u][m] # None, ~(u = t /\ m \in gone)
       PROVE  /\ runner'[held[u][m]] = runner[held[u][m]]
              /\ held'[u][m] = held[u][m]
  <2>1. held[u][m] \in Runners /\ runner[held[u][m]] # NoRunner
      BY <1>10, HeldFacts
  <2>2. ~\E n \in fresh : new[n] = held[u][m]
      BY <1>3, <2>1
  <2>3. ~\E n \in gone : held[t][n] = held[u][m]
      BY <1>3, <1>10, HeldFacts
  <2>4. u = t => m \notin fresh
      BY <1>10 DEF fresh
  <2>. QED
      BY <1>4, <1>7, <1>10, <2>1, <2>2, <2>3, <2>4
<1>11. RunnersFollowHolder'
  <2>1. ASSUME NEW u \in Rts, NEW m \in Machines, held'[u][m] # None
        PROVE  LET r == runner'[held'[u][m]] IN
               /\ r.acct = owner[u] /\ r.machine = m
               /\ running[u] => r.status # "stopping"
               /\ ~running[u] => r.status \in {"stopping", "ended"} \/ r.late
    <3>1. CASE u = t /\ m \in fresh
        BY <1>4, <1>5, <3>1
    <3>2. CASE ~(u = t /\ m \in fresh)
      <4>1. held[u][m] # None /\ ~(u = t /\ m \in gone)
          BY <1>4, <2>1, <3>2
      <4>. QED
          BY <1>10, <4>1 DEF IInv, RunnersFollowHolder
    <3>. QED
        BY <3>1, <3>2
  <2>2. ASSUME NEW w \in Workers, NEW r \in work[w].waits
        PROVE  runner'[r].acct = work[w].acct /\ runner'[r].status \notin {"live", "leaving"}
    <3>1. /\ r \in Runners /\ runner[r].acct = work[w].acct /\ runner[r] # NoRunner
          /\ runner[r].status \notin {"live", "leaving"} /\ Awaited(r)
        BY AwaitedFacts DEF Unasked, Awaited
    <3>2. ~\E n \in fresh : new[n] = r
        BY <1>3, <3>1
    <3>3. CASE \E m \in gone : held[t][m] = r
        BY <1>6, <3>1, <3>3
    <3>4. CASE ~\E m \in gone : held[t][m] = r
        BY <1>7, <3>1, <3>2, <3>4
    <3>. QED
        BY <3>3, <3>4
  <2>. QED
      BY <2>1, <2>2 DEF RunnersFollowHolder, Unasked
<1>12. OrphansAreLate'
  <2> SUFFICES ASSUME NEW r \in Runners, runner'[r].status \in {"live", "leaving"}, ~runner'[r].late
               PROVE  \E a \in Accounts, m \in Machines : runtimes[a] \in Rts /\ held'[runtimes[a]][m] = r
      BY <1>2, NamesAssumption DEF OrphansAreLate, HeldBy, Unasked
  <2>1. CASE \E m \in fresh : new[m] = r
      BY <1>2, <1>3, <1>4, <2>1
  <2>2. CASE ~\E m \in fresh : new[m] = r
    <3>1. ~\E m \in gone : held[t][m] = r
        BY <1>6
    <3>2. runner'[r] = runner[r]
        BY <1>7, <2>2, <3>1
    <3>3. PICK a \in Accounts, m \in Machines : runtimes[a] \in Rts /\ held[runtimes[a]][m] = r
        BY <3>2, OrphanFacts DEF Unasked
    <3>. QED
        BY <1>2, <1>10, <3>1, <3>3
  <2>. QED
      BY <2>1, <2>2
<1>. QED
    BY <1>4, <1>8, <1>9, <1>11, <1>12

(* Every step of a top task keeps the invariant. *)
LEMMA TopKeepsIInv ==
    ASSUME IInv, NEW t \in Rts, TopStep(t)
    PROVE  IInv'
<1> DEFINE Same == UNCHANGED <<db, process, work, runtimes, owner, running>>
<1>1. /\ listed \in [Rts -> SUBSET Machines]
      /\ held \in [Rts -> [Machines -> Runners \cup {None}]]
      /\ top \in [Rts -> {"initial", "sleeping", "refreshing", "cancelled", "ended"}]
      /\ runner \in [Runners -> RunnerObject] /\ running \in [Rts -> BOOLEAN]
    BY DEF IInv, TypeOK, RunnerObject
<1>2. /\ \A u \in Rts : owner[u] = None => top[u] = "ended" /\ held[u] = NothingHeld
      /\ \A u \in Rts : running[u] => top[u] \in {"initial", "sleeping", "refreshing"}
    BY DEF IInv, RuntimesAreOwned, TopLive
<1>3. ASSUME NEW at \in {"sleeping", "refreshing", "ended", "cancelled"}, Same, top[t] # "ended",
             listed' \in [Rts -> SUBSET Machines], top' = [top EXCEPT ![t] = at],
             running[t] => at \in {"sleeping", "refreshing"},
             UNCHANGED <<held, runner>> \/ \E ms \in SUBSET Machines : Reconcile(t, ms)
      PROVE  IInv'
  <2>1. /\ top' \in [Rts -> {"initial", "sleeping", "refreshing", "cancelled", "ended"}]
        /\ \A u \in Rts : owner[u] = None => top'[u] = "ended"
        /\ \A u \in Rts : running[u] => top'[u] \in {"initial", "sleeping", "refreshing"}
      BY <1>1, <1>2, <1>3
  <2>2. /\ held' \in [Rts -> [Machines -> Runners \cup {None}]]
        /\ runner' \in [Runners -> RunnerObject]
        /\ \A u \in Rts : owner[u] = None => held'[u] = NothingHeld
        /\ RunnersFollowHolder' /\ OrphansAreLate'
    <3>1. CASE UNCHANGED <<held, runner>>
        BY <1>1, <1>2, <1>3, <3>1
        DEF IInv, RunnersFollowHolder, OrphansAreLate, HeldBy, Unasked
    <3>2. ASSUME NEW ms \in SUBSET Machines, Reconcile(t, ms)
          PROVE  <2>2!1 /\ <2>2!2 /\ <2>2!3 /\ <2>2!4
        BY <1>3, <3>2, ReconcileFacts DEF TopLive
    <3>. QED
        BY <1>3, <3>1, <3>2
  <2>. QED
      BY <1>3, <2>1, <2>2, RuntimeStep
<1> DEFINE at == IF running[t] THEN "sleeping" ELSE "ended"
<1>4. /\ at \in {"sleeping", "refreshing", "ended", "cancelled"}
      /\ running[t] => at \in {"sleeping", "refreshing"}
      /\ LoopAgain(t) => top' = [top EXCEPT ![t] = at]
    BY DEF LoopAgain
<1> HIDE DEF at
<1>5. CASE InitialDelayOver(t)
    BY <1>1, <1>3, <1>4, <1>5 DEF InitialDelayOver
<1>6. CASE RefreshDue(t)
  <2>1. PICK next \in {"refreshing", "ended"} :
            top' = [top EXCEPT ![t] = next] /\ (running[t] => next = "refreshing")
      BY <1>6 DEF RefreshDue
  <2>. QED
      BY <1>1, <1>3, <1>6, <2>1 DEF RefreshDue
<1>7. CASE RefreshOk(t)
  <2>1. PICK ms \in SUBSET Machines : listed' = [listed EXCEPT ![t] = ms] /\ Reconcile(t, ms)
      BY <1>7 DEF RefreshOk
  <2>2. listed' \in [Rts -> SUBSET Machines]
      BY <1>1, <2>1
  <2>. QED
      BY <1>3, <1>4, <1>7, <2>1, <2>2 DEF RefreshOk
<1>8. CASE RefreshFails(t)
  <2>1. listed' \in [Rts -> SUBSET Machines]
      BY <1>1, <1>8 DEF RefreshFails
  <2>. QED
      BY <1>3, <1>4, <1>8, <2>1 DEF RefreshFails
<1>9. CASE TopCancelled(t)
  <2>1. ~running[t]
      BY <1>2, <1>9 DEF TopCancelled
  <2>. QED
      BY <1>1, <1>3, <1>9, <2>1 DEF TopCancelled
<1>. QED
    BY <1>5, <1>6, <1>7, <1>8, <1>9 DEF TopStep

(* A runner whose task ends is forgotten if nobody refers to it. *)
LEMMA EndsKeepsIInv ==
    ASSUME IInv, NEW r \in Runners, Ends(r)
    PROVE  IInv'
<1>1. UNCHANGED <<db, process, work, runtimes, owner, running, listed, held, top>>
    BY DEF Ends, rtVars
<1>2. /\ listed \in [Rts -> SUBSET Machines]
      /\ held \in [Rts -> [Machines -> Runners \cup {None}]]
      /\ top \in [Rts -> {"initial", "sleeping", "refreshing", "cancelled", "ended"}]
      /\ runner \in [Runners -> RunnerObject]
    BY DEF IInv, TypeOK, RunnerObject
<1>3. /\ runner' \in [Runners -> RunnerObject] /\ runner'[r].status = "ended"
      /\ Held(r) \/ Awaited(r) =>
            /\ runner'[r].acct = runner[r].acct /\ runner'[r].machine = runner[r].machine
            /\ runner'[r].late = runner[r].late
      /\ \A q \in Runners : q # r => runner'[q] = runner[q]
  <2> DEFINE next == IF Held(r) \/ Awaited(r) THEN [runner[r] EXCEPT !.status = "ended"] ELSE NoRunner
  <2>1. /\ next \in RunnerObject /\ next.status = "ended"
        /\ Held(r) \/ Awaited(r) =>
              /\ next.acct = runner[r].acct /\ next.machine = runner[r].machine
              /\ next.late = runner[r].late
      BY <1>2, Blanks DEF RunnerObject
  <2>2. runner' = [runner EXCEPT ![r] = next]
      BY DEF Ends
  <2> HIDE DEF next
  <2>. QED
      BY <1>2, <2>1, <2>2
<1>4. \A t \in Rts, m \in Machines : held[t][m] = r => Held(r)
    BY HeldFacts, NamesAssumption DEF Held, HeldBy
<1>5. RunnersFollowHolder'
  <2>1. ASSUME NEW t \in Rts, NEW m \in Machines, held[t][m] # None
        PROVE  LET q == runner'[held[t][m]] IN
               /\ q.acct = owner[t] /\ q.machine = m
               /\ running[t] => q.status # "stopping"
               /\ ~running[t] => q.status \in {"stopping", "ended"} \/ q.late
      BY <1>3, <1>4, <2>1, HeldFacts DEF IInv, RunnersFollowHolder
  <2>2. ASSUME NEW w \in Workers, NEW q \in work[w].waits
        PROVE  runner'[q].acct = work[w].acct /\ runner'[q].status \notin {"live", "leaving"}
      BY <1>3, AwaitedFacts DEF Awaited, Unasked
  <2>. QED
      BY <1>1, <2>1, <2>2 DEF RunnersFollowHolder, Unasked
<1>6. OrphansAreLate'
    BY <1>1, <1>3 DEF IInv, OrphansAreLate, HeldBy, Unasked
<1>7. /\ \A u \in Rts : owner[u] = None => top[u] = "ended" /\ held[u] = NothingHeld
      /\ \A u \in Rts : running[u] => top[u] \in {"initial", "sleeping", "refreshing"}
    BY DEF IInv, RuntimesAreOwned, TopLive
<1>. QED
    BY <1>1, <1>2, <1>3, <1>5, <1>6, <1>7, RuntimeStep

(* A trigger leaves a runner that was live unasked and held. *)
LEMMA TriggerKeepsIInv ==
    ASSUME IInv, NEW a \in Accounts, Trigger(a)
    PROVE  IInv'
<1>1. UNCHANGED <<db, process, work, runtimes, owner, running, listed, held, top>>
    BY DEF Trigger, rtVars
<1>2. /\ listed \in [Rts -> SUBSET Machines]
      /\ held \in [Rts -> [Machines -> Runners \cup {None}]]
      /\ top \in [Rts -> {"initial", "sleeping", "refreshing", "cancelled", "ended"}]
      /\ runner \in [Runners -> RunnerObject]
    BY DEF IInv, TypeOK, RunnerObject
<1>3. \A r \in Runners :
          /\ runner'[r] \in RunnerObject
          /\ \/ runner'[r] = runner[r]
             \/ /\ runner[r].status = "live" /\ runner'[r].status = "leaving"
                /\ runner'[r].acct = runner[r].acct /\ runner'[r].machine = runner[r].machine
                /\ runner'[r].late = runner[r].late
  <2> SUFFICES ASSUME NEW r \in Runners
               PROVE  /\ runner'[r] \in RunnerObject
                      /\ \/ runner'[r] = runner[r]
                         \/ /\ runner[r].status = "live" /\ runner'[r].status = "leaving"
                            /\ runner'[r].acct = runner[r].acct
                            /\ runner'[r].machine = runner[r].machine
                            /\ runner'[r].late = runner[r].late
      OBVIOUS
  <2>1. \/ runner'[r] = runner[r]
        \/ runner[r].status = "live" /\ runner'[r] = [runner[r] EXCEPT !.status = "leaving"]
      BY DEF Trigger
  <2>. QED
      BY <1>2, <2>1 DEF RunnerObject
<1>4. runner' \in [Runners -> RunnerObject]
    BY <1>3 DEF Trigger
<1>5. RunnersFollowHolder'
  <2>1. ASSUME NEW t \in Rts, NEW m \in Machines, held[t][m] # None
        PROVE  LET q == runner'[held[t][m]] IN
               /\ q.acct = owner[t] /\ q.machine = m
               /\ running[t] => q.status # "stopping"
               /\ ~running[t] => q.status \in {"stopping", "ended"} \/ q.late
      BY <1>3, <2>1, HeldFacts DEF IInv, RunnersFollowHolder
  <2>2. ASSUME NEW w \in Workers, NEW q \in work[w].waits
        PROVE  runner'[q].acct = work[w].acct /\ runner'[q].status \notin {"live", "leaving"}
      BY <1>3, AwaitedFacts DEF Unasked
  <2>. QED
      BY <1>1, <2>1, <2>2 DEF RunnersFollowHolder, Unasked
<1>6. OrphansAreLate'
  <2>1. \A r \in Runners : runner'[r].status \in {"live", "leaving"} /\ ~runner'[r].late =>
            Unasked(r) /\ ~runner[r].late
      BY <1>3 DEF Unasked
  <2>. QED
      BY <1>1, <2>1 DEF IInv, OrphansAreLate, HeldBy, Unasked
<1>7. /\ \A u \in Rts : owner[u] = None => top[u] = "ended" /\ held[u] = NothingHeld
      /\ \A u \in Rts : running[u] => top[u] \in {"initial", "sleeping", "refreshing"}
    BY DEF IInv, RuntimesAreOwned, TopLive
<1>. QED
    BY <1>1, <1>2, <1>4, <1>5, <1>6, <1>7, RuntimeStep

-----------------------------------------------------------------------------
(* The steps of whoever works on an account.                               *)

(* What JobsFit asks of one worker's job, given who is registered and what is
   enabled.                                                                *)
Fits(w, j, registered, runs, served) ==
    /\ j.pc = "idle" => j = Idle
    /\ w \in Clients /\ j.pc # "idle" => server = "serving" /\ j.op \in {"start", "stop", "delete"}
    /\ w = Lifespan /\ j.pc # "idle" =>
          \/ server = "booting" /\ j.op = "boot" /\ j.pc = "login"
          \/ server = "shutting" /\ j.op = "shutdown" /\ j.pc \in {"gather", "awaitTop"}
    /\ j.pc # "idle" => j.acct \in Accounts
    /\ j.pc = "login" => j.op \in {"start", "boot"} /\ registered[j.acct] = None
    /\ j.pc \in {"gather", "awaitTop"} =>
          j.rt \in Rts /\ registered[j.acct] = j.rt /\ ~runs[j.rt]
    /\ j.pc \notin {"idle", "queued"} /\ j.op \in {"start", "boot"} => j.acct \in served
    /\ j.pc # "gather" => j.waits = {}

LEMMA JobsFitEach ==
    JobsFit <=> \A w \in Workers : Fits(w, work[w], runtimes, running, enabled \cap known)
BY NamesAssumption DEF JobsFit, Fits, Active, Workers

LEMMA JobsFitEachNext ==
    ASSUME server' = server
    PROVE  JobsFit' <=> \A w \in Workers : Fits(w, work'[w], runtimes', running', enabled' \cap known')
BY NamesAssumption DEF JobsFit, Fits, Active, Workers

(* A step of a worker that no other is at work beside: it may register, enable
   and make known its own account only.                                    *)
LEMMA WorkerStep ==
    ASSUME IInv, NEW w \in Workers, NEW j \in Job, NEW own \in Accounts,
           work' = [work EXCEPT ![w] = j], server' = server,
           \A v \in Workers : v # w => ~Active(v),
           Active(w) => work[w].acct = own,
           j.pc \notin {"idle", "queued"} => j.acct = own,
           Fits(w, j, runtimes', running', enabled' \cap known'),
           \A a \in Accounts : a # own =>
               /\ runtimes'[a] = runtimes[a]
               /\ a \in enabled' \cap known' <=> a \in enabled \cap known,
           runtimes'[own] # None => j.pc \notin {"idle", "queued"} \/ own \in enabled' \cap known'
    PROVE  work' \in [Workers -> Job] /\ JobsFit' /\ ServedOnlyIfEnabled'
<1>1. work \in [Workers -> Job]
    BY DEF IInv, TypeOK, Job
<1>2. /\ work' \in [Workers -> Job] /\ work'[w] = j
      /\ \A v \in Workers : v # w => work'[v] = work[v]
    BY <1>1
<1>3. ASSUME NEW v \in Workers, v # w
      PROVE  Fits(v, work'[v], runtimes', running', enabled' \cap known')
  <2>1. Fits(v, work[v], runtimes, running, enabled \cap known)
      BY JobsFitEach DEF IInv
  <2>2. work'[v] = work[v] /\ work[v].pc \in {"idle", "queued"}
      BY <1>2, <1>3 DEF Active
  <2>. QED
      BY <2>1, <2>2 DEF Fits
<1>4. JobsFit'
    BY <1>2, <1>3, JobsFitEachNext
<1>5. ServedOnlyIfEnabled'
  <2> SUFFICES ASSUME NEW a \in Accounts, runtimes'[a] # None,
                      \A v \in Workers : ~(work'[v].acct = a /\ work'[v].pc \notin {"idle", "queued"})
               PROVE  a \in enabled' \cap known'
      BY DEF ServedOnlyIfEnabled, Busy
  <2>1. CASE a = own
      BY <1>2, <2>1
  <2>2. CASE a # own
    <3>1. ~Busy(a)
        BY <2>2 DEF Busy, Active
    <3>. QED
        BY <2>2, <3>1 DEF IInv, ServedOnlyIfEnabled
  <2>. QED
      BY <2>1, <2>2
<1>. QED
    BY <1>2, <1>4, <1>5

(* The lock stays with a holder that goes on, and the lifespan takes none. *)
LEMMA LockKept ==
    ASSUME IInv, NEW w \in Workers, NEW j \in Job, work' = [work EXCEPT ![w] = j], lock' = lock,
           w = Lifespan \/ (Holder(w) /\ j.pc # "idle")
    PROVE  LockFollowsWork'
<1>1. work \in [Workers -> Job] /\ \A i \in DOMAIN lock : lock[i] \in Clients
    BY DEF IInv, TypeOK, Job
<1>2. work'[w] = j /\ \A v \in Workers : v # w => work'[v] = work[v]
    BY <1>1
<1>3. Lifespan \notin Clients /\ Clients \subseteq Workers
    BY NamesAssumption DEF Workers
<1>4. \A i \in DOMAIN lock : work'[lock[i]].pc # "idle"
    BY <1>1, <1>2, <1>3 DEF IInv, LockFollowsWork
<1>5. \A c \in Clients : work'[c].pc \notin {"idle", "queued"} => Holder(c)
    BY <1>2, <1>3 DEF IInv, LockFollowsWork, Active
<1>. QED
    BY <1>4, <1>5 DEF LockFollowsWork, Active, Holder

(* A request that returns is the first of the queue, and leaves it. *)
LEMMA LockReleased ==
    ASSUME IInv, NEW c \in Clients, Holder(c), lock' = Tail(lock),
           work' = [work EXCEPT ![c] = Idle]
    PROVE  /\ lock' \in Seq(Clients) /\ \A i, k \in DOMAIN lock' : lock'[i] = lock'[k] => i = k
           /\ LockFollowsWork'
<1>1. /\ lock \in Seq(Clients) /\ lock # <<>> /\ lock[1] = c
      /\ \A i, k \in DOMAIN lock : lock[i] = lock[k] => i = k
    BY DEF IInv, TypeOK, Holder
<1>2. /\ Tail(lock) \in Seq(Clients) /\ Len(lock) \in Nat \ {0}
      /\ Len(Tail(lock)) = Len(lock) - 1
      /\ \A i \in 1..Len(Tail(lock)) : Tail(lock)[i] = lock[i + 1]
    BY <1>1, HeadTailProperties, LenProperties
<1>3. \A i \in DOMAIN lock' : i + 1 \in DOMAIN lock /\ lock'[i] = lock[i + 1] /\ i \in Nat
    BY <1>1, <1>2, LenProperties
<1>4. \A i \in DOMAIN lock' : lock'[i] # c
    BY <1>1, <1>2, <1>3
<1>5. \A i, k \in DOMAIN lock' : lock'[i] = lock'[k] => i = k
    BY <1>1, <1>3
<1>6. work \in [Workers -> Job] /\ Clients \subseteq Workers
    BY DEF IInv, TypeOK, Job, Workers
<1>7. \A i \in DOMAIN lock' : work'[lock'[i]].pc # "idle"
  <2>1. \A i \in DOMAIN lock' : lock'[i] \in Clients /\ work[lock'[i]].pc # "idle"
      BY <1>1, <1>3 DEF IInv, LockFollowsWork
  <2>. QED
      BY <1>4, <1>6, <2>1
<1>8. \A d \in Clients : work'[d].pc \in {"idle", "queued"}
  <2>1. \A d \in Clients : d # c => work'[d] = work[d] /\ ~Active(d)
      BY <1>1, <1>6 DEF IInv, LockFollowsWork, Holder
  <2>2. work'[c] = Idle
      BY <1>6
  <2>. QED
      BY <2>1, <2>2, Blanks DEF Active
<1>. QED
    BY <1>2, <1>5, <1>7, <1>8 DEF LockFollowsWork, Active

(* Who finishes leaves the lock, and a delete its account. *)
LEMMA FinishFacts ==
    ASSUME IInv, NEW w \in Workers, Finish(w), w \in Clients => Holder(w)
    PROVE  /\ work' = [work EXCEPT ![w] = Idle]
           /\ lock' \in Seq(Clients) /\ \A i, k \in DOMAIN lock' : lock'[i] = lock'[k] => i = k
           /\ LockFollowsWork'
           /\ known' \subseteq known
           /\ work[w].op # "delete" => known' = known
           /\ \A a \in Accounts : a # work[w].acct => (a \in known' <=> a \in known)
<1>1. work' = [work EXCEPT ![w] = Idle]
    BY DEF Finish
<1>2. CASE w \in Clients
    BY <1>1, <1>2, LockReleased DEF Finish
<1>3. CASE w = Lifespan
  <2>1. lock' = lock
      BY <1>3, NamesAssumption DEF Finish
  <2>2. LockFollowsWork'
      BY <1>1, <1>3, <2>1, Blanks, LockKept
  <2>. QED
      BY <1>1, <2>1, <2>2 DEF Finish, IInv, TypeOK
<1>4. /\ known' \subseteq known
      /\ work[w].op # "delete" => known' = known
      /\ \A a \in Accounts : a # work[w].acct => (a \in known' <=> a \in known)
    BY DEF Finish
<1>. QED
    BY <1>1, <1>2, <1>3, <1>4 DEF Workers

(* The holder of the lock works alone, on a server that serves. *)
LEMMA HolderFacts ==
    ASSUME IInv, NEW c \in Clients, Holder(c)
    PROVE  /\ server = "serving" /\ todo = {}
           /\ work[c] \in Job /\ work[c].acct \in Accounts
           /\ \A v \in Workers : v # c => ~Active(v) /\ work[v].waits = {}
<1>1. work[c].pc # "idle"
  <2>1. lock \in Seq(Clients) /\ lock # <<>> /\ lock[1] = c
      BY DEF IInv, TypeOK, Holder
  <2>2. 1 \in DOMAIN lock
      BY <2>1, LenProperties
  <2>. QED
      BY <2>1, <2>2 DEF IInv, LockFollowsWork
<1>2. Clients \subseteq Workers /\ Lifespan \in Workers
    BY DEF Workers
<1>3. server = "serving" /\ todo = {} /\ work[c] \in Job /\ work[c].acct \in Accounts
    BY <1>1, <1>2 DEF IInv, TypeOK, JobsFit, TodoFits, Job
<1>4. \A d \in Clients : d # c => ~Active(d)
    BY DEF IInv, LockFollowsWork, Holder
<1>5. ~Active(Lifespan)
    BY <1>3 DEF IInv, JobsFit, Active
<1>6. \A v \in Workers : ~Active(v) => work[v].waits = {}
    BY DEF IInv, JobsFit, Active
<1>. QED
    BY <1>3, <1>4, <1>5, <1>6 DEF Workers

(* Before and after the server serves, no request is under way. *)
LEMMA LifespanFacts ==
    ASSUME IInv, server # "serving"
    PROVE  /\ Lifespan \in Workers
           /\ \A v \in Workers : v # Lifespan =>
                 work[v] = Idle /\ ~Active(v) /\ work[v].waits = {}
<1>1. \A c \in Clients : work[c] = Idle
    BY DEF IInv, JobsFit, Workers
<1>. QED
    BY <1>1, Blanks DEF Workers, Active

(* A stop takes its runtime over: no longer running, its runners asked and
   waited for, or its top task cancelled at once.                          *)
LEMMA StopBeginsFacts ==
    ASSUME IInv, NEW w \in Workers, NEW job \in Job, NEW t \in Rts, StopBegins(w, job, t),
           job.waits = {}, job.acct \in Accounts, runtimes[job.acct] = t, runtimes' = runtimes,
           \A v \in Workers : v # w => work[v].waits = {}
    PROVE  /\ \E j \in Job :
                 /\ work' = [work EXCEPT ![w] = j]
                 /\ j.op = job.op /\ j.acct = job.acct /\ j.rt = t
                 /\ j.pc \in {"gather", "awaitTop"} /\ (j.pc # "gather" => j.waits = {})
           /\ running' = [running EXCEPT ![t] = FALSE] /\ UNCHANGED <<owner, listed, held>>
           /\ top' \in [Rts -> {"initial", "sleeping", "refreshing", "cancelled", "ended"}]
           /\ runner' \in [Runners -> RunnerObject]
           /\ RuntimesAreOwned' /\ RunnersFollowHolder' /\ OrphansAreLate'
<1>1. /\ work \in [Workers -> Job] /\ runner \in [Runners -> RunnerObject]
      /\ held \in [Rts -> [Machines -> Runners \cup {None}]]
      /\ top \in [Rts -> {"initial", "sleeping", "refreshing", "cancelled", "ended"}]
      /\ running \in [Rts -> BOOLEAN] /\ None \notin Accounts
    BY NamesAssumption DEF IInv, TypeOK, Job, RunnerObject
<1>2. running' = [running EXCEPT ![t] = FALSE] /\ UNCHANGED <<owner, listed, held>>
    BY DEF StopBegins
<1>3. owner[t] = job.acct /\ owner[t] # None /\ HeldBy(t) \subseteq Runners
    BY <1>1 DEF IInv, RuntimesAreOwned, HeldBy
<1> DEFINE Then(j) == /\ work' = [work EXCEPT ![w] = j]
                      /\ j.op = job.op /\ j.acct = job.acct /\ j.rt = t
                      /\ j.pc \in {"gather", "awaitTop"} /\ j.waits \subseteq HeldBy(t)
                      /\ (j.pc # "gather" => j.waits = {})
<1>4. /\ \A r \in Runners : runner'[r] = runner[r] \/ (r \in HeldBy(t) /\ runner'[r] = Asked(HeldBy(t))[r])
      /\ \A r \in HeldBy(t) : runner'[r] = Asked(HeldBy(t))[r]
      /\ runner' \in [Runners -> RunnerObject]
      /\ top' \in [Rts -> {"initial", "sleeping", "refreshing", "cancelled", "ended"}]
      /\ \A u \in Rts : u # t => top'[u] = top[u]
      /\ \E j \in Job : Then(j)
  <2>1. CASE HeldBy(t) # {}
    <3> DEFINE j == [job EXCEPT !.pc = "gather", !.rt = t, !.waits = HeldBy(t)]
    <3>1. work' = [work EXCEPT ![w] = j] /\ runner' = Asked(HeldBy(t)) /\ top' = top
        BY <2>1 DEF StopBegins
    <3>2. j \in Job /\ Then(j)
        BY <1>3, <3>1 DEF Job
    <3>3. \A r \in Runners : runner'[r] \in RunnerObject
                             /\ (r \notin HeldBy(t) => runner'[r] = runner[r])
        BY <3>1, AskedFacts DEF IInv
    <3>4. runner' \in [Runners -> RunnerObject]
        BY <3>1, <3>3 DEF Asked
    <3>. QED
        BY <1>1, <1>3, <3>1, <3>2, <3>3, <3>4
  <2>2. CASE HeldBy(t) = {}
    <3> DEFINE j == [job EXCEPT !.pc = "awaitTop", !.rt = t]
               at == IF TopLive(t) THEN "cancelled" ELSE top[t]
    <3>1. work' = [work EXCEPT ![w] = j] /\ runner' = runner /\ top' = [top EXCEPT ![t] = at]
        BY <2>2 DEF StopBegins
    <3>2. j \in Job /\ Then(j)
        BY <3>1 DEF Job
    <3>3. at \in {"initial", "sleeping", "refreshing", "cancelled", "ended"}
        BY <1>1
    <3> HIDE DEF at, j
    <3>. QED
        BY <1>1, <2>2, <3>1, <3>2, <3>3
  <2>. QED
      BY <2>1, <2>2
<1>5. \A r \in HeldBy(t) : /\ runner'[r].status \in {"stopping", "ended"}
                           /\ runner'[r].acct = runner[r].acct /\ runner'[r].machine = runner[r].machine
    BY <1>3, <1>4, AskedFacts DEF IInv
<1>6. RuntimesAreOwned'
  <2>1. /\ \A a \in Accounts, u \in Rts : runtimes[a] = u <=> owner[u] = a
        /\ \A u \in Rts : owner[u] = None => top[u] = "ended" /\ ~running[u] /\ held[u] = NothingHeld
        /\ \A u \in Rts : running[u] => top[u] \in {"initial", "sleeping", "refreshing"}
      BY DEF IInv, RuntimesAreOwned, TopLive
  <2>2. ~running'[t] /\ \A u \in Rts : u # t => running'[u] = running[u]
      BY <1>1, <1>2
  <2>3. \A u \in Rts : running'[u] => top'[u] \in {"initial", "sleeping", "refreshing"}
      BY <1>4, <2>1, <2>2
  <2>4. \A u \in Rts : owner[u] = None => top'[u] = "ended" /\ ~running'[u] /\ held[u] = NothingHeld
      BY <1>3, <1>4, <2>1, <2>2
  <2>. QED
      BY <1>2, <2>1, <2>3, <2>4 DEF RuntimesAreOwned, TopLive
<1>7. RunnersFollowHolder'
  <2>1. ASSUME NEW u \in Rts, NEW m \in Machines, held[u][m] # None
        PROVE  LET r == runner'[held[u][m]] IN
               /\ r.acct = owner[u] /\ r.machine = m
               /\ running'[u] => r.status # "stopping"
               /\ ~running'[u] => r.status \in {"stopping", "ended"} \/ r.late
    <3>1. held[u][m] \in Runners
        BY <2>1, HeldFacts
    <3>2. /\ runner[held[u][m]].acct = owner[u] /\ runner[held[u][m]].machine = m
          /\ running[u] => runner[held[u][m]].status # "stopping"
          /\ ~running[u] => runner[held[u][m]].status \in {"stopping", "ended"} \/ runner[held[u][m]].late
        BY <2>1 DEF IInv, RunnersFollowHolder
    <3>3. CASE u = t
      <4>1. held[u][m] \in HeldBy(t) /\ ~running'[u]
          BY <1>1, <1>2, <2>1, <3>3 DEF HeldBy
      <4>. QED
          BY <1>5, <3>2, <4>1
    <3>4. CASE u # t
      <4>1. held[u][m] \notin HeldBy(t)
          BY <2>1, <3>4, HeldFacts DEF HeldBy
      <4>2. running'[u] = running[u] /\ runner'[held[u][m]] = runner[held[u][m]]
          BY <1>1, <1>2, <1>4, <3>1, <3>4, <4>1
      <4>. QED
          BY <3>2, <4>2
    <3>. QED
        BY <3>3, <3>4
  <2>2. PICK j \in Job : Then(j)
      BY <1>4
  <2>3. \A v \in Workers : v # w => work'[v].waits = {}
      BY <1>1, <2>2
  <2>4. work'[w].acct = owner[t] /\ work'[w].waits \subseteq HeldBy(t)
      BY <1>1, <1>3, <2>2
  <2>5. \A r \in HeldBy(t) : runner[r].acct = owner[t]
      BY DEF IInv, RunnersFollowHolder, HeldBy
  <2>6. ASSUME NEW v \in Workers, NEW r \in work'[v].waits
        PROVE  runner'[r].acct = work'[v].acct /\ runner'[r].status \notin {"live", "leaving"}
      BY <1>5, <2>3, <2>4, <2>5, <2>6
  <2>. QED
      BY <1>2, <2>1, <2>6 DEF RunnersFollowHolder, Unasked
<1>8. OrphansAreLate'
  <2>1. ASSUME NEW r \in Runners, runner'[r].status \in {"live", "leaving"}, ~runner'[r].late
        PROVE  Unasked(r) /\ ~runner[r].late
      BY <1>4, <1>5, <2>1 DEF Unasked
  <2>. QED
      BY <1>2, <2>1 DEF IInv, OrphansAreLate, HeldBy, Unasked
<1>. QED
    BY <1>2, <1>4, <1>6, <1>7, <1>8

(* Taking a runtime over keeps the invariant, whoever does it. *)
LEMMA TakeOverKeepsIInv ==
    ASSUME IInv, NEW w \in Workers, NEW job \in Job, NEW t \in Rts, StopBegins(w, job, t),
           job.waits = {}, job.acct \in Accounts, runtimes[job.acct] = t,
           \A v \in Workers : v # w => ~Active(v) /\ work[v].waits = {}, ~Active(w),
           UNCHANGED <<known, server, lock, runtimes>>,
           enabled' \subseteq Accounts, todo' \subseteq Accounts,
           \A a \in Accounts : a # job.acct => (a \in enabled' <=> a \in enabled),
           job.op = "start" => job.acct \in enabled' \cap known,
           \/ w \in Clients /\ Holder(w) /\ job.op \in {"start", "stop", "delete"} /\ todo' = todo
           \/ w = Lifespan /\ server = "shutting" /\ job.op = "shutdown"
              /\ todo' = todo \ {job.acct}
    PROVE  IInv'
<1>1. /\ running' = [running EXCEPT ![t] = FALSE] /\ UNCHANGED <<owner, listed, held>>
      /\ top' \in [Rts -> {"initial", "sleeping", "refreshing", "cancelled", "ended"}]
      /\ runner' \in [Runners -> RunnerObject]
      /\ RuntimesAreOwned' /\ RunnersFollowHolder' /\ OrphansAreLate'
    BY StopBeginsFacts
<1>2. PICK j \in Job :
          /\ work' = [work EXCEPT ![w] = j]
          /\ j.op = job.op /\ j.acct = job.acct /\ j.rt = t
          /\ j.pc \in {"gather", "awaitTop"} /\ (j.pc # "gather" => j.waits = {})
    BY StopBeginsFacts
<1>3. work \in [Workers -> Job] /\ running \in [Rts -> BOOLEAN] /\ Lifespan \notin Clients
    BY NamesAssumption DEF IInv, TypeOK, Job
<1>4. w \in Clients => server = "serving" /\ todo = {}
    BY <1>3, HolderFacts
<1>5. ~running'[t]
    BY <1>1, <1>3
<1>6. Fits(w, j, runtimes', running', enabled' \cap known')
    BY <1>2, <1>3, <1>4, <1>5 DEF Fits
<1>7. work' \in [Workers -> Job] /\ JobsFit' /\ ServedOnlyIfEnabled'
  <2>1. /\ \A a \in Accounts : a # job.acct =>
               runtimes'[a] = runtimes[a] /\ (a \in enabled' \cap known' <=> a \in enabled \cap known)
        /\ j.pc \notin {"idle", "queued"} /\ j.acct = job.acct
      BY <1>2
  <2>. QED
      BY <1>2, <1>6, <2>1, WorkerStep
<1>8. LockFollowsWork'
    BY <1>2, LockKept
<1>9. TypeOK'
    BY <1>1, <1>3, <1>7 DEF IInv, TypeOK, Job, RunnerObject
<1>10. TodoFits'
  <2>1. CASE w \in Clients
    <3>1. todo' = {} /\ server' = "serving"
        BY <1>3, <1>4, <2>1
    <3>. QED
        BY <3>1 DEF TodoFits
  <2>2. CASE w = Lifespan
    <3>1. server' = "shutting" /\ todo' = todo \ {job.acct} /\ work'[Lifespan].acct = job.acct
        BY <1>2, <1>3, <2>2
    <3>2. work[Lifespan] = Idle
        BY <2>2, <3>1 DEF IInv, JobsFit, Active
    <3>3. \A a \in Accounts : runtimes[a] # None => a \in todo
        BY <2>2, <3>1, <3>2, Blanks, NamesAssumption DEF IInv, TodoFits
    <3>4. \A a \in todo : runtimes[a] # None
        BY <2>2, <3>1 DEF IInv, TodoFits
    <3>. QED
        BY <3>1, <3>3, <3>4 DEF TodoFits
  <2>. QED
      BY <2>1, <2>2
<1>. QED
    BY <1>1, <1>7, <1>8, <1>9, <1>10 DEF IInv

(* A request that returns before it registered anything. *)
LEMMA ReturnKeepsIInv ==
    ASSUME IInv, NEW w \in Workers, Finish(w), w \in Clients => Holder(w),
           w = Lifespan => server = "booting" /\ work[w].op = "boot" /\ enabled' = enabled,
           UNCHANGED <<server, todo, runtimes, rtVars, runner>>,
           work[w].acct \in Accounts, work[w].waits = {},
           \A v \in Workers : v # w => ~Active(v),
           enabled' \subseteq Accounts,
           \A a \in Accounts : a # work[w].acct => (a \in enabled' <=> a \in enabled),
           runtimes[work[w].acct] = None
    PROVE  IInv'
<1>1. /\ work' = [work EXCEPT ![w] = Idle]
      /\ lock' \in Seq(Clients) /\ \A i, k \in DOMAIN lock' : lock'[i] = lock'[k] => i = k
      /\ LockFollowsWork'
      /\ known' \subseteq known
      /\ work[w].op # "delete" => known' = known
      /\ \A a \in Accounts : a # work[w].acct => (a \in known' <=> a \in known)
    BY FinishFacts
<1>2. work' \in [Workers -> Job] /\ JobsFit' /\ ServedOnlyIfEnabled'
  <2>1. Fits(w, Idle, runtimes', running', enabled' \cap known')
      BY Blanks DEF Fits
  <2>2. /\ \A a \in Accounts : a # work[w].acct =>
               runtimes'[a] = runtimes[a] /\ (a \in enabled' \cap known' <=> a \in enabled \cap known)
        /\ runtimes'[work[w].acct] = None /\ Idle.pc = "idle"
      BY <1>1, Blanks
  <2>. QED
      BY <1>1, <2>1, <2>2, Blanks, WorkerStep
<1>3. TypeOK'
    BY <1>1, <1>2 DEF IInv, TypeOK, Job, rtVars
<1>4. RuntimesAreOwned' /\ OrphansAreLate'
    BY DEF IInv, RuntimesAreOwned, OrphansAreLate, TopLive, HeldBy, Unasked, rtVars
<1>5. work \in [Workers -> Job]
    BY DEF IInv, TypeOK, Job
<1>6. RunnersFollowHolder'
  <2>1. \A v \in Workers : work'[v].waits = {} \/ work'[v] = work[v]
      BY <1>1, <1>5, Blanks
  <2>. QED
      BY <2>1 DEF IInv, RunnersFollowHolder, Unasked, rtVars
<1>7. TodoFits'
  <2>1. CASE server = "serving"
      BY <2>1 DEF IInv, TodoFits
  <2>2. CASE server # "serving"
    <3>1. w = Lifespan /\ server = "booting" /\ enabled' = enabled /\ known' = known
        BY <1>1, <2>2, HolderFacts DEF Workers
    <3>2. work'[Lifespan].acct = None /\ None \notin todo
        BY <1>1, <1>5, <3>1, Blanks, NamesAssumption DEF IInv, TypeOK
    <3>. QED
        BY <3>1, <3>2 DEF IInv, TodoFits
  <2>. QED
      BY <2>1, <2>2
<1>. QED
    BY <1>1, <1>2, <1>3, <1>4, <1>6, <1>7 DEF IInv

-----------------------------------------------------------------------------
(* The actions of requests and of the lifespan.                            *)

(* A request joins the queue of the lock; it works on nothing yet. *)
LEMMA RequestKeepsIInv ==
    ASSUME IInv, NEW c \in Clients, NEW op \in {"start", "stop", "delete"}, NEW a \in Accounts,
           Request(c, op, a)
    PROVE  IInv'
<1> DEFINE j == [Idle EXCEPT !.op = op, !.acct = a, !.pc = "queued"]
<1>1. /\ server = "serving" /\ work[c] = Idle /\ lock' = Append(lock, c)
      /\ UNCHANGED <<db, server, todo, runtimes, rtVars, runner>>
    BY DEF Request
<1>2. work \in [Workers -> Job] /\ c \in Workers /\ Lifespan \notin Clients
    BY NamesAssumption DEF IInv, TypeOK, Job, Workers
<1>3. /\ j \in Job /\ j.pc = "queued" /\ j.op = op /\ j.acct = a /\ j.waits = {}
    BY Blanks DEF Idle, Job
<1>4. work' = [work EXCEPT ![c] = j]
    BY <1>1, <1>2 DEF Request
<1> HIDE DEF j
<1>5. work' \in [Workers -> Job] /\ work'[c] = j /\ \A v \in Workers : v # c => work'[v] = work[v]
    BY <1>2, <1>3, <1>4
<1>6. ~Active(c) /\ \A v \in Workers : work'[v].pc \notin {"idle", "queued"} <=> Active(v)
    BY <1>1, <1>3, <1>5, Blanks DEF Active
<1>7. /\ lock \in Seq(Clients) /\ lock' \in Seq(Clients) /\ Len(lock') = Len(lock) + 1
      /\ \A i \in 1..Len(lock) : lock'[i] = lock[i]
      /\ lock'[Len(lock) + 1] = c /\ DOMAIN lock' = 1..(Len(lock) + 1)
      /\ DOMAIN lock = 1..Len(lock) /\ Len(lock) \in Nat
    BY <1>1, AppendProperties, LenProperties DEF IInv, TypeOK
<1>8. \A i \in DOMAIN lock : lock[i] # c
    BY <1>1, Blanks DEF IInv, LockFollowsWork
<1>9. \A i, k \in DOMAIN lock' : lock'[i] = lock'[k] => i = k
  <2>1. \A i, k \in 1..Len(lock) : lock[i] = lock[k] => i = k
      BY <1>7 DEF IInv, TypeOK
  <2>. QED
      BY <1>7, <1>8, <2>1
<1>10. LockFollowsWork'
  <2>1. \A i \in DOMAIN lock' : work'[lock'[i]].pc # "idle"
    <3>1. \A i \in 1..Len(lock) : work'[lock'[i]].pc # "idle"
      <4>1. \A i \in 1..Len(lock) : lock'[i] \in Workers /\ lock'[i] # c /\ work[lock'[i]].pc # "idle"
          BY <1>7, <1>8 DEF IInv, LockFollowsWork, Workers
      <4>. QED
          BY <1>5, <4>1
    <3>2. work'[lock'[Len(lock) + 1]].pc # "idle"
        BY <1>3, <1>5, <1>7
    <3>. QED
        BY <1>7, <3>1, <3>2
  <2>2. ASSUME NEW d \in Clients, Active(d)
        PROVE  lock' # <<>> /\ Head(lock') = d
    <3>1. lock # <<>> /\ Head(lock) = d
        BY <2>2 DEF IInv, LockFollowsWork, Holder
    <3>2. 1 \in 1..Len(lock) /\ Head(lock) = lock[1]
        BY <1>7, <3>1, EmptySeq
    <3>3. lock' # <<>> /\ Head(lock') = lock'[1]
        BY <1>7, EmptySeq
    <3>. QED
        BY <1>7, <3>1, <3>2, <3>3
  <2>. QED
      BY <1>6, <2>1, <2>2 DEF LockFollowsWork, Active, Holder, Workers
<1>11. JobsFit'
  <2>1. UNCHANGED <<runtimes, running, enabled, known>>
      BY <1>1 DEF db, rtVars
  <2>2. \A v \in Workers : Fits(v, work'[v], runtimes, running, enabled \cap known)
    <3>1. \A v \in Workers : Fits(v, work[v], runtimes, running, enabled \cap known)
        BY JobsFitEach DEF IInv
    <3>2. Fits(c, j, runtimes, running, enabled \cap known)
        BY <1>1, <1>2, <1>3 DEF Fits
    <3>. QED
        BY <1>5, <3>1, <3>2
  <2>. QED
      BY <1>1, <2>1, <2>2, JobsFitEachNext
<1>12. TypeOK'
    BY <1>1, <1>5, <1>7, <1>9 DEF IInv, TypeOK, Job, db, rtVars
<1>13. RuntimesAreOwned' /\ OrphansAreLate' /\ TodoFits'
  <2>1. todo = {}
      BY <1>1 DEF IInv, TodoFits
  <2>. QED
      BY <1>1, <2>1
      DEF IInv, RuntimesAreOwned, OrphansAreLate, TodoFits, TopLive, HeldBy, Unasked, rtVars
<1>14. RunnersFollowHolder'
  <2>1. \A v \in Workers : work'[v].waits = {} \/ work'[v] = work[v]
      BY <1>3, <1>5
  <2>. QED
      BY <1>1, <2>1 DEF IInv, RunnersFollowHolder, Unasked, rtVars
<1>15. ServedOnlyIfEnabled'
  <2>1. \A v \in Workers : Active(v) => work'[v] = work[v]
      BY <1>5, <1>6
  <2>2. \A b \in Accounts :
            (\E v \in Workers : work'[v].acct = b /\ work'[v].pc \notin {"idle", "queued"}) <=> Busy(b)
      BY <1>6, <2>1 DEF Busy, Active
  <2>. QED
      BY <1>1, <2>2 DEF IInv, ServedOnlyIfEnabled, Busy, db
<1>. QED
    BY <1>10, <1>11, <1>12, <1>13, <1>14, <1>15 DEF IInv

(* start_for with the lock. *)
LEMMA StartAcquiresKeepsIInv ==
    ASSUME IInv, NEW c \in Clients, StartAcquires(c)
    PROVE  IInv'
<1> DEFINE a == work[c].acct
<1>1. /\ Holder(c) /\ work[c].pc = "queued" /\ work[c].op = "start"
      /\ enabled' = enabled \cup {a} /\ UNCHANGED <<server, todo, runtimes>>
    BY DEF StartAcquires
<1>2. /\ server = "serving" /\ todo = {} /\ work[c] \in Job /\ a \in Accounts
      /\ \A v \in Workers : v # c => ~Active(v) /\ work[v].waits = {}
    BY <1>1, HolderFacts
<1>3. c \in Workers /\ c # Lifespan /\ ~Active(c) /\ work[c].waits = {}
    BY <1>1, NamesAssumption DEF Workers, Active, IInv, JobsFit
<1>4. /\ enabled' \subseteq Accounts
      /\ \A b \in Accounts : b # a => (b \in enabled' <=> b \in enabled)
    BY <1>1, <1>2 DEF IInv, TypeOK
<1>5. \A v \in Workers : ~Active(v)
    BY <1>2, <1>3
<1>6. CASE a \notin known /\ Finish(c) /\ UNCHANGED <<rtVars, runner>>
  <2>1. runtimes[a] = None
      BY <1>2, <1>5, <1>6 DEF IInv, ServedOnlyIfEnabled, Busy, Active
  <2>. QED
      BY <1>1, <1>2, <1>3, <1>4, <1>6, <2>1, ReturnKeepsIInv
<1>7. CASE /\ a \in known /\ runtimes[a] = None
           /\ work' = [work EXCEPT ![c].pc = "login"]
           /\ UNCHANGED <<known, lock, rtVars, runner>>
  <2> DEFINE j == [work[c] EXCEPT !.pc = "login"]
  <2>1. work \in [Workers -> Job]
      BY DEF IInv, TypeOK, Job
  <2>2. /\ j \in Job /\ j.pc = "login" /\ j.op = "start" /\ j.acct = a /\ j.waits = {}
        /\ work' = [work EXCEPT ![c] = j]
      BY <1>1, <1>2, <1>3, <1>7, <2>1 DEF Job
  <2> HIDE DEF j
  <2>3. work' \in [Workers -> Job] /\ JobsFit' /\ ServedOnlyIfEnabled'
    <3>1. a \in enabled' \cap known' /\ enabled' \cap known' = (enabled \cap known) \cup {a}
        BY <1>1, <1>7
    <3>2. Fits(c, j, runtimes', running', enabled' \cap known')
        BY <1>1, <1>2, <1>3, <1>7, <2>2, <3>1 DEF Fits
    <3>. QED
        BY <1>1, <1>2, <1>3, <2>2, <3>1, <3>2, WorkerStep
  <2>4. LockFollowsWork'
      BY <1>1, <1>3, <1>7, <2>2, LockKept
  <2>5. TypeOK'
      BY <1>1, <1>4, <1>7, <2>3 DEF IInv, TypeOK, Job, rtVars
  <2>6. RuntimesAreOwned' /\ OrphansAreLate' /\ TodoFits'
      BY <1>1, <1>2, <1>7
      DEF IInv, RuntimesAreOwned, OrphansAreLate, TodoFits, TopLive, HeldBy, Unasked, rtVars
  <2>7. RunnersFollowHolder'
    <3>1. \A v \in Workers : work'[v].waits = {} \/ work'[v] = work[v]
        BY <2>1, <2>2
    <3>. QED
        BY <1>7, <3>1 DEF IInv, RunnersFollowHolder, Unasked, rtVars
  <2>. QED
      BY <2>3, <2>4, <2>5, <2>6, <2>7 DEF IInv
<1>8. CASE /\ a \in known /\ runtimes[a] # None /\ StopBegins(c, work[c], runtimes[a])
           /\ UNCHANGED <<known, lock>>
  <2>1. runtimes[a] \in Rts /\ todo' \subseteq Accounts
      BY <1>1, <1>2, <1>8 DEF IInv, TypeOK
  <2>. QED
      BY <1>1, <1>2, <1>3, <1>4, <1>8, <2>1, TakeOverKeepsIInv
<1>. QED
    BY <1>6, <1>7, <1>8 DEF StartAcquires

(* stop_for with the lock. *)
LEMMA StopAcquiresKeepsIInv ==
    ASSUME IInv, NEW c \in Clients, StopAcquires(c)
    PROVE  IInv'
<1> DEFINE a == work[c].acct
<1>1. /\ Holder(c) /\ work[c].pc = "queued" /\ work[c].op \in {"stop", "delete"}
      /\ enabled' = enabled \ {a} /\ UNCHANGED <<server, todo, runtimes>>
    BY DEF StopAcquires
<1>2. /\ server = "serving" /\ todo = {} /\ work[c] \in Job /\ a \in Accounts
      /\ \A v \in Workers : v # c => ~Active(v) /\ work[v].waits = {}
    BY <1>1, HolderFacts
<1>3. c \in Workers /\ c # Lifespan /\ ~Active(c) /\ work[c].waits = {}
    BY <1>1, NamesAssumption DEF Workers, Active, IInv, JobsFit
<1>4. /\ enabled' \subseteq Accounts
      /\ \A b \in Accounts : b # a => (b \in enabled' <=> b \in enabled)
    BY <1>1 DEF IInv, TypeOK
<1>5. CASE runtimes[a] = None
  <2>1. Finish(c) /\ UNCHANGED <<rtVars, runner>>
      BY <1>5 DEF StopAcquires
  <2>. QED
      BY <1>1, <1>2, <1>3, <1>4, <1>5, <2>1, ReturnKeepsIInv
<1>6. CASE runtimes[a] # None
  <2>1. StopBegins(c, work[c], runtimes[a]) /\ UNCHANGED <<known, lock>>
      BY <1>6 DEF StopAcquires
  <2>2. runtimes[a] \in Rts /\ todo' \subseteq Accounts
      BY <1>1, <1>2, <1>6 DEF IInv, TypeOK
  <2>. QED
      BY <1>1, <1>2, <1>3, <1>4, <2>1, <2>2, TakeOverKeepsIInv
<1>. QED
    BY <1>5, <1>6

(* A login that fails registers nothing: its account had no runtime. *)
LEMMA LoginFailsKeepsIInv ==
    ASSUME IInv, NEW w \in Workers, LoginFails(w)
    PROVE  IInv'
<1>1. /\ work[w].pc = "login" /\ Finish(w) /\ Active(w)
      /\ UNCHANGED <<enabled, server, todo, runtimes, rtVars, runner>>
    BY DEF LoginFails, Active
<1>2. /\ work[w].acct \in Accounts /\ runtimes[work[w].acct] = None /\ work[w].waits = {}
    BY <1>1 DEF IInv, JobsFit
<1>3. /\ w \in Clients => Holder(w)
      /\ w = Lifespan => server = "booting" /\ work[w].op = "boot"
    BY <1>1 DEF IInv, LockFollowsWork, JobsFit
<1>4. \A v \in Workers : v # w => ~Active(v)
    BY <1>1, OneAtATime
<1>5. enabled' \subseteq Accounts
    BY <1>1 DEF IInv, TypeOK
<1>. QED
    BY <1>1, <1>2, <1>3, <1>4, <1>5, ReturnKeepsIInv

(* A login that succeeds registers a runtime for the account that had none. *)
LEMMA LoginOkKeepsIInv ==
    ASSUME IInv, NEW w \in Workers, LoginOk(w)
    PROVE  IInv'
<1> DEFINE a == work[w].acct
<1>1. PICK t \in Rts, ms \in SUBSET Machines :
        /\ owner[t] = None
        /\ owner' = [owner EXCEPT ![t] = a]
        /\ running' = [running EXCEPT ![t] = TRUE]
        /\ listed' = [listed EXCEPT ![t] = ms]
        /\ top' = [top EXCEPT ![t] = "initial"]
        /\ runtimes' = [runtimes EXCEPT ![a] = t]
    BY DEF LoginOk
<1>2. /\ work[w].pc = "login" /\ Finish(w) /\ Active(w)
      /\ UNCHANGED <<enabled, server, todo, held, runner>>
    BY DEF LoginOk, Active
<1>3. /\ a \in Accounts /\ runtimes[a] = None /\ work[w].op \in {"start", "boot"}
      /\ a \in enabled \cap known
    BY <1>2 DEF IInv, JobsFit
<1>4. /\ w \in Clients => Holder(w) /\ server = "serving" /\ todo = {}
      /\ w = Lifespan => server = "booting" /\ a \notin todo
    BY <1>2, HolderFacts DEF IInv, LockFollowsWork, JobsFit, TodoFits
<1>5. \A v \in Workers : v # w => ~Active(v)
    BY <1>2, OneAtATime
<1>6. /\ work' = [work EXCEPT ![w] = Idle]
      /\ lock' \in Seq(Clients) /\ \A i, k \in DOMAIN lock' : lock'[i] = lock'[k] => i = k
      /\ LockFollowsWork' /\ known' = known
    BY <1>2, <1>3, <1>4, FinishFacts
<1>7. /\ work \in [Workers -> Job] /\ None \notin Rts \cup Accounts
      /\ runtimes \in [Accounts -> Rts \cup {None}] /\ owner \in [Rts -> Accounts \cup {None}]
      /\ running \in [Rts -> BOOLEAN]
      /\ top \in [Rts -> {"initial", "sleeping", "refreshing", "cancelled", "ended"}]
    BY NamesAssumption DEF IInv, TypeOK, Job
<1>8. /\ runtimes'[a] = t /\ \A b \in Accounts : b # a => runtimes'[b] = runtimes[b]
      /\ owner'[t] = a /\ running'[t] /\ top'[t] = "initial"
      /\ \A u \in Rts : u # t =>
            owner'[u] = owner[u] /\ running'[u] = running[u] /\ top'[u] = top[u]
    BY <1>1, <1>3, <1>7
<1>9. work' \in [Workers -> Job] /\ JobsFit' /\ ServedOnlyIfEnabled'
  <2>1. Fits(w, Idle, runtimes', running', enabled' \cap known')
      BY Blanks DEF Fits
  <2>2. enabled' \cap known' = enabled \cap known
      BY <1>2, <1>6
  <2>. QED
      BY <1>2, <1>3, <1>5, <1>6, <1>8, <2>1, <2>2, Blanks, WorkerStep
<1>10. TypeOK'
  <2>1. /\ runtimes' \in [Accounts -> Rts \cup {None}] /\ owner' \in [Rts -> Accounts \cup {None}]
        /\ running' \in [Rts -> BOOLEAN] /\ listed' \in [Rts -> SUBSET Machines]
        /\ top' \in [Rts -> {"initial", "sleeping", "refreshing", "cancelled", "ended"}]
      BY <1>1, <1>3, <1>7 DEF IInv, TypeOK
  <2>. QED
      BY <1>2, <1>6, <1>9, <2>1 DEF IInv, TypeOK, Job
<1>11. RuntimesAreOwned'
  <2>1. /\ \A b \in Accounts, u \in Rts : runtimes[b] = u <=> owner[u] = b
        /\ \A u \in Rts : owner[u] = None => top[u] = "ended" /\ ~running[u] /\ held[u] = NothingHeld
        /\ \A u \in Rts : running[u] => top[u] \in {"initial", "sleeping", "refreshing"}
      BY DEF IInv, RuntimesAreOwned, TopLive
  <2>2. \A b \in Accounts, u \in Rts : runtimes'[b] = u <=> owner'[u] = b
      BY <1>1, <1>3, <1>7, <1>8, <2>1
  <2>3. /\ \A u \in Rts : owner'[u] = None => top'[u] = "ended" /\ ~running'[u] /\ held[u] = NothingHeld
        /\ \A u \in Rts : running'[u] => top'[u] \in {"initial", "sleeping", "refreshing"}
      BY <1>3, <1>7, <1>8, <2>1
  <2>. QED
      BY <1>2, <2>2, <2>3 DEF RuntimesAreOwned, TopLive
<1>12. \A u \in Rts, m \in Machines : held[u][m] # None => u # t
    BY <1>1, Blanks DEF IInv, RuntimesAreOwned
<1>13. RunnersFollowHolder'
  <2>1. \A v \in Workers : work'[v].waits = {} \/ work'[v] = work[v]
      BY <1>6, <1>7, Blanks
  <2>2. ASSUME NEW u \in Rts, NEW m \in Machines, held[u][m] # None
        PROVE  LET r == runner[held[u][m]] IN
               /\ r.acct = owner'[u] /\ r.machine = m
               /\ running'[u] => r.status # "stopping"
               /\ ~running'[u] => r.status \in {"stopping", "ended"} \/ r.late
    <3>1. owner'[u] = owner[u] /\ running'[u] = running[u]
        BY <1>8, <1>12, <2>2
    <3>. QED
        BY <2>2, <3>1 DEF IInv, RunnersFollowHolder
  <2>3. ASSUME NEW v \in Workers, NEW r \in work'[v].waits
        PROVE  runner[r].acct = work'[v].acct /\ ~Unasked(r)
      BY <2>1 DEF IInv, RunnersFollowHolder
  <2>. QED
      BY <1>2, <2>2, <2>3 DEF RunnersFollowHolder, Unasked
<1>14. OrphansAreLate'
  <2>1. \A b \in Accounts : runtimes[b] # None => runtimes'[b] = runtimes[b]
      BY <1>3, <1>8
  <2>. QED
      BY <1>2, <2>1 DEF IInv, OrphansAreLate, HeldBy, Unasked
<1>15. TodoFits'
  <2>1. CASE w \in Clients
      BY <1>2, <1>4, <2>1 DEF TodoFits
  <2>2. CASE w = Lifespan
    <3>1. work'[Lifespan].acct = None /\ None \notin todo
        BY <1>6, <1>7, <2>2, Blanks DEF IInv, TypeOK
    <3>. QED
        BY <1>2, <1>4, <1>6, <1>8, <2>2, <3>1 DEF IInv, TypeOK, TodoFits
  <2>. QED
      BY <2>1, <2>2 DEF Workers
<1>. QED
    BY <1>6, <1>9, <1>10, <1>11, <1>13, <1>14, <1>15 DEF IInv

(* What a worker that stops a runtime knows of it. *)
LEMMA StopFacts ==
    ASSUME IInv, NEW w \in Workers, work[w].pc \in {"gather", "awaitTop"}
    PROVE  LET t == work[w].rt IN
           /\ t \in Rts /\ work[w].acct \in Accounts /\ runtimes[work[w].acct] = t
           /\ owner[t] = work[w].acct /\ ~running[t]
           /\ \A m \in Machines : held[t][m] # None =>
                 ~Unasked(held[t][m]) \/ runner[held[t][m]].late
           /\ \A v \in Workers : v # w => ~Active(v) /\ work[v].waits = {}
           /\ \/ w \in Clients /\ Holder(w) /\ server = "serving" /\ todo = {}
              \/ w = Lifespan /\ server = "shutting" /\ work[w].op = "shutdown"
<1>1. Active(w)
    BY DEF Active
<1>2. /\ work[w].rt \in Rts /\ work[w].acct \in Accounts
      /\ runtimes[work[w].acct] = work[w].rt /\ ~running[work[w].rt]
    BY DEF IInv, JobsFit
<1>3. \A v \in Workers : v # w => ~Active(v) /\ work[v].waits = {}
    BY <1>1, OneAtATime DEF IInv, JobsFit, Active
<1>4. \/ w \in Clients /\ Holder(w) /\ server = "serving" /\ todo = {}
      \/ w = Lifespan /\ server = "shutting" /\ work[w].op = "shutdown"
  <2>1. CASE w \in Clients
      BY <1>1, <2>1, HolderFacts DEF IInv, LockFollowsWork
  <2>2. CASE w = Lifespan
      BY <2>2 DEF IInv, JobsFit
  <2>. QED
      BY <2>1, <2>2 DEF Workers
<1>5. owner[work[w].rt] = work[w].acct
    BY <1>2 DEF IInv, RuntimesAreOwned
<1>6. \A m \in Machines : held[work[w].rt][m] # None =>
          ~Unasked(held[work[w].rt][m]) \/ runner[held[work[w].rt][m]].late
    BY <1>2 DEF IInv, RunnersFollowHolder, Unasked
<1>. QED
    BY <1>2, <1>3, <1>4, <1>5, <1>6

(* The gathered runners have ended, and the runtime lets go of all it holds. *)
LEMMA GatheredKeepsIInv ==
    ASSUME IInv, NEW w \in Workers, Gathered(w)
    PROVE  IInv'
<1> DEFINE t == work[w].rt
           j == [work[w] EXCEPT !.pc = "awaitTop", !.waits = {}]
           at == IF TopLive(t) THEN "cancelled" ELSE top[t]
<1>1. /\ work[w].pc = "gather" /\ held' = [held EXCEPT ![t] = NothingHeld]
      /\ UNCHANGED <<db, process, runtimes, owner, running, listed>>
    BY DEF Gathered
<1>2. /\ t \in Rts /\ work[w].acct \in Accounts /\ runtimes[work[w].acct] = t
      /\ owner[t] = work[w].acct /\ ~running[t]
      /\ \A m \in Machines : held[t][m] # None => ~Unasked(held[t][m]) \/ runner[held[t][m]].late
      /\ \A v \in Workers : v # w => ~Active(v) /\ work[v].waits = {}
      /\ \/ w \in Clients /\ Holder(w) /\ server = "serving" /\ todo = {}
         \/ w = Lifespan /\ server = "shutting" /\ work[w].op = "shutdown"
    BY <1>1, StopFacts
<1>3. /\ work \in [Workers -> Job] /\ runner \in [Runners -> RunnerObject]
      /\ held \in [Rts -> [Machines -> Runners \cup {None}]]
      /\ top \in [Rts -> {"initial", "sleeping", "refreshing", "cancelled", "ended"}]
      /\ running \in [Rts -> BOOLEAN] /\ None \notin Accounts \cup Rts \cup Runners
    BY NamesAssumption DEF IInv, TypeOK, Job, RunnerObject
<1>4. /\ j \in Job /\ j.pc = "awaitTop" /\ j.waits = {} /\ j.rt = t
      /\ j.op = work[w].op /\ j.acct = work[w].acct
    BY <1>3 DEF Job
<1>5. work' = [work EXCEPT ![w] = j]
    BY <1>3 DEF Gathered
<1>6. top' = [top EXCEPT ![t] = at] /\ at \in {"initial", "sleeping", "refreshing", "cancelled", "ended"}
    BY <1>2, <1>3 DEF Gathered
<1> HIDE DEF j, at
<1>7. \A v \in Workers : work'[v].waits = {}
    BY <1>2, <1>3, <1>4, <1>5
<1>8. /\ held' \in [Rts -> [Machines -> Runners \cup {None}]]
      /\ held'[t] = NothingHeld /\ \A u \in Rts : u # t => held'[u] = held[u]
    BY <1>1, <1>2, <1>3, Blanks
<1>9. /\ runner' \in [Runners -> RunnerObject]
      /\ \A r \in Runners :
            runner'[r] = runner[r] \/ (r \in work[w].waits \cup HeldBy(t) /\ runner'[r] = NoRunner)
  <2>1. \A r \in Runners :
            runner'[r] = runner[r] \/ (r \in work[w].waits \cup HeldBy(t) /\ runner'[r] = NoRunner)
      BY DEF Gathered
  <2>2. \A r \in Runners : runner'[r] \in RunnerObject
      BY <1>3, <2>1, Blanks
  <2>. QED
      BY <2>1, <2>2 DEF Gathered
<1>10. work' \in [Workers -> Job] /\ JobsFit' /\ ServedOnlyIfEnabled'
  <2>1. Fits(w, work[w], runtimes, running, enabled \cap known)
      BY JobsFitEach DEF IInv
  <2>2. Fits(w, j, runtimes, running, enabled \cap known)
      BY <1>1, <1>2, <1>4, <2>1 DEF Fits
  <2>3. UNCHANGED <<server, runtimes, running, enabled, known>>
      BY <1>1 DEF db, process
  <2>. QED
      BY <1>2, <1>4, <1>5, <2>2, <2>3, WorkerStep
<1>11. LockFollowsWork'
    BY <1>1, <1>2, <1>4, <1>5, LockKept DEF process
<1>12. TypeOK'
  <2>1. top' \in [Rts -> {"initial", "sleeping", "refreshing", "cancelled", "ended"}]
      BY <1>3, <1>6
  <2>. QED
      BY <1>1, <1>8, <1>9, <1>10, <2>1 DEF IInv, TypeOK, Job, RunnerObject, db, process
<1>13. RuntimesAreOwned'
  <2>1. /\ \A b \in Accounts, u \in Rts : runtimes[b] = u <=> owner[u] = b
        /\ \A u \in Rts : owner[u] = None => top[u] = "ended" /\ ~running[u] /\ held[u] = NothingHeld
        /\ \A u \in Rts : running[u] => top[u] \in {"initial", "sleeping", "refreshing"}
      BY DEF IInv, RuntimesAreOwned, TopLive
  <2>2. \A u \in Rts : u # t => top'[u] = top[u]
      BY <1>3, <1>6
  <2>3. owner[t] # None
      BY <1>2, <1>3
  <2>. QED
      BY <1>1, <1>2, <1>8, <2>1, <2>2, <2>3 DEF RuntimesAreOwned, TopLive
<1>14. ASSUME NEW u \in Rts, NEW m \in Machines, held[u][m] # None, u # t
       PROVE  runner'[held[u][m]] = runner[held[u][m]]
  <2>1. held[u][m] \in Runners /\ held[u][m] \notin HeldBy(t)
      BY <1>2, <1>14, HeldFacts DEF HeldBy
  <2>2. held[u][m] \notin work[w].waits
    <3>1. runner[held[u][m]].acct # work[w].acct
        BY <1>2, <1>14, HeldFacts
    <3>. QED
        BY <3>1, AwaitedFacts
  <2>. QED
      BY <1>9, <2>1, <2>2
<1>15. RunnersFollowHolder'
  <2>1. \A u \in Rts, m \in Machines : held'[u][m] # None =>
            /\ u # t /\ held'[u][m] = held[u][m] /\ held[u][m] # None
            /\ runner'[held[u][m]] = runner[held[u][m]]
      BY <1>8, <1>14, Blanks
  <2>2. UNCHANGED <<owner, running>>
      BY <1>1
  <2>. QED
      BY <1>7, <2>1, <2>2 DEF IInv, RunnersFollowHolder
<1>16. OrphansAreLate'
  <2> SUFFICES ASSUME NEW r \in Runners, runner'[r].status \in {"live", "leaving"}, ~runner'[r].late
               PROVE  \E a \in Accounts : runtimes[a] # None
                          /\ \E m \in Machines : held'[runtimes[a]][m] = r
      BY <1>1, <1>3 DEF OrphansAreLate, HeldBy, Unasked
  <2>1. runner'[r] = runner[r]
      BY <1>9, Blanks
  <2>2. PICK a \in Accounts, m \in Machines : runtimes[a] \in Rts /\ held[runtimes[a]][m] = r
      BY <2>1, OrphanFacts DEF Unasked
  <2>3. runtimes[a] # t
      BY <1>2, <1>3, <2>1, <2>2 DEF Unasked
  <2>. QED
      BY <1>3, <1>8, <2>2, <2>3
<1>17. TodoFits'
  <2>1. w = Lifespan => work'[Lifespan].acct = work[Lifespan].acct
      BY <1>3, <1>4, <1>5
  <2>2. UNCHANGED <<server, todo, runtimes, enabled, known>>
      BY <1>1 DEF process, db
  <2>3. w \in Clients => server = "serving" /\ todo = {}
      BY <1>2, NamesAssumption
  <2>. QED
      BY <2>1, <2>2, <2>3 DEF IInv, TodoFits, Workers
<1>. QED
    BY <1>10, <1>11, <1>12, <1>13, <1>15, <1>16, <1>17 DEF IInv

(* The top task is over: the runtime is forgotten, with the late runners it holds. *)
LEMMA TopGoneKeepsIInv ==
    ASSUME IInv, NEW w \in Workers, TopGone(w)
    PROVE  IInv'
<1> DEFINE t == work[w].rt
           a == work[w].acct
<1>1. /\ work[w].pc = "awaitTop" /\ top[t] = "ended"
      /\ runtimes' = [runtimes EXCEPT ![a] = None] /\ owner' = [owner EXCEPT ![t] = None]
      /\ listed' = [listed EXCEPT ![t] = {}] /\ held' = [held EXCEPT ![t] = NothingHeld]
      /\ UNCHANGED <<server, todo, running, top, runner>>
    BY DEF TopGone, TopLive
<1>2. /\ t \in Rts /\ a \in Accounts /\ runtimes[a] = t /\ owner[t] = a /\ ~running[t]
      /\ \A m \in Machines : held[t][m] # None => ~Unasked(held[t][m]) \/ runner[held[t][m]].late
      /\ \A v \in Workers : v # w => ~Active(v) /\ work[v].waits = {}
      /\ \/ w \in Clients /\ Holder(w) /\ server = "serving" /\ todo = {}
         \/ w = Lifespan /\ server = "shutting" /\ work[w].op = "shutdown"
    BY <1>1, StopFacts
<1>3. /\ work \in [Workers -> Job] /\ runner \in [Runners -> RunnerObject]
      /\ held \in [Rts -> [Machines -> Runners \cup {None}]]
      /\ runtimes \in [Accounts -> Rts \cup {None}] /\ owner \in [Rts -> Accounts \cup {None}]
      /\ listed \in [Rts -> SUBSET Machines]
      /\ None \notin Accounts \cup Rts \cup Runners /\ Lifespan \notin Clients
    BY NamesAssumption DEF IInv, TypeOK, Job, RunnerObject
<1>4. /\ runtimes' \in [Accounts -> Rts \cup {None}] /\ owner' \in [Rts -> Accounts \cup {None}]
      /\ listed' \in [Rts -> SUBSET Machines]
      /\ held' \in [Rts -> [Machines -> Runners \cup {None}]]
      /\ runtimes'[a] = None /\ \A b \in Accounts : b # a => runtimes'[b] = runtimes[b]
      /\ owner'[t] = None /\ held'[t] = NothingHeld
      /\ \A u \in Rts : u # t => owner'[u] = owner[u] /\ held'[u] = held[u]
    BY <1>1, <1>2, <1>3, Blanks
<1>5. Active(w) /\ work[w].waits = {} /\ work[w] \in Job
    BY <1>1, <1>3 DEF IInv, JobsFit, Active
<1>6. \E j \in Job :
          /\ work' = [work EXCEPT ![w] = j]
          /\ j.waits = {} /\ (w = Lifespan => j = Idle)
          /\ work' \in [Workers -> Job] /\ JobsFit' /\ ServedOnlyIfEnabled'
          /\ LockFollowsWork' /\ known' \subseteq known /\ enabled' = enabled
          /\ lock' \in Seq(Clients) /\ \A i, k \in DOMAIN lock' : lock'[i] = lock'[k] => i = k
  <2>1. CASE work[w].op = "start"
    <3> DEFINE j == [work[w] EXCEPT !.pc = "login", !.rt = None]
    <3>1. /\ j \in Job /\ j.pc = "login" /\ j.op = "start" /\ j.acct = a /\ j.waits = {}
          /\ work' = [work EXCEPT ![w] = j] /\ UNCHANGED <<db, lock>>
        BY <1>3, <1>5, <2>1 DEF TopGone, Job
    <3> HIDE DEF j
    <3>2. w \in Clients /\ server = "serving" /\ w # Lifespan /\ a \in enabled \cap known
        BY <1>2, <1>3, <1>5, <2>1 DEF IInv, JobsFit
    <3>3. Fits(w, j, runtimes', running', enabled' \cap known')
        BY <1>4, <3>1, <3>2, <1>2 DEF Fits, db
    <3>4. work' \in [Workers -> Job] /\ JobsFit' /\ ServedOnlyIfEnabled'
      <4>1. \A b \in Accounts : b # a =>
                runtimes'[b] = runtimes[b] /\ (b \in enabled' \cap known' <=> b \in enabled \cap known)
          BY <1>4, <3>1 DEF db
      <4>2. server' = server /\ runtimes'[a] = None /\ \A v \in Workers : v # w => ~Active(v)
          BY <1>1, <1>2, <1>4
      <4>. QED
          BY <1>2, <3>1, <3>3, <4>1, <4>2, WorkerStep
    <3>5. LockFollowsWork'
        BY <1>2, <3>1, <3>2, LockKept
    <3>. QED
        BY <3>1, <3>2, <3>4, <3>5 DEF IInv, TypeOK, db
  <2>2. CASE work[w].op # "start"
    <3>1. Finish(w) /\ enabled' = enabled
        BY <2>2 DEF TopGone
    <3>2. /\ work' = [work EXCEPT ![w] = Idle]
          /\ lock' \in Seq(Clients) /\ \A i, k \in DOMAIN lock' : lock'[i] = lock'[k] => i = k
          /\ LockFollowsWork' /\ known' \subseteq known
          /\ \A b \in Accounts : b # a => (b \in known' <=> b \in known)
        BY <1>2, <1>3, <3>1, FinishFacts
    <3>3. Fits(w, Idle, runtimes', running', enabled' \cap known')
        BY Blanks DEF Fits
    <3>4. work' \in [Workers -> Job] /\ JobsFit' /\ ServedOnlyIfEnabled'
      <4>1. \A b \in Accounts : b # a =>
                runtimes'[b] = runtimes[b] /\ (b \in enabled' \cap known' <=> b \in enabled \cap known)
          BY <1>4, <3>1, <3>2
      <4>2. server' = server /\ runtimes'[a] = None /\ \A v \in Workers : v # w => ~Active(v)
          BY <1>1, <1>2, <1>4
      <4>3. Idle \in Job /\ Idle.pc = "idle"
          BY Blanks
      <4>. QED
          BY <1>2, <3>2, <3>3, <4>1, <4>2, <4>3, WorkerStep
    <3>. QED
        BY <3>1, <3>2, <3>4, Blanks
  <2>. QED
      BY <2>1, <2>2
<1>7. PICK j \in Job :
          /\ work' = [work EXCEPT ![w] = j]
          /\ j.waits = {} /\ (w = Lifespan => j = Idle)
          /\ work' \in [Workers -> Job] /\ JobsFit' /\ ServedOnlyIfEnabled'
          /\ LockFollowsWork' /\ known' \subseteq known /\ enabled' = enabled
          /\ lock' \in Seq(Clients) /\ \A i, k \in DOMAIN lock' : lock'[i] = lock'[k] => i = k
    BY <1>6
<1>8. TypeOK'
    BY <1>1, <1>4, <1>7 DEF IInv, TypeOK, Job
<1>9. RuntimesAreOwned'
  <2>1. /\ \A b \in Accounts, u \in Rts : runtimes[b] = u <=> owner[u] = b
        /\ \A u \in Rts : owner[u] = None => top[u] = "ended" /\ ~running[u] /\ held[u] = NothingHeld
        /\ \A u \in Rts : running[u] => top[u] \in {"initial", "sleeping", "refreshing"}
      BY DEF IInv, RuntimesAreOwned, TopLive
  <2>2. \A b \in Accounts, u \in Rts : runtimes'[b] = u <=> owner'[u] = b
      BY <1>2, <1>3, <1>4, <2>1
  <2>3. \A u \in Rts : owner'[u] = None => top[u] = "ended" /\ ~running[u] /\ held'[u] = NothingHeld
      BY <1>1, <1>2, <1>4, <2>1
  <2>. QED
      BY <1>1, <2>1, <2>2, <2>3 DEF RuntimesAreOwned, TopLive
<1>10. RunnersFollowHolder'
  <2>1. \A v \in Workers : work'[v].waits = {}
      BY <1>2, <1>3, <1>7
  <2>2. \A u \in Rts, m \in Machines : held'[u][m] # None =>
            u # t /\ held'[u][m] = held[u][m] /\ owner'[u] = owner[u]
      BY <1>4, Blanks
  <2>3. UNCHANGED <<running, runner>>
      BY <1>1
  <2>. QED
      BY <2>1, <2>2, <2>3 DEF IInv, RunnersFollowHolder
<1>11. OrphansAreLate'
  <2> SUFFICES ASSUME NEW r \in Runners, Unasked(r), ~runner[r].late
               PROVE  \E b \in Accounts : runtimes'[b] # None
                          /\ \E m \in Machines : held'[runtimes'[b]][m] = r
      BY <1>1, <1>3 DEF OrphansAreLate, HeldBy, Unasked
  <2>1. PICK b \in Accounts, m \in Machines : runtimes[b] \in Rts /\ held[runtimes[b]][m] = r
      BY OrphanFacts
  <2>2. runtimes[b] # t
      BY <1>2, <1>3, <2>1
  <2>3. b # a
      BY <1>2, <2>2
  <2>. QED
      BY <1>3, <1>4, <2>1, <2>2, <2>3
<1>12. TodoFits'
  <2>1. CASE w \in Clients
      BY <1>1, <1>2, <1>3, <2>1 DEF TodoFits
  <2>2. CASE w = Lifespan
    <3>1. work'[Lifespan].acct = None /\ None \notin todo /\ server = "shutting"
        BY <1>2, <1>3, <1>7, <2>2, Blanks DEF IInv, TypeOK
    <3>2. a \notin todo /\ \A b \in Accounts : runtimes'[b] # None => b \in todo
        BY <1>4, <2>2, <3>1 DEF IInv, TodoFits
    <3>3. \A b \in todo : b # a /\ runtimes'[b] # None
        BY <1>4, <3>1, <3>2 DEF IInv, TypeOK, TodoFits
    <3>. QED
        BY <1>1, <3>1, <3>2, <3>3 DEF TodoFits
  <2>. QED
      BY <2>1, <2>2 DEF Workers
<1>. QED
    BY <1>7, <1>8, <1>9, <1>10, <1>11, <1>12 DEF IInv

(* The boot takes the next account up, which nobody has registered. *)
LEMMA BootNextKeepsIInv ==
    ASSUME IInv, NEW a \in Accounts, BootNext(a)
    PROVE  IInv'
<1> DEFINE j == [Idle EXCEPT !.op = "boot", !.acct = a, !.pc = "login"]
<1>1. /\ server = "booting" /\ a \in todo /\ work[Lifespan] = Idle /\ todo' = todo \ {a}
      /\ UNCHANGED <<db, server, lock, runtimes, rtVars, runner>>
    BY DEF BootNext
<1>2. work \in [Workers -> Job] /\ Lifespan \in Workers
    BY DEF IInv, TypeOK, Job, Workers
<1>3. j \in Job /\ j.op = "boot" /\ j.acct = a /\ j.pc = "login" /\ j.waits = {}
    BY Blanks DEF Idle, Job
<1>4. work' = [work EXCEPT ![Lifespan] = j]
    BY <1>1, <1>2 DEF BootNext
<1> HIDE DEF j
<1>5. runtimes[a] = None /\ a \in enabled \cap known
    BY <1>1 DEF IInv, TodoFits
<1>6. work' \in [Workers -> Job] /\ JobsFit' /\ ServedOnlyIfEnabled'
  <2>1. UNCHANGED <<enabled, known, running, server, runtimes>>
      BY <1>1 DEF db, rtVars
  <2>2. Fits(Lifespan, j, runtimes', running', enabled' \cap known')
      BY <1>1, <1>3, <1>5, <2>1, NamesAssumption DEF Fits
  <2>3. ~Active(Lifespan) /\ \A v \in Workers : v # Lifespan => ~Active(v)
      BY <1>1, LifespanFacts, Blanks DEF Active
  <2>. QED
      BY <1>2, <1>3, <1>4, <1>5, <2>1, <2>2, <2>3, WorkerStep
<1>7. LockFollowsWork'
    BY <1>1, <1>2, <1>3, <1>4, LockKept
<1>8. TypeOK'
    BY <1>1, <1>6 DEF IInv, TypeOK, Job, db, rtVars
<1>9. RuntimesAreOwned' /\ OrphansAreLate'
    BY <1>1 DEF IInv, RuntimesAreOwned, OrphansAreLate, TopLive, HeldBy, Unasked, rtVars
<1>10. RunnersFollowHolder'
  <2>1. \A v \in Workers : work'[v].waits = {} \/ work'[v] = work[v]
      BY <1>2, <1>3, <1>4
  <2>. QED
      BY <1>1, <2>1 DEF IInv, RunnersFollowHolder, Unasked, rtVars
<1>11. TodoFits'
  <2>1. work'[Lifespan].acct = a
      BY <1>2, <1>3, <1>4
  <2>. QED
      BY <1>1, <2>1 DEF IInv, TodoFits, db
<1>. QED
    BY <1>6, <1>7, <1>8, <1>9, <1>10, <1>11 DEF IInv

(* The shutdown takes over the next registered runtime. *)
LEMMA ShutdownNextKeepsIInv ==
    ASSUME IInv, NEW a \in Accounts, ShutdownNext(a)
    PROVE  IInv'
<1> DEFINE job == [Idle EXCEPT !.op = "shutdown", !.acct = a]
<1>1. /\ server = "shutting" /\ a \in todo /\ work[Lifespan].pc = "idle" /\ todo' = todo \ {a}
      /\ StopBegins(Lifespan, job, runtimes[a])
      /\ UNCHANGED <<db, server, lock, runtimes>>
    BY DEF ShutdownNext
<1>2. job \in Job /\ job.op = "shutdown" /\ job.acct = a /\ job.waits = {}
    BY Blanks DEF Idle, Job
<1> HIDE DEF job
<1>3. runtimes[a] \in Rts
    BY <1>1 DEF IInv, TypeOK, TodoFits
<1>4. /\ Lifespan \in Workers /\ ~Active(Lifespan)
      /\ \A v \in Workers : v # Lifespan => ~Active(v) /\ work[v].waits = {}
    BY <1>1, LifespanFacts DEF Active
<1>5. /\ enabled' = enabled /\ known' = known /\ enabled' \subseteq Accounts
      /\ todo' \subseteq Accounts
    BY <1>1 DEF IInv, TypeOK, db
<1>. QED
    BY <1>1, <1>2, <1>3, <1>4, <1>5, TakeOverKeepsIInv

(* Boot, Serve and Shutdown only change what the server is at. *)
LEMMA ServerStep ==
    ASSUME IInv, UNCHANGED <<db, lock, work, runtimes, rtVars, runner>>,
           server' \in {"booting", "serving", "shutting"}, todo' \subseteq Accounts,
           \A w \in Workers : work[w] = Idle, TodoFits'
    PROVE  IInv'
<1> USE DEF db, rtVars
<1>1. Clients \subseteq Workers /\ Lifespan \in Workers
    BY DEF Workers
<1>2. TypeOK'
    BY DEF IInv, TypeOK
<1>3. LockFollowsWork' /\ RuntimesAreOwned' /\ RunnersFollowHolder' /\ OrphansAreLate'
    BY DEF IInv, LockFollowsWork, RuntimesAreOwned, RunnersFollowHolder, OrphansAreLate,
           Active, Holder, TopLive, HeldBy, Unasked
<1>4. JobsFit'
    BY <1>1, Blanks DEF JobsFit, Active
<1>5. ServedOnlyIfEnabled'
    BY DEF IInv, ServedOnlyIfEnabled, Busy
<1>. QED
    BY <1>2, <1>3, <1>4, <1>5 DEF IInv

LEMMA ServerKeepsIInv ==
    ASSUME IInv, Boot \/ Serve \/ Shutdown
    PROVE  IInv'
<1>1. /\ enabled \subseteq Accounts /\ None \notin Accounts
      /\ \A w \in Workers : work[w].pc = "idle" => work[w] = Idle
    BY NamesAssumption DEF IInv, TypeOK, JobsFit
<1>2. ASSUME server # "serving", work[Lifespan] = Idle
      PROVE  \A w \in Workers : work[w] = Idle
    BY <1>2, LifespanFacts
<1>3. CASE Boot
  <2>1. work[Lifespan] = Idle
      BY <1>1, <1>3 DEF Boot, IInv, JobsFit, Workers
  <2>2. TodoFits' /\ todo' \subseteq Accounts
      BY <1>1, <1>3, <2>1, Blanks DEF Boot, IInv, TodoFits, db
  <2>. QED
      BY <1>2, <1>3, <2>1, <2>2, ServerStep DEF Boot
<1>4. CASE Serve
  <2>1. TodoFits' /\ todo' \subseteq Accounts
      BY <1>1, <1>4 DEF Serve, IInv, TodoFits
  <2>. QED
      BY <1>2, <1>4, <2>1, ServerStep DEF Serve
<1>5. CASE Shutdown
  <2>1. work[Lifespan] = Idle
      BY <1>1, <1>5 DEF Shutdown, IInv, JobsFit, Workers
  <2>2. TodoFits' /\ todo' \subseteq Accounts
      BY <1>1, <1>5, <2>1, Blanks DEF Shutdown, TodoFits
  <2>. QED
      BY <1>5, <2>1, <2>2, ServerStep DEF Shutdown, Workers
<1>. QED
    BY <1>3, <1>4, <1>5

(* A process that is gone holds nothing; the database stays. *)
LEMMA ExitKeepsIInv ==
    ASSUME IInv, Exit
    PROVE  IInv'
<1>1. /\ server' = "down" /\ todo' = {} /\ lock' = <<>> /\ work' = NoWork /\ runtimes' = NoRuntimes
      /\ owner' = [t \in Rts |-> None] /\ running' = [t \in Rts |-> FALSE]
      /\ listed' = [t \in Rts |-> {}] /\ held' = [t \in Rts |-> NothingHeld]
      /\ top' = [t \in Rts |-> "ended"] /\ runner' = [r \in Runners |-> NoRunner]
      /\ known' = known /\ enabled' = enabled
    BY DEF Exit, db
<1>2. TypeOK'
  <2>1. work' \in [Workers -> Job] /\ runner' \in [Runners -> RunnerObject]
      BY <1>1, Blanks
  <2>2. lock' \in Seq(Clients) /\ DOMAIN lock' = {}
      BY <1>1, EmptySeq
  <2>. QED
      BY <1>1, <2>1, <2>2, Blanks DEF IInv, TypeOK, Job, RunnerObject
<1>3. /\ \A w \in Workers : work'[w] = Idle
      /\ Lifespan \in Workers /\ Clients \subseteq Workers
    BY <1>1, Blanks DEF Workers
<1>4. LockFollowsWork'
  <2>1. DOMAIN lock' = {}
      BY <1>1, EmptySeq
  <2>. QED
      BY <1>3, <2>1, Blanks DEF LockFollowsWork, Active
<1>5. JobsFit'
    BY <1>3, Blanks DEF JobsFit, Active
<1>6. RuntimesAreOwned'
    BY <1>1, Blanks, NamesAssumption DEF RuntimesAreOwned, TopLive
<1>7. RunnersFollowHolder'
    BY <1>1, <1>3, Blanks DEF RunnersFollowHolder
<1>8. OrphansAreLate'
    BY <1>1, Blanks DEF OrphansAreLate, Unasked
<1>9. TodoFits' /\ ServedOnlyIfEnabled'
    BY <1>1, <1>3, Blanks DEF TodoFits, ServedOnlyIfEnabled
<1>. QED
    BY <1>2, <1>4, <1>5, <1>6, <1>7, <1>8, <1>9 DEF IInv

-----------------------------------------------------------------------------
(* The theorems.                                                           *)

LEMMA NextIInv == IInv /\ [Next]_vars => IInv'
<1> SUFFICES ASSUME IInv, [Next]_vars PROVE IInv'
    OBVIOUS
<1>1. ASSUME NEW c \in Clients, NEW a \in Accounts, NEW op \in {"start", "stop", "delete"},
             Request(c, op, a)
      PROVE  IInv'
    BY <1>1, RequestKeepsIInv
<1>2. ASSUME NEW w \in Workers, Work(w)
      PROVE  IInv'
  <2>1. StartAcquires(w) \/ StopAcquires(w) => w \in Clients
      BY DEF StartAcquires, StopAcquires, IInv, JobsFit, Workers
  <2>. QED
      BY <1>2, <2>1, StartAcquiresKeepsIInv, StopAcquiresKeepsIInv, GatheredKeepsIInv,
         TopGoneKeepsIInv, LoginOkKeepsIInv, LoginFailsKeepsIInv DEF Work
<1>3. ASSUME NEW a \in Accounts, Trigger(a) \/ BootNext(a) \/ ShutdownNext(a)
      PROVE  IInv'
    BY <1>3, TriggerKeepsIInv, BootNextKeepsIInv, ShutdownNextKeepsIInv
<1>4. ASSUME NEW t \in Rts, TopStep(t)
      PROVE  IInv'
    BY <1>4, TopKeepsIInv
<1>5. ASSUME NEW r \in Runners, RunnerStops(r) \/ RunnerDies(r)
      PROVE  IInv'
    BY <1>5, EndsKeepsIInv DEF RunnerStops, RunnerDies
<1>6. CASE Boot \/ Serve \/ Shutdown
    BY <1>6, ServerKeepsIInv
<1>7. CASE Exit
    BY <1>7, ExitKeepsIInv
<1>8. CASE UNCHANGED vars
    BY <1>8
    DEF vars, db, process, rtVars, IInv, TypeOK, LockFollowsWork, JobsFit, RuntimesAreOwned,
        RunnersFollowHolder, OrphansAreLate, TodoFits, ServedOnlyIfEnabled, Active, Holder, Busy,
        TopLive, HeldBy, Unasked
<1>. QED
    BY <1>1, <1>2, <1>3, <1>4, <1>5, <1>6, <1>7, <1>8 DEF Next

LEMMA Invariance == Spec => []IInv
<1>. QED
    BY InitIInv, NextIInv, PTL DEF Spec

(* The variables keep their types: the queue of the lock holds each request at
   most once, a job's runtime and runners exist, a map holds runners of the
   service (KeepAliveService).                                             *)
THEOREM TypeCorrect == Spec => []TypeOK
<1>1. IInv => TypeOK
    BY DEF IInv
<1>. QED
    BY <1>1, Invariance, PTL

(* A top task that can still refresh belongs to the registered runtime of its
   account, so that no account is ever refreshed by two (_stop_account awaits
   the task before it unregisters).                                        *)
THEOREM TopSafety == Spec => []LiveTopIsRegistered
<1>1. IInv => LiveTopIsRegistered
  <2> SUFFICES ASSUME IInv, NEW t \in Rts, TopLive(t)
               PROVE  owner[t] # None /\ runtimes[owner[t]] = t
      BY DEF LiveTopIsRegistered
  <2>1. owner[t] # None
      BY DEF IInv, RuntimesAreOwned
  <2>2. owner[t] \in Accounts
      BY <2>1 DEF IInv, TypeOK
  <2>. QED
      BY <2>1, <2>2 DEF IInv, RuntimesAreOwned
<1>. QED
    BY <1>1, Invariance, PTL

(* Outside a request an account is kept alive only if it exists and its task is
   enabled (start_for, stop_for and delete_account under the lock).        *)
THEOREM EnabledSafety == Spec => []ServedOnlyIfEnabled
<1>1. IInv => ServedOnlyIfEnabled
    BY DEF IInv
<1>. QED
    BY <1>1, Invariance, PTL

(* A running runtime holds no runner that was told to stop, and each for its own
   machine (_reconcile_machine_runners, _stop_account).                    *)
THEOREM HolderSafety == Spec => []StoppedRunnersAreLetGo
<1>1. IInv => StoppedRunnersAreLetGo
  <2> SUFFICES ASSUME IInv, NEW t \in Rts, running[t], NEW m \in Machines, held[t][m] # None
               PROVE  LET r == held[t][m] IN
                      /\ runner[r].status # "stopping"
                      /\ runner[r].acct = owner[t] /\ held[t][runner[r].machine] = r
      BY DEF StoppedRunnersAreLetGo, HeldBy
  <2>1. runner[held[t][m]].acct = owner[t] /\ runner[held[t][m]].machine = m
      BY HeldFacts
  <2>2. runner[held[t][m]].status # "stopping"
      BY DEF IInv, RunnersFollowHolder
  <2>. QED
      BY <2>1, <2>2
<1>. QED
    BY <1>1, Invariance, PTL

(* The only runners nobody holds and nobody asked to stop are those a runtime
   started while it was being stopped (_reconcile_machine_runners does not look
   at rt.running).                                                         *)
THEOREM OrphanSafety == Spec => []OrphansAreLate
<1>1. IInv => OrphansAreLate
    BY DEF IInv
<1>. QED
    BY <1>1, Invariance, PTL

(* When shutdown() is through nothing is registered, no top task is left and
   nobody is left unasked but the late ones.                               *)
THEOREM ShutdownSafety == Spec => []ShutdownIsComplete
<1>1. IInv => ShutdownIsComplete
  <2> SUFFICES ASSUME IInv, server = "shutting", todo = {}, work[Lifespan] = Idle
               PROVE  /\ runtimes = NoRuntimes
                      /\ \A t \in Rts : ~TopLive(t)
                      /\ \A r \in Runners : Unasked(r) => runner[r].late
      BY DEF ShutdownIsComplete
  <2>1. \A a \in Accounts : runtimes[a] = None
      BY Blanks, NamesAssumption DEF IInv, TodoFits
  <2>2. runtimes = NoRuntimes
      BY <2>1 DEF IInv, TypeOK, NoRuntimes
  <2>3. \A t \in Rts : ~TopLive(t)
    <3>1. \A t \in Rts : owner[t] = None
        BY <2>1, NamesAssumption DEF IInv, TypeOK, RuntimesAreOwned
    <3>. QED
        BY <3>1 DEF IInv, RuntimesAreOwned
  <2>4. \A r \in Runners : Unasked(r) => runner[r].late
      BY <2>1 DEF IInv, OrphansAreLate
  <2>. QED
      BY <2>2, <2>3, <2>4
<1>. QED
    BY <1>1, Invariance, PTL

(* The complement of what KeepAliveService does not keep (OneRunnerPerMachine):
   but for the runners a stopping runtime started, no machine of an account has
   two runners that nobody asked to stop (_reconcile_machine_runners, rt.runners). *)
THEOREM ExtraRunnerSafety == Spec => []OnlyLateRunnersAreExtra
<1>1. IInv => OnlyLateRunnersAreExtra
  <2> SUFFICES ASSUME IInv, NEW q \in Runners, NEW r \in Runners, Unasked(q), Unasked(r),
                      ~runner[q].late, ~runner[r].late,
                      runner[q].acct = runner[r].acct, runner[q].machine = runner[r].machine
               PROVE  q = r
      BY DEF OnlyLateRunnersAreExtra
  <2>1. PICK a \in Accounts, m \in Machines : runtimes[a] \in Rts /\ held[runtimes[a]][m] = q
      BY OrphanFacts
  <2>2. PICK b \in Accounts, n \in Machines : runtimes[b] \in Rts /\ held[runtimes[b]][n] = r
      BY OrphanFacts
  <2>3. q # None /\ r # None
      BY NamesAssumption
  <2>4. runner[q].machine = m /\ runtimes[runner[q].acct] = runtimes[a]
      BY <2>1, <2>3, HeldFacts
  <2>5. runner[r].machine = n /\ runtimes[runner[r].acct] = runtimes[b]
      BY <2>2, <2>3, HeldFacts
  <2>. QED
      BY <2>1, <2>2, <2>4, <2>5
<1>. QED
    BY <1>1, Invariance, PTL

(* The lock, and the order of boot, service and shutdown, keep apart whoever stops
   or starts a runtime (KeepAliveService._lock, start, shutdown).          *)
THEOREM WorkSafety == Spec => []OneWorksAtATime
<1>1. IInv => OneWorksAtATime
    BY OneAtATime DEF OneWorksAtATime
<1>. QED
    BY <1>1, Invariance, PTL
=============================================================================
