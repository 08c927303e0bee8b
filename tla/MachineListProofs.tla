-------------------------- MODULE MachineListProofs --------------------------
(***************************************************************************)
(* Proofs about MachineList, for any machines, requests and changes: what  *)
(* rows and runners tell of a machine that did not change since is true.   *)
(***************************************************************************)
EXTENDS MachineList, TLAPS

(* The words that stand for no status. *)
LEMMA Words ==
    /\ Gone \notin Statuses /\ Unknown \notin Statuses /\ NoRow \notin Statuses
    /\ Gone # Unknown /\ Gone # NoRow /\ Unknown # NoRow
BY MachineListAssumption DEF Gone, Unknown, NoRow

(* A status may be left out of a listing, nothing else becomes of it. *)
LEMMA TruthFacts ==
    ASSUME NEW status \in Statuses \cup {Gone}
    PROVE  /\ Mapped(status) \in Statuses \cup {Gone, Unknown}
           /\ \A told \in Truth(status) : told # status => bare /\ told = Unknown
BY Words DEF Mapped, Truth

(* The two readings of a status: what the overview counts is running for the
   runners, and three statuses are for them alone.                         *)
LEMMA ReadingFacts ==
    /\ \A status \in Statuses \cup {Gone} :
          /\ CountedAsRunning(status) => IsMachineRunning(status)
          /\ IsMachineRunning(status) =>
                CountedAsRunning(status) \/ status \in {"inactive", "unavailable", "connected"}
    /\ ~IsMachineRunning(Unknown)
BY MachineListAssumption DEF CountedAsRunning, IsMachineRunning, KeywordsIn, Gone, Unknown

(* The idle poll and one that starts to list. *)
LEMMA PollFacts ==
    /\ Idle \in Poll /\ Idle.pc = "idle" /\ Idle.why = "refresh"
    /\ [Idle EXCEPT !.pc = "reconciling"] \in Poll
    /\ [Idle EXCEPT !.pc = "reconciling"].pc = "reconciling"
    /\ \A why \in {"refresh", "ticket", "password", "again"} :
          Lists(why) \in Poll /\ Lists(why).pc = "listing" /\ Lists(why).why = why
BY DEF Idle, Lists, Poll, List

(* What TypeOK says of the polls. *)
PollsFit(polls) ==
    /\ polls \in [Pollers -> Poll]
    /\ \A r \in Requests : polls[r].why = "refresh" /\ polls[r].pc # "reconciling"

(* The top task's poll is none of a request's. *)
LEMMA PollerFacts ==
    Top \in Pollers /\ Top \notin Requests /\ Requests \subseteq Pollers
BY MachineListAssumption DEF Pollers

(* Nothing was told by a poll before the first. *)
LEMMA InitIInv == Init => IInv
<1> SUFFICES ASSUME Init PROVE IInv
    OBVIOUS
<1>1. power \in [Machines -> Statuses \cup {Gone}] /\ bare \in BOOLEAN
    BY DEF Init
<1>2. /\ machines \in List
      /\ \A m \in Machines : machines[m] \in Truth(power[m])
    BY <1>1, TruthFacts DEF Init, List, Truth
<1>3. PollsFit(poll) /\ \A p \in Pollers : poll[p].pc # "querying"
    BY PollFacts, PollerFacts DEF Init, PollsFit
<1>4. TypeOK
  <2>1. rows \in [Machines -> Statuses \cup {Unknown, NoRow}]
      BY DEF Init
  <2>2. changes \in 0..MaxChanges
      BY MachineListAssumption DEF Init
  <2>. QED
      BY <1>1, <1>2, <1>3, <2>1, <2>2 DEF Init, TypeOK, PollsFit
<1>5. ListsAreFresh
    BY <1>2, <1>3 DEF ListsAreFresh, At
<1>6. RunnersAreReconciled /\ RowsAreFresh
    BY DEF Init, RunnersAreReconciled, RowsAreFresh
<1>. QED
    BY <1>4, <1>5, <1>6 DEF IInv

(* What a poll goes on to is a poll, and holds no list. *)
LEMMA NextPollFacts ==
    ASSUME TypeOK, NEW p \in Pollers, NEW next, NEW failure \in Failures,
           next \in AfterList(p) \/ next \in AfterFailure(p, failure)
    PROVE  /\ next \in Poll /\ next.pc # "querying"
           /\ p \in Requests => next.why = "refresh" /\ next.pc # "reconciling"
<1>1. p \in Requests => p # Top /\ poll[p].why = "refresh"
    BY PollerFacts DEF TypeOK
<1>2. next \in {Idle, [Idle EXCEPT !.pc = "reconciling"],
               Lists("ticket"), Lists("password"), Lists("again")}
    BY DEF AfterList, AfterFailure, TypeOK, Poll, Pollers
<1>3. p \in Requests => next = Idle
    BY <1>1 DEF AfterList, AfterFailure
<1>. QED
    BY <1>2, <1>3, PollFacts

(* A poll that goes on to a step that holds no list keeps all the rest. *)
LEMMA PollKeepsIInv ==
    ASSUME IInv, NEW p \in Pollers, NEW next \in Poll, next.pc # "querying",
           p \in Requests => next.why = "refresh" /\ next.pc # "reconciling",
           poll' = [poll EXCEPT ![p] = next],
           UNCHANGED <<bare, power, changes, rows, machines, runners, history>>
    PROVE  IInv'
<1>1. TypeOK'
    BY DEF IInv, TypeOK, history
<1>2. ListsAreFresh'
    BY DEF IInv, TypeOK, ListsAreFresh, At, Truth, Mapped, history
<1>3. RunnersAreReconciled' /\ RowsAreFresh'
    BY DEF IInv, RunnersAreReconciled, RowsAreFresh, Truth, Mapped, history
<1>. QED
    BY <1>1, <1>2, <1>3 DEF IInv

(* A list that is true of what has not changed since it was asked for leaves the
   rows, or rt.machines, true when it is delivered.                        *)
LEMMA DeliveryKeepsIInv ==
    ASSUME IInv, NEW p \in Pollers, NEW list \in List, Delivered(p, list),
           \A m \in Machines \ poll[p].moved : list[m] \in Truth(power[m])
    PROVE  IInv'
<1>1. PICK next \in AfterList(p) : poll' = [poll EXCEPT ![p] = next]
    BY DEF Delivered
<1>2. UNCHANGED <<bare, power, changes, runners, topMoved, untold>>
    BY DEF Delivered
<1>3. PollsFit(poll) /\ poll[p].moved \subseteq Machines
    BY DEF IInv, TypeOK, PollsFit, Poll
<1>4. /\ next \in Poll /\ next.pc # "querying"
      /\ p \in Requests => next.why = "refresh" /\ next.pc # "reconciling"
    BY NextPollFacts DEF IInv, Failures
<1>5. PollsFit(poll')
    BY <1>1, <1>3, <1>4 DEF PollsFit
<1>6. \A q \in Pollers : poll'[q].pc = "querying" => poll'[q] = poll[q] /\ poll[q].pc = "querying"
    BY <1>1, <1>3, <1>4 DEF PollsFit
<1>7. RunnersAreReconciled'
    BY <1>2 DEF IInv, RunnersAreReconciled
<1>8. CASE p \notin Requests
  <2>1. machines' = list /\ listMoved' = poll[p].moved /\ UNCHANGED <<rows, rowMoved>>
      BY <1>8 DEF Delivered
  <2>2. TypeOK'
      BY <1>2, <1>3, <1>5, <2>1 DEF IInv, TypeOK, PollsFit
  <2>3. ListsAreFresh'
      BY <1>2, <1>6, <2>1 DEF IInv, ListsAreFresh, At, Truth, Mapped
  <2>4. RowsAreFresh'
      BY <1>2, <2>1 DEF IInv, RowsAreFresh, Truth, Mapped
  <2>. QED
      BY <1>7, <2>2, <2>3, <2>4 DEF IInv
<1>9. CASE p \in Requests
  <2> DEFINE seen == {m \in Machines : list[m] # Gone}
  <2>1. /\ rows' = Upserted(list)
        /\ rowMoved' = (rowMoved \ seen) \cup (poll[p].moved \cap seen)
        /\ UNCHANGED <<machines, listMoved>>
      BY <1>9 DEF Delivered
  <2>2. rows' = [m \in Machines |-> IF m \in seen THEN list[m] ELSE rows[m]]
      BY <2>1 DEF Upserted
  <2>3. rows' \in [Machines -> Statuses \cup {Unknown, NoRow}]
      BY <2>2 DEF List, IInv, TypeOK
  <2>4. TypeOK'
      BY <1>2, <1>3, <1>5, <2>1, <2>3 DEF IInv, TypeOK, PollsFit
  <2>5. ListsAreFresh'
      BY <1>2, <1>6, <2>1 DEF IInv, ListsAreFresh, At, Truth, Mapped
  <2>6. ASSUME NEW m \in Machines \ rowMoved'
        PROVE  rows'[m] \in {NoRow} \cup Truth(power[m])
    <3>1. CASE m \in seen
        BY <2>1, <2>2, <2>6, <3>1
    <3>2. CASE m \notin seen
      <4>1. m \notin rowMoved /\ rows'[m] = rows[m]
          BY <2>1, <2>2, <2>6, <3>2
      <4>. QED
          BY <4>1, <2>6 DEF IInv, RowsAreFresh
    <3>. QED
        BY <3>1, <3>2
  <2>7. RowsAreFresh'
      BY <1>2, <2>6 DEF RowsAreFresh, Truth, Mapped
  <2>. QED
      BY <1>7, <2>4, <2>5, <2>7 DEF IInv
<1>. QED
    BY <1>8, <1>9

(* Every step keeps the invariant. *)
LEMMA NextIInv == IInv /\ [Next]_vars => IInv'
<1> SUFFICES ASSUME IInv, [Next]_vars PROVE IInv'
    OBVIOUS
<1>1. /\ poll \in [Pollers -> Poll] /\ power \in [Machines -> Statuses \cup {Gone}]
      /\ \A p \in Pollers : poll[p] \in Poll
    BY DEF IInv, TypeOK
<1>2. ASSUME NEW p \in Pollers, Begins(p)
      PROVE  IInv'
  <2> DEFINE next == Lists("refresh")
  <2>1. next \in Poll /\ next.pc = "listing" /\ next.why = "refresh"
      BY PollFacts
  <2>2. /\ poll' = [poll EXCEPT ![p] = next]
        /\ UNCHANGED <<bare, power, changes, rows, machines, runners, history>>
      BY <1>2 DEF Begins
  <2> HIDE DEF next
  <2>. QED
      BY <2>1, <2>2, PollKeepsIInv
<1>3. ASSUME NEW p \in Pollers, ListAnswered(p)
      PROVE  IInv'
  <2> DEFINE list == [m \in Machines |-> Mapped(power[m])]
  <2>1. list \in List
      BY <1>1, TruthFacts DEF List
  <2>2. \A m \in Machines : list[m] \in Truth(power[m])
      BY DEF Truth
  <2>3. CASE \A m \in Machines : list[m] = Gone
    <3>1. Delivered(p, list)
        BY <1>3, <2>3 DEF ListAnswered
    <3>. QED
        BY <2>1, <2>2, <3>1, DeliveryKeepsIInv
  <2>4. CASE ~(\A m \in Machines : list[m] = Gone)
    <3>1. /\ poll' = [poll EXCEPT ![p].pc = "querying", ![p].list = list]
          /\ UNCHANGED <<bare, power, changes, rows, machines, runners, history>>
        BY <1>3, <2>4 DEF ListAnswered
    <3> HIDE DEF list
    <3>2. /\ poll' \in [Pollers -> Poll]
          /\ poll'[p].pc = "querying" /\ poll'[p].list = list
          /\ poll'[p].why = poll[p].why /\ poll'[p].moved = poll[p].moved
          /\ \A q \in Pollers \ {p} : poll'[q] = poll[q]
        BY <1>1, <2>1, <3>1 DEF Poll
    <3>3. TypeOK'
        BY <3>1, <3>2 DEF IInv, TypeOK, history, Pollers
    <3>4. ListsAreFresh'
        BY <2>2, <3>1, <3>2 DEF IInv, ListsAreFresh, At, Truth, Mapped, history
    <3>5. RunnersAreReconciled' /\ RowsAreFresh'
        BY <3>1 DEF IInv, RunnersAreReconciled, RowsAreFresh, Truth, Mapped, history
    <3>. QED
        BY <3>3, <3>4, <3>5 DEF IInv
  <2>. QED
      BY <2>3, <2>4
<1>4. ASSUME NEW p \in Pollers, ListFails(p)
      PROVE  IInv'
  <2>1. PICK failure \in Failures :
            \E next \in AfterFailure(p, failure) : poll' = [poll EXCEPT ![p] = next]
    <3> DEFINE failures == IF At(p, "listing") THEN Failures ELSE {"unmapped"}
    <3>1. failures \subseteq Failures
        BY DEF Failures
    <3>2. \E next \in UNION {AfterFailure(p, failure) : failure \in failures} :
              poll' = [poll EXCEPT ![p] = next]
        BY <1>4 DEF ListFails
    <3> HIDE DEF failures
    <3>. QED
        BY <3>1, <3>2
  <2>. PICK next \in AfterFailure(p, failure) : poll' = [poll EXCEPT ![p] = next]
      BY <2>1
  <2>2. /\ next \in Poll /\ next.pc # "querying"
        /\ p \in Requests => next.why = "refresh" /\ next.pc # "reconciling"
      BY NextPollFacts DEF IInv
  <2>3. UNCHANGED <<bare, power, changes, rows, machines, runners, history>>
      BY <1>4 DEF ListFails
  <2>. QED
      BY <2>2, <2>3, PollKeepsIInv
<1>5. ASSUME NEW p \in Pollers, StatusFails(p)
      PROVE  IInv'
  <2>1. poll[p].list \in List
      BY <1>1 DEF Poll
  <2>2. \A m \in Machines \ poll[p].moved : poll[p].list[m] \in Truth(power[m])
      BY <1>5 DEF IInv, ListsAreFresh, StatusFails
  <2>. QED
      BY <1>5, <2>1, <2>2, DeliveryKeepsIInv DEF StatusFails
<1>6. ASSUME NEW p \in Pollers, NEW known \in SUBSET Machines, StatusAnswered(p, known)
      PROVE  IInv'
  <2> DEFINE list == [m \in Machines |-> IF m \in known THEN power[m] ELSE poll[p].list[m]]
  <2>1. poll[p].list \in List
      BY <1>1 DEF Poll
  <2>2. list \in List
      BY <1>1, <2>1 DEF List
  <2>3. ASSUME NEW m \in Machines \ poll[p].moved
        PROVE  list[m] \in Truth(power[m])
      BY <1>6 DEF IInv, ListsAreFresh, StatusAnswered, Truth
  <2>4. Delivered(p, list)
      BY <1>6 DEF StatusAnswered
  <2>. QED
      BY <2>2, <2>3, <2>4, DeliveryKeepsIInv
<1>7. CASE Reconciles
  <2>1. /\ poll' = [poll EXCEPT ![Top] = Idle]
        /\ runners' = Reconciled(machines)
        /\ topMoved' = listMoved /\ untold' = {m \in Machines : machines[m] = Unknown}
        /\ UNCHANGED <<bare, power, changes, rows, machines, rowMoved, listMoved>>
      BY <1>7 DEF Reconciles
  <2>2. poll' \in [Pollers -> Poll] /\ \A p \in Pollers \ {Top} : poll'[p] = poll[p]
      BY <1>1, <2>1, PollFacts
  <2>3. poll'[Top].pc = "idle"
      BY <1>1, <2>1, PollFacts, PollerFacts
  <2>4. TypeOK'
      BY <2>1, <2>2, PollerFacts DEF IInv, TypeOK, Reconciled
  <2>5. ListsAreFresh'
      BY <2>1, <2>2, <2>3 DEF IInv, ListsAreFresh, At, Truth, Mapped
  <2>6. RowsAreFresh'
      BY <2>1 DEF IInv, RowsAreFresh, Truth, Mapped
  <2>7. ASSUME NEW m \in Machines \ listMoved
        PROVE  /\ m \in runners' <=> m \notin untold' /\ IsMachineRunning(power[m])
               /\ m \in untold' => bare
    <3>1. machines[m] \in Truth(power[m]) /\ power[m] \in Statuses \cup {Gone}
        BY <1>1 DEF IInv, ListsAreFresh
    <3>2. machines[m] = power[m] \/ (bare /\ machines[m] = Unknown)
        BY <3>1, TruthFacts
    <3>3. power[m] # Unknown
        BY <3>1, Words
    <3>4. m \in runners' <=> IsMachineRunning(machines[m])
        BY <2>1 DEF Reconciled
    <3>. QED
        BY <2>1, <3>2, <3>3, <3>4, ReadingFacts
  <2>8. RunnersAreReconciled'
      BY <2>1, <2>7 DEF RunnersAreReconciled
  <2>. QED
      BY <2>4, <2>5, <2>6, <2>8 DEF IInv
<1>8. ASSUME NEW m \in Machines, NEW status \in Statuses \cup {Gone}, PowerChanges(m, status)
      PROVE  IInv'
  <2>1. /\ changes < MaxChanges /\ changes' = changes + 1
        /\ power' = [power EXCEPT ![m] = status]
        /\ poll' = [p \in Pollers |-> IF At(p, "listing") \/ At(p, "querying")
                                        THEN [poll[p] EXCEPT !.moved = @ \cup {m}] ELSE poll[p]]
        /\ rowMoved' = rowMoved \cup {m} /\ listMoved' = listMoved \cup {m}
        /\ topMoved' = topMoved \cup {m}
        /\ UNCHANGED <<bare, rows, machines, runners, untold>>
      BY <1>8 DEF PowerChanges
  <2>2. ASSUME NEW p \in Pollers
        PROVE  /\ poll'[p] \in Poll /\ poll'[p].why = poll[p].why
               /\ poll'[p].pc = poll[p].pc /\ poll'[p].list = poll[p].list
               /\ poll[p].pc = "querying" => poll'[p].moved = poll[p].moved \cup {m}
      BY <1>1, <2>1 DEF Poll, At
  <2>3. TypeOK'
    <3>1. changes' \in 0..MaxChanges
        BY <2>1, MachineListAssumption DEF IInv, TypeOK
    <3>2. /\ poll' \in [Pollers -> Poll]
          /\ \A r \in Requests : poll'[r].why = "refresh" /\ poll'[r].pc # "reconciling"
        BY <2>1, <2>2, PollerFacts DEF IInv, TypeOK
    <3>. QED
        BY <2>1, <3>1, <3>2 DEF IInv, TypeOK
  <2>4. \A n \in Machines \ {m} : power'[n] = power[n]
      BY <1>1, <2>1
  <2>5. ListsAreFresh'
      BY <2>1, <2>2, <2>4 DEF IInv, ListsAreFresh, At, Truth, Mapped
  <2>6. RunnersAreReconciled' /\ RowsAreFresh'
      BY <2>1, <2>4 DEF IInv, RunnersAreReconciled, RowsAreFresh, Truth, Mapped
  <2>. QED
      BY <2>3, <2>5, <2>6 DEF IInv
<1>9. CASE UNCHANGED vars
    BY <1>9 DEF vars, history, IInv, TypeOK, ListsAreFresh, RunnersAreReconciled, RowsAreFresh,
                At, Truth, Mapped
<1>. QED
    BY <1>2, <1>3, <1>4, <1>5, <1>6, <1>7, <1>8, <1>9 DEF Next

(* The inductive invariant holds throughout. *)
LEMMA Invariance == Spec => []IInv
BY InitIInv, NextIInv, PTL DEF Spec

(* The types of MachineList. *)
THEOREM TypeCorrect == Spec => []TypeOK
<1>1. IInv => TypeOK
    BY DEF IInv
<1>. QED
    BY <1>1, Invariance, PTL

(* However requests overlap and queries fail, the row of a machine that has not
   changed since is true: an upsert never brings an older status back.     *)
THEOREM RowSafety == Spec => []RowsTellTheTruth
<1>1. IInv => RowsTellTheTruth
  <2> SUFFICES ASSUME IInv, NEW m \in Machines \ rowMoved
               PROVE  rows[m] = NoRow \/ rows[m] = power[m] \/ (bare /\ rows[m] = Unknown)
      BY DEF RowsTellTheTruth
  <2>1. rows[m] \in {NoRow} \cup Truth(power[m]) /\ power[m] \in Statuses \cup {Gone}
      BY DEF IInv, RowsAreFresh, TypeOK
  <2>. QED
      BY <2>1, TruthFacts
<1>. QED
    BY <1>1, Invariance, PTL

(* Whatever overwrites rt.machines: what the overview counts as running has its
   runner, and what has one reads as running, unless it changed since.     *)
THEOREM RunnerSafety == Spec => []RunnersFollowPower
<1>1. IInv => RunnersFollowPower
  <2> SUFFICES ASSUME IInv, NEW m \in Machines \ topMoved
               PROVE  /\ CountedAsRunning(power[m]) => m \in runners \/ m \in untold
                      /\ m \in untold => bare
                      /\ m \in runners =>
                            \/ CountedAsRunning(power[m])
                            \/ power[m] \in {"inactive", "unavailable", "connected"}
      BY DEF RunnersFollowPower
  <2>1. power[m] \in Statuses \cup {Gone}
      BY DEF IInv, TypeOK
  <2>2. /\ m \in runners <=> m \notin untold /\ IsMachineRunning(power[m])
        /\ m \in untold => bare
      BY DEF IInv, RunnersAreReconciled
  <2>. QED
      BY <2>1, <2>2, ReadingFacts
<1>. QED
    BY <1>1, Invariance, PTL
=============================================================================
