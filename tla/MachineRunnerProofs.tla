------------------------ MODULE MachineRunnerProofs ------------------------
(***************************************************************************)
(* Proofs about MachineRunner, for all delays and every bound: the type    *)
(* invariant and the safety invariants from the inductive invariant IInv,  *)
(* the action property on stopping runners, and the safety part of the     *)
(* refinement of RunnerLifecycle.                                          *)
(***************************************************************************)
EXTENDS MachineRunner, TLAPS

(* The helper on delays: a natural number, never above the maximum. *)
LEMMA DoubledBounded ==
    ASSUME NEW b \in Nat
    PROVE  Doubled(b) \in Nat /\ Doubled(b) <= MaxBackoff
BY BackoffAssumption DEF Doubled, Lesser

(* A saturating count of failures stays within its cap. *)
LEMMA FailureCounted ==
    ASSUME NEW n \in 0..FailureCap
    PROVE  Lesser(n + 1, FailureCap) \in 0..FailureCap
BY BoundsAssumption DEF Lesser

(* The invariant holds of a fresh runner. *)
LEMMA InitIInv == Init => IInv
<1> SUFFICES ASSUME Init PROVE IInv
    OBVIOUS
<1>1. TypeOK
  <2>1. gateways \in 0..MaxGateways /\ failures \in 0..FailureCap /\ attempt \in 0..1
    BY BoundsAssumption DEF Init
  <2>2. backoff \in Nat /\ currentBackoff \in Nat
    BY BackoffAssumption DEF Init
  <2>3. pc \in Waits /\ stopping \in BOOLEAN /\ csActionOk \in BOOLEAN
    BY DEF Init, Waits
  <2>. QED
    BY <2>1, <2>2, <2>3 DEF Init, TypeOK
<1>2. LinkFollowsTask /\ CancelFollowsStop
    BY DEF Init, LinkFollowsTask, CancelFollowsStop
<1>3. ReportFitsTask
    BY DEF Init, ReportFitsTask
<1>4. BackoffBounded
    BY DEF Init, BackoffBounded
<1>. QED
    BY <1>1, <1>2, <1>3, <1>4 DEF IInv

(* The top of the loop, entered by the first step and after each backoff with
   the delay that the next wait will use.                                   *)
LEMMA TopOfLoopKeepsIInv ==
    ASSUME NEW delay \in Nat, IInv, TopOfLoop(delay),
           pc \in {"created", "backoff"}, cancel # "pending",
           delay = InitialBackoff \/ delay <= MaxBackoff,
           backoff' = delay, UNCHANGED <<stopping, stopper, cancel, link>>
    PROVE  IInv'
<1>1. stopper = "none" /\ link = "none" /\ cancel = "none"
    BY DEF IInv, TypeOK, LinkFollowsTask, CancelFollowsStop
<1>2. attempt' \in 0..1 /\ csActionOk' \in BOOLEAN /\ stopping' \in BOOLEAN
  <2>1. attempt \in 0..1 /\ stopping \in BOOLEAN
    BY DEF IInv, TypeOK
  <2>2. csActionOk' = FALSE /\ (attempt' = attempt \/ attempt' = 1 - attempt)
    BY DEF TopOfLoop
  <2>3. attempt' \in 0..1
    BY <2>1, <2>2
  <2>4. csActionOk' \in BOOLEAN /\ stopping' \in BOOLEAN
    BY <2>1, <2>2, Zenon
  <2>. QED
    BY <2>3, <2>4
<1>3. CASE stopping
  <2>1. /\ pc' = "done" /\ state' = "stopped"
        /\ UNCHANGED <<gateways, currentBackoff, failures>>
    BY <1>3 DEF TopOfLoop
  <2>2. stopping'
    BY <1>3
  <2>. QED
    BY <1>1, <1>2, <2>1, <2>2
    DEF IInv, TypeOK, LinkFollowsTask, CancelFollowsStop, ReportFitsTask, BackoffBounded, Waits, InSession
<1>4. CASE ~stopping
  <2>1. BeginAttempt(delay)
    BY <1>4 DEF TopOfLoop
  <2>2. /\ gateways' \in 0..MaxGateways /\ failures' \in 0..FailureCap
        /\ \/ pc' = "dialing" /\ state' = "starting" /\ currentBackoff' = 0
           \/ pc' = "done" /\ state' = "starting" /\ currentBackoff' = 0
           \/ pc' = "backoff" /\ state' = "reconnecting" /\ currentBackoff' = delay
    BY <1>4, <2>1, FailureCounted, BoundsAssumption
    DEF BeginAttempt, SessionRaises, AfterSession, IInv, TypeOK
  <2>. QED
    BY <1>1, <1>2, <2>2
    DEF IInv, TypeOK, LinkFollowsTask, CancelFollowsStop, ReportFitsTask, BackoffBounded, Waits, InSession
<1>. QED
    BY <1>3, <1>4 DEF IInv, TypeOK

(* Every step of the supervisor, of a caller and of the network keeps it. *)
LEMMA NextIInv == IInv /\ [Next]_vars => IInv'
<1> SUFFICES ASSUME IInv, [Next]_vars PROVE IInv'
    OBVIOUS
<1> USE BackoffAssumption, BoundsAssumption, DoubledBounded, FailureCounted
    DEF IInv, TypeOK, LinkFollowsTask, CancelFollowsStop, ReportFitsTask, BackoffBounded, Waits, InSession
<1>1. CASE FirstStep
    BY <1>1, TopOfLoopKeepsIInv DEF FirstStep, At
<1>2. CASE DialOk
    BY <1>2 DEF DialOk, At, report
<1>3. CASE DialFails
    BY <1>3 DEF DialFails, At, NextGateway, SessionRaises, AfterSession, Lesser, report
<1>4. CASE HandshakeOk
    BY <1>4 DEF HandshakeOk, At, report
<1>5. CASE HandshakeFails
    BY <1>5 DEF HandshakeFails, At, CloseLink, report
<1>6. CASE HoldExpires
    BY <1>6 DEF HoldExpires, At, CloseLink, report
<1>7. CASE CloseDone
    BY <1>7 DEF CloseDone, SessionEnds, NextGateway, SessionRaises, AfterSession, Lesser, report, At
<1>8. CASE BackoffTimesOut
    BY <1>8, TopOfLoopKeepsIInv DEF BackoffTimesOut, At
<1>9. CASE BackoffInterrupted
    BY <1>9 DEF BackoffInterrupted, At, session
<1>10. CASE CancelDelivered
    BY <1>10 DEF CancelDelivered, CloseLink, Live, report
<1>11. CASE Unwound
    BY <1>11 DEF Unwound, session, report
<1>12. CASE Start
    BY <1>12 DEF Start, session, report
<1>13. CASE Stop
    BY <1>13 DEF Stop, session
<1>14. CASE StopReturns
    BY <1>14 DEF StopReturns, session
<1>15. CASE TriggerReconnect
    BY <1>15 DEF TriggerReconnect, session, report
<1>16. CASE LinkClosed
    BY <1>16 DEF LinkClosed, control, report
<1>17. CASE PeerDrops
    BY <1>17 DEF PeerDrops, control, report
<1>18. CASE UNCHANGED vars
    BY <1>18 DEF vars, control, session, report
<1>. QED
    BY <1>1, <1>2, <1>3, <1>4, <1>5, <1>6, <1>7, <1>8, <1>9, <1>10, <1>11, <1>12, <1>13, <1>14, <1>15, <1>16, <1>17, <1>18 DEF Next, Supervisor

(* The invariant is an invariant of every behaviour. *)
THEOREM Invariance == Spec => []IInv
BY InitIInv, NextIInv, PTL DEF Spec

(* Type correctness of the runner. *)
THEOREM TypeCorrect == Spec => []TypeOK
BY Invariance, PTL DEF IInv

(* No supervisor waits or ends on a connection it did not close. *)
THEOREM LinkSafety == Spec => []NoLinkLeftOpen
<1>1. IInv => NoLinkLeftOpen
    BY DEF IInv, LinkFollowsTask, NoLinkLeftOpen
<1>. QED
    BY <1>1, Invariance, PTL

(* What each published state says of the task: a connection is held only under
   "starting", "connected" is left by a task that died after its session, and
   only a task that was told to end is "stopped".                          *)
THEOREM ReportSafety == Spec => []ReportFitsTask
BY Invariance, PTL DEF IInv

(* The waited delay respects the settings, whatever the two settings are. *)
THEOREM BackoffSafety == Spec => []BackoffBounded
BY Invariance, PTL DEF IInv

(* A stop() that returned leaves nothing running. *)
THEOREM StopSafety == Spec => []StopMeansOver
<1>1. IInv => StopMeansOver
    BY DEF IInv, LinkFollowsTask, CancelFollowsStop, StopMeansOver
<1>. QED
    BY <1>1, Invariance, PTL

(* A runner told to stop begins no further attempt. *)
THEOREM StoppingStaysOut == Spec => NoAttemptOnceStopping
<1>1. IInv /\ [Next]_vars =>
        [stopping /\ pc \notin InSession => pc' \notin InSession]_vars
  <2> SUFFICES ASSUME IInv, [Next]_vars, stopping, pc \notin InSession
               PROVE  pc' \notin InSession
    OBVIOUS
  <2> USE DEF InSession
  <2>1. CASE FirstStep \/ BackoffTimesOut
    BY <2>1 DEF FirstStep, BackoffTimesOut, TopOfLoop
  <2>2. CASE DialOk \/ DialFails \/ HandshakeOk \/ HandshakeFails \/ HoldExpires
             \/ CloseDone \/ Unwound
    BY <2>2 DEF DialOk, DialFails, HandshakeOk, HandshakeFails, HoldExpires,
                CloseDone, Unwound, At
  <2>3. CASE BackoffInterrupted
    BY <2>3 DEF BackoffInterrupted
  <2>4. CASE CancelDelivered
    BY <2>4 DEF CancelDelivered
  <2>5. CASE Start \/ Stop \/ StopReturns \/ TriggerReconnect
    BY <2>5 DEF Start, Stop, StopReturns, TriggerReconnect
  <2>6. CASE LinkClosed \/ PeerDrops \/ UNCHANGED vars
    BY <2>6 DEF LinkClosed, PeerDrops, vars, control
  <2>. QED
    BY <2>1, <2>2, <2>3, <2>4, <2>5, <2>6 DEF Next, Supervisor
<1>. QED
    BY <1>1, Invariance, PTL DEF Spec, NoAttemptOnceStopping

(* Every step of a runner is a step of the lifecycle or leaves it alone. *)
LEMMA StepRefines ==
    IInv /\ [Next]_vars => [Lifecycle!Next]_(Lifecycle!lifecycleVars)
<1> SUFFICES ASSUME IInv, [Next]_vars
             PROVE  Lifecycle!Next \/ UNCHANGED Lifecycle!lifecycleVars
    OBVIOUS
<1> USE DEF Lifecycle!Next, Lifecycle!lifecycleVars, IInv, TypeOK, Waits
<1>1. CASE FirstStep \/ BackoffTimesOut \/ DialFails \/ CloseDone
  <2>1. /\ pc \in Live /\ pc' \in Live \cup {"done"} /\ UNCHANGED <<stopper, link>>
        /\ link # "open"
    BY <1>1 DEF FirstStep, BackoffTimesOut, DialFails, CloseDone, At, TopOfLoop,
        BeginAttempt, NextGateway, SessionEnds, SessionRaises, AfterSession,
        Live, LinkFollowsTask
  <2>. QED
    BY <2>1 DEF Lifecycle!End, Live
<1>2. CASE DialOk
    BY <1>2 DEF DialOk, At, Lifecycle!Open, LinkFollowsTask
<1>3. CASE HandshakeFails \/ HoldExpires
    BY <1>3 DEF HandshakeFails, HoldExpires, At, CloseLink, Lifecycle!Close
<1>4. CASE HandshakeOk
    BY <1>4 DEF HandshakeOk, At
<1>5. CASE BackoffInterrupted
    BY <1>5 DEF BackoffInterrupted, At, session, Lifecycle!End, LinkFollowsTask
<1>6. CASE CancelDelivered
    BY <1>6 DEF CancelDelivered, Live, CloseLink, Lifecycle!Close, Lifecycle!End,
        LinkFollowsTask
<1>7. CASE Unwound
    BY <1>7 DEF Unwound, session, Lifecycle!End
<1>8. CASE Start
    BY <1>8 DEF Start, session, Lifecycle!Start
<1>9. CASE Stop
    BY <1>9 DEF Stop, session, Lifecycle!Ask
<1>10. CASE StopReturns \/ TriggerReconnect
    BY <1>10 DEF StopReturns, TriggerReconnect, session
<1>11. CASE LinkClosed \/ PeerDrops
    BY <1>11 DEF LinkClosed, PeerDrops, control, Lifecycle!Gone
<1>12. CASE UNCHANGED vars
    BY <1>12 DEF vars, control, session
<1>. QED
    BY <1>1, <1>2, <1>3, <1>4, <1>5, <1>6, <1>7, <1>8, <1>9, <1>10, <1>11, <1>12
    DEF Next, Supervisor

(* A runner is a RunnerLifecycle: what the service relies on. *)
THEOREM Refinement == Spec => ImplementsLifecycle
<1>1. Init => Lifecycle!Init
    BY DEF Init, Lifecycle!Init
<1>. QED
    BY <1>1, StepRefines, Invariance, PTL DEF Spec, ImplementsLifecycle, Lifecycle!Spec

-----------------------------------------------------------------------------
(* The attempts the supervisor awaits.                                     *)

LEMMA FlagKept == IInv /\ FlagFollowsTask /\ [Next]_vars => FlagFollowsTask'
<1> SUFFICES ASSUME IInv, FlagFollowsTask, [Next]_vars PROVE FlagFollowsTask'
    OBVIOUS
<1> USE DEF FlagFollowsTask
<1>1. CASE FirstStep \/ BackoffTimesOut
    BY <1>1 DEF FirstStep, BackoffTimesOut, TopOfLoop, BeginAttempt, SessionRaises, AfterSession
<1>2. CASE DialFails \/ CloseDone
    BY <1>2 DEF DialFails, CloseDone, At, NextGateway, SessionEnds, SessionRaises, AfterSession
<1>3. CASE DialOk \/ HandshakeOk \/ HandshakeFails \/ HoldExpires
    BY <1>3 DEF DialOk, HandshakeOk, HandshakeFails, HoldExpires, At
<1>4. CASE BackoffInterrupted \/ CancelDelivered \/ Unwound
    BY <1>4 DEF BackoffInterrupted, CancelDelivered, Unwound, session
<1>5. CASE Start \/ Stop \/ StopReturns \/ TriggerReconnect
    BY <1>5 DEF Start, Stop, StopReturns, TriggerReconnect, session
<1>6. CASE LinkClosed \/ PeerDrops \/ UNCHANGED vars
    BY <1>6 DEF LinkClosed, PeerDrops, vars, control, session
<1>. QED
    BY <1>1, <1>2, <1>3, <1>4, <1>5, <1>6 DEF Next, Supervisor

(* A step from outside an attempt may begin one; a step inside is one of its own
   or leaves it alone.                                                     *)
LEMMA StepOfAttempt ==
    ASSUME IInv, FlagFollowsTask, [Next]_vars
    PROVE  /\ pc \notin InSession /\ pc' \in InSession => Attempt!Init'
           /\ pc \in InSession => Attempt!Next \/ UNCHANGED Attempt!attemptVars
<1> USE DEF InSession, Attempt!Init, Attempt!attemptVars, Attempt!Next
<1>1. CASE FirstStep \/ BackoffTimesOut
  <2>1. pc \in {"created", "backoff"} /\ csActionOk' = FALSE
        /\ pc' \in {"dialing", "backoff", "done"}
    BY <1>1 DEF FirstStep, BackoffTimesOut, At, TopOfLoop, BeginAttempt, SessionRaises, AfterSession
  <2>. QED
    BY <2>1
<1>2. CASE DialFails
  <2>1. /\ pc = "dialing" /\ ~csActionOk /\ UNCHANGED csActionOk /\ UNCHANGED cancel
        /\ cancel # "raised" /\ pc' \in {"dialing", "backoff", "done"}
    BY <1>2 DEF DialFails, At, NextGateway, SessionRaises, AfterSession, FlagFollowsTask,
        IInv, CancelFollowsStop
  <2>. QED
    BY <2>1 DEF Attempt!Fail
<1>3. CASE CloseDone
  <2>1. /\ pc = "closing" /\ UNCHANGED csActionOk /\ cancel = "none" /\ cancel' = "none"
        /\ IF csActionOk THEN pc' \in {"backoff", "done"} ELSE pc' \in {"dialing", "backoff", "done"}
    BY <1>3 DEF CloseDone, At, NextGateway, SessionEnds, SessionRaises, AfterSession
  <2>2. CASE csActionOk
    BY <2>1, <2>2 DEF Attempt!Succeed
  <2>3. CASE ~csActionOk
    BY <2>1, <2>3 DEF Attempt!Fail, Attempt!Gone
  <2>. QED
    BY <2>2, <2>3
<1>4. CASE DialOk
    BY <1>4 DEF DialOk, At, FlagFollowsTask, Attempt!Open
<1>5. CASE HandshakeOk
    BY <1>5 DEF HandshakeOk, At, FlagFollowsTask, Attempt!Hold
<1>6. CASE HandshakeFails \/ HoldExpires
    BY <1>6 DEF HandshakeFails, HoldExpires, At, Attempt!Close
<1>7. CASE CancelDelivered
  <2>1. /\ UNCHANGED csActionOk /\ cancel' = "raised" /\ pc \in Live
        /\ pc' = IF pc \in {"handshaking", "holding"} THEN "closing" ELSE "done"
    BY <1>7 DEF CancelDelivered
  <2>2. CASE pc \in {"handshaking", "holding"}
    BY <2>1, <2>2 DEF Attempt!Close
  <2>3. CASE pc \in {"dialing", "closing"}
    BY <2>1, <2>3 DEF Attempt!Cancelled
  <2>4. CASE pc \in {"created", "backoff"}
    BY <2>1, <2>4
  <2>. QED
    BY <2>1, <2>2, <2>3, <2>4 DEF Live, Waits
<1>8. CASE Unwound
    BY <1>8 DEF Unwound, session, Attempt!Cancelled
<1>9. CASE BackoffInterrupted
    BY <1>9 DEF BackoffInterrupted, At
<1>10. CASE Start \/ Stop \/ StopReturns \/ TriggerReconnect
  <2>1. UNCHANGED csActionOk /\ (pc' = pc \/ (pc = "new" /\ pc' = "created"))
    BY <1>10 DEF Start, Stop, StopReturns, TriggerReconnect, session
  <2>. QED
    BY <2>1
<1>11. CASE LinkClosed \/ PeerDrops \/ UNCHANGED vars
  <2>1. UNCHANGED <<pc, csActionOk, cancel>>
    BY <1>11 DEF LinkClosed, PeerDrops, vars, control, session
  <2>. QED
    BY <2>1
<1>. QED
    BY <1>1, <1>2, <1>3, <1>4, <1>5, <1>6, <1>7, <1>8, <1>9, <1>10, <1>11
    DEF Next, Supervisor

(* Every attempt the supervisor makes is a DesktopAttempt from its first dial to
   its end, cancelled, failed or held: what connect_desktop promises
   (CagConnectProofs) is what the supervisor is modelled to get.           *)
THEOREM AttemptSafety == Spec => AttemptsKeepPromise
<1>1. Init => FlagFollowsTask
    BY DEF Init, FlagFollowsTask
<1>2. Spec => []FlagFollowsTask
    BY <1>1, FlagKept, Invariance, PTL DEF Spec
<1>3. IInv /\ FlagFollowsTask /\ [Next]_vars =>
          [/\ pc \notin InSession /\ pc' \in InSession => Attempt!Init'
           /\ pc \in InSession => [Attempt!Next]_(Attempt!attemptVars)]_vars
    BY StepOfAttempt
<1>. QED
    BY <1>2, <1>3, Invariance, PTL DEF Spec, AttemptsKeepPromise
=============================================================================
