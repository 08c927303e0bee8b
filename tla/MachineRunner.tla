---------------------------- MODULE MachineRunner ----------------------------
(***************************************************************************)
(* One MachineRunner of keepalive.py: the supervisor task that builds a    *)
(* desktop session through the machine's CAG gateways, holds it, closes it *)
(* and waits out a backoff before the next one, together with the calls    *)
(* other tasks make on it (start, stop, trigger_reconnect) and the events  *)
(* of the network.  asyncio runs one task at a time and switches only at   *)
(* an await, so an action is what runs from one await to the next.         *)
(***************************************************************************)
EXTENDS Naturals

CONSTANTS
    InitialBackoff,  \* settings.forever_reconnect_initial_backoff_sec
    MaxBackoff,      \* settings.forever_reconnect_max_backoff_sec
    MaxGateways,     \* bound: usable entries of one machine's cagList
    FailureCap       \* bound: consecutive_failures is counted up to here

\* Settings reads both delays from the environment and checks neither.
ASSUME BackoffAssumption == InitialBackoff \in Nat /\ MaxBackoff \in Nat
ASSUME BoundsAssumption == MaxGateways \in Nat /\ FailureCap \in Nat \ {0}

VARIABLES
    pc,          \* the await the supervisor task is suspended at
    stopping,    \* the event _stopping
    stopper,     \* calls of stop(): "none", "waiting" for the task, one "returned"
    cancel,      \* CancelledError: "none", "pending" at the await, "raised" (unwinding)
    link,        \* the gateway connection: "none", "open", "closing"
    gateways,    \* gateways of this attempt still to be tried
    csActionOk,  \* result.cs_action_ok of the attempt under way
    backoff,     \* local variable of _supervisor
    state,       \* stats.state
    currentBackoff,  \* stats.current_backoff_sec
    failures,        \* stats.consecutive_failures
    attempt          \* history: attempts begun, modulo 2, to tell one from the next

control == <<pc, stopping, stopper, cancel>>
session == <<link, gateways, csActionOk>>
report  == <<state, currentBackoff, failures>>
vars == <<control, session, backoff, report, attempt>>

Waits == {"new", "created", "dialing", "handshaking", "holding", "closing",
          "backoff", "done"}
InSession == {"dialing", "handshaking", "holding", "closing"}
Live == Waits \ {"new", "done"}

TypeOK ==
    /\ pc \in Waits
    /\ stopping \in BOOLEAN
    /\ stopper \in {"none", "waiting", "returned"}
    /\ cancel \in {"none", "pending", "raised"}
    /\ link \in {"none", "open", "closing"}
    /\ gateways \in 0..MaxGateways
    /\ csActionOk \in BOOLEAN
    /\ backoff \in Nat
    /\ state \in {"starting", "connected", "reconnecting", "stopped"}
    /\ currentBackoff \in Nat
    /\ failures \in 0..FailureCap
    /\ attempt \in 0..1

Init ==
    /\ pc = "new" /\ stopping = FALSE /\ stopper = "none" /\ cancel = "none"
    /\ link = "none" /\ gateways = 0 /\ csActionOk = FALSE
    /\ backoff = InitialBackoff
    /\ state = "starting" /\ currentBackoff = 0 /\ failures = 0 /\ attempt = 0

-----------------------------------------------------------------------------
(* Pieces of the supervisor that run without an await.                     *)

Lesser(a, b) == IF a <= b THEN a ELSE b
Doubled(b) == Lesser(2 * b, MaxBackoff)

(* After the attempt: leave if stopping, else publish and start the wait. *)
AfterSession(delay) ==
    IF stopping
      THEN /\ pc' = "done"
           /\ state' = "stopped"
           /\ currentBackoff' = 0
      ELSE /\ pc' = "backoff"
           /\ state' = "reconnecting"
           /\ currentBackoff' = delay

(* The handler of a failed attempt.  Its db.add_log may raise (a locked or
   full database): nothing catches that, and the task dies reporting what it
   reported last; current_backoff_sec is 0 since the top of the loop.       *)
SessionRaises(counted, reported, delay) ==
    /\ failures' = Lesser(counted + 1, FailureCap)
    /\ \/ AfterSession(delay)
       \/ /\ pc' = "done"
          /\ state' = reported
          /\ currentBackoff' = 0

(* An attempt begins: no credentials, no usable gateway, or the first dial. *)
BeginAttempt(delay) ==
    \E n \in 0..MaxGateways :
        \/ /\ n = 0
           /\ SessionRaises(failures, "starting", delay)
           /\ UNCHANGED gateways
        \/ /\ n > 0
           /\ gateways' = n - 1
           /\ pc' = "dialing"
           /\ state' = "starting"
           /\ currentBackoff' = 0
           /\ UNCHANGED failures

(* Plausible bug: while True. *)
TopOfLoopUnguarded(delay) ==
    /\ csActionOk' = FALSE
    /\ BeginAttempt(delay)
    /\ attempt' = 1 - attempt

(* while not self._stopping.is_set(): ... *)
TopOfLoop(delay) ==
    /\ csActionOk' = FALSE
    /\ IF stopping
         THEN /\ pc' = "done"
              /\ state' = "stopped"
              /\ UNCHANGED <<gateways, currentBackoff, failures, attempt>>
         ELSE BeginAttempt(delay) /\ attempt' = 1 - attempt

(* Plausible bug: one gateway too many. *)
NextGatewayOffByOne ==
    /\ gateways' = gateways - 1
    /\ pc' = "dialing"
    /\ UNCHANGED report

(* The gateway failed: dial the next one, or fail the attempt. *)
NextGateway ==
    IF gateways > 0
      THEN /\ gateways' = gateways - 1
           /\ pc' = "dialing"
           /\ UNCHANGED report
      ELSE /\ SessionRaises(failures, "starting", backoff)
           /\ UNCHANGED gateways

-----------------------------------------------------------------------------
(* Steps of the supervisor task.  A pending cancellation is delivered at   *)
(* the await before anything else the await was waiting for.               *)

At(wait) == pc = wait /\ cancel # "pending"

FirstStep ==
    /\ At("created")
    /\ TopOfLoop(backoff)
    /\ UNCHANGED <<stopping, stopper, cancel, link, backoff>>

DialOk ==
    /\ At("dialing")
    /\ link' = "open"
    /\ pc' = "handshaking"
    /\ UNCHANGED <<stopping, stopper, cancel, gateways, csActionOk, backoff, report, attempt>>

DialFails ==
    /\ At("dialing")
    /\ NextGateway
    /\ UNCHANGED <<stopping, stopper, cancel, link, csActionOk, backoff, attempt>>

HandshakeOk ==
    /\ At("handshaking")
    /\ link = "open"
    /\ csActionOk' = TRUE
    /\ pc' = "holding"
    /\ UNCHANGED <<stopping, stopper, cancel, link, gateways, backoff, report, attempt>>

(* Plausible bug: no finally around the handshake and the hold. *)
CloseLinkForgotten == UNCHANGED link

(* finally: await client.close() *)
CloseLink == link' = IF link = "open" THEN "closing" ELSE link

HandshakeFails ==
    /\ At("handshaking")
    /\ CloseLink
    /\ pc' = "closing"
    /\ UNCHANGED <<stopping, stopper, cancel, gateways, csActionOk, backoff, report, attempt>>

HoldExpires ==
    /\ At("holding")
    /\ CloseLink
    /\ pc' = "closing"
    /\ UNCHANGED <<stopping, stopper, cancel, gateways, csActionOk, backoff, report, attempt>>

(* A held session is a success: the failure count restarts and "connected"
   is published, to be overwritten before the next await.  If the success
   cannot be logged the attempt counts as one failure.                     *)
SessionEnds ==
    \/ /\ failures' = 0
       /\ AfterSession(backoff)
    \/ SessionRaises(0, "connected", backoff)

CloseDone ==
    /\ At("closing")
    /\ cancel = "none"
    /\ link = "none"
    /\ IF csActionOk
         THEN SessionEnds /\ UNCHANGED gateways
         ELSE NextGateway
    /\ UNCHANGED <<stopping, stopper, cancel, link, csActionOk, backoff, attempt>>

(* Plausible bug: the event awaited without a timeout. *)
BackoffWaitsForever ==
    /\ At("backoff")
    /\ stopping
    /\ TopOfLoop(backoff)
    /\ UNCHANGED <<stopping, stopper, cancel, link, backoff>>

(* wait_for timed out: double the delay and go round the loop. *)
BackoffTimesOut ==
    /\ At("backoff")
    /\ backoff' = Doubled(backoff)
    /\ TopOfLoop(Doubled(backoff))
    /\ UNCHANGED <<stopping, stopper, cancel, link>>

(* The wait ends because _stopping was set. *)
BackoffInterrupted ==
    /\ At("backoff")
    /\ stopping
    /\ pc' = "done"
    /\ state' = "stopped"
    /\ UNCHANGED <<stopping, stopper, cancel, session, backoff, currentBackoff, failures, attempt>>

(* Plausible bug: the close is skipped when the hold is cancelled. *)
CancelSkipsClose ==
    /\ cancel = "pending"
    /\ pc \in Live
    /\ cancel' = "raised"
    /\ pc' = "done"
    /\ UNCHANGED <<stopping, stopper, gateways, csActionOk, link, backoff, report, attempt>>

(* CancelledError at the await: the connection is closed on the way out. *)
CancelDelivered ==
    /\ cancel = "pending"
    /\ pc \in Live
    /\ cancel' = "raised"
    /\ IF pc \in {"handshaking", "holding"}
         THEN CloseLink /\ pc' = "closing"
         ELSE pc' = "done" /\ UNCHANGED link
    /\ UNCHANGED <<stopping, stopper, gateways, csActionOk, backoff, report, attempt>>

Unwound ==
    /\ pc = "closing"
    /\ cancel = "raised"
    /\ link = "none"
    /\ pc' = "done"
    /\ UNCHANGED <<stopping, stopper, cancel, session, backoff, report, attempt>>

-----------------------------------------------------------------------------
(* Calls on the runner.                                                    *)

(* The service starts a runner once, right after it has built it. *)
Start ==
    /\ pc = "new"
    /\ pc' = "created"
    /\ stopping' = FALSE
    /\ UNCHANGED <<stopper, cancel, session, backoff, report, attempt>>

(* Plausible bug: "stopped" is reported before the task has been awaited. *)
StopLabelsFirst ==
    /\ pc # "new"
    /\ stopping' = TRUE
    /\ stopper' = "waiting"
    /\ cancel' = "pending"
    /\ state' = "stopped"
    /\ UNCHANGED <<pc, session, backoff, currentBackoff, failures, attempt>>

(* Plausible bug: the cancelled task is not awaited. *)
StopDoesNotWait ==
    /\ pc # "new"
    /\ stopping' = TRUE
    /\ stopper' = "returned"
    /\ cancel' = IF pc = "done" THEN cancel ELSE "pending"
    /\ state' = "stopped"
    /\ UNCHANGED <<pc, session, backoff, currentBackoff, failures, attempt>>

(* Plausible bug: the task is awaited before it is told to stop. *)
StopAsksLate ==
    /\ pc # "new"
    /\ stopper = "none"
    /\ stopper' = "waiting"
    /\ UNCHANGED <<pc, stopping, cancel, session, backoff, report, attempt>>

(* Calls of stop() may overlap: a reconcile pops the runner that a stop of its
   account is waiting for and stops it again.  Each cancels the task anew, also
   in the close that an earlier cancellation led to; one that finds the task
   done returns at once.                                                   *)
Stop ==
    /\ pc # "new"
    /\ stopping' = TRUE
    /\ IF pc = "done"
         THEN /\ stopper' = "returned"
              /\ state' = "stopped"
              /\ UNCHANGED cancel
         ELSE /\ stopper' = "waiting"
              /\ cancel' = "pending"
              /\ UNCHANGED state
    /\ UNCHANGED <<pc, session, backoff, currentBackoff, failures, attempt>>

(* Whoever waits for the task goes on when it is done. *)
StopReturns ==
    /\ stopper = "waiting"
    /\ pc = "done"
    /\ stopper' = "returned"
    /\ state' = "stopped"
    /\ UNCHANGED <<pc, stopping, cancel, session, backoff, currentBackoff, failures, attempt>>

TriggerReconnect ==
    /\ pc # "new"
    /\ stopping' = TRUE
    /\ UNCHANGED <<pc, stopper, cancel, session, backoff, report, attempt>>

-----------------------------------------------------------------------------
(* The network.                                                            *)

LinkClosed ==
    /\ link = "closing"
    /\ link' = "none"
    /\ UNCHANGED <<control, gateways, csActionOk, backoff, report, attempt>>

PeerDrops ==
    /\ link = "open"
    /\ link' = "none"
    /\ UNCHANGED <<control, gateways, csActionOk, backoff, report, attempt>>

-----------------------------------------------------------------------------
Supervisor ==
    \/ FirstStep \/ DialOk \/ DialFails \/ HandshakeOk \/ HandshakeFails
    \/ HoldExpires \/ CloseDone \/ BackoffTimesOut \/ BackoffInterrupted
    \/ CancelDelivered \/ Unwound

Next ==
    \/ Supervisor
    \/ Start \/ Stop \/ StopReturns \/ TriggerReconnect
    \/ LinkClosed \/ PeerDrops

Spec == Init /\ [][Next]_vars

(* Every await of the supervisor ends: dial, handshake reads, hold and
   backoff have timeouts, and a transport that was told to close is closed.
   Nothing obliges anybody to call stop or trigger_reconnect.              *)
Fairness ==
    /\ WF_vars(Supervisor)
    /\ WF_vars(LinkClosed)
    /\ WF_vars(StopReturns)

FairSpec == Spec /\ Fairness

-----------------------------------------------------------------------------
(* Properties.                                                             *)

(* The supervisor never ends, and never waits out a backoff, with a gateway
   connection it did not tell to close: connect_desktop's finally covers the
   failed handshake, the expired hold and the cancellation alike.          *)
NoLinkLeftOpen == link = "open" => pc \in {"handshaking", "holding"}

(* What the published state and delay say of the task.  "starting": it has not
   begun, is in an attempt, holds its connection, or was cancelled there;
   "reconnecting": it waits out the delay shown, without a connection, or was
   cancelled there and stop() has yet to relabel it; "connected": a log write
   killed it after a session, whose connection is closed; "stopped": it is over
   because it was told to be.  A task that died without being told stays
   "starting" or "connected", until somebody calls stop().  So the runners that
   _reconcile_machine_runners counts as connected hold no connection, and those
   that hold one are counted as starting.                                  *)
ReportFitsTask ==
    /\ pc \in {"new", "created"} \cup InSession => state = "starting" /\ currentBackoff = 0
    /\ pc = "backoff" => state = "reconnecting" /\ currentBackoff = backoff
    /\ state = "reconnecting" =>
          /\ pc = "backoff" \/ (pc = "done" /\ stopper = "waiting")
          /\ link = "none"
    /\ state = "connected" => pc = "done" /\ link = "none"
    /\ state = "stopped" => pc = "done" /\ stopping
    /\ pc = "done" /\ ~stopping => state \in {"starting", "connected"} /\ currentBackoff = 0
    /\ currentBackoff # 0 => state \in {"reconnecting", "stopped"}

(* The delay is the configured first one or within the configured maximum,
   however the two settings compare and however long the runner lives.     *)
BackoffBounded ==
    /\ backoff = InitialBackoff \/ backoff <= MaxBackoff
    /\ currentBackoff \in {0, InitialBackoff} \/ currentBackoff <= MaxBackoff

(* stop() returns only when the task is over: nobody who awaited it can see
   the runner dial, hold or write its report again.                        *)
StopMeansOver ==
    stopper = "returned" => pc = "done" /\ link # "open" /\ state = "stopped"

(* Once _stopping is set no new attempt begins: a runner outside a session
   stays outside, whichever of the timeout and the event wakes it first.   *)
NoAttemptOnceStopping ==
    [][stopping /\ pc \notin InSession => pc' \notin InSession]_vars

(* stop() always returns, and by then or later the connection is gone.     *)
StopCompletes == stopper = "waiting" ~> (stopper = "returned" /\ link = "none")

(* No runner hangs: until its task ends it makes one attempt after another,
   whether the machine has usable gateways, drops, or is never reachable.  *)
KeepsTrying == \A k \in 0..1 : pc # "new" ~> (attempt = k \/ pc = "done")

(* The runner is a RunnerLifecycle: a task that starts once, holds at most
   one link, and ends for good with no link open.                          *)
Lifecycle == INSTANCE RunnerLifecycle WITH
    phase <- CASE pc = "new" -> "new" [] pc = "done" -> "ended" [] OTHER -> "live",
    asked <- stopper # "none"
ImplementsLifecycle == Lifecycle!Spec

(* Every attempt of the supervisor is a DesktopAttempt, which is what the call
   it awaits promises (CagConnect): from the first dial to the end of the call.
   A connection the peer dropped is still the attempt's until it closes it. *)
Attempt == INSTANCE DesktopAttempt WITH
    phase <- IF pc \notin InSession THEN "over"
             ELSE IF csActionOk THEN "held" ELSE "trying",
    link <- IF pc \in {"handshaking", "holding"} THEN "open"
            ELSE IF pc = "closing" THEN "closing" ELSE "none",
    verdict <- IF pc \in InSession THEN "none"
               ELSE IF cancel = "raised" THEN "cancelled"
               ELSE IF csActionOk THEN "ok" ELSE "failed"
AttemptsKeepPromise ==
    [][/\ pc \notin InSession /\ pc' \in InSession => Attempt!Init'
       /\ pc \in InSession => [Attempt!Next]_(Attempt!attemptVars)]_vars

(* Why: csActionOk tells an attempt that tries from one that holds a session. *)
FlagFollowsTask ==
    /\ pc \in {"dialing", "handshaking"} => ~csActionOk
    /\ pc = "holding" => csActionOk

(* Why they hold, as one inductive invariant: where the task may be given
   its link and its cancellation, beside its report.                       *)
LinkFollowsTask ==
    /\ link = "open" => pc \in {"handshaking", "holding"}
    /\ link = "closing" => pc \in {"closing", "done"}
CancelFollowsStop ==
    /\ stopper = "none" => cancel = "none"
    /\ stopper = "waiting" => stopping /\ cancel # "none"
    /\ stopper = "returned" => pc = "done" /\ state = "stopped"
    /\ pc = "new" => stopper = "none"
    /\ cancel = "raised" => pc \in {"closing", "done"}
IInv ==
    /\ TypeOK
    /\ LinkFollowsTask
    /\ CancelFollowsStop
    /\ ReportFitsTask
    /\ BackoffBounded

-----------------------------------------------------------------------------
(* What the code's documents say of a runner and the code does not do.     *)

(* main.py, api_ka_trigger: "trigger one desktop session by hand": a runner
   that waits out its backoff and is triggered goes on to a session (unless
   it is stopped).                                                         *)
TriggerOpensSession ==
    (pc = "backoff" /\ stopping /\ stopper = "none") ~> (pc \in InSession \/ stopper # "none")
=============================================================================
