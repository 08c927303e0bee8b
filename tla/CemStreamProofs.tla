--------------------------- MODULE CemStreamProofs ---------------------------
(***************************************************************************)
(* Proofs about CemStream, for any number of frames under way: a session   *)
(* leaves nothing behind, hears its cancellation, and keeps the promise of *)
(* DesktopAttempt.                                                         *)
(***************************************************************************)
EXTENDS CemStream, SequenceTheorems, TLAPS

(* The cancellation of run() reaches the loops or waits for run(). *)
LEMMA CancelRunFacts ==
    ASSUME TypeOK, CancelRun
    PROVE  /\ runCancel' \in BOOLEAN /\ loopCancel' \subseteq Loops
           /\ loopCancel' = loopCancel \/ (loopCancel' = Alive /\ Gathers)
BY DEF CancelRun, TypeOK, Alive, Gathers

(* Before the session nothing is connected and nothing runs. *)
LEMMA InitIInv == Init => IInv
<1> SUFFICES ASSUME Init PROVE IInv
    OBVIOUS
<1>1. inbox \in Seq(Frames) /\ Len(inbox) <= MaxInbox
    BY InboxAssumption, EmptySeq DEF Init
<1>2. TypeOK
  <2>1. mode \in [kind : {"simulate", "context"}, awaitsPush : BOOLEAN, tells : BOOLEAN]
    <3>1. CASE mode = [kind |-> "simulate", awaitsPush |-> FALSE, tells |-> FALSE]
        BY <3>1
    <3>2. CASE mode \in [kind : {"context"}, awaitsPush : BOOLEAN, tells : BOOLEAN]
        BY <3>2
    <3>. QED
        BY <3>1, <3>2 DEF Init
  <2>2. hasTicket \in BOOLEAN /\ accepted \in BOOLEAN /\ connected \in BOOLEAN /\ runCancel \in BOOLEAN
      BY DEF Init
  <2>3. /\ pc = "start" /\ cancel = "none" /\ ending = "none" /\ link = "none" /\ run = "none"
        /\ gather = "pending" /\ loop \in [Loops -> {"none"}] /\ loopCancel = {} /\ told = 0
      BY DEF Init
  <2>. QED
      BY <1>1, <2>1, <2>2, <2>3 DEF TypeOK
<1>. QED
    BY <1>2 DEF Init, IInv, LinkFollowsSession, EndingFollowsSession, LoopsFollowRun, Alive

(* A frame is read off the front. *)
LEMMA InboxFacts ==
    ASSUME TypeOK
    PROVE  /\ inbox # <<>> => /\ Tail(inbox) \in Seq(Frames) /\ Len(Tail(inbox)) <= MaxInbox
                              /\ Head(inbox) \in Frames
           /\ \A frame \in Frames : Len(inbox) < MaxInbox =>
                 Append(inbox, frame) \in Seq(Frames) /\ Len(Append(inbox, frame)) <= MaxInbox
BY InboxAssumption, HeadTailProperties, AppendProperties DEF TypeOK

(* The steps of the session and of whoever awaits it. *)
LEMMA SessionKeepsIInv ==
    ASSUME IInv,
           Begin \/ Session \/ CallerCancels \/ BodyRuns \/ BodyCancels \/ BodyLeaves
    PROVE  IInv'
<1> USE DEF IInv, TypeOK, LinkFollowsSession, EndingFollowsSession, LoopsFollowRun, Alive,
        Gathers, Simulates, Ends, Closes, Close, session, tasks
<1>1. CASE Begin
    BY <1>1 DEF Begin
<1>2. CASE RecordReturns
    BY <1>2 DEF RecordReturns
<1>3. CASE Dialed
    BY <1>3 DEF Dialed
<1>4. CASE DialFails
    BY <1>4 DEF DialFails
<1>5. CASE HandshakeSucceeds
    BY <1>5, InboxFacts DEF HandshakeSucceeds
<1>6. CASE HandshakeFails
    BY <1>6 DEF HandshakeFails
<1>7. CASE HoldOver
    BY <1>7, CancelRunFacts DEF HoldOver
<1>8. CASE RunAwaited
    BY <1>8 DEF RunAwaited
<1>9. CASE Closed
    BY <1>9 DEF Closed
<1>10. CASE Delivered
  <2>1. /\ cancel = "sent" /\ (Simulates => run # "created")
        /\ UNCHANGED <<mode, hasTicket, accepted, inbox, run, gather, loop, told>>
      BY <1>10 DEF Delivered
  <2>2. CASE pc = "stopping"
    <3>1. CancelRun /\ UNCHANGED <<pc, ending, connected, link>> /\ cancel' = "late"
        BY <1>10, <2>2 DEF Delivered, SwallowingAwaits
    <3>. QED
        BY <2>1, <2>2, <3>1, CancelRunFacts
  <2>3. CASE pc \in {"record", "dialing", "closing"}
    <3>1. Ends("cancelled") /\ UNCHANGED <<connected, link, runCancel, loopCancel>> /\ cancel' = "delivered"
        BY <1>10, <2>3 DEF Delivered, SwallowingAwaits
    <3>. QED
        BY <2>1, <2>3, <3>1
  <2>4. CASE pc = "handshake" \/ (pc = "holding" /\ ~Simulates)
    <3>1. Closes("cancelled") /\ UNCHANGED runCancel /\ cancel' = "delivered"
        BY <1>10, <2>4 DEF Delivered, SwallowingAwaits
    <3>. QED
        BY <2>1, <2>4, <3>1
  <2>5. CASE pc = "holding" /\ Simulates
    <3>1. /\ pc' = "stopping" /\ ending' = "cancelled" /\ CancelRun /\ UNCHANGED <<connected, link>>
          /\ cancel' = "delivered"
        BY <1>10, <2>5 DEF Delivered, SwallowingAwaits
    <3>. QED
        BY <2>1, <2>5, <3>1, CancelRunFacts
  <2>. QED
      BY <2>1, <2>2, <2>3, <2>4, <2>5
<1>11. CASE CallerCancels
    BY <1>11 DEF CallerCancels
<1>12. CASE BodyRuns
    BY <1>12 DEF BodyRuns
<1>13. CASE BodyCancels
    BY <1>13, CancelRunFacts DEF BodyCancels
<1>14. CASE BodyLeaves
    BY <1>14 DEF BodyLeaves
<1>. QED
    BY <1>1, <1>2, <1>3, <1>4, <1>5, <1>6, <1>7, <1>8, <1>9, <1>10, <1>11, <1>12, <1>13, <1>14
    DEF Session

(* The steps of run() and of its loops, of the server and of the network. *)
LEMMA StreamKeepsIInv ==
    ASSUME IInv,
           \/ Run \/ RunTold \/ \E l \in Loops : LoopStep(l)
           \/ BeatDue \/ BeatSent \/ BeatFails \/ FrameRead \/ PushHandled \/ ReadEnds
           \/ \E frame \in Frames : ServerSends(frame)
           \/ LinkBreaks
    PROVE  IInv'
<1> USE DEF IInv, TypeOK, LinkFollowsSession, EndingFollowsSession, LoopsFollowRun, Alive,
        Gathers, Simulates, Ready, LoopEnds, LoopMoves, LoopOnly, session, tasks
<1>1. CASE RunStarts
  <2>1. runCancel' \in BOOLEAN
      BY <1>1 DEF RunStarts
  <2>2. \/ run' = "over" /\ UNCHANGED loop
        \/ /\ run' = IF pc \in {"closing", "done"} THEN "late" ELSE "gathering"
           /\ loop' = [l \in Loops |-> "created"]
      BY <1>1 DEF RunStarts
  <2>. QED
      BY <1>1, <2>1, <2>2 DEF RunStarts
<1>2. CASE RunResumes
  <2>1. runCancel' \in BOOLEAN /\ connected' \in BOOLEAN /\ ~connected'
      BY <1>2 DEF RunResumes
  <2>2. \/ run' = "telling" /\ told' = told + 1
        \/ run' = "over" /\ told' = told
      BY <1>2 DEF RunResumes
  <2>3. /\ Gathers /\ loopCancel' = Alive
        /\ UNCHANGED <<mode, hasTicket, session, link, inbox, gather, loop>>
      BY <1>2 DEF RunResumes
  <2>. QED
      BY <2>1, <2>2, <2>3
<1>3. CASE RunTold
  <2>1. runCancel' \in BOOLEAN
      BY <1>3 DEF RunTold
  <2>. QED
      BY <1>3, <2>1 DEF RunTold
<1>4. ASSUME NEW l \in Loops, LoopCancelled(l) PROVE IInv'
    BY <1>4 DEF LoopCancelled
<1>5. ASSUME NEW l \in Loops, LoopStarts(l) PROVE IInv'
    BY <1>5 DEF LoopStarts
<1> USE DEF Loops
<1>6. CASE BeatDue
    BY <1>6 DEF BeatDue
<1>7. CASE BeatSent
    BY <1>7 DEF BeatSent
<1>8. CASE BeatFails
    BY <1>8 DEF BeatFails
<1>9. CASE FrameRead
  <2>1. inbox' \in Seq(Frames) /\ Len(inbox') <= MaxInbox
      BY <1>9, InboxFacts DEF FrameRead
  <2>2. Ready("read", "waiting") /\ LoopOnly
      BY <1>9 DEF FrameRead
  <2>3. CASE LoopEnds("read", "exception")
      BY <2>1, <2>2, <2>3
  <2>4. ASSUME NEW at \in {"busy", "waiting"}, LoopMoves("read", at)
        PROVE  IInv'
      BY <2>1, <2>2, <2>4
  <2>. QED
      BY <1>9, <2>3, <2>4 DEF FrameRead
<1>10. CASE PushHandled
    BY <1>10 DEF PushHandled
<1>11. CASE ReadEnds
    BY <1>11 DEF ReadEnds
<1>12. ASSUME NEW frame \in Frames, ServerSends(frame) PROVE IInv'
    BY <1>12, InboxFacts DEF ServerSends
<1>13. CASE LinkBreaks
    BY <1>13 DEF LinkBreaks
<1>. QED
    BY <1>1, <1>2, <1>3, <1>4, <1>5, <1>6, <1>7, <1>8, <1>9, <1>10, <1>11, <1>12, <1>13
    DEF Run, LoopStep

LEMMA NextIInv == IInv /\ [Next]_vars => IInv'
<1> SUFFICES ASSUME IInv, [Next]_vars PROVE IInv'
    OBVIOUS
<1>1. CASE UNCHANGED vars
    BY <1>1 DEF vars, session, tasks, IInv, TypeOK, LinkFollowsSession, EndingFollowsSession,
                LoopsFollowRun, Alive, Simulates
<1>. QED
    BY <1>1, SessionKeepsIInv, StreamKeepsIInv DEF Next

(* The inductive invariant holds throughout. *)
LEMMA Invariance == Spec => []IInv
BY InitIInv, NextIInv, PTL DEF Spec

(* The types of CemStream; among them that on_disconnect is called at most once. *)
THEOREM TypeCorrect == Spec => []TypeOK
<1>1. IInv => TypeOK
    BY DEF IInv
<1>. QED
    BY <1>1, Invariance, PTL

(* A session that is done has closed its connection, and each of its loops has
   ended or is being cancelled; only a run() that a body created and that begins
   after the close has loops nobody told (simulate_desktop_session,
   cem_stream_session, CEMStreamClient.close).                             *)
THEOREM CleanupSafety == Spec => []NothingLeftBehind
<1>1. IInv => NothingLeftBehind
    BY DEF IInv, LinkFollowsSession, LoopsFollowRun, NothingLeftBehind
<1>. QED
    BY <1>1, Invariance, PTL

(* A cancellation ends the session as cancelled wherever it is delivered, except
   while a simulated session awaits the run() it has cancelled at the end of its
   hold: there it is swallowed, and the session ends as held.              *)
THEOREM CancelSafety == Spec => []CancellationIsHeard
<1>1. IInv => CancellationIsHeard
    BY DEF IInv, EndingFollowsSession, CancellationIsHeard
<1>. QED
    BY <1>1, Invariance, PTL

(* The promise is kept step by step: the tasks of the stream change nothing of
   what the caller sees, the session does what DesktopAttempt lets it do.  *)
LEMMA StepKeepsPromise == IInv /\ [Next]_vars => [Attempt!Next]_Attempt!attemptVars
<1> SUFFICES ASSUME IInv, [Next]_vars PROVE [Attempt!Next]_Attempt!attemptVars
    OBVIOUS
<1> USE DEF IInv, LinkFollowsSession, EndingFollowsSession, Simulates, Ends, Closes, Close, session, tasks,
        Attempt!Next, Attempt!attemptVars
<1>1. ASSUME UNCHANGED <<pc, accepted, ending>>,
             link' = link \/ (link \in {"open", "half", "lost"} /\ link' \in {"half", "lost"})
      PROVE  UNCHANGED Attempt!attemptVars
    BY <1>1
<1>2. CASE Begin
    BY <1>2 DEF Begin
<1>3. CASE RecordReturns
    BY <1>3 DEF RecordReturns, Attempt!Fail
<1>4. CASE Dialed
    BY <1>4 DEF Dialed, Attempt!Open
<1>5. CASE DialFails
    BY <1>5 DEF DialFails, Attempt!Fail
<1>6. CASE HandshakeSucceeds
    BY <1>6 DEF HandshakeSucceeds, Attempt!Hold
<1>7. CASE HandshakeFails
    BY <1>7 DEF HandshakeFails, Attempt!Close
<1>8. CASE HoldOver
    BY <1>8 DEF HoldOver
<1>9. CASE RunAwaited
    BY <1>9 DEF RunAwaited, Attempt!Close
<1>10. CASE Closed
  <2>0. /\ pc = "closing" /\ pc' = "done" /\ link = "closed"
        /\ UNCHANGED <<link, ending, accepted>>
      BY <1>10 DEF Closed
  <2>1. CASE ending = "ok"
      BY <2>0, <2>1 DEF Attempt!Succeed
  <2>2. CASE ending = "failed"
      BY <2>0, <2>2 DEF Attempt!Fail
  <2>3. CASE ending = "cancelled"
      BY <1>10, <2>3 DEF Closed, Attempt!Cancelled
  <2>. QED
      BY <1>10, <2>1, <2>2, <2>3 DEF Closed
<1>11. CASE Delivered
  <2>1. cancel = "sent" /\ UNCHANGED accepted
      BY <1>11 DEF Delivered
  <2>2. CASE pc = "stopping"
    <3>1. UNCHANGED <<pc, ending, link>>
        BY <1>11, <2>2 DEF Delivered, SwallowingAwaits
    <3>. QED
        BY <1>1, <2>1, <3>1
  <2>3. CASE pc \in {"record", "dialing", "closing"}
    <3>1. Ends("cancelled") /\ UNCHANGED link
        BY <1>11, <2>3 DEF Delivered, SwallowingAwaits
    <3>. QED
        BY <2>1, <2>3, <3>1 DEF Attempt!Cancelled
  <2>4. CASE pc = "handshake" \/ (pc = "holding" /\ ~Simulates)
    <3>1. Closes("cancelled")
        BY <1>11, <2>4 DEF Delivered, SwallowingAwaits
    <3>. QED
        BY <2>1, <2>4, <3>1 DEF Attempt!Close
  <2>5. CASE pc = "holding" /\ Simulates
    <3>1. pc' = "stopping" /\ UNCHANGED link
        BY <1>11, <2>5 DEF Delivered, SwallowingAwaits
    <3>. QED
        BY <2>1, <2>5, <3>1
  <2>. QED
      BY <2>1, <2>2, <2>3, <2>4, <2>5 DEF TypeOK
<1>12. CASE BodyLeaves
    BY <1>12 DEF BodyLeaves, Attempt!Close
<1>13. CASE CallerCancels \/ BodyRuns \/ BodyCancels
    BY <1>1, <1>13 DEF CallerCancels, BodyRuns, BodyCancels
<1>14. CASE Run \/ RunTold
    BY <1>1, <1>14 DEF Run, RunStarts, RunResumes, RunTold
<1>15. ASSUME NEW l \in Loops, LoopStep(l)
       PROVE  [Attempt!Next]_Attempt!attemptVars
    BY <1>1, <1>15 DEF LoopStep, LoopCancelled, LoopStarts, LoopOnly
<1>16. CASE BeatDue \/ BeatSent \/ BeatFails \/ FrameRead \/ PushHandled \/ ReadEnds
    BY <1>1, <1>16 DEF BeatDue, BeatSent, BeatFails, FrameRead, PushHandled, ReadEnds, LoopOnly
<1>17. ASSUME NEW frame \in Frames, ServerSends(frame)
       PROVE  [Attempt!Next]_Attempt!attemptVars
    BY <1>1, <1>17 DEF ServerSends
<1>18. CASE LinkBreaks
    BY <1>1, <1>18 DEF LinkBreaks
<1>19. CASE UNCHANGED vars
    BY <1>1, <1>19 DEF vars
<1>. QED
    BY <1>2, <1>3, <1>4, <1>5, <1>6, <1>7, <1>8, <1>9, <1>10, <1>11, <1>12, <1>13, <1>14, <1>15,
       <1>16, <1>17, <1>18, <1>19 DEF Next, Session

(* Both sessions implement DesktopAttempt, the promise connect_desktop makes in
   their place: one connection, closed in the end, and success for a session
   that was held to its end only.                                          *)
THEOREM Refinement == Spec => KeepsPromise
<1>1. Init => Attempt!Init
    BY DEF Init, Attempt!Init
<1>. QED
    BY <1>1, StepKeepsPromise, Invariance, PTL DEF Spec, KeepsPromise, Attempt!Spec
=============================================================================
