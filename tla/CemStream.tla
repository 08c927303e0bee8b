----------------------------- MODULE CemStream ------------------------------
(***************************************************************************)
(* The legacy long connection (pcas/cem_stream.py) and the two sessions    *)
(* built on it (pcas/desktop_session.py): simulate_desktop_session holds a *)
(* stream for a time of its own, cem_stream_session hands it to a body     *)
(* that runs it.  Three tasks share a connection: run, which gathers the   *)
(* heartbeat loop and the read loop.  An action is the code of one task    *)
(* between two awaits; a cancellation is delivered at its next step.       *)
(***************************************************************************)
EXTENDS Naturals, Sequences

CONSTANT MaxInbox  \* bound: frames received and not read

ASSUME InboxAssumption == MaxInbox \in Nat

Loops == {"heartbeat", "read"}

(* Frames from the server: the accepting and the refusing answer to the
   request, any other command, and bytes without the magic.  A payload that
   does not decrypt has no success in it: it refuses, or is any other frame. *)
Frames == {"accept", "refuse", "other", "garbled"}

VARIABLES
    mode,       \* which session, and its callbacks
    hasTicket,  \* client.access_ticket
    pc,         \* the await the session's task is suspended at
    cancel,     \* the caller's cancellation; "late": met the end of the hold
    ending,     \* how the session ends
    accepted,   \* handshake_ok
    connected,  \* CemStreamClient.connected
    link,       \* the connection; "half": the server ended its side
    inbox,      \* frames received and not read
    run,        \* the task of run(); "late": begun after close()
    runCancel,  \* a CancelledError waits for it
    gather,     \* what the gather of run() has got from the loops
    loop,       \* the two tasks in _tasks
    loopCancel, \* those a CancelledError waits for
    told        \* history: calls of on_disconnect

session == <<pc, cancel, ending, accepted>>
tasks == <<run, runCancel, gather, loop, loopCancel, told>>
vars == <<mode, hasTicket, session, connected, link, inbox, tasks>>

TypeOK ==
    /\ mode \in [kind : {"simulate", "context"}, awaitsPush : BOOLEAN, tells : BOOLEAN]
    /\ hasTicket \in BOOLEAN
    /\ pc \in {"start", "record", "dialing", "handshake", "holding", "stopping",
               "closing", "done"}
    /\ cancel \in {"none", "sent", "delivered", "late"}
    /\ ending \in {"none", "ok", "failed", "cancelled"}
    /\ accepted \in BOOLEAN /\ connected \in BOOLEAN
    /\ link \in {"none", "open", "half", "lost", "closed"}
    /\ inbox \in Seq(Frames) /\ Len(inbox) <= MaxInbox
    /\ run \in {"none", "created", "gathering", "late", "telling", "over"}
    /\ runCancel \in BOOLEAN
    /\ gather \in {"pending", "exception", "cancelled"}
    /\ loop \in [Loops -> {"none", "created", "waiting", "busy", "ended"}]
    /\ loopCancel \subseteq Loops
    /\ told \in 0..1

(* The push handler of simulate_desktop_session has no await, and the stream
   it makes has no on_disconnect.                                          *)
Init ==
    /\ \/ mode = [kind |-> "simulate", awaitsPush |-> FALSE, tells |-> FALSE]
       \/ mode \in [kind : {"context"}, awaitsPush : BOOLEAN, tells : BOOLEAN]
    /\ hasTicket \in BOOLEAN
    /\ pc = "start" /\ cancel = "none" /\ ending = "none" /\ accepted = FALSE
    /\ connected = FALSE /\ link = "none" /\ inbox = <<>>
    /\ run = "none" /\ runCancel = FALSE /\ gather = "pending"
    /\ loop = [l \in Loops |-> "none"] /\ loopCancel = {} /\ told = 0

Simulates == mode.kind = "simulate"

-----------------------------------------------------------------------------
(* Tasks.                                                                  *)

Alive == {l \in Loops : loop[l] \notin {"none", "ended"}}
Gathers == run \in {"gathering", "late"}

(* run_task.cancel(): a gather that is not done passes it on to the loops; one
   that is done leaves it to the next step of run; so does a start.        *)
CancelRun ==
    CASE Gathers /\ gather = "pending" ->
            loopCancel' = Alive /\ UNCHANGED runCancel
      [] run \in {"created", "telling"} \/ (Gathers /\ gather # "pending") ->
            runCancel' = TRUE /\ UNCHANGED loopCancel
      [] OTHER -> UNCHANGED <<runCancel, loopCancel>>

(* Plausible bug: the loops are left to notice the closed connection. *)
CloseForgetsLoops ==
    /\ connected' = FALSE
    /\ link' = "closed"
    /\ UNCHANGED loopCancel

(* close() up to its await. *)
Close ==
    /\ connected' = FALSE
    /\ loopCancel' = Alive
    /\ link' = "closed"

Closes(why) == Close /\ pc' = "closing" /\ ending' = why

Ends(why) == pc' = "done" /\ ending' = why

-----------------------------------------------------------------------------
(* The session.  Its steps wait for a cancellation to be delivered.        *)

Begin ==
    /\ pc = "start"
    /\ pc' = "record"
    /\ UNCHANGED <<mode, hasTicket, cancel, ending, accepted, connected, link, inbox, tasks>>

(* record_device_info returned or failed, which is the same. *)
RecordReturns ==
    /\ pc = "record" /\ cancel # "sent"
    /\ IF hasTicket THEN pc' = "dialing" /\ UNCHANGED ending ELSE Ends("failed")
    /\ UNCHANGED <<mode, hasTicket, cancel, accepted, connected, link, inbox, tasks>>

(* open_connection returned; the request fits into the buffer. *)
Dialed ==
    /\ pc = "dialing" /\ cancel # "sent"
    /\ pc' = "handshake" /\ link' = "open"
    /\ UNCHANGED <<mode, hasTicket, cancel, ending, accepted, connected, inbox, tasks>>

(* Refused, or given up by the operating system: there is no writer to close. *)
DialFails ==
    /\ pc = "dialing" /\ cancel # "sent"
    /\ Ends("failed")
    /\ UNCHANGED <<mode, hasTicket, cancel, accepted, connected, link, inbox, tasks>>

(* The answer is read: the stream stands; simulate creates the task of run(). *)
HandshakeSucceeds ==
    /\ pc = "handshake" /\ cancel # "sent"
    /\ inbox # <<>> /\ Head(inbox) = "accept" /\ link # "lost"
    /\ inbox' = Tail(inbox)
    /\ connected' = TRUE /\ accepted' = TRUE /\ pc' = "holding"
    /\ run' = IF Simulates THEN "created" ELSE run
    /\ UNCHANGED <<mode, hasTicket, cancel, ending, link, runCancel, gather, loop, loopCancel, told>>

(* Another answer, the end of the stream, or 15 s without one. *)
HandshakeFails ==
    /\ pc = "handshake" /\ cancel # "sent"
    /\ Closes("failed")
    /\ UNCHANGED <<mode, hasTicket, cancel, accepted, inbox, run, runCancel, gather, loop, told>>

(* keep_seconds are over, whatever became of the stream.  The task of run() was
   created before the sleep, so it has begun.                              *)
HoldOver ==
    /\ Simulates /\ pc = "holding" /\ cancel # "sent" /\ run # "created"
    /\ pc' = "stopping" /\ CancelRun
    /\ UNCHANGED <<mode, hasTicket, cancel, ending, accepted, connected, link, inbox,
                   run, gather, loop, told>>

(* Plausible bug: the session returns from the hold itself. *)
RunAwaitedUnclosed ==
    /\ pc = "stopping" /\ cancel # "sent" /\ run = "over"
    /\ Ends(IF ending = "cancelled" THEN ending ELSE "ok")
    /\ UNCHANGED <<mode, hasTicket, cancel, accepted, connected, link, inbox, tasks>>

(* The awaited task of run() is over; its exception is swallowed. *)
RunAwaited ==
    /\ pc = "stopping" /\ cancel # "sent" /\ run = "over"
    /\ Closes(IF ending = "cancelled" THEN ending ELSE "ok")
    /\ UNCHANGED <<mode, hasTicket, cancel, accepted, inbox, run, runCancel, gather, loop, told>>

(* wait_closed returned or raised. *)
Closed ==
    /\ pc = "closing" /\ cancel # "sent"
    /\ pc' = "done"
    /\ UNCHANGED <<mode, hasTicket, cancel, ending, accepted, connected, link, inbox, tasks>>

(* Plausible bug: close() takes a cancellation for a failure of wait_closed. *)
SwallowingAwaitsAndClose == {"stopping", "closing"}

(* Where a cancellation is caught: with the one of the awaited run(). *)
SwallowingAwaits == {"stopping"}

(* The caller's cancellation, at any await.  A dial has nothing to close, and
   a close that was waited for goes on without the session.                *)
Delivered ==
    /\ cancel = "sent"
    /\ cancel' = IF pc = "stopping" THEN "late" ELSE "delivered"
    /\ Simulates => run # "created"
    /\ CASE pc \in SwallowingAwaits ->
              CancelRun /\ UNCHANGED <<pc, ending, connected, link>>
         [] pc \in {"record", "dialing", "closing"} \ SwallowingAwaits ->
              Ends("cancelled") /\ UNCHANGED <<connected, link, runCancel, loopCancel>>
         [] pc = "handshake" \/ (pc = "holding" /\ ~Simulates) ->
              Closes("cancelled") /\ UNCHANGED runCancel
         [] pc = "holding" /\ Simulates ->
              /\ pc' = "stopping" /\ ending' = "cancelled" /\ CancelRun
              /\ UNCHANGED <<connected, link>>
    /\ UNCHANGED <<mode, hasTicket, accepted, inbox, run, gather, loop, told>>

Session ==
    \/ RecordReturns \/ Dialed \/ DialFails \/ HandshakeSucceeds \/ HandshakeFails
    \/ HoldOver \/ RunAwaited \/ Closed \/ Delivered

(* Whoever awaits the session, and the body of cem_stream_session: it may run
   the stream, cancel that, and leave at any time.                         *)
CallerCancels ==
    /\ pc \notin {"start", "done"} /\ cancel = "none"
    /\ cancel' = "sent"
    /\ UNCHANGED <<mode, hasTicket, pc, ending, accepted, connected, link, inbox, tasks>>

BodyRuns ==
    /\ ~Simulates /\ pc = "holding" /\ cancel # "sent" /\ run = "none"
    /\ run' = "created"
    /\ UNCHANGED <<mode, hasTicket, session, connected, link, inbox,
                   runCancel, gather, loop, loopCancel, told>>

BodyCancels ==
    /\ ~Simulates /\ pc = "holding" /\ cancel # "sent"
    /\ CancelRun
    /\ UNCHANGED <<mode, hasTicket, session, connected, link, inbox, run, gather, loop, told>>

(* The body is over.  The exception of one that raised goes on to its caller
   behind the close; it is the body's and no failure of the session.       *)
BodyLeaves ==
    /\ ~Simulates /\ pc = "holding" /\ cancel # "sent"
    /\ Closes("ok")
    /\ UNCHANGED <<mode, hasTicket, cancel, accepted, inbox, run, runCancel, gather, loop, told>>

-----------------------------------------------------------------------------
(* run().                                                                  *)

RunStarts ==
    /\ run = "created"
    /\ IF runCancel THEN run' = "over" /\ UNCHANGED loop
                    ELSE /\ run' = IF pc \in {"closing", "done"} THEN "late" ELSE "gathering"
                         /\ loop' = [l \in Loops |-> "created"]
    /\ runCancel' = FALSE
    /\ UNCHANGED <<mode, hasTicket, session, connected, link, inbox, gather, loopCancel, told>>

(* Plausible bug: the other loop is left to itself. *)
RunResumesWithoutCancel ==
    /\ Gathers /\ (gather # "pending" \/ runCancel)
    /\ connected' = FALSE /\ runCancel' = FALSE
    /\ IF mode.tells THEN run' = "telling" /\ told' = told + 1
                     ELSE run' = "over" /\ UNCHANGED told
    /\ UNCHANGED <<mode, hasTicket, session, link, inbox, gather, loop, loopCancel>>

(* A loop ended, or the gather is over and run() was cancelled: the finally
   cancels both loops and awaits on_disconnect.                            *)
RunResumes ==
    /\ Gathers /\ (gather # "pending" \/ runCancel)
    /\ loopCancel' = Alive
    /\ connected' = FALSE /\ runCancel' = FALSE
    /\ IF mode.tells THEN run' = "telling" /\ told' = told + 1
                     ELSE run' = "over" /\ UNCHANGED told
    /\ UNCHANGED <<mode, hasTicket, session, link, inbox, gather, loop>>

(* Plausible bug: a callback that raised is called again. *)
RunToldAgain ==
    /\ run = "telling"
    /\ \/ run' = "over" /\ runCancel' = FALSE /\ UNCHANGED told
       \/ told' = told + 1 /\ UNCHANGED <<run, runCancel>>
    /\ UNCHANGED <<mode, hasTicket, session, connected, link, inbox, gather, loop, loopCancel>>

(* on_disconnect returned, raised or was cancelled. *)
RunTold ==
    /\ run = "telling"
    /\ run' = "over" /\ runCancel' = FALSE
    /\ UNCHANGED <<mode, hasTicket, session, connected, link, inbox, gather, loop, loopCancel, told>>

-----------------------------------------------------------------------------
(* The loops.                                                              *)

(* The first loop to end completes the gather. *)
LoopEnds(l, how) ==
    /\ loop' = [loop EXCEPT ![l] = "ended"] /\ loopCancel' = loopCancel \ {l}
    /\ gather' = IF gather = "pending" THEN how ELSE gather

LoopMoves(l, at) ==
    loop' = [loop EXCEPT ![l] = at] /\ UNCHANGED <<loopCancel, gather>>

Ready(l, at) == loop[l] = at /\ l \notin loopCancel

LoopOnly == UNCHANGED <<mode, hasTicket, session, connected, link, run, runCancel, told>>

LoopCancelled(l) ==
    /\ l \in loopCancel /\ l \in Alive
    /\ LoopEnds(l, "cancelled")
    /\ LoopOnly /\ UNCHANGED inbox

LoopStarts(l) ==
    /\ Ready(l, "created") /\ LoopMoves(l, "waiting")
    /\ LoopOnly /\ UNCHANGED inbox

(* The interval is over: a heartbeat is written. *)
BeatDue ==
    /\ Ready("heartbeat", "waiting") /\ LoopMoves("heartbeat", "busy")
    /\ LoopOnly /\ UNCHANGED inbox

(* drain() returned. *)
BeatSent ==
    /\ Ready("heartbeat", "busy") /\ link \in {"open", "half"}
    /\ LoopMoves("heartbeat", "waiting")
    /\ LoopOnly /\ UNCHANGED inbox

(* Plausible bug: a heartbeat that failed is logged and forgotten. *)
BeatForgotten ==
    /\ Ready("heartbeat", "busy") /\ link \notin {"open", "half"}
    /\ LoopMoves("heartbeat", "waiting")
    /\ LoopOnly /\ UNCHANGED inbox

BeatFails ==
    /\ Ready("heartbeat", "busy") /\ link \notin {"open", "half"}
    /\ LoopEnds("heartbeat", "exception")
    /\ LoopOnly /\ UNCHANGED inbox

(* A frame is decoded and handed to on_server_push, which may await. *)
FrameRead ==
    /\ Ready("read", "waiting") /\ inbox # <<>> /\ link # "lost"
    /\ inbox' = Tail(inbox)
    /\ IF Head(inbox) = "garbled" THEN LoopEnds("read", "exception")
       ELSE LoopMoves("read", IF mode.awaitsPush THEN "busy" ELSE "waiting")
    /\ LoopOnly

(* The handler returned, or raised and was caught. *)
PushHandled ==
    /\ Ready("read", "busy") /\ LoopMoves("read", "waiting")
    /\ LoopOnly /\ UNCHANGED inbox

(* IncompleteReadError at the end of the stream, or the error of the loss. *)
ReadEnds ==
    /\ Ready("read", "waiting")
    /\ link = "lost" \/ (inbox = <<>> /\ link \in {"half", "closed"})
    /\ LoopEnds("read", "exception")
    /\ LoopOnly /\ UNCHANGED inbox

-----------------------------------------------------------------------------
(* The server and the network.                                             *)

ServerSends(frame) ==
    /\ link = "open" /\ Len(inbox) < MaxInbox
    /\ inbox' = Append(inbox, frame)
    /\ UNCHANGED <<mode, hasTicket, session, connected, link, tasks>>

(* The server ends its side, or the connection is reset. *)
LinkBreaks ==
    /\ \/ link = "open" /\ link' = "half"
       \/ link \in {"open", "half"} /\ link' = "lost"
    /\ UNCHANGED <<mode, hasTicket, session, connected, inbox, tasks>>

-----------------------------------------------------------------------------
Run == RunStarts \/ RunResumes

LoopStep(l) == LoopCancelled(l) \/ LoopStarts(l)

Next ==
    \/ Begin \/ Session \/ Run \/ RunTold
    \/ \E l \in Loops : LoopStep(l)
    \/ BeatDue \/ BeatSent \/ BeatFails \/ FrameRead \/ PushHandled \/ ReadEnds
    \/ CallerCancels \/ BodyRuns \/ BodyCancels \/ BodyLeaves
    \/ \E frame \in Frames : ServerSends(frame)
    \/ LinkBreaks

Spec == Init /\ [][Next]_vars

(* Tasks that can go on do, sleeps and timeouts expire, a dial is given up by
   the operating system, and a small close completes.  No fairness for the
   server, the two callbacks, the body, and for drain(), which waits as long
   as the server does not read.                                            *)
FairSpec ==
    /\ Spec
    /\ WF_vars(Session) /\ WF_vars(Run)
    /\ \A l \in Loops : WF_vars(LoopStep(l))
    /\ WF_vars(BeatDue) /\ WF_vars(BeatFails)
    /\ WF_vars(FrameRead) /\ WF_vars(ReadEnds)

-----------------------------------------------------------------------------
(* Properties.                                                             *)

(* A session that is done has closed its connection, and each loop of it has
   ended or is being cancelled, also those of a run() that a body left under
   way; only a run() that begins after the close has loops that nobody told. *)
NothingLeftBehind ==
    pc = "done" =>
        /\ link \in {"none", "closed"} /\ ~connected
        /\ Alive \subseteq loopCancel \/ (~Simulates /\ run = "late")

(* A cancellation ends a session as cancelled, wherever it is delivered: in the
   dial, the handshake, the hold or the close.  Only one that is delivered after
   the end of a simulated hold, while the cancelled run() is awaited, is lost:
   it is swallowed with run()'s own and the session ends as held.          *)
CancellationIsHeard ==
    pc = "done" =>
        /\ cancel = "delivered" => ending = "cancelled"
        /\ cancel = "late" => Simulates /\ ending = "ok"

(* A lost connection ends run(), which tells it, even when the push handler
   never returns: the next heartbeat fails.                                *)
LossIsNoticed ==
    (run = "gathering" /\ link = "lost") ~>
        (run \in {"telling", "over"} /\ (told = 1 \/ ~mode.tells))

(* A simulated session ends, whatever the server does or leaves undone; and what
   a session that is done has left running ends by itself, also a run() that
   begins only then.                                                       *)
EverythingEnds ==
    /\ (Simulates /\ pc = "record") ~> pc = "done"
    /\ pc = "done" ~> (Alive = {} /\ run # "created")

(* Both sessions keep the promise that DesktopAttempt states for the session
   that replaced them: one connection, closed in the end, and success for a
   session that was held to its end only.                                  *)
Attempt == INSTANCE DesktopAttempt WITH
    phase <- IF pc = "done" THEN "over" ELSE IF accepted THEN "held" ELSE "trying",
    link <- IF link = "none" \/ (pc = "done" /\ ending # "cancelled") THEN "none"
            ELSE IF link = "closed" THEN "closing" ELSE "open",
    verdict <- IF pc = "done" THEN ending ELSE "none"

KeepsPromise == Attempt!Spec

-----------------------------------------------------------------------------
(* The inductive invariant behind the safety properties and the promise.   *)

(* The connection and the task of run() are those of the await the session is
   suspended at.  A simulated run() has begun before the session leaves the
   hold; the one of a body may be left before.                             *)
LinkFollowsSession ==
    /\ pc \in {"start", "record", "dialing"} => link = "none"
    /\ pc \in {"handshake", "holding", "stopping"} => link \in {"open", "half", "lost"}
    /\ pc = "closing" => link = "closed"
    /\ pc = "done" => link \in {"none", "closed"}
    /\ connected => pc \in {"holding", "stopping"}
    /\ pc \in {"holding", "stopping"} => accepted
    /\ pc \in {"start", "record", "dialing", "handshake"} => ~accepted /\ run = "none"
    /\ pc = "stopping" => Simulates
    /\ run = "created" => ~Simulates \/ pc = "holding"

(* What the session will return, and that a cancellation decides it once. *)
EndingFollowsSession ==
    /\ pc \in {"start", "record", "dialing", "handshake", "holding"} => ending = "none"
    /\ pc = "stopping" => ending \in {"none", "cancelled"}
    /\ pc \in {"closing", "done"} => ending \in {"ok", "failed", "cancelled"}
    /\ ending = "ok" => accepted
    /\ ending = "failed" => ~accepted
    /\ cancel = "sent" => pc \notin {"start", "done"}
    /\ cancel = "delivered" => pc \in {"stopping", "closing", "done"} /\ ending = "cancelled"
    /\ pc = "stopping" /\ ending = "cancelled" => cancel = "delivered"
    /\ cancel = "late" => Simulates /\ pc \in {"stopping", "closing", "done"}
                          /\ ending = IF pc = "stopping" THEN "none" ELSE "ok"

(* The loops live from the start of run(), and whoever closes or ends the run
   has cancelled those that are left; the callback is called once.         *)
LoopsFollowRun ==
    /\ run \in {"none", "created"} => Alive = {}
    /\ pc \in {"closing", "done"} \/ run \in {"telling", "over"} =>
          Alive \subseteq loopCancel \/ run = "late"
    /\ run = "late" => ~Simulates /\ pc \in {"closing", "done"}
    /\ run \in {"none", "created", "gathering", "late"} => told = 0

IInv == TypeOK /\ LinkFollowsSession /\ EndingFollowsSession /\ LoopsFollowRun
=============================================================================
