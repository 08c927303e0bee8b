--------------------------- MODULE RunnerLifecycle ---------------------------
(***************************************************************************)
(* What a MachineRunner promises to the service that owns it: a runner is  *)
(* started once; while its task lives it may open and close links to the   *)
(* desktop gateway, one at a time; once it is asked to stop its task ends, *)
(* and an ended task never leaves a link open behind it and never comes    *)
(* back.  MachineRunner.tla implements this module; KeepAliveService.tla   *)
(* uses runners at this level of detail.                                   *)
(***************************************************************************)

VARIABLES
    phase,  \* "new": constructed, "live": the task exists, "ended": the task is done
    asked,  \* stop() has been called
    link    \* the runner's gateway link: "none", "open", or "closing" (close() called)

lifecycleVars == <<phase, asked, link>>

Init ==
    /\ phase = "new"
    /\ asked = FALSE
    /\ link = "none"

\* start() on a fresh runner.
Start ==
    /\ phase = "new"
    /\ phase' = "live"
    /\ UNCHANGED <<asked, link>>

\* stop() is called; on a runner whose task is over it only changes the report.
Ask ==
    /\ phase # "new"
    /\ ~asked
    /\ asked' = TRUE
    /\ UNCHANGED <<phase, link>>

\* A gateway accepts the connection of a live runner.
Open ==
    /\ phase = "live"
    /\ link = "none"
    /\ link' = "open"
    /\ UNCHANGED <<phase, asked>>

\* The runner closes its link.
Close ==
    /\ phase = "live"
    /\ link = "open"
    /\ link' = "closing"
    /\ UNCHANGED <<phase, asked>>

\* The link is gone: the close completed, or the peer dropped it.
Gone ==
    /\ link # "none"
    /\ link' = "none"
    /\ UNCHANGED <<phase, asked>>

\* The task ends, with no open link.
End ==
    /\ phase = "live"
    /\ link # "open"
    /\ phase' = "ended"
    /\ UNCHANGED <<asked, link>>

Next == Start \/ Ask \/ Open \/ Close \/ Gone \/ End

Spec == Init /\ [][Next]_lifecycleVars

=============================================================================
