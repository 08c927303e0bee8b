--------------------------- MODULE DesktopAttempt ---------------------------
(***************************************************************************)
(* What one attempt at a desktop session promises the task that awaits it, *)
(* be it a call of connect_desktop or one of the two older sessions on a   *)
(* CEM stream: it tries one connection after the other until one becomes a *)
(* desktop session, which is then held and is the last; it returns with    *)
(* every connection closed, and says that it succeeded exactly if a        *)
(* session was held to its end.  A cancelled attempt has told its          *)
(* connection to close.                                                    *)
(***************************************************************************)

VARIABLES
    phase,   \* "trying", "held", "over"
    link,    \* "none", "open", "closing"
    verdict  \* "none", "ok", "failed", "cancelled"

attemptVars == <<phase, link, verdict>>

Init == phase = "trying" /\ link = "none" /\ verdict = "none"

Open ==
    /\ phase = "trying" /\ link = "none"
    /\ link' = "open"
    /\ UNCHANGED <<phase, verdict>>

\* The connection becomes the desktop session.
Hold ==
    /\ phase = "trying" /\ link = "open"
    /\ phase' = "held"
    /\ UNCHANGED <<link, verdict>>

\* The same without a hold: keep_alive_seconds is 0.
HoldNothing ==
    /\ phase = "trying" /\ link = "open"
    /\ phase' = "held" /\ link' = "closing"
    /\ UNCHANGED verdict

Close ==
    /\ link = "open"
    /\ link' = "closing"
    /\ UNCHANGED <<phase, verdict>>

\* A connection that failed is gone before the next is opened.
Gone ==
    /\ link = "closing" /\ phase # "held"
    /\ link' = "none"
    /\ UNCHANGED <<phase, verdict>>

Fail ==
    /\ phase = "trying" /\ link # "open"
    /\ phase' = "over" /\ verdict' = "failed" /\ link' = "none"

Succeed ==
    /\ phase = "held" /\ link = "closing"
    /\ phase' = "over" /\ verdict' = "ok" /\ link' = "none"

Cancelled ==
    /\ phase # "over" /\ link # "open"
    /\ phase' = "over" /\ verdict' = "cancelled"
    /\ link' \in {link, "none"}

Next ==
    \/ Open \/ Hold \/ HoldNothing \/ Close \/ Gone
    \/ Fail \/ Succeed \/ Cancelled

Spec == Init /\ [][Next]_attemptVars
=============================================================================
