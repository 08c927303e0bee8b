----------------------------- MODULE CagConnect -----------------------------
(***************************************************************************)
(* One call of CmssDesktopClient.connect_desktop (pcas/cmss_desktop/       *)
(* client.py) and the CAG gateways on the other side: the gateways of the  *)
(* machine are tried in turn, IPv4 before IPv6, each with the frames of    *)
(* the ZTEC handshake and a TLS upgrade, until one connects; that one is   *)
(* held for keep_alive_seconds, and every connection is closed in the      *)
(* finally of its try.  The caller may cancel the call at any await.       *)
(***************************************************************************)
EXTENDS Naturals, Sequences, ZtecFrames

CONSTANTS
    Gateways,  \* entries a cagList is made of
    V6,        \* those with a colon in their address
    NoAddr,    \* those without an address
    MaxList    \* bound: entries of one cagList

ASSUME GatewaysAssumption ==
    /\ V6 \subseteq Gateways /\ NoAddr \subseteq Gateways /\ V6 \cap NoAddr = {}
    /\ MaxList \in Nat

VARIABLES
    cagList,    \* the cagList of customLoginParams; <<>>: none that is usable
    machine,    \* its other data
    keep,       \* keep_alive_seconds > 0
    pc,         \* the await the call is suspended at
    left,       \* places of the cagList not tried yet
    trial,      \* the place being tried, 0 before the first
    ending,     \* why the finally runs, then how the call ended
    clientKey,  \* client_key
    serverKey,  \* pong_info.server_key
    result,     \* the CmssDesktopResult
    open,       \* gateways with an open connection of this call
    closing,    \* gateways whose connection was told to close
    gate,       \* the last frame the gateway of this try has received
    heard,      \* the key of the hello it has received
    reply,      \* its frame under way to the client
    issued,     \* the key of its pong
    served,     \* history: the key of the last session each gateway accepted
    failed      \* history: places whose try has failed

input == <<cagList, machine, keep>>
client == <<pc, left, trial, ending, clientKey, serverKey, result>>
frames == <<gate, heard, reply, issued>>
net == <<open, closing, frames>>
vars == <<input, client, net, served, failed>>

NoGateway == "none"
Result == [auth : BOOLEAN, tls : BOOLEAN, action : BOOLEAN, key : AnyKey,
           addr : Gateways \cup {NoGateway},
           error : {"none", "unusable", "noaddr", "unreachable"}]

TypeOK ==
    /\ cagList \in Seq(Gateways) /\ machine \in Machine /\ keep \in BOOLEAN
    /\ pc \in {"start", "trying", "dialing", "pong", "ack", "tls", "holding",
               "closing", "done"}
    /\ left \subseteq DOMAIN cagList /\ trial \in {0} \cup (DOMAIN cagList)
    /\ ending \in {"none", "ok", "failed", "cancelled"}
    /\ clientKey \in AnyKey /\ serverKey \in AnyKey
    /\ result \in Result
    /\ open \subseteq Gateways /\ closing \subseteq Gateways
    /\ gate \in Frame /\ heard \in AnyKey /\ reply \in Replies /\ issued \in AnyKey
    /\ served \in [Gateways -> AnyKey]
    /\ failed \subseteq DOMAIN cagList

Lists == UNION {[1..n -> Gateways] : n \in 0..MaxList}

NoResult == [auth |-> FALSE, tls |-> FALSE, action |-> FALSE, key |-> NoKey,
             addr |-> NoGateway, error |-> "none"]

Init ==
    /\ cagList \in Lists /\ machine \in Machine /\ keep \in BOOLEAN
    /\ pc = "start" /\ left = DOMAIN cagList /\ trial = 0 /\ ending = "none"
    /\ clientKey = NoKey /\ serverKey = NoKey
    /\ result = NoResult
    /\ open = {} /\ closing = {} /\ gate = NoFrame /\ heard = NoKey
    /\ reply = "none" /\ issued = NoKey /\ served = [g \in Gateways |-> NoKey] /\ failed = {}

-----------------------------------------------------------------------------
(* Plausible bug: the order of the list is kept. *)
CandidatesAsListed == left

(* ipv4 + ipv6: an entry without an address has no colon in it. *)
Candidates ==
    LET ipv4 == {i \in left : cagList[i] \notin V6} IN
    IF ipv4 # {} THEN ipv4 ELSE left

Gateway == cagList[trial]

(* Plausible bug: an off-by-one in the place. *)
TakesNext(i) == trial' = i + 1 /\ left' = left \ {i}

Takes(i) == trial' = i /\ left' = left \ {i}

(* The call returns its result. *)
Ends(how) == pc' = "done" /\ ending' = how

(* continue: on to the next gateway, after the one that failed. *)
NextGateway == pc' = "trying" /\ failed' = failed \cup {trial}

(* finally: close() tells the transport to close and waits for it. *)
Closes(why) ==
    /\ pc' = "closing" /\ ending' = why
    /\ closing' = closing \cup open /\ open' = {}

(* resolve_cag_params; the cagList is not empty here. *)
ResolveCagParams == machine.password /\ FromDeviceInfo(machine)

(* A frame is written; what the gateway sent before it has been read. *)
Sends(frame) == gate' = frame /\ reply' = "none"

-----------------------------------------------------------------------------
(* The call.                                                               *)

(* customLoginParams is parsed; without a usable list the call ends. *)
Start ==
    /\ pc = "start"
    /\ IF cagList = <<>>
         THEN Ends("failed") /\ result' = [result EXCEPT !.error = "unusable"]
         ELSE pc' = "trying" /\ UNCHANGED <<ending, result>>
    /\ UNCHANGED <<input, left, trial, clientKey, serverKey, net, served, failed>>

(* The head of the for loop.  There is no await before the dial: the step is
   one of its own only because no other task looks at the call meanwhile.
   An entry without an address raises outside of the try of its gateway.   *)
TryGateway ==
    /\ pc = "trying"
    /\ \E i \in Candidates :
          /\ \A j \in Candidates : i <= j
          /\ Takes(i)
          /\ IF cagList[i] \in NoAddr
               THEN /\ Ends("failed") /\ result' = [result EXCEPT !.error = "noaddr"]
                    /\ UNCHANGED failed
               ELSE /\ result' = [result EXCEPT !.addr = cagList[i]]
                    /\ ending' = "none"
                    /\ IF ResolveCagParams
                         THEN pc' = "dialing" /\ UNCHANGED failed
                         ELSE pc' = "trying" /\ failed' = failed \cup {i}
    /\ UNCHANGED <<input, clientKey, serverKey, net, served>>

(* The else of the for loop. *)
NoGatewayLeft ==
    /\ pc = "trying" /\ left = {}
    /\ Ends("failed") /\ result' = [result EXCEPT !.error = "unreachable"]
    /\ UNCHANGED <<input, left, trial, clientKey, serverKey, net, served, failed>>

(* open_connection returned: hello is sent with a new key, the pong awaited. *)
Dialed(key) ==
    /\ pc = "dialing"
    /\ pc' = "pong" /\ clientKey' = key
    /\ open' = open \cup {Gateway}
    /\ Sends(Hello(key)) /\ heard' = key /\ issued' = NoKey
    /\ UNCHANGED <<input, left, trial, ending, serverKey, result, closing, served, failed>>

(* Plausible bug: a refused dial ends the call. *)
DialFailsForAll ==
    /\ pc = "dialing"
    /\ Ends("failed") /\ result' = [result EXCEPT !.error = "unreachable"]
    /\ failed' = failed \cup {trial}
    /\ UNCHANGED <<input, left, trial, clientKey, serverKey, net, served>>

(* Refused, unreachable, or 15 s without an answer: nothing to close. *)
DialFails ==
    /\ pc = "dialing"
    /\ NextGateway
    /\ UNCHANGED <<input, left, trial, ending, clientKey, serverKey, result, net, served>>

(* The pong has the magic and the length: the credentials are sent. *)
PongArrives ==
    /\ pc = "pong" /\ PongDecodes(reply)
    /\ pc' = "ack" /\ serverKey' = issued
    /\ Sends(AuthPacket(clientKey, issued))
    /\ UNCHANGED <<input, left, trial, ending, clientKey, result, open, closing, heard, issued,
                   served, failed>>

(* Plausible bug: the key of the first gateway is kept. *)
AckArrivesKeyKept ==
    /\ pc = "ack" /\ AckIsOk(reply)
    /\ pc' = "tls" /\ Sends(Cmd)
    /\ result' = [result EXCEPT !.auth = TRUE,
                                !.key = IF @ = NoKey THEN serverKey ELSE @]
    /\ UNCHANGED <<input, left, trial, ending, clientKey, serverKey, open, closing, heard, issued,
                   served, failed>>

(* Status 200: the command frame is sent, and TLS begins. *)
AckArrives ==
    /\ pc = "ack" /\ AckIsOk(reply)
    /\ pc' = "tls" /\ Sends(Cmd)
    /\ result' = [result EXCEPT !.auth = TRUE, !.key = serverKey]
    /\ UNCHANGED <<input, left, trial, ending, clientKey, serverKey, open, closing, heard, issued,
                   served, failed>>

(* TLS is up: that is the session; it is held, or closed at once. *)
TlsUp ==
    /\ pc = "tls" /\ reply = "tls"
    /\ result' = [result EXCEPT !.tls = TRUE, !.action = TRUE]
    /\ IF keep THEN pc' = "holding" /\ UNCHANGED <<ending, open, closing>>
               ELSE Closes("ok")
    /\ UNCHANGED <<input, left, trial, clientKey, serverKey, frames, served, failed>>

HoldOver ==
    /\ pc = "holding"
    /\ Closes("ok")
    /\ UNCHANGED <<input, left, trial, clientKey, serverKey, result, frames, served, failed>>

(* Plausible bug: nothing bounds the wait for the ack. *)
TryFailsButAck ==
    /\ pc \in {"pong", "tls"} \/ (pc = "ack" /\ reply = "refusal")
    /\ Closes("failed")
    /\ UNCHANGED <<input, left, trial, clientKey, serverKey, result, frames, served, failed>>

(* A frame that does not decode, a status other than 200, a dropped connection,
   or the timeout of the read (10 s, 5 s) or of the TLS upgrade.           *)
TryFails ==
    /\ pc \in {"pong", "ack", "tls"}
    /\ Closes("failed")
    /\ UNCHANGED <<input, left, trial, clientKey, serverKey, result, frames, served, failed>>

(* Plausible bug: no break after a session. *)
ClosedWithoutBreak ==
    /\ pc = "closing"
    /\ closing' = {}
    /\ IF ending = "cancelled" THEN Ends(ending) /\ UNCHANGED failed
                               ELSE NextGateway /\ UNCHANGED ending
    /\ UNCHANGED <<input, left, trial, clientKey, serverKey, result, open, frames, served>>

(* wait_closed returned, or raised and was caught. *)
Closed ==
    /\ pc = "closing"
    /\ closing' = {}
    /\ IF ending = "failed" THEN NextGateway /\ UNCHANGED ending
                            ELSE Ends(ending) /\ UNCHANGED failed
    /\ UNCHANGED <<input, left, trial, clientKey, serverKey, result, open, frames, served>>

(* CancelledError at an await: a dial has nothing to close, a close that was
   waited for goes on without the call.                                    *)
Cancelled ==
    /\ pc \in {"dialing", "pong", "ack", "tls", "holding", "closing"}
    /\ IF pc \in {"dialing", "closing"}
         THEN Ends("cancelled") /\ UNCHANGED <<open, closing>>
         ELSE Closes("cancelled")
    /\ UNCHANGED <<input, left, trial, clientKey, serverKey, result, frames, served, failed>>

-----------------------------------------------------------------------------
(* The gateways: they answer the frame they have received, rightly or not,
   or stay silent, or drop the connection (TryFails).                      *)

Pongs(key) ==
    /\ open # {} /\ gate.kind = "hello" /\ reply = "none"
    /\ reply' = "pong" /\ issued' = key
    /\ UNCHANGED <<input, client, open, closing, gate, heard, served, failed>>

(* The credentials decrypt and are right: the session is this gateway's. *)
Acks ==
    /\ open # {} /\ gate.kind = "auth" /\ reply = "none"
    /\ Decrypts(gate.sealed, heard, issued)
    /\ reply' = "ack" /\ served' = [served EXCEPT ![Gateway] = issued]
    /\ UNCHANGED <<input, client, open, closing, gate, heard, issued, failed>>

UpgradesTls ==
    /\ open # {} /\ gate.kind = "cmd" /\ reply = "none"
    /\ reply' = "tls"
    /\ UNCHANGED <<input, client, open, closing, gate, heard, issued, served, failed>>

(* Another program's frame, a status other than 200, a TLS alert. *)
AnswersBadly ==
    /\ open # {} /\ reply = "none"
    /\ reply' = CASE gate.kind = "hello" -> "foreign"
                  [] gate.kind = "auth" -> "refusal"
                  [] gate.kind = "cmd" -> "alert"
    /\ UNCHANGED <<input, client, open, closing, gate, heard, issued, served, failed>>

(* The transport of a cancelled call closes by itself. *)
TransportCloses ==
    /\ pc = "done" /\ closing # {}
    /\ closing' = {}
    /\ UNCHANGED <<input, client, open, frames, served, failed>>

-----------------------------------------------------------------------------
Call ==
    \/ Start \/ TryGateway \/ NoGatewayLeft \/ DialFails
    \/ \E key \in Keys : Dialed(key)
    \/ PongArrives \/ AckArrives \/ TlsUp \/ HoldOver \/ TryFails \/ Closed

Network ==
    \/ \E key \in Keys : Pongs(key)
    \/ Acks \/ UpgradesTls \/ AnswersBadly \/ TransportCloses

Next == Call \/ Cancelled \/ Network

Spec == Init /\ [][Next]_vars

(* The awaits of the call have timeouts of their own; nobody has to answer. *)
FairSpec == Spec /\ WF_vars(Call)

-----------------------------------------------------------------------------
(* Properties.                                                             *)

(* Connections do not pile up: one gateway at a time, told to close before the
   next is dialed and before the call ends.                                *)
OneLinkAtATime ==
    /\ pc \in {"pong", "ack", "tls", "holding"} => open = {Gateway} /\ closing = {}
    /\ pc \notin {"pong", "ack", "tls", "holding"} => open = {}
    /\ pc \in {"start", "trying", "dialing"} => closing = {}
    /\ pc = "closing" => closing = {Gateway}

(* A result that says the session stood names the gateway that accepted this
   very session, with the key it gave, and no error of an earlier gateway;
   any other result of a call that ran to its end has an error.            *)
ResultIsTheSessions ==
    pc = "done" /\ ending # "cancelled" =>
        IF result.action
          THEN /\ result.auth /\ result.tls /\ result.error = "none"
               /\ result.key = served[result.addr] /\ result.key # NoKey
          ELSE result.error # "none"

(* The call gives up only after every gateway failed, unless an entry without
   an address ends it early; every gateway before that one has failed by then. *)
GivesUpLast ==
    pc = "done" /\ ending = "failed" =>
        \/ failed = DOMAIN cagList
        \/ result.error = "noaddr" /\ failed = (DOMAIN cagList) \ (left \cup {trial})

(* A gateway that got the credentials can read them: they are encrypted for the
   keys of this connection, whatever keys the gateways before it had.      *)
CredentialsReadable ==
    open # {} /\ gate.kind = "auth" => Decrypts(gate.sealed, heard, issued)

Before(i, j) ==
    IF cagList[i] \in V6 <=> cagList[j] \in V6 THEN i < j ELSE cagList[i] \notin V6

(* A gateway is dialed only after those before it have failed: every IPv4
   gateway before an IPv6 one, and each family in the platform's order.    *)
TriedInOrder ==
    pc = "dialing" => \A i \in DOMAIN cagList : Before(i, trial) => i \in failed

(* It keeps the promise of DesktopAttempt. *)
Attempt == INSTANCE DesktopAttempt WITH
    phase <- IF pc = "done" THEN "over"
             ELSE IF result.action THEN "held" ELSE "trying",
    link <- IF open # {} THEN "open" ELSE IF closing # {} THEN "closing" ELSE "none",
    verdict <- IF pc = "done" THEN ending ELSE "none"

KeepsPromise == Attempt!Spec

(* Whatever the gateways do or leave undone, a call ends. *)
CallEnds == pc = "start" ~> pc = "done"

-----------------------------------------------------------------------------
(* What the code's documents say of the call and the code does not do.     *)


-----------------------------------------------------------------------------
(* The inductive invariant behind the safety properties.                   *)

InTry == {"dialing", "pong", "ack", "tls", "holding", "closing"}

(* Every place is still to be tried, being tried, or has failed, and the ones
   to be tried come after the one being tried.                             *)
PlacesAreSplit ==
    /\ pc = "start" => left = DOMAIN cagList /\ failed = {}
    /\ pc = "trying" => failed = (DOMAIN cagList) \ left
    /\ pc \in InTry =>
          /\ trial \in (DOMAIN cagList) \ left
          /\ failed = (DOMAIN cagList) \ (left \cup {trial})
          /\ \A i \in left : ~Before(i, trial)

(* Both ends agree on the frame that is due, and on the key. *)
FramesInStep ==
    /\ pc \in {"pong", "ack"} => heard = clientKey
    /\ pc = "pong" => gate.kind = "hello" /\ (reply = "pong" => issued \in Keys)
    /\ pc = "ack" =>
          /\ gate.kind = "auth" /\ serverKey = issued /\ issued \in Keys
          /\ reply = "ack" => served[Gateway] = issued
    /\ pc \in {"tls", "holding"} => gate.kind = "cmd"

(* The result tells how far the call has come. *)
ResultFollowsCall ==
    /\ pc # "done" => result.error = "none"
    /\ pc \in InTry => result.addr = Gateway
    /\ pc \in {"start", "trying", "dialing", "pong", "ack", "tls"} => ~result.action
    /\ pc = "tls" => result.auth /\ result.key \in Keys /\ result.key = served[Gateway]
    /\ pc = "holding" => result.action
    /\ pc = "closing" => /\ ending # "none"
                         /\ ending = "ok" => result.action
                         /\ ending = "failed" => ~result.action
    /\ result.action => /\ result.auth /\ result.tls /\ result.error = "none"
                        /\ result.key \in Keys /\ result.key = served[result.addr]

IInv ==
    /\ TypeOK
    /\ OneLinkAtATime
    /\ ResultIsTheSessions
    /\ GivesUpLast
    /\ CredentialsReadable
    /\ PlacesAreSplit
    /\ FramesInStep
    /\ ResultFollowsCall
=============================================================================
