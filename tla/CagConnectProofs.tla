-------------------------- MODULE CagConnectProofs --------------------------
(***************************************************************************)
(* Proofs about CagConnect, for any cagList and any set of gateways and    *)
(* keys: connections do not pile up, a result tells the truth, gateways    *)
(* are tried in order and given up last, and the promise of DesktopAttempt *)
(* is kept.                                                                *)
(***************************************************************************)
EXTENDS CagConnect, TLAPS

(* What the frames to the gateway are made of. *)
LEMMA FrameFacts ==
    ASSUME NEW j \in AnyKey, NEW k \in AnyKey
    PROVE  /\ NoFrame \in Frame /\ NoFrame.kind = "none"
           /\ Hello(k) \in Frame /\ Hello(k).kind = "hello"
           /\ Cmd \in Frame /\ Cmd.kind = "cmd"
           /\ AuthPacket(j, k) \in Frame /\ AuthPacket(j, k).kind = "auth"
           /\ Decrypts(AuthPacket(j, k).sealed, j, k)
<1>1. Unsealed \in AnyKey \X AnyKey /\ SessionKey(j, k) \in AnyKey \X AnyKey /\ NoKey \in AnyKey
    BY DEF Unsealed, SessionKey, AnyKey
<1>. QED
    BY <1>1 DEF NoFrame, Hello, Cmd, AuthPacket, Frame, Decrypts

(* Before the call nothing has been tried. *)
LEMMA InitIInv == Init => IInv
<1> SUFFICES ASSUME Init PROVE IInv
    OBVIOUS
<1>1. cagList \in Seq(Gateways)
    BY DEF Init, Lists
<1>2. NoResult \in Result /\ ~NoResult.action /\ NoResult.error = "none"
    BY DEF NoResult, Result, NoGateway, AnyKey
<1>3. NoKey \in AnyKey /\ NoFrame \in Frame /\ NoFrame.kind = "none"
    BY FrameFacts DEF AnyKey
<1>4. TypeOK
  <2>1. served \in [Gateways -> AnyKey]
      BY <1>3 DEF Init
  <2>2. left \subseteq DOMAIN cagList /\ failed \subseteq DOMAIN cagList
      BY DEF Init
  <2>. QED
      BY <1>1, <1>2, <1>3, <2>1, <2>2 DEF Init, TypeOK, Replies
<1>. QED
    BY <1>2, <1>3, <1>4 DEF Init, IInv, OneLinkAtATime, ResultIsTheSessions, GivesUpLast,
        CredentialsReadable, PlacesAreSplit, FramesInStep, ResultFollowsCall, InTry

(* Every step keeps the invariant. *)
LEMMA NextIInv == IInv /\ [Next]_vars => IInv'
<1> SUFFICES ASSUME IInv, [Next]_vars PROVE IInv'
    OBVIOUS
<1> USE DEF IInv, TypeOK, OneLinkAtATime, ResultIsTheSessions, GivesUpLast,
        CredentialsReadable, PlacesAreSplit, FramesInStep, ResultFollowsCall, InTry, Ends,
        NextGateway, Closes, Sends, Takes, Gateway, Replies, input, client, net, frames, Before
<1>1. CASE Start
  <2>1. CASE cagList = <<>>
    <3>1. DOMAIN cagList = {}
        BY <2>1
    <3>2. /\ result' = [result EXCEPT !.error = "unusable"] /\ pc' = "done"
          /\ ending' = "failed" /\ failed = {}
          /\ UNCHANGED <<input, left, trial, clientKey, serverKey, net, served, failed>>
        BY <1>1, <2>1 DEF Start
    <3>3. result' \in Result /\ result'.error = "unusable" /\ result'.action = result.action
        BY <3>2 DEF Result
    <3>. QED
        BY <1>1, <3>1, <3>2, <3>3 DEF Start
  <2>2. CASE cagList # <<>>
    <3>1. /\ pc = "start" /\ pc' = "trying" /\ open = {}
          /\ UNCHANGED <<cagList, machine, keep, left, trial, ending, clientKey, serverKey, result,
                         open, closing, gate, heard, reply, issued, served, failed>>
        BY <1>1, <2>2 DEF Start
    <3>2. failed = {} /\ left = DOMAIN cagList /\ result.error = "none" /\ ~result.action
        BY <3>1
    <3>. QED
        BY <3>1, <3>2
  <2>. QED
      BY <2>1, <2>2
<1>2. CASE TryGateway
    BY <1>2 DEF TryGateway, Candidates, Result
<1>3. CASE NoGatewayLeft
    BY <1>3 DEF NoGatewayLeft, Result
<1>4. ASSUME NEW key \in Keys, Dialed(key)
      PROVE  IInv'
  <2>1. Hello(key) \in Frame /\ Hello(key).kind = "hello" /\ key \in AnyKey /\ NoKey \in AnyKey
      BY FrameFacts DEF AnyKey
  <2>. QED
      BY <1>4, <2>1 DEF Dialed
<1>5. CASE DialFails
    BY <1>5 DEF DialFails
<1>6. CASE PongArrives
  <2>1. issued \in Keys /\ heard = clientKey /\ pc = "pong"
      BY <1>6 DEF PongArrives, PongDecodes
  <2>2. /\ AuthPacket(clientKey, issued) \in Frame
        /\ AuthPacket(clientKey, issued).kind = "auth"
        /\ Decrypts(AuthPacket(clientKey, issued).sealed, heard, issued)
      BY <2>1, FrameFacts
  <2>. QED
      BY <1>6, <2>1, <2>2 DEF PongArrives
<1>7. CASE AckArrives
  <2>1. Cmd \in Frame /\ Cmd.kind = "cmd"
      BY FrameFacts
  <2>. QED
      BY <1>7, <2>1 DEF AckArrives, AckIsOk, Result
<1>8. CASE TlsUp
    BY <1>8 DEF TlsUp, Result
<1>9. CASE HoldOver
    BY <1>9 DEF HoldOver
<1>10. CASE TryFails
    BY <1>10 DEF TryFails
<1>11. CASE Closed
  <2>1. CASE ending = "failed"
      BY <1>11, <2>1 DEF Closed
  <2>2. CASE ending # "failed"
    <3>1. /\ pc = "closing" /\ pc' = "done" /\ closing' = {}
          /\ UNCHANGED <<cagList, machine, keep, left, trial, ending, clientKey, serverKey, result,
                         open, gate, heard, reply, issued, served, failed>>
        BY <1>11, <2>2 DEF Closed
    <3>2. /\ open = {} /\ ending \in {"ok", "cancelled"}
          /\ ending = "ok" => result.action
        BY <2>2, <3>1
    <3>3. TypeOK'
        BY <3>1
    <3>4. OneLinkAtATime' /\ CredentialsReadable' /\ PlacesAreSplit' /\ FramesInStep'
        BY <3>1, <3>2
    <3>5. ResultIsTheSessions' /\ GivesUpLast' /\ ResultFollowsCall'
      <4>1. NoKey \notin Keys
          BY KeysAssumption
      <4>. QED
          BY <3>1, <3>2, <4>1
    <3>. QED
        BY <3>3, <3>4, <3>5
  <2>. QED
      BY <2>1, <2>2
<1>12. CASE Cancelled
    BY <1>12 DEF Cancelled
<1>13. CASE Network
  <2>1. ASSUME NEW key \in Keys, Pongs(key)
        PROVE  IInv'
      BY <2>1 DEF Pongs, AnyKey, PongDecodes
  <2>2. CASE Acks
      BY <2>2 DEF Acks
  <2>3. CASE UpgradesTls
      BY <2>3 DEF UpgradesTls
  <2>4. CASE AnswersBadly
    <3>1. gate.kind \in {"hello", "auth", "cmd"} => reply' \in {"foreign", "refusal", "alert"}
        BY <2>4 DEF AnswersBadly
    <3>2. pc \in {"pong", "ack", "tls", "holding"}
        BY <2>4 DEF AnswersBadly
    <3>3. gate.kind \in {"hello", "auth", "cmd"}
        BY <3>2
    <3>4. UNCHANGED <<input, client, open, closing, gate, heard, issued, served, failed>>
        BY <2>4 DEF AnswersBadly
    <3>. QED
        BY <3>1, <3>3, <3>4
  <2>5. CASE TransportCloses
      BY <2>5 DEF TransportCloses
  <2>. QED
      BY <1>13, <2>1, <2>2, <2>3, <2>4, <2>5 DEF Network
<1>14. CASE UNCHANGED vars
    BY <1>14 DEF vars
<1>. QED
    BY <1>1, <1>2, <1>3, <1>4, <1>5, <1>6, <1>7, <1>8, <1>9, <1>10, <1>11, <1>12, <1>13, <1>14
    DEF Next, Call

(* The inductive invariant holds throughout. *)
LEMMA Invariance == Spec => []IInv
BY InitIInv, NextIInv, PTL DEF Spec

(* The types of CagConnect, for any cagList. *)
THEOREM TypeCorrect == Spec => []TypeOK
<1>1. IInv => TypeOK
    BY DEF IInv
<1>. QED
    BY <1>1, Invariance, PTL

(* Connections do not pile up: the finally of each try closes its own before
   the next gateway is dialed and before the call ends.                    *)
THEOREM LinkSafety == Spec => []OneLinkAtATime
<1>1. IInv => OneLinkAtATime
    BY DEF IInv
<1>. QED
    BY <1>1, Invariance, PTL

(* The credentials never reach a gateway under a key it does not have. *)
THEOREM KeySafety == Spec => []CredentialsReadable
<1>1. IInv => CredentialsReadable
    BY DEF IInv
<1>. QED
    BY <1>1, Invariance, PTL

(* A successful result is the session of the gateway it names, whatever the
   gateways tried before it had answered; any other result has an error.   *)
THEOREM ResultSafety == Spec => []ResultIsTheSessions
<1>1. IInv => ResultIsTheSessions
    BY DEF IInv
<1>. QED
    BY <1>1, Invariance, PTL

(* The call gives up only when every gateway has failed, or at an entry
   without an address.                                                     *)
THEOREM GiveUpSafety == Spec => []GivesUpLast
<1>1. IInv => GivesUpLast
    BY DEF IInv
<1>. QED
    BY <1>1, Invariance, PTL

(* IPv4 gateways come first, and each family in the order of the list. *)
THEOREM OrderSafety == Spec => []TriedInOrder
<1>1. IInv => TriedInOrder
  <2> SUFFICES ASSUME IInv, pc = "dialing", NEW i \in DOMAIN cagList, Before(i, trial)
               PROVE  i \in failed
      BY DEF TriedInOrder
  <2>1. i # trial
      BY DEF Before, IInv, TypeOK, PlacesAreSplit, InTry
  <2>. QED
      BY <2>1 DEF IInv, PlacesAreSplit, InTry
<1>. QED
    BY <1>1, Invariance, PTL

(* connect_desktop keeps the promise the supervisor relies on. *)
THEOREM Refinement == Spec => KeepsPromise
<1>1. Init => Attempt!Init
    BY DEF Init, Attempt!Init, NoResult
<1>2. IInv /\ [Next]_vars => [Attempt!Next]_Attempt!attemptVars
  <2> SUFFICES ASSUME IInv, [Next]_vars
               PROVE  [Attempt!Next]_Attempt!attemptVars
      OBVIOUS
  <2> USE DEF IInv, OneLinkAtATime, ResultFollowsCall, InTry, Ends, NextGateway, Closes, net, frames,
          Attempt!Next, Attempt!attemptVars
  <2>1. CASE Start
    <3>1. /\ pc = "start" /\ open = {} /\ ~result.action
          /\ UNCHANGED net /\ result'.action = result.action
          /\ \/ pc' = "done" /\ ending' = "failed"
             \/ pc' = "trying"
        BY <2>1 DEF Start, TypeOK, Result
    <3>. QED
        BY <3>1 DEF Attempt!Fail
  <2>2. CASE TryGateway
      BY <2>2 DEF TryGateway, Attempt!Fail, TypeOK, Result
  <2>3. CASE NoGatewayLeft
      BY <2>3 DEF NoGatewayLeft, Attempt!Fail, TypeOK, Result
  <2>4. ASSUME NEW key \in Keys, Dialed(key)
        PROVE  [Attempt!Next]_Attempt!attemptVars
      BY <2>4 DEF Dialed, Attempt!Open
  <2>5. CASE DialFails
      BY <2>5 DEF DialFails
  <2>6. CASE PongArrives
      BY <2>6 DEF PongArrives
  <2>7. CASE AckArrives
      BY <2>7 DEF AckArrives, TypeOK, Result
  <2>8. CASE TlsUp
      BY <2>8 DEF TlsUp, Attempt!Hold, Attempt!HoldNothing, TypeOK, Result
  <2>9. CASE HoldOver
      BY <2>9 DEF HoldOver, Attempt!Close
  <2>10. CASE TryFails
      BY <2>10 DEF TryFails, Attempt!Close
  <2>11. CASE Closed
    <3>1. CASE ending = "failed"
        BY <2>11, <3>1 DEF Closed, Attempt!Gone
    <3>2. CASE ending = "ok"
        BY <2>11, <3>2 DEF Closed, Attempt!Succeed
    <3>3. CASE ending = "cancelled"
        BY <2>11, <3>3 DEF Closed, Attempt!Cancelled
    <3>. QED
        BY <2>11, <3>1, <3>2, <3>3 DEF Closed, TypeOK
  <2>12. CASE Cancelled
      BY <2>12 DEF Cancelled, Attempt!Close, Attempt!Cancelled
  <2>13. CASE Network
      BY <2>13 DEF Network, Pongs, Acks, UpgradesTls, AnswersBadly, TransportCloses,
                   client, Attempt!Gone
  <2>14. CASE UNCHANGED vars
      BY <2>14 DEF vars, client
  <2>. QED
      BY <2>1, <2>2, <2>3, <2>4, <2>5, <2>6, <2>7, <2>8, <2>9, <2>10, <2>11, <2>12,
         <2>13, <2>14 DEF Next, Call
<1>. QED
    BY <1>1, <1>2, Invariance, PTL DEF Spec, KeepsPromise, Attempt!Spec
=============================================================================
