----------------------------- MODULE ZtecFrames -----------------------------
(***************************************************************************)
(* The frames of the ZTEC handshake (pcas/cmss_desktop/ztec_protocol.py),  *)
(* as far as the two ends tell them apart: who chose which key, and under  *)
(* which key the credentials are encrypted.                                *)
(***************************************************************************)
CONSTANTS
    Keys,   \* 32 bit numbers either end may choose
    NoKey   \* no key

ASSUME KeysAssumption == NoKey \notin Keys

AnyKey == Keys \cup {NoKey}

(* What the machine's data must have: a 36 character id, and a password that
   decrypts with the key of the SDK.                                       *)
Machine == [uuid : BOOLEAN, password : BOOLEAN]

(* The CagParam of a machine can be made. *)
FromDeviceInfo(machine) == machine.uuid

-----------------------------------------------------------------------------
(* derive_session_key_and_iv: the AES key begins with both keys in hex, and the
   rest of it and the IV are computed from them, so another pair of keys never
   gives the same AES key, and both ends get the same key and IV.          *)
SessionKey(clientKey, serverKey) == <<clientKey, serverKey>>

(* ztec_aes256_cbc_decrypt gives the plaintext for the key it was encrypted
   with and noise for any other.                                           *)
Decrypts(sealed, clientKey, serverKey) == sealed = SessionKey(clientKey, serverKey)

(* To the gateway.  hello tells the client's key, the auth packet has the
   credentials encrypted, cmd is constant.                                 *)
Frame == [kind : {"none", "hello", "auth", "cmd"}, key : AnyKey, sealed : AnyKey \X AnyKey]

Unsealed == <<NoKey, NoKey>>
NoFrame == [kind |-> "none", key |-> NoKey, sealed |-> Unsealed]
Hello(clientKey) == [kind |-> "hello", key |-> clientKey, sealed |-> Unsealed]

(* The aes_flag of the pong is handed on and not looked at: whatever cipher the
   gateway asks for, the credentials are sealed with AES-256-CBC.  What a
   gateway does that asked for another one is AnswersBadly of CagConnect.  *)
AuthPacket(clientKey, serverKey) ==
    [kind |-> "auth", key |-> NoKey, sealed |-> SessionKey(clientKey, serverKey)]

Cmd == [kind |-> "cmd", key |-> NoKey, sealed |-> Unsealed]

(* To the client, with the length the client reads. *)
Replies == {"none", "pong", "foreign", "ack", "refusal", "tls", "alert"}

(* A pong has the magic in front, and tells the gateway's key. *)
PongDecodes(reply) == reply = "pong"

(* An ack has the status 200. *)
AckIsOk(reply) == reply = "ack"
=============================================================================
