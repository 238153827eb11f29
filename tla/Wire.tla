-------------------------------- MODULE Wire --------------------------------
(***************************************************************************)
(* The messages of the protocol as the sessions see them: a decoded frame, *)
(* its numbering and the payloads of the control messages.                 *)
(*                                                                         *)
(* A payload is a record with one field: [data |-> d] for application      *)
(* bytes, or the one field of a JSON control payload that the receiver     *)
(* reads (the nonces, the texts of errors and the encoding are left out).  *)
(***************************************************************************)
EXTENDS Integers, Sequences

CONSTANTS
  MaxSeq,     \* the largest sequence number, 2^32 - 1 in the code
  Client,     \* the peers: an address, and the client_id of who uses it
  Data        \* application payloads

ASSUME MaxSeqAssumption == MaxSeq \in Nat \ {0}

MsgType == {"HELLO", "HELLO_ACK", "DATA", "ACK", "PING", "PONG", "ERROR", "BYE"}

ErrorCode ==
  {"ERR_VERSION", "ERR_MAGIC", "ERR_LENGTH", "ERR_CRC", "ERR_AUTH", "ERR_TYPE",
   "ERR_STATE", "ERR_SEQ", "ERR_FLAGS", "ERR_TIMEOUT", "ERR_INTERNAL"}

\* The bits of KNOWN_FLAGS.
Flag == {"REQUIRE_ACK", "RETRANSMIT"}

\* (seq + 1) & MAX_SEQ: numbers wrap.
NextSeq(seq) == (seq + 1) % (MaxSeq + 1)

\* An empty payload: application bytes like any other, and not a JSON object.
NoPayload == [data |-> "empty"]

Payload ==
       [data : Data \cup {"empty"}]
  \cup [client_id : Client]
  \cup [session_id : Nat]
  \cup [code : ErrorCode]
  \cup [ack_seq : 0..MaxSeq]

Frames == [type : MsgType, seq : 0..MaxSeq, payload : Payload, flags : SUBSET Flag]

Frame(type, seq, payload, flags) ==
  [type |-> type, seq |-> seq, payload |-> payload, flags |-> flags]

(* decode_hello, decode_hello_ack, decode_error and decode_ack differ in   *)
(* the field they require: bytes that are no JSON object are ERR_LENGTH, an*)
(* object without the field is ERR_STATE.                                  *)
Decode(payload, field) ==
  IF "data" \in DOMAIN payload THEN "ERR_LENGTH"
  ELSE IF field \notin DOMAIN payload THEN "ERR_STATE"
  ELSE "OK"
=============================================================================
