----------------------------- MODULE MCUdpPeers -----------------------------
(***************************************************************************)
(* UdpPeers for TLC: one address, four request numbers, and a frame for    *)
(* every path through the session.                                         *)
(***************************************************************************)
EXTENDS UdpPeers

CONSTANTS c1, d1

Hello == [client_id |-> c1]
Ackd  == {"REQUIRE_ACK"}

MCInbox ==
  { Frame("HELLO", 0, Hello, Ackd),
    Frame("HELLO", 1, Hello, Ackd),                          \* a late handshake, or a second one
    Frame("HELLO", 0, [code |-> "ERR_TYPE"], Ackd),          \* an object without client_id
    Frame("HELLO", 2, [data |-> d1], {}),                    \* no object at all
    Frame("DATA", 1, [data |-> d1], Ackd),
    Frame("DATA", 2, [data |-> d1], Ackd \cup {"RETRANSMIT"}),
    Frame("DATA", 3, [data |-> d1], Ackd),
    Frame("PING", 1, [data |-> d1], {}),
    Frame("PING", 3, [data |-> d1], Ackd),
    Frame("PONG", 1, NoPayload, {}),                         \* its reply is empty
    Frame("HELLO_ACK", 2, [session_id |-> 0], Ackd),
    Frame("BYE", 2, NoPayload, Ackd),
    Frame("ERROR", 2, [code |-> "ERR_TYPE"], Ackd),
    Frame("ERROR", 2, [data |-> d1], Ackd) }
=============================================================================
