----------------------------- MODULE MCTcpPeers -----------------------------
(***************************************************************************)
(* TcpPeers for TLC: a frame for every branch of the session.              *)
(***************************************************************************)
EXTENDS TcpPeers

CONSTANTS c1, d1

MCInbox ==
  { Frame("HELLO", 0, [client_id |-> c1], {}),
    Frame("DATA", 1, [data |-> d1], {}),
    Frame("PING", 2, NoPayload, {}),
    Frame("PONG", 2, NoPayload, {}),
    Frame("BYE", 3, NoPayload, {}),
    Frame("ERROR", 3, [code |-> "ERR_TYPE"], {}) }

MCFaults == {"ERR_AUTH"}
=============================================================================
