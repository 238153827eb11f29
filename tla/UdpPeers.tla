------------------------------ MODULE UdpPeers ------------------------------
(***************************************************************************)
(* The UDP server facing peers that may send any authenticated frame of    *)
(* Inbox, any number of times and in any order.  The peers are not the     *)
(* UdpClient of the repository: what holds here holds for every client.    *)
(***************************************************************************)
EXTENDS UdpServer

CONSTANT Inbox

ASSUME InboxAssumption == Inbox \subseteq Frames

Next == ServerNext(Inbox)

Spec == ServerInit /\ [][Next]_serverVars
=============================================================================
