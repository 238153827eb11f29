------------------------------ MODULE TcpPeers ------------------------------
(***************************************************************************)
(* One TCP connection of the server, facing a peer that may write anything *)
(* of Inbox and Faults ahead of the answers, read or not read, and close;  *)
(* and the listener, which may be closed while the connection is open.     *)
(***************************************************************************)
EXTENDS TcpServer

CONSTANTS
  Inbox,     \* frames
  Faults,    \* the errors of bytes that do not decode
  MaxFrames  \* bound: what the peer writes before it falls silent

ASSUME TcpPeersAssumption ==
  /\ Inbox \subseteq Frames /\ Faults \subseteq ErrorCode
  /\ MaxFrames \in Nat

VARIABLES
  written,   \* how many frames and faults the peer has written
  listener   \* "listening", "closing" (in wait_closed), "closed"

vars == <<session, task, ending, toServer, toClient, peerClosed, handled, sent, written, listener>>

Init ==
  /\ session = NewSession(0)
  /\ task = "reading"
  /\ ending = FALSE
  /\ toServer = << >> /\ toClient = << >>
  /\ peerClosed = FALSE
  /\ handled = << >> /\ sent = << >>
  /\ written = 0
  /\ listener = "listening"

PeerWrites(item) ==
  /\ ~peerClosed
  /\ written < MaxFrames
  /\ toServer' = Append(toServer, item)
  /\ written' = written + 1
  /\ UNCHANGED <<session, task, ending, toClient, peerClosed, handled, sent, listener>>

PeerReads ==
  /\ ~peerClosed
  /\ toClient # << >>
  /\ toClient' = Tail(toClient)
  /\ UNCHANGED <<session, task, ending, toServer, peerClosed, handled, sent, written, listener>>

PeerCloses ==
  /\ ~peerClosed
  /\ peerClosed' = TRUE
  /\ UNCHANGED <<session, task, ending, toServer, toClient, handled, sent, written, listener>>

Peer ==
  \/ \E f \in Inbox : PeerWrites(f)
  \/ \E code \in Faults : PeerWrites([fault |-> code])
  \/ PeerReads
  \/ PeerCloses

\* WirelineServer.close().
CloseListener ==
  /\ listener = "listening"
  /\ listener' = "closing"
  /\ UNCHANGED <<serverVars, written>>


\* asyncio.Server.wait_closed, which waits for the connections (from Python 3.12
\* on; before, it returns at once).
NoneActive == task = "closed"

ListenerClosed ==
  /\ listener = "closing"
  /\ NoneActive
  /\ listener' = "closed"
  /\ UNCHANGED <<serverVars, written>>

Next ==
  \/ ServerStep /\ UNCHANGED <<written, listener>>
  \/ Peer
  \/ CloseListener
  \/ ListenerClosed

Spec == Init /\ [][Next]_vars

\* The event loop runs the tasks and the timer; nothing is assumed of the peer.
FairSpec ==
  /\ Spec
  /\ WF_vars(ServerStep /\ UNCHANGED <<written, listener>>)
  /\ WF_vars(ListenerClosed)

-----------------------------------------------------------------------------

(* A dead or silent peer does not hold a connection forever (idle_timeout, *)
(* handshake_timeout): its task ends.                                      *)
Released == <>(task = "closed")

\* The peer again and again makes room for what was sent to it, or closes.
MakesRoom == []<>(peerClosed \/ Flushed(toClient))


=============================================================================
