--------------------------- MODULE TcpPeersProofs ---------------------------
(***************************************************************************)
(* What a TCP connection of the server guarantees whatever its peer writes,*)
(* reads and closes: theorems of TcpPeers, for every size of the buffers,  *)
(* every Inbox and any number of frames (the answers: as many frames as    *)
(* there are numbers).                                                     *)
(***************************************************************************)
EXTENDS TcpPeers, TcpServerProofs

LEMMA PeersInit == Init => ConnectionInv
<1>. SUFFICES ASSUME Init PROVE ConnectionInv
  OBVIOUS
<1>1. /\ session \in Sessions /\ session.state = "NEW"
      /\ task = "reading" /\ ending = FALSE /\ peerClosed = FALSE
      /\ toServer = << >> /\ toClient = << >> /\ handled = << >> /\ sent = << >>
  BY MaxSeqAssumption DEF Init, NewSession, Sessions, State
<1>2. << >> \in Seq(Frames) /\ << >> \in Seq(Frames \cup [fault : ErrorCode])
  OBVIOUS
<1>3. ServerTypeOK
  BY <1>1, <1>2 DEF ServerTypeOK
<1>4. ServerStates /\ LoopFollowsSession /\ LastWord
  BY <1>1 DEF ServerStates, LoopFollowsSession, LastWord
<1>. QED
  BY <1>3, <1>4 DEF ConnectionInv

LEMMA PeerInv ==
  ASSUME ConnectionInv, Peer
  PROVE  ConnectionInv'
<1>1. /\ toServer \in Seq(Frames \cup [fault : ErrorCode])
      /\ toClient \in Seq(Frames) /\ peerClosed \in BOOLEAN
  BY DEF ConnectionInv, ServerTypeOK
<1>2. ASSUME NEW item \in Frames \cup [fault : ErrorCode], PeerWrites(item)
      PROVE  ConnectionInv'
  <2>1. toServer' \in Seq(Frames \cup [fault : ErrorCode])
    BY <1>1, <1>2 DEF PeerWrites
  <2>. QED
    BY <1>1, <1>2, <2>1, StreamsInv DEF PeerWrites, ownVars
<1>3. CASE PeerReads
  <2>1. toClient' \in Seq(Frames)
    BY <1>1, <1>3 DEF PeerReads
  <2>. QED
    BY <1>1, <1>3, <2>1, StreamsInv DEF PeerReads, ownVars
<1>4. CASE PeerCloses
  BY <1>1, <1>4, StreamsInv DEF PeerCloses, ownVars
<1>. QED
  BY <1>2, <1>3, <1>4, TcpPeersAssumption DEF Peer

(* The invariant of a connection holds in every reachable state.           *)
THEOREM ConnectionInvariant == Spec => []ConnectionInv
<1>1. ConnectionInv /\ [Next]_vars => ConnectionInv'
  <2>. SUFFICES ASSUME ConnectionInv, [Next]_vars PROVE ConnectionInv'
    OBVIOUS
  <2>1. CASE ServerStep
    BY <2>1, ServerStepInv
  <2>2. CASE Peer
    BY <2>2, PeerInv
  <2>3. CASE UNCHANGED serverVars
    <3>1. /\ toServer' \in Seq(Frames \cup [fault : ErrorCode])
          /\ toClient' \in Seq(Frames) /\ peerClosed' \in BOOLEAN
      BY <2>3 DEF serverVars, ConnectionInv, ServerTypeOK
    <3>. QED
      BY <2>3, <3>1, StreamsInv DEF serverVars, ownVars
  <2>4. CloseListener \/ ListenerClosed \/ UNCHANGED vars => UNCHANGED serverVars
    BY DEF CloseListener, ListenerClosed, vars, serverVars
  <2>. QED
    BY <2>1, <2>2, <2>3, <2>4 DEF Next
<1>. QED
  BY <1>1, PeersInit, PTL DEF Spec

(* Type correctness of a connection.                                       *)
THEOREM ConnectionTypeOK == Spec => []ServerTypeOK
<1>1. ConnectionInv => ServerTypeOK
  BY DEF ConnectionInv
<1>. QED
  BY <1>1, ConnectionInvariant, PTL

(* The loop of _handle runs exactly as long as its session is open.        *)
THEOREM ConnectionLoopFollowsSession == Spec => []LoopFollowsSession
<1>1. ConnectionInv => LoopFollowsSession
  BY DEF ConnectionInv
<1>. QED
  BY <1>1, ConnectionInvariant, PTL

(* Nothing is sent or run behind an ERROR or a BYE, however much the peer  *)
(* has written ahead.                                                      *)
THEOREM ConnectionLastWord == Spec => []LastWord
<1>1. ConnectionInv => LastWord
  BY DEF ConnectionInv
<1>. QED
  BY <1>1, ConnectionInvariant, PTL

-----------------------------------------------------------------------------
(* What is sent answers what ran.                                          *)

\* Nothing is sent but for a frame, or a fault, that the peer has written.
Bounded == written \in Nat /\ Len(sent) + Len(toServer) <= written /\ written <= MaxFrames

\* What a step of the server takes from the stream, and what it adds to sent.
LEMMA ServerStepTakes ==
  ASSUME ConnectionInv, ServerStep
  PROVE  Len(sent') + Len(toServer') <= Len(sent) + Len(toServer)
<1>1. /\ sent \in Seq(Frames) /\ toServer \in Seq(Frames \cup [fault : ErrorCode])
      /\ Len(sent) \in Nat /\ Len(toServer) \in Nat
  BY DEF ConnectionInv, ServerTypeOK
<1>2. toServer # << >> => Len(Tail(toServer)) = Len(toServer) - 1
  BY <1>1
<1>3. \A x : Says(x) => Len(sent') = Len(sent) + 1
  BY <1>1, Behind DEF Says
<1>4. SaysNothing => Len(sent') = Len(sent)
  BY DEF SaysNothing
<1>5. CASE ReadFrame
  BY <1>1, <1>2, <1>3, <1>4, <1>5, ReadFrameSays
<1>6. CASE ReadFault
  BY <1>1, <1>2, <1>3, <1>6, ReadFaultSays
<1>7. CASE Timeout
  BY <1>1, <1>4, <1>7, TimeoutSays
<1>8. CASE PeerGone \/ Drained \/ WaitClosed
  BY <1>1, <1>8 DEF PeerGone, Drained, WaitClosed
<1>. QED
  BY <1>5, <1>6, <1>7, <1>8 DEF ServerStep

LEMMA BoundedStep ==
  ASSUME ConnectionInv, Bounded, [Next]_vars
  PROVE  Bounded'
<1>1. /\ sent \in Seq(Frames) /\ toServer \in Seq(Frames \cup [fault : ErrorCode])
      /\ Len(sent) \in Nat /\ Len(toServer) \in Nat /\ MaxFrames \in Nat
  BY TcpPeersAssumption DEF ConnectionInv, ServerTypeOK
<1>2. CASE ServerStep /\ UNCHANGED <<written, listener>>
  <2>1. Len(sent') \in Nat /\ Len(toServer') \in Nat
    BY <1>2, ServerStepInv DEF ConnectionInv, ServerTypeOK
  <2>. QED
    BY <1>1, <1>2, <2>1, ServerStepTakes DEF Bounded
<1>3. ASSUME NEW item \in Frames \cup [fault : ErrorCode], PeerWrites(item)
      PROVE  Bounded'
  <2>1. Len(Append(toServer, item)) = Len(toServer) + 1
    BY <1>1, <1>3
  <2>. QED
    BY <1>1, <1>3, <2>1 DEF PeerWrites, Bounded
<1>4. CASE PeerReads \/ PeerCloses \/ CloseListener \/ ListenerClosed \/ UNCHANGED vars
  BY <1>4 DEF PeerReads, PeerCloses, CloseListener, ListenerClosed, vars, serverVars, Bounded
<1>. QED
  BY <1>2, <1>3, <1>4, TcpPeersAssumption DEF Next, Peer

LEMMA ReplyStep ==
  ASSUME ConnectionInv, ReplyInv, [Next]_vars
  PROVE  ReplyInv'
<1>1. CASE ServerStep
  BY <1>1, ServerStepReplies
<1>2. Peer \/ CloseListener \/ ListenerClosed \/ UNCHANGED vars
        => UNCHANGED <<session, handled, sent>>
  BY DEF Peer, PeerWrites, PeerReads, PeerCloses, CloseListener, ListenerClosed, vars, serverVars
<1>. QED
  BY <1>1, <1>2, RepliesKept DEF Next

(* What is sent answers what ran, one for one and in the order of arrival, *)
(* whatever the peer writes ahead, reads and leaves unread; and the numbers*)
(* of what is sent count it, as long as the peer writes no more frames than*)
(* there are numbers.                                                      *)
THEOREM ConnectionAnswersInOrder ==
  ASSUME MaxFrames <= MaxSeq + 1
  PROVE  Spec => []AnswersInOrder
<1>1. Init => ReplyInv /\ Bounded
  <2>. SUFFICES ASSUME Init PROVE ReplyInv /\ Bounded
    OBVIOUS
  <2>1. ReplyInv
    BY RepliesBegin DEF Init
  <2>2. Bounded
    BY TcpPeersAssumption DEF Init, Bounded
  <2>. QED
    BY <2>1, <2>2
<1>2. ConnectionInv /\ ReplyInv /\ Bounded /\ [Next]_vars => (ReplyInv /\ Bounded)'
  BY BoundedStep, ReplyStep
<1>3. ConnectionInv /\ ReplyInv /\ Bounded => AnswersInOrder
  <2>. SUFFICES ASSUME ConnectionInv, ReplyInv, Bounded PROVE AnswersInOrder
    OBVIOUS
  <2>1. Len(sent) \in Nat /\ Len(toServer) \in Nat
    BY DEF ConnectionInv, ServerTypeOK
  <2>2. Len(sent) <= MaxSeq + 1
    BY <2>1, TcpPeersAssumption, MaxSeqAssumption DEF Bounded
  <2>. QED
    BY <2>2, RepliesInOrder
<1>. QED
  BY <1>1, <1>2, <1>3, ConnectionInvariant, PTL DEF Spec
=============================================================================
