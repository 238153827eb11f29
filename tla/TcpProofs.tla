------------------------------ MODULE TcpProofs -----------------------------
(***************************************************************************)
(* Client and server over TCP: the server runs what the client sent; the   *)
(* client keeps its place in the stream, returns the answer to its own     *)
(* frame until a call times out, and on one connection takes no frame for a*)
(* replay; both sides wait for each other only behind a timeout.  For every*)
(* size of the buffers and of the parts of a frame, any number of requests *)
(* and, where nothing else is said, of connections.                        *)
(***************************************************************************)
EXTENDS Tcp, TcpServerProofs

\* What was sent and has not run is in the stream, as long as the loop goes on.
NothingSkipped ==
  task = "reading" \/ (task = "draining" /\ ~ending) => issued = handled \o toServer

\* Between the parts of a frame read_frame stands inside the first of the queue.
InsideFrame ==
  /\ got # "nothing" => op = "receiving" /\ toClient # << >>
  /\ got = "header" => skip = HeaderSize

TcpInv ==
  /\ ConnectionInv
  /\ outSeq \in 0..MaxSeq
  /\ got \in {"nothing", "header", "body"}
  /\ issued \in Seq(Frames)
  /\ toServer \in Seq(Frames)
  /\ RunsInOrder
  /\ NothingSkipped
  /\ InsideFrame

-----------------------------------------------------------------------------

LEMMA InitInv == Init => TcpInv
<1>. SUFFICES ASSUME Init PROVE TcpInv
  OBVIOUS
<1>1. /\ session \in Sessions /\ session.state = "NEW" /\ outSeq = 0 /\ outSeq \in 0..MaxSeq
      /\ task = "closed" /\ ending = FALSE /\ peerClosed = TRUE
      /\ toServer = << >> /\ toClient = << >> /\ handled = << >> /\ sent = << >>
      /\ issued = << >> /\ got = "nothing"
  BY MaxSeqAssumption DEF Init, NoConnection, ClientInit, NewSession, Sessions, State
<1>2. << >> \in Seq(Frames) /\ << >> \in Seq(Frames \cup [fault : ErrorCode])
  OBVIOUS
<1>3. ServerTypeOK
  BY <1>1, <1>2 DEF ServerTypeOK
<1>4. ServerStates /\ LoopFollowsSession /\ LastWord
  BY <1>1 DEF ServerStates, LoopFollowsSession, LastWord
<1>5. RunsInOrder /\ NothingSkipped /\ InsideFrame
  BY <1>1 DEF RunsInOrder, NothingSkipped, InsideFrame
<1>. QED
  BY <1>1, <1>2, <1>3, <1>4, <1>5 DEF ConnectionInv, TcpInv

LEMMA MoreItems ==
  ASSUME NEW queue \in Seq(Frames)
  PROVE  queue \in Seq(Frames \cup [fault : ErrorCode])
OBVIOUS

LEMMA ConcatAppend ==
  ASSUME NEW a \in Seq(Frames), NEW b \in Seq(Frames), NEW x \in Frames
  PROVE  Append(a \o b, x) = a \o Append(b, x)
<1>1. << x >> \in Seq(Frames) /\ a \o b \in Seq(Frames)
  BY ConcatProperties
<1>2. Append(a \o b, x) = (a \o b) \o << x >> /\ Append(b, x) = b \o << x >>
  BY <1>1, AppendIsConcat
<1>. QED
  BY <1>1, <1>2, ConcatAssociative

\* Taking the first item of a queue, and putting it behind what came before.
LEMMA ConcatHead ==
  ASSUME NEW a \in Seq(Frames), NEW b \in Seq(Frames), NEW x \in Frames
  PROVE  a \o (<< x >> \o b) = Append(a, x) \o b
<1>1. << x >> \in Seq(Frames)
  OBVIOUS
<1>2. Append(a, x) = a \o << x >>
  BY AppendIsConcat
<1>. QED
  BY <1>1, <1>2, ConcatAssociative

LEMMA NextSeqFits ==
  ASSUME outSeq \in 0..MaxSeq
  PROVE  NextSeq(outSeq) \in 0..MaxSeq
BY NextSeqType

LEMMA NumberedType ==
  ASSUME outSeq \in 0..MaxSeq, NEW type \in MsgType, NEW payload \in Payload
  PROVE  Numbered(type, payload) \in Frames
BY DEF Numbered, Frame, Frames

-----------------------------------------------------------------------------
(* The server's steps.                                                     *)

\* A frame is read: it runs next, or nothing runs any more.
LEMMA ReadInv ==
  ASSUME TcpInv, ReadFrame, UNCHANGED clientVars
  PROVE  TcpInv'
<1>. DEFINE f == Head(toServer)
            rest == Tail(toServer)
            r == OnFrame(session, f)
<1>1. /\ task = "reading" /\ toServer # << >> /\ Apply(r) /\ toServer' = rest
      /\ handled' = IF Accepted(r) THEN Append(handled, f) ELSE handled
  BY DEF ReadFrame
<1>2. /\ ConnectionInv /\ session \in Sessions
      /\ handled \in Seq(Frames) /\ toServer \in Seq(Frames) /\ issued \in Seq(Frames)
      /\ toClient \in Seq(Frames)
  BY DEF TcpInv, ConnectionInv, ServerTypeOK
<1>3. f \in Frames /\ rest \in Seq(Frames) /\ toServer = << f >> \o rest
  BY <1>1, <1>2
<1>4. issued = handled \o toServer
  BY <1>1 DEF TcpInv, NothingSkipped
<1>5. r \in Reactions /\ Shaped(r, f.type = "BYE")
  BY <1>1, <1>2, <1>3, NothingSaidYet, OnFrameType, OnFrameShape
<1>. HIDE DEF f, rest, r
<1>6. ~Accepted(r) => r.close /\ r.frames # << >>
  BY <1>5 DEF Shaped, Accepted, LastWords
<1>7. /\ ending' = r.close /\ toClient' = toClient \o r.frames
      /\ task' = IF r.frames # << >> THEN "draining" ELSE IF r.close THEN "closing" ELSE "reading"
  BY <1>1 DEF Apply
<1>8. ConnectionInv'
  BY <1>2, ReadFrameInv
<1>9. /\ outSeq' = outSeq /\ got' = got /\ issued' = issued /\ op' = op /\ skip' = skip
  BY DEF clientVars
<1>10. InsideFrame'
  <2>1. toClient # << >> => toClient' # << >>
    BY <1>2, <1>5, <1>7 DEF Reactions
  <2>. QED
    BY <1>9, <2>1 DEF TcpInv, InsideFrame
<1>11. CASE Accepted(r)
  <2>1. handled' = Append(handled, f)
    BY <1>1, <1>11
  <2>2. issued = Append(handled, f) \o rest
    <3>1. handled \o (<< f >> \o rest) = Append(handled, f) \o rest
      BY <1>2, <1>3, ConcatHead
    <3>. QED
      BY <1>3, <1>4, <3>1
  <2>3. /\ Len(Append(handled, f)) <= Len(issued)
        /\ \A i \in DOMAIN Append(handled, f) : Append(handled, f)[i] = issued[i]
    BY <1>2, <1>3, <2>2
  <2>4. RunsInOrder'
    BY <1>9, <2>1, <2>3 DEF RunsInOrder
  <2>5. NothingSkipped'
    BY <1>1, <1>9, <2>1, <2>2 DEF NothingSkipped
  <2>. QED
    BY <1>1, <1>3, <1>8, <1>9, <1>10, <2>4, <2>5 DEF TcpInv
<1>12. CASE ~Accepted(r)
  <2>1. RunsInOrder'
    BY <1>1, <1>9, <1>12 DEF TcpInv, RunsInOrder
  <2>2. NothingSkipped'
    BY <1>6, <1>7, <1>12 DEF NothingSkipped
  <2>. QED
    BY <1>1, <1>3, <1>8, <1>9, <1>10, <2>1, <2>2 DEF TcpInv
<1>. QED
  BY <1>11, <1>12

LEMMA TimeoutKeeps ==
  ASSUME TcpInv, Timeout, UNCHANGED clientVars
  PROVE  TcpInv'
<1>. DEFINE r == OnIdleTimeout(session)
<1>1. /\ task = "reading" /\ Apply(r) /\ toServer' = toServer /\ handled' = handled
  BY DEF Timeout
<1>2. r.close /\ r.frames = << >>
  BY DEF OnIdleTimeout, Closing, Silent
<1>. HIDE DEF r
<1>3. ConnectionInv' /\ toClient \in Seq(Frames)
  BY TimeoutInv DEF TcpInv, ConnectionInv, ServerTypeOK
<1>4. task' = "closing" /\ toClient' = toClient
  BY <1>1, <1>2, <1>3 DEF Apply
<1>5. /\ outSeq' = outSeq /\ got' = got /\ issued' = issued /\ op' = op /\ skip' = skip
  BY DEF clientVars
<1>. QED
  BY <1>1, <1>3, <1>4, <1>5 DEF TcpInv, RunsInOrder, NothingSkipped, InsideFrame

LEMMA TaskMovesKeep ==
  ASSUME TcpInv, PeerGone \/ Drained \/ WaitClosed, UNCHANGED clientVars
  PROVE  TcpInv'
<1>1. /\ UNCHANGED <<session, ending, toServer, toClient, peerClosed, handled, sent>>
      /\ task' \in {"reading", "closing", "closed"}
      /\ task' = "reading" => task = "draining" /\ ~ending
  BY DEF PeerGone, Drained, WaitClosed
<1>2. ConnectionInv'
  BY TaskMovesInv DEF TcpInv
<1>. QED
  BY <1>1, <1>2 DEF TcpInv, RunsInOrder, NothingSkipped, InsideFrame, clientVars

LEMMA ServerKeeps ==
  ASSUME TcpInv, ServerStep, UNCHANGED clientVars
  PROVE  TcpInv'
<1>1. ~ReadFault
  <2>1. ASSUME toServer # << >> PROVE ~IsFault(Head(toServer))
    <3>1. Head(toServer) \in Frames
      BY <2>1 DEF TcpInv
    <3>. QED
      BY <3>1 DEF IsFault, Frames
  <2>. QED
    BY <2>1 DEF ReadFault
<1>. QED
  BY <1>1, ReadInv, TimeoutKeeps, TaskMovesKeep DEF ServerStep

-----------------------------------------------------------------------------
(* The client's steps.                                                     *)

LEMMA ConnectKeeps ==
  ASSUME TcpInv, Connect
  PROVE  TcpInv'
<1>. DEFINE hello == Numbered("HELLO", [client_id |-> Me])
<1>1. hello \in Frames
  BY NumberedType, TcpClientAssumption DEF TcpInv, MsgType, Payload
<1>. HIDE DEF hello
<1>2. /\ Accept(<< hello >>) /\ outSeq' = NextSeq(outSeq) /\ issued' = << hello >>
      /\ got' = got /\ op = "idle"
  BY DEF Connect, hello
<1>3. << hello >> \in Seq(Frames)
  BY <1>1
<1>4. ConnectionInv'
  BY <1>2, <1>3, MoreItems, AcceptInv
<1>5. toServer' = << hello >> /\ handled' = << >>
  BY <1>2 DEF Accept
<1>6. outSeq' \in 0..MaxSeq
  BY <1>2, NextSeqFits DEF TcpInv
<1>7. got' = "nothing"
  BY <1>2 DEF TcpInv, InsideFrame
<1>8. RunsInOrder' /\ NothingSkipped' /\ InsideFrame'
  BY <1>2, <1>3, <1>5, <1>7 DEF RunsInOrder, NothingSkipped, InsideFrame
<1>. QED
  BY <1>2, <1>3, <1>4, <1>5, <1>6, <1>7, <1>8 DEF TcpInv

LEMMA SendKeeps ==
  ASSUME TcpInv, NEW type \in MsgType, NEW payload \in Payload, NEW waiting,
         Send(type, payload, waiting)
  PROVE  TcpInv'
<1>. DEFINE x == Numbered(type, payload)
<1>1. x \in Frames
  BY NumberedType DEF TcpInv
<1>. HIDE DEF x
<1>2. /\ toServer' = Append(toServer, x) /\ issued' = Append(issued, x)
      /\ outSeq' = NextSeq(outSeq) /\ op = "idle" /\ got' = got
      /\ UNCHANGED <<session, task, ending, toClient, peerClosed, handled, sent>>
  BY DEF Send, x
<1>3. /\ toServer \in Seq(Frames) /\ issued \in Seq(Frames) /\ handled \in Seq(Frames)
      /\ toClient \in Seq(Frames) /\ peerClosed \in BOOLEAN
  BY DEF TcpInv, ConnectionInv, ServerTypeOK
<1>4. toServer' \in Seq(Frames) /\ issued' \in Seq(Frames)
  BY <1>1, <1>2, <1>3
<1>5. ConnectionInv'
  BY <1>2, <1>3, <1>4, MoreItems, StreamsInv DEF TcpInv, ownVars
<1>6. outSeq' \in 0..MaxSeq
  BY <1>2, NextSeqFits DEF TcpInv
<1>7. RunsInOrder'
  <2>1. /\ Len(handled) <= Len(issued)
        /\ \A i \in DOMAIN handled : handled[i] = issued[i]
    BY DEF TcpInv, RunsInOrder
  <2>2. /\ Len(handled) <= Len(Append(issued, x))
        /\ \A i \in DOMAIN handled : handled[i] = Append(issued, x)[i]
    BY <1>1, <1>3, <2>1
  <2>. QED
    BY <1>2, <2>2 DEF RunsInOrder
<1>8. NothingSkipped'
  <2>1. issued = handled \o toServer => Append(issued, x) = handled \o Append(toServer, x)
    BY <1>1, <1>3, ConcatAppend
  <2>. QED
    BY <1>2, <2>1 DEF TcpInv, NothingSkipped
<1>9. InsideFrame' /\ got' \in {"nothing", "header", "body"}
  BY <1>2 DEF TcpInv, InsideFrame
<1>. QED
  BY <1>4, <1>5, <1>6, <1>7, <1>8, <1>9 DEF TcpInv

\* What leaves the requests and the server alone.
LEMMA ReadsKeep ==
  ASSUME TcpInv,
         UNCHANGED <<session, task, ending, toServer, handled, sent, outSeq, issued>>,
         toClient' \in Seq(Frames), peerClosed' \in BOOLEAN,
         got' \in {"nothing", "header", "body"}, InsideFrame'
  PROVE  TcpInv'
<1>1. ConnectionInv'
  BY MoreItems, StreamsInv DEF TcpInv, ownVars
<1>. QED
  BY <1>1 DEF TcpInv, RunsInOrder, NothingSkipped

LEMMA RaiseKeeps ==
  ASSUME TcpInv, NEW code, Raise(code)
  PROVE  TcpInv'
BY ReadsKeep DEF Raise, Finish, serverVars, TcpInv, ConnectionInv, ServerTypeOK, InsideFrame

\* A part of a frame is shorter than what is left of it, but for the last.
LEMMA ConsumeFacts ==
  ASSUME toClient \in Seq(Frames), toClient # << >>, NEW n, Consume(n)
  PROVE  /\ toClient' \in Seq(Frames)
         /\ n < Size(Head(toClient)) - skip => toClient' = toClient /\ skip' = skip + n
<1>1. Tail(toClient) \in Seq(Frames)
  OBVIOUS
<1>. QED
  BY <1>1 DEF Consume

LEMMA SizeFacts ==
  ASSUME NEW f
  PROVE  /\ Size(f) \in Nat
         /\ Size(f) > HeaderSize
         /\ Length(f.payload) > 0 => Size(f) > HeaderSize + BodySize
BY TcpClientAssumption DEF Size, Length

LEMMA ReadHeaderKeeps ==
  ASSUME TcpInv, ReadHeader
  PROVE  TcpInv'
<1>1. /\ op = "receiving" /\ Available(HeaderSize) /\ Consume(HeaderSize)
      /\ IF skip = 0 THEN got' = "header" /\ op' = op ELSE got' = "nothing"
      /\ UNCHANGED readsOf
  BY DEF ReadHeader, Finish
<1>2. toClient \in Seq(Frames) /\ peerClosed \in BOOLEAN
  BY DEF TcpInv, ConnectionInv, ServerTypeOK
<1>3. toClient # << >>
  BY <1>1, <1>2 DEF Available
<1>4. toClient' \in Seq(Frames)
  BY <1>1, <1>2, <1>3, ConsumeFacts
<1>5. skip = 0 => toClient' = toClient /\ skip' = HeaderSize
  <2>1. skip = 0 => HeaderSize < Size(Head(toClient)) - skip
    BY SizeFacts, TcpClientAssumption
  <2>. QED
    BY <1>1, <1>2, <1>3, <2>1, ConsumeFacts, TcpClientAssumption
<1>6. InsideFrame' /\ got' \in {"nothing", "header", "body"}
  BY <1>1, <1>3, <1>5 DEF InsideFrame
<1>. QED
  BY <1>1, <1>2, <1>4, <1>6, ReadsKeep DEF readsOf

LEMMA ReadBodyKeeps ==
  ASSUME TcpInv, ReadBody
  PROVE  TcpInv'
<1>1. /\ op = "receiving" /\ got = "header" /\ Length(Head(toClient).payload) > 0
      /\ Consume(BodySize) /\ got' = "body" /\ op' = op
      /\ UNCHANGED readsOf
  BY DEF ReadBody, ConsumeBody
<1>2. toClient \in Seq(Frames) /\ peerClosed \in BOOLEAN
  BY DEF TcpInv, ConnectionInv, ServerTypeOK
<1>3. toClient # << >> /\ skip = HeaderSize
  BY <1>1 DEF TcpInv, InsideFrame
<1>4. BodySize < Size(Head(toClient)) - skip
  BY <1>1, <1>3, SizeFacts, TcpClientAssumption
<1>5. toClient' = toClient
  BY <1>1, <1>2, <1>3, <1>4, ConsumeFacts
<1>6. InsideFrame'
  BY <1>1, <1>3, <1>5 DEF InsideFrame
<1>. QED
  BY <1>1, <1>2, <1>5, <1>6, ReadsKeep DEF readsOf

LEMMA ReadMacKeeps ==
  ASSUME TcpInv, ReadMac
  PROVE  TcpInv'
<1>1. got \in {"header", "body"} /\ Consume(MacSize) /\ got' = "nothing" /\ UNCHANGED readsOf
  BY DEF ReadMac, Handshake, Finish
<1>2. toClient \in Seq(Frames) /\ peerClosed \in BOOLEAN /\ toClient # << >>
  BY <1>1 DEF TcpInv, ConnectionInv, ServerTypeOK, InsideFrame
<1>3. toClient' \in Seq(Frames)
  BY <1>1, <1>2, ConsumeFacts
<1>. QED
  BY <1>1, <1>2, <1>3, ReadsKeep DEF readsOf, InsideFrame

\* The steps that read nothing.
LEMMA WaitsKeep ==
  ASSUME TcpInv, Sent \/ CloseSocket \/ Closed
  PROVE  TcpInv'
<1>1. /\ UNCHANGED <<session, task, ending, toServer, toClient, handled, sent, outSeq, issued>>
      /\ peerClosed' \in {TRUE, peerClosed} /\ got' = got /\ skip' = skip
      /\ op # "receiving"
  BY DEF Sent, CloseSocket, Closed, serverVars
<1>2. toClient \in Seq(Frames) /\ peerClosed \in BOOLEAN /\ got \in {"nothing", "header", "body"}
  BY DEF TcpInv, ConnectionInv, ServerTypeOK
<1>3. got = "nothing"
  BY <1>1 DEF TcpInv, InsideFrame
<1>. QED
  BY <1>1, <1>2, <1>3, ReadsKeep DEF InsideFrame

LEMMA UserKeeps ==
  ASSUME TcpInv, User
  PROVE  TcpInv'
<1>1. CASE Connect
  BY <1>1, ConnectKeeps
<1>2. ASSUME NEW type \in RequestTypes, NEW d \in Data, Request(type, [data |-> d])
      PROVE  TcpInv'
  <2>1. type \in MsgType /\ [data |-> d] \in Payload
    BY TcpClientAssumption DEF Payload
  <2>. QED
    BY <1>2, <2>1, SendKeeps DEF Request
<1>3. CASE SayBye
  BY <1>3, SendKeeps, ControlPayloads DEF SayBye, MsgType
<1>4. CASE CloseSocket
  BY <1>4, WaitsKeep
<1>. QED
  BY <1>1, <1>2, <1>3, <1>4 DEF User

LEMMA ClientKeeps ==
  ASSUME TcpInv, ClientStep
  PROVE  TcpInv'
BY WaitsKeep, RaiseKeeps, ReadHeaderKeeps, ReadBodyKeeps, ReadMacKeeps
   DEF ClientStep, SendLost, RecvTimeout, RecvLost

-----------------------------------------------------------------------------

(* The invariant of client, server and streams holds in every reachable    *)
(* state.                                                                  *)
THEOREM TcpInvariant == Spec => []TcpInv
<1>1. TcpInv /\ [Next]_vars => TcpInv'
  <2>. SUFFICES ASSUME TcpInv, [Next]_vars PROVE TcpInv'
    OBVIOUS
  <2>1. CASE UNCHANGED vars
    <3>1. UNCHANGED <<session, task, ending, toServer, handled, sent, outSeq, issued, toClient,
                      peerClosed, got, op, skip>>
      BY <2>1 DEF vars
    <3>. QED
      BY <3>1, ReadsKeep DEF TcpInv, ConnectionInv, ServerTypeOK, InsideFrame
  <2>. QED
    BY <2>1, UserKeeps, ClientKeeps, ServerKeeps DEF Next
<1>. QED
  BY <1>1, InitInv, PTL DEF Spec

(* The server runs what the client sent, in that order, without gap or     *)
(* repetition, whatever is timed out, reset or closed.                     *)
THEOREM TcpRunsInOrder == Spec => []RunsInOrder
<1>1. TcpInv => RunsInOrder
  BY DEF TcpInv
<1>. QED
  BY <1>1, TcpInvariant, PTL

-----------------------------------------------------------------------------
(* What the client has read of what the server sent.                       *)

\* How many frames of the server the client has read to the end.
Taken == Len(sent) - Len(toClient)

TakenInOrder ==
  /\ Len(toClient) <= Len(sent)
  /\ \A i \in DOMAIN toClient : toClient[i] = sent[Taken + i]

\* The client stands in the first frame of the queue, and behind its body if it
\* has read the body.
Position ==
  /\ toClient = << >> => skip = 0
  /\ toClient # << >> => skip < Size(Head(toClient))
  /\ got = "body" => /\ skip = HeaderSize + BodySize
                     /\ Length(Head(toClient).payload) = BodySize

\* The control payloads of what was sent can be read.
Readable ==
  \A i \in DOMAIN sent :
    /\ sent[i].type = "HELLO_ACK" => \E id \in Nat : sent[i].payload = [session_id |-> id]
    /\ sent[i].type = "ERROR" => \E code \in ErrorCode : sent[i].payload = [code |-> code]

StreamInv == ClientTypeOK /\ TakenInOrder /\ Position /\ Readable

\* The server says one frame or nothing.
LEMMA ServerSays ==
  ASSUME ConnectionInv, ServerStep, ~ReadFault
  PROVE  \/ sent' = sent /\ toClient' = toClient
         \/ \E x, f : /\ ReadFrame
                      /\ Says(x)
                      /\ Echoes(x, f) \/ Refuses(x)
<1>1. CASE ReadFrame
  BY <1>1, ReadFrameSays DEF SaysNothing
<1>2. CASE Timeout
  BY <1>2, TimeoutSays DEF SaysNothing
<1>3. CASE PeerGone \/ Drained \/ WaitClosed
  BY <1>3 DEF PeerGone, Drained, WaitClosed
<1>. QED
  BY <1>1, <1>2, <1>3 DEF ServerStep

LEMMA NoFault == TcpInv => ~ReadFault
<1>1. ASSUME TcpInv, toServer # << >> PROVE ~IsFault(Head(toServer))
  <2>1. Head(toServer) \in Frames
    BY <1>1 DEF TcpInv
  <2>. QED
    BY <2>1 DEF IsFault, Frames
<1>. QED
  BY <1>1 DEF ReadFault

LEMMA StreamInit == Init => StreamInv
<1>. SUFFICES ASSUME Init PROVE StreamInv
  OBVIOUS
<1>1. ClientTypeOK
  <2>1. << >> \in Seq(Frames) /\ << >> \in Seq(Outcomes)
    OBVIOUS
  <2>2. 0 \in 0..MaxSeq /\ -1 \in -1..MaxSeq
        /\ 0 \in 0..(HeaderSize + BodySize + MacSize) /\ 0 \in 0..MaxConnections
    BY MaxSeqAssumption, TcpClientAssumption
  <2>. QED
    BY <2>1, <2>2 DEF Init, ClientInit, ClientTypeOK, NoSession, State
<1>2. TakenInOrder /\ Position /\ Readable
  BY DEF Init, NoConnection, ClientInit, TakenInOrder, Position, Readable
<1>. QED
  BY <1>1, <1>2 DEF StreamInv

LEMMA StreamServer ==
  ASSUME TcpInv, StreamInv, ServerStep, UNCHANGED clientVars
  PROVE  StreamInv'
<1>1. ConnectionInv /\ sent \in Seq(Frames) /\ toClient \in Seq(Frames)
  BY DEF TcpInv, ConnectionInv, ServerTypeOK
<1>2. ClientTypeOK'
  BY DEF StreamInv, ClientTypeOK, clientVars
<1>3. got' = got /\ skip' = skip
  BY DEF clientVars
<1>4. CASE sent' = sent /\ toClient' = toClient
  BY <1>2, <1>3, <1>4 DEF StreamInv, TakenInOrder, Taken, Position, Readable
<1>5. ASSUME NEW x, NEW f, Says(x), Echoes(x, f) \/ Refuses(x)
      PROVE  StreamInv'
  <2>1. x \in Frames /\ sent' = Append(sent, x) /\ toClient' = Append(toClient, x)
    BY <1>5 DEF Says
  <2>2. /\ Len(sent') = Len(sent) + 1 /\ sent'[Len(sent) + 1] = x
        /\ \A i \in DOMAIN sent : sent'[i] = sent[i]
        /\ DOMAIN sent' = 1..(Len(sent) + 1) /\ DOMAIN sent = 1..Len(sent) /\ Len(sent) \in Nat
    BY <1>1, <2>1, Behind
  <2>3. /\ Len(toClient') = Len(toClient) + 1 /\ toClient'[Len(toClient) + 1] = x
        /\ \A i \in DOMAIN toClient : toClient'[i] = toClient[i]
        /\ DOMAIN toClient' = 1..(Len(toClient) + 1) /\ DOMAIN toClient = 1..Len(toClient)
        /\ Len(toClient) \in Nat
    BY <1>1, <2>1, Behind
  <2>4. TakenInOrder'
    <3>1. Taken' = Taken /\ Taken = Len(sent) - Len(toClient) /\ Len(toClient') <= Len(sent')
      BY <2>2, <2>3 DEF StreamInv, TakenInOrder, Taken
    <3>2. ASSUME NEW i \in DOMAIN toClient' PROVE toClient'[i] = sent'[Taken + i]
      <4>1. CASE i = Len(toClient) + 1
        BY <2>2, <2>3, <3>1, <4>1
      <4>2. CASE i \in DOMAIN toClient
        <5>1. Taken + i \in DOMAIN sent
          BY <2>2, <2>3, <3>1, <4>2 DEF StreamInv, TakenInOrder
        <5>. QED
          BY <2>2, <2>3, <4>2, <5>1 DEF StreamInv, TakenInOrder
      <4>. QED
        BY <2>3, <4>1, <4>2
    <3>. QED
      BY <3>1, <3>2 DEF TakenInOrder
  <2>5. Position'
    <3>1. toClient' # << >> /\ (toClient # << >> => Head(toClient') = Head(toClient))
      BY <1>1, <2>1
    <3>2. toClient = << >> => skip = 0 /\ 0 < Size(Head(toClient'))
      BY SizeFacts, TcpClientAssumption DEF StreamInv, Position
    <3>3. got = "body" => toClient # << >>
      BY DEF TcpInv, InsideFrame
    <3>. QED
      BY <1>3, <3>1, <3>2, <3>3 DEF StreamInv, Position
  <2>6. Readable'
    <3>1. /\ x.type = "HELLO_ACK" => \E id \in Nat : x.payload = [session_id |-> id]
          /\ x.type = "ERROR" => \E code \in ErrorCode : x.payload = [code |-> code]
      BY <1>5 DEF Echoes, Refuses
    <3>2. ASSUME NEW i \in DOMAIN sent'
          PROVE  sent'[i] = x \/ (i \in DOMAIN sent /\ sent'[i] = sent[i])
      BY <2>2
    <3>3. Readable
      BY DEF StreamInv
    <3>. QED
      BY <3>1, <3>2, <3>3 DEF Readable
  <2>. QED
    BY <1>2, <2>4, <2>5, <2>6 DEF StreamInv
<1>. QED
  BY <1>1, <1>4, <1>5, NoFault, ServerSays

\* The queue is as it was, or loses its head.
LEMMA TakenKept ==
  ASSUME sent \in Seq(Frames), toClient \in Seq(Frames), TakenInOrder, sent' = sent,
         toClient' = toClient \/ (toClient # << >> /\ toClient' = Tail(toClient))
  PROVE  TakenInOrder'
<1>1. CASE toClient' = toClient
  BY <1>1 DEF TakenInOrder, Taken
<1>2. CASE toClient # << >> /\ toClient' = Tail(toClient)
  <2>1. /\ Len(toClient') = Len(toClient) - 1 /\ Len(toClient) \in Nat /\ Len(sent) \in Nat
        /\ \A i \in DOMAIN toClient' : i \in Nat /\ toClient'[i] = toClient[i + 1]
                                       /\ i + 1 \in DOMAIN toClient
    BY <1>2, HeadTailProperties
  <2>2. Taken' = Taken + 1 /\ Taken \in Int
    BY <2>1 DEF Taken
  <2>3. ASSUME NEW i \in DOMAIN toClient' PROVE toClient'[i] = sent[(Taken + 1) + i]
    <3>1. toClient'[i] = sent[Taken + (i + 1)]
      BY <2>1 DEF TakenInOrder
    <3>2. Taken + (i + 1) = (Taken + 1) + i
      BY <2>1, <2>2
    <3>. QED
      BY <3>1, <3>2
  <2>. QED
    BY <2>1, <2>2, <2>3 DEF TakenInOrder
<1>. QED
  BY <1>1, <1>2

LEMMA HeadTaken ==
  ASSUME TcpInv, StreamInv, toClient # << >>
  PROVE  /\ Head(toClient) \in Frames /\ Head(toClient) = sent[Taken + 1]
         /\ Taken \in Nat /\ Taken + 1 \in DOMAIN sent
<1>1. toClient \in Seq(Frames) /\ sent \in Seq(Frames)
  BY DEF TcpInv, ConnectionInv, ServerTypeOK
<1>. QED
  BY <1>1 DEF StreamInv, TakenInOrder, Taken

LEMMA NoLength ==
  ASSUME NEW queue, queue = << >>
  PROVE  Len(queue) = 0
OBVIOUS

LEMMA LastTaken ==
  ASSUME NEW queue \in Seq(Frames), queue # << >>, Tail(queue) = << >>
  PROVE  Len(queue) = 1
<1>1. Len(Tail(queue)) = Len(queue) - 1 /\ Len(queue) \in Nat
  BY HeadTailProperties
<1>2. Len(Tail(queue)) = 0
  BY NoLength
<1>. DEFINE n == Len(Tail(queue))
<1>3. n = Len(queue) - 1 /\ n = 0
  BY <1>1, <1>2
<1>. HIDE DEF n
<1>. QED
  BY <1>1, <1>3

LEMMA LengthFacts ==
  ASSUME NEW f
  PROVE  /\ Length(f.payload) \in {0, BodySize}
         /\ Size(f) = HeaderSize + Length(f.payload) + MacSize
BY TcpClientAssumption DEF Size, Length

LEMMA ReadHeaderTakes ==
  ASSUME TcpInv, StreamInv, ReadHeader
  PROVE  /\ op = "receiving" /\ ~Broken /\ got = "nothing"
         /\ UNCHANGED readsOf /\ UNCHANGED <<state, lastPeerSeq, sessionId>>
         /\ Position' /\ skip' \in 0..(HeaderSize + BodySize + MacSize)
         /\ \/ /\ skip = 0 /\ got' = "header" /\ UNCHANGED <<op, results, toClient>>
            \/ /\ skip # 0 /\ got' = "nothing" /\ op' = "idle"
               /\ results' = Append(results, Raised("ERR_MAGIC"))
               /\ \/ toClient' = toClient
                  \/ toClient # << >> /\ toClient' = Tail(toClient)
<1>1. /\ op = "receiving" /\ ~Broken /\ got = "nothing" /\ Available(HeaderSize)
      /\ Consume(HeaderSize)
      /\ UNCHANGED readsOf /\ UNCHANGED <<state, lastPeerSeq, sessionId>>
      /\ skip = 0 => got' = "header" /\ UNCHANGED <<op, results>>
      /\ skip # 0 => /\ got' = "nothing" /\ op' = "idle"
                     /\ results' = Append(results, Raised("ERR_MAGIC"))
  BY DEF ReadHeader, Finish
<1>2. toClient \in Seq(Frames) /\ skip \in Nat
  BY TcpClientAssumption DEF TcpInv, StreamInv, ClientTypeOK, ConnectionInv, ServerTypeOK
<1>3. toClient # << >>
  BY <1>1, <1>2 DEF Available
<1>. DEFINE size == Size(Head(toClient))
<1>4. size \in Nat /\ size > HeaderSize /\ skip < size /\ size <= HeaderSize + BodySize + MacSize
  BY <1>3, SizeFacts, LengthFacts, TcpClientAssumption DEF StreamInv, Position
<1>5. CASE HeaderSize < size - skip
  <2>1. skip' = skip + HeaderSize /\ toClient' = toClient
    BY <1>1, <1>5 DEF Consume
  <2>2. Position'
    BY <1>1, <1>2, <1>3, <1>4, <1>5, <2>1, TcpClientAssumption DEF Position
  <2>3. skip' \in 0..(HeaderSize + BodySize + MacSize)
    BY <1>2, <1>4, <1>5, <2>1, TcpClientAssumption
  <2>. QED
    BY <1>1, <2>1, <2>2, <2>3
<1>6. CASE ~(HeaderSize < size - skip)
  <2>1. skip' = HeaderSize - (size - skip) /\ toClient' = Tail(toClient)
    BY <1>1, <1>6 DEF Consume
  <2>2. skip # 0 /\ skip' \in Nat /\ skip' < HeaderSize
    <3>. HIDE DEF size
    <3>. QED
      BY <1>2, <1>4, <1>6, <2>1, TcpClientAssumption
  <2>3. toClient' # << >> => skip' < Size(Head(toClient'))
    BY <2>2, SizeFacts, TcpClientAssumption
  <2>4. toClient' = << >> => skip' = 0
    <3>1. toClient' = << >> => Len(toClient) = 1
      BY <1>2, <1>3, <2>1, LastTaken
    <3>2. Len(toClient) = 1 => size - skip >= HeaderSize
      BY <1>1 DEF Available
    <3>. QED
      BY <1>2, <1>4, <1>6, <2>1, <3>1, <3>2, TcpClientAssumption
  <2>5. Position'
    BY <1>1, <2>2, <2>3, <2>4 DEF Position
  <2>6. skip' \in 0..(HeaderSize + BodySize + MacSize)
    BY <2>2, TcpClientAssumption
  <2>. QED
    BY <1>1, <1>3, <2>1, <2>2, <2>5, <2>6
<1>. QED
  BY <1>5, <1>6

LEMMA ReadBodyTakes ==
  ASSUME TcpInv, StreamInv, ReadBody
  PROVE  /\ op = "receiving" /\ got' = "body"
         /\ UNCHANGED readsOf /\ UNCHANGED <<state, lastPeerSeq, sessionId, op, results, toClient>>
         /\ Position' /\ skip' \in 0..(HeaderSize + BodySize + MacSize)
<1>1. /\ op = "receiving" /\ got = "header" /\ Length(Head(toClient).payload) > 0
      /\ Consume(BodySize) /\ got' = "body"
      /\ UNCHANGED readsOf /\ UNCHANGED <<state, lastPeerSeq, sessionId, op, results>>
  BY DEF ReadBody, ConsumeBody
<1>2. toClient # << >> /\ skip = HeaderSize
  BY <1>1 DEF TcpInv, InsideFrame
<1>. DEFINE length == Length(Head(toClient).payload)
            size == Size(Head(toClient))
<1>3. length = BodySize /\ size = HeaderSize + BodySize + MacSize
  BY <1>1, LengthFacts
<1>4. BodySize < size - skip
  BY <1>2, <1>3, TcpClientAssumption
<1>5. toClient' = toClient /\ skip' = HeaderSize + BodySize
  BY <1>1, <1>2, <1>4 DEF Consume
<1>6. skip' < size /\ skip' \in 0..(HeaderSize + BodySize + MacSize)
  BY <1>3, <1>5, TcpClientAssumption
<1>7. Position'
  BY <1>2, <1>3, <1>5, <1>6 DEF Position
<1>. QED
  BY <1>1, <1>5, <1>6, <1>7

\* What comes of the frame that was read, o being the outcome of the request.
Receives(frame, o) ==
  \/ /\ frame.seq <= lastPeerSeq
     /\ o = Raised("ERR_SEQ")
     /\ UNCHANGED <<state, lastPeerSeq, sessionId>>
  \/ /\ ~(frame.seq <= lastPeerSeq) /\ lastPeerSeq' = frame.seq
     /\ \/ o = Returned(frame) /\ UNCHANGED <<state, sessionId>>
        \/ /\ Current.type = "HELLO" /\ frame.type = "HELLO_ACK"
           /\ o = Returned(frame) /\ state' = "READY" /\ sessionId' = frame.payload.session_id
        \/ /\ Current.type = "HELLO" /\ frame.type = "ERROR"
           /\ o = Raised(frame.payload.code) /\ UNCHANGED <<state, sessionId>>
        \/ o = Raised("ERR_STATE") /\ UNCHANGED <<state, sessionId>>

LEMMA ReadMacTakes ==
  ASSUME TcpInv, StreamInv, ReadMac
  PROVE  /\ op = "receiving" /\ ~Broken /\ op' = "idle" /\ got' = "nothing"
         /\ toClient # << >> /\ toClient' = Tail(toClient) /\ skip' = 0
         /\ UNCHANGED readsOf
         /\ \E o : results' = Append(results, o) /\ Receives(Head(toClient), o)
<1>. DEFINE frame == Head(toClient)
<1>1. /\ op = "receiving" /\ ~Broken /\ Consume(MacSize) /\ UNCHANGED readsOf
      /\ got = "body" \/ (got = "header" /\ Length(frame.payload) = 0)
  BY DEF ReadMac
<1>2. toClient # << >>
  BY <1>1 DEF TcpInv, InsideFrame
<1>3. Size(frame) - skip = MacSize
  <2>1. CASE got = "body"
    BY <2>1, LengthFacts, TcpClientAssumption DEF StreamInv, Position
  <2>2. CASE got = "header" /\ Length(frame.payload) = 0
    BY <2>2, LengthFacts, TcpClientAssumption DEF TcpInv, InsideFrame
  <2>. QED
    BY <1>1, <2>1, <2>2
<1>4. toClient' = Tail(toClient) /\ skip' = 0
  BY <1>1, <1>3, TcpClientAssumption DEF Consume
<1>5. /\ op' = "idle" /\ got' = "nothing"
      /\ \E o : results' = Append(results, o) /\ Receives(frame, o)
  <2>. DEFINE n == frame.seq
  <2>1. CASE n <= lastPeerSeq
    BY <2>1 DEF ReadMac, Finish, Receives
  <2>2. CASE ~(n <= lastPeerSeq)
    <3>1. lastPeerSeq' = n
      BY <2>2 DEF ReadMac
    <3>2. CASE Current.type # "HELLO"
      BY <2>2, <3>1, <3>2 DEF ReadMac, Finish, Receives
    <3>3. CASE Current.type = "HELLO"
      <4>1. Handshake(frame)
        BY <2>2, <3>3 DEF ReadMac
      <4>2. CASE frame.type = "HELLO_ACK"
        BY <2>2, <3>1, <3>3, <4>1, <4>2 DEF Handshake, Finish, Receives
      <4>3. CASE frame.type = "ERROR"
        BY <2>2, <3>1, <3>3, <4>1, <4>3 DEF Handshake, Finish, Receives
      <4>4. CASE frame.type \notin {"HELLO_ACK", "ERROR"}
        BY <2>2, <3>1, <3>3, <4>1, <4>4 DEF Handshake, Finish, Receives
      <4>. QED
        BY <4>2, <4>3, <4>4
    <3>. QED
      BY <3>2, <3>3
  <2>. QED
    BY <2>1, <2>2
<1>. QED
  BY <1>1, <1>2, <1>4, <1>5

LEMMA RaisedType ==
  ASSUME NEW code \in ErrorCode \cup {"TIMEOUT", "LOST"}
  PROVE  Raised(code) \in Outcomes
BY DEF Raised, Outcomes

LEMMA ReceivesType ==
  ASSUME TcpInv, StreamInv, toClient # << >>, NEW o, Receives(Head(toClient), o)
  PROVE  /\ o \in Outcomes /\ state' \in State /\ lastPeerSeq' \in -1..MaxSeq
         /\ sessionId' \in Nat \cup {NoSession}
<1>. DEFINE frame == Head(toClient)
<1>1. /\ frame \in Frames
      /\ frame.type = "HELLO_ACK" => \E id \in Nat : frame.payload = [session_id |-> id]
      /\ frame.type = "ERROR" => \E code \in ErrorCode : frame.payload = [code |-> code]
  BY HeadTaken DEF StreamInv, Readable
<1>. HIDE DEF frame
<1>2. /\ state \in State /\ lastPeerSeq \in -1..MaxSeq /\ sessionId \in Nat \cup {NoSession}
  BY DEF StreamInv, ClientTypeOK
<1>3. Returned(frame) \in Outcomes
  BY <1>1 DEF Returned, Outcomes
<1>4. Raised("ERR_SEQ") \in Outcomes /\ Raised("ERR_STATE") \in Outcomes
  BY RaisedType DEF ErrorCode
<1>5. ASSUME frame.type = "ERROR" PROVE Raised(frame.payload.code) \in Outcomes
  <2>1. PICK code \in ErrorCode : frame.payload = [code |-> code]
    BY <1>1, <1>5
  <2>2. frame.payload.code = code
    BY <2>1
  <2>. QED
    BY <2>2, RaisedType
<1>6. ASSUME frame.type = "HELLO_ACK" PROVE frame.payload.session_id \in Nat
  <2>1. PICK id \in Nat : frame.payload = [session_id |-> id]
    BY <1>1, <1>6
  <2>. QED
    BY <2>1
<1>7. frame.seq \in -1..MaxSeq
  BY <1>1, MaxSeqAssumption DEF Frames
<1>8. Receives(frame, o)
  BY DEF frame
<1>. QED
  BY <1>2, <1>3, <1>4, <1>5, <1>6, <1>7, <1>8 DEF Receives, State

LEMMA StreamConnect ==
  ASSUME TcpInv, StreamInv, Connect
  PROVE  StreamInv'
<1>1. /\ Accept(<< Numbered("HELLO", [client_id |-> Me]) >>)
      /\ outSeq' = NextSeq(outSeq) /\ op' = "sending" /\ skip' = 0
      /\ connections < MaxConnections /\ connections' = connections + 1
      /\ results' = << >> /\ UNCHANGED <<state, lastPeerSeq, sessionId, got>>
      /\ op = "idle"
  BY DEF Connect
<1>2. sent' = << >> /\ toClient' = << >>
  BY <1>1 DEF Accept
<1>3. ClientTypeOK'
  <2>1. outSeq' \in 0..MaxSeq /\ issued' \in Seq(Frames) /\ got' \in {"nothing", "header", "body"}
    BY ConnectKeeps DEF TcpInv
  <2>2. connections' \in 0..MaxConnections
    BY <1>1, TcpClientAssumption DEF StreamInv, ClientTypeOK
  <2>3. results' \in Seq(Outcomes) /\ skip' \in 0..(HeaderSize + BodySize + MacSize)
    BY <1>1, TcpClientAssumption
  <2>. QED
    BY <1>1, <2>1, <2>2, <2>3 DEF StreamInv, ClientTypeOK
<1>4. got' = "nothing"
  BY <1>1 DEF TcpInv, InsideFrame
<1>5. TakenInOrder' /\ Position' /\ Readable'
  BY <1>1, <1>2, <1>4 DEF TakenInOrder, Position, Readable
<1>. QED
  BY <1>3, <1>5 DEF StreamInv

\* The streams are as they were, and so is what the client makes of them.
LEMMA StreamKept ==
  ASSUME TcpInv, StreamInv, TcpInv', UNCHANGED <<sent, toClient, got, skip>>, ClientTypeOK'
  PROVE  StreamInv'
BY DEF StreamInv, TakenInOrder, Taken, Position, Readable

LEMMA StreamSend ==
  ASSUME TcpInv, StreamInv, NEW type \in MsgType, NEW payload \in Payload,
         NEW waiting \in {"sending", "leaving"}, Send(type, payload, waiting)
  PROVE  StreamInv'
<1>1. TcpInv'
  BY SendKeeps
<1>2. ClientTypeOK'
  BY <1>1 DEF Send, StreamInv, ClientTypeOK, TcpInv
<1>. QED
  BY <1>1, <1>2, StreamKept DEF Send

LEMMA StreamRaise ==
  ASSUME TcpInv, StreamInv, NEW code \in ErrorCode \cup {"TIMEOUT", "LOST"}, Raise(code)
  PROVE  StreamInv'
<1>1. /\ results' = Append(results, Raised(code)) /\ op' = "idle" /\ got' = "nothing"
      /\ UNCHANGED <<state, outSeq, lastPeerSeq, sessionId, skip, connections, issued>>
      /\ UNCHANGED serverVars
  BY DEF Raise, Finish
<1>2. Raised(code) \in Outcomes /\ results \in Seq(Outcomes)
  BY RaisedType DEF StreamInv, ClientTypeOK
<1>3. results' \in Seq(Outcomes)
  BY <1>1, <1>2
<1>4. ClientTypeOK'
  BY <1>1, <1>3 DEF StreamInv, ClientTypeOK
<1>5. sent' = sent /\ toClient' = toClient
  BY <1>1 DEF serverVars
<1>. QED
  BY <1>1, <1>4, <1>5 DEF StreamInv, TakenInOrder, Taken, Position, Readable

LEMMA StreamWaits ==
  ASSUME TcpInv, StreamInv, Sent \/ CloseSocket \/ Closed
  PROVE  StreamInv'
<1>1. UNCHANGED <<sent, toClient, got, skip>>
  BY DEF Sent, CloseSocket, Closed, serverVars
<1>2. ClientTypeOK'
  BY DEF Sent, AfterSent, CloseSocket, Closed, StreamInv, ClientTypeOK, State
<1>. QED
  BY <1>1, <1>2, WaitsKeep, StreamKept

LEMMA StreamReadHeader ==
  ASSUME TcpInv, StreamInv, ReadHeader
  PROVE  StreamInv'
<1>1. /\ UNCHANGED readsOf /\ UNCHANGED <<state, lastPeerSeq, sessionId>>
      /\ Position' /\ skip' \in 0..(HeaderSize + BodySize + MacSize)
      /\ \/ /\ skip = 0 /\ got' = "header" /\ UNCHANGED <<op, results, toClient>>
         \/ /\ skip # 0 /\ got' = "nothing" /\ op' = "idle"
            /\ results' = Append(results, Raised("ERR_MAGIC"))
            /\ \/ toClient' = toClient
               \/ toClient # << >> /\ toClient' = Tail(toClient)
  BY ReadHeaderTakes
<1>2. sent \in Seq(Frames) /\ toClient \in Seq(Frames)
  BY DEF TcpInv, ConnectionInv, ServerTypeOK
<1>3. results' \in Seq(Outcomes)
  <2>1. Raised("ERR_MAGIC") \in Outcomes
    BY RaisedType DEF ErrorCode
  <2>2. results \in Seq(Outcomes)
    BY DEF StreamInv, ClientTypeOK
  <2>3. Append(results, Raised("ERR_MAGIC")) \in Seq(Outcomes)
    BY <2>1, <2>2
  <2>4. results' = results \/ results' = Append(results, Raised("ERR_MAGIC"))
    BY <1>1
  <2>. QED
    BY <2>2, <2>3, <2>4, Zenon
<1>4. ClientTypeOK'
  BY <1>1, <1>3 DEF StreamInv, ClientTypeOK, readsOf
<1>5. TakenInOrder' /\ Readable'
  BY <1>1, <1>2, TakenKept DEF StreamInv, Readable, readsOf
<1>. QED
  BY <1>1, <1>4, <1>5 DEF StreamInv

LEMMA StreamReadBody ==
  ASSUME TcpInv, StreamInv, ReadBody
  PROVE  StreamInv'
<1>1. /\ got' = "body" /\ UNCHANGED readsOf
      /\ UNCHANGED <<state, lastPeerSeq, sessionId, op, results, toClient>>
      /\ Position' /\ skip' \in 0..(HeaderSize + BodySize + MacSize)
  BY ReadBodyTakes
<1>2. ClientTypeOK'
  BY <1>1 DEF StreamInv, ClientTypeOK, readsOf
<1>. QED
  BY <1>1, <1>2 DEF StreamInv, TakenInOrder, Taken, Readable, readsOf

LEMMA StreamReadMac ==
  ASSUME TcpInv, StreamInv, ReadMac
  PROVE  StreamInv'
<1>1. /\ op' = "idle" /\ got' = "nothing" /\ UNCHANGED readsOf
      /\ toClient # << >> /\ toClient' = Tail(toClient) /\ skip' = 0
      /\ \E o : results' = Append(results, o) /\ Receives(Head(toClient), o)
  BY ReadMacTakes
<1>2. PICK o : results' = Append(results, o) /\ Receives(Head(toClient), o)
  BY <1>1
<1>3. /\ o \in Outcomes /\ state' \in State /\ lastPeerSeq' \in -1..MaxSeq
      /\ sessionId' \in Nat \cup {NoSession}
  BY <1>1, <1>2, ReceivesType
<1>4. sent \in Seq(Frames) /\ toClient \in Seq(Frames) /\ results \in Seq(Outcomes)
  BY DEF TcpInv, ConnectionInv, ServerTypeOK, StreamInv, ClientTypeOK
<1>5. results' \in Seq(Outcomes)
  BY <1>2, <1>3, <1>4
<1>6. ClientTypeOK'
  <2>1. skip' \in 0..(HeaderSize + BodySize + MacSize)
    BY <1>1, TcpClientAssumption
  <2>. QED
    BY <1>1, <1>3, <1>5, <2>1 DEF StreamInv, ClientTypeOK, readsOf
<1>7. TakenInOrder' /\ Readable'
  BY <1>1, <1>4, TakenKept DEF StreamInv, Readable, readsOf
<1>8. Position'
  <2>1. toClient' # << >> => skip' < Size(Head(toClient'))
    BY <1>1, SizeFacts, TcpClientAssumption
  <2>. QED
    BY <1>1, <2>1 DEF Position
<1>. QED
  BY <1>6, <1>7, <1>8 DEF StreamInv

LEMMA StreamStep ==
  ASSUME TcpInv, StreamInv, [Next]_vars
  PROVE  StreamInv'
<1>1. CASE ServerStep /\ UNCHANGED clientVars
  BY <1>1, StreamServer
<1>2. ASSUME NEW type \in RequestTypes, NEW d \in Data, Request(type, [data |-> d])
      PROVE  StreamInv'
  <2>1. type \in MsgType /\ [data |-> d] \in Payload
    BY TcpClientAssumption DEF Payload
  <2>. QED
    BY <1>2, <2>1, StreamSend DEF Request
<1>3. CASE SayBye
  BY <1>3, StreamSend, ControlPayloads DEF SayBye, MsgType
<1>4. CASE SendLost \/ RecvTimeout \/ RecvLost
  BY <1>4, StreamRaise DEF SendLost, RecvTimeout, RecvLost
<1>5. CASE Sent \/ CloseSocket \/ Closed
  BY <1>5, StreamWaits
<1>6. CASE ReadHeader \/ ReadBody \/ ReadMac
  BY <1>6, StreamReadHeader, StreamReadBody, StreamReadMac
<1>7. CASE UNCHANGED vars
  BY <1>7 DEF vars, StreamInv, ClientTypeOK, TakenInOrder, Taken, Position, Readable
<1>. QED
  BY <1>1, <1>2, <1>3, <1>4, <1>5, <1>6, <1>7, StreamConnect DEF Next, User, ClientStep

(* What the client has not read is the end of what the server sent, and it *)
(* stands inside the first frame of it, in every reachable state.          *)
THEOREM StreamInvariant == Spec => []StreamInv
<1>1. TcpInv /\ StreamInv /\ [Next]_vars => StreamInv'
  BY StreamStep
<1>. QED
  BY <1>1, StreamInit, TcpInvariant, PTL DEF Spec

(* Type correctness of client, server and streams: the client's place in   *)
(* the stream is always inside a frame, and what it reads of a control     *)
(* payload is there to be read.                                            *)
THEOREM TcpTypeOK == Spec => []TypeOK
<1>1. TcpInv /\ StreamInv => TypeOK
  BY DEF TcpInv, ConnectionInv, StreamInv, TypeOK
<1>. QED
  BY <1>1, TcpInvariant, StreamInvariant, PTL

-----------------------------------------------------------------------------
(* The calls of the client: one at a time, each with one result.           *)

Calls ==
  /\ Len(results) <= Len(issued) /\ Len(issued) <= Len(results) + 1
  /\ op \in {"sending", "receiving"} => Len(issued) = Len(results) + 1
  /\ op = "idle" /\ state = "READY" => Len(issued) = Len(results)

\* Only a BYE is sent beyond the bound.
CallsBound ==
  /\ Len(issued) <= MaxRequests + 2
  /\ op \in {"sending", "receiving"} \/ (op = "idle" /\ state = "READY")
       => Len(issued) <= MaxRequests + 1

\* HELLO is the first frame, and no other.
Hellos ==
  /\ issued # << >> => issued[1].type = "HELLO" /\ issued[1].payload = [client_id |-> Me]
  /\ \A k \in DOMAIN issued : issued[k].type = "HELLO" => k = 1
  /\ state = "READY" => issued # << >>

\* Before the first connection there is nothing to read or to close.
Unconnected ==
  connections = 0 => lastPeerSeq = -1 /\ op = "idle" /\ state = "NEW" /\ peerClosed

\* A connection is lost only when the server has closed it.
BrokenClosed == Broken => task = "closed"

CallInv == Calls /\ CallsBound /\ Hellos /\ Unconnected /\ BrokenClosed

LEMMA CallInit == Init => CallInv
<1>. SUFFICES ASSUME Init PROVE CallInv
  OBVIOUS
<1>1. /\ issued = << >> /\ results = << >> /\ op = "idle" /\ state = "NEW"
      /\ lastPeerSeq = -1 /\ peerClosed = TRUE
  BY DEF Init, ClientInit, NoConnection
<1>2. Calls /\ CallsBound
  BY <1>1, TcpClientAssumption, MaxSeqAssumption DEF Calls, CallsBound
<1>3. Hellos /\ Unconnected /\ BrokenClosed
  BY <1>1 DEF Hellos, Unconnected, BrokenClosed, Broken
<1>. QED
  BY <1>2, <1>3 DEF CallInv

LEMMA CallServer ==
  ASSUME CallInv, ServerStep, UNCHANGED clientVars
  PROVE  CallInv'
<1>1. task # "closed" /\ peerClosed' = peerClosed
  BY DEF ServerStep, ReadFrame, ReadFault, Timeout, PeerGone, Drained, WaitClosed
<1>2. ~Broken /\ ~Broken'
  BY <1>1 DEF CallInv, BrokenClosed, Broken, clientVars
<1>. QED
  BY <1>1, <1>2 DEF CallInv, Calls, CallsBound, Hellos, Unconnected, BrokenClosed, clientVars

LEMMA CallConnect ==
  ASSUME TcpInv, StreamInv, CallInv, Connect
  PROVE  CallInv'
<1>. DEFINE hello == Numbered("HELLO", [client_id |-> Me])
<1>1. hello.type = "HELLO" /\ hello.payload = [client_id |-> Me]
  BY DEF Numbered, Frame
<1>. HIDE DEF hello
<1>2. /\ op' = "sending" /\ issued' = << hello >> /\ results' = << >>
      /\ connections' = connections + 1
  BY DEF Connect, hello
<1>3. Len(issued') = 1 /\ Len(results') = 0 /\ connections' # 0
  BY <1>2, TcpClientAssumption DEF StreamInv, ClientTypeOK
<1>4. Calls' /\ CallsBound'
  BY <1>2, <1>3, TcpClientAssumption, MaxSeqAssumption DEF Calls, CallsBound
<1>5. Hellos' /\ Unconnected' /\ BrokenClosed'
  BY <1>1, <1>2, <1>3 DEF Hellos, Unconnected, BrokenClosed, Broken
<1>. QED
  BY <1>4, <1>5 DEF CallInv

\* A request, or the BYE of close().
LEMMA CallSend ==
  ASSUME TcpInv, StreamInv, CallInv,
         NEW type \in MsgType \ {"HELLO"}, NEW payload \in Payload,
         NEW waiting \in {"sending", "leaving"}, Send(type, payload, waiting),
         waiting = "sending" => Len(issued) <= MaxRequests
  PROVE  CallInv'
<1>. DEFINE x == Numbered(type, payload)
<1>1. x \in Frames /\ x.type # "HELLO"
  BY NumberedType DEF TcpInv, Numbered, Frame
<1>. HIDE DEF x
<1>2. /\ op = "idle" /\ state = "READY" /\ issued' = Append(issued, x) /\ op' = waiting
      /\ UNCHANGED <<state, results, connections, lastPeerSeq, task, peerClosed>>
  BY DEF Send, x
<1>3. /\ issued \in Seq(Frames) /\ Len(issued') = Len(issued) + 1 /\ issued'[Len(issued) + 1] = x
      /\ \A i \in DOMAIN issued : issued'[i] = issued[i]
      /\ DOMAIN issued' = 1..(Len(issued) + 1) /\ DOMAIN issued = 1..Len(issued)
      /\ Len(issued) \in Nat
  BY <1>1, <1>2, Behind DEF TcpInv
<1>4. Len(issued) = Len(results) /\ Len(issued) <= MaxRequests + 1
  BY <1>2 DEF CallInv, Calls, CallsBound
<1>5. Calls' /\ CallsBound'
  <2>. DEFINE n == Len(issued)
              m == Len(issued')
              k == Len(results')
  <2>1. /\ n \in Nat /\ m = n + 1 /\ k = n /\ n <= MaxRequests + 1
        /\ op' \in {"sending", "leaving"} /\ (op' = "sending" => n <= MaxRequests)
    BY <1>2, <1>3, <1>4
  <2>. HIDE DEF n, m, k
  <2>2. MaxRequests \in Nat
    BY TcpClientAssumption, MaxSeqAssumption
  <2>3. k <= m /\ m <= k + 1 /\ m = k + 1 /\ m <= MaxRequests + 2
    BY <2>1, <2>2
  <2>4. op' = "sending" => m <= MaxRequests + 1
    BY <2>1, <2>2
  <2>. QED
    BY <2>1, <2>3, <2>4 DEF Calls, CallsBound, m, k
<1>6. issued # << >> /\ 1 \in DOMAIN issued
  BY <1>2, <1>3 DEF CallInv, Hellos
<1>7. Hellos'
  <2>1. issued'[1] = issued[1] /\ issued' # << >>
    BY <1>3, <1>6
  <2>2. ASSUME NEW k \in DOMAIN issued', issued'[k].type = "HELLO" PROVE k = 1
    <3>1. k \in DOMAIN issued /\ issued'[k] = issued[k]
      BY <1>1, <1>3, <2>2
    <3>. QED
      BY <2>2, <3>1 DEF CallInv, Hellos
  <2>. QED
    BY <1>6, <2>1, <2>2 DEF CallInv, Hellos
<1>8. Unconnected' /\ BrokenClosed'
  BY <1>2 DEF CallInv, Unconnected, BrokenClosed, Broken
<1>. QED
  BY <1>5, <1>7, <1>8 DEF CallInv

\* A call ends with this outcome.
LEMMA CallEnds ==
  ASSUME TcpInv, StreamInv, CallInv, op \in {"sending", "receiving"}, op' = "idle",
         NEW o \in Outcomes, results' = Append(results, o),
         UNCHANGED <<issued, connections, task, peerClosed>>,
         state' \in {state, "READY"},
         o.code = "LOST" => task = "closed"
  PROVE  CallInv'
<1>1. results \in Seq(Outcomes) /\ issued \in Seq(Frames)
  BY DEF StreamInv, ClientTypeOK
<1>2. /\ Len(results') = Len(results) + 1 /\ results'[Len(results) + 1] = o
      /\ \A k \in DOMAIN results : results'[k] = results[k]
      /\ DOMAIN results' = 1..(Len(results) + 1) /\ DOMAIN results = 1..Len(results)
      /\ Len(results) \in Nat /\ Len(issued) \in Nat
  BY <1>1, AppendProperties
<1>3. Len(issued) = Len(results) + 1 /\ Len(issued) <= MaxRequests + 1
  BY DEF CallInv, Calls, CallsBound
<1>4. Calls' /\ CallsBound'
  BY <1>2, <1>3, TcpClientAssumption DEF Calls, CallsBound
<1>5. Hellos'
  <2>1. issued # << >>
    BY <1>2, <1>3
  <2>. QED
    BY <2>1 DEF CallInv, Hellos
<1>6. Unconnected'
  BY DEF CallInv, Unconnected
<1>7. BrokenClosed'
  <2>1. ASSUME NEW k \in DOMAIN results', results'[k].code = "LOST" PROVE task = "closed"
    <3>1. CASE k = Len(results) + 1
      BY <1>2, <2>1, <3>1
    <3>2. CASE k \in DOMAIN results
      BY <1>2, <2>1, <3>2 DEF CallInv, BrokenClosed, Broken
    <3>. QED
      BY <1>2, <3>1, <3>2
  <2>. QED
    BY <2>1 DEF BrokenClosed, Broken
<1>. QED
  BY <1>4, <1>5, <1>6, <1>7 DEF CallInv

LEMMA CallRaise ==
  ASSUME TcpInv, StreamInv, CallInv, SendLost \/ RecvTimeout \/ RecvLost
  PROVE  CallInv'
<1>1. PICK code \in {"TIMEOUT", "LOST"} : /\ Raise(code)
                                          /\ op \in {"sending", "receiving"}
                                          /\ code = "LOST" => task = "closed"
  BY DEF SendLost, DrainRaises, Reset, RecvTimeout, RecvLost, CallInv, BrokenClosed
<1>2. /\ results' = Append(results, Raised(code)) /\ op' = "idle"
      /\ UNCHANGED <<state, connections, issued, task, peerClosed>>
  BY <1>1 DEF Raise, Finish, serverVars
<1>3. Raised(code) \in Outcomes /\ Raised(code).code = code
  BY RaisedType DEF Raised
<1>. QED
  BY <1>1, <1>2, <1>3, CallEnds

LEMMA CallWaits ==
  ASSUME TcpInv, StreamInv, CallInv, Sent \/ CloseSocket \/ Closed
  PROVE  CallInv'
<1>1. UNCHANGED <<issued, results, connections, lastPeerSeq, task>>
  BY DEF Sent, CloseSocket, Closed, serverVars
<1>2. BrokenClosed'
  BY <1>1 DEF CallInv, BrokenClosed, Broken
<1>3. CASE Sent
  <2>1. /\ op = "sending" /\ op' = "receiving" /\ state' \in {state, "HANDSHAKE"}
    BY <1>3 DEF Sent, AfterSent
  <2>2. Calls' /\ CallsBound'
    BY <1>1, <2>1 DEF CallInv, Calls, CallsBound
  <2>3. Hellos' /\ Unconnected'
    BY <1>1, <2>1 DEF CallInv, Hellos, Unconnected
  <2>. QED
    BY <1>2, <2>2, <2>3 DEF CallInv
<1>4. CASE CloseSocket
  <2>1. /\ op \in {"leaving", "idle"} /\ op' = "closing" /\ state' \in {state, "CLOSING"}
        /\ op = "leaving" \/ ~peerClosed
    BY <1>4 DEF CloseSocket
  <2>2. Calls' /\ CallsBound'
    BY <1>1, <2>1 DEF CallInv, Calls, CallsBound
  <2>3. Hellos' /\ Unconnected'
    BY <1>1, <2>1 DEF CallInv, Hellos, Unconnected
  <2>. QED
    BY <1>2, <2>2, <2>3 DEF CallInv
<1>5. CASE Closed
  <2>1. op = "closing" /\ op' = "idle" /\ state' = "CLOSED"
    BY <1>5 DEF Closed
  <2>2. Calls' /\ CallsBound'
    BY <1>1, <2>1 DEF CallInv, Calls, CallsBound
  <2>3. Hellos' /\ Unconnected'
    BY <1>1, <2>1 DEF CallInv, Hellos, Unconnected
  <2>. QED
    BY <1>2, <2>2, <2>3 DEF CallInv
<1>. QED
  BY <1>3, <1>4, <1>5

\* A read goes on: nothing of the calls is changed.
LEMMA CallKept ==
  ASSUME CallInv, UNCHANGED <<state, lastPeerSeq, op, results, issued, connections, task,
                              peerClosed>>
  PROVE  CallInv'
BY DEF CallInv, Calls, CallsBound, Hellos, Unconnected, BrokenClosed, Broken

LEMMA CallReads ==
  ASSUME TcpInv, StreamInv, CallInv, ReadHeader \/ ReadBody \/ ReadMac
  PROVE  CallInv'
<1>1. CASE ReadHeader
  <2>1. /\ op = "receiving" /\ UNCHANGED readsOf /\ UNCHANGED <<state, lastPeerSeq, sessionId>>
        /\ \/ UNCHANGED <<op, results>>
           \/ op' = "idle" /\ results' = Append(results, Raised("ERR_MAGIC"))
    BY <1>1, ReadHeaderTakes
  <2>2. Raised("ERR_MAGIC") \in Outcomes /\ Raised("ERR_MAGIC").code = "ERR_MAGIC"
    BY RaisedType DEF Raised, ErrorCode
  <2>. QED
    BY <2>1, <2>2, CallKept, CallEnds DEF readsOf
<1>2. CASE ReadBody
  BY <1>2, ReadBodyTakes, CallKept DEF readsOf
<1>3. CASE ReadMac
  <2>1. /\ op = "receiving" /\ ~Broken /\ op' = "idle" /\ toClient # << >> /\ UNCHANGED readsOf
        /\ \E o : results' = Append(results, o) /\ Receives(Head(toClient), o)
    BY <1>3, ReadMacTakes
  <2>2. PICK o : results' = Append(results, o) /\ Receives(Head(toClient), o)
    BY <2>1
  <2>3. o \in Outcomes /\ state' \in {state, "READY"}
    BY <2>1, <2>2, ReceivesType DEF Receives
  <2>4. o.code # "LOST"
    <3>1. Head(toClient).type = "ERROR" => Head(toClient).payload.code # "LOST"
      <4>1. ASSUME Head(toClient).type = "ERROR" PROVE Head(toClient).payload.code # "LOST"
        <5>1. PICK code \in ErrorCode : Head(toClient).payload = [code |-> code]
          BY <2>1, <4>1, HeadTaken DEF StreamInv, Readable
        <5>. QED
          BY <5>1 DEF ErrorCode
      <4>. QED
        BY <4>1
    <3>. QED
      BY <2>2, <3>1 DEF Receives, Raised, Returned
  <2>. QED
    BY <2>1, <2>2, <2>3, <2>4, CallEnds DEF readsOf
<1>. QED
  BY <1>1, <1>2, <1>3

LEMMA CallStep ==
  ASSUME TcpInv, StreamInv, CallInv, [Next]_vars
  PROVE  CallInv'
<1>1. CASE ServerStep /\ UNCHANGED clientVars
  BY <1>1, CallServer
<1>2. ASSUME NEW type \in RequestTypes, NEW d \in Data, Request(type, [data |-> d])
      PROVE  CallInv'
  <2>1. type \in MsgType \ {"HELLO"} /\ [data |-> d] \in Payload
    BY TcpClientAssumption DEF Payload
  <2>. QED
    BY <1>2, <2>1, CallSend DEF Request
<1>3. CASE SayBye
  BY <1>3, CallSend, ControlPayloads DEF SayBye, MsgType
<1>4. CASE SendLost \/ RecvTimeout \/ RecvLost
  BY <1>4, CallRaise
<1>5. CASE Sent \/ CloseSocket \/ Closed
  BY <1>5, CallWaits
<1>6. CASE ReadHeader \/ ReadBody \/ ReadMac
  BY <1>6, CallReads
<1>7. CASE UNCHANGED vars
  BY <1>7, CallKept DEF vars
<1>. QED
  BY <1>1, <1>2, <1>3, <1>4, <1>5, <1>6, <1>7, CallConnect DEF Next, User, ClientStep

(* The client makes one call at a time, its first frame is the HELLO, and  *)
(* its connection is lost only when the server has closed it.              *)
THEOREM CallInvariant == Spec => []CallInv
<1>1. TcpInv /\ StreamInv /\ CallInv /\ [Next]_vars => CallInv'
  BY CallStep
<1>. QED
  BY <1>1, CallInit, TcpInvariant, StreamInvariant, PTL DEF Spec

-----------------------------------------------------------------------------
(* What the client reads answers what it sent.                             *)

SentForIssued == Len(sent) <= Len(issued)

\* The server welcomes the HELLO of the client: it has nothing to refuse in it.
Welcome == sent # << >> => sent[1].type = "HELLO_ACK"

Clean == \A k \in DOMAIN results : results[k].code \notin {"TIMEOUT", "LOST"}

\* As long as no call timed out or was lost, the client has taken one frame for
\* each call that ended, and stands at the boundary of two frames between reads.
InStep ==
  Clean =>
    /\ Taken = Len(results)
    /\ got = "nothing" => skip = 0
    /\ \A j \in DOMAIN sent : AnswersOrRefuses(sent[j], issued[j])

AnswerInv == ReplyInv /\ SentForIssued /\ Welcome /\ InStep

LEMMA AnswerInit == Init => AnswerInv
<1>. SUFFICES ASSUME Init PROVE AnswerInv
  OBVIOUS
<1>1. /\ session = NewSession(0) /\ handled = << >> /\ sent = << >> /\ toClient = << >>
      /\ issued = << >> /\ results = << >> /\ skip = 0
  BY DEF Init, ClientInit, NoConnection
<1>2. SentForIssued /\ Welcome /\ InStep
  BY <1>1 DEF SentForIssued, Welcome, InStep, Taken
<1>. QED
  BY <1>1, <1>2, RepliesBegin DEF AnswerInv

LEMMA AnswerKept ==
  ASSUME AnswerInv, UNCHANGED <<sent, toClient, got, skip, issued, results>>, ReplyInv'
  PROVE  AnswerInv'
BY DEF AnswerInv, SentForIssued, Welcome, InStep, Clean, Taken

\* The frame that is read is the next of those that were sent.
LEMMA ReadsNext ==
  ASSUME TcpInv, ReadFrame
  PROVE  /\ Len(handled) \in Nat /\ Len(handled) + 1 <= Len(issued)
         /\ Head(toServer) = issued[Len(handled) + 1]
<1>1. task = "reading" /\ toServer # << >>
  BY DEF ReadFrame
<1>2. handled \in Seq(Frames) /\ toServer \in Seq(Frames) /\ issued = handled \o toServer
  BY <1>1 DEF TcpInv, ConnectionInv, ServerTypeOK, NothingSkipped
<1>3. Len(toServer) \in Nat /\ Len(toServer) >= 1 /\ Head(toServer) = toServer[1]
  BY <1>1, <1>2
<1>4. /\ Len(handled) \in Nat /\ Len(issued) = Len(handled) + Len(toServer)
      /\ \A i \in 1..Len(toServer) : issued[Len(handled) + i] = toServer[i]
  BY <1>2
<1>. QED
  BY <1>3, <1>4

LEMMA HelloWelcomed ==
  ASSUME NEW s \in Sessions, NEW f \in Frames, s.state = "NEW", s.lastPeerSeq = -1,
         f.type = "HELLO", f.payload = [client_id |-> Me]
  PROVE  \E x : OnFrame(s, f).frames = << x >> /\ x.type = "HELLO_ACK"
<1>. DEFINE heard == [s EXCEPT !.lastPeerSeq = f.seq]
<1>1. ~(f.seq <= s.lastPeerSeq) /\ heard.state = "NEW"
  BY DEF Sessions, Frames
<1>2. OnFrame(s, f) = Dispatch(heard, f)
  BY <1>1 DEF OnFrame
<1>. HIDE DEF heard
<1>3. Dispatch(heard, f) = OnHello(heard, f)
  BY <1>1 DEF Dispatch
<1>4. Decode(f.payload, "client_id") = "OK"
  BY DEF Decode
<1>5. OnHello(heard, f) = Reply([heard EXCEPT !.state = "READY"], "HELLO_ACK",
                                [session_id |-> heard.id])
  BY <1>4 DEF OnHello
<1>6. \A t, p : \E x : Reply(t, "HELLO_ACK", p).frames = << x >> /\ x.type = "HELLO_ACK"
  BY DEF Reply, Frame
<1>. QED
  BY <1>2, <1>3, <1>5, <1>6

\* What the server says first is a welcome.
LEMMA FirstSaid ==
  ASSUME TcpInv, CallInv, ReplyInv, ReadFrame, NEW x, Says(x), sent = << >>
  PROVE  x.type = "HELLO_ACK"
<1>1. session \in Sessions /\ Live(session) /\ Head(toServer) \in Frames
  BY ReadFrameSays DEF TcpInv, ConnectionInv, ServerTypeOK
<1>2. session.state = "NEW" /\ handled = << >> /\ session.lastPeerSeq = -1
  BY <1>1 DEF ReplyInv, Begun, Live
<1>3. Head(toServer) = issued[1] /\ issued # << >>
  <2>1. Len(handled) = 0
    BY <1>2
  <2>2. 1 <= Len(issued) /\ Head(toServer) = issued[1]
    BY <2>1, ReadsNext
  <2>. QED
    BY <2>2
<1>4. Head(toServer).type = "HELLO" /\ Head(toServer).payload = [client_id |-> Me]
  BY <1>3 DEF CallInv, Hellos
<1>5. PICK y : OnFrame(session, Head(toServer)).frames = << y >> /\ y.type = "HELLO_ACK"
  BY <1>1, <1>2, <1>4, HelloWelcomed
<1>6. sent' = sent \o << y >>
  BY <1>5 DEF ReadFrame, Apply
<1>7. sent' = Append(sent, x)
  BY DEF Says
<1>8. sent' = << y >> /\ sent' = << x >>
  BY <1>6, <1>7
<1>. QED
  BY <1>5, <1>8

LEMMA AnswerServer ==
  ASSUME TcpInv, StreamInv, CallInv, AnswerInv, ServerStep, UNCHANGED clientVars
  PROVE  AnswerInv'
<1>1. ConnectionInv /\ sent \in Seq(Frames) /\ toClient \in Seq(Frames) /\ issued \in Seq(Frames)
  BY DEF TcpInv, ConnectionInv, ServerTypeOK
<1>2. UNCHANGED <<got, skip, issued, results>>
  BY DEF clientVars
<1>3. ReplyInv'
  BY <1>1, ServerStepReplies DEF AnswerInv
<1>4. CASE sent' = sent /\ toClient' = toClient
  BY <1>2, <1>3, <1>4, AnswerKept
<1>5. CASE ReadFrame
  <2>. DEFINE f == Head(toServer)
              h == Len(handled)
  <2>1. Live(session) /\ (\/ SaysNothing
                          \/ \E x : Says(x) /\ (Echoes(x, f) \/ Refuses(x)))
    BY <1>1, <1>5, ReadFrameSays
  <2>2. /\ h \in Nat /\ h + 1 <= Len(issued) /\ f = issued[h + 1]
        /\ Len(sent) <= h
    BY <1>5, <2>1, ReadsNext DEF AnswerInv, ReplyInv, Begun, Live
  <2>3. ASSUME NEW x, Says(x), Echoes(x, f) \/ Refuses(x)
        PROVE  AnswerInv'
    <3>1. x \in Frames /\ sent' = Append(sent, x) /\ toClient' = Append(toClient, x)
      BY <2>3 DEF Says
    <3>2. /\ Len(sent') = Len(sent) + 1 /\ sent'[Len(sent) + 1] = x
          /\ \A i \in DOMAIN sent : sent'[i] = sent[i]
          /\ DOMAIN sent' = 1..(Len(sent) + 1) /\ DOMAIN sent = 1..Len(sent) /\ Len(sent) \in Nat
      BY <1>1, <3>1, Behind
    <3>3. Len(toClient') = Len(toClient) + 1 /\ Len(toClient) \in Nat /\ Len(issued) \in Nat
      BY <1>1, <3>1, Behind
    <3>4. SentForIssued'
      <4>. HIDE DEF f, h
      <4>. QED
        BY <1>2, <2>2, <3>2, <3>3 DEF SentForIssued
    <3>5. Welcome'
      <4>1. CASE sent = << >>
        <5>1. x.type = "HELLO_ACK" /\ Len(sent) = 0
          BY <1>5, <2>3, <4>1, FirstSaid DEF AnswerInv
        <5>2. sent'[1] = x
          BY <3>2, <5>1
        <5>. QED
          BY <5>1, <5>2 DEF Welcome
      <4>2. CASE sent # << >>
        <5>1. 1 \in DOMAIN sent
          BY <1>1, <4>2
        <5>2. sent'[1] = sent[1]
          BY <3>2, <5>1
        <5>. QED
          BY <4>2, <5>2 DEF AnswerInv, Welcome
      <4>. QED
        BY <4>1, <4>2
    <3>6. InStep'
      <4>. SUFFICES ASSUME Clean'
                    PROVE  /\ Taken' = Len(results)
                           /\ got = "nothing" => skip = 0
                           /\ \A j \in DOMAIN sent' : AnswersOrRefuses(sent'[j], issued[j])
        BY <1>2 DEF InStep
      <4>1. /\ Taken = Len(results) /\ (got = "nothing" => skip = 0)
            /\ \A j \in DOMAIN sent : AnswersOrRefuses(sent[j], issued[j])
        BY <1>2 DEF AnswerInv, InStep, Clean
      <4>2. Taken' = Taken
        BY <3>2, <3>3 DEF Taken
      <4>3. h = Len(sent)
        <5>1. Len(issued) <= Len(results) + 1
          BY DEF CallInv, Calls
        <5>2. Len(results) <= Len(sent)
          BY <3>2, <3>3, <4>1 DEF Taken
        <5>. DEFINE m == Len(sent)
                    n == Len(issued)
                    k == Len(results)
        <5>3. k \in Nat /\ m \in Nat /\ n \in Nat /\ h \in Nat
          BY <2>2, <3>2, <3>3 DEF StreamInv, ClientTypeOK
        <5>4. h + 1 <= n /\ n <= k + 1 /\ k <= m /\ m <= h
          BY <2>2, <5>1, <5>2
        <5>. HIDE DEF h, m, n, k
        <5>5. h = m
          BY <5>3, <5>4
        <5>. QED
          BY <5>5 DEF m
      <4>4. AnswersOrRefuses(x, issued[Len(sent) + 1])
        BY <2>2, <2>3, <4>3, EchoesAnswers DEF AnswersOrRefuses, Refuses
      <4>5. ASSUME NEW j \in DOMAIN sent' PROVE AnswersOrRefuses(sent'[j], issued[j])
        <5>1. CASE j = Len(sent) + 1
          BY <3>2, <4>4, <5>1
        <5>2. CASE j \in DOMAIN sent
          BY <3>2, <4>1, <5>2
        <5>. QED
          BY <3>2, <5>1, <5>2
      <4>. QED
        BY <4>1, <4>2, <4>5
    <3>. QED
      BY <1>3, <3>4, <3>5, <3>6 DEF AnswerInv
  <2>. QED
    BY <1>4, <2>1, <2>3 DEF SaysNothing
<1>. QED
  BY <1>1, <1>4, <1>5, NoFault, ServerSays

LEMMA AnswerConnect ==
  ASSUME Connect
  PROVE  AnswerInv'
<1>. DEFINE hello == Numbered("HELLO", [client_id |-> Me])
<1>1. Accept(<< hello >>) /\ issued' = << hello >> /\ results' = << >> /\ skip' = 0
  BY DEF Connect
<1>. HIDE DEF hello
<1>2. session' = NewSession(0) /\ handled' = << >> /\ sent' = << >> /\ toClient' = << >>
  BY <1>1 DEF Accept
<1>3. ReplyInv'
  BY <1>2, RepliesBeginNext
<1>4. SentForIssued' /\ Welcome' /\ InStep'
  BY <1>1, <1>2 DEF SentForIssued, Welcome, InStep, Taken
<1>. QED
  BY <1>3, <1>4 DEF AnswerInv

LEMMA AnswerSend ==
  ASSUME TcpInv, StreamInv, AnswerInv,
         NEW type \in MsgType, NEW payload \in Payload, NEW waiting, Send(type, payload, waiting)
  PROVE  AnswerInv'
<1>. DEFINE x == Numbered(type, payload)
<1>1. x \in Frames
  BY NumberedType DEF TcpInv
<1>. HIDE DEF x
<1>2. /\ issued' = Append(issued, x)
      /\ UNCHANGED <<session, handled, sent, toClient, got, skip, results>>
  BY DEF Send, x
<1>3. /\ Len(issued') = Len(issued) + 1 /\ DOMAIN issued = 1..Len(issued) /\ Len(issued) \in Nat
      /\ \A i \in DOMAIN issued : issued'[i] = issued[i]
  BY <1>1, <1>2, Behind DEF TcpInv
<1>4. DOMAIN sent = 1..Len(sent) /\ Len(sent) \in Nat /\ Len(sent) <= Len(issued)
  BY DEF TcpInv, ConnectionInv, ServerTypeOK, AnswerInv, SentForIssued
<1>5. ReplyInv'
  BY <1>2, RepliesKept DEF AnswerInv
<1>6. SentForIssued' /\ Welcome'
  BY <1>2, <1>3, <1>4 DEF AnswerInv, SentForIssued, Welcome
<1>7. InStep'
  <2>1. \A j \in DOMAIN sent : j \in DOMAIN issued
    BY <1>3, <1>4
  <2>. QED
    BY <1>2, <1>3, <2>1 DEF AnswerInv, InStep, Clean, Taken
<1>. QED
  BY <1>5, <1>6, <1>7 DEF AnswerInv

\* What holds of the results and one more held of the results.
LEMMA CleanBefore ==
  ASSUME StreamInv, NEW o, results' = Append(results, o), Clean'
  PROVE  Clean /\ o.code \notin {"TIMEOUT", "LOST"} /\ Len(results') = Len(results) + 1
<1>1. results \in Seq(Outcomes)
  BY DEF StreamInv, ClientTypeOK
<1>2. /\ Len(results') = Len(results) + 1 /\ results'[Len(results) + 1] = o
      /\ \A k \in DOMAIN results : results'[k] = results[k]
      /\ DOMAIN results' = 1..(Len(results) + 1) /\ DOMAIN results = 1..Len(results)
      /\ Len(results) \in Nat
  BY <1>1, AppendProperties
<1>3. \A k \in DOMAIN results' : results'[k].code \notin {"TIMEOUT", "LOST"}
  BY DEF Clean
<1>4. Len(results) + 1 \in DOMAIN results' /\ \A k \in DOMAIN results : k \in DOMAIN results'
  BY <1>2
<1>. QED
  BY <1>2, <1>3, <1>4 DEF Clean

LEMMA AnswerRaise ==
  ASSUME TcpInv, StreamInv, AnswerInv, NEW code \in {"TIMEOUT", "LOST"}, Raise(code)
  PROVE  AnswerInv'
<1>1. results' = Append(results, Raised(code)) /\ UNCHANGED <<session, handled, sent, issued>>
  BY DEF Raise, Finish, serverVars
<1>2. ~Clean'
  BY <1>1, CleanBefore DEF Raised
<1>3. ReplyInv'
  BY <1>1, RepliesKept DEF AnswerInv
<1>4. SentForIssued' /\ Welcome' /\ InStep'
  BY <1>1, <1>2 DEF AnswerInv, SentForIssued, Welcome, InStep
<1>. QED
  BY <1>3, <1>4 DEF AnswerInv

LEMMA AnswerReads ==
  ASSUME TcpInv, StreamInv, AnswerInv, ReadHeader \/ ReadBody \/ ReadMac
  PROVE  AnswerInv'
<1>1. UNCHANGED <<session, handled, sent, issued>>
  BY DEF ReadHeader, ReadBody, ReadMac, readsOf
<1>2. ReplyInv' /\ SentForIssued' /\ Welcome'
  BY <1>1, RepliesKept DEF AnswerInv, SentForIssued, Welcome
<1>3. CASE ReadHeader
  <2>1. /\ got = "nothing"
        /\ \/ skip = 0 /\ got' = "header" /\ UNCHANGED <<results, toClient>>
           \/ skip # 0 /\ results' = Append(results, Raised("ERR_MAGIC"))
    BY <1>3, ReadHeaderTakes
  <2>2. CASE skip = 0 /\ got' = "header" /\ UNCHANGED <<results, toClient>>
    <3>1. InStep'
      BY <1>1, <2>2 DEF AnswerInv, InStep, Clean, Taken
    <3>. QED
      BY <1>2, <3>1 DEF AnswerInv
  <2>3. CASE skip # 0 /\ results' = Append(results, Raised("ERR_MAGIC"))
    <3>1. ~Clean'
      BY <2>1, <2>3, CleanBefore DEF AnswerInv, InStep
    <3>. QED
      BY <1>2, <3>1 DEF AnswerInv, InStep
  <2>. QED
    BY <2>1, <2>2, <2>3
<1>4. CASE ReadBody
  <2>1. got' = "body" /\ UNCHANGED <<results, toClient>>
    BY <1>4, ReadBodyTakes
  <2>2. InStep'
    BY <1>1, <2>1 DEF AnswerInv, InStep, Clean, Taken
  <2>. QED
    BY <1>2, <2>2 DEF AnswerInv
<1>5. CASE ReadMac
  <2>1. /\ toClient # << >> /\ toClient' = Tail(toClient) /\ skip' = 0
        /\ \E o : results' = Append(results, o)
    BY <1>5, ReadMacTakes
  <2>2. PICK o : results' = Append(results, o)
    BY <2>1
  <2>3. Clean' => Clean /\ Len(results') = Len(results) + 1
    BY <2>2, CleanBefore
  <2>4. Taken' = Taken + 1
    <3>1. /\ Len(toClient') = Len(toClient) - 1 /\ Len(toClient) \in Nat /\ Len(sent) \in Nat
      BY <2>1 DEF TcpInv, ConnectionInv, ServerTypeOK
    <3>. QED
      BY <1>1, <3>1 DEF Taken
  <2>5. InStep'
    <3>1. Clean' => /\ Taken = Len(results)
                    /\ \A j \in DOMAIN sent : AnswersOrRefuses(sent[j], issued[j])
      BY <2>3 DEF AnswerInv, InStep
    <3>. QED
      BY <1>1, <2>1, <2>3, <2>4, <3>1 DEF InStep
  <2>. QED
    BY <1>2, <2>5 DEF AnswerInv
<1>. QED
  BY <1>3, <1>4, <1>5

LEMMA AnswerStep ==
  ASSUME TcpInv, StreamInv, CallInv, AnswerInv, [Next]_vars
  PROVE  AnswerInv'
<1>1. CASE ServerStep /\ UNCHANGED clientVars
  BY <1>1, AnswerServer
<1>2. ASSUME NEW type \in RequestTypes, NEW d \in Data, Request(type, [data |-> d])
      PROVE  AnswerInv'
  <2>1. type \in MsgType /\ [data |-> d] \in Payload
    BY TcpClientAssumption DEF Payload
  <2>. QED
    BY <1>2, <2>1, AnswerSend DEF Request
<1>3. CASE SayBye
  BY <1>3, AnswerSend, ControlPayloads DEF SayBye, MsgType
<1>4. CASE SendLost \/ RecvTimeout \/ RecvLost
  BY <1>4, AnswerRaise DEF SendLost, RecvTimeout, RecvLost
<1>5. CASE Sent \/ CloseSocket \/ Closed \/ UNCHANGED vars
  <2>1. UNCHANGED <<session, handled, sent, toClient, got, skip, issued, results>>
    BY <1>5 DEF Sent, CloseSocket, Closed, serverVars, vars
  <2>. QED
    BY <2>1, AnswerKept, RepliesKept DEF AnswerInv
<1>6. CASE ReadHeader \/ ReadBody \/ ReadMac
  BY <1>6, AnswerReads
<1>. QED
  BY <1>1, <1>2, <1>3, <1>4, <1>5, <1>6, AnswerConnect DEF Next, User, ClientStep

(* The server answers one for one what it ran, and as long as no call timed*)
(* out the client has read one answer for each call that ended.            *)
THEOREM AnswerInvariant == Spec => []AnswerInv
<1>1. TcpInv /\ StreamInv /\ CallInv /\ AnswerInv /\ [Next]_vars => AnswerInv'
  BY AnswerStep
<1>. QED
  BY <1>1, AnswerInit, TcpInvariant, StreamInvariant, CallInvariant, PTL DEF Spec

-----------------------------------------------------------------------------
(* What the results of the calls say.                                      *)

\* A HELLO is answered by the first frame of the connection.
LEMMA HandshakeWelcomed ==
  ASSUME TcpInv, StreamInv, CallInv, AnswerInv, op = "receiving", toClient # << >>,
         Current.type = "HELLO"
  PROVE  Head(toClient).type = "HELLO_ACK"
<1>1. /\ issued \in Seq(Frames) /\ results \in Seq(Outcomes)
      /\ Len(issued) = Len(results) + 1
  BY DEF StreamInv, ClientTypeOK, CallInv, Calls
<1>2. Len(issued) \in DOMAIN issued /\ Len(results) \in Nat
  BY <1>1
<1>3. Len(issued) = 1
  BY <1>2 DEF Current, CallInv, Hellos
<1>4. Len(results) = 0
  BY <1>1, <1>2, <1>3
<1>5. Taken = 0
  <2>1. DOMAIN results = {}
    BY <1>1, <1>4
  <2>2. Clean
    BY <2>1 DEF Clean
  <2>. QED
    BY <1>4, <2>2 DEF AnswerInv, InStep
<1>6. Head(toClient) = sent[1] /\ 1 \in DOMAIN sent
  BY <1>5, HeadTaken
<1>. QED
  BY <1>6 DEF AnswerInv, Welcome

\* One more result.
LEMMA OneResult ==
  ASSUME StreamInv, NEW o, results' = Append(results, o)
  PROVE  /\ Len(results) \in Nat /\ results'[Len(results) + 1] = o
         /\ \A k \in DOMAIN results : results'[k] = results[k]
         /\ DOMAIN results' = 1..(Len(results) + 1) /\ DOMAIN results = 1..Len(results)
<1>1. results \in Seq(Outcomes)
  BY DEF StreamInv, ClientTypeOK
<1>. QED
  BY <1>1, AppendProperties

NoTimeout == \A k \in DOMAIN results : results[k].code # "TIMEOUT"

LEMMA ResultAdded ==
  ASSUME StreamInv, AnswersUnlessTimedOut, issued' = issued,
         NEW o, results' = Append(results, o),
         NoTimeout => /\ o.code = "OK" => AnswersOrRefuses(o.frame, issued[Len(results) + 1])
                      /\ o.code # "ERR_MAGIC"
  PROVE  AnswersUnlessTimedOut'
<1>1. /\ Len(results) \in Nat /\ results'[Len(results) + 1] = o
      /\ \A k \in DOMAIN results : results'[k] = results[k]
      /\ DOMAIN results' = 1..(Len(results) + 1) /\ DOMAIN results = 1..Len(results)
  BY OneResult
<1>2. ASSUME NEW k \in DOMAIN results', ~ \E j \in 1..(k - 1) : results'[j].code = "TIMEOUT"
      PROVE  /\ results'[k].code = "OK" => AnswersOrRefuses(results'[k].frame, issued[k])
             /\ results'[k].code # "ERR_MAGIC"
  <2>1. CASE k = Len(results) + 1
    <3>1. NoTimeout
      BY <1>1, <1>2, <2>1 DEF NoTimeout
    <3>. QED
      BY <1>1, <2>1, <3>1
  <2>2. CASE k \in DOMAIN results
    <3>1. \A j \in 1..(k - 1) : j \in DOMAIN results
      BY <1>1, <2>2
    <3>2. ~TimedOutBefore(k)
      BY <1>1, <1>2, <3>1 DEF TimedOutBefore
    <3>. QED
      BY <1>1, <2>2, <3>2 DEF AnswersUnlessTimedOut
  <2>. QED
    BY <1>1, <2>1, <2>2
<1>. QED
  BY <1>2 DEF AnswersUnlessTimedOut, TimedOutBefore

\* The results are as they were, and so are the frames that they are results of.
LEMMA ResultsKept ==
  ASSUME AnswersUnlessTimedOut, results' = results,
         \A k \in DOMAIN results : issued'[k] = issued[k]
  PROVE  AnswersUnlessTimedOut'
BY DEF AnswersUnlessTimedOut, TimedOutBefore

LEMMA ResultsReadMac ==
  ASSUME TcpInv, StreamInv, CallInv, AnswerInv, AnswersUnlessTimedOut, ReadMac
  PROVE  AnswersUnlessTimedOut'
<1>1. /\ op = "receiving" /\ ~Broken /\ toClient # << >> /\ issued' = issued
      /\ \E o : results' = Append(results, o) /\ Receives(Head(toClient), o)
  BY ReadMacTakes DEF readsOf
<1>2. PICK o : results' = Append(results, o) /\ Receives(Head(toClient), o)
  BY <1>1
<1>3. Head(toClient) = sent[Taken + 1] /\ Taken + 1 \in DOMAIN sent
  BY <1>1, HeadTaken
<1>4. ASSUME NoTimeout
      PROVE  /\ o.code = "OK" => AnswersOrRefuses(o.frame, issued[Len(results) + 1])
             /\ o.code # "ERR_MAGIC"
  <2>1. Clean
    BY <1>1, <1>4 DEF Clean, NoTimeout, Broken
  <2>2. AnswersOrRefuses(Head(toClient), issued[Len(results) + 1])
    BY <1>3, <2>1 DEF AnswerInv, InStep
  <2>3. ~(Current.type = "HELLO" /\ Head(toClient).type = "ERROR")
    BY <1>1, HandshakeWelcomed
  <2>4. o \in {Raised("ERR_SEQ"), Raised("ERR_STATE"), Returned(Head(toClient))}
    BY <1>2, <2>3 DEF Receives
  <2>. QED
    BY <2>2, <2>4 DEF Raised, Returned
<1>. QED
  BY <1>1, <1>2, <1>4, ResultAdded

LEMMA ResultsReadHeader ==
  ASSUME TcpInv, StreamInv, AnswerInv, AnswersUnlessTimedOut, ReadHeader
  PROVE  AnswersUnlessTimedOut'
<1>1. /\ ~Broken /\ got = "nothing" /\ issued' = issued
      /\ \/ results' = results
         \/ skip # 0 /\ results' = Append(results, Raised("ERR_MAGIC"))
  BY ReadHeaderTakes DEF readsOf
<1>2. skip # 0 => ~NoTimeout
  BY <1>1 DEF AnswerInv, InStep, Clean, NoTimeout, Broken
<1>. QED
  BY <1>1, <1>2, ResultAdded, ResultsKept

LEMMA ResultsStep ==
  ASSUME TcpInv, StreamInv, CallInv, AnswerInv, AnswersUnlessTimedOut, [Next]_vars
  PROVE  AnswersUnlessTimedOut'
<1>1. CASE ServerStep /\ UNCHANGED clientVars
  BY <1>1, ResultsKept DEF clientVars
<1>2. CASE Connect
  <2>1. results' = << >>
    BY <1>2 DEF Connect
  <2>. QED
    BY <2>1 DEF AnswersUnlessTimedOut
<1>3. ASSUME NEW type, NEW payload, NEW waiting, Send(type, payload, waiting)
      PROVE  AnswersUnlessTimedOut'
  <2>1. /\ issued \in Seq(Frames) /\ results \in Seq(Outcomes) /\ Len(results) <= Len(issued)
    BY DEF StreamInv, ClientTypeOK, CallInv, Calls
  <2>2. results' = results /\ issued' = Append(issued, Numbered(type, payload))
    BY <1>3 DEF Send
  <2>3. \A k \in DOMAIN results : issued'[k] = issued[k]
    <3>. DEFINE x == Numbered(type, payload)
    <3>1. \A k \in 1..Len(issued) : Append(issued, x)[k] = issued[k]
      <4>. HIDE DEF x
      <4>. QED
        BY <2>1
    <3>2. \A k \in DOMAIN results : k \in 1..Len(issued)
      BY <2>1
    <3>. QED
      BY <2>2, <3>1, <3>2
  <2>. QED
    BY <2>2, <2>3, ResultsKept
<1>4. ASSUME NEW code \in {"TIMEOUT", "LOST"}, Raise(code)
      PROVE  AnswersUnlessTimedOut'
  <2>1. results' = Append(results, Raised(code)) /\ issued' = issued
    BY <1>4 DEF Raise, Finish
  <2>2. Raised(code).code \notin {"OK", "ERR_MAGIC"}
    BY <1>4 DEF Raised
  <2>. QED
    BY <2>1, <2>2, ResultAdded
<1>5. CASE Sent \/ CloseSocket \/ Closed \/ ReadBody \/ UNCHANGED vars
  BY <1>5, ResultsKept DEF Sent, CloseSocket, Closed, ReadBody, readsOf, vars
<1>6. CASE ReadHeader \/ ReadMac
  BY <1>6, ResultsReadHeader, ResultsReadMac
<1>. QED
  BY <1>1, <1>2, <1>3, <1>4, <1>5, <1>6
     DEF Next, User, ClientStep, Request, SayBye, SendLost, RecvTimeout, RecvLost

(* request() returns the answer to the frame it sent as long as no earlier *)
(* request of the connection timed out, and never loses its place in the   *)
(* stream: whatever the sizes of the parts of a frame, and whatever the    *)
(* server refuses, closes or leaves unanswered.                            *)
THEOREM TcpAnswersUnlessTimedOut == Spec => []AnswersUnlessTimedOut
<1>1. Init => AnswersUnlessTimedOut
  BY DEF Init, ClientInit, AnswersUnlessTimedOut
<1>2. TcpInv /\ StreamInv /\ CallInv /\ AnswerInv /\ AnswersUnlessTimedOut /\ [Next]_vars
        => AnswersUnlessTimedOut'
  BY ResultsStep
<1>. QED
  BY <1>1, <1>2, TcpInvariant, StreamInvariant, CallInvariant, AnswerInvariant, PTL DEF Spec

-----------------------------------------------------------------------------

\* What the client left unread fills one direction only if a call timed out.
LEMMA WaitsAfterTimeout ==
  ASSUME TcpInv, StreamInv, CallInv, AnswerInv
  PROVE  MutualWaitOnlyAfterTimeout
<1>. SUFFICES ASSUME MutualWait, NoTimeout PROVE FALSE
  BY DEF MutualWaitOnlyAfterTimeout, NoTimeout
<1>1. Clean
  BY DEF Clean, NoTimeout, MutualWait, CallInv, BrokenClosed, Broken
<1>2. /\ Len(toClient) \in Nat /\ Len(sent) \in Nat /\ Len(issued) \in Nat
      /\ Len(results) \in Nat
  BY DEF TcpInv, ConnectionInv, ServerTypeOK, StreamInv, ClientTypeOK
<1>3. Len(sent) - Len(toClient) = Len(results)
  BY <1>1 DEF AnswerInv, InStep, Taken
<1>4. Len(sent) <= Len(issued) /\ Len(issued) <= Len(results) + 1
  BY DEF AnswerInv, SentForIssued, CallInv, Calls
<1>5. ~(Len(toClient) <= SocketBuffer + HighWater)
  BY DEF MutualWait, CanDrain
<1>6. Len(toClient) <= 1
  BY <1>2, <1>3, <1>4
<1>. QED
  BY <1>2, <1>5, <1>6, TcpServerAssumption

(* Client and server wait for each other only if the client left answers   *)
(* unread, by a timeout, whatever the buffers hold.                        *)
THEOREM TcpMutualWaitOnlyAfterTimeout == Spec => []MutualWaitOnlyAfterTimeout
<1>1. TcpInv /\ StreamInv /\ CallInv /\ AnswerInv => MutualWaitOnlyAfterTimeout
  BY WaitsAfterTimeout
<1>. QED
  BY <1>1, TcpInvariant, StreamInvariant, CallInvariant, AnswerInvariant, PTL

-----------------------------------------------------------------------------
(* The numbers of the server, as the client compares them.                 *)

\* On its first connection the client has seen no number that is still to come.
Fresh == connections <= 1 => lastPeerSeq < Taken

\* Each frame of the server carries the number of its place.
LEMMA HeadNumbered ==
  ASSUME TcpInv, StreamInv, CallInv, AnswerInv, toClient # << >>
  PROVE  Head(toClient).seq = Taken
<1>1. Head(toClient) = sent[Taken + 1] /\ Taken \in Nat /\ Taken + 1 \in DOMAIN sent
  BY HeadTaken
<1>2. Len(sent) <= Len(issued) /\ Len(issued) <= MaxRequests + 2
  BY DEF AnswerInv, SentForIssued, CallInv, CallsBound
<1>3. /\ Len(sent) \in Nat /\ Len(issued) \in Nat /\ DOMAIN sent = 1..Len(sent)
      /\ MaxRequests \in 0..(MaxSeq - 1) /\ MaxSeq \in Nat
  BY TcpClientAssumption, MaxSeqAssumption DEF TcpInv, ConnectionInv, ServerTypeOK
<1>4. Taken <= MaxSeq
  <2>. DEFINE n == Len(sent)
              m == Len(issued)
              t == Taken
  <2>1. /\ n \in Nat /\ m \in Nat /\ t \in Nat /\ t + 1 <= n /\ n <= m /\ m <= MaxRequests + 2
    BY <1>1, <1>2, <1>3
  <2>. HIDE DEF n, m, t
  <2>2. t <= MaxSeq
    BY <1>3, <2>1
  <2>. QED
    BY <2>2 DEF t
<1>5. sent[Taken + 1].seq = (Taken + 1) - 1
  <2>. DEFINE i == Taken + 1
  <2>1. i \in DOMAIN sent /\ i - 1 <= MaxSeq
    BY <1>1, <1>4
  <2>. HIDE DEF i
  <2>2. sent[i].seq = i - 1
    BY <2>1 DEF AnswerInv, ReplyInv, Counted
  <2>. QED
    BY <2>2 DEF i
<1>. QED
  BY <1>1, <1>5

\* Frames are taken, none is put back.
LEMMA FreshKept ==
  ASSUME Fresh, connections' = connections, lastPeerSeq' = lastPeerSeq, Taken' = Taken
  PROVE  Fresh'
BY DEF Fresh

\* The client takes a frame, and may have heard its number.
LEMMA FreshTaken ==
  ASSUME TcpInv, StreamInv, CallInv, AnswerInv, Fresh, toClient # << >>,
         toClient' = Tail(toClient), sent' = sent, connections' = connections,
         lastPeerSeq' \in {lastPeerSeq, Head(toClient).seq}
  PROVE  Fresh'
<1>1. Taken \in Nat /\ Head(toClient).seq = Taken /\ lastPeerSeq \in Int
  BY HeadTaken, HeadNumbered DEF StreamInv, ClientTypeOK
<1>2. Taken' = Taken + 1
  <2>1. /\ Len(toClient') = Len(toClient) - 1 /\ Len(toClient) \in Nat /\ Len(sent) \in Nat
    BY DEF TcpInv, ConnectionInv, ServerTypeOK
  <2>. QED
    BY <2>1 DEF Taken
<1>3. connections <= 1 => lastPeerSeq < Taken
  BY DEF Fresh
<1>4. connections <= 1 => lastPeerSeq' < Taken + 1
  BY <1>1, <1>3
<1>. QED
  BY <1>2, <1>4 DEF Fresh

LEMMA FreshStep ==
  ASSUME TcpInv, StreamInv, CallInv, AnswerInv, Fresh, [Next]_vars
  PROVE  Fresh'
<1>1. CASE ServerStep /\ UNCHANGED clientVars
  <2>1. sent \in Seq(Frames) /\ toClient \in Seq(Frames) /\ ConnectionInv
    BY DEF TcpInv, ConnectionInv, ServerTypeOK
  <2>2. \/ sent' = sent /\ toClient' = toClient
        \/ \E x \in Frames : sent' = Append(sent, x) /\ toClient' = Append(toClient, x)
    BY <1>1, <2>1, NoFault, ServerSays DEF Says
  <2>3. Taken' = Taken
    <3>1. ASSUME NEW x \in Frames, sent' = Append(sent, x), toClient' = Append(toClient, x)
          PROVE  Taken' = Taken
      <4>1. /\ Len(sent') = Len(sent) + 1 /\ Len(toClient') = Len(toClient) + 1
            /\ Len(sent) \in Nat /\ Len(toClient) \in Nat
        BY <2>1, <3>1, Behind
      <4>. QED
        BY <4>1 DEF Taken
    <3>. QED
      BY <2>2, <3>1 DEF Taken
  <2>. QED
    BY <1>1, <2>3, FreshKept DEF clientVars
<1>2. CASE Connect
  <2>1. /\ sent' = << >> /\ toClient' = << >> /\ connections' = connections + 1
        /\ lastPeerSeq' = lastPeerSeq
    BY <1>2 DEF Connect, Accept
  <2>2. connections \in Nat
    BY TcpClientAssumption DEF StreamInv, ClientTypeOK
  <2>3. connections' <= 1 => connections = 0
    BY <2>1, <2>2
  <2>4. connections' <= 1 => lastPeerSeq' = -1
    BY <2>1, <2>3 DEF CallInv, Unconnected
  <2>5. Taken' = 0
    BY <2>1 DEF Taken
  <2>. QED
    BY <2>4, <2>5 DEF Fresh
<1>3. ASSUME NEW type, NEW payload, NEW waiting, Send(type, payload, waiting)
      PROVE  Fresh'
  BY <1>3, FreshKept DEF Send, Taken
<1>4. ASSUME NEW code, Raise(code) PROVE Fresh'
  BY <1>4, FreshKept DEF Raise, serverVars, Taken
<1>5. CASE Sent \/ CloseSocket \/ Closed \/ UNCHANGED vars
  <2>1. UNCHANGED <<connections, lastPeerSeq, sent, toClient>>
    BY <1>5 DEF Sent, CloseSocket, Closed, serverVars, vars
  <2>. QED
    BY <2>1, FreshKept DEF Taken
<1>6. CASE ReadBody
  <2>1. UNCHANGED <<connections, lastPeerSeq, sent, toClient>>
    BY <1>6, ReadBodyTakes DEF readsOf
  <2>. QED
    BY <2>1, FreshKept DEF Taken
<1>7. CASE ReadHeader
  <2>1. /\ UNCHANGED <<connections, lastPeerSeq, sent>>
        /\ toClient' = toClient \/ (toClient # << >> /\ toClient' = Tail(toClient))
    BY <1>7, ReadHeaderTakes DEF readsOf
  <2>2. toClient' = toClient => Fresh'
    BY <2>1, FreshKept DEF Taken
  <2>. QED
    BY <2>1, <2>2, FreshTaken
<1>8. CASE ReadMac
  <2>1. /\ toClient # << >> /\ toClient' = Tail(toClient) /\ UNCHANGED <<connections, sent>>
        /\ lastPeerSeq' \in {lastPeerSeq, Head(toClient).seq}
    BY <1>8, ReadMacTakes DEF readsOf, Receives
  <2>. QED
    BY <2>1, FreshTaken
<1>. QED
  BY <1>1, <1>2, <1>3, <1>4, <1>5, <1>6, <1>7, <1>8
     DEF Next, User, ClientStep, Request, SayBye, SendLost, RecvTimeout, RecvLost

NoReplayYet == connections <= 1 => NoFalseReplay

\* One more result, which is no replay on the first connection.
LEMMA NoReplayAdded ==
  ASSUME StreamInv, NoReplayYet, connections' = connections,
         NEW o, results' = Append(results, o), connections <= 1 => o.code # "ERR_SEQ"
  PROVE  NoReplayYet'
<1>1. /\ Len(results) \in Nat /\ results'[Len(results) + 1] = o
      /\ \A k \in DOMAIN results : results'[k] = results[k]
      /\ DOMAIN results' = 1..(Len(results) + 1) /\ DOMAIN results = 1..Len(results)
  BY OneResult
<1>2. ASSUME connections <= 1, NEW k \in DOMAIN results' PROVE results'[k].code # "ERR_SEQ"
  <2>1. CASE k = Len(results) + 1
    BY <1>1, <1>2, <2>1
  <2>2. CASE k \in DOMAIN results
    BY <1>1, <1>2, <2>2 DEF NoReplayYet, NoFalseReplay
  <2>. QED
    BY <1>1, <2>1, <2>2
<1>. QED
  BY <1>2 DEF NoReplayYet, NoFalseReplay

LEMMA NoReplayStep ==
  ASSUME TcpInv, StreamInv, CallInv, AnswerInv, Fresh, NoReplayYet, [Next]_vars
  PROVE  NoReplayYet'
<1>1. CASE UNCHANGED <<connections, results>>
  BY <1>1 DEF NoReplayYet, NoFalseReplay
<1>2. CASE Connect
  <2>1. results' = << >>
    BY <1>2 DEF Connect
  <2>. QED
    BY <2>1 DEF NoReplayYet, NoFalseReplay
<1>3. ASSUME NEW code \in {"TIMEOUT", "LOST"}, Raise(code) PROVE NoReplayYet'
  <2>1. connections' = connections /\ results' = Append(results, Raised(code))
    BY <1>3 DEF Raise, Finish
  <2>2. Raised(code).code # "ERR_SEQ"
    BY <1>3 DEF Raised
  <2>. QED
    BY <2>1, <2>2, NoReplayAdded
<1>4. CASE ReadHeader
  <2>1. /\ connections' = connections
        /\ results' = results \/ results' = Append(results, Raised("ERR_MAGIC"))
    BY <1>4, ReadHeaderTakes DEF readsOf
  <2>2. Raised("ERR_MAGIC").code # "ERR_SEQ"
    BY DEF Raised
  <2>. QED
    BY <1>1, <2>1, <2>2, NoReplayAdded
<1>5. CASE ReadMac
  <2>1. /\ op = "receiving" /\ toClient # << >> /\ connections' = connections
        /\ \E o : results' = Append(results, o) /\ Receives(Head(toClient), o)
    BY <1>5, ReadMacTakes DEF readsOf
  <2>2. PICK o : results' = Append(results, o) /\ Receives(Head(toClient), o)
    BY <2>1
  <2>3. ~(Current.type = "HELLO" /\ Head(toClient).type = "ERROR")
    BY <2>1, HandshakeWelcomed
  <2>4. connections <= 1 => ~(Head(toClient).seq <= lastPeerSeq)
    <3>1. Head(toClient).seq = Taken /\ Taken \in Nat /\ lastPeerSeq \in Int
      BY <2>1, HeadTaken, HeadNumbered DEF StreamInv, ClientTypeOK
    <3>2. connections <= 1 => lastPeerSeq < Taken
      BY DEF Fresh
    <3>. QED
      BY <3>1, <3>2
  <2>5. connections <= 1 => o \in {Raised("ERR_STATE"), Returned(Head(toClient))}
    BY <2>2, <2>3, <2>4 DEF Receives
  <2>6. connections <= 1 => o.code # "ERR_SEQ"
    BY <2>5 DEF Raised, Returned
  <2>. QED
    BY <2>1, <2>2, <2>6, NoReplayAdded
<1>6. ServerStep /\ UNCHANGED clientVars => UNCHANGED <<connections, results>>
  BY DEF clientVars
<1>7. \A type, payload, waiting : Send(type, payload, waiting) => UNCHANGED <<connections, results>>
  BY DEF Send
<1>8. Sent \/ CloseSocket \/ Closed \/ ReadBody \/ UNCHANGED vars
        => UNCHANGED <<connections, results>>
  BY DEF Sent, CloseSocket, Closed, ReadBody, readsOf, vars
<1>. QED
  BY <1>1, <1>2, <1>3, <1>4, <1>5, <1>6, <1>7, <1>8
     DEF Next, User, ClientStep, Request, SayBye, SendLost, RecvTimeout, RecvLost

(* On its first connection the client never takes a frame of the server for*)
(* a replay, whatever timed out before: what it skipped only makes the     *)
(* numbers that it still compares larger.                                  *)
THEOREM TcpNoReplayAtFirst == Spec => [](connections <= 1 => NoFalseReplay)
<1>1. Init => Fresh /\ NoReplayYet
  <2>. SUFFICES ASSUME Init PROVE Fresh /\ NoReplayYet
    OBVIOUS
  <2>1. lastPeerSeq = -1 /\ sent = << >> /\ toClient = << >> /\ results = << >>
    BY DEF Init, NoConnection, ClientInit
  <2>2. Taken = 0
    BY <2>1 DEF Taken
  <2>. QED
    BY <2>1, <2>2 DEF Fresh, NoReplayYet, NoFalseReplay
<1>2. TcpInv /\ StreamInv /\ CallInv /\ AnswerInv /\ Fresh /\ NoReplayYet /\ [Next]_vars
        => (Fresh /\ NoReplayYet)'
  BY FreshStep, NoReplayStep
<1>3. NoReplayYet => (connections <= 1 => NoFalseReplay)
  BY DEF NoReplayYet
<1>. QED
  BY <1>1, <1>2, <1>3, TcpInvariant, StreamInvariant, CallInvariant, AnswerInvariant, PTL
     DEF Spec

(* A client that connects once never takes a frame for a replay.           *)
THEOREM TcpNoFalseReplay ==
  ASSUME MaxConnections <= 1
  PROVE  Spec => []NoFalseReplay
<1>1. StreamInv => connections <= 1
  BY TcpClientAssumption DEF StreamInv, ClientTypeOK
<1>. QED
  BY <1>1, TcpNoReplayAtFirst, StreamInvariant, PTL
=============================================================================
