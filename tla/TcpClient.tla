------------------------------ MODULE TcpClient ------------------------------
(***************************************************************************)
(* WirelineClient, used by one task.  It reads with read_frame: header,    *)
(* body and MAC by readexactly, all under one timeout.  A timeout between  *)
(* two of these reads forgets what was read: the next read_frame starts in *)
(* the middle of a frame.                                                  *)
(*                                                                         *)
(* toServer, toClient, peerClosed and task belong to the connection        *)
(* (TcpServer): this module is about the client's side of it.              *)
(***************************************************************************)
EXTENDS TcpServer

CONSTANTS
  Me,                              \* client_id
  HeaderSize, BodySize, MacSize,   \* of a payload that is not empty
  RequestTypes,                    \* what the application sends
  MaxRequests,                     \* bound: requests of the application
  MaxConnections                   \* bound: calls of connect()

ASSUME TcpClientAssumption ==
  /\ Me \in Client
  /\ HeaderSize \in Nat \ {0} /\ BodySize \in Nat \ {0} /\ MacSize \in Nat \ {0}
  /\ RequestTypes \subseteq MsgType \ {"HELLO"}
  /\ MaxRequests \in 0..(MaxSeq - 1)
  /\ MaxConnections \in Nat

VARIABLES
  state, outSeq, lastPeerSeq, sessionId,  \* the fields of that name
  op,           \* "idle"; request() in drain(), "sending", or in read_frame, "receiving";
                \* close() in drain(), "leaving", or in wait_closed(), "closing"
  got,          \* read_frame has read "nothing", the "header", the "body"
  skip,         \* bytes read of the first frame of toClient
  connections,  \* history: how often connect() was called
  issued,       \* history: the frames sent on this connection
  results       \* history: what became of each, but for the BYE of close()

clientVars == <<state, outSeq, lastPeerSeq, sessionId, op, got, skip,
                connections, issued, results>>

NoSession == -1

ClientInit ==
  /\ state = "NEW"
  /\ outSeq = 0
  /\ lastPeerSeq = -1
  /\ sessionId = NoSession
  /\ op = "idle"
  /\ got = "nothing"
  /\ skip = 0
  /\ connections = 0
  /\ issued = << >>
  /\ results = << >>

Current == issued[Len(issued)]

Raised(code)    == [code |-> code]
Returned(frame) == [code |-> "OK", frame |-> frame]

\* What the caller sees of a connection that ended: IncompleteReadError,
\* ConnectionResetError; and of asyncio.wait_for.
Outcomes == [code : ErrorCode \cup {"TIMEOUT", "LOST"}] \cup [code : {"OK"}, frame : Frames]

\* The operation ends, with this outcome.
Finish(outcome) ==
  /\ op' = "idle"
  /\ got' = "nothing"
  /\ results' = Append(results, outcome)

-----------------------------------------------------------------------------

\* _send, up to its drain().
Numbered(type, payload) == Frame(type, outSeq, payload, {})

\* A second connection starts with new streams, a new session at the server, and
\* the numbers the client had.
Connect ==
  LET hello == Numbered("HELLO", [client_id |-> Me])
  IN  /\ state \in {"NEW", "CLOSED"}
      /\ op = "idle"
      /\ connections < MaxConnections          \* bound
      /\ Accept(<< hello >>)
      /\ outSeq' = NextSeq(outSeq)
      /\ op' = "sending"
      /\ skip' = 0
      /\ connections' = connections + 1
      /\ issued' = << hello >>
      /\ results' = << >>
      /\ UNCHANGED <<state, lastPeerSeq, sessionId, got>>

Send(type, payload, waiting) ==
  LET frame == Numbered(type, payload)
  IN  /\ op = "idle"
      /\ state = "READY"
      /\ toServer' = Append(toServer, frame)
      /\ outSeq' = NextSeq(outSeq)
      /\ op' = waiting
      /\ issued' = Append(issued, frame)
      /\ UNCHANGED <<state, lastPeerSeq, sessionId, got, skip, connections, results>>
      /\ UNCHANGED <<session, task, ending, toClient, peerClosed, handled, sent>>

Request(type, payload) ==
  /\ Len(issued) <= MaxRequests                \* bound
  /\ Send(type, payload, "sending")

\* Mutant: request() does not wait for the answer.
SentAhead == IF Current.type = "HELLO" THEN "receiving" ELSE "idle"

\* What request() does when its frame has been sent.
AfterSent == "receiving"

\* drain() returns.
Sent ==
  /\ op = "sending"
  /\ CanDrain(toServer)
  /\ op' = AfterSent
  /\ state' = IF Current.type = "HELLO" THEN "HANDSHAKE" ELSE state
  /\ UNCHANGED <<outSeq, lastPeerSeq, sessionId, got, skip, connections, issued, results>>
  /\ UNCHANGED serverVars

\* The server closed with requests unread, or they arrive later: a reset.
Reset == task = "closed" /\ toServer # << >>

\* request() raises: nothing but its result is changed.
Raise(code) ==
  /\ Finish(Raised(code))
  /\ UNCHANGED <<state, outSeq, lastPeerSeq, sessionId, skip, connections, issued>>
  /\ UNCHANGED serverVars


DrainRaises == Reset

\* ConnectionResetError.
SendLost == op = "sending" /\ DrainRaises /\ Raise("LOST")

\* close(): BYE in state READY; the socket is closed behind it, and no answer read.
SayBye == Send("BYE", NoPayload, "leaving")

CloseSocket ==
  /\ \/ op = "leaving" /\ CanDrain(toServer) /\ state' = "CLOSING"
     \/ op = "leaving" /\ Reset /\ UNCHANGED state    \* raised by drain(), suppressed
     \/ op = "idle" /\ state # "READY" /\ ~peerClosed /\ UNCHANGED state
  /\ op' = "closing"
  /\ peerClosed' = TRUE
  /\ UNCHANGED <<outSeq, lastPeerSeq, sessionId, got, skip, connections, issued, results>>
  /\ UNCHANGED <<session, task, ending, toServer, toClient, handled, sent>>

Closed ==
  /\ op = "closing"
  /\ Flushed(toServer) \/ task = "closed"
  /\ op' = "idle"
  /\ state' = "CLOSED"
  /\ UNCHANGED <<outSeq, lastPeerSeq, sessionId, got, skip, connections, issued, results>>
  /\ UNCHANGED serverVars

-----------------------------------------------------------------------------

Length(payload) == IF payload = NoPayload THEN 0 ELSE BodySize
Size(f) == HeaderSize + Length(f.payload) + MacSize

\* A frame is longer than a header: reading one crosses at most one boundary.
Available(n) ==
  \/ Len(toClient) > 1
  \/ Len(toClient) = 1 /\ Size(Head(toClient)) - skip >= n

\* After a reset or the end of the stream every read fails again.
Broken == \E k \in DOMAIN results : results[k].code = "LOST"

\* The stream position moves on by n bytes.
Consume(n) ==
  LET left == Size(Head(toClient)) - skip
  IN  IF n < left
      THEN skip' = skip + n /\ UNCHANGED toClient
      ELSE skip' = n - left /\ toClient' = Tail(toClient)

readsOf == <<session, task, ending, toServer, peerClosed, handled, sent,
             outSeq, connections, issued>>

\* The first bytes of a frame are a header; no others are.
ReadHeader ==
  /\ op = "receiving"
  /\ ~Broken
  /\ got = "nothing"
  /\ Available(HeaderSize)
  /\ Consume(HeaderSize)
  /\ IF skip = 0
     THEN got' = "header" /\ UNCHANGED <<op, results>>
     ELSE Finish(Raised("ERR_MAGIC"))
  /\ UNCHANGED <<state, lastPeerSeq, sessionId>>
  /\ UNCHANGED readsOf

\* Mutant: the body is read without moving on.
ConsumeBodyInPlace == UNCHANGED <<skip, toClient>>

ConsumeBody == Consume(BodySize)

ReadBody ==
  /\ op = "receiving"
  /\ ~Broken
  /\ got = "header"
  /\ Length(Head(toClient).payload) > 0
  /\ ConsumeBody
  /\ got' = "body"
  /\ UNCHANGED <<op, results, state, lastPeerSeq, sessionId>>
  /\ UNCHANGED readsOf

\* _handshake, with the answer to HELLO.
Handshake(frame) ==
  CASE frame.type = "HELLO_ACK" ->
         /\ Finish(Returned(frame))
         /\ state' = "READY"
         /\ sessionId' = frame.payload.session_id
    [] frame.type = "ERROR" ->
         Finish(Raised(frame.payload.code)) /\ UNCHANGED <<state, sessionId>>
    [] OTHER ->
         Finish(Raised("ERR_STATE")) /\ UNCHANGED <<state, sessionId>>

\* read_frame returns, and _recv checks the number.
ReadMac ==
  LET frame == Head(toClient)
  IN  /\ op = "receiving"
      /\ ~Broken
      /\ got = "body" \/ (got = "header" /\ Length(frame.payload) = 0)
      /\ Consume(MacSize)
      /\ IF frame.seq <= lastPeerSeq
         THEN /\ Finish(Raised("ERR_SEQ"))
              /\ UNCHANGED <<state, lastPeerSeq, sessionId>>
         ELSE /\ lastPeerSeq' = frame.seq
              /\ IF Current.type = "HELLO"
                 THEN Handshake(frame)
                 ELSE Finish(Returned(frame)) /\ UNCHANGED <<state, sessionId>>
      /\ UNCHANGED readsOf

\* asyncio.wait_for cancels read_frame.
RecvTimeout == op = "receiving" /\ Raise("TIMEOUT")

\* A reset, or the end of the stream.
RecvLost ==
  /\ op = "receiving"
  /\ \/ Broken
     \/ Reset
     \/ task = "closed" /\ got = "nothing" /\ ~Available(HeaderSize)
  /\ Raise("LOST")

\* What goes on by itself once request() or close() was called.
ClientStep ==
  \/ Sent \/ SendLost
  \/ ReadHeader \/ ReadBody \/ ReadMac \/ RecvTimeout \/ RecvLost
  \/ op = "leaving" /\ CloseSocket
  \/ Closed

-----------------------------------------------------------------------------

(* Type invariant of the client.                                           *)
ClientTypeOK ==
  /\ state \in State
  /\ outSeq \in 0..MaxSeq
  /\ lastPeerSeq \in -1..MaxSeq
  /\ sessionId \in Nat \cup {NoSession}
  /\ op \in {"idle", "sending", "receiving", "leaving", "closing"}
  /\ got \in {"nothing", "header", "body"}
  /\ skip \in 0..(HeaderSize + BodySize + MacSize)
  /\ connections \in 0..MaxConnections
  /\ issued \in Seq(Frames)
  /\ results \in Seq(Outcomes)
=============================================================================
