------------------------------ MODULE TcpServer ------------------------------
(***************************************************************************)
(* WirelineServer._handle: the task of one TCP connection.  The tasks share*)
(* nothing, so one connection stands for all of them.                      *)
(*                                                                         *)
(* TCP neither loses nor reorders, so each direction is a queue of what was*)
(* written and not yet read.  What does not fit in the socket buffers stays*)
(* in the writer's own buffer, and a writer over its limit waits in drain()*)
(* for the reader at the other end.                                        *)
(***************************************************************************)
EXTENDS Session

CONSTANTS
  SocketBuffer,  \* frames the operating system holds between writer and reader
  HighWater      \* further frames a writer holds before its drain() waits

ASSUME TcpServerAssumption == SocketBuffer \in Nat \ {0} /\ HighWater \in Nat

VARIABLES
  session,
  task,        \* "reading" (under wait_for), "draining", "closing", "closed"
  ending,      \* the loop breaks after the reaction that is being sent
  toServer,    \* frames, and [fault |-> code] for bytes that do not decode
  toClient,
  peerClosed,  \* the peer has closed its socket
  handled,     \* history: the frames whose handler ran, in order
  sent         \* history: the frames sent, in order

serverVars == <<session, task, ending, toServer, toClient, peerClosed, handled, sent>>

\* A connection is accepted; hello is what the peer wrote to it first.
Accept(hello) ==
  /\ session'    = NewSession(0)
  /\ task'       = "reading"
  /\ ending'     = FALSE
  /\ toServer'   = hello
  /\ toClient'   = << >>
  /\ peerClosed' = FALSE
  /\ handled'    = << >>
  /\ sent'       = << >>

NoConnection ==
  /\ session = NewSession(0) /\ task = "closed" /\ ending = FALSE
  /\ toServer = << >> /\ toClient = << >> /\ peerClosed = TRUE
  /\ handled = << >> /\ sent = << >>

\* drain() returns, and wait_closed() has flushed what was written.
CanDrain(queue) == Len(queue) <= SocketBuffer + HighWater
Flushed(queue)  == Len(queue) <= SocketBuffer

-----------------------------------------------------------------------------

\* _apply and the break behind it.  Over TCP a reaction has at most one frame.
Apply(r) ==
  /\ session'  = r.session
  /\ ending'   = r.close
  /\ toClient' = toClient \o r.frames
  /\ sent'     = sent \o r.frames
  /\ task'     = IF r.frames # << >> THEN "draining"
                 ELSE IF r.close THEN "closing" ELSE "reading"

IsFault(item) == "fault" \in DOMAIN item

ReadFrame ==
  /\ task = "reading"
  /\ toServer # << >>
  /\ ~IsFault(Head(toServer))
  /\ LET f == Head(toServer)
         r == OnFrame(session, f)
     IN  /\ Apply(r)
         /\ handled' = IF Accepted(r) THEN Append(handled, f) ELSE handled
  /\ toServer' = Tail(toServer)
  /\ UNCHANGED peerClosed

\* read_frame raises ProtocolError.
ReadFault ==
  /\ task = "reading"
  /\ toServer # << >>
  /\ IsFault(Head(toServer))
  /\ Apply(OnProtocolError(session, Head(toServer).fault))
  /\ toServer' = Tail(toServer)
  /\ UNCHANGED <<peerClosed, handled>>


\* Mutant: what was being read is dropped and the loop goes on.
TimeoutGoesOn ==
  /\ task = "reading"
  /\ toServer # << >>
  /\ toServer' = Tail(toServer)
  /\ UNCHANGED <<session, task, ending, toClient, peerClosed, handled, sent>>

\* handshake_timeout in state NEW, idle_timeout afterwards.
Timeout ==
  /\ task = "reading"
  /\ Apply(OnIdleTimeout(session))
  /\ UNCHANGED <<toServer, peerClosed, handled>>

\* The end of the stream (IncompleteReadError); or a reset, because the peer
\* closed with answers unread: what the server had not read is lost with them.
\* _send swallows the reset, and the next read raises it again.
PeerGone ==
  /\ peerClosed
  /\ \/ task = "reading" /\ toServer = << >>
     \/ task \in {"reading", "draining"} /\ toClient # << >>
  /\ task' = "closing"
  /\ UNCHANGED <<session, ending, toServer, toClient, peerClosed, handled, sent>>

\* drain() returns.
Drained ==
  /\ task = "draining"
  /\ CanDrain(toClient)
  /\ task' = IF ending THEN "closing" ELSE "reading"
  /\ UNCHANGED <<session, ending, toServer, toClient, peerClosed, handled, sent>>

\* The finally block: writer.close() and wait_closed().
WaitClosed ==
  /\ task = "closing"
  /\ Flushed(toClient) \/ peerClosed
  /\ task' = "closed"
  /\ UNCHANGED <<session, ending, toServer, toClient, peerClosed, handled, sent>>

ServerStep == ReadFrame \/ ReadFault \/ Timeout \/ PeerGone \/ Drained \/ WaitClosed

-----------------------------------------------------------------------------

(* Type invariant of a connection.                                         *)
ServerTypeOK ==
  /\ session \in Sessions
  /\ task \in {"reading", "draining", "closing", "closed"}
  /\ ending \in BOOLEAN
  /\ toServer \in Seq(Frames \cup [fault : ErrorCode])
  /\ toClient \in Seq(Frames)
  /\ peerClosed \in BOOLEAN
  /\ handled \in Seq(Frames)
  /\ sent \in Seq(Frames)

(* The loop runs exactly as long as the session is open: the task never    *)
(* waits for a frame in a session that is over (it would answer nothing to *)
(* it), and never leaves a session open that somebody was told is closed.  *)
LoopFollowsSession ==
  /\ task = "reading" => session.state \in {"NEW", "READY"}
  /\ task = "draining" => (ending <=> session.state = "CLOSED")

(* ERROR and BYE are the last words: nothing is sent or run behind them,   *)
(* however much the peer has already written (it may write ahead).         *)
LastWord ==
  \A i \in DOMAIN sent : sent[i].type \in {"ERROR", "BYE"} =>
    /\ i = Len(sent)
    /\ session.state = "CLOSED"
    /\ sent[i].type = "BYE" => handled[Len(handled)].type = "BYE"

\* What the session answers to a request it ran: PONG, ACK and ERROR get no answer.
AnswerTypes ==
  {<<"HELLO", "HELLO_ACK">>, <<"DATA", "DATA">>, <<"PING", "PONG">>, <<"BYE", "BYE">>}

Answers(frame, request) ==
  /\ <<request.type, frame.type>> \in AnswerTypes
  /\ request.type \in {"DATA", "PING"} => frame.payload = request.payload

Asked    == {i \in DOMAIN handled : handled[i].type \notin {"PONG", "ACK", "ERROR"}}
Answered == {j \in DOMAIN sent : sent[j].type # "ERROR"}

\* place says where among the answers the answer to each request is.
Places(place) ==
  /\ \A i, k \in Asked : i < k => place[i] < place[k]
  /\ \A j \in Answered : \E i \in Asked : place[i] = j
  /\ \A i \in Asked : Answers(sent[place[i]], handled[i])

(* What is sent answers what ran, one for one and in the order of arrival, *)
(* even when several frames arrive in one write; only PONG, ACK and ERROR  *)
(* have no answer, and an ERROR answers what did not run.  The numbers of  *)
(* what is sent count it, without a gap.                                   *)
AnswersInOrder ==
  /\ \E place \in [Asked -> Answered] : Places(place)
  /\ \A i \in DOMAIN sent : sent[i].seq = i - 1
=============================================================================
