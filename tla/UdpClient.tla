------------------------------ MODULE UdpClient -----------------------------
(***************************************************************************)
(* The stop-and-wait clients: one UdpClient per address, each used by one  *)
(* task, so that a request ends before the next one starts.                *)
(*                                                                         *)
(* The queue of received datagrams (UdpClient._queue) is part of the       *)
(* network here: a datagram waiting in it is one that arrives later.       *)
(***************************************************************************)
EXTENDS Wire

CONSTANTS
  MaxRetries,     \* max_retries
  RequestTypes,   \* what the application sends after the handshake
  MaxRequests     \* bound: requests per client, the handshake included

ASSUME UdpClientAssumption ==
  /\ MaxRetries \in Nat
  /\ RequestTypes \subseteq MsgType \ {"HELLO"}
  /\ MaxRequests \in 1..(MaxSeq + 1)     \* numbers do not wrap

VARIABLES
  state, outSeq, sessionId,  \* the fields of that name
  attempt,   \* the loop variable of request()
  issued,    \* history: the requests sent, in order
  results,   \* history: what each request() returned or raised
  c2s        \* every frame sent by each client; like s2c, nothing is removed

clientVars == <<state, outSeq, sessionId, attempt, issued, results, c2s>>

NoSession == -1

ClientInit ==
  /\ state     = [c \in Client |-> "NEW"]
  /\ outSeq    = [c \in Client |-> 0]
  /\ sessionId = [c \in Client |-> NoSession]
  /\ attempt   = [c \in Client |-> 0]
  /\ issued    = [c \in Client |-> << >>]
  /\ results   = [c \in Client |-> << >>]
  /\ c2s       = [c \in Client |-> {}]

\* request() has sent its message and has neither returned nor raised.
InFlight(c) == Len(issued[c]) > Len(results[c])

Current(c) == issued[c][Len(issued[c])]

Returned(frame) == [code |-> "OK", type |-> frame.type, payload |-> frame.payload]
Raised(code)    == [code |-> code]

-----------------------------------------------------------------------------

Send(c, request, flags) ==
  c2s' = [c2s EXCEPT ![c] = @ \cup {Frame(request.type, request.seq, request.payload, flags)}]

\* request(), up to its first wait.
Issue(c, type, payload) ==
  LET request == [seq |-> outSeq[c], type |-> type, payload |-> payload]
  IN  /\ Len(issued[c]) < MaxRequests          \* bound
      /\ Send(c, request, {"REQUIRE_ACK"})
      /\ issued'  = [issued EXCEPT ![c] = Append(@, request)]
      /\ outSeq'  = [outSeq EXCEPT ![c] = NextSeq(@)]
      /\ attempt' = [attempt EXCEPT ![c] = 0]
      /\ UNCHANGED <<sessionId, results>>

Connect(c) ==
  /\ state[c] = "NEW"
  /\ state' = [state EXCEPT ![c] = "HANDSHAKE"]
  /\ Issue(c, "HELLO", [client_id |-> c])

\* request() asks for a socket, not for a completed handshake.
Request(c, type, payload) ==
  /\ state[c] \in {"HANDSHAKE", "READY"}
  /\ ~InFlight(c)
  /\ Issue(c, type, payload)
  /\ UNCHANGED state

\* Mutant: one retry too many.
RetryOnceMore(c) ==
  /\ InFlight(c)
  /\ attempt[c] <= MaxRetries
  /\ attempt' = [attempt EXCEPT ![c] = @ + 1]
  /\ Send(c, Current(c), {"REQUIRE_ACK", "RETRANSMIT"})
  /\ UNCHANGED <<state, outSeq, sessionId, issued, results>>

\* Mutant: retries are not counted.
RetryUncounted(c) ==
  /\ InFlight(c)
  /\ attempt[c] < MaxRetries
  /\ Send(c, Current(c), {"REQUIRE_ACK", "RETRANSMIT"})
  /\ UNCHANGED <<state, outSeq, sessionId, attempt, issued, results>>

\* No answer within the timeout: the same message again, marked as such.
Retry(c) ==
  /\ InFlight(c)
  /\ attempt[c] < MaxRetries
  /\ attempt' = [attempt EXCEPT ![c] = @ + 1]
  /\ Send(c, Current(c), {"REQUIRE_ACK", "RETRANSMIT"})
  /\ UNCHANGED <<state, outSeq, sessionId, issued, results>>

\* No answer to the last attempt either.
GiveUp(c) ==
  /\ InFlight(c)
  /\ attempt[c] = MaxRetries
  /\ results' = [results EXCEPT ![c] = Append(@, Raised("ERR_TIMEOUT"))]
  /\ UNCHANGED <<state, outSeq, sessionId, attempt, issued, c2s>>

Timeout(c) == Retry(c) \/ GiveUp(c)

\* Mutant: any ACK answers the request in flight.
AnswersAny(frames, seq) ==
  /\ frames[1].type = "ACK"
  /\ Decode(frames[1].payload, "ack_seq") = "OK"

\* An answer starts with an ACK naming the request in flight.  Other datagrams
\* are dropped: they are stuttering steps.
AnswersSeq(frames, seq) ==
  /\ frames[1].type = "ACK"
  /\ Decode(frames[1].payload, "ack_seq") = "OK"
  /\ frames[1].payload.ack_seq = seq

\* The frames of one datagram reach _await_reply; the last one is the reply.
AwaitReply(c, frames) ==
  LET reply == frames[Len(frames)]
  IN  /\ InFlight(c)
      /\ AnswersSeq(frames, Current(c).seq)
      /\ results' = [results EXCEPT ![c] =
           Append(@, IF reply.type = "ERROR" THEN Raised(reply.payload.code)
                     ELSE Returned(reply))]
      /\ IF Current(c).type = "HELLO" /\ reply.type = "HELLO_ACK"  \* connect() goes on
         THEN /\ state' = [state EXCEPT ![c] = "READY"]
              /\ sessionId' = [sessionId EXCEPT ![c] = reply.payload.session_id]
         ELSE UNCHANGED <<state, sessionId>>
      /\ UNCHANGED <<outSeq, attempt, issued, c2s>>

\* close() tells the server nothing.
Close(c) ==
  /\ state[c] \in {"HANDSHAKE", "READY"}
  /\ ~InFlight(c)
  /\ state' = [state EXCEPT ![c] = "CLOSED"]
  /\ UNCHANGED <<outSeq, sessionId, attempt, issued, results, c2s>>

-----------------------------------------------------------------------------

(* Type invariant of the clients.                                          *)
ClientTypeOK ==
  /\ state \in [Client -> {"NEW", "HANDSHAKE", "READY", "CLOSED"}]
  /\ outSeq \in [Client -> 0..MaxSeq]
  /\ sessionId \in [Client -> Nat \cup {NoSession}]
  /\ attempt \in [Client -> 0..MaxRetries]
  /\ issued \in [Client -> Seq([seq : 0..MaxSeq, type : MsgType, payload : Payload])]
  /\ results \in [Client -> Seq(      [code : {"OK"}, type : MsgType, payload : Payload]
                                 \cup [code : ErrorCode])]
  /\ c2s \in [Client -> SUBSET Frames]
=============================================================================
