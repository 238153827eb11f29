------------------------------ MODULE UdpTasks ------------------------------
(***************************************************************************)
(* One UdpClient used by several tasks at once, which its docstring does   *)
(* not foresee and its code does not prevent.  The requests are numbered by*)
(* one counter, and the tasks take their answers out of one queue: a task  *)
(* drops the datagrams that answer another's request.  Any task may close  *)
(* the client while others wait.                                           *)
(***************************************************************************)
EXTENDS UdpServer

CONSTANTS
  Self,         \* the client's address
  Task,         \* the tasks that use it
  MaxRetries,   \* max_retries
  RequestTypes, \* what they send after the handshake
  MaxRequests,  \* bound: requests in all
  MaxQueue      \* bound: datagrams that wait in the queue

ASSUME UdpTasksAssumption ==
  /\ Self \in Client
  /\ MaxRetries \in Nat /\ MaxQueue \in Nat
  /\ RequestTypes \subseteq MsgType \ {"HELLO"}
  /\ MaxRequests \in 1..MaxSeq           \* numbers do not wrap

VARIABLES
  state, outSeq,  \* the fields of that name
  transport,      \* "none" before connect(), "open", "closed"
  queue,          \* _queue
  call,           \* what each task is doing: its request() and the attempt, or Idle
  returned,       \* history: the requests that ended, each with what came out
  c2s             \* every frame sent; nothing is removed

clientVars == <<state, outSeq, transport, queue, call, returned, c2s>>
vars == <<peers, s2c, ran, state, outSeq, transport, queue, call, returned, c2s>>

Idle == [attempt |-> -1]

Waiting(t) == call[t] # Idle

Init ==
  /\ ServerInit
  /\ state = "NEW" /\ outSeq = 0 /\ transport = "none" /\ queue = << >>
  /\ call = [t \in Task |-> Idle]
  /\ returned = {} /\ c2s = {}

-----------------------------------------------------------------------------

\* What is sent on a closed transport goes nowhere.
Send(request, flags) ==
  c2s' = IF transport = "closed" THEN c2s
         ELSE c2s \cup {Frame(request.type, request.seq, request.payload, flags)}

\* request(), up to its first wait.  Nothing asks whether the client is ready or closed.
Request(t, type, payload) ==
  LET request == [seq |-> outSeq, type |-> type, payload |-> payload]
  IN  /\ ~Waiting(t)
      /\ outSeq < MaxRequests       \* bound
      /\ IF type = "HELLO"          \* connect(), called once
         THEN transport = "none" /\ transport' = "open" /\ state' = "HANDSHAKE"
         ELSE transport # "none" /\ UNCHANGED <<transport, state>>
      /\ Send(request, {"REQUIRE_ACK"})
      /\ outSeq' = NextSeq(outSeq)
      /\ call' = [call EXCEPT ![t] = [request |-> request, attempt |-> 0]]
      /\ UNCHANGED <<queue, returned>>

End(t, result) ==
  /\ call' = [call EXCEPT ![t] = Idle]
  /\ returned' = returned \cup {[request |-> call[t].request, result |-> result]}

\* Mutant: one retry too many.
MayRetryOnceMore(t) == Waiting(t) /\ call[t].attempt <= MaxRetries

MayRetry(t) == Waiting(t) /\ call[t].attempt < MaxRetries

Retry(t) ==
  /\ MayRetry(t)
  /\ Send(call[t].request, {"REQUIRE_ACK", "RETRANSMIT"})
  /\ call' = [call EXCEPT ![t].attempt = @ + 1]
  /\ UNCHANGED <<state, outSeq, transport, queue, returned>>

\* Mutant: a closed client's waits are left alone.
MustGiveUpOpen(t) == Waiting(t) /\ call[t].attempt = MaxRetries /\ transport = "open"

MustGiveUp(t) == Waiting(t) /\ call[t].attempt = MaxRetries

GiveUp(t) ==
  /\ MustGiveUp(t)
  /\ End(t, [code |-> "ERR_TIMEOUT"])
  /\ UNCHANGED <<state, outSeq, transport, queue, c2s>>

\* wait_for expires.
Timeout(t) == Retry(t) \/ GiveUp(t)

\* datagram_received.
Receive ==
  /\ transport = "open"
  /\ Len(queue) < MaxQueue          \* bound
  /\ \E d \in s2c[Self] : queue' = Append(queue, d.frames)
  /\ UNCHANGED <<state, outSeq, transport, call, returned, c2s>>

\* Mutant: whoever takes a datagram takes it for its answer.
AnswersAny(frames, seq) == frames[1].type = "ACK"

Answers(frames, seq) == frames[1].type = "ACK" /\ frames[1].payload.ack_seq = seq

\* _await_reply takes the next datagram, and drops it if it answers another request.
\* connect() then sets READY, also on a client that was closed while it waited.
Take(t) ==
  LET frames == Head(queue)
      reply  == frames[Len(frames)]
  IN  /\ Waiting(t)
      /\ queue # << >>
      /\ queue' = Tail(queue)
      /\ IF Answers(frames, call[t].request.seq)
         THEN /\ End(t, IF reply.type = "ERROR" THEN [code |-> reply.payload.code]
                        ELSE [code |-> "OK", type |-> reply.type, payload |-> reply.payload])
              /\ state' = IF call[t].request.type = "HELLO" /\ reply.type = "HELLO_ACK"
                          THEN "READY" ELSE state
         ELSE UNCHANGED <<state, call, returned>>
      /\ UNCHANGED <<outSeq, transport, c2s>>

Close ==
  /\ transport = "open"
  /\ transport' = "closed"
  /\ state' = "CLOSED"
  /\ UNCHANGED <<outSeq, queue, call, returned, c2s>>

TaskStep(t) ==
  \/ Request(t, "HELLO", [client_id |-> Self])
  \/ \E type \in RequestTypes, d \in Data : Request(t, type, [data |-> d])
  \/ Timeout(t)
  \/ Take(t)

Next ==
  \/ ((\E t \in Task : TaskStep(t)) \/ Receive \/ Close) /\ UNCHANGED serverVars
  \/ (\E f \in c2s : OnDatagram(Self, f)) /\ UNCHANGED clientVars

Spec == Init /\ [][Next]_vars

\* The timer of every wait that is running expires, unless its task is served first.
FairSpec == Spec /\ \A t \in Task : WF_vars(Timeout(t) /\ UNCHANGED serverVars)

-----------------------------------------------------------------------------

(* Type invariant of the client and its tasks.                             *)
TypeOK ==
  LET Requests == [seq : 0..MaxSeq, type : MsgType, payload : Payload]
      Results  == [code : {"OK"}, type : MsgType, payload : Payload] \cup [code : ErrorCode]
  IN  /\ state \in {"NEW", "HANDSHAKE", "READY", "CLOSED"}
      /\ outSeq \in 0..MaxRequests
      /\ transport \in {"none", "open", "closed"}
      /\ queue \in Seq(Seq(Frames))
      /\ call \in [Task -> {Idle} \cup [request : Requests, attempt : 0..MaxRetries]]
      /\ returned \subseteq [request : Requests, result : Results]
      /\ c2s \subseteq Frames

(* Also when tasks share the queue, a request() that returns hands its     *)
(* caller the answer of a run of this very request (_await_reply); and none*)
(* ends twice.                                                             *)
AnswersOwnRequest ==
  \A e \in returned :
    /\ e.result.code = "OK" => \E i \in DOMAIN ran[Self] :
         /\ ran[Self][i] = Run(ran[Self][i].session, e.request)
         /\ [type |-> e.result.type, payload |-> e.result.payload] = Answer(ran[Self][i])
    /\ \A o \in returned : o.request.seq = e.request.seq => o = e
    /\ \A t \in Task : Waiting(t) => call[t].request.seq # e.request.seq

(* With several requests in flight one may overtake another, and the late  *)
(* one is refused as stale.  The refusal is true: what a session refuses it*)
(* has not run, if its window holds every request there was (an older one  *)
(* that did run would be answered from it).                                *)
RefusedDidNotRun ==
  \A d \in s2c[Self] : \A n \in 0..(outSeq - 1) :
    /\ outSeq <= DedupSize
    /\ Acknowledges(d, n)
    /\ LastFrame(d).type = "ERROR"
    => ~\E i \in DOMAIN ran[Self] : ran[Self][i].session = d.session /\ ran[Self][i].seq = n

(* Every request() ends: a datagram that another task took and dropped, or *)
(* a close() under it, costs an answer but not the wait.                   *)
CallsEnd == \A t \in Task : Waiting(t) ~> ~Waiting(t)
=============================================================================
