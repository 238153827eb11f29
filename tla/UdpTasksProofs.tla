--------------------------- MODULE UdpTasksProofs ---------------------------
(***************************************************************************)
(* One client shared by several tasks: what the one counter and the one    *)
(* window still guarantee, for any number of tasks, retries and places in  *)
(* the queue.                                                              *)
(***************************************************************************)
EXTENDS UdpTasks, UdpServerProofs

Requests == [seq : 0..MaxSeq, type : MsgType, payload : Payload]
Outcomes == [code : {"OK"}, type : MsgType, payload : Payload] \cup [code : ErrorCode]
Calls    == [request : Requests, attempt : 0..MaxRetries]
Datagrams == [session : Nat, frames : Seq(Frames)]

\* The requests of calls that are waiting, and of those that ended.
Made == {q \in Requests : \/ \E t \in Task : Waiting(t) /\ call[t].request = q
                          \/ \E e \in returned : e.request = q}

MadeBelow == \A q \in Made : q.seq < outSeq

OneCallEach ==
  \A t, u \in Task :
    Waiting(t) /\ Waiting(u) /\ call[t].request.seq = call[u].request.seq => t = u

SentWasMade ==
  \A f \in c2s : \E q \in Made : f.seq = q.seq /\ f.type = q.type /\ f.payload = q.payload

RunsWereMade ==
  \A i \in DOMAIN ran[Self] : \E q \in Made : ran[Self][i] = Run(ran[Self][i].session, q)

QueueWasSent == \A i \in DOMAIN queue : \E d \in s2c[Self] : queue[i] = d.frames

RefusalsReadable ==
  \A d \in s2c[Self] :
    /\ d.frames # << >>
    /\ \A n \in 0..MaxSeq : Acknowledges(d, n) /\ LastFrame(d).type = "ERROR" =>
         \E code \in ErrorCode : LastFrame(d).payload = [code |-> code]

PeerNotAhead == peers[Self].session.lastPeerSeq < outSeq

\* A window forgets a run only when numbers have gone beyond its size.
NothingForgotten ==
  LET peer == peers[Self]
  IN  /\ Len(peer.window) <= peer.session.lastPeerSeq + 1
      /\ \A i \in DOMAIN ran[Self] : ran[Self][i].session = peer.session.id =>
           \/ Cached(peer.window, ran[Self][i].seq)
           \/ peer.session.lastPeerSeq >= DedupSize

\* A session that said ERROR is gone.
ErrorIsLast ==
  \A d \in s2c[Self] : LastFrame(d).type = "ERROR" => d.session < peers[Self].session.id

TasksInv ==
  /\ ServerInv
  /\ TypeOK
  /\ MadeBelow
  /\ OneCallEach
  /\ SentWasMade
  /\ RunsWereMade
  /\ QueueWasSent
  /\ RefusalsReadable
  /\ PeerNotAhead
  /\ NothingForgotten
  /\ ErrorIsLast
  /\ AnswersOwnRequest
  /\ RefusedDidNotRun

-----------------------------------------------------------------------------

LEMMA TypeFacts ==
  TypeOK <=> /\ state \in {"NEW", "HANDSHAKE", "READY", "CLOSED"}
             /\ outSeq \in 0..MaxRequests
             /\ transport \in {"none", "open", "closed"}
             /\ queue \in Seq(Seq(Frames))
             /\ call \in [Task -> {Idle} \cup Calls]
             /\ returned \subseteq [request : Requests, result : Outcomes]
             /\ c2s \subseteq Frames
BY DEF TypeOK, Requests, Outcomes, Calls

LEMMA TypeStep ==
  ASSUME state' \in {"NEW", "HANDSHAKE", "READY", "CLOSED"}, outSeq' \in 0..MaxRequests,
         transport' \in {"none", "open", "closed"}, queue' \in Seq(Seq(Frames)),
         call' \in [Task -> {Idle} \cup Calls],
         returned' \subseteq [request : Requests, result : Outcomes], c2s' \subseteq Frames
  PROVE  TypeOK'
BY DEF TypeOK, Requests, Outcomes, Calls

LEMMA CallType ==
  ASSUME TypeOK, NEW t \in Task, Waiting(t)
  PROVE  call[t] \in Calls /\ call[t].request \in Requests
BY TypeFacts DEF Waiting, Calls

LEMMA InitInv == Init => TasksInv
<1>. SUFFICES ASSUME Init PROVE TasksInv
  OBVIOUS
<1>1. ServerInv
  BY ServerInitInv DEF Init
<1>2. /\ peers[Self] = NewPeer(0) /\ s2c[Self] = {} /\ ran[Self] = << >>
      /\ outSeq = 0 /\ queue = << >> /\ returned = {} /\ c2s = {}
      /\ \A t \in Task : call[t] = Idle
  BY UdpTasksAssumption DEF Init, ServerInit
<1>3. TypeOK
  <2>1. /\ state = "NEW" /\ outSeq = 0 /\ transport = "none" /\ queue = << >>
        /\ call = [t \in Task |-> Idle] /\ returned = {} /\ c2s = {}
    BY DEF Init
  <2>2. 0 \in 0..MaxRequests
    BY UdpTasksAssumption, MaxSeqAssumption
  <2>. HIDE DEF Init
  <2>. QED
    BY <2>1, <2>2, TypeFacts
<1>4. \A t \in Task : ~Waiting(t)
  BY <1>2 DEF Waiting
<1>5. Made = {}
  BY <1>2, <1>4 DEF Made
<1>6. /\ NewPeer(0).session.lastPeerSeq = -1 /\ NewPeer(0).window = << >>
  BY DEF NewPeer, NewSession
<1>7. MadeBelow /\ OneCallEach /\ SentWasMade /\ RunsWereMade /\ QueueWasSent
  BY <1>2, <1>4, <1>5 DEF MadeBelow, OneCallEach, SentWasMade, RunsWereMade, QueueWasSent
<1>8. RefusalsReadable /\ PeerNotAhead /\ NothingForgotten /\ ErrorIsLast
  BY <1>2, <1>6 DEF RefusalsReadable, PeerNotAhead, NothingForgotten, ErrorIsLast
<1>9. AnswersOwnRequest /\ RefusedDidNotRun
  BY <1>2 DEF AnswersOwnRequest, RefusedDidNotRun
<1>. QED
  BY <1>1, <1>3, <1>7, <1>8, <1>9 DEF TasksInv

-----------------------------------------------------------------------------
(* Steps of the tasks.                                                     *)

\* What a step of the client cannot disturb.
LEMMA ClientSide ==
  ASSUME TasksInv, UNCHANGED serverVars, TypeOK',
         outSeq <= outSeq', Made \subseteq Made', MadeBelow', OneCallEach', SentWasMade',
         QueueWasSent', AnswersOwnRequest'
  PROVE  TasksInv'
<1>1. peers' = peers /\ s2c' = s2c /\ ran' = ran
  BY DEF serverVars
<1>2. ServerInv'
  BY StutterStep DEF TasksInv
<1>3. outSeq \in Nat /\ outSeq' \in Nat
  <2>1. MaxRequests \in Nat
    BY UdpTasksAssumption, MaxSeqAssumption
  <2>. QED
    BY <2>1, TypeFacts DEF TasksInv, TypeOK
<1>4. RunsWereMade' /\ RefusalsReadable' /\ NothingForgotten' /\ ErrorIsLast'
  BY <1>1 DEF TasksInv, RunsWereMade, RefusalsReadable, NothingForgotten, ErrorIsLast,
     Acknowledges, LastFrame
<1>5. PeerNotAhead'
  <2>1. peers \in [Client -> Peers]
    BY DEF TasksInv, ServerInv, ServerTypeOK, Peers, Entries
  <2>2. peers[Self].session.lastPeerSeq \in Int
    BY <2>1, UdpTasksAssumption, MaxSeqAssumption DEF Peers, Sessions
  <2>. QED
    BY <1>1, <1>3, <2>2 DEF TasksInv, PeerNotAhead
<1>6. RefusedDidNotRun'
  <2>. SUFFICES ASSUME NEW d \in s2c[Self], NEW n \in 0..(outSeq' - 1),
                       outSeq' <= DedupSize, Acknowledges(d, n), LastFrame(d).type = "ERROR",
                       NEW i \in DOMAIN ran[Self],
                       ran[Self][i].session = d.session, ran[Self][i].seq = n
                PROVE  FALSE
    BY <1>1 DEF RefusedDidNotRun, Acknowledges, LastFrame
  <2>1. PICK q \in Made : ran[Self][i] = Run(ran[Self][i].session, q)
    BY DEF TasksInv, RunsWereMade
  <2>2. q.seq = n /\ q.seq < outSeq
    BY <2>1 DEF Run, TasksInv, MadeBelow
  <2>3. n \in 0..(outSeq - 1) /\ outSeq <= DedupSize
    BY <1>3, <2>2, DedupSizeAssumption
  <2>. QED
    BY <2>3 DEF TasksInv, RefusedDidNotRun
<1>. QED
  BY <1>2, <1>4, <1>5, <1>6 DEF TasksInv

\* A request is made: its number is new.
LEMMA RequestKeeps ==
  ASSUME TasksInv, NEW t \in Task, NEW type \in MsgType, NEW payload \in Payload,
         Request(t, type, payload), UNCHANGED serverVars
  PROVE  TasksInv'
<1>. DEFINE q == [seq |-> outSeq, type |-> type, payload |-> payload]
            f(flags) == Frame(type, outSeq, payload, flags)
            item == [request |-> q, attempt |-> 0]
<1>1. /\ ~Waiting(t) /\ outSeq < MaxRequests
      /\ c2s' = c2s \/ c2s' = c2s \cup {f({"REQUIRE_ACK"})}
      /\ outSeq' = NextSeq(outSeq)
      /\ call' = [call EXCEPT ![t] = item]
      /\ queue' = queue /\ returned' = returned
      /\ state' \in {state, "HANDSHAKE"} /\ transport' \in {transport, "open"}
  BY DEF Request, Send
<1>2. outSeq \in Nat /\ outSeq < MaxSeq /\ MaxSeq \in Nat /\ MaxRequests \in Nat
  BY <1>1, TypeFacts, UdpTasksAssumption, MaxSeqAssumption DEF TasksInv
<1>3. outSeq' = outSeq + 1
  BY <1>1, <1>2 DEF NextSeq
<1>4. q \in Requests /\ item \in Calls /\ item # Idle
  <2>1. q \in Requests
    BY <1>2 DEF Requests
  <2>2. 0 \in 0..MaxRetries
    BY UdpTasksAssumption
  <2>. HIDE DEF q
  <2>3. item \in Calls
    BY <2>1, <2>2 DEF Calls
  <2>4. item.attempt # Idle.attempt
    BY DEF Idle
  <2>. QED
    BY <2>1, <2>3, <2>4
<1>5. f({"REQUIRE_ACK"}) \in Frames
  BY <1>2 DEF Frames, Frame, Flag
<1>6. q.seq = outSeq /\ item.request = q
  OBVIOUS
<1>7. /\ f({"REQUIRE_ACK"}).seq = q.seq /\ f({"REQUIRE_ACK"}).type = q.type
      /\ f({"REQUIRE_ACK"}).payload = q.payload
  BY DEF Frame
<1>. HIDE DEF q, f, item
<1>8. TypeOK'
  <2>1. call' \in [Task -> {Idle} \cup Calls]
    BY <1>1, <1>4, TypeFacts DEF TasksInv
  <2>2. outSeq' \in 0..MaxRequests
    BY <1>1, <1>2, <1>3
  <2>3. /\ state' \in {"NEW", "HANDSHAKE", "READY", "CLOSED"}
        /\ transport' \in {"none", "open", "closed"}
        /\ queue' \in Seq(Seq(Frames))
        /\ returned' \subseteq [request : Requests, result : Outcomes]
        /\ c2s' \subseteq Frames
    BY <1>1, <1>5, TypeFacts DEF TasksInv
  <2>. QED
    BY <2>1, <2>2, <2>3, TypeStep
<1>9. /\ call'[t] = item
      /\ \A u \in Task \ {t} : call'[u] = call[u]
  BY <1>1, TypeFacts DEF TasksInv
<1>10. /\ Waiting(t)'
       /\ \A u \in Task \ {t} : Waiting(u)' <=> Waiting(u)
  BY <1>4, <1>9 DEF Waiting
<1>11. \A x : x \in Made' <=> x \in Made \/ x = q
  BY <1>1, <1>4, <1>6, <1>9, <1>10 DEF Made
<1>12. \A u \in Task \ {t} : Waiting(u) => call[u].request.seq < outSeq
  BY CallType DEF TasksInv, MadeBelow, Made
<1>13. \A e \in returned : e.request.seq < outSeq
  BY TypeFacts DEF TasksInv, MadeBelow, Made
<1>14. MadeBelow'
  <2>1. \A x \in Made : x.seq \in Nat
    BY MaxSeqAssumption DEF Made, Requests
  <2>. QED
    BY <1>2, <1>3, <1>6, <1>11, <2>1 DEF TasksInv, MadeBelow
<1>15. OneCallEach'
  BY <1>2, <1>6, <1>9, <1>10, <1>12 DEF TasksInv, OneCallEach
<1>16. SentWasMade'
  BY <1>1, <1>7, <1>11 DEF TasksInv, SentWasMade
<1>17. QueueWasSent'
  BY <1>1 DEF TasksInv, QueueWasSent, serverVars
<1>18. AnswersOwnRequest'
  <2>1. ran' = ran
    BY DEF serverVars
  <2>2. \A e \in returned : \A u \in Task : Waiting(u)' => call'[u].request.seq # e.request.seq
    <3>1. ASSUME NEW e \in returned PROVE call'[t].request.seq # e.request.seq
      <4>1. e.request.seq < outSeq /\ call'[t].request.seq = outSeq
        BY <1>6, <1>9, <1>13
      <4>. QED
        BY <1>2, <4>1
    <3>2. ASSUME NEW e \in returned, NEW u \in Task \ {t}, Waiting(u)'
          PROVE  call'[u].request.seq # e.request.seq
      BY <1>9, <1>10, <3>2 DEF TasksInv, AnswersOwnRequest
    <3>. QED
      BY <3>1, <3>2
  <2>. QED
    BY <1>1, <2>1, <2>2 DEF TasksInv, AnswersOwnRequest
<1>. QED
  BY <1>2, <1>3, <1>8, <1>11, <1>14, <1>15, <1>16, <1>17, <1>18, ClientSide

\* A call goes on, or a datagram is queued: nothing is made and nothing ends.
LEMMA CallsGoOn ==
  ASSUME TasksInv, UNCHANGED serverVars, TypeOK',
         outSeq' = outSeq, returned' = returned,
         \A t \in Task : /\ Waiting(t)' <=> Waiting(t)
                         /\ Waiting(t) => call'[t].request = call[t].request,
         SentWasMade', QueueWasSent'
  PROVE  TasksInv'
<1>1. Made' = Made
  BY DEF Made
<1>2. MadeBelow' /\ OneCallEach'
  BY <1>1 DEF TasksInv, MadeBelow, OneCallEach
<1>3. AnswersOwnRequest'
  BY DEF TasksInv, AnswersOwnRequest, serverVars
<1>4. outSeq <= outSeq'
  BY UdpTasksAssumption, MaxSeqAssumption, TypeFacts DEF TasksInv
<1>. QED
  BY <1>1, <1>2, <1>3, <1>4, ClientSide

LEMMA RetryKeeps ==
  ASSUME TasksInv, NEW t \in Task, Retry(t), UNCHANGED serverVars
  PROVE  TasksInv'
<1>. DEFINE q == call[t].request
            n == call[t].attempt
            f(flags) == Frame(q.type, q.seq, q.payload, flags)
            again == [call[t] EXCEPT !.attempt = n + 1]
            flags == {"REQUIRE_ACK", "RETRANSMIT"}
<1>1. /\ Waiting(t) /\ n < MaxRetries
      /\ c2s' = c2s \/ c2s' = c2s \cup {f(flags)}
      /\ call' = [call EXCEPT ![t] = again]
      /\ state' = state /\ outSeq' = outSeq /\ transport' = transport
      /\ queue' = queue /\ returned' = returned
  BY DEF Retry, MayRetry, Send
<1>2. call[t] \in Calls /\ q \in Requests /\ q \in Made
  BY <1>1, CallType DEF TasksInv, Made
<1>3. again \in Calls /\ again.request = q
  <2>1. n + 1 \in 0..MaxRetries
    BY <1>1, <1>2, UdpTasksAssumption DEF Calls
  <2>. QED
    BY <1>2, <2>1 DEF Calls
<1>4. again # Idle
  <2>1. again.attempt = n + 1 /\ n \in 0..MaxRetries
    BY <1>2 DEF Calls
  <2>2. again.attempt # -1
    BY <2>1, UdpTasksAssumption
  <2>3. Idle.attempt = -1
    BY DEF Idle
  <2>. HIDE DEF again
  <2>. QED
    BY <2>2, <2>3
<1>5. /\ f(flags) \in Frames
      /\ f(flags).seq = q.seq /\ f(flags).type = q.type /\ f(flags).payload = q.payload
  BY <1>2 DEF Frames, Frame, Flag, Requests
<1>. HIDE DEF q, f, again, flags
<1>6. call' \in [Task -> {Idle} \cup Calls]
  BY <1>1, <1>3, TypeFacts DEF TasksInv
<1>7. TypeOK'
  BY <1>1, <1>5, <1>6, TypeFacts, TypeStep DEF TasksInv
<1>8. call'[t] = again /\ \A u \in Task \ {t} : call'[u] = call[u]
  BY <1>1, TypeFacts DEF TasksInv
<1>9. \A u \in Task : /\ Waiting(u)' <=> Waiting(u)
                      /\ Waiting(u) => call'[u].request = call[u].request
  BY <1>1, <1>3, <1>4, <1>8 DEF Waiting, q
<1>10. Made' = Made
  BY <1>1, <1>9 DEF Made
<1>11. SentWasMade'
  BY <1>1, <1>2, <1>5, <1>10 DEF TasksInv, SentWasMade
<1>12. QueueWasSent'
  BY <1>1 DEF TasksInv, QueueWasSent, serverVars
<1>. QED
  BY <1>1, <1>7, <1>9, <1>11, <1>12, CallsGoOn

LEMMA ReceiveKeeps ==
  ASSUME TasksInv, Receive, UNCHANGED serverVars
  PROVE  TasksInv'
<1>1. PICK d \in s2c[Self] : queue' = Append(queue, d.frames)
  BY DEF Receive
<1>2. /\ state' = state /\ outSeq' = outSeq /\ transport' = transport /\ call' = call
      /\ returned' = returned /\ c2s' = c2s
  BY DEF Receive
<1>3. d.frames \in Seq(Frames)
  <2>1. s2c \in [Client -> SUBSET Datagrams]
    BY DEF TasksInv, ServerInv, ServerTypeOK, Datagrams
  <2>2. d \in Datagrams
    BY <2>1, UdpTasksAssumption
  <2>. QED
    BY <2>2 DEF Datagrams
<1>4. queue \in Seq(Seq(Frames))
  BY TypeFacts DEF TasksInv
<1>. DEFINE x == d.frames
<1>5. /\ queue' \in Seq(Seq(Frames))
      /\ \A i \in DOMAIN queue' : (i \in DOMAIN queue /\ queue'[i] = queue[i]) \/ queue'[i] = x
  <2>. HIDE DEF x
  <2>. QED
    BY <1>1, <1>3, <1>4, AppendFacts DEF x
<1>6. TypeOK'
  BY <1>2, <1>5, TypeFacts, TypeStep DEF TasksInv
<1>7. QueueWasSent'
  BY <1>5 DEF TasksInv, QueueWasSent, serverVars
<1>8. \A t \in Task : /\ Waiting(t)' <=> Waiting(t)
                      /\ Waiting(t) => call'[t].request = call[t].request
  BY <1>2 DEF Waiting
<1>9. SentWasMade'
  BY <1>2 DEF TasksInv, SentWasMade, Made, Waiting
<1>. QED
  BY <1>2, <1>6, <1>7, <1>8, <1>9, CallsGoOn

LEMMA CloseKeeps ==
  ASSUME TasksInv, Close, UNCHANGED serverVars
  PROVE  TasksInv'
<1>1. /\ state' = "CLOSED" /\ transport' = "closed" /\ outSeq' = outSeq /\ queue' = queue
      /\ call' = call /\ returned' = returned /\ c2s' = c2s
  BY DEF Close
<1>2. TypeOK'
  BY <1>1, TypeFacts, TypeStep DEF TasksInv
<1>3. \A t \in Task : /\ Waiting(t)' <=> Waiting(t)
                      /\ Waiting(t) => call'[t].request = call[t].request
  BY <1>1 DEF Waiting
<1>4. SentWasMade' /\ QueueWasSent'
  BY <1>1 DEF TasksInv, SentWasMade, QueueWasSent, Made, Waiting, serverVars
<1>. QED
  BY <1>1, <1>2, <1>3, <1>4, CallsGoOn

\* A call ends: its number is that of no other call, and of none that ended.
LEMMA EndKeeps ==
  ASSUME TasksInv, NEW t \in Task, Waiting(t), NEW result \in Outcomes, End(t, result),
         UNCHANGED <<outSeq, transport, c2s>>, UNCHANGED serverVars,
         state' \in {"NEW", "HANDSHAKE", "READY", "CLOSED"},
         queue' \in Seq(Seq(Frames)), QueueWasSent',
         result.code = "OK" => \E i \in DOMAIN ran[Self] :
           /\ ran[Self][i] = Run(ran[Self][i].session, call[t].request)
           /\ [type |-> result.type, payload |-> result.payload] = Answer(ran[Self][i])
  PROVE  TasksInv'
<1>. DEFINE q == call[t].request
            e == [request |-> q, result |-> result]
<1>1. /\ call' = [call EXCEPT ![t] = Idle] /\ returned' = returned \cup {e}
      /\ outSeq' = outSeq /\ transport' = transport /\ c2s' = c2s /\ ran' = ran
  BY DEF End, serverVars
<1>2. q \in Requests
  BY CallType DEF TasksInv
<1>3. e \in [request : Requests, result : Outcomes] /\ e.request = q /\ e.result = result
  BY <1>2
<1>4. /\ call' \in [Task -> {Idle} \cup Calls]
      /\ call'[t] = Idle /\ \A u \in Task \ {t} : call'[u] = call[u]
  BY <1>1, TypeFacts DEF TasksInv
<1>. HIDE DEF e
<1>5. TypeOK'
  BY <1>1, <1>3, <1>4, TypeFacts, TypeStep DEF TasksInv
<1>6. ~Waiting(t)' /\ \A u \in Task \ {t} : Waiting(u)' <=> Waiting(u)
  BY <1>4 DEF Waiting
<1>7. Made' = Made
  <2>1. ASSUME NEW x \in Requests
        PROVE  x \in Made' <=> x \in Made
    BY <1>1, <1>3, <1>4, <1>6, <2>1 DEF Made
  <2>. QED
    BY <2>1 DEF Made
<1>8. MadeBelow' /\ SentWasMade'
  BY <1>1, <1>7 DEF TasksInv, MadeBelow, SentWasMade
<1>9. OneCallEach'
  BY <1>4, <1>6 DEF TasksInv, OneCallEach
<1>10. AnswersOwnRequest'
  <2>1. ASSUME NEW a \in returned', a.result.code = "OK"
        PROVE  \E i \in DOMAIN ran[Self] :
                 /\ ran[Self][i] = Run(ran[Self][i].session, a.request)
                 /\ [type |-> a.result.type, payload |-> a.result.payload] = Answer(ran[Self][i])
    BY <1>1, <1>3, <2>1 DEF TasksInv, AnswersOwnRequest, e
  <2>2. \A a \in returned : a.request.seq # q.seq
    BY DEF TasksInv, AnswersOwnRequest
  <2>3. \A a, o \in returned' : o.request.seq = a.request.seq => o = a
    <3>1. \A a, o \in returned : o.request.seq = a.request.seq => o = a
      BY DEF TasksInv, AnswersOwnRequest
    <3>2. returned' = returned \cup {e} /\ e.request.seq = q.seq
      BY <1>1, <1>3
    <3>. QED
      BY <2>2, <3>1, <3>2
  <2>4. \A u \in Task \ {t} : Waiting(u) => call[u].request.seq # q.seq
    BY DEF TasksInv, OneCallEach
  <2>5. \A a \in returned' : \A u \in Task : Waiting(u)' => call'[u].request.seq # a.request.seq
    BY <1>1, <1>3, <1>4, <1>6, <2>4 DEF TasksInv, AnswersOwnRequest
  <2>. QED
    BY <1>1, <2>1, <2>3, <2>5 DEF AnswersOwnRequest
<1>11. outSeq <= outSeq'
  BY <1>1, UdpTasksAssumption, MaxSeqAssumption, TypeFacts DEF TasksInv
<1>. QED
  BY <1>5, <1>7, <1>8, <1>9, <1>10, <1>11, ClientSide

LEMMA GiveUpKeeps ==
  ASSUME TasksInv, NEW t \in Task, GiveUp(t), UNCHANGED serverVars
  PROVE  TasksInv'
<1>. DEFINE result == [code |-> "ERR_TIMEOUT"]
<1>1. result \in Outcomes /\ result.code # "OK"
  BY DEF Outcomes, ErrorCode
<1>2. /\ Waiting(t) /\ End(t, result)
      /\ state' = state /\ queue' = queue
      /\ UNCHANGED <<outSeq, transport, c2s>>
  BY DEF GiveUp, MustGiveUp
<1>. HIDE DEF result
<1>3. QueueWasSent'
  BY <1>2 DEF TasksInv, QueueWasSent, serverVars
<1>. QED
  BY <1>1, <1>2, <1>3, TypeFacts, EndKeeps DEF TasksInv

\* A task takes a datagram out of the queue: its answer, or another's to drop.
LEMMA TakeKeeps ==
  ASSUME TasksInv, NEW t \in Task, Take(t), UNCHANGED serverVars
  PROVE  TasksInv'
<1>. DEFINE q == call[t].request
            frames == Head(queue)
            reply == frames[Len(frames)]
            result == IF reply.type = "ERROR" THEN [code |-> reply.payload.code]
                      ELSE [code |-> "OK", type |-> reply.type, payload |-> reply.payload]
<1>1. /\ Waiting(t) /\ queue # << >> /\ queue' = Tail(queue)
      /\ UNCHANGED <<outSeq, transport, c2s>>
      /\ Answers(frames, q.seq) =>
           /\ End(t, result)
           /\ state' \in {state, "READY"}
      /\ ~Answers(frames, q.seq) => UNCHANGED <<state, call, returned>>
  BY DEF Take
<1>2. queue \in Seq(Seq(Frames))
  BY TypeFacts DEF TasksInv
<1>3. /\ queue' \in Seq(Seq(Frames)) /\ 1 \in DOMAIN queue /\ frames = queue[1]
      /\ \A i \in DOMAIN queue' : i + 1 \in DOMAIN queue /\ queue'[i] = queue[i + 1]
  BY <1>1, <1>2
<1>4. QueueWasSent'
  BY <1>3 DEF TasksInv, QueueWasSent, serverVars
<1>5. CASE ~Answers(frames, q.seq)
  <2>1. /\ state' = state /\ outSeq' = outSeq /\ transport' = transport /\ call' = call
        /\ returned' = returned /\ c2s' = c2s
    BY <1>1, <1>5
  <2>. HIDE DEF frames, reply, result
  <2>2. TypeOK'
    BY <1>3, <2>1, TypeFacts, TypeStep DEF TasksInv
  <2>3. \A u \in Task : /\ Waiting(u)' <=> Waiting(u)
                        /\ Waiting(u) => call'[u].request = call[u].request
    BY <2>1 DEF Waiting
  <2>4. SentWasMade'
    BY <2>1 DEF TasksInv, SentWasMade, Made, Waiting
  <2>. QED
    BY <1>4, <2>1, <2>2, <2>3, <2>4, CallsGoOn
<1>6. CASE Answers(frames, q.seq)
  <2>1. PICK d \in s2c[Self] : frames = d.frames
    BY <1>3 DEF TasksInv, QueueWasSent
  <2>2. d \in Datagrams /\ d.frames # << >>
    <3>1. s2c \in [Client -> SUBSET Datagrams]
      BY DEF TasksInv, ServerInv, ServerTypeOK, Datagrams
    <3>2. d \in Datagrams
      BY <3>1, UdpTasksAssumption
    <3>. QED
      BY <3>2 DEF TasksInv, RefusalsReadable
  <2>3. reply = LastFrame(d) /\ reply \in Frames
    BY <2>1, <2>2 DEF LastFrame, Datagrams
  <2>4. Acknowledges(d, q.seq)
    BY <1>6, <2>1 DEF Answers, Acknowledges
  <2>5. q \in Requests /\ q \in Made /\ q.seq \in 0..MaxSeq
    BY <1>1, CallType DEF TasksInv, Made, Requests
  <2>. HIDE DEF frames, reply
  <2>6. /\ result \in Outcomes
        /\ result.code = "OK" => \E i \in DOMAIN ran[Self] :
             /\ ran[Self][i] = Run(ran[Self][i].session, q)
             /\ [type |-> result.type, payload |-> result.payload] = Answer(ran[Self][i])
    <3>1. CASE reply.type = "ERROR"
      <4>1. PICK code \in ErrorCode : reply.payload = [code |-> code]
        BY <2>3, <2>4, <2>5, <3>1 DEF TasksInv, RefusalsReadable
      <4>2. result = [code |-> code]
        BY <3>1, <4>1
      <4>. HIDE DEF result
      <4>. QED
        BY <4>2 DEF Outcomes, ErrorCode
    <3>2. CASE reply.type # "ERROR"
      <4>1. result = [code |-> "OK", type |-> reply.type, payload |-> reply.payload]
        BY <3>2
      <4>2. PICK i \in DOMAIN ran[Self] :
              /\ ran[Self][i].seq = q.seq
              /\ Answer(ran[Self][i]) = [type |-> reply.type, payload |-> reply.payload]
        BY <2>3, <2>4, <2>5, <3>2, UdpTasksAssumption DEF TasksInv, ServerInv, AnswersAreOfRuns
      <4>3. PICK p \in Made : ran[Self][i] = Run(ran[Self][i].session, p)
        BY DEF TasksInv, RunsWereMade
      <4>4. p.seq = q.seq
        BY <4>2, <4>3 DEF Run
      <4>5. p = q
        <5>1. CASE \E u \in Task : Waiting(u) /\ call[u].request = p
          BY <1>1, <4>4, <5>1 DEF TasksInv, OneCallEach
        <5>2. CASE \E e \in returned : e.request = p
          <6>1. \A e \in returned : e.request.seq # q.seq
            BY <1>1 DEF TasksInv, AnswersOwnRequest
          <6>. QED
            BY <4>4, <5>2, <6>1
        <5>. QED
          BY <5>1, <5>2 DEF Made
      <4>. HIDE DEF result
      <4>6. /\ result \in Outcomes
            /\ [type |-> result.type, payload |-> result.payload]
                 = [type |-> reply.type, payload |-> reply.payload]
        BY <2>3, <4>1 DEF Outcomes, Frames
      <4>. QED
        BY <4>2, <4>3, <4>5, <4>6
    <3>. QED
      BY <3>1, <3>2
  <2>. HIDE DEF result
  <2>7. End(t, result) /\ state' \in {"NEW", "HANDSHAKE", "READY", "CLOSED"}
    BY <1>1, <1>6, TypeFacts DEF TasksInv
  <2>. QED
    BY <1>1, <1>3, <1>4, <2>6, <2>7, EndKeeps
<1>. QED
  BY <1>5, <1>6

LEMMA TaskKeeps ==
  ASSUME TasksInv, NEW t \in Task, TaskStep(t), UNCHANGED serverVars
  PROVE  TasksInv'
<1>1. CASE Request(t, "HELLO", [client_id |-> Self])
  <2>1. [client_id |-> Self] \in Payload /\ "HELLO" \in MsgType
    BY UdpTasksAssumption DEF Payload, MsgType
  <2>. QED
    BY <1>1, <2>1, RequestKeeps
<1>2. CASE \E type \in RequestTypes, x \in Data : Request(t, type, [data |-> x])
  <2>1. PICK type \in RequestTypes, x \in Data : Request(t, type, [data |-> x])
    BY <1>2
  <2>2. [data |-> x] \in Payload /\ type \in MsgType
    BY UdpTasksAssumption DEF Payload
  <2>. QED
    BY <2>1, <2>2, RequestKeeps
<1>3. CASE Timeout(t)
  BY <1>3, RetryKeeps, GiveUpKeeps DEF Timeout
<1>4. CASE Take(t)
  BY <1>4, TakeKeeps
<1>. QED
  BY <1>1, <1>2, <1>3, <1>4 DEF TaskStep

-----------------------------------------------------------------------------
(* Steps of the server.                                                    *)

\* Nothing but time passes.
LEMMA NothingKeeps ==
  ASSUME TasksInv, UNCHANGED vars
  PROVE  TasksInv'
<1>1. /\ UNCHANGED serverVars /\ state' = state /\ outSeq' = outSeq /\ transport' = transport
      /\ queue' = queue /\ call' = call /\ returned' = returned /\ c2s' = c2s
  BY DEF vars, serverVars
<1>2. TypeOK'
  BY <1>1, TypeFacts, TypeStep DEF TasksInv
<1>3. \A t \in Task : /\ Waiting(t)' <=> Waiting(t)
                      /\ Waiting(t) => call'[t].request = call[t].request
  BY <1>1 DEF Waiting
<1>4. SentWasMade' /\ QueueWasSent'
  BY <1>1 DEF TasksInv, SentWasMade, QueueWasSent, Made, Waiting, serverVars
<1>. QED
  BY <1>1, <1>2, <1>3, <1>4, CallsGoOn

\* What Put keeps, when the window is not full.
LEMMA PutKeeps ==
  ASSUME NEW w \in Seq(Entries), NEW seq \in 0..MaxSeq, NEW reply \in Seq(Frames),
         ~Cached(w, seq)
  PROVE  /\ Len(Put(w, seq, reply)) <= Len(w) + 1
         /\ Cached(Put(w, seq, reply), seq)
         /\ Len(w) < DedupSize => \A n : Cached(w, n) => Cached(Put(w, seq, reply), n)
<1>. DEFINE e == [seq |-> seq, reply |-> reply]
            v == Append(w, e)
<1>1. e \in Entries /\ e.seq = seq
  BY DEF Entries
<1>2. Put(w, seq, reply) = KeepLast(v)
  BY DEF Put
<1>. HIDE DEF e
<1>3. v \in Seq(Entries) /\ Len(v) = Len(w) + 1 /\ \A i \in DOMAIN w : i \in DOMAIN v /\ v[i] = w[i]
  BY <1>1, AppendFacts
<1>. HIDE DEF v
<1>4. Len(KeepLast(v)) <= Len(v)
  <2>1. CASE Len(v) > DedupSize
    <3>. DEFINE m == Len(v) - DedupSize + 1
    <3>1. KeepLast(v) = SubSeq(v, m, Len(v))
      BY <2>1 DEF KeepLast
    <3>2. m \in 1..Len(v) /\ Len(v) - m + 1 = DedupSize
      BY <1>3, <2>1, DedupSizeAssumption
    <3>3. Len(SubSeq(v, m, Len(v))) = DedupSize
      BY <1>3, <3>2, DedupSizeAssumption
    <3>. QED
      BY <1>3, <2>1, <3>1, <3>3, DedupSizeAssumption
  <2>2. CASE ~(Len(v) > DedupSize)
    BY <1>3, <2>2 DEF KeepLast
  <2>. QED
    BY <2>1, <2>2
<1>5. Cached(Put(w, seq, reply), seq)
  <2>1. /\ Put(w, seq, reply) \in Seq(Entries) /\ Put(w, seq, reply) # << >>
        /\ Put(w, seq, reply)[Len(Put(w, seq, reply))].seq = seq
    BY <1>1, PutFacts DEF e
  <2>2. Len(Put(w, seq, reply)) \in DOMAIN Put(w, seq, reply)
    BY <2>1
  <2>. QED
    BY <2>1, <2>2 DEF Cached
<1>6. ASSUME Len(w) < DedupSize, NEW n, Cached(w, n)
      PROVE  Cached(KeepLast(v), n)
  <2>1. KeepLast(v) = v
    BY <1>3, <1>6, DedupSizeAssumption DEF KeepLast
  <2>. QED
    BY <1>3, <1>6, <2>1 DEF Cached
<1>. QED
  BY <1>2, <1>3, <1>4, <1>5, <1>6

\* A datagram is handled: it runs, or is refused and has not run in this session.
LEMMA HandleKeeps ==
  ASSUME TasksInv, NEW f \in c2s, Handle(Self, f), UNCHANGED clientVars
  PROVE  TasksInv'
<1>. DEFINE s == peers[Self].session
            w == peers[Self].window
            r == Answering(s, f)
            d == [session |-> s.id, frames |-> r.frames]
            run == Run(s.id, f)
<1>1. /\ ServerInv /\ ServerTypeOK /\ PeersLive /\ TypeOK
      /\ Self \in Client /\ f \in Frames
  BY TypeFacts, UdpTasksAssumption DEF TasksInv, ServerInv
<1>2. ServerInv'
  BY <1>1, OnDatagramInv DEF OnDatagram
<1>3. /\ state' = state /\ outSeq' = outSeq /\ transport' = transport
      /\ queue' = queue /\ call' = call /\ returned' = returned /\ c2s' = c2s
  BY DEF clientVars
<1>4. TypeOK' /\ Made' = Made
  BY <1>1, <1>3, TypeFacts, TypeStep DEF Made, Waiting
<1>5. MadeBelow' /\ OneCallEach' /\ SentWasMade'
  BY <1>3, <1>4 DEF TasksInv, MadeBelow, OneCallEach, SentWasMade, Waiting
<1>6. s \in Sessions /\ Live(s) /\ r \in Reactions /\ ~Cached(w, f.seq)
  BY <1>1, HandleFacts
<1>7. /\ Accepted(r) => s.lastPeerSeq < f.seq
      /\ ~r.close => Accepted(r) /\ r.session.lastPeerSeq = f.seq /\ r.session.id = s.id
  BY <1>1, <1>6, AnsweringFacts
<1>8. r.frames # << >> /\ r.frames[1].type = "ACK" => AnswersOrRefuses(r.frames, s, f)
  BY <1>1, <1>6, AnsweringFrames
<1>9. /\ r.close  => peers'[Self] = NewPeer(s.id + 1)
      /\ ~r.close => /\ peers'[Self].session = r.session
                     /\ peers'[Self].window = Put(w, f.seq, r.frames)
      /\ s2c'[Self] = IF r.frames = << >> THEN s2c[Self] ELSE s2c[Self] \cup {d}
      /\ ran'[Self] = IF Accepted(r) THEN Append(ran[Self], run) ELSE ran[Self]
  BY <1>1, HandleEffect
<1>10. /\ NewPeer(s.id + 1).session.lastPeerSeq = -1 /\ NewPeer(s.id + 1).session.id = s.id + 1
       /\ NewPeer(s.id + 1).window = << >>
  BY DEF NewPeer, NewSession
<1>11. ran[Self] \in Seq(Runs) /\ w \in Seq(Entries)
  <2>1. peers \in [Client -> Peers] /\ ran \in [Client -> Seq(Runs)]
    BY <1>1 DEF ServerTypeOK, Peers, Entries, Runs
  <2>. QED
    BY <1>1, <2>1 DEF Peers
<1>12. PICK q \in Made : f.seq = q.seq /\ f.type = q.type /\ f.payload = q.payload
  BY DEF TasksInv, SentWasMade
<1>13. run = Run(run.session, q) /\ run.session = s.id /\ run.seq = f.seq
  BY <1>12 DEF Run
<1>14. f.seq < outSeq /\ f.seq \in 0..MaxSeq /\ r.frames \in Seq(Frames)
  BY <1>1, <1>6, <1>12 DEF TasksInv, MadeBelow, Frames, Reactions
<1>15. /\ s.id \in Nat /\ s.lastPeerSeq \in Int /\ s.lastPeerSeq >= -1
       /\ outSeq \in Nat /\ DedupSize \in Nat
  BY <1>1, <1>6, TypeFacts, MaxSeqAssumption, UdpTasksAssumption, DedupSizeAssumption DEF Sessions
<1>16. d.frames = r.frames /\ d.session = s.id /\ LastFrame(d) = r.frames[Len(r.frames)]
  BY DEF LastFrame
<1>17. r.frames # << >> /\ LastFrame(d).type = "ERROR" => ~Accepted(r) /\ r.close
  BY <1>7, <1>14, <1>16 DEF Accepted
<1>18. ASSUME r.frames # << >>, NEW n \in 0..MaxSeq, Acknowledges(d, n), LastFrame(d).type = "ERROR"
       PROVE  n = f.seq /\ \E code \in ErrorCode : LastFrame(d).payload = [code |-> code]
  BY <1>8, <1>16, <1>18 DEF Acknowledges, AnswersOrRefuses
<1>19. /\ \A i \in DOMAIN ran'[Self] : \/ i \in DOMAIN ran[Self] /\ ran'[Self][i] = ran[Self][i]
                                       \/ Accepted(r) /\ ran'[Self][i] = run
       /\ \A i \in DOMAIN ran[Self] : i \in DOMAIN ran'[Self] /\ ran'[Self][i] = ran[Self][i]
  <2>. HIDE DEF run, r
  <2>. QED
    BY <1>9, <1>11, AppendFacts
<1>20. \A x \in s2c'[Self] : x \in s2c[Self] \/ (r.frames # << >> /\ x = d)
  <2>. HIDE DEF d, r
  <2>. QED
    BY <1>9
<1>21. \A i \in DOMAIN ran[Self] : ran[Self][i].session = s.id =>
         Cached(w, ran[Self][i].seq) \/ s.lastPeerSeq >= DedupSize
  BY DEF TasksInv, NothingForgotten
<1>22. Len(w) <= s.lastPeerSeq + 1 /\ Len(w) \in Nat
  BY <1>11 DEF TasksInv, NothingForgotten
<1>23. ~r.close => /\ Len(Put(w, f.seq, r.frames)) <= Len(w) + 1
                   /\ Len(Put(w, f.seq, r.frames)) \in Nat
                   /\ Cached(Put(w, f.seq, r.frames), f.seq)
                   /\ Len(w) < DedupSize =>
                        \A n : Cached(w, n) => Cached(Put(w, f.seq, r.frames), n)
  <2>1. Put(w, f.seq, r.frames) \in Seq(Entries)
    BY <1>6, <1>11, <1>14, PutFacts
  <2>. QED
    BY <1>6, <1>11, <1>14, <2>1, PutKeeps
<1>. HIDE DEF s, w, r, d, run
<1>24. RunsWereMade'
  BY <1>4, <1>13, <1>19 DEF TasksInv, RunsWereMade
<1>25. QueueWasSent'
  BY <1>3, <1>9 DEF TasksInv, QueueWasSent
<1>26. RefusalsReadable'
  <2>1. ASSUME NEW x \in s2c'[Self]
        PROVE  /\ x.frames # << >>
               /\ \A n \in 0..MaxSeq : Acknowledges(x, n) /\ LastFrame(x).type = "ERROR" =>
                    \E code \in ErrorCode : LastFrame(x).payload = [code |-> code]
    BY <1>16, <1>18, <1>20, <2>1 DEF TasksInv, RefusalsReadable
  <2>. QED
    BY <2>1 DEF RefusalsReadable, Acknowledges, LastFrame
<1>27. PeerNotAhead'
  BY <1>3, <1>7, <1>9, <1>10, <1>14, <1>15 DEF PeerNotAhead
<1>28. NothingForgotten'
  <2>1. CASE r.close
    <3>1. ASSUME NEW i \in DOMAIN ran'[Self], ran'[Self][i].session = s.id + 1
          PROVE  FALSE
      <4>1. \/ i \in DOMAIN ran[Self] /\ ran[Self][i].session = s.id + 1
            \/ run.session = s.id + 1
        BY <1>19, <3>1
      <4>2. \A j \in DOMAIN ran[Self] : ran[Self][j].session \in Nat /\ ran[Self][j].session <= s.id
        <5>1. TAKE j \in DOMAIN ran[Self]
        <5>2. ran[Self][j] \in Runs
          BY <1>11
        <5>3. ran[Self][j].session < s.id \/ ran[Self][j].session = s.id
          BY <1>1 DEF ServerInv, RunsBelow, s
        <5>. QED
          BY <1>15, <5>2, <5>3 DEF Runs
      <4>. QED
        BY <1>13, <1>15, <4>1, <4>2
    <3>. QED
      BY <1>9, <1>10, <2>1, <3>1 DEF NothingForgotten
  <2>2. CASE ~r.close
    <3>1. peers'[Self].session.id = s.id /\ peers'[Self].session.lastPeerSeq = f.seq
      BY <1>7, <1>9, <2>2
    <3>2. s.lastPeerSeq < f.seq
      BY <1>7, <2>2
    <3>3. Len(peers'[Self].window) <= f.seq + 1
      BY <1>9, <1>14, <1>15, <1>22, <1>23, <2>2, <3>2
    <3>4. ASSUME NEW i \in DOMAIN ran'[Self], ran'[Self][i].session = s.id
          PROVE  Cached(peers'[Self].window, ran'[Self][i].seq) \/ f.seq >= DedupSize
      <4>1. CASE ran'[Self][i] = run
        BY <1>9, <1>13, <1>23, <2>2, <4>1
      <4>2. CASE i \in DOMAIN ran[Self] /\ ran'[Self][i] = ran[Self][i]
        <5>1. CASE s.lastPeerSeq >= DedupSize
          BY <1>14, <1>15, <3>2, <5>1
        <5>2. CASE ~(Len(w) < DedupSize)
          BY <1>14, <1>15, <1>22, <3>2, <5>2
        <5>3. CASE Cached(w, ran[Self][i].seq) /\ Len(w) < DedupSize
          BY <1>9, <1>23, <2>2, <4>2, <5>3
        <5>. QED
          BY <1>21, <3>4, <4>2, <5>1, <5>2, <5>3
      <4>. QED
        BY <1>19, <4>1, <4>2
    <3>. QED
      BY <3>1, <3>3, <3>4 DEF NothingForgotten
  <2>. QED
    BY <2>1, <2>2
<1>29. /\ peers'[Self].session.id >= s.id /\ peers'[Self].session.id \in Nat
       /\ r.close => peers'[Self].session.id > s.id
  BY <1>7, <1>9, <1>10, <1>15
<1>30. \A x \in s2c[Self] : x.session \in Nat
  <2>1. s2c \in [Client -> SUBSET Datagrams]
    BY <1>1 DEF ServerTypeOK, Datagrams
  <2>. QED
    BY <1>1, <2>1 DEF Datagrams
<1>31. \A x \in s2c[Self] : LastFrame(x).type = "ERROR" => x.session < s.id
  BY DEF TasksInv, ErrorIsLast, s
<1>32. ErrorIsLast'
  <2>1. ASSUME NEW x \in s2c'[Self], LastFrame(x).type = "ERROR"
        PROVE  x.session < peers'[Self].session.id
    <3>1. CASE x \in s2c[Self]
      BY <1>15, <1>29, <1>30, <1>31, <2>1, <3>1
    <3>2. CASE r.frames # << >> /\ x = d
      BY <1>16, <1>17, <1>29, <2>1, <3>2
    <3>. QED
      BY <1>20, <3>1, <3>2
  <2>. QED
    BY <2>1 DEF ErrorIsLast, LastFrame
<1>33. RefusedDidNotRun'
  <2>1. ASSUME NEW x \in s2c'[Self], NEW n \in 0..(outSeq - 1), outSeq <= DedupSize,
               Acknowledges(x, n), LastFrame(x).type = "ERROR",
               NEW i \in DOMAIN ran'[Self],
               ran'[Self][i].session = x.session, ran'[Self][i].seq = n
        PROVE  FALSE
    <3>1. CASE x \in s2c[Self]
      <4>1. x.session < s.id /\ x.session \in Nat
        BY <1>30, <1>31, <2>1, <3>1
      <4>2. ran'[Self][i] # run
        BY <1>13, <1>15, <2>1, <4>1
      <4>3. i \in DOMAIN ran[Self] /\ ran'[Self][i] = ran[Self][i]
        BY <1>19, <4>2
      <4>. QED
        BY <2>1, <3>1, <4>3 DEF TasksInv, RefusedDidNotRun
    <3>2. CASE r.frames # << >> /\ x = d
      <4>1. n \in 0..MaxSeq
        <5>1. outSeq \in 0..MaxRequests /\ MaxRequests \in 1..MaxSeq
          BY <1>1, TypeFacts, UdpTasksAssumption
        <5>. QED
          BY <5>1, MaxSeqAssumption
      <4>2. n = f.seq /\ ~Accepted(r)
        BY <1>17, <1>18, <2>1, <3>2, <4>1
      <4>3. i \in DOMAIN ran[Self] /\ ran[Self][i].session = s.id /\ ran[Self][i].seq = f.seq
        BY <1>16, <1>19, <2>1, <3>2, <4>2
      <4>4. s.lastPeerSeq >= DedupSize
        BY <1>6, <1>21, <4>3 DEF w, s
      <4>5. s.lastPeerSeq < outSeq
        BY DEF TasksInv, PeerNotAhead, s
      <4>. QED
        BY <1>15, <2>1, <4>4, <4>5
    <3>. QED
      BY <1>20, <3>1, <3>2
  <2>. QED
    BY <1>3, <2>1 DEF RefusedDidNotRun, Acknowledges, LastFrame
<1>34. AnswersOwnRequest'
  <2>1. ASSUME NEW e \in returned, e.result.code = "OK"
        PROVE  \E i \in DOMAIN ran'[Self] :
                 /\ ran'[Self][i] = Run(ran'[Self][i].session, e.request)
                 /\ [type |-> e.result.type, payload |-> e.result.payload] = Answer(ran'[Self][i])
    <3>1. PICK i \in DOMAIN ran[Self] :
            /\ ran[Self][i] = Run(ran[Self][i].session, e.request)
            /\ [type |-> e.result.type, payload |-> e.result.payload] = Answer(ran[Self][i])
      BY <2>1 DEF TasksInv, AnswersOwnRequest
    <3>2. i \in DOMAIN ran'[Self] /\ ran'[Self][i] = ran[Self][i]
      BY <1>19
    <3>. QED
      BY <3>1, <3>2
  <2>. QED
    BY <1>3, <2>1 DEF TasksInv, AnswersOwnRequest, Waiting
<1>. QED
  BY <1>2, <1>4, <1>5, <1>24, <1>25, <1>26, <1>27, <1>28, <1>32, <1>33, <1>34 DEF TasksInv

LEMMA ServerKeeps ==
  ASSUME TasksInv, NEW f \in c2s, OnDatagram(Self, f), UNCHANGED clientVars
  PROVE  TasksInv'
<1>1. CASE Replay(Self, f)
  <2>1. ServerInv /\ f \in Frames
    BY TypeFacts DEF TasksInv
  <2>2. UNCHANGED serverVars
    BY <1>1, <2>1, ReplayStep, UdpTasksAssumption
  <2>. QED
    BY <2>2, NothingKeeps DEF vars, serverVars, clientVars
<1>2. CASE Handle(Self, f)
  BY <1>2, HandleKeeps
<1>. QED
  BY <1>1, <1>2 DEF OnDatagram

-----------------------------------------------------------------------------

(* The inductive invariant holds however the tasks share the client, and   *)
(* whoever closes it under the others.                                     *)
THEOREM TasksInvariant == Spec => []TasksInv
<1>1. TasksInv /\ [Next]_vars => TasksInv'
  <2>. SUFFICES ASSUME TasksInv, [Next]_vars PROVE TasksInv'
    OBVIOUS
  <2>1. CASE UNCHANGED vars
    BY <2>1, NothingKeeps
  <2>2. ASSUME NEW t \in Task, TaskStep(t), UNCHANGED serverVars
        PROVE  TasksInv'
    BY <2>2, TaskKeeps
  <2>3. CASE (Receive \/ Close) /\ UNCHANGED serverVars
    BY <2>3, ReceiveKeeps, CloseKeeps
  <2>4. ASSUME NEW f \in c2s, OnDatagram(Self, f), UNCHANGED clientVars
        PROVE  TasksInv'
    BY <2>4, ServerKeeps
  <2>. QED
    BY <2>1, <2>2, <2>3, <2>4 DEF Next
<1>. QED
  BY <1>1, InitInv, PTL DEF Spec

(* The types of a client that tasks share (UdpClient).                     *)
THEOREM TasksTypeOK == Spec => []TypeOK
<1>1. TasksInv => TypeOK
  BY DEF TasksInv
<1>. QED
  BY <1>1, TasksInvariant, PTL

(* Also when tasks share the queue, request() returns the answer of a run  *)
(* of this very request, and no request ends twice (_await_reply).         *)
THEOREM TasksAnswersOwnRequest == Spec => []AnswersOwnRequest
<1>1. TasksInv => AnswersOwnRequest
  BY DEF TasksInv
<1>. QED
  BY <1>1, TasksInvariant, PTL

(* A request that is refused as out of order has not run in the session    *)
(* that refuses it, if the window has room for every request there was     *)
(* (DedupWindow, ServerSession.on_frame).                                  *)
THEOREM TasksRefusedDidNotRun == Spec => []RefusedDidNotRun
<1>1. TasksInv => RefusedDidNotRun
  BY DEF TasksInv
<1>. QED
  BY <1>1, TasksInvariant, PTL
=============================================================================
