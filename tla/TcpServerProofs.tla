--------------------------- MODULE TcpServerProofs --------------------------
(***************************************************************************)
(* Proofs about one connection of the TCP server: its steps preserve the   *)
(* types, the agreement of loop and session, and the last word.            *)
(***************************************************************************)
EXTENDS TcpServer, SessionProofs, SequenceTheorems

\* HANDSHAKE and CLOSING are states of a client.
ServerStates == session.state \in {"NEW", "READY", "CLOSED"}

ConnectionInv ==
  /\ ServerTypeOK
  /\ ServerStates
  /\ LoopFollowsSession
  /\ LastWord

\* What the properties look at, but for the streams, which the peer changes too.
ownVars == <<session, task, ending, handled, sent>>

-----------------------------------------------------------------------------

LEMMA ConcatType ==
  ASSUME NEW a \in Seq(Frames), NEW b \in Seq(Frames)
  PROVE  a \o b \in Seq(Frames)
OBVIOUS

LEMMA AppendOne ==
  ASSUME NEW a \in Seq(Frames), NEW x \in Frames
  PROVE  /\ Len(a \o << x >>) = Len(a) + 1
         /\ (a \o << x >>)[Len(a) + 1] = x
         /\ \A i \in DOMAIN a : (a \o << x >>)[i] = a[i]
         /\ DOMAIN (a \o << x >>) = 1..(Len(a) + 1)
         /\ DOMAIN a = 1..Len(a)
OBVIOUS

LEMMA AppendHandled ==
  ASSUME NEW a \in Seq(Frames), NEW x \in Frames
  PROVE  /\ Append(a, x) \in Seq(Frames)
         /\ Append(a, x)[Len(Append(a, x))] = x
OBVIOUS

LEMMA AcceptInv ==
  ASSUME NEW hello \in Seq(Frames \cup [fault : ErrorCode]), Accept(hello)
  PROVE  ConnectionInv'
<1>1. NewSession(0) \in Sessions
  BY MaxSeqAssumption DEF NewSession, Sessions, State
<1>2. session' = NewSession(0) /\ session'.state = "NEW"
  BY DEF Accept, NewSession
<1>3. ServerTypeOK'
  <2>1. << >> \in Seq(Frames)
    OBVIOUS
  <2>2. /\ session' \in Sessions /\ task' = "reading" /\ ending' = FALSE
        /\ toServer' = hello /\ toClient' = << >> /\ peerClosed' = FALSE
        /\ handled' = << >> /\ sent' = << >>
    BY <1>1 DEF Accept
  <2>. QED
    BY <2>1, <2>2 DEF ServerTypeOK
<1>4. LoopFollowsSession' /\ ServerStates'
  BY <1>2 DEF Accept, LoopFollowsSession, ServerStates
<1>5. LastWord'
  BY DEF Accept, LastWord
<1>. QED
  BY <1>3, <1>4, <1>5 DEF ConnectionInv

\* The loop has no last word behind it while it reads.
LEMMA NothingSaidYet ==
  ASSUME ConnectionInv, task = "reading"
  PROVE  /\ Live(session)
         /\ \A i \in DOMAIN sent : sent[i].type \notin LastWords
BY DEF ConnectionInv, LoopFollowsSession, LastWord, LastWords, Live

\* A reaction is applied; handled is as it was, or ends with the frame it is to.
LEMMA ApplyInv ==
  ASSUME ConnectionInv, task = "reading",
         NEW r \in Reactions, NEW bye \in BOOLEAN, Shaped(r, bye), Apply(r),
         handled' \in Seq(Frames),
         bye /\ r.frames # << >> /\ r.frames[1].type = "BYE"
           => handled'[Len(handled')].type = "BYE",
         toServer' \in Seq(Frames \cup [fault : ErrorCode]),
         peerClosed' \in BOOLEAN
  PROVE  ConnectionInv'
<1>1. /\ session' = r.session /\ ending' = r.close
      /\ toClient' = toClient \o r.frames /\ sent' = sent \o r.frames
      /\ task' = IF r.frames # << >> THEN "draining" ELSE IF r.close THEN "closing" ELSE "reading"
  BY DEF Apply
<1>2. toClient \in Seq(Frames) /\ sent \in Seq(Frames)
  BY DEF ConnectionInv, ServerTypeOK
<1>3. r.session \in Sessions /\ r.frames \in Seq(Frames) /\ r.close \in BOOLEAN
  BY DEF Reactions
<1>4. (r.close => session'.state = "CLOSED") /\ (~r.close => session'.state = "READY")
  BY <1>1 DEF Shaped
<1>5. ServerTypeOK'
  BY <1>1, <1>2, <1>3, ConcatType DEF ServerTypeOK
<1>6. ServerStates'
  BY <1>3, <1>4 DEF ServerStates
<1>7. LoopFollowsSession'
  BY <1>1, <1>3, <1>4 DEF LoopFollowsSession
<1>8. \A i \in DOMAIN sent : sent[i].type \notin {"ERROR", "BYE"}
  BY NothingSaidYet DEF LastWords
<1>9. LastWord'
  <2>1. CASE r.frames = << >>
    <3>1. sent' = sent
      BY <1>1, <1>2, <2>1
    <3>. QED
      BY <1>8, <3>1 DEF LastWord
  <2>2. CASE r.frames # << >>
    <3>1. PICK x \in Frames : /\ r.frames = << x >>
                              /\ x.type \in {"ERROR", "BYE"} => r.close
                              /\ x.type = "BYE" => bye
      BY <2>2 DEF Shaped, LastWords
    <3>2. sent' = sent \o << x >>
      BY <1>1, <3>1
    <3>3. r.frames[1] = x
      BY <3>1
    <3>4. ASSUME NEW i \in DOMAIN sent', sent'[i].type \in {"ERROR", "BYE"}
          PROVE  i = Len(sent') /\ sent'[i] = x
      BY <1>2, <1>8, <3>2, <3>4, AppendOne
    <3>5. ASSUME NEW i \in DOMAIN sent', sent'[i].type \in {"ERROR", "BYE"}
          PROVE  /\ i = Len(sent')
                 /\ session'.state = "CLOSED"
                 /\ sent'[i].type = "BYE" => handled'[Len(handled')].type = "BYE"
      BY <1>4, <2>2, <3>1, <3>3, <3>4, <3>5
    <3>. QED
      BY <3>5 DEF LastWord
  <2>. QED
    BY <2>1, <2>2
<1>. QED
  BY <1>5, <1>6, <1>7, <1>9 DEF ConnectionInv

-----------------------------------------------------------------------------

LEMMA ReadFrameInv ==
  ASSUME ConnectionInv, ReadFrame
  PROVE  ConnectionInv'
<1>. DEFINE f == Head(toServer)
            r == OnFrame(session, f)
<1>1. /\ task = "reading" /\ toServer # << >> /\ ~IsFault(f)
      /\ Apply(r) /\ toServer' = Tail(toServer) /\ peerClosed' = peerClosed
      /\ handled' = IF Accepted(r) THEN Append(handled, f) ELSE handled
  BY DEF ReadFrame
<1>2. /\ session \in Sessions /\ handled \in Seq(Frames) /\ peerClosed \in BOOLEAN
      /\ toServer \in Seq(Frames \cup [fault : ErrorCode])
  BY DEF ConnectionInv, ServerTypeOK
<1>3. f \in Frames \cup [fault : ErrorCode] /\ Tail(toServer) \in Seq(Frames \cup [fault : ErrorCode])
  BY <1>1, <1>2
<1>4. f \in Frames
  BY <1>1, <1>3 DEF IsFault
<1>. HIDE DEF f
<1>5. Live(session)
  BY <1>1, NothingSaidYet
<1>6. r \in Reactions /\ Shaped(r, f.type = "BYE")
  BY <1>2, <1>4, <1>5, OnFrameType, OnFrameShape
<1>. HIDE DEF r
<1>7. handled' \in Seq(Frames)
  BY <1>1, <1>2, <1>4, AppendHandled
<1>8. ASSUME f.type = "BYE", r.frames # << >>, r.frames[1].type = "BYE"
      PROVE  handled'[Len(handled')].type = "BYE"
  <2>1. PICK x \in Frames : r.frames = << x >>
    BY <1>6, <1>8 DEF Shaped
  <2>2. DOMAIN r.frames = {1}
    BY <2>1
  <2>3. Accepted(r)
    BY <1>8, <2>2 DEF Accepted
  <2>. QED
    BY <1>1, <1>2, <1>4, <1>8, <2>3, AppendHandled
<1>. QED
  BY <1>1, <1>2, <1>3, <1>6, <1>7, <1>8, ApplyInv

LEMMA ReadFaultInv ==
  ASSUME ConnectionInv, ReadFault
  PROVE  ConnectionInv'
<1>. DEFINE code == Head(toServer).fault
            r == OnProtocolError(session, code)
<1>1. /\ task = "reading" /\ toServer # << >> /\ IsFault(Head(toServer))
      /\ Apply(r) /\ toServer' = Tail(toServer)
      /\ peerClosed' = peerClosed /\ handled' = handled
  BY DEF ReadFault
<1>2. /\ session \in Sessions /\ handled \in Seq(Frames) /\ peerClosed \in BOOLEAN
      /\ toServer \in Seq(Frames \cup [fault : ErrorCode])
  BY DEF ConnectionInv, ServerTypeOK
<1>3. /\ Head(toServer) \in Frames \cup [fault : ErrorCode]
      /\ Tail(toServer) \in Seq(Frames \cup [fault : ErrorCode])
  BY <1>1, <1>2
<1>4. code \in ErrorCode
  BY <1>1, <1>3 DEF IsFault, Frames
<1>. HIDE DEF code
<1>5. r \in Reactions /\ Shaped(r, FALSE)
  BY <1>2, <1>4, ErrorType, ErrorShape DEF OnProtocolError
<1>. HIDE DEF r
<1>. QED
  BY <1>1, <1>2, <1>3, <1>5, ApplyInv

LEMMA TimeoutInv ==
  ASSUME ConnectionInv, Timeout
  PROVE  ConnectionInv'
<1>. DEFINE r == OnIdleTimeout(session)
<1>1. /\ task = "reading" /\ Apply(r)
      /\ toServer' = toServer /\ peerClosed' = peerClosed /\ handled' = handled
  BY DEF Timeout
<1>2. /\ session \in Sessions /\ handled \in Seq(Frames) /\ peerClosed \in BOOLEAN
      /\ toServer \in Seq(Frames \cup [fault : ErrorCode])
  BY DEF ConnectionInv, ServerTypeOK
<1>3. r \in Reactions /\ Shaped(r, FALSE)
  BY <1>2, SilentType, ClosingType, QuietShape DEF OnIdleTimeout
<1>. HIDE DEF r
<1>. QED
  BY <1>1, <1>2, <1>3, ApplyInv

\* The steps that only move the task on.
LEMMA TaskMovesInv ==
  ASSUME ConnectionInv, PeerGone \/ Drained \/ WaitClosed
  PROVE  ConnectionInv'
<1>1. /\ UNCHANGED <<session, ending, toServer, toClient, peerClosed, handled, sent>>
      /\ task' \in {"reading", "closing", "closed"}
      /\ task' = "reading" => task = "draining" /\ ~ending
  BY DEF PeerGone, Drained, WaitClosed
<1>2. ServerTypeOK' /\ ServerStates' /\ LastWord'
  BY <1>1 DEF ConnectionInv, ServerTypeOK, ServerStates, LastWord
<1>3. LoopFollowsSession'
  BY <1>1 DEF ConnectionInv, LoopFollowsSession, ServerStates
<1>. QED
  BY <1>2, <1>3 DEF ConnectionInv

LEMMA ServerStepInv ==
  ASSUME ConnectionInv, ServerStep
  PROVE  ConnectionInv'
BY ReadFrameInv, ReadFaultInv, TimeoutInv, TaskMovesInv DEF ServerStep

\* What others do to the streams.
LEMMA StreamsInv ==
  ASSUME ConnectionInv, UNCHANGED ownVars,
         toServer' \in Seq(Frames \cup [fault : ErrorCode]),
         toClient' \in Seq(Frames), peerClosed' \in BOOLEAN
  PROVE  ConnectionInv'
BY DEF ConnectionInv, ownVars, ServerTypeOK, ServerStates, LoopFollowsSession, LastWord

-----------------------------------------------------------------------------
(* What the server says.                                                   *)

SaysNothing == sent' = sent /\ toClient' = toClient /\ session'.outSeq = session.outSeq

Says(x) ==
  /\ x \in Frames /\ x.seq = session.outSeq
  /\ sent' = Append(sent, x) /\ toClient' = Append(toClient, x)
  /\ session'.outSeq = NextSeq(session.outSeq)

LEMMA OneFrameSaid ==
  ASSUME ConnectionInv, NEW r, Apply(r), NEW x \in Frames, r.frames = << x >>,
         x.seq = session.outSeq, r.session.outSeq = NextSeq(session.outSeq)
  PROVE  Says(x)
<1>1. sent \in Seq(Frames) /\ toClient \in Seq(Frames)
  BY DEF ConnectionInv, ServerTypeOK
<1>2. sent \o << x >> = Append(sent, x) /\ toClient \o << x >> = Append(toClient, x)
  BY <1>1, AppendIsConcat
<1>. QED
  BY <1>2 DEF Apply, Says

LEMMA NothingSaid ==
  ASSUME ConnectionInv, NEW r, Apply(r), r.frames = << >>, r.session.outSeq = session.outSeq
  PROVE  SaysNothing
<1>1. sent \in Seq(Frames) /\ toClient \in Seq(Frames)
  BY DEF ConnectionInv, ServerTypeOK
<1>2. sent \o << >> = sent /\ toClient \o << >> = toClient
  BY <1>1, ConcatEmptySeq
<1>. QED
  BY <1>2 DEF Apply, SaysNothing

\* A frame that runs is answered, unless it is one that has no answer; one that
\* does not run is refused.
LEMMA ReadFrameSays ==
  ASSUME ConnectionInv, ReadFrame
  PROVE  LET f == Head(toServer)
         IN  /\ Live(session) /\ f \in Frames
             /\ toServer # << >> /\ toServer' = Tail(toServer)
             /\ session'.state \in {"READY", "CLOSED"}
             /\ \/ /\ SaysNothing /\ handled' = Append(handled, f)
                   /\ f.type \in {"PONG", "ACK", "ERROR"}
                \/ \E x : Says(x) /\ Echoes(x, f) /\ handled' = Append(handled, f)
                \/ \E x : /\ Says(x) /\ Refuses(x) /\ handled' = handled
                          /\ session'.state = "CLOSED"
<1>. DEFINE f == Head(toServer)
            r == OnFrame(session, f)
<1>1. /\ task = "reading" /\ toServer # << >> /\ ~IsFault(f)
      /\ Apply(r) /\ toServer' = Tail(toServer)
      /\ handled' = IF Accepted(r) THEN Append(handled, f) ELSE handled
  BY DEF ReadFrame
<1>2. session \in Sessions /\ toServer \in Seq(Frames \cup [fault : ErrorCode])
  BY DEF ConnectionInv, ServerTypeOK
<1>3. f \in Frames \cup [fault : ErrorCode]
  BY <1>1, <1>2
<1>4. f \in Frames
  BY <1>1, <1>3 DEF IsFault
<1>5. Live(session)
  BY <1>1, NothingSaidYet
<1>. HIDE DEF f
<1>6. /\ Reacts(r, f, session.outSeq) /\ Shaped(r, f.type = "BYE")
      /\ ~r.close => Accepted(r)
  BY <1>2, <1>4, <1>5, OnFrameReacts, OnFrameShape, OnFrameFacts
<1>. HIDE DEF r
<1>7. session' = r.session /\ session'.state \in {"READY", "CLOSED"}
  BY <1>1, <1>6 DEF Apply, Shaped
<1>8. \/ /\ SaysNothing /\ handled' = Append(handled, f)
         /\ f.type \in {"PONG", "ACK", "ERROR"}
      \/ \E x : Says(x) /\ Echoes(x, f) /\ handled' = Append(handled, f)
      \/ \E x : Says(x) /\ Refuses(x) /\ handled' = handled /\ session'.state = "CLOSED"
  <2>1. CASE r.frames = << >> /\ r.session.outSeq = session.outSeq
             /\ f.type \in {"PONG", "ACK", "ERROR"}
    <3>1. Accepted(r)
      BY <2>1 DEF Accepted
    <3>. QED
      BY <1>1, <2>1, <3>1, NothingSaid
  <2>2. ASSUME NEW x \in Frames, r.frames = << x >>, x.seq = session.outSeq,
               r.session.outSeq = NextSeq(session.outSeq), Echoes(x, f)
        PROVE  Says(x) /\ Echoes(x, f) /\ handled' = Append(handled, f)
    <3>1. Says(x)
      BY <1>1, <2>2, OneFrameSaid
    <3>2. Accepted(r)
      BY <2>2 DEF Accepted, Echoes
    <3>. QED
      BY <1>1, <2>2, <3>1, <3>2
  <2>3. ASSUME NEW x \in Frames, r.frames = << x >>, x.seq = session.outSeq,
               r.session.outSeq = NextSeq(session.outSeq), Refuses(x)
        PROVE  Says(x) /\ Refuses(x) /\ handled' = handled /\ session'.state = "CLOSED"
    <3>1. Says(x)
      BY <1>1, <2>3, OneFrameSaid
    <3>2. ~Accepted(r)
      BY <2>3 DEF Accepted, Refuses
    <3>3. session'.state = "CLOSED"
      BY <1>6, <1>7, <3>2 DEF Shaped
    <3>. QED
      BY <1>1, <2>3, <3>1, <3>2, <3>3
  <2>. QED
    BY <1>6, <2>1, <2>2, <2>3 DEF Reacts
<1>. QED
  BY <1>1, <1>4, <1>5, <1>7, <1>8 DEF f

LEMMA ReadFaultSays ==
  ASSUME ConnectionInv, ReadFault
  PROVE  /\ toServer # << >> /\ toServer' = Tail(toServer) /\ handled' = handled
         /\ Live(session) /\ session'.state = "CLOSED"
         /\ \E x : Says(x) /\ Refuses(x)
<1>. DEFINE code == Head(toServer).fault
            r == OnProtocolError(session, code)
<1>1. /\ task = "reading" /\ toServer # << >> /\ IsFault(Head(toServer))
      /\ Apply(r) /\ toServer' = Tail(toServer) /\ handled' = handled
  BY DEF ReadFault
<1>2. session \in Sessions /\ toServer \in Seq(Frames \cup [fault : ErrorCode])
  BY DEF ConnectionInv, ServerTypeOK
<1>3. Head(toServer) \in Frames \cup [fault : ErrorCode]
  BY <1>1, <1>2
<1>4. code \in ErrorCode
  BY <1>1, <1>3 DEF IsFault, Frames
<1>. HIDE DEF code
<1>5. \E x \in Frames : /\ r.frames = << x >> /\ x.seq = session.outSeq
                        /\ r.session.outSeq = NextSeq(session.outSeq) /\ Refuses(x)
  <2>. DEFINE p == [code |-> code]
  <2>1. p \in Payload
    BY <1>4, ControlPayloads
  <2>2. Reply(session, "ERROR", p) \in Reactions
    BY <1>2, <2>1, ReplyType DEF MsgType
  <2>3. /\ Reply(session, "ERROR", p).session.outSeq = NextSeq(session.outSeq)
        /\ \E x \in Frames : /\ Reply(session, "ERROR", p).frames = << x >>
                             /\ x.seq = session.outSeq /\ x.type = "ERROR" /\ x.payload = p
    BY <1>2, <2>1, ReplyNumber DEF MsgType
  <2>4. r = Closing(Reply(session, "ERROR", p))
    BY DEF OnProtocolError, Error
  <2>5. /\ r.frames = Reply(session, "ERROR", p).frames
        /\ r.session.outSeq = Reply(session, "ERROR", p).session.outSeq
    BY <2>2, <2>4, ClosingNumber DEF Reactions
  <2>. HIDE DEF r
  <2>. QED
    BY <1>4, <2>3, <2>5 DEF Refuses
<1>6. r.session.state = "CLOSED"
  BY <1>2, <1>4, ErrorShape, ErrorFacts DEF OnProtocolError, Shaped
<1>. HIDE DEF r
<1>. QED
  BY <1>1, <1>5, <1>6, NothingSaidYet, OneFrameSaid DEF Apply

LEMMA TimeoutSays ==
  ASSUME ConnectionInv, Timeout
  PROVE  /\ SaysNothing /\ handled' = handled /\ toServer' = toServer
         /\ Live(session) /\ session'.state = "CLOSED"
<1>. DEFINE r == OnIdleTimeout(session)
<1>1. /\ task = "reading" /\ Apply(r) /\ toServer' = toServer /\ handled' = handled
  BY DEF Timeout
<1>2. session \in Sessions
  BY DEF ConnectionInv, ServerTypeOK
<1>3. /\ r.frames = << >> /\ r.session.outSeq = session.outSeq
      /\ r.session.state = "CLOSED"
  BY <1>2 DEF OnIdleTimeout, Closing, Silent, Sessions
<1>. HIDE DEF r
<1>. QED
  BY <1>1, <1>3, NothingSaid, NothingSaidYet DEF Apply

-----------------------------------------------------------------------------
(* What is sent answers what ran.                                          *)

Requests(ran) == {i \in DOMAIN ran : ran[i].type \notin {"PONG", "ACK", "ERROR"}}
Replies(said) == {j \in DOMAIN said : said[j].type # "ERROR"}

Pairs(place, ran, said) ==
  /\ place \in [Requests(ran) -> Replies(said)]
  /\ \A i, k \in Requests(ran) : i < k => place[i] < place[k]
  /\ \A j \in Replies(said) : \E i \in Requests(ran) : place[i] = j
  /\ \A i \in Requests(ran) : Answers(said[place[i]], ran[i])

Paired(ran, said) == \E place : Pairs(place, ran, said)

LEMMA Behind ==
  ASSUME NEW a \in Seq(Frames), NEW x \in Frames
  PROVE  /\ Append(a, x) \in Seq(Frames) /\ Len(Append(a, x)) = Len(a) + 1
         /\ Append(a, x)[Len(a) + 1] = x
         /\ \A i \in DOMAIN a : Append(a, x)[i] = a[i]
         /\ DOMAIN Append(a, x) = 1..(Len(a) + 1) /\ DOMAIN a = 1..Len(a)
         /\ Len(a) \in Nat
BY AppendProperties

LEMMA EchoesAnswers ==
  ASSUME NEW x, NEW f, Echoes(x, f)
  PROVE  /\ Answers(x, f)
         /\ x.type # "ERROR"
         /\ f.type \notin {"PONG", "ACK", "ERROR"}
BY DEF Echoes, Answers, AnswerTypes

\* A frame that has no answer ran.
LEMMA PairedQuiet ==
  ASSUME NEW ran \in Seq(Frames), NEW said \in Seq(Frames), NEW f \in Frames,
         f.type \in {"PONG", "ACK", "ERROR"}, Paired(ran, said)
  PROVE  Paired(Append(ran, f), said)
<1>1. PICK place : Pairs(place, ran, said)
  BY DEF Paired
<1>2. Requests(Append(ran, f)) = Requests(ran)
  BY Behind DEF Requests
<1>3. \A i \in Requests(ran) : Append(ran, f)[i] = ran[i]
  BY Behind DEF Requests
<1>4. Pairs(place, Append(ran, f), said)
  BY <1>1, <1>2, <1>3 DEF Pairs
<1>. QED
  BY <1>4 DEF Paired

\* A frame that did not run was refused.
LEMMA PairedRefusal ==
  ASSUME NEW ran \in Seq(Frames), NEW said \in Seq(Frames), NEW x \in Frames,
         x.type = "ERROR", Paired(ran, said)
  PROVE  Paired(ran, Append(said, x))
<1>1. PICK place : Pairs(place, ran, said)
  BY DEF Paired
<1>2. Replies(Append(said, x)) = Replies(said)
  BY Behind DEF Replies
<1>3. \A j \in Replies(said) : Append(said, x)[j] = said[j]
  BY Behind DEF Replies
<1>4. \A i \in Requests(ran) : Append(said, x)[place[i]] = said[place[i]]
  BY <1>1, <1>3 DEF Pairs
<1>5. Pairs(place, ran, Append(said, x))
  BY <1>1, <1>2, <1>4 DEF Pairs
<1>. QED
  BY <1>5 DEF Paired

\* A frame ran and was answered: its answer is the last of the answers.
LEMMA PairedAnswer ==
  ASSUME NEW ran \in Seq(Frames), NEW said \in Seq(Frames),
         NEW f \in Frames, NEW x \in Frames, Echoes(x, f), Paired(ran, said)
  PROVE  Paired(Append(ran, f), Append(said, x))
<1>. DEFINE n == Len(ran) + 1
            m == Len(said) + 1
<1>1. PICK old : Pairs(old, ran, said)
  BY DEF Paired
<1>. DEFINE place == [i \in Requests(Append(ran, f)) |-> IF i = n THEN m ELSE old[i]]
<1>2. /\ Answers(x, f) /\ x.type # "ERROR" /\ f.type \notin {"PONG", "ACK", "ERROR"}
  BY EchoesAnswers
<1>3. /\ n \in Nat /\ n \notin Requests(ran) /\ \A i \in Requests(ran) : i \in Nat /\ i < n
      /\ Requests(Append(ran, f)) = Requests(ran) \cup {n}
      /\ Append(ran, f)[n] = f
      /\ \A i \in Requests(ran) : Append(ran, f)[i] = ran[i]
  BY <1>2, Behind DEF Requests
<1>4. /\ m \in Nat /\ m \notin Replies(said) /\ \A j \in Replies(said) : j \in Nat /\ j < m
      /\ Replies(Append(said, x)) = Replies(said) \cup {m}
      /\ Append(said, x)[m] = x
      /\ \A j \in Replies(said) : Append(said, x)[j] = said[j]
  BY <1>2, Behind DEF Replies
<1>. HIDE DEF n, m
<1>5. /\ place[n] = m
      /\ \A i \in Requests(ran) : place[i] = old[i] /\ old[i] \in Replies(said)
  BY <1>1, <1>3 DEF Pairs
<1>6. place \in [Requests(Append(ran, f)) -> Replies(Append(said, x))]
  <2>1. \A i \in Requests(Append(ran, f)) : place[i] \in Replies(Append(said, x))
    BY <1>3, <1>4, <1>5
  <2>. QED
    BY <2>1
<1>. HIDE DEF place
<1>7. ASSUME NEW i \in Requests(Append(ran, f)), NEW k \in Requests(Append(ran, f)), i < k
      PROVE  place[i] < place[k]
  <2>1. i \in Requests(ran)
    BY <1>3, <1>7
  <2>2. CASE k = n
    BY <1>4, <1>5, <2>1, <2>2
  <2>3. CASE k # n
    BY <1>1, <1>3, <1>5, <1>7, <2>1, <2>3 DEF Pairs
  <2>. QED
    BY <2>2, <2>3
<1>8. ASSUME NEW j \in Replies(Append(said, x))
      PROVE  \E i \in Requests(Append(ran, f)) : place[i] = j
  <2>1. CASE j = m
    BY <1>3, <1>5, <2>1
  <2>2. CASE j # m
    BY <1>1, <1>3, <1>4, <1>5, <2>2 DEF Pairs
  <2>. QED
    BY <2>1, <2>2
<1>9. ASSUME NEW i \in Requests(Append(ran, f))
      PROVE  Answers(Append(said, x)[place[i]], Append(ran, f)[i])
  <2>1. CASE i = n
    BY <1>2, <1>3, <1>4, <1>5, <2>1
  <2>2. CASE i # n
    <3>1. i \in Requests(ran) /\ Answers(said[old[i]], ran[i])
      BY <1>1, <1>3, <2>2 DEF Pairs
    <3>. QED
      BY <1>3, <1>4, <1>5, <3>1
  <2>. QED
    BY <2>1, <2>2
<1>10. Pairs(place, Append(ran, f), Append(said, x))
  BY <1>6, <1>7, <1>8, <1>9 DEF Pairs
<1>. QED
  BY <1>10 DEF Paired

\* A session begins with the frame that shakes hands, and that frame is answered.
Begun ==
  /\ session.state = "NEW" => handled = << >> /\ sent = << >> /\ session.lastPeerSeq = -1
  /\ session.state = "READY" => sent # << >>
  /\ session.state # "CLOSED" => Len(sent) <= Len(handled)

\* The numbers of what is sent count it, up to the largest number.
Counted ==
  /\ Len(sent) <= MaxSeq => session.outSeq = Len(sent)
  /\ \A i \in DOMAIN sent : i - 1 <= MaxSeq => sent[i].seq = i - 1

ReplyInv == Begun /\ Counted /\ Paired(handled, sent)

LEMMA RepliesBegin ==
  ASSUME session = NewSession(0), handled = << >>, sent = << >>
  PROVE  ReplyInv
<1>1. Begun
  BY DEF Begun, NewSession
<1>2. Counted
  BY DEF Counted, NewSession
<1>3. Paired(handled, sent)
  <2>1. Requests(handled) = {} /\ Replies(sent) = {}
    BY DEF Requests, Replies
  <2>2. Pairs([i \in {} |-> i], handled, sent)
    BY <2>1 DEF Pairs
  <2>. QED
    BY <2>2 DEF Paired
<1>. QED
  BY <1>1, <1>2, <1>3 DEF ReplyInv

LEMMA RepliesBeginNext ==
  ASSUME session' = NewSession(0), handled' = << >>, sent' = << >>
  PROVE  ReplyInv'
<1>1. Begun'
  BY DEF Begun, NewSession
<1>2. Counted'
  BY DEF Counted, NewSession
<1>3. Paired(handled', sent')
  <2>1. Requests(handled') = {} /\ Replies(sent') = {}
    BY DEF Requests, Replies
  <2>2. Pairs([i \in {} |-> i], handled', sent')
    BY <2>1 DEF Pairs
  <2>. QED
    BY <2>2 DEF Paired
<1>. QED
  BY <1>1, <1>2, <1>3 DEF ReplyInv

LEMMA RepliesKept ==
  ASSUME ReplyInv, UNCHANGED <<session, handled, sent>>
  PROVE  ReplyInv'
BY DEF ReplyInv, Begun, Counted, Paired

\* A frame is sent, and takes the next number.
LEMMA CountedSaid ==
  ASSUME ConnectionInv, Counted, NEW x, Says(x)
  PROVE  Counted'
<1>1. sent \in Seq(Frames) /\ x \in Frames /\ session.outSeq \in 0..MaxSeq
  BY DEF ConnectionInv, ServerTypeOK, Sessions, Says
<1>2. /\ sent' = Append(sent, x) /\ Len(sent') = Len(sent) + 1 /\ sent'[Len(sent) + 1] = x
      /\ \A i \in DOMAIN sent : sent'[i] = sent[i]
      /\ DOMAIN sent' = 1..(Len(sent) + 1) /\ DOMAIN sent = 1..Len(sent) /\ Len(sent) \in Nat
  BY <1>1, Behind DEF Says
<1>3. x.seq = session.outSeq /\ session'.outSeq = NextSeq(session.outSeq)
  BY DEF Says
<1>4. Len(sent') <= MaxSeq => session'.outSeq = Len(sent')
  <2>1. ASSUME Len(sent) + 1 <= MaxSeq PROVE NextSeq(Len(sent)) = Len(sent) + 1
    BY <1>2, <2>1, MaxSeqAssumption DEF NextSeq
  <2>. QED
    BY <1>2, <1>3, <2>1, MaxSeqAssumption DEF Counted
<1>5. ASSUME NEW i \in DOMAIN sent', i - 1 <= MaxSeq PROVE sent'[i].seq = i - 1
  <2>1. CASE i \in DOMAIN sent
    BY <1>2, <1>5, <2>1 DEF Counted
  <2>2. CASE i = Len(sent) + 1
    BY <1>2, <1>3, <1>5, <2>2, MaxSeqAssumption DEF Counted
  <2>. QED
    BY <1>2, <2>1, <2>2
<1>. QED
  BY <1>4, <1>5 DEF Counted

\* The first frame of a session is answered, whatever it is.
LEMMA FirstFrame ==
  ASSUME NEW s \in Sessions, NEW f \in Frames, s.state = "NEW"
  PROVE  OnFrame(s, f).frames # << >>
<1>1. \A t, type, payload : Reply(t, type, payload).frames # << >>
  BY DEF Reply
<1>2. \A t, code : Error(t, code).frames # << >>
  BY <1>1 DEF Error, Closing
<1>3. \A t : OnHello(t, f).frames # << >>
  BY <1>1, <1>2 DEF OnHello
<1>4. \A t : t.state = "NEW" => Dispatch(t, f).frames # << >>
  BY <1>2, <1>3 DEF Dispatch
<1>5. [s EXCEPT !.lastPeerSeq = f.seq].state = "NEW"
  BY DEF Sessions
<1>. QED
  BY <1>2, <1>4, <1>5 DEF OnFrame

LEMMA ReadFrameReplies ==
  ASSUME ConnectionInv, ReplyInv, ReadFrame
  PROVE  ReplyInv'
<1>. DEFINE f == Head(toServer)
<1>1. /\ Live(session) /\ f \in Frames /\ session'.state \in {"READY", "CLOSED"}
      /\ \/ /\ SaysNothing /\ handled' = Append(handled, f)
            /\ f.type \in {"PONG", "ACK", "ERROR"}
         \/ \E x : Says(x) /\ Echoes(x, f) /\ handled' = Append(handled, f)
         \/ \E x : Says(x) /\ Refuses(x) /\ handled' = handled /\ session'.state = "CLOSED"
  BY ReadFrameSays
<1>2. session.state = "NEW" => ~SaysNothing
  <2>1. Apply(OnFrame(session, f)) /\ session \in Sessions /\ sent \in Seq(Frames)
    BY DEF ReadFrame, ConnectionInv, ServerTypeOK
  <2>2. OnFrame(session, f) \in Reactions
    BY <1>1, <2>1, OnFrameType
  <2>. DEFINE out == OnFrame(session, f).frames
  <2>3. session.state = "NEW" => out \in Seq(Frames) /\ out # << >> /\ sent' = sent \o out
    BY <1>1, <2>1, <2>2, FirstFrame DEF Reactions, Apply
  <2>. HIDE DEF out
  <2>. QED
    BY <2>1, <2>3 DEF SaysNothing
<1>. HIDE DEF f
<1>3. sent \in Seq(Frames) /\ handled \in Seq(Frames)
  BY DEF ConnectionInv, ServerTypeOK
<1>4. CASE /\ SaysNothing /\ handled' = Append(handled, f)
           /\ f.type \in {"PONG", "ACK", "ERROR"}
  <2>1. Begun'
    BY <1>1, <1>2, <1>3, <1>4, Behind DEF ReplyInv, Begun, SaysNothing, Live
  <2>2. Counted'
    BY <1>4 DEF ReplyInv, Counted, SaysNothing
  <2>3. Paired(handled', sent')
    BY <1>1, <1>3, <1>4, PairedQuiet DEF ReplyInv, SaysNothing
  <2>. QED
    BY <2>1, <2>2, <2>3 DEF ReplyInv
<1>5. ASSUME NEW x, Says(x), Echoes(x, f), handled' = Append(handled, f)
      PROVE  ReplyInv'
  <2>1. x \in Frames /\ sent' = Append(sent, x)
    BY <1>5 DEF Says
  <2>2. Begun'
    BY <1>1, <1>3, <1>5, <2>1, Behind DEF ReplyInv, Begun, Live
  <2>3. Counted'
    BY <1>5, CountedSaid DEF ReplyInv
  <2>4. Paired(handled', sent')
    BY <1>1, <1>3, <1>5, <2>1, PairedAnswer DEF ReplyInv
  <2>. QED
    BY <2>2, <2>3, <2>4 DEF ReplyInv
<1>6. ASSUME NEW x, Says(x), Refuses(x), handled' = handled, session'.state = "CLOSED"
      PROVE  ReplyInv'
  <2>1. x \in Frames /\ sent' = Append(sent, x) /\ x.type = "ERROR"
    BY <1>6 DEF Says, Refuses
  <2>2. Begun'
    BY <1>6 DEF Begun
  <2>3. Counted'
    BY <1>6, CountedSaid DEF ReplyInv
  <2>4. Paired(handled', sent')
    BY <1>3, <1>6, <2>1, PairedRefusal DEF ReplyInv
  <2>. QED
    BY <2>2, <2>3, <2>4 DEF ReplyInv
<1>. QED
  BY <1>1, <1>4, <1>5, <1>6

LEMMA ServerStepReplies ==
  ASSUME ConnectionInv, ReplyInv, ServerStep
  PROVE  ReplyInv'
<1>1. CASE ReadFrame
  BY <1>1, ReadFrameReplies
<1>2. CASE ReadFault
  <2>1. handled' = handled /\ session'.state = "CLOSED" /\ \E x : Says(x) /\ Refuses(x)
    BY <1>2, ReadFaultSays
  <2>2. PICK x : Says(x) /\ Refuses(x)
    BY <2>1
  <2>3. x \in Frames /\ sent' = Append(sent, x) /\ x.type = "ERROR"
    BY <2>2 DEF Says, Refuses
  <2>4. sent \in Seq(Frames) /\ handled \in Seq(Frames)
    BY DEF ConnectionInv, ServerTypeOK
  <2>5. Begun'
    BY <2>1 DEF Begun
  <2>6. Counted'
    BY <2>2, CountedSaid DEF ReplyInv
  <2>7. Paired(handled', sent')
    BY <2>1, <2>3, <2>4, PairedRefusal DEF ReplyInv
  <2>. QED
    BY <2>5, <2>6, <2>7 DEF ReplyInv
<1>3. CASE Timeout
  <2>1. SaysNothing /\ handled' = handled /\ session'.state = "CLOSED"
    BY <1>3, TimeoutSays
  <2>. QED
    BY <2>1 DEF SaysNothing, ReplyInv, Begun, Counted, Paired
<1>4. CASE PeerGone \/ Drained \/ WaitClosed
  BY <1>4, RepliesKept DEF PeerGone, Drained, WaitClosed
<1>. QED
  BY <1>1, <1>2, <1>3, <1>4 DEF ServerStep

\* The numbers of what is sent count it, where there are numbers enough.
LEMMA RepliesInOrder ==
  ASSUME ConnectionInv, ReplyInv, Len(sent) <= MaxSeq + 1
  PROVE  AnswersInOrder
<1>1. \E place \in [Asked -> Answered] : Places(place)
  <2>1. PICK place : Pairs(place, handled, sent)
    BY DEF ReplyInv, Paired
  <2>2. Asked = Requests(handled) /\ Answered = Replies(sent)
    BY DEF Asked, Answered, Requests, Replies
  <2>. QED
    BY <2>1, <2>2 DEF Pairs, Places
<1>2. \A i \in DOMAIN sent : sent[i].seq = i - 1
  <2>1. sent \in Seq(Frames)
    BY DEF ConnectionInv, ServerTypeOK
  <2>2. \A i \in DOMAIN sent : i - 1 <= MaxSeq
    BY <2>1, MaxSeqAssumption
  <2>. QED
    BY <2>2 DEF ReplyInv, Counted
<1>. QED
  BY <1>1, <1>2 DEF AnswersInOrder
=============================================================================
