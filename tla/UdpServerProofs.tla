--------------------------- MODULE UdpServerProofs --------------------------
(***************************************************************************)
(* Proofs about the UDP server: what it sends in answer to a datagram, what*)
(* its window keeps, and that a datagram preserves its invariant.          *)
(***************************************************************************)
EXTENDS UdpServer, SessionProofs

-----------------------------------------------------------------------------
(* Types.                                                                  *)

LEMMA AckFirstType ==
  ASSUME NEW s \in Sessions, NEW f \in Frames
  PROVE  AckFirst(s, f) \in Reactions
<1>1. [ack_seq |-> f.seq] \in Payload
  BY ControlPayloads DEF Frames
<1>2. Ack(s, f.seq) \in Reactions
  BY <1>1, ReplyType DEF Ack, MsgType
<1>. QED
  BY <1>2, SilentType DEF AckFirst

LEMMA AnsweringType ==
  ASSUME NEW s \in Sessions, NEW f \in Frames
  PROVE  Answering(s, f) \in Reactions
<1>1. AckFirst(s, f) \in Reactions
  BY AckFirstType
<1>2. OnFrame(AckFirst(s, f).session, f) \in Reactions
  BY <1>1, OnFrameType DEF Reactions
<1>. QED
  BY <1>1, <1>2 DEF Answering, Reactions

LEMMA ConcatIndex ==
  ASSUME NEW S, NEW a \in Seq(S), NEW b \in Seq(S)
  PROVE  /\ \A i \in DOMAIN b : /\ Len(a) + i \in DOMAIN (a \o b)
                                /\ (a \o b)[Len(a) + i] = b[i]
         /\ \A i \in DOMAIN (a \o b) :
              \/ i \in DOMAIN a /\ (a \o b)[i] = a[i]
              \/ i - Len(a) \in DOMAIN b /\ (a \o b)[i] = b[i - Len(a)]
OBVIOUS

NoError(frames) == \A i \in DOMAIN frames : frames[i].type # "ERROR"

LEMMA ConcatNoError ==
  ASSUME NEW a \in Seq(Frames), NEW b \in Seq(Frames)
  PROVE  NoError(a \o b) <=> NoError(a) /\ NoError(b)
<1>1. ASSUME NoError(a \o b)
      PROVE  NoError(a) /\ NoError(b)
  <2>1. \A i \in DOMAIN a : i \in DOMAIN (a \o b) /\ (a \o b)[i] = a[i]
    OBVIOUS
  <2>2. \A i \in DOMAIN b : /\ Len(a) + i \in DOMAIN (a \o b)
                            /\ (a \o b)[Len(a) + i] = b[i]
    BY ConcatIndex
  <2>. DEFINE ab == a \o b
  <2>. HIDE DEF ab
  <2>3. NoError(ab)
    BY <1>1 DEF ab
  <2>4. NoError(a)
    BY <2>1, <2>3 DEF NoError, ab
  <2>5. NoError(b)
    BY <2>2, <2>3, Zenon DEF NoError, ab
  <2>. QED
    BY <2>4, <2>5
<1>2. ASSUME NoError(a), NoError(b)
      PROVE  NoError(a \o b)
  BY <1>2, ConcatIndex DEF NoError
<1>. QED
  BY <1>1, <1>2

LEMMA AckFirstFacts ==
  ASSUME NEW s \in Sessions, NEW f \in Frames
  PROVE  LET r == AckFirst(s, f)
         IN  /\ r.session.id = s.id
             /\ r.session.state = s.state
             /\ r.session.lastPeerSeq = s.lastPeerSeq
             /\ Accepted(r)
BY ReplyFacts, SilentFacts DEF AckFirst, Ack, Silent

LEMMA AnsweringFacts ==
  ASSUME NEW s \in Sessions, Live(s), NEW f \in Frames
  PROVE  LET r == Answering(s, f)
         IN  /\ r.session.id = s.id
             /\ Accepted(r) => /\ s.lastPeerSeq < f.seq
                               /\ f.type = "HELLO" <=> s.state = "NEW"
             /\ ~r.close => /\ Accepted(r)
                            /\ r.session.state = "READY"
                            /\ r.session.lastPeerSeq = f.seq
<1>. DEFINE acked == AckFirst(s, f)
            t == acked.session
            reaction == OnFrame(t, f)
            r == Answering(s, f)
<1>1. /\ acked \in Reactions
      /\ t \in Sessions
      /\ t.id = s.id /\ t.state = s.state /\ t.lastPeerSeq = s.lastPeerSeq
      /\ Accepted(acked)
  BY AckFirstType, AckFirstFacts DEF Reactions
<1>2. Live(t)
  BY <1>1 DEF Live
<1>3. r.session = reaction.session /\ r.close = reaction.close
      /\ r.frames = acked.frames \o reaction.frames
  BY DEF Answering
<1>. HIDE DEF t, acked
<1>4. /\ reaction \in Reactions
      /\ reaction.session.id = s.id
      /\ Accepted(reaction) => /\ s.lastPeerSeq < f.seq
                               /\ f.type = "HELLO" <=> s.state = "NEW"
      /\ ~reaction.close => /\ Accepted(reaction)
                            /\ reaction.session.state = "READY"
                            /\ reaction.session.lastPeerSeq = f.seq
  BY <1>1, <1>2, OnFrameType, OnFrameFacts
<1>. HIDE DEF reaction, r
<1>5. Accepted(r) <=> Accepted(reaction)
  <2>1. acked.frames \in Seq(Frames) /\ reaction.frames \in Seq(Frames)
    BY <1>1, <1>4 DEF Reactions
  <2>2. NoError(r.frames) <=> NoError(acked.frames) /\ NoError(reaction.frames)
    BY <1>3, <2>1, ConcatNoError
  <2>. QED
    BY <1>1, <2>2 DEF Accepted, NoError
<1>6. /\ r.session.id = s.id
      /\ Accepted(r) => /\ s.lastPeerSeq < f.seq
                        /\ f.type = "HELLO" <=> s.state = "NEW"
      /\ ~r.close => /\ Accepted(r)
                     /\ r.session.state = "READY"
                     /\ r.session.lastPeerSeq = f.seq
  BY <1>3, <1>4, <1>5
<1>. QED
  BY <1>6 DEF r

LEMMA AnsweringEnds ==
  ASSUME NEW s \in Sessions, s.state = "READY", NEW f \in Frames,
         s.lastPeerSeq < f.seq, f.type \notin {"HELLO", "HELLO_ACK", "ERROR"},
         Answering(s, f).close
  PROVE  f.type = "BYE" /\ Accepted(Answering(s, f))
<1>. DEFINE acked == AckFirst(s, f)
            t == acked.session
            reaction == OnFrame(t, f)
            r == Answering(s, f)
<1>1. /\ acked \in Reactions /\ t \in Sessions
      /\ t.state = "READY" /\ t.lastPeerSeq = s.lastPeerSeq
      /\ Accepted(acked)
  BY AckFirstType, AckFirstFacts DEF Reactions
<1>2. r.close = reaction.close /\ r.frames = acked.frames \o reaction.frames
  BY DEF Answering
<1>. HIDE DEF acked, t
<1>3. f.type = "BYE" /\ Accepted(reaction) /\ reaction \in Reactions
  BY <1>1, <1>2, OnFrameEnds, OnFrameType
<1>. HIDE DEF reaction, r
<1>4. acked.frames \in Seq(Frames) /\ reaction.frames \in Seq(Frames)
  BY <1>1, <1>3 DEF Reactions
<1>5. NoError(r.frames)
  BY <1>1, <1>2, <1>3, <1>4, ConcatNoError DEF Accepted, NoError
<1>6. Accepted(r)
  BY <1>5 DEF Accepted, NoError
<1>. QED
  BY <1>3, <1>6 DEF r

-----------------------------------------------------------------------------
(* A datagram preserves the types.                                         *)

Entries == [seq : 0..MaxSeq, reply : Seq(Frames)]
Peers   == [session : Sessions, window : Seq(Entries)]
Runs    == [session : Nat, seq : 0..MaxSeq, type : MsgType, payload : Payload]

LEMMA NewPeerType ==
  ASSUME NEW id \in Nat
  PROVE  NewPeer(id) \in Peers
BY MaxSeqAssumption DEF NewPeer, NewSession, Peers, Sessions, State

LEMMA PutFacts ==
  ASSUME NEW w \in Seq(Entries), NEW seq \in 0..MaxSeq, NEW reply \in Seq(Frames),
         ~Cached(w, seq)
  PROVE  /\ Put(w, seq, reply) \in Seq(Entries)
         /\ Put(w, seq, reply) # << >>
         /\ Put(w, seq, reply)[Len(Put(w, seq, reply))] = [seq |-> seq, reply |-> reply]
         /\ \A i \in DOMAIN Put(w, seq, reply) :
              \/ i = Len(Put(w, seq, reply))
              \/ \E j \in DOMAIN w : Put(w, seq, reply)[i] = w[j]
<1>. DEFINE e == [seq |-> seq, reply |-> reply]
            v == Append(w, e)
<1>1. e \in Entries
  BY DEF Entries
<1>2. Put(w, seq, reply) = KeepLast(v)
  BY DEF Put
<1>. HIDE DEF e
<1>3. /\ v \in Seq(Entries)
      /\ Len(v) = Len(w) + 1
      /\ v[Len(v)] = e
      /\ \A i \in DOMAIN v : i # Len(v) => i \in DOMAIN w /\ v[i] = w[i]
  BY <1>1
<1>. HIDE DEF v
<1>4. /\ KeepLast(v) \in Seq(Entries)
      /\ Len(KeepLast(v)) \in Nat \ {0}
      /\ KeepLast(v)[Len(KeepLast(v))] = v[Len(v)]
      /\ \A i \in DOMAIN KeepLast(v) : i # Len(KeepLast(v)) =>
           \E j \in DOMAIN v : j # Len(v) /\ KeepLast(v)[i] = v[j]
  <2>1. CASE Len(v) > DedupSize
    <3>. DEFINE m == Len(v) - DedupSize + 1
    <3>1. KeepLast(v) = SubSeq(v, m, Len(v))
      BY <2>1 DEF KeepLast
    <3>2. m \in 1..Len(v) /\ Len(v) - m + 1 = DedupSize /\ Len(v) \in Nat
      BY <1>3, <2>1, DedupSizeAssumption
    <3>3. /\ SubSeq(v, m, Len(v)) \in Seq(Entries)
          /\ Len(SubSeq(v, m, Len(v))) = DedupSize
          /\ \A i \in 1..DedupSize : SubSeq(v, m, Len(v))[i] = v[m + i - 1]
      BY <1>3, <3>2, DedupSizeAssumption
    <3>. HIDE DEF m
    <3>4. SubSeq(v, m, Len(v))[DedupSize] = v[Len(v)]
      BY <3>2, <3>3, DedupSizeAssumption
    <3>5. \A i \in 1..DedupSize : i # DedupSize =>
            \E j \in DOMAIN v : j # Len(v) /\ SubSeq(v, m, Len(v))[i] = v[j]
      <4>1. TAKE i \in 1..DedupSize
      <4>2. HAVE i # DedupSize
      <4>3. m + i - 1 \in DOMAIN v /\ m + i - 1 # Len(v)
        BY <1>3, <3>2, <4>2, DedupSizeAssumption
      <4>. QED
        BY <3>3, <4>3
    <3>6. DOMAIN SubSeq(v, m, Len(v)) = 1..DedupSize
      BY <3>3
    <3>. QED
      BY <3>1, <3>3, <3>4, <3>5, <3>6, DedupSizeAssumption
  <2>2. CASE ~(Len(v) > DedupSize)
    <3>1. KeepLast(v) = v
      BY <2>2 DEF KeepLast
    <3>. QED
      BY <1>3, <3>1
  <2>. QED
    BY <2>1, <2>2
<1>5. KeepLast(v) # << >>
  BY <1>4
<1>6. \A i \in DOMAIN KeepLast(v) :
        i = Len(KeepLast(v)) \/ \E j \in DOMAIN w : KeepLast(v)[i] = w[j]
  BY <1>3, <1>4
<1>. QED
  BY <1>2, <1>3, <1>4, <1>5, <1>6 DEF e

-----------------------------------------------------------------------------
(* The frames of a reaction: at most one, and which.                       *)

\* frames is the answer of session s to f, or an ERROR, which is ERR_SEQ only if stale.
AnswerOrError(frames, s, f, stale) ==
  \/ frames = << >> /\ f.type \in {"PONG", "ACK", "ERROR"}
  \/ \E x : /\ frames = << x >>
            /\ x.type \notin {"ACK", "ERROR"}
            /\ [type |-> x.type, payload |-> x.payload] = Answer(Run(s.id, f))
  \/ \E x : /\ frames = << x >>
            /\ x.type = "ERROR"
            /\ \E code \in ErrorCode : /\ x.payload = [code |-> code]
                                       /\ code = "ERR_SEQ" => stale

LEMMA FrameFields ==
  ASSUME NEW type, NEW seq, NEW payload, NEW flags
  PROVE  /\ Frame(type, seq, payload, flags).type = type
         /\ Frame(type, seq, payload, flags).payload = payload
BY DEF Frame

LEMMA ErrorFrames ==
  ASSUME NEW s \in Sessions, NEW s0, NEW f, NEW code \in ErrorCode, NEW stale \in BOOLEAN,
         code = "ERR_SEQ" => stale
  PROVE  AnswerOrError(Error(s, code).frames, s0, f, stale)
<1>. DEFINE x == Frame("ERROR", s.outSeq, [code |-> code], {})
<1>1. Error(s, code).frames = << x >>
  BY DEF Error, Closing, Reply
<1>2. x.type = "ERROR" /\ x.payload = [code |-> code]
  BY FrameFields
<1>. HIDE DEF x
<1>. QED
  BY <1>1, <1>2 DEF AnswerOrError

LEMMA ReplyFrames ==
  ASSUME NEW s \in Sessions, NEW s0, NEW f, NEW stale,
         NEW type \in MsgType \ {"ACK", "ERROR"}, NEW payload \in Payload,
         [type |-> type, payload |-> payload] = Answer(Run(s0.id, f))
  PROVE  AnswerOrError(Reply(s, type, payload).frames, s0, f, stale)
<1>. DEFINE x == Frame(type, s.outSeq, payload, {})
<1>1. Reply(s, type, payload).frames = << x >>
  BY DEF Reply
<1>2. x.type = type /\ x.payload = payload
  BY FrameFields
<1>. HIDE DEF x
<1>. QED
  BY <1>1, <1>2 DEF AnswerOrError

LEMMA AnswerOrErrorHead ==
  ASSUME NEW frames, NEW s, NEW f, NEW stale,
         AnswerOrError(frames, s, f, stale), frames # << >>
  PROVE  frames[1].type # "ACK"
<1>1. PICK x : frames = << x >> /\ x.type # "ACK"
  BY DEF AnswerOrError
<1>. QED
  BY <1>1

LEMMA TwoFrames ==
  ASSUME NEW a, NEW x
  PROVE  LET ax == << a >> \o << x >>
         IN  /\ ax[1] = a
             /\ ax[Len(ax)] = x
             /\ DOMAIN ax = {1, 2}
             /\ ax[2] = x
OBVIOUS

LEMMA DecodeNotSeq ==
  ASSUME NEW payload, NEW field
  PROVE  Decode(payload, field) # "ERR_SEQ"
BY DEF Decode

LEMMA DispatchFrames ==
  ASSUME NEW s \in Sessions, Live(s), NEW f \in Frames
  PROVE  AnswerOrError(Dispatch(s, f).frames, s, f, FALSE)
<1>. DEFINE r == Dispatch(s, f)
<1>1. f.type \in MsgType /\ f.payload \in Payload /\ f.seq \in 0..MaxSeq /\ s.id \in Nat
  BY DEF Frames, Sessions
<1>2. /\ Run(s.id, f).type = f.type
      /\ Run(s.id, f).payload = f.payload
      /\ Run(s.id, f).session = s.id
  BY DEF Run
<1>3. AnswerOrError(Error(s, "ERR_STATE").frames, s, f, FALSE)
  BY ErrorFrames DEF ErrorCode
<1>4. CASE s.state = "NEW" /\ f.type = "HELLO"
  <2>. DEFINE fault == Decode(f.payload, "client_id")
              ready == [s EXCEPT !.state = "READY"]
              p == [session_id |-> s.id]
  <2>1. CASE fault # "OK"
    <3>1. r = Error(s, fault)
      BY <1>4, <2>1 DEF Dispatch, OnHello
    <3>. HIDE DEF r
    <3>2. fault \in ErrorCode \ {"ERR_SEQ"}
      BY <2>1, DecodeCases, DecodeNotSeq
    <3>. HIDE DEF fault
    <3>. QED
      BY <3>1, <3>2, ErrorFrames DEF r
  <2>2. CASE fault = "OK"
    <3>1. r = Reply(ready, "HELLO_ACK", p)
      BY <1>4, <2>2 DEF Dispatch, OnHello
    <3>2. ready \in Sessions /\ p \in Payload
      BY <1>1, ControlPayloads DEF Sessions, State
    <3>3. [type |-> "HELLO_ACK", payload |-> p] = Answer(Run(s.id, f))
      BY <1>2, <1>4 DEF Answer
    <3>. HIDE DEF ready, p, r
    <3>4. AnswerOrError(Reply(ready, "HELLO_ACK", p).frames, s, f, FALSE)
      BY <3>2, <3>3, ReplyFrames DEF MsgType
    <3>. QED
      BY <3>1, <3>4 DEF r
  <2>. QED
    BY <2>1, <2>2
<1>5. CASE s.state = "NEW" /\ f.type # "HELLO"
  BY <1>3, <1>5 DEF Dispatch
<1>6. CASE s.state = "READY"
  <2>1. CASE f.type \in {"HELLO", "HELLO_ACK"}
    BY <1>3, <1>6, <2>1 DEF Dispatch
  <2>2. CASE f.type = "PING"
    <3>1. r = Reply(s, "PONG", f.payload)
      BY <1>6, <2>2 DEF Dispatch
    <3>2. [type |-> "PONG", payload |-> f.payload] = Answer(Run(s.id, f))
      BY <1>2, <2>2 DEF Answer
    <3>. QED
      BY <1>1, <3>1, <3>2, ReplyFrames DEF MsgType
  <2>3. CASE f.type = "DATA"
    <3>1. r = Reply(s, "DATA", f.payload)
      BY <1>6, <2>3 DEF Dispatch
    <3>2. [type |-> "DATA", payload |-> f.payload] = Answer(Run(s.id, f))
      BY <1>2, <2>3 DEF Answer
    <3>. QED
      BY <1>1, <3>1, <3>2, ReplyFrames DEF MsgType
  <2>4. CASE f.type \in {"PONG", "ACK"}
    <3>1. r.frames = << >>
      BY <1>6, <2>4 DEF Dispatch, Silent
    <3>. QED
      BY <2>4, <3>1 DEF AnswerOrError
  <2>5. CASE f.type = "BYE"
    <3>1. r.frames = Reply(s, "BYE", NoPayload).frames
      BY <1>6, <2>5 DEF Dispatch, Closing
    <3>2. [type |-> "BYE", payload |-> NoPayload] = Answer(Run(s.id, f))
      BY <1>2, <2>5 DEF Answer
    <3>. QED
      BY <3>1, <3>2, ReplyFrames, ControlPayloads DEF MsgType
  <2>6. CASE f.type = "ERROR"
    <3>. DEFINE fault == Decode(f.payload, "code")
    <3>1. r = OnError(s, f)
      BY <1>6, <2>6 DEF Dispatch
    <3>2. CASE fault = "OK"
      <4>1. r.frames = << >>
        BY <3>1, <3>2 DEF OnError, Silent, Closing
      <4>. QED
        BY <2>6, <4>1 DEF AnswerOrError
    <3>3. CASE fault # "OK"
      <4>1. r = Error(s, fault) /\ fault \in ErrorCode \ {"ERR_SEQ"}
        BY <3>1, <3>3, DecodeCases, DecodeNotSeq DEF OnError
      <4>. HIDE DEF fault
      <4>. QED
        BY <4>1, ErrorFrames
    <3>. QED
      BY <3>2, <3>3
  <2>. QED
    BY <1>1, <2>1, <2>2, <2>3, <2>4, <2>5, <2>6 DEF MsgType
<1>. QED
  BY <1>4, <1>5, <1>6 DEF Live

LEMMA OnFrameFrames ==
  ASSUME NEW s \in Sessions, Live(s), NEW f \in Frames
  PROVE  AnswerOrError(OnFrame(s, f).frames, s, f, f.seq <= s.lastPeerSeq)
<1>. DEFINE heard == [s EXCEPT !.lastPeerSeq = f.seq]
            stale == f.seq <= s.lastPeerSeq
<1>1. CASE stale
  <2>1. OnFrame(s, f) = Error(s, "ERR_SEQ")
    BY <1>1 DEF OnFrame, Live
  <2>2. AnswerOrError(Error(s, "ERR_SEQ").frames, s, f, TRUE)
    BY ErrorFrames DEF ErrorCode
  <2>. QED
    BY <1>1, <2>1, <2>2
<1>2. CASE ~stale
  <2>1. OnFrame(s, f) = Dispatch(heard, f)
    BY <1>2 DEF OnFrame, Live
  <2>2. heard \in Sessions /\ heard.id = s.id /\ Live(heard)
    BY DEF Sessions, Frames, Live
  <2>. HIDE DEF heard
  <2>3. AnswerOrError(Dispatch(heard, f).frames, heard, f, FALSE)
    BY <2>2, DispatchFrames
  <2>. QED
    BY <1>2, <2>1, <2>2, <2>3 DEF AnswerOrError
<1>. QED
  BY <1>1, <1>2

\* frames acknowledge f, and end with its answer or with an ERROR.
AnswersOrRefuses(frames, s, f) ==
  /\ frames[1].payload.ack_seq = f.seq
  /\ LET last == frames[Len(frames)]
     IN  \/ /\ last.type # "ERROR"
            /\ NoError(frames)
            /\ Answer(Run(s.id, f)) = [type |-> last.type, payload |-> last.payload]
         \/ /\ last.type = "ERROR"
            /\ \E code \in ErrorCode :
                 /\ last.payload = [code |-> code]
                 /\ code = "ERR_SEQ" => f.seq <= s.lastPeerSeq

LEMMA AnsweringFrames ==
  ASSUME NEW s \in Sessions, Live(s), NEW f \in Frames,
         Answering(s, f).frames # << >>,
         Answering(s, f).frames[1].type = "ACK"
  PROVE  AnswersOrRefuses(Answering(s, f).frames, s, f)
<1>. DEFINE acked == AckFirst(s, f)
            t == acked.session
            reaction == OnFrame(t, f)
            frames == Answering(s, f).frames
            ack == Frame("ACK", s.outSeq, [ack_seq |-> f.seq], {})
<1>1. frames = acked.frames \o reaction.frames
  BY DEF Answering
<1>2. /\ acked \in Reactions
      /\ t \in Sessions
      /\ t.id = s.id /\ t.state = s.state /\ t.lastPeerSeq = s.lastPeerSeq
  BY AckFirstType, AckFirstFacts DEF Reactions
<1>3. Live(t)
  BY <1>2 DEF Live
<1>4. /\ reaction.frames \in Seq(Frames)
      /\ AnswerOrError(reaction.frames, t, f, f.seq <= t.lastPeerSeq)
  BY <1>2, <1>3, OnFrameType, OnFrameFrames DEF Reactions
<1>5. CASE "REQUIRE_ACK" \notin f.flags
  <2>1. acked.frames = << >>
    BY <1>5 DEF AckFirst, Silent
  <2>2. frames = reaction.frames
    BY <1>1, <1>4, <2>1
  <2>3. frames # << >> /\ frames[1].type = "ACK"
    OBVIOUS
  <2>. HIDE DEF frames, reaction
  <2>4. FALSE
    BY <1>4, <2>2, <2>3, AnswerOrErrorHead
  <2>. QED
    BY <2>4
<1>6. CASE "REQUIRE_ACK" \in f.flags
  <2>1. acked.frames = << ack >>
    BY <1>6 DEF AckFirst, Ack, Reply
  <2>2. frames = << ack >> \o reaction.frames
    BY <1>1, <2>1
  <2>3. /\ ack.type = "ACK"
        /\ ack.payload = [ack_seq |-> f.seq]
    BY DEF Frame
  <2>. HIDE DEF ack
  <2>4. CASE reaction.frames = << >> /\ f.type \in {"PONG", "ACK", "ERROR"}
    <3>1. frames = << ack >>
      BY <2>2, <2>4
    <3>2. Answer(Run(s.id, f)) = [type |-> "ACK", payload |-> [ack_seq |-> f.seq]]
      BY <2>4 DEF Answer, Run
    <3>. HIDE DEF frames
    <3>3. /\ frames[1] = ack
          /\ frames[Len(frames)] = ack
          /\ NoError(frames)
      BY <2>3, <3>1 DEF NoError
    <3>4. AnswersOrRefuses(frames, s, f)
      BY <2>3, <3>2, <3>3 DEF AnswersOrRefuses
    <3>. QED
      BY <3>4 DEF frames
  <2>5. ASSUME NEW x, reaction.frames = << x >>
        PROVE  /\ frames[1] = ack
               /\ frames[Len(frames)] = x
               /\ x.type # "ERROR" => NoError(frames)
    <3>1. frames = << ack >> \o << x >>
      BY <2>2, <2>5
    <3>. HIDE DEF frames
    <3>2. /\ frames[1] = ack
          /\ frames[Len(frames)] = x
          /\ DOMAIN frames = {1, 2}
          /\ frames[2] = x
      BY <3>1, TwoFrames
    <3>. QED
      BY <2>3, <3>2 DEF NoError
  <2>6. ASSUME NEW x, reaction.frames = << x >>,
               x.type \notin {"ACK", "ERROR"},
               [type |-> x.type, payload |-> x.payload] = Answer(Run(t.id, f))
        PROVE  AnswersOrRefuses(frames, s, f)
    <3>1. frames[1] = ack /\ frames[Len(frames)] = x /\ NoError(frames)
      BY <2>5, <2>6
    <3>. HIDE DEF frames, t
    <3>. QED
      BY <1>2, <2>3, <2>6, <3>1 DEF AnswersOrRefuses
  <2>7. ASSUME NEW x, reaction.frames = << x >>,
               x.type = "ERROR",
               NEW code \in ErrorCode, x.payload = [code |-> code],
               code = "ERR_SEQ" => f.seq <= t.lastPeerSeq
        PROVE  AnswersOrRefuses(frames, s, f)
    <3>1. frames[1] = ack /\ frames[Len(frames)] = x
      BY <2>5, <2>7
    <3>. HIDE DEF frames, t
    <3>. QED
      BY <1>2, <2>3, <2>7, <3>1 DEF AnswersOrRefuses
  <2>. QED
    BY <1>4, <2>4, <2>6, <2>7 DEF AnswerOrError
<1>. QED
  BY <1>5, <1>6

-----------------------------------------------------------------------------
(* The inductive invariant.  RunsInOrder needs that nothing later than the *)
(* session's last accepted number has run; AnswersAreOfRuns needs that the *)
(* window holds nothing that was not sent; HandshakeFirst needs that a new *)
(* session is one in which nothing has run.                                *)

PeersLive == \A c \in Client : Live(peers[c].session)

RunsBelow ==
  \A c \in Client : \A i \in DOMAIN ran[c] :
    \/ ran[c][i].session < peers[c].session.id
    \/ /\ ran[c][i].session = peers[c].session.id
       /\ ran[c][i].seq <= peers[c].session.lastPeerSeq

NewMeansNothingRan ==
  \A c \in Client : peers[c].session.state = "NEW"
    <=> \A i \in DOMAIN ran[c] : ran[c][i].session # peers[c].session.id

LatestCached ==
  \A c \in Client : peers[c].session.lastPeerSeq # -1 =>
    Cached(peers[c].window, peers[c].session.lastPeerSeq)

CacheWasSent ==
  \A c \in Client : \A i \in DOMAIN peers[c].window :
    peers[c].window[i].reply # << >> =>
      [session |-> peers[c].session.id, frames |-> peers[c].window[i].reply] \in s2c[c]

ServerInv ==
  /\ ServerTypeOK
  /\ PeersLive
  /\ RunsBelow
  /\ NewMeansNothingRan
  /\ LatestCached
  /\ CacheWasSent
  /\ AnswersAreOfRuns
  /\ RunsInOrder
  /\ HandshakeFirst
  /\ OneAnswerPerRequest

(* A server that has received nothing satisfies the invariant              *)
(* (UdpServer.__init__).                                                   *)
THEOREM ServerInitInv == ServerInit => ServerInv
<1>. SUFFICES ASSUME ServerInit
              PROVE  ServerInv
  OBVIOUS
<1>1. \A c \in Client : /\ peers[c] = NewPeer(0)
                        /\ s2c[c] = {}
                        /\ ran[c] = << >>
  BY DEF ServerInit
<1>2. /\ NewPeer(0).session = [id |-> 0, state |-> "NEW", outSeq |-> 0, lastPeerSeq |-> -1]
      /\ NewPeer(0).window = << >>
  BY DEF NewPeer, NewSession
<1>3. ServerTypeOK
  <2>1. NewPeer(0) \in Peers
    BY NewPeerType
  <2>. QED
    BY <2>1 DEF ServerInit, ServerTypeOK, Peers, Entries
<1>. QED
  BY <1>1, <1>2, <1>3 DEF ServerInv, PeersLive, Live, RunsBelow, NewMeansNothingRan,
       LatestCached, CacheWasSent, AnswersAreOfRuns, RunsInOrder, HandshakeFirst,
       OneAnswerPerRequest

\* A replay sends only what was sent before.
LEMMA ReplayStep ==
  ASSUME ServerInv, NEW c \in Client, NEW f \in Frames, Replay(c, f)
  PROVE  UNCHANGED serverVars
<1>. DEFINE w == peers[c].window
            i == IndexOf(w, f.seq)
<1>1. i \in DOMAIN w
  BY DEF Replay, Cached, IndexOf
<1>2. CachedReply(w, f.seq) = w[i].reply
  BY DEF CachedReply
<1>. HIDE DEF i
<1>3. w[i].reply # << >> =>
        [session |-> peers[c].session.id, frames |-> w[i].reply] \in s2c[c]
  BY <1>1 DEF ServerInv, CacheWasSent
<1>4. s2c \in [Client -> SUBSET [session : Nat, frames : Seq(Frames)]]
  BY DEF ServerInv, ServerTypeOK
<1>5. s2c' = s2c
  BY <1>2, <1>3, <1>4 DEF Replay, SendTo
<1>. QED
  BY <1>5 DEF Replay, serverVars

\* What Handle does, in terms of the reaction.
LEMMA HandleFacts ==
  ASSUME ServerTypeOK, PeersLive, NEW c \in Client, NEW f \in Frames, Handle(c, f)
  PROVE  LET s == peers[c].session
             r == Answering(s, f)
         IN  /\ s \in Sessions /\ Live(s) /\ r \in Reactions
             /\ ~Cached(peers[c].window, f.seq)
             /\ r.frames = << >> => s2c' = s2c
             /\ r.frames # << >> =>
                  s2c' = [s2c EXCEPT ![c] = @ \cup {[session |-> s.id, frames |-> r.frames]}]
             /\ r.close => peers' = [peers EXCEPT ![c] = NewPeer(s.id + 1)]
             /\ ~r.close => peers' = [peers EXCEPT ![c] =
                  [session |-> r.session, window |-> Put(peers[c].window, f.seq, r.frames)]]
             /\ Accepted(r) => ran' = [ran EXCEPT ![c] = Append(@, Run(s.id, f))]
             /\ ~Accepted(r) => ran' = ran
<1>1. peers[c].session \in Sessions /\ Live(peers[c].session)
  BY DEF ServerTypeOK, PeersLive
<1>2. Answering(peers[c].session, f) \in Reactions
  BY <1>1, AnsweringType
<1>. QED
  BY <1>1, <1>2 DEF Handle, SendTo, AfterReaction

LEMMA UpdateFacts ==
  ASSUME NEW S, NEW T, NEW g \in [S -> T], NEW c \in S, NEW v
  PROVE  /\ v \in T => [g EXCEPT ![c] = v] \in [S -> T]
         /\ [g EXCEPT ![c] = v][c] = v
         /\ \A o \in S \ {c} : [g EXCEPT ![c] = v][o] = g[o]
OBVIOUS

LEMMA HandleType ==
  ASSUME ServerTypeOK, PeersLive, NEW c \in Client, NEW f \in Frames, Handle(c, f)
  PROVE  ServerTypeOK'
<1>. DEFINE s == peers[c].session
            r == Answering(s, f)
            w == peers[c].window
<1>1. /\ s \in Sessions /\ r \in Reactions
      /\ ~Cached(w, f.seq)
      /\ r.frames = << >> => s2c' = s2c
      /\ r.frames # << >> =>
           s2c' = [s2c EXCEPT ![c] = @ \cup {[session |-> s.id, frames |-> r.frames]}]
      /\ r.close => peers' = [peers EXCEPT ![c] = NewPeer(s.id + 1)]
      /\ ~r.close => peers' = [peers EXCEPT ![c] =
           [session |-> r.session, window |-> Put(w, f.seq, r.frames)]]
      /\ Accepted(r) => ran' = [ran EXCEPT ![c] = Append(@, Run(s.id, f))]
      /\ ~Accepted(r) => ran' = ran
  BY HandleFacts
<1>2. /\ peers \in [Client -> Peers]
      /\ s2c \in [Client -> SUBSET [session : Nat, frames : Seq(Frames)]]
      /\ ran \in [Client -> Seq(Runs)]
      /\ w \in Seq(Entries)
  BY DEF ServerTypeOK, Peers, Entries, Runs
<1>. HIDE DEF r
<1>3. s.id \in Nat /\ r.session \in Sessions /\ r.frames \in Seq(Frames)
  BY <1>1 DEF Sessions, Reactions
<1>4. f.seq \in 0..MaxSeq /\ f.type \in MsgType /\ f.payload \in Payload
  BY DEF Frames
<1>5. peers' \in [Client -> Peers]
  <2>1. CASE r.close
    <3>1. NewPeer(s.id + 1) \in Peers
      BY <1>3, NewPeerType
    <3>. QED
      BY <1>1, <1>2, <2>1, <3>1
  <2>2. CASE ~r.close
    <3>1. Put(w, f.seq, r.frames) \in Seq(Entries)
      BY <1>1, <1>2, <1>3, <1>4, PutFacts
    <3>2. [session |-> r.session, window |-> Put(w, f.seq, r.frames)] \in Peers
      BY <1>3, <3>1 DEF Peers
    <3>. QED
      BY <1>1, <1>2, <2>2, <3>2
  <2>. QED
    BY <2>1, <2>2
<1>6. s2c' \in [Client -> SUBSET [session : Nat, frames : Seq(Frames)]]
  <2>1. [session |-> s.id, frames |-> r.frames] \in [session : Nat, frames : Seq(Frames)]
    BY <1>3
  <2>. DEFINE D == [session : Nat, frames : Seq(Frames)]
              v == s2c[c] \cup {[session |-> s.id, frames |-> r.frames]}
  <2>2. v \in SUBSET D
    BY <1>2, <2>1
  <2>3. s2c' = s2c \/ s2c' = [s2c EXCEPT ![c] = v]
    BY <1>1
  <2>. HIDE DEF D, v
  <2>4. [s2c EXCEPT ![c] = v] \in [Client -> SUBSET D]
    BY <1>2, <2>2, UpdateFacts DEF D
  <2>. QED
    BY <1>2, <2>3, <2>4 DEF D
<1>7. ran' \in [Client -> Seq(Runs)]
  <2>1. Run(s.id, f) \in Runs
    BY <1>3, <1>4 DEF Run, Runs
  <2>. DEFINE v == Append(ran[c], Run(s.id, f))
  <2>2. v \in Seq(Runs)
    BY <1>2, <2>1
  <2>3. ran' = ran \/ ran' = [ran EXCEPT ![c] = v]
    BY <1>1
  <2>. HIDE DEF v
  <2>4. [ran EXCEPT ![c] = v] \in [Client -> Seq(Runs)]
    BY <1>2, <2>2, UpdateFacts
  <2>. QED
    BY <1>2, <2>3, <2>4
<1>. QED
  BY <1>5, <1>6, <1>7 DEF ServerTypeOK, Peers, Entries, Runs

\* What Handle leaves behind for the client, and that it touches no other client.
LEMMA HandleEffect ==
  ASSUME ServerTypeOK, PeersLive, NEW c \in Client, NEW f \in Frames, Handle(c, f)
  PROVE  LET s == peers[c].session
             r == Answering(s, f)
             d == [session |-> s.id, frames |-> r.frames]
         IN  /\ r.close  => peers'[c] = NewPeer(s.id + 1)
             /\ ~r.close => /\ peers'[c].session = r.session
                            /\ peers'[c].window = Put(peers[c].window, f.seq, r.frames)
             /\ s2c'[c] = IF r.frames = << >> THEN s2c[c] ELSE s2c[c] \cup {d}
             /\ ran'[c] = IF Accepted(r) THEN Append(ran[c], Run(s.id, f)) ELSE ran[c]
             /\ \A o \in Client \ {c} : /\ peers'[o] = peers[o]
                                        /\ s2c'[o] = s2c[o]
                                        /\ ran'[o] = ran[o]
<1>. DEFINE s == peers[c].session
            r == Answering(s, f)
<1>1. /\ r.frames = << >> => s2c' = s2c
      /\ r.frames # << >> =>
           s2c' = [s2c EXCEPT ![c] = @ \cup {[session |-> s.id, frames |-> r.frames]}]
      /\ r.close => peers' = [peers EXCEPT ![c] = NewPeer(s.id + 1)]
      /\ ~r.close => peers' = [peers EXCEPT ![c] =
           [session |-> r.session, window |-> Put(peers[c].window, f.seq, r.frames)]]
      /\ Accepted(r) => ran' = [ran EXCEPT ![c] = Append(@, Run(s.id, f))]
      /\ ~Accepted(r) => ran' = ran
  BY HandleFacts
<1>2. /\ peers \in [Client -> Peers]
      /\ s2c \in [Client -> SUBSET [session : Nat, frames : Seq(Frames)]]
      /\ ran \in [Client -> Seq(Runs)]
  BY DEF ServerTypeOK, Peers, Entries, Runs
<1>. DEFINE fresh == NewPeer(s.id + 1)
            kept  == [session |-> r.session, window |-> Put(peers[c].window, f.seq, r.frames)]
            sent  == s2c[c] \cup {[session |-> s.id, frames |-> r.frames]}
            more  == Append(ran[c], Run(s.id, f))
<1>3. /\ peers' = IF r.close THEN [peers EXCEPT ![c] = fresh] ELSE [peers EXCEPT ![c] = kept]
      /\ s2c' = IF r.frames = << >> THEN s2c ELSE [s2c EXCEPT ![c] = sent]
      /\ ran' = IF Accepted(r) THEN [ran EXCEPT ![c] = more] ELSE ran
  BY <1>1
<1>4. kept.session = r.session /\ kept.window = Put(peers[c].window, f.seq, r.frames)
  OBVIOUS
<1>. HIDE DEF r, fresh, kept, sent, more
<1>5. /\ peers'[c] = IF r.close THEN fresh ELSE kept
      /\ \A o \in Client \ {c} : peers'[o] = peers[o]
  BY <1>2, <1>3, UpdateFacts
<1>6. /\ s2c'[c] = IF r.frames = << >> THEN s2c[c] ELSE sent
      /\ \A o \in Client \ {c} : s2c'[o] = s2c[o]
  BY <1>2, <1>3, UpdateFacts
<1>7. /\ ran'[c] = IF Accepted(r) THEN more ELSE ran[c]
      /\ \A o \in Client \ {c} : ran'[o] = ran[o]
  BY <1>2, <1>3, UpdateFacts
<1>8. /\ r.close  => peers'[c] = fresh
      /\ ~r.close => /\ peers'[c].session = r.session
                     /\ peers'[c].window = Put(peers[c].window, f.seq, r.frames)
  BY <1>4, <1>5
<1>. QED
  BY <1>5, <1>6, <1>7, <1>8 DEF r, fresh, sent, more

LEMMA AppendFacts ==
  ASSUME NEW S, NEW q \in Seq(S), NEW x
  PROVE  /\ DOMAIN q = 1..Len(q) /\ Len(q) \in Nat
         /\ x \in S => Append(q, x) \in Seq(S)
         /\ Len(Append(q, x)) = Len(q) + 1
         /\ Len(q) + 1 \in DOMAIN Append(q, x)
         /\ Append(q, x)[Len(q) + 1] = x
         /\ \A i \in DOMAIN q : i \in DOMAIN Append(q, x) /\ Append(q, x)[i] = q[i]
         /\ \A i \in DOMAIN Append(q, x) : i \in DOMAIN q \/ i = Len(q) + 1
OBVIOUS

LEMMA HandleStep ==
  ASSUME ServerInv, NEW c \in Client, NEW f \in Frames, Handle(c, f)
  PROVE  ServerInv'
<1>. DEFINE s == peers[c].session
            r == Answering(s, f)
            d == [session |-> s.id, frames |-> r.frames]
            run == Run(s.id, f)
            w == peers[c].window
<1>a. ServerTypeOK /\ PeersLive
  BY DEF ServerInv
<1>1. ServerTypeOK'
  BY <1>a, HandleType
<1>2. s \in Sessions /\ Live(s) /\ r \in Reactions /\ ~Cached(w, f.seq)
  BY <1>a, HandleFacts
<1>3. /\ r.session.id = s.id
      /\ Accepted(r) => /\ s.lastPeerSeq < f.seq
                        /\ f.type = "HELLO" <=> s.state = "NEW"
      /\ ~r.close => /\ Accepted(r)
                     /\ r.session.state = "READY"
                     /\ r.session.lastPeerSeq = f.seq
  BY <1>2, AnsweringFacts
<1>4. /\ r.close  => peers'[c] = NewPeer(s.id + 1)
      /\ ~r.close => /\ peers'[c].session = r.session
                     /\ peers'[c].window = Put(w, f.seq, r.frames)
      /\ s2c'[c] = IF r.frames = << >> THEN s2c[c] ELSE s2c[c] \cup {d}
      /\ ran'[c] = IF Accepted(r) THEN Append(ran[c], run) ELSE ran[c]
      /\ \A o \in Client \ {c} : /\ peers'[o] = peers[o]
                                 /\ s2c'[o] = s2c[o]
                                 /\ ran'[o] = ran[o]
  BY <1>a, HandleEffect
<1>5. r.frames # << >> /\ r.frames[1].type = "ACK" => AnswersOrRefuses(r.frames, s, f)
  BY <1>2, AnsweringFrames
<1>6. /\ run.session = s.id /\ run.seq = f.seq /\ run.type = f.type
      /\ d.session = s.id /\ d.frames = r.frames
      /\ Accepted(r) <=> NoError(r.frames)
  BY DEF Run, Accepted, NoError
<1>7. /\ NewPeer(s.id + 1).session
              = [id |-> s.id + 1, state |-> "NEW", outSeq |-> 0, lastPeerSeq |-> -1]
      /\ NewPeer(s.id + 1).window = << >>
  BY DEF NewPeer, NewSession
<1>b. /\ ran[c] \in Seq(Runs)
      /\ w \in Seq(Entries)
  BY <1>a DEF ServerTypeOK, Runs, Entries
<1>. HIDE DEF s, r, d, run, w
<1>8. /\ s.id \in Nat /\ s.lastPeerSeq \in Int /\ f.seq \in 0..MaxSeq /\ f.seq \in Nat
      /\ r.frames \in Seq(Frames)
  BY <1>2, MaxSeqAssumption DEF Sessions, Frames, Reactions
<1>9. ASSUME NEW i \in DOMAIN ran[c]
      PROVE  ran[c][i].session \in Nat /\ ran[c][i].seq \in Nat
  <2>1. ran[c][i] \in Runs
    BY <1>b
  <2>. QED
    BY <2>1, MaxSeqAssumption DEF Runs
<1>10. /\ r.close  => peers'[c].session.id = s.id + 1 /\ peers'[c].session.state = "NEW"
                      /\ peers'[c].session.lastPeerSeq = -1 /\ peers'[c].window = << >>
       /\ ~r.close => peers'[c].session.id = s.id /\ peers'[c].session.state = "READY"
                      /\ peers'[c].session.lastPeerSeq = f.seq
  BY <1>3, <1>4, <1>7
\* What was there before, and what is new.
<1>11. /\ \A i \in DOMAIN ran'[c] :
            \/ i \in DOMAIN ran[c] /\ ran'[c][i] = ran[c][i]
            \/ i = Len(ran[c]) + 1 /\ ran'[c][i] = run /\ Accepted(r)
       /\ \A i \in DOMAIN ran[c] : i \in DOMAIN ran'[c] /\ ran'[c][i] = ran[c][i]
       /\ Accepted(r) => Len(ran[c]) + 1 \in DOMAIN ran'[c] /\ ran'[c][Len(ran[c]) + 1] = run
       /\ DOMAIN ran[c] = 1..Len(ran[c]) /\ Len(ran[c]) \in Nat
  BY <1>4, <1>b, AppendFacts
<1>20. PeersLive'
  BY <1>a, <1>4, <1>10 DEF PeersLive, Live
<1>21. RunsBelow'
  <2>1. \A i \in DOMAIN ran'[c] : \/ ran'[c][i].session < peers'[c].session.id
                                  \/ /\ ran'[c][i].session = peers'[c].session.id
                                     /\ ran'[c][i].seq <= peers'[c].session.lastPeerSeq
    <3>1. \A i \in DOMAIN ran[c] : \/ ran[c][i].session < s.id
                                   \/ ran[c][i].session = s.id /\ ran[c][i].seq <= s.lastPeerSeq
      BY DEF ServerInv, RunsBelow, s
    <3>. QED
      <4>1. SUFFICES ASSUME NEW i \in DOMAIN ran'[c]
                    PROVE  \/ ran'[c][i].session < peers'[c].session.id
                           \/ /\ ran'[c][i].session = peers'[c].session.id
                              /\ ran'[c][i].seq <= peers'[c].session.lastPeerSeq
        OBVIOUS
      <4>2. CASE i \in DOMAIN ran[c] /\ ran'[c][i] = ran[c][i]
        BY <3>1, <4>2, <1>3, <1>8, <1>9, <1>10
      <4>3. CASE ran'[c][i] = run
        BY <4>3, <1>6, <1>8, <1>10
      <4>. QED
        BY <4>2, <4>3, <1>11
  <2>2. ASSUME NEW o \in Client \ {c}, NEW i \in DOMAIN ran'[o]
        PROVE  \/ ran'[o][i].session < peers'[o].session.id
               \/ /\ ran'[o][i].session = peers'[o].session.id
                  /\ ran'[o][i].seq <= peers'[o].session.lastPeerSeq
    <3>1. RunsBelow /\ ran'[o] = ran[o] /\ peers'[o] = peers[o]
      BY <1>4 DEF ServerInv
    <3>. QED
      BY <3>1 DEF RunsBelow
  <2>. QED
    BY <2>1, <2>2 DEF RunsBelow
<1>22. NewMeansNothingRan'
  <2>1. peers'[c].session.state = "NEW"
          <=> \A i \in DOMAIN ran'[c] : ran'[c][i].session # peers'[c].session.id
    <3>1. CASE r.close
      <4>1. \A i \in DOMAIN ran[c] : ran[c][i].session <= s.id
        BY <1>8, <1>9 DEF ServerInv, RunsBelow, s
      <4>2. \A i \in DOMAIN ran'[c] : ran'[c][i].session # s.id + 1
        BY <4>1, <1>6, <1>8, <1>9, <1>11
      <4>. QED
        BY <3>1, <4>2, <1>10
    <3>2. CASE ~r.close
      BY <3>2, <1>3, <1>6, <1>10, <1>11
    <3>. QED
      BY <3>1, <3>2
  <2>2. ASSUME NEW o \in Client \ {c}
        PROVE  peers'[o].session.state = "NEW"
                 <=> \A i \in DOMAIN ran'[o] : ran'[o][i].session # peers'[o].session.id
    <3>1. NewMeansNothingRan /\ ran'[o] = ran[o] /\ peers'[o] = peers[o]
      BY <1>4 DEF ServerInv
    <3>. QED
      BY <3>1 DEF NewMeansNothingRan
  <2>. QED
    BY <2>1, <2>2 DEF NewMeansNothingRan
<1>23. LatestCached'
  <2>1. peers'[c].session.lastPeerSeq # -1 =>
          Cached(peers'[c].window, peers'[c].session.lastPeerSeq)
    <3>1. CASE r.close
      BY <3>1, <1>10
    <3>2. CASE ~r.close
      <4>. DEFINE v == Put(w, f.seq, r.frames)
      <4>1. /\ v \in Seq(Entries) /\ v # << >>
            /\ v[Len(v)] = [seq |-> f.seq, reply |-> r.frames]
        BY <1>2, <1>8, <1>b, PutFacts
      <4>. HIDE DEF v
      <4>2. Len(v) \in DOMAIN v /\ v[Len(v)].seq = f.seq
        BY <4>1
      <4>3. Cached(v, f.seq)
        BY <4>2 DEF Cached
      <4>. QED
        BY <3>2, <4>3, <1>4, <1>10 DEF v
    <3>. QED
      BY <3>1, <3>2
  <2>. QED
    BY <2>1, <1>4 DEF ServerInv, LatestCached
<1>24. CacheWasSent'
  <2>1. ASSUME NEW i \in DOMAIN peers'[c].window, peers'[c].window[i].reply # << >>
        PROVE  [session |-> peers'[c].session.id, frames |-> peers'[c].window[i].reply]
                 \in s2c'[c]
    <3>1. ~r.close
      BY <2>1, <1>10
    <3>. DEFINE v == Put(w, f.seq, r.frames)
    <3>2. /\ v \in Seq(Entries)
          /\ v[Len(v)] = [seq |-> f.seq, reply |-> r.frames]
          /\ \A k \in DOMAIN v : k = Len(v) \/ \E j \in DOMAIN w : v[k] = w[j]
      BY <1>2, <1>8, <1>b, PutFacts
    <3>3. i \in DOMAIN v /\ peers'[c].window[i] = v[i] /\ peers'[c].session.id = s.id
      BY <2>1, <3>1, <1>4, <1>10
    <3>. HIDE DEF v
    <3>4. CASE i = Len(v)
      <4>1. v[i].reply = r.frames
        BY <3>2, <3>4
      <4>. QED
        BY <2>1, <3>3, <4>1, <1>4 DEF d
    <3>5. CASE \E j \in DOMAIN w : v[i] = w[j]
      <4>1. PICK j \in DOMAIN w : v[i] = w[j]
        BY <3>5
      <4>2. [session |-> s.id, frames |-> w[j].reply] \in s2c[c]
        BY <2>1, <3>3, <4>1 DEF ServerInv, CacheWasSent, s, w
      <4>. QED
        BY <3>3, <4>1, <4>2, <1>4
    <3>. QED
      BY <3>2, <3>3, <3>4, <3>5
  <2>. QED
    BY <2>1, <1>4 DEF ServerInv, CacheWasSent
<1>25. AnswersAreOfRuns'
  <2>1. ASSUME NEW x \in s2c'[c], NEW n \in 0..MaxSeq,
               Acknowledges(x, n), LastFrame(x).type # "ERROR"
        PROVE  \E i \in DOMAIN ran'[c] :
                 /\ ran'[c][i].session = x.session
                 /\ ran'[c][i].seq = n
                 /\ Answer(ran'[c][i])
                      = [type |-> LastFrame(x).type, payload |-> LastFrame(x).payload]
    <3>1. CASE x \in s2c[c]
      <4>1. PICK i \in DOMAIN ran[c] :
              /\ ran[c][i].session = x.session
              /\ ran[c][i].seq = n
              /\ Answer(ran[c][i])
                   = [type |-> LastFrame(x).type, payload |-> LastFrame(x).payload]
        BY <2>1, <3>1 DEF ServerInv, AnswersAreOfRuns
      <4>. QED
        BY <4>1, <1>11
    <3>2. CASE r.frames # << >> /\ x = d
      <4>1. /\ r.frames[1].type = "ACK"
            /\ r.frames[1].payload.ack_seq = n
            /\ LastFrame(x) = r.frames[Len(r.frames)]
        BY <2>1, <3>2, <1>6 DEF Acknowledges, LastFrame
      <4>2. AnswersOrRefuses(r.frames, s, f)
        BY <3>2, <4>1, <1>5
      <4>3. /\ n = f.seq
            /\ NoError(r.frames)
            /\ Answer(run) = [type |-> LastFrame(x).type, payload |-> LastFrame(x).payload]
        BY <2>1, <4>1, <4>2 DEF AnswersOrRefuses, run
      <4>4. Len(ran[c]) + 1 \in DOMAIN ran'[c] /\ ran'[c][Len(ran[c]) + 1] = run
        BY <4>3, <1>6, <1>11
      <4>. QED
        BY <3>2, <4>3, <4>4, <1>6
    <3>. QED
      BY <2>1, <3>1, <3>2, <1>4
  <2>2. ASSUME NEW o \in Client \ {c}, NEW x \in s2c'[o], NEW n \in 0..MaxSeq,
               Acknowledges(x, n), LastFrame(x).type # "ERROR"
        PROVE  \E i \in DOMAIN ran'[o] :
                 /\ ran'[o][i].session = x.session
                 /\ ran'[o][i].seq = n
                 /\ Answer(ran'[o][i])
                      = [type |-> LastFrame(x).type, payload |-> LastFrame(x).payload]
    BY <2>2, <1>4 DEF ServerInv, AnswersAreOfRuns
  <2>. QED
    <3>1. ASSUME NEW o \in Client, NEW x \in s2c'[o], NEW n \in 0..MaxSeq,
                 Acknowledges(x, n), LastFrame(x).type # "ERROR"
          PROVE  \E i \in DOMAIN ran'[o] :
                   /\ ran'[o][i].session = x.session
                   /\ ran'[o][i].seq = n
                   /\ Answer(ran'[o][i])
                        = [type |-> LastFrame(x).type, payload |-> LastFrame(x).payload]
      BY <2>1, <2>2, <3>1
    <3>. QED
      BY <3>1 DEF AnswersAreOfRuns
<1>26. RunsInOrder'
  <2>1. ASSUME NEW i \in DOMAIN ran'[c], NEW j \in DOMAIN ran'[c], i < j
        PROVE  \/ ran'[c][i].session < ran'[c][j].session
               \/ /\ ran'[c][i].session = ran'[c][j].session
                  /\ ran'[c][i].seq < ran'[c][j].seq
    <3>1. i \in DOMAIN ran[c] /\ ran'[c][i] = ran[c][i]
      BY <2>1, <1>11
    <3>2. CASE j \in DOMAIN ran[c]
      BY <2>1, <3>1, <3>2, <1>11 DEF ServerInv, RunsInOrder
    <3>3. CASE ran'[c][j] = run /\ Accepted(r)
      <4>1. \/ ran[c][i].session < s.id
            \/ ran[c][i].session = s.id /\ ran[c][i].seq <= s.lastPeerSeq
        BY <3>1 DEF ServerInv, RunsBelow, s
      <4>2. ran[c][i].seq \in Nat
        BY <3>1, <1>9
      <4>. QED
        BY <3>1, <3>3, <4>1, <4>2, <1>3, <1>6, <1>8
    <3>. QED
      BY <3>2, <3>3, <1>11
  <2>2. ASSUME NEW o \in Client \ {c}, NEW i \in DOMAIN ran'[o], NEW j \in DOMAIN ran'[o], i < j
        PROVE  \/ ran'[o][i].session < ran'[o][j].session
               \/ /\ ran'[o][i].session = ran'[o][j].session
                  /\ ran'[o][i].seq < ran'[o][j].seq
    BY <2>2, <1>4 DEF ServerInv, RunsInOrder
  <2>. QED
    BY <2>1, <2>2 DEF RunsInOrder
<1>27. HandshakeFirst'
  <2>1. ASSUME NEW j \in DOMAIN ran'[c]
        PROVE  ran'[c][j].type = "HELLO"
                 <=> \A i \in 1..(j - 1) : ran'[c][i].session # ran'[c][j].session
    <3>1. CASE j \in DOMAIN ran[c]
      <4>1. 1..(j - 1) \subseteq DOMAIN ran[c]
        BY <3>1, <1>11
      <4>2. ran[c][j].type = "HELLO"
              <=> \A i \in 1..(j - 1) : ran[c][i].session # ran[c][j].session
        BY <3>1 DEF ServerInv, HandshakeFirst
      <4>. QED
        BY <3>1, <4>1, <4>2, <1>11
    <3>2. CASE j = Len(ran[c]) + 1 /\ ran'[c][j] = run /\ Accepted(r)
      <4>1. 1..(j - 1) = DOMAIN ran[c]
        BY <3>2, <1>11
      <4>2. s.state = "NEW" <=> \A i \in DOMAIN ran[c] : ran[c][i].session # s.id
        BY DEF ServerInv, NewMeansNothingRan, s
      <4>. QED
        BY <3>2, <4>1, <4>2, <1>3, <1>6, <1>11
    <3>. QED
      BY <3>1, <3>2, <1>11
  <2>2. ASSUME NEW o \in Client \ {c}, NEW j \in DOMAIN ran'[o]
        PROVE  ran'[o][j].type = "HELLO"
                 <=> \A i \in 1..(j - 1) : ran'[o][i].session # ran'[o][j].session
    BY <2>2, <1>4 DEF ServerInv, HandshakeFirst
  <2>. QED
    BY <2>1, <2>2 DEF HandshakeFirst
<1>28. OneAnswerPerRequest'
  <2>1. ASSUME NEW a \in s2c[c], NEW n \in 0..MaxSeq, a.session = s.id,
               Acknowledges(a, n), LastFrame(a).type # "ERROR",
               r.frames # << >>, Acknowledges(d, n), LastFrame(d).type # "ERROR"
        PROVE  FALSE
    <3>1. r.frames[1].type = "ACK" /\ r.frames[1].payload.ack_seq = n
          /\ r.frames[Len(r.frames)].type # "ERROR"
      BY <2>1, <1>6 DEF Acknowledges, LastFrame
    <3>2. n = f.seq /\ NoError(r.frames)
      BY <2>1, <3>1, <1>5 DEF AnswersOrRefuses
    <3>3. s.lastPeerSeq < n
      BY <3>2, <1>3, <1>6
    <3>4. PICK i \in DOMAIN ran[c] : ran[c][i].session = s.id /\ ran[c][i].seq = n
      BY <2>1 DEF ServerInv, AnswersAreOfRuns
    <3>5. ran[c][i].seq <= s.lastPeerSeq
      BY <3>4, <1>8 DEF ServerInv, RunsBelow, s
    <3>. QED
      BY <3>3, <3>4, <3>5, <1>8
  <2>2. ASSUME NEW o \in Client, NEW a \in s2c'[o], NEW b \in s2c'[o], NEW n \in 0..MaxSeq,
               a.session = b.session,
               Acknowledges(a, n), LastFrame(a).type # "ERROR",
               Acknowledges(b, n), LastFrame(b).type # "ERROR"
        PROVE  a = b
    <3>1. CASE a \in s2c[o] /\ b \in s2c[o]
      BY <2>2, <3>1 DEF ServerInv, OneAnswerPerRequest
    <3>2. CASE o = c /\ r.frames # << >> /\ a = d /\ b \in s2c[c]
      BY <2>1, <2>2, <3>2, <1>6
    <3>3. CASE o = c /\ r.frames # << >> /\ b = d /\ a \in s2c[c]
      BY <2>1, <2>2, <3>3, <1>6
    <3>. QED
      BY <2>2, <3>1, <3>2, <3>3, <1>4
  <2>. QED
    BY <2>2 DEF OneAnswerPerRequest
<1>. QED
  BY <1>1, <1>20, <1>21, <1>22, <1>23, <1>24, <1>25, <1>26, <1>27, <1>28 DEF ServerInv

LEMMA StutterStep ==
  ASSUME ServerInv, UNCHANGED serverVars
  PROVE  ServerInv'
<1>1. peers' = peers /\ s2c' = s2c /\ ran' = ran
  BY DEF serverVars
<1>2. ServerTypeOK' /\ PeersLive' /\ RunsBelow'
  BY <1>1 DEF ServerInv, ServerTypeOK, PeersLive, RunsBelow
<1>3. NewMeansNothingRan' /\ LatestCached' /\ CacheWasSent'
  BY <1>1 DEF ServerInv, NewMeansNothingRan, LatestCached, CacheWasSent
<1>4. AnswersAreOfRuns'
  BY <1>1 DEF ServerInv, AnswersAreOfRuns, Acknowledges, LastFrame
<1>5. RunsInOrder' /\ HandshakeFirst'
  BY <1>1 DEF ServerInv, RunsInOrder, HandshakeFirst
<1>6. OneAnswerPerRequest'
  BY <1>1 DEF ServerInv, OneAnswerPerRequest, Acknowledges, LastFrame
<1>. QED
  BY <1>2, <1>3, <1>4, <1>5, <1>6 DEF ServerInv

\* Whatever frame arrives, from whichever client.
THEOREM OnDatagramInv ==
  ASSUME ServerInv, NEW c \in Client, NEW f \in Frames, OnDatagram(c, f)
  PROVE  ServerInv'
<1>1. CASE Replay(c, f)
  <2>1. UNCHANGED serverVars
    BY <1>1, ReplayStep
  <2>. QED
    BY <2>1, StutterStep
<1>2. CASE Handle(c, f)
  BY <1>2, HandleStep
<1>. QED
  BY <1>1, <1>2 DEF OnDatagram

-----------------------------------------------------------------------------
(* The window.                                                             *)

\* Put drops entries from the front, and only as many as the limit demands.
LEMMA PutIndex ==
  ASSUME NEW w \in Seq(Entries), NEW seq \in 0..MaxSeq, NEW reply \in Seq(Frames),
         ~Cached(w, seq), Len(w) <= DedupSize
  PROVE  LET v == Put(w, seq, reply)
             dropped == Len(w) + 1 - Len(v)
         IN  /\ Len(v) \in Nat /\ DOMAIN v = 1..Len(v)
             /\ dropped \in {0, 1}
             /\ dropped = 1 => Len(v) = DedupSize
             /\ Len(v) <= DedupSize
             /\ v[Len(v)].seq = seq
             /\ \A i \in 1..(Len(v) - 1) : dropped + i \in DOMAIN w /\ v[i] = w[dropped + i]
<1>. DEFINE e == [seq |-> seq, reply |-> reply]
            u == Append(w, e)
            v == Put(w, seq, reply)
<1>1. e \in Entries /\ e.seq = seq
  BY DEF Entries
<1>2. v = KeepLast(u)
  BY DEF Put
<1>. HIDE DEF e, v
<1>3. /\ u \in Seq(Entries) /\ Len(u) = Len(w) + 1 /\ u[Len(u)] = e
      /\ DOMAIN w = 1..Len(w) /\ Len(w) \in Nat
      /\ \A i \in 1..Len(w) : u[i] = w[i]
  BY <1>1
<1>. HIDE DEF u
<1>4. CASE Len(u) > DedupSize
  <2>. DEFINE m == Len(u) - DedupSize + 1
  <2>1. v = SubSeq(u, m, Len(u))
    BY <1>2, <1>4 DEF KeepLast
  <2>a. Len(u) = Len(w) + 1 /\ Len(w) \in Nat
    BY <1>3
  <2>b. Len(w) = DedupSize
    BY <1>4, <2>a, DedupSizeAssumption
  <2>2. m = 2 /\ Len(w) = DedupSize /\ Len(u) = DedupSize + 1
    BY <2>a, <2>b, DedupSizeAssumption
  <2>3. v = SubSeq(u, 2, Len(u))
    BY <2>1, <2>2
  <2>4. /\ Len(v) = DedupSize /\ DOMAIN v = 1..DedupSize
        /\ \A i \in 1..DedupSize : v[i] = u[i + 1]
    BY <1>3, <2>2, <2>3, DedupSizeAssumption
  <2>. HIDE DEF m
  <2>. QED
    BY <1>1, <1>3, <2>2, <2>4, DedupSizeAssumption DEF v
<1>5. CASE ~(Len(u) > DedupSize)
  <2>1. v = u
    BY <1>2, <1>5 DEF KeepLast
  <2>2. Len(v) = Len(w) + 1 /\ DOMAIN v = 1..(Len(w) + 1) /\ Len(v) <= DedupSize
    BY <1>3, <1>5, <2>1, DedupSizeAssumption
  <2>. QED
    BY <1>1, <1>3, <2>1, <2>2 DEF v
<1>. QED
  BY <1>4, <1>5

\* RecentRunsCached, of one peer and what it had run.
Recent(peer, runs) ==
  LET before == Len(runs) - Len(peer.window)
  IN  /\ before >= 0
      /\ Len(peer.window) <= DedupSize
      /\ \A i \in DOMAIN peer.window : /\ runs[before + i].session = peer.session.id
                                       /\ runs[before + i].seq = peer.window[i].seq
      /\ \A i \in 1..before : runs[i].session = peer.session.id => Len(peer.window) = DedupSize

\* A handled datagram enters the window of its session, or ends the session.
LEMMA WindowStep ==
  ASSUME ServerInv, RecentRunsCached, NEW c \in Client, NEW f \in Frames, Handle(c, f)
  PROVE  RecentRunsCached'
<1>. DEFINE s == peers[c].session
            r == Answering(s, f)
            run == Run(s.id, f)
            w == peers[c].window
            v == Put(w, f.seq, r.frames)
            before == Len(ran[c]) - Len(w)
<1>1. ServerTypeOK /\ PeersLive /\ RunsBelow
  BY DEF ServerInv
<1>2. s \in Sessions /\ Live(s) /\ r \in Reactions /\ ~Cached(w, f.seq)
  BY <1>1, HandleFacts
<1>3. r.session.id = s.id /\ (~r.close => Accepted(r))
  BY <1>2, AnsweringFacts
<1>4. /\ r.close  => peers'[c] = NewPeer(s.id + 1)
      /\ ~r.close => peers'[c].session = r.session /\ peers'[c].window = v
      /\ ran'[c] = IF Accepted(r) THEN Append(ran[c], run) ELSE ran[c]
      /\ \A o \in Client \ {c} : peers'[o] = peers[o] /\ ran'[o] = ran[o]
  BY <1>1, HandleEffect
<1>5. run.session = s.id /\ run.seq = f.seq
  BY DEF Run
<1>6. /\ s.id \in Nat /\ f.seq \in 0..MaxSeq /\ r.frames \in Seq(Frames)
      /\ w \in Seq(Entries) /\ ran[c] \in Seq(Runs)
  BY <1>1, <1>2 DEF Sessions, Frames, Reactions, ServerTypeOK, Entries, Runs
<1>7. /\ before >= 0 /\ Len(w) <= DedupSize
      /\ \A i \in DOMAIN w : ran[c][before + i].session = s.id /\ ran[c][before + i].seq = w[i].seq
      /\ \A i \in 1..before : ran[c][i].session = s.id => Len(w) = DedupSize
  BY DEF RecentRunsCached
<1>8. \A i \in DOMAIN ran[c] : ran[c][i].session < s.id \/ ran[c][i].session = s.id
  BY <1>1 DEF RunsBelow
<1>. HIDE DEF s, r, run, w, before
<1>9. ASSUME r.close
      PROVE  /\ peers'[c].window = << >>
             /\ \A i \in DOMAIN ran'[c] : ran'[c][i].session # peers'[c].session.id
             /\ Len(ran'[c]) \in Nat /\ DOMAIN ran'[c] = 1..Len(ran'[c])
  <2>1. peers'[c].window = << >> /\ peers'[c].session.id = s.id + 1
    BY <1>4, <1>9 DEF NewPeer, NewSession
  <2>2. \A i \in DOMAIN ran[c] : ran[c][i].session \in Nat
    <3>1. ASSUME NEW i \in DOMAIN ran[c]
          PROVE  ran[c][i] \in Runs
      BY <1>6
    <3>. QED
      BY <3>1 DEF Runs
  <2>3. CASE Accepted(r)
    <3>1. ran'[c] = Append(ran[c], run)
      BY <1>4, <2>3
    <3>2. /\ \A i \in DOMAIN ran[c] : ran'[c][i] = ran[c][i]
          /\ \A i \in DOMAIN ran'[c] : i \in DOMAIN ran[c] \/ ran'[c][i] = run
          /\ Len(ran'[c]) = Len(ran[c]) + 1 /\ Len(ran[c]) \in Nat
          /\ DOMAIN ran'[c] = 1..Len(ran'[c])
      BY <1>6, <3>1, AppendFacts
    <3>3. run.session # s.id + 1 /\ \A i \in DOMAIN ran[c] : ran[c][i].session # s.id + 1
      BY <1>5, <1>6, <1>8, <2>2
    <3>. QED
      BY <2>1, <3>2, <3>3
  <2>4. CASE ~Accepted(r)
    <3>1. ran'[c] = ran[c]
      BY <1>4, <2>4
    <3>. QED
      BY <1>6, <1>8, <2>1, <2>2, <3>1
  <2>. QED
    BY <2>3, <2>4
<1>10. ASSUME ~r.close
       PROVE  LET after == Len(ran'[c]) - Len(v)
              IN  /\ after >= 0 /\ Len(v) <= DedupSize
                  /\ \A i \in DOMAIN v : /\ ran'[c][after + i].session = s.id
                                         /\ ran'[c][after + i].seq = v[i].seq
                  /\ \A i \in 1..after : ran'[c][i].session = s.id => Len(v) = DedupSize
  <2>. DEFINE dropped == Len(w) + 1 - Len(v)
              after == Len(ran'[c]) - Len(v)
  <2>1. /\ Len(v) \in Nat /\ DOMAIN v = 1..Len(v)
        /\ dropped \in {0, 1}
        /\ dropped = 1 => Len(v) = DedupSize
        /\ Len(v) <= DedupSize
        /\ v[Len(v)].seq = f.seq
        /\ \A i \in 1..(Len(v) - 1) : dropped + i \in DOMAIN w /\ v[i] = w[dropped + i]
    BY <1>2, <1>6, <1>7, PutIndex
  <2>. HIDE DEF v
  <2>2. /\ Len(ran'[c]) = Len(ran[c]) + 1 /\ ran'[c][Len(ran[c]) + 1] = run
        /\ \A i \in 1..Len(ran[c]) : ran'[c][i] = ran[c][i]
        /\ Len(ran[c]) \in Nat /\ Len(w) \in Nat /\ DOMAIN w = 1..Len(w)
    BY <1>3, <1>4, <1>6, <1>10, AppendFacts
  <2>a. /\ Len(ran'[c]) = Len(ran[c]) + 1
        /\ Len(ran[c]) \in Nat /\ Len(w) \in Nat /\ Len(v) \in Nat
    BY <2>1, <2>2
  <2>3. after = before + dropped
    <3>. DEFINE a == Len(ran[c])
                b == Len(w)
                n == Len(v)
    <3>1. a \in Nat /\ b \in Nat /\ n \in Nat
      BY <2>a
    <3>2. after = a + 1 - n /\ before = a - b /\ dropped = b + 1 - n
      BY <2>a DEF before
    <3>. HIDE DEF a, b, n, after, dropped
    <3>. QED
      BY <3>1, <3>2
  <2>4. after + Len(v) = Len(ran[c]) + 1
    BY <2>a
  <2>5. before \in Nat /\ after \in Nat
    <3>1. before >= 0 /\ dropped \in {0, 1}
      BY <1>7, <2>1
    <3>. HIDE DEF after, dropped
    <3>2. before \in Int
      BY <2>a DEF before
    <3>. QED
      BY <2>3, <3>1, <3>2
  <2>6. before + Len(w) = Len(ran[c])
    BY <2>a DEF before
  <2>. HIDE DEF dropped, after
  <2>7. ASSUME NEW i \in DOMAIN v
        PROVE  ran'[c][after + i].session = s.id /\ ran'[c][after + i].seq = v[i].seq
    <3>1. CASE i = Len(v)
      BY <1>5, <2>1, <2>2, <2>4, <3>1
    <3>2. CASE i # Len(v)
      <4>1. i \in 1..(Len(v) - 1)
        BY <2>1, <3>2
      <4>2. dropped + i \in DOMAIN w /\ v[i] = w[dropped + i]
        BY <2>1, <4>1
      <4>3. after + i = before + (dropped + i) /\ after + i \in 1..Len(ran[c])
        BY <2>1, <2>3, <2>4, <2>5, <4>1
      <4>. QED
        BY <1>7, <2>2, <4>2, <4>3
    <3>. QED
      BY <3>1, <3>2
  <2>8. ASSUME NEW i \in 1..after, ran'[c][i].session = s.id
        PROVE  Len(v) = DedupSize
    <3>1. CASE dropped = 1
      BY <2>1, <3>1
    <3>2. CASE dropped = 0
      <4>2. i \in 1..before /\ i \in 1..Len(ran[c])
        BY <2>2, <2>3, <2>5, <2>6, <2>8, <3>2
      <4>3. ran'[c][i] = ran[c][i]
        BY <2>2, <4>2
      <4>4. Len(w) = DedupSize
        BY <1>7, <2>8, <4>2, <4>3
      <4>5. Len(v) = Len(w) + 1
        BY <2>a, <3>2 DEF dropped
      <4>6. Len(v) <= DedupSize
        BY <2>1
      <4>7. FALSE
        BY <2>a, <4>4, <4>5, <4>6, DedupSizeAssumption
      <4>. QED
        BY <4>7
    <3>. QED
      BY <2>1, <3>1, <3>2
  <2>. QED
    BY <2>1, <2>5, <2>7, <2>8 DEF after
<1>11. Recent(peers'[c], ran'[c])
  <2>1. CASE r.close
    <3>1. /\ peers'[c].window = << >>
          /\ \A i \in DOMAIN ran'[c] : ran'[c][i].session # peers'[c].session.id
          /\ Len(ran'[c]) \in Nat /\ DOMAIN ran'[c] = 1..Len(ran'[c])
      BY <1>9, <2>1
    <3>2. Len(peers'[c].window) = 0 /\ DOMAIN peers'[c].window = {}
      BY <3>1
    <3>. QED
      BY <3>1, <3>2, DedupSizeAssumption DEF Recent
  <2>2. CASE ~r.close
    <3>1. peers'[c].window = v /\ peers'[c].session.id = s.id
      BY <1>3, <1>4, <2>2
    <3>. HIDE DEF v
    <3>. QED
      BY <1>10, <2>2, <3>1 DEF Recent
  <2>. QED
    BY <2>1, <2>2
<1>12. ASSUME NEW o \in Client \ {c}
       PROVE  Recent(peers'[o], ran'[o])
  <2>1. Recent(peers[o], ran[o])
    BY DEF RecentRunsCached, Recent
  <2>. QED
    BY <1>4, <2>1
<1>13. \A o \in Client : Recent(peers'[o], ran'[o])
  BY <1>11, <1>12
<1>. QED
  BY <1>13 DEF RecentRunsCached, Recent

LEMMA WindowStart == ServerInit => RecentRunsCached
BY DedupSizeAssumption DEF ServerInit, RecentRunsCached, NewPeer

LEMMA OnDatagramWindow ==
  ASSUME ServerInv, RecentRunsCached, NEW c \in Client, NEW f \in Frames, OnDatagram(c, f)
  PROVE  RecentRunsCached'
<1>1. CASE Replay(c, f)
  <2>1. UNCHANGED serverVars
    BY <1>1, ReplayStep
  <2>. QED
    BY <2>1 DEF serverVars, RecentRunsCached
<1>2. CASE Handle(c, f)
  BY <1>2, WindowStep
<1>. QED
  BY <1>1, <1>2 DEF OnDatagram

-----------------------------------------------------------------------------
(* What the server guarantees whatever its peers send.  UdpPeers!Spec is   *)
(* ServerSpec(Inbox).                                                      *)

ServerSpec(inbox) == ServerInit /\ [][ServerNext(inbox)]_serverVars

(* The server's inductive invariant holds in every reachable state.        *)
THEOREM PeersInv ==
  ASSUME NEW CONSTANT inbox, inbox \subseteq Frames
  PROVE  ServerSpec(inbox) => []ServerInv
<1>1. ServerInit => ServerInv
  BY ServerInitInv
<1>2. ServerInv /\ [ServerNext(inbox)]_serverVars => ServerInv'
  <2>1. CASE ServerNext(inbox)
    BY <2>1, OnDatagramInv DEF ServerNext
  <2>2. CASE UNCHANGED serverVars
    BY <2>2, StutterStep
  <2>. QED
    BY <2>1, <2>2
<1>. QED
  BY <1>1, <1>2, PTL DEF ServerSpec

(* Type correctness of the server.                                         *)
THEOREM PeersTypeOK ==
  ASSUME NEW CONSTANT inbox, inbox \subseteq Frames
  PROVE  ServerSpec(inbox) => []ServerTypeOK
<1>1. ServerInv => ServerTypeOK
  BY DEF ServerInv
<1>2. ServerSpec(inbox) => []ServerInv
  BY PeersInv
<1>. QED
  BY <1>1, <1>2, PTL

(* No request runs twice in a session, and requests run in the order of    *)
(* their numbers, whatever the network duplicates and reorders.            *)
THEOREM PeersRunsInOrder ==
  ASSUME NEW CONSTANT inbox, inbox \subseteq Frames
  PROVE  ServerSpec(inbox) => []RunsInOrder
<1>1. ServerInv => RunsInOrder
  BY DEF ServerInv
<1>2. ServerSpec(inbox) => []ServerInv
  BY PeersInv
<1>. QED
  BY <1>1, <1>2, PTL

(* A session runs HELLO first and only once.                               *)
THEOREM PeersHandshakeFirst ==
  ASSUME NEW CONSTANT inbox, inbox \subseteq Frames
  PROVE  ServerSpec(inbox) => []HandshakeFirst
<1>1. ServerInv => HandshakeFirst
  BY DEF ServerInv
<1>2. ServerSpec(inbox) => []ServerInv
  BY PeersInv
<1>. QED
  BY <1>1, <1>2, PTL

(* Every successful answer is the answer of a run of the request it        *)
(* acknowledges, in the session that sent it.                              *)
THEOREM PeersAnswersAreOfRuns ==
  ASSUME NEW CONSTANT inbox, inbox \subseteq Frames
  PROVE  ServerSpec(inbox) => []AnswersAreOfRuns
<1>1. ServerInv => AnswersAreOfRuns
  BY DEF ServerInv
<1>2. ServerSpec(inbox) => []ServerInv
  BY PeersInv
<1>. QED
  BY <1>1, <1>2, PTL

(* A session answers a request with the same bytes however often it is     *)
(* retransmitted.                                                          *)
THEOREM PeersOneAnswerPerRequest ==
  ASSUME NEW CONSTANT inbox, inbox \subseteq Frames
  PROVE  ServerSpec(inbox) => []OneAnswerPerRequest
<1>1. ServerInv => OneAnswerPerRequest
  BY DEF ServerInv
<1>2. ServerSpec(inbox) => []ServerInv
  BY PeersInv
<1>. QED
  BY <1>1, <1>2, PTL

(* The window of a live session holds exactly its most recent requests.    *)
THEOREM PeersRecentRunsCached ==
  ASSUME NEW CONSTANT inbox, inbox \subseteq Frames
  PROVE  ServerSpec(inbox) => []RecentRunsCached
<1>1. ServerInv /\ RecentRunsCached /\ [ServerNext(inbox)]_serverVars => RecentRunsCached'
  <2>. SUFFICES ASSUME ServerInv, RecentRunsCached, [ServerNext(inbox)]_serverVars PROVE RecentRunsCached'
    OBVIOUS
  <2>1. CASE ServerNext(inbox)
    BY <2>1, OnDatagramWindow DEF ServerNext
  <2>2. CASE UNCHANGED serverVars
    BY <2>2 DEF serverVars, RecentRunsCached
  <2>. QED
    BY <2>1, <2>2
<1>2. ServerSpec(inbox) => []ServerInv
  BY PeersInv
<1>. QED
  BY <1>1, <1>2, WindowStart, PTL DEF ServerSpec

-----------------------------------------------------------------------------
(* The numbers of the answers.                                             *)

\* The numbers do not run out: a frame has at most two in answer, and a last one
\* may be refused.  Behind 2^31 requests of one session they would wrap.
NumbersSuffice(inbox) == \A f \in inbox : 2 * f.seq + 3 <= MaxSeq

\* What the live session has sent is numbered below its next number, which is at
\* most twice what its peer's last number allows.
NumbersBelow ==
  \A c \in Client :
    LET s == peers[c].session
    IN  /\ s.outSeq <= 2 * (s.lastPeerSeq + 1)
        /\ s.lastPeerSeq # -1 => 2 * s.lastPeerSeq + 3 <= MaxSeq
        /\ \A d \in s2c[c] :
             /\ d.frames # << >>
             /\ d.session <= s.id
             /\ d.session = s.id => \A i \in DOMAIN d.frames : d.frames[i].seq < s.outSeq

NumberInv == NumbersBelow /\ ReplyNumbersUnique /\ ClosingAnswerIsLast

LEMMA NextNumber ==
  ASSUME NEW n \in 0..MaxSeq, n < MaxSeq
  PROVE  NextSeq(n) = n + 1
BY MaxSeqAssumption DEF NextSeq

\* The frames in answer to f are numbered from outSeq, without a gap.
NumberedFrom(r, n) ==
  /\ Len(r.frames) \in 0..2 /\ DOMAIN r.frames = 1..Len(r.frames)
  /\ \A i \in DOMAIN r.frames : r.frames[i].seq = n + i - 1
  /\ n + Len(r.frames) <= MaxSeq => r.session.outSeq = n + Len(r.frames)

LEMMA OneNumber ==
  ASSUME NEW r, NEW f, NEW n \in 0..MaxSeq, Reacts(r, f, n)
  PROVE  /\ Len(r.frames) \in 0..1 /\ DOMAIN r.frames = 1..Len(r.frames)
         /\ \A i \in DOMAIN r.frames : r.frames[i].seq = n + i - 1
         /\ n + Len(r.frames) <= MaxSeq => r.session.outSeq = n + Len(r.frames)
<1>1. CASE r.frames = << >> /\ r.session.outSeq = n
  BY <1>1
<1>2. ASSUME NEW x \in Frames, r.frames = << x >>, x.seq = n, r.session.outSeq = NextSeq(n)
      PROVE  /\ Len(r.frames) \in 0..1 /\ DOMAIN r.frames = 1..Len(r.frames)
             /\ \A i \in DOMAIN r.frames : r.frames[i].seq = n + i - 1
             /\ n + Len(r.frames) <= MaxSeq => r.session.outSeq = n + Len(r.frames)
  <2>1. Len(r.frames) = 1 /\ DOMAIN r.frames = {1} /\ r.frames[1] = x
    BY <1>2
  <2>2. n + 1 <= MaxSeq => r.session.outSeq = n + 1
    BY <1>2, NextNumber, MaxSeqAssumption
  <2>. QED
    BY <1>2, <2>1, <2>2
<1>. QED
  BY <1>1, <1>2 DEF Reacts

LEMMA AnsweringNumbers ==
  ASSUME NEW s \in Sessions, Live(s), NEW f \in Frames, s.outSeq < MaxSeq
  PROVE  LET r == Answering(s, f)
         IN  /\ NumberedFrom(r, s.outSeq)
             /\ r.frames # << >> /\ r.frames[Len(r.frames)].type \in LastWords => r.close
<1>. DEFINE acked == AckFirst(s, f)
            t == acked.session
            reaction == OnFrame(t, f)
            r == Answering(s, f)
            n == s.outSeq
<1>1. /\ r.session = reaction.session /\ r.close = reaction.close
      /\ r.frames = acked.frames \o reaction.frames
  BY DEF Answering
<1>2. /\ acked \in Reactions /\ t \in Sessions /\ t.state = s.state
      /\ n \in Nat /\ n \in 0..MaxSeq /\ MaxSeq \in Nat
  BY AckFirstType, AckFirstFacts, MaxSeqAssumption DEF Reactions, Sessions
<1>3. Live(t) /\ t.outSeq \in 0..MaxSeq
  BY <1>2 DEF Live, Sessions
<1>4. /\ reaction \in Reactions /\ Shaped(reaction, f.type = "BYE")
      /\ Reacts(reaction, f, t.outSeq)
  BY <1>2, <1>3, OnFrameType, OnFrameShape, OnFrameReacts
<1>5. /\ Len(reaction.frames) \in 0..1
      /\ \A i \in DOMAIN reaction.frames : reaction.frames[i].seq = t.outSeq + i - 1
      /\ t.outSeq + Len(reaction.frames) <= MaxSeq =>
           reaction.session.outSeq = t.outSeq + Len(reaction.frames)
  BY <1>3, <1>4, OneNumber
<1>6. \/ acked.frames = << >> /\ t.outSeq = n
      \/ \E a \in Frames : /\ acked.frames = << a >> /\ a.seq = n /\ a.type = "ACK"
                           /\ t.outSeq = n + 1
  <2>1. CASE "REQUIRE_ACK" \in f.flags
    <3>1. [ack_seq |-> f.seq] \in Payload
      BY ControlPayloads DEF Frames
    <3>2. acked = Reply(s, "ACK", [ack_seq |-> f.seq])
      BY <2>1 DEF AckFirst, Ack
    <3>3. /\ t.outSeq = NextSeq(n)
          /\ \E a \in Frames : acked.frames = << a >> /\ a.seq = n /\ a.type = "ACK"
      BY <3>1, <3>2, ReplyNumber DEF MsgType
    <3>. QED
      BY <1>2, <3>3, NextNumber
  <2>2. CASE "REQUIRE_ACK" \notin f.flags
    BY <2>2 DEF AckFirst, Silent
  <2>. QED
    BY <2>1, <2>2
<1>7. reaction.frames \in Seq(Frames)
  BY <1>4 DEF Reactions
<1>8. /\ reaction.frames = << >> \/ \E x \in Frames : reaction.frames = << x >>
      /\ \A x : reaction.frames = << x >> /\ x.type \in LastWords => reaction.close
  BY <1>4 DEF Shaped
<1>. HIDE DEF acked, t, reaction, r, n
<1>9. CASE acked.frames = << >> /\ t.outSeq = n
  <2>1. r.frames = reaction.frames
    BY <1>1, <1>7, <1>9
  <2>2. NumberedFrom(r, n)
    BY <1>1, <1>5, <1>7, <1>9, <2>1 DEF NumberedFrom
  <2>3. r.frames # << >> /\ r.frames[Len(r.frames)].type \in LastWords => r.close
    BY <1>1, <1>8, <2>1
  <2>. QED
    BY <2>2, <2>3 DEF r, n
<1>10. ASSUME NEW a \in Frames, acked.frames = << a >>, a.seq = n, a.type = "ACK",
              t.outSeq = n + 1
       PROVE  /\ NumberedFrom(r, n)
              /\ r.frames # << >> /\ r.frames[Len(r.frames)].type \in LastWords => r.close
  <2>1. CASE reaction.frames = << >>
    <3>1. r.frames = << a >>
      BY <1>1, <1>10, <2>1
    <3>2. Len(r.frames) = 1 /\ DOMAIN r.frames = {1} /\ r.frames[1] = a
      BY <3>1
    <3>3. r.session.outSeq = n + 1
      <4>1. Len(reaction.frames) = 0 /\ t.outSeq + 0 <= MaxSeq
        BY <1>3, <2>1, MaxSeqAssumption
      <4>. QED
        BY <1>1, <1>2, <1>5, <1>10, <4>1
    <3>. QED
      BY <1>2, <1>10, <3>2, <3>3 DEF NumberedFrom, LastWords
  <2>2. ASSUME NEW x \in Frames, reaction.frames = << x >>
        PROVE  /\ NumberedFrom(r, n)
               /\ r.frames[Len(r.frames)].type \in LastWords => r.close
    <3>1. r.frames = << a >> \o << x >>
      BY <1>1, <1>10, <2>2
    <3>2. Len(r.frames) = 2 /\ DOMAIN r.frames = {1, 2} /\ r.frames[1] = a /\ r.frames[2] = x
      BY <3>1
    <3>3. x.seq = n + 1 /\ (n + 2 <= MaxSeq => r.session.outSeq = n + 2)
      <4>1. Len(reaction.frames) = 1 /\ 1 \in DOMAIN reaction.frames /\ reaction.frames[1] = x
        BY <2>2
      <4>2. x.seq = t.outSeq + 1 - 1
        BY <1>5, <4>1
      <4>. QED
        BY <1>1, <1>2, <1>5, <1>10, <4>1, <4>2
    <3>4. NumberedFrom(r, n)
      BY <1>2, <1>10, <3>2, <3>3 DEF NumberedFrom
    <3>. QED
      BY <1>1, <1>8, <2>2, <3>2, <3>4
  <2>. QED
    BY <1>8, <2>1, <2>2
<1>. QED
  BY <1>6, <1>9, <1>10 DEF r, n

\* A datagram is handled: its answers take the next numbers.
LEMMA NumberStep ==
  ASSUME ServerInv, NumberInv, NEW c \in Client, NEW f \in Frames, 2 * f.seq + 3 <= MaxSeq,
         Handle(c, f)
  PROVE  NumberInv'
<1>. DEFINE s == peers[c].session
            r == Answering(s, f)
            d == [session |-> s.id, frames |-> r.frames]
            n == s.outSeq
            k == Len(r.frames)
<1>1. ServerTypeOK /\ PeersLive /\ f \in Frames /\ 2 * f.seq + 3 <= MaxSeq
  BY DEF ServerInv
<1>2. s \in Sessions /\ Live(s) /\ r \in Reactions
  BY <1>1, HandleFacts
<1>3. /\ s.id \in Nat /\ n \in Nat /\ n \in 0..MaxSeq /\ s.lastPeerSeq \in Int
      /\ s.lastPeerSeq >= -1 /\ f.seq \in Nat /\ MaxSeq \in Nat /\ MaxSeq >= 1
  BY <1>1, <1>2, MaxSeqAssumption DEF Sessions, Frames
<1>4. /\ r.close  => peers'[c] = NewPeer(s.id + 1)
      /\ ~r.close => peers'[c].session = r.session
      /\ s2c'[c] = IF r.frames = << >> THEN s2c[c] ELSE s2c[c] \cup {d}
      /\ \A o \in Client \ {c} : peers'[o] = peers[o] /\ s2c'[o] = s2c[o]
  BY <1>1, HandleEffect
<1>5. /\ r.session.id = s.id
      /\ ~r.close => s.lastPeerSeq < f.seq /\ r.session.lastPeerSeq = f.seq
  BY <1>1, <1>2, AnsweringFacts
<1>6. NewPeer(s.id + 1).session
        = [id |-> s.id + 1, state |-> "NEW", outSeq |-> 0, lastPeerSeq |-> -1]
  BY DEF NewPeer, NewSession
<1>7. /\ n <= 2 * (s.lastPeerSeq + 1)
      /\ s.lastPeerSeq # -1 => 2 * s.lastPeerSeq + 3 <= MaxSeq
      /\ \A a \in s2c[c] :
           /\ a.frames # << >>
           /\ a.session <= s.id
           /\ a.session = s.id => \A i \in DOMAIN a.frames : a.frames[i].seq < n
  BY DEF NumberInv, NumbersBelow
<1>8. n < MaxSeq
  <2>. DEFINE l == s.lastPeerSeq
  <2>1. n <= 2 * (l + 1) /\ (l # -1 => 2 * l + 3 <= MaxSeq)
    BY <1>7
  <2>2. l \in Int /\ n \in Nat /\ MaxSeq \in Nat /\ MaxSeq >= 1
    BY <1>3
  <2>. HIDE DEF l, n
  <2>. QED
    BY <2>1, <2>2
<1>9. /\ k \in 0..2 /\ DOMAIN r.frames = 1..k
      /\ \A i \in DOMAIN r.frames : r.frames[i].seq = n + i - 1
      /\ n + k <= MaxSeq => r.session.outSeq = n + k
      /\ r.frames # << >> /\ r.frames[k].type \in LastWords => r.close
  BY <1>1, <1>2, <1>8, AnsweringNumbers DEF NumberedFrom
<1>10. r.frames # << >> => k \in {1, 2}
  BY <1>2, <1>9 DEF Reactions
<1>11. s2c[c] \subseteq [session : Nat, frames : Seq(Frames)]
  BY <1>1 DEF ServerTypeOK
<1>12. d.session = s.id /\ d.frames = r.frames /\ LastFrame(d) = r.frames[k]
  BY DEF LastFrame
<1>. HIDE DEF s, r, d, n, k
<1>13. /\ r.close => peers'[c].session.id = s.id + 1
       /\ ~r.close => peers'[c].session.id = s.id
  BY <1>4, <1>5, <1>6
\* Each number is used by one frame.
<1>14. ASSUME NEW a \in s2c[c], a.session = s.id, NEW i \in DOMAIN a.frames,
              NEW j \in DOMAIN r.frames
       PROVE  a.frames[i].seq < r.frames[j].seq
  <2>1. a.frames[i].seq < n /\ a.frames[i].seq \in Nat
    <3>1. a.frames \in Seq(Frames)
      BY <1>11
    <3>2. a.frames[i] \in Frames
      BY <3>1
    <3>. QED
      BY <1>7, <1>14, <3>2, MaxSeqAssumption DEF Frames
  <2>2. r.frames[j].seq = n + j - 1 /\ j \in Nat /\ j >= 1
    BY <1>9
  <2>. QED
    BY <1>3, <2>1, <2>2
<1>a. ASSUME ~r.close
       PROVE  n + k <= 2 * (f.seq + 1) /\ n + k <= MaxSeq
  <2>. DEFINE l == s.lastPeerSeq
  <2>1. n <= 2 * (l + 1) /\ l < f.seq /\ 2 * f.seq + 3 <= MaxSeq /\ k \in 0..2
    BY <1>1, <1>5, <1>7, <1>9, <1>a
  <2>2. l \in Int /\ n \in Nat /\ MaxSeq \in Nat /\ f.seq \in Nat
    BY <1>3
  <2>. HIDE DEF l
  <2>3. n <= 2 * f.seq
    BY <2>1, <2>2
  <2>. QED
    BY <2>1, <2>2, <2>3
<1>15. NumbersBelow'
  <2>1. peers'[c].session.outSeq <= 2 * (peers'[c].session.lastPeerSeq + 1)
        /\ (peers'[c].session.lastPeerSeq # -1 =>
              2 * peers'[c].session.lastPeerSeq + 3 <= MaxSeq)
    <3>1. CASE r.close
      BY <1>4, <1>6, <3>1
    <3>2. CASE ~r.close
      <4>1. n + k <= 2 * (f.seq + 1) /\ n + k <= MaxSeq
        BY <1>a, <3>2
      <4>2. peers'[c].session.outSeq = n + k /\ peers'[c].session.lastPeerSeq = f.seq
        BY <1>4, <1>5, <1>9, <3>2, <4>1
      <4>. QED
        BY <1>1, <4>1, <4>2
    <3>. QED
      BY <3>1, <3>2
  <2>2. ASSUME NEW a \in s2c'[c]
        PROVE  /\ a.frames # << >>
               /\ a.session <= peers'[c].session.id
               /\ a.session = peers'[c].session.id =>
                    \A i \in DOMAIN a.frames : a.frames[i].seq < peers'[c].session.outSeq
    <3>1. a.frames # << >> /\ a.session <= s.id /\ a.session \in Nat
      BY <1>3, <1>4, <1>7, <1>11, <1>12
    <3>2. CASE r.close
      BY <1>3, <1>13, <3>1, <3>2
    <3>3. CASE ~r.close
      <4>1. n + k <= MaxSeq
        BY <1>a, <3>3
      <4>2. peers'[c].session.outSeq = n + k
        BY <1>4, <1>9, <3>3, <4>1
      <4>3. ASSUME NEW i \in DOMAIN a.frames, a.session = s.id
            PROVE  a.frames[i].seq < n + k
        <5>1. CASE a \in s2c[c]
          <6>1. a.frames[i].seq < n /\ a.frames[i].seq \in Nat
            <7>1. a.frames \in Seq(Frames)
              BY <1>11, <5>1
            <7>2. a.frames[i] \in Frames
              BY <7>1
            <7>. QED
              BY <1>7, <4>3, <5>1, <7>2, MaxSeqAssumption DEF Frames
          <6>. QED
            BY <1>3, <1>9, <6>1
        <5>2. CASE a = d
          <6>1. i \in DOMAIN r.frames /\ a.frames[i].seq = r.frames[i].seq
            BY <1>12, <5>2
          <6>2. r.frames[i].seq = n + i - 1 /\ i \in 1..k /\ k \in Nat
            BY <1>9, <6>1
          <6>3. n + i - 1 < n + k
            BY <1>3, <6>2
          <6>. QED
            BY <6>1, <6>2, <6>3
        <5>. QED
          BY <1>4, <5>1, <5>2
      <4>. QED
        BY <1>3, <1>13, <3>1, <3>3, <4>2, <4>3
    <3>. QED
      BY <3>2, <3>3
  <2>3. ASSUME NEW o \in Client \ {c}
        PROVE  LET q == peers'[o].session
               IN  /\ q.outSeq <= 2 * (q.lastPeerSeq + 1)
                   /\ q.lastPeerSeq # -1 => 2 * q.lastPeerSeq + 3 <= MaxSeq
                   /\ \A a \in s2c'[o] :
                        /\ a.frames # << >>
                        /\ a.session <= q.id
                        /\ a.session = q.id => \A i \in DOMAIN a.frames : a.frames[i].seq < q.outSeq
    BY <1>4 DEF NumberInv, NumbersBelow
  <2>. QED
    BY <2>1, <2>2, <2>3 DEF NumbersBelow
<1>16. ReplyNumbersUnique'
  <2>1. ASSUME NEW a \in s2c'[c], NEW b \in s2c'[c], a.session = b.session,
               NEW i \in DOMAIN a.frames, NEW j \in DOMAIN b.frames,
               a.frames[i].seq = b.frames[j].seq
        PROVE  a = b /\ i = j
    <3>1. CASE a \in s2c[c] /\ b \in s2c[c]
      BY <2>1, <3>1 DEF NumberInv, ReplyNumbersUnique
    <3>2. CASE a \in s2c[c] /\ b = d
      <4>1. a.frames[i].seq < b.frames[j].seq
        BY <1>12, <1>14, <2>1, <3>2
      <4>2. b.frames[j].seq = n + j - 1 /\ j \in Nat
        BY <1>9, <1>12, <3>2
      <4>. QED
        BY <1>3, <2>1, <4>1, <4>2
    <3>3. CASE a = d /\ b \in s2c[c]
      <4>1. b.frames[j].seq < a.frames[i].seq
        BY <1>12, <1>14, <2>1, <3>3
      <4>2. a.frames[i].seq = n + i - 1 /\ i \in Nat
        BY <1>9, <1>12, <3>3
      <4>. QED
        BY <1>3, <2>1, <4>1, <4>2
    <3>4. CASE a = d /\ b = d
      <4>1. n + i - 1 = n + j - 1 /\ i \in Nat /\ j \in Nat
        BY <1>9, <1>12, <2>1, <3>4
      <4>. QED
        BY <1>3, <3>4, <4>1
    <3>. QED
      BY <1>4, <2>1, <3>1, <3>2, <3>3, <3>4
  <2>2. ASSUME NEW o \in Client \ {c}, NEW a \in s2c'[o], NEW b \in s2c'[o],
               a.session = b.session,
               NEW i \in DOMAIN a.frames, NEW j \in DOMAIN b.frames,
               a.frames[i].seq = b.frames[j].seq
        PROVE  a = b /\ i = j
    BY <1>4, <2>2 DEF NumberInv, ReplyNumbersUnique
  <2>. QED
    BY <2>1, <2>2 DEF ReplyNumbersUnique
<1>17. ClosingAnswerIsLast'
  <2>1. ASSUME NEW a \in s2c'[c], LastFrame(a).type \in {"ERROR", "BYE"}
        PROVE  /\ a.session < peers'[c].session.id
               /\ \A b \in s2c'[c] : b.session = a.session =>
                    \A i \in DOMAIN b.frames : b.frames[i].seq <= LastFrame(a).seq
    <3>1. CASE a \in s2c[c]
      <4>1. /\ a.session < s.id
            /\ \A b \in s2c[c] : b.session = a.session =>
                 \A i \in DOMAIN b.frames : b.frames[i].seq <= LastFrame(a).seq
        BY <2>1, <3>1 DEF NumberInv, ClosingAnswerIsLast, s
      <4>2. a.session \in Nat
        BY <1>11, <3>1
      <4>. QED
        BY <1>3, <1>4, <1>12, <1>13, <4>1, <4>2
    <3>2. CASE a = d /\ r.frames # << >>
      <4>1. r.close /\ k \in {1, 2} /\ LastFrame(a).seq = n + k - 1
        BY <1>9, <1>10, <1>12, <2>1, <3>2 DEF LastWords
      <4>2. ASSUME NEW b \in s2c'[c], b.session = s.id, NEW i \in DOMAIN b.frames
            PROVE  b.frames[i].seq <= n + k - 1
        <5>1. CASE b \in s2c[c]
          <6>1. b.frames[i].seq < r.frames[1].seq /\ r.frames[1].seq = n
            BY <1>3, <1>9, <1>14, <4>1, <4>2, <5>1
          <6>2. b.frames[i] \in Frames
            <7>1. b.frames \in Seq(Frames)
              BY <1>11, <5>1
            <7>. QED
              BY <7>1
          <6>. QED
            BY <1>3, <4>1, <6>1, <6>2, MaxSeqAssumption DEF Frames
        <5>2. CASE b = d
          <6>1. b.frames[i].seq = n + i - 1 /\ i \in 1..k
            BY <1>9, <1>12, <4>2, <5>2
          <6>. QED
            BY <1>3, <4>1, <6>1
        <5>. QED
          BY <1>4, <4>2, <5>1, <5>2
      <4>. QED
        BY <1>3, <1>12, <1>13, <3>2, <4>1, <4>2
    <3>. QED
      BY <1>4, <2>1, <3>1, <3>2
  <2>2. ASSUME NEW o \in Client \ {c}, NEW a \in s2c'[o],
               LastFrame(a).type \in {"ERROR", "BYE"}
        PROVE  /\ a.session < peers'[o].session.id
               /\ \A b \in s2c'[o] : b.session = a.session =>
                    \A i \in DOMAIN b.frames : b.frames[i].seq <= LastFrame(a).seq
    BY <1>4, <2>2 DEF NumberInv, ClosingAnswerIsLast
  <2>3. ASSUME NEW o \in Client, NEW a \in s2c'[o], LastFrame(a).type \in {"ERROR", "BYE"}
        PROVE  /\ a.session < peers'[o].session.id
               /\ \A b \in s2c'[o] : b.session = a.session =>
                    \A i \in DOMAIN b.frames : b.frames[i].seq <= LastFrame(a).seq
    BY <2>1, <2>2, <2>3
  <2>. QED
    BY <2>3 DEF ClosingAnswerIsLast, LastFrame
<1>. QED
  BY <1>15, <1>16, <1>17 DEF NumberInv

\* What the server has sent is numbered without repetition, and ends with a last word.
LEMMA PeersNumberInv ==
  ASSUME NEW CONSTANT inbox, inbox \subseteq Frames, NumbersSuffice(inbox)
  PROVE  ServerSpec(inbox) => []NumberInv
<1>1. ServerInit => NumberInv
  <2>. SUFFICES ASSUME ServerInit PROVE NumberInv
    OBVIOUS
  <2>1. \A c \in Client : s2c[c] = {} /\ peers[c] = NewPeer(0)
    BY DEF ServerInit
  <2>2. NewPeer(0).session = [id |-> 0, state |-> "NEW", outSeq |-> 0, lastPeerSeq |-> -1]
    BY DEF NewPeer, NewSession
  <2>. QED
    BY <2>1, <2>2 DEF NumberInv, NumbersBelow, ReplyNumbersUnique, ClosingAnswerIsLast
<1>2. ServerInv /\ NumberInv /\ [ServerNext(inbox)]_serverVars => NumberInv'
  <2>. SUFFICES ASSUME ServerInv, NumberInv, [ServerNext(inbox)]_serverVars PROVE NumberInv'
    OBVIOUS
  <2>1. ASSUME NEW c \in Client, NEW f \in inbox, Replay(c, f)
        PROVE  UNCHANGED serverVars
    BY <2>1, ReplayStep
  <2>2. ASSUME NEW c \in Client, NEW f \in inbox, Handle(c, f)
        PROVE  NumberInv'
    BY <2>2, NumberStep DEF NumbersSuffice
  <2>3. CASE UNCHANGED serverVars
    <3>1. peers' = peers /\ s2c' = s2c
      BY <2>3 DEF serverVars
    <3>2. NumbersBelow' /\ ReplyNumbersUnique'
      BY <3>1 DEF NumberInv, NumbersBelow, ReplyNumbersUnique
    <3>3. ClosingAnswerIsLast'
      BY <3>1 DEF NumberInv, ClosingAnswerIsLast, LastFrame
    <3>. QED
      BY <3>2, <3>3 DEF NumberInv
  <2>. QED
    BY <2>1, <2>2, <2>3 DEF ServerNext, OnDatagram
<1>3. ServerSpec(inbox) => []ServerInv
  BY PeersInv
<1>. QED
  BY <1>1, <1>2, <1>3, PTL DEF ServerSpec

(* The numbers of a session's own frames never repeat, unless they run out.*)
THEOREM PeersReplyNumbersUnique ==
  ASSUME NEW CONSTANT inbox, inbox \subseteq Frames, NumbersSuffice(inbox)
  PROVE  ServerSpec(inbox) => []ReplyNumbersUnique
<1>1. NumberInv => ReplyNumbersUnique
  BY DEF NumberInv
<1>2. ServerSpec(inbox) => []NumberInv
  BY PeersNumberInv
<1>. QED
  BY <1>1, <1>2, PTL

(* An ERROR or a BYE is the last frame of its session that the peer gets.  *)
THEOREM PeersClosingAnswerIsLast ==
  ASSUME NEW CONSTANT inbox, inbox \subseteq Frames, NumbersSuffice(inbox)
  PROVE  ServerSpec(inbox) => []ClosingAnswerIsLast
<1>1. NumberInv => ClosingAnswerIsLast
  BY DEF NumberInv
<1>2. ServerSpec(inbox) => []NumberInv
  BY PeersNumberInv
<1>. QED
  BY <1>1, <1>2, PTL
=============================================================================
