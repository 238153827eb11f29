---------------------------- MODULE SessionProofs ----------------------------
(***************************************************************************)
(* Proofs about a session: what the reaction to an event looks like, and   *)
(* what it leaves of the session.                                          *)
(***************************************************************************)
EXTENDS Session, TLAPS

-----------------------------------------------------------------------------
(* Types.                                                                  *)

LEMMA NextSeqType ==
  ASSUME NEW n \in 0..MaxSeq
  PROVE  NextSeq(n) \in 0..MaxSeq
BY MaxSeqAssumption DEF NextSeq

LEMMA ReplyType ==
  ASSUME NEW s \in Sessions, NEW type \in MsgType, NEW payload \in Payload
  PROVE  Reply(s, type, payload) \in Reactions
<1>1. NextSeq(s.outSeq) \in 0..MaxSeq
  BY NextSeqType DEF Sessions
<1>2. [s EXCEPT !.outSeq = NextSeq(s.outSeq)] \in Sessions
  BY <1>1 DEF Sessions
<1>3. Frame(type, s.outSeq, payload, {}) \in Frames
  BY DEF Frame, Frames, Sessions
<1>. QED
  BY <1>2, <1>3 DEF Reply, Reactions

LEMMA SilentType ==
  ASSUME NEW s \in Sessions
  PROVE  Silent(s) \in Reactions
BY DEF Silent, Reactions

LEMMA ClosingType ==
  ASSUME NEW r \in Reactions
  PROVE  Closing(r) \in Reactions
BY DEF Closing, Reactions, Sessions, State

LEMMA ControlPayloads ==
  /\ NoPayload \in Payload
  /\ \A code \in ErrorCode : [code |-> code] \in Payload
  /\ \A n \in 0..MaxSeq : [ack_seq |-> n] \in Payload
  /\ \A id \in Nat : [session_id |-> id] \in Payload
BY DEF NoPayload, Payload

LEMMA ErrorType ==
  ASSUME NEW s \in Sessions, NEW code \in ErrorCode
  PROVE  Error(s, code) \in Reactions
<1>1. [code |-> code] \in Payload
  BY ControlPayloads
<1>2. Reply(s, "ERROR", [code |-> code]) \in Reactions
  BY <1>1, ReplyType DEF MsgType
<1>. QED
  BY <1>2, ClosingType DEF Error

LEMMA DecodeCases ==
  ASSUME NEW payload, NEW field
  PROVE  Decode(payload, field) # "OK" => Decode(payload, field) \in ErrorCode
BY DEF Decode, ErrorCode

LEMMA OnHelloType ==
  ASSUME NEW s \in Sessions, NEW f \in Frames
  PROVE  OnHello(s, f) \in Reactions
<1>1. CASE Decode(f.payload, "client_id") # "OK"
  BY <1>1, DecodeCases, ErrorType DEF OnHello
<1>2. CASE Decode(f.payload, "client_id") = "OK"
  <2>1. [s EXCEPT !.state = "READY"] \in Sessions
    BY DEF Sessions, State
  <2>2. [session_id |-> s.id] \in Payload
    BY ControlPayloads DEF Sessions
  <2>3. Reply([s EXCEPT !.state = "READY"], "HELLO_ACK", [session_id |-> s.id]) \in Reactions
    BY <2>1, <2>2, ReplyType DEF MsgType
  <2>. QED
    BY <1>2, <2>3 DEF OnHello
<1>. QED
  BY <1>1, <1>2

LEMMA OnErrorType ==
  ASSUME NEW s \in Sessions, NEW f \in Frames
  PROVE  OnError(s, f) \in Reactions
BY DecodeCases, ErrorType, SilentType, ClosingType DEF OnError

LEMMA DispatchType ==
  ASSUME NEW s \in Sessions, NEW f \in Frames
  PROVE  Dispatch(s, f) \in Reactions
<1>1. f.payload \in Payload /\ f.type \in MsgType
  BY DEF Frames
<1>2. Error(s, "ERR_STATE") \in Reactions
  BY ErrorType DEF ErrorCode
<1>3. /\ Reply(s, "PONG", f.payload) \in Reactions
      /\ Reply(s, "DATA", f.payload) \in Reactions
  BY <1>1, ReplyType DEF MsgType
<1>4. Closing(Reply(s, "BYE", NoPayload)) \in Reactions
  BY ReplyType, ClosingType, ControlPayloads DEF MsgType
<1>. QED
  BY <1>1, <1>2, <1>3, <1>4, SilentType, OnHelloType, OnErrorType DEF Dispatch, MsgType

LEMMA OnFrameType ==
  ASSUME NEW s \in Sessions, NEW f \in Frames
  PROVE  OnFrame(s, f) \in Reactions
<1>1. [s EXCEPT !.lastPeerSeq = f.seq] \in Sessions
  BY DEF Sessions, Frames
<1>2. Closing(Silent(s)) \in Reactions
  BY SilentType, ClosingType
<1>3. Error(s, "ERR_SEQ") \in Reactions
  BY ErrorType DEF ErrorCode
<1>. QED
  BY <1>1, <1>2, <1>3, DispatchType DEF OnFrame

-----------------------------------------------------------------------------
(* What a reaction says of the session.                                    *)

\* A session of _peers between two datagrams.
Live(s) == s.state \in {"NEW", "READY"}

LEMMA ReplyFacts ==
  ASSUME NEW s \in Sessions, NEW type, NEW payload
  PROVE  LET r == Reply(s, type, payload)
         IN  /\ Accepted(r) <=> type # "ERROR"
             /\ Accepted(Closing(r)) <=> type # "ERROR"
             /\ r.session.id = s.id
             /\ r.session.state = s.state
             /\ r.session.lastPeerSeq = s.lastPeerSeq
             /\ ~r.close
BY DEF Reply, Accepted, Frame, Closing, Sessions

LEMMA ClosingFacts ==
  ASSUME NEW r, r.session \in Sessions
  PROVE  /\ Closing(r).close
         /\ Closing(r).frames = r.frames
         /\ Closing(r).session.id = r.session.id
         /\ Closing(r).session.state = "CLOSED"
<1>. DEFINE s == r.session
<1>1. [s EXCEPT !.state = "CLOSED"].id = s.id /\ [s EXCEPT !.state = "CLOSED"].state = "CLOSED"
  BY DEF Sessions
<1>. QED
  BY <1>1 DEF Closing

LEMMA SilentFacts ==
  ASSUME NEW s
  PROVE  Accepted(Silent(s)) /\ Accepted(Closing(Silent(s)))
BY DEF Silent, Accepted, Closing

LEMMA ErrorFacts ==
  ASSUME NEW s \in Sessions, NEW code
  PROVE  /\ ~Accepted(Error(s, code))
         /\ Error(s, code).close
         /\ Error(s, code).session.id = s.id
<1>. DEFINE r == Reply(s, "ERROR", [code |-> code])
<1>1. ~Accepted(Closing(r)) /\ r.session.id = s.id
  BY ReplyFacts
<1>2. r.session \in Sessions
  BY NextSeqType DEF Reply, Sessions
<1>. QED
  BY <1>1, <1>2, ClosingFacts DEF Error

\* A dispatched frame is a handshake exactly in a new session, or is refused.
LEMMA DispatchFacts ==
  ASSUME NEW s \in Sessions, Live(s), NEW f \in Frames
  PROVE  LET r == Dispatch(s, f)
         IN  /\ r.session.id = s.id
             /\ Accepted(r) => (f.type = "HELLO" <=> s.state = "NEW")
             /\ ~r.close => /\ Accepted(r)
                            /\ r.session.state = "READY"
                            /\ r.session.lastPeerSeq = s.lastPeerSeq
<1>. DEFINE r == Dispatch(s, f)
<1>1. CASE s.state = "NEW" /\ f.type = "HELLO"
  <2>. DEFINE fault == Decode(f.payload, "client_id")
              ready == [s EXCEPT !.state = "READY"]
  <2>1. CASE fault # "OK"
    <3>1. r = Error(s, fault)
      BY <1>1, <2>1 DEF Dispatch, OnHello
    <3>. QED
      BY <1>1, <3>1, ErrorFacts
  <2>2. CASE fault = "OK"
    <3>1. r = Reply(ready, "HELLO_ACK", [session_id |-> s.id])
      BY <1>1, <2>2 DEF Dispatch, OnHello
    <3>2. /\ ready \in Sessions
          /\ ready.id = s.id
          /\ ready.state = "READY"
          /\ ready.lastPeerSeq = s.lastPeerSeq
      BY DEF Sessions, State
    <3>. HIDE DEF ready
    <3>3. /\ Accepted(r)
          /\ r.session.id = s.id
          /\ r.session.state = "READY"
          /\ r.session.lastPeerSeq = s.lastPeerSeq
      BY <3>1, <3>2, ReplyFacts
    <3>. QED
      BY <1>1, <3>3
  <2>. QED
    BY <2>1, <2>2
<1>2. CASE s.state = "NEW" /\ f.type # "HELLO"
  BY <1>2, ErrorFacts DEF Dispatch
<1>3. CASE s.state = "READY"
  <2>1. f.type \in MsgType
    BY DEF Frames
  <2>2. CASE f.type \in {"HELLO", "HELLO_ACK"}
    BY <1>3, <2>2, ErrorFacts DEF Dispatch
  <2>3. CASE f.type \in {"PING", "DATA"}
    <3>1. r = Reply(s, IF f.type = "PING" THEN "PONG" ELSE "DATA", f.payload)
      BY <1>3, <2>3 DEF Dispatch
    <3>. QED
      BY <1>3, <2>3, <3>1, ReplyFacts
  <2>4. CASE f.type \in {"PONG", "ACK"}
    <3>1. r = Silent(s)
      BY <1>3, <2>4 DEF Dispatch
    <3>. QED
      BY <1>3, <2>4, <3>1, SilentFacts DEF Silent
  <2>5. CASE f.type = "BYE"
    <3>1. r = Closing(Reply(s, "BYE", NoPayload))
      BY <1>3, <2>5 DEF Dispatch
    <3>2. Reply(s, "BYE", NoPayload) \in Reactions
      BY ReplyType, ControlPayloads DEF MsgType
    <3>3. r.close /\ r.session.id = s.id
      BY <3>1, <3>2, ReplyFacts, ClosingFacts DEF Reactions
    <3>. QED
      BY <1>3, <2>5, <3>3
  <2>6. CASE f.type = "ERROR"
    <3>1. r = OnError(s, f)
      BY <1>3, <2>6 DEF Dispatch
    <3>2. r.close /\ r.session.id = s.id
      BY <3>1, ErrorFacts, ClosingFacts DEF OnError, Silent
    <3>. QED
      BY <1>3, <2>6, <3>2
  <2>. QED
    BY <2>1, <2>2, <2>3, <2>4, <2>5, <2>6 DEF MsgType
<1>. QED
  BY <1>1, <1>2, <1>3 DEF Live

LEMMA OnFrameFacts ==
  ASSUME NEW s \in Sessions, Live(s), NEW f \in Frames
  PROVE  LET r == OnFrame(s, f)
         IN  /\ r.session.id = s.id
             /\ Accepted(r) => /\ s.lastPeerSeq < f.seq
                               /\ f.type = "HELLO" <=> s.state = "NEW"
             /\ ~r.close => /\ Accepted(r)
                            /\ r.session.state = "READY"
                            /\ r.session.lastPeerSeq = f.seq
<1>. DEFINE r == OnFrame(s, f)
            heard == [s EXCEPT !.lastPeerSeq = f.seq]
<1>1. /\ f.seq \in 0..MaxSeq
      /\ s.lastPeerSeq \in -1..MaxSeq
      /\ s.state \notin {"CLOSING", "CLOSED"}
  BY DEF Frames, Sessions, Live
<1>2. CASE f.seq <= s.lastPeerSeq
  <2>1. r = Error(s, "ERR_SEQ")
    BY <1>1, <1>2 DEF OnFrame
  <2>. QED
    BY <2>1, ErrorFacts
<1>3. CASE ~(f.seq <= s.lastPeerSeq)
  <2>1. r = Dispatch(heard, f)
    BY <1>1, <1>3 DEF OnFrame
  <2>2. /\ heard \in Sessions
        /\ heard.id = s.id
        /\ heard.state = s.state
        /\ heard.lastPeerSeq = f.seq
    BY <1>1 DEF Sessions
  <2>. HIDE DEF heard
  <2>3. Live(heard)
    BY <2>2 DEF Live
  <2>4. /\ r.session.id = s.id
        /\ Accepted(r) => (f.type = "HELLO" <=> s.state = "NEW")
        /\ ~r.close => /\ Accepted(r)
                       /\ r.session.state = "READY"
                       /\ r.session.lastPeerSeq = f.seq
    BY <2>1, <2>2, <2>3, DispatchFacts
  <2>. HIDE DEF r
  <2>5. s.lastPeerSeq < f.seq
    BY <1>1, <1>3
  <2>. QED
    BY <2>4, <2>5 DEF r
<1>. QED
  BY <1>2, <1>3

-----------------------------------------------------------------------------
(* What a reaction sends.                                                  *)

LastWords == {"ERROR", "BYE"}

\* At most one frame; an ERROR or a BYE closes, and a BYE only where one may.
Shaped(r, bye) ==
  /\ \/ r.frames = << >>
     \/ \E x \in Frames : /\ r.frames = << x >>
                          /\ x.type \in LastWords => r.close
                          /\ x.type = "BYE" => bye
  /\ r.close => r.session.state = "CLOSED"
  /\ ~r.close => r.session.state = "READY"

LEMMA ReplyShape ==
  ASSUME NEW s \in Sessions, NEW type \in MsgType, NEW payload \in Payload
  PROVE  \E x \in Frames : Reply(s, type, payload).frames = << x >> /\ x.type = type
BY DEF Reply, Frame, Frames, Sessions

LEMMA ErrorShape ==
  ASSUME NEW s \in Sessions, NEW code \in ErrorCode, NEW bye
  PROVE  Shaped(Error(s, code), bye)
<1>. DEFINE r == Reply(s, "ERROR", [code |-> code])
<1>1. r \in Reactions
  BY ReplyType, ControlPayloads DEF MsgType
<1>2. \E x \in Frames : r.frames = << x >> /\ x.type = "ERROR"
  BY ReplyShape, ControlPayloads DEF MsgType
<1>. HIDE DEF r
<1>3. Error(s, code) = Closing(r)
  BY DEF Error, r
<1>4. /\ Closing(r).close
      /\ Closing(r).frames = r.frames
      /\ Closing(r).session.state = "CLOSED"
  BY <1>1, ClosingFacts DEF Reactions
<1>. QED
  BY <1>2, <1>3, <1>4 DEF Shaped

LEMMA QuietShape ==
  ASSUME NEW s \in Sessions, NEW bye
  PROVE  Shaped(Closing(Silent(s)), bye)
<1>1. Silent(s).session \in Sessions /\ Silent(s).frames = << >>
  BY DEF Silent
<1>. QED
  BY <1>1, ClosingFacts DEF Shaped

LEMMA AnswerShape ==
  ASSUME NEW s \in Sessions, s.state = "READY", NEW bye,
         NEW type \in MsgType \ LastWords, NEW payload \in Payload
  PROVE  Shaped(Reply(s, type, payload), bye)
<1>. DEFINE r == Reply(s, type, payload)
<1>1. \E x \in Frames : r.frames = << x >> /\ x.type = type
  BY ReplyShape
<1>2. ~r.close /\ r.session.state = "READY"
  BY ReplyFacts
<1>. HIDE DEF r
<1>3. Shaped(r, bye)
  BY <1>1, <1>2 DEF Shaped, LastWords
<1>. QED
  BY <1>3 DEF r

LEMMA DispatchShape ==
  ASSUME NEW s \in Sessions, Live(s), NEW f \in Frames
  PROVE  Shaped(Dispatch(s, f), f.type = "BYE")
<1>. DEFINE r == Dispatch(s, f)
            bye == f.type = "BYE"
<1>1. f.type \in MsgType /\ f.payload \in Payload /\ s.id \in Nat
  BY DEF Frames, Sessions
<1>2. Shaped(Error(s, "ERR_STATE"), bye)
  BY ErrorShape DEF ErrorCode
<1>3. CASE s.state = "NEW" /\ f.type = "HELLO"
  <2>. DEFINE fault == Decode(f.payload, "client_id")
              ready == [s EXCEPT !.state = "READY"]
              p == [session_id |-> s.id]
  <2>1. CASE fault # "OK"
    <3>1. r = Error(s, fault)
      BY <1>3, <2>1 DEF Dispatch, OnHello
    <3>2. fault \in ErrorCode
      BY <2>1, DecodeCases
    <3>. HIDE DEF fault, r
    <3>. QED
      BY <3>1, <3>2, ErrorShape DEF r
  <2>2. CASE fault = "OK"
    <3>1. r = Reply(ready, "HELLO_ACK", p)
      BY <1>3, <2>2 DEF Dispatch, OnHello
    <3>2. ready \in Sessions /\ ready.state = "READY" /\ p \in Payload
      BY <1>1, ControlPayloads DEF Sessions, State
    <3>. HIDE DEF ready, p, r
    <3>. QED
      BY <3>1, <3>2, AnswerShape DEF r, MsgType, LastWords
  <2>. QED
    BY <2>1, <2>2
<1>4. CASE s.state = "NEW" /\ f.type # "HELLO"
  BY <1>2, <1>4 DEF Dispatch
<1>5. CASE s.state = "READY"
  <2>1. CASE f.type \in {"HELLO", "HELLO_ACK"}
    BY <1>2, <1>5, <2>1 DEF Dispatch
  <2>2. CASE f.type \in {"PING", "DATA"}
    <3>1. r = Reply(s, IF f.type = "PING" THEN "PONG" ELSE "DATA", f.payload)
      BY <1>5, <2>2 DEF Dispatch
    <3>. QED
      BY <1>1, <1>5, <3>1, AnswerShape DEF MsgType, LastWords
  <2>3. CASE f.type \in {"PONG", "ACK"}
    <3>1. r = Silent(s)
      BY <1>5, <2>3 DEF Dispatch
    <3>. QED
      BY <1>5, <3>1 DEF Silent, Shaped
  <2>4. CASE f.type = "BYE"
    <3>. DEFINE b == Reply(s, "BYE", NoPayload)
    <3>1. r = Closing(b)
      BY <1>5, <2>4 DEF Dispatch
    <3>2. b \in Reactions
      BY ReplyType, ControlPayloads DEF MsgType
    <3>3. \E x \in Frames : b.frames = << x >>
      BY ReplyShape, ControlPayloads DEF MsgType
    <3>. HIDE DEF b, r
    <3>4. r.close /\ r.frames = b.frames /\ r.session.state = "CLOSED"
      BY <3>1, <3>2, ClosingFacts DEF Reactions
    <3>. QED
      BY <2>4, <3>3, <3>4 DEF Shaped, r
  <2>5. CASE f.type = "ERROR"
    <3>. DEFINE fault == Decode(f.payload, "code")
    <3>1. r = IF fault # "OK" THEN Error(s, fault) ELSE Closing(Silent(s))
      BY <1>5, <2>5 DEF Dispatch, OnError
    <3>2. fault # "OK" => fault \in ErrorCode
      BY DecodeCases
    <3>. HIDE DEF fault, r
    <3>. QED
      BY <3>1, <3>2, ErrorShape, QuietShape DEF r
  <2>. QED
    BY <1>1, <2>1, <2>2, <2>3, <2>4, <2>5 DEF MsgType
<1>. QED
  BY <1>3, <1>4, <1>5 DEF Live

LEMMA OnFrameShape ==
  ASSUME NEW s \in Sessions, Live(s), NEW f \in Frames
  PROVE  Shaped(OnFrame(s, f), f.type = "BYE")
<1>. DEFINE heard == [s EXCEPT !.lastPeerSeq = f.seq]
<1>1. CASE f.seq <= s.lastPeerSeq
  <2>1. OnFrame(s, f) = Error(s, "ERR_SEQ")
    BY <1>1 DEF OnFrame, Live
  <2>. QED
    BY <2>1, ErrorShape DEF ErrorCode
<1>2. CASE ~(f.seq <= s.lastPeerSeq)
  <2>1. OnFrame(s, f) = Dispatch(heard, f)
    BY <1>2 DEF OnFrame, Live
  <2>2. heard \in Sessions /\ Live(heard)
    BY DEF Sessions, Frames, Live
  <2>. HIDE DEF heard
  <2>. QED
    BY <2>1, <2>2, DispatchShape
<1>. QED
  BY <1>1, <1>2
-----------------------------------------------------------------------------
(* What is said in answer, and with which number.                          *)

\* x is the answer to f.
Echoes(x, f) ==
  \/ f.type = "HELLO" /\ x.type = "HELLO_ACK" /\ \E id \in Nat : x.payload = [session_id |-> id]
  \/ f.type = "PING" /\ x.type = "PONG" /\ x.payload = f.payload
  \/ f.type = "DATA" /\ x.type = "DATA" /\ x.payload = f.payload
  \/ f.type = "BYE" /\ x.type = "BYE"

Refuses(x) == x.type = "ERROR" /\ \E code \in ErrorCode : x.payload = [code |-> code]

\* Nothing to say to f; or one frame, which takes the number n.
Reacts(r, f, n) ==
  \/ r.frames = << >> /\ r.session.outSeq = n /\ f.type \in {"PONG", "ACK", "ERROR"}
  \/ \E x \in Frames : /\ r.frames = << x >> /\ x.seq = n
                       /\ r.session.outSeq = NextSeq(n)
                       /\ Echoes(x, f) \/ Refuses(x)

LEMMA ReplyNumber ==
  ASSUME NEW s \in Sessions, NEW type \in MsgType, NEW payload \in Payload
  PROVE  /\ Reply(s, type, payload).session.outSeq = NextSeq(s.outSeq)
         /\ \E x \in Frames : /\ Reply(s, type, payload).frames = << x >>
                              /\ x.seq = s.outSeq /\ x.type = type /\ x.payload = payload
<1>. DEFINE x == Frame(type, s.outSeq, payload, {})
<1>1. x \in Frames /\ x.seq = s.outSeq /\ x.type = type /\ x.payload = payload
  BY DEF Frame, Frames, Sessions
<1>2. Reply(s, type, payload).frames = << x >>
  BY DEF Reply
<1>3. Reply(s, type, payload).session.outSeq = NextSeq(s.outSeq)
  BY DEF Reply, Sessions
<1>. HIDE DEF x
<1>. QED
  BY <1>1, <1>2, <1>3

LEMMA ClosingNumber ==
  ASSUME NEW r, r.session \in Sessions
  PROVE  Closing(r).frames = r.frames /\ Closing(r).session.outSeq = r.session.outSeq
BY DEF Closing, Sessions

LEMMA ErrorReacts ==
  ASSUME NEW s \in Sessions, NEW f, NEW code \in ErrorCode
  PROVE  Reacts(Error(s, code), f, s.outSeq)
<1>. DEFINE r == Reply(s, "ERROR", [code |-> code])
<1>1. [code |-> code] \in Payload
  BY ControlPayloads
<1>2. r \in Reactions
  BY <1>1, ReplyType DEF MsgType
<1>3. /\ r.session.outSeq = NextSeq(s.outSeq)
      /\ \E x \in Frames : /\ r.frames = << x >>
                           /\ x.seq = s.outSeq /\ x.type = "ERROR" /\ x.payload = [code |-> code]
  BY <1>1, ReplyNumber DEF MsgType
<1>. HIDE DEF r
<1>4. Error(s, code) = Closing(r)
  BY DEF Error, r
<1>5. Closing(r).frames = r.frames /\ Closing(r).session.outSeq = r.session.outSeq
  BY <1>2, ClosingNumber DEF Reactions
<1>. QED
  BY <1>3, <1>4, <1>5 DEF Reacts, Refuses

LEMMA AnswerReacts ==
  ASSUME NEW s \in Sessions, NEW f,
         NEW type \in MsgType, NEW payload \in Payload,
         \A x \in Frames : x.type = type /\ x.payload = payload => Echoes(x, f)
  PROVE  Reacts(Reply(s, type, payload), f, s.outSeq)
<1>. DEFINE r == Reply(s, type, payload)
<1>1. /\ r.session.outSeq = NextSeq(s.outSeq)
      /\ \E x \in Frames : /\ r.frames = << x >>
                           /\ x.seq = s.outSeq /\ x.type = type /\ x.payload = payload
  BY ReplyNumber
<1>. HIDE DEF r
<1>2. Reacts(r, f, s.outSeq)
  BY <1>1 DEF Reacts
<1>. QED
  BY <1>2 DEF r

LEMMA DispatchReacts ==
  ASSUME NEW s \in Sessions, Live(s), NEW f \in Frames
  PROVE  Reacts(Dispatch(s, f), f, s.outSeq)
<1>. DEFINE r == Dispatch(s, f)
<1>1. f.type \in MsgType /\ f.payload \in Payload /\ s.id \in Nat
  BY DEF Frames, Sessions
<1>2. Reacts(Error(s, "ERR_STATE"), f, s.outSeq)
  BY ErrorReacts DEF ErrorCode
<1>3. CASE s.state = "NEW" /\ f.type = "HELLO"
  <2>. DEFINE fault == Decode(f.payload, "client_id")
              ready == [s EXCEPT !.state = "READY"]
              p == [session_id |-> s.id]
  <2>1. CASE fault # "OK"
    <3>1. r = Error(s, fault)
      BY <1>3, <2>1 DEF Dispatch, OnHello
    <3>2. fault \in ErrorCode
      BY <2>1, DecodeCases
    <3>. HIDE DEF fault, r
    <3>. QED
      BY <3>1, <3>2, ErrorReacts DEF r
  <2>2. CASE fault = "OK"
    <3>1. r = Reply(ready, "HELLO_ACK", p)
      BY <1>3, <2>2 DEF Dispatch, OnHello
    <3>2. ready \in Sessions /\ p \in Payload /\ ready.outSeq = s.outSeq
      BY <1>1, ControlPayloads DEF Sessions, State
    <3>3. \A x \in Frames : x.type = "HELLO_ACK" /\ x.payload = p => Echoes(x, f)
      BY <1>1, <1>3 DEF Echoes
    <3>. HIDE DEF ready, p, r
    <3>4. Reacts(Reply(ready, "HELLO_ACK", p), f, ready.outSeq)
      BY <3>2, <3>3, AnswerReacts DEF MsgType
    <3>. QED
      BY <3>1, <3>2, <3>4 DEF r
  <2>. QED
    BY <2>1, <2>2
<1>4. CASE s.state = "NEW" /\ f.type # "HELLO"
  BY <1>2, <1>4 DEF Dispatch
<1>5. CASE s.state = "READY"
  <2>1. CASE f.type \in {"HELLO", "HELLO_ACK"}
    BY <1>2, <1>5, <2>1 DEF Dispatch
  <2>2. CASE f.type = "PING"
    <3>1. r = Reply(s, "PONG", f.payload)
      BY <1>5, <2>2 DEF Dispatch
    <3>2. \A x \in Frames : x.type = "PONG" /\ x.payload = f.payload => Echoes(x, f)
      BY <2>2 DEF Echoes
    <3>. QED
      BY <1>1, <3>1, <3>2, AnswerReacts DEF MsgType
  <2>3. CASE f.type = "DATA"
    <3>1. r = Reply(s, "DATA", f.payload)
      BY <1>5, <2>3 DEF Dispatch
    <3>2. \A x \in Frames : x.type = "DATA" /\ x.payload = f.payload => Echoes(x, f)
      BY <2>3 DEF Echoes
    <3>. QED
      BY <1>1, <3>1, <3>2, AnswerReacts DEF MsgType
  <2>4. CASE f.type \in {"PONG", "ACK"}
    <3>1. r.frames = << >> /\ r.session = s
      BY <1>5, <2>4 DEF Dispatch, Silent
    <3>. QED
      BY <2>4, <3>1 DEF Reacts
  <2>5. CASE f.type = "BYE"
    <3>. DEFINE bye == Reply(s, "BYE", NoPayload)
    <3>1. r = Closing(bye)
      BY <1>5, <2>5 DEF Dispatch
    <3>2. bye \in Reactions
      BY ReplyType, ControlPayloads DEF MsgType
    <3>3. \A x \in Frames : x.type = "BYE" /\ x.payload = NoPayload => Echoes(x, f)
      BY <2>5 DEF Echoes
    <3>4. Reacts(bye, f, s.outSeq)
      BY <3>3, AnswerReacts, ControlPayloads DEF MsgType
    <3>. HIDE DEF bye, r
    <3>5. r.frames = bye.frames /\ r.session.outSeq = bye.session.outSeq
      BY <3>1, <3>2, ClosingNumber DEF Reactions
    <3>6. Reacts(r, f, s.outSeq)
      BY <3>4, <3>5 DEF Reacts
    <3>. QED
      BY <3>6 DEF r
  <2>6. CASE f.type = "ERROR"
    <3>. DEFINE fault == Decode(f.payload, "code")
    <3>1. r = OnError(s, f)
      BY <1>5, <2>6 DEF Dispatch
    <3>2. CASE fault = "OK"
      <4>1. r = Closing(Silent(s))
        BY <3>1, <3>2 DEF OnError
      <4>2. Silent(s).session = s /\ Silent(s).frames = << >>
        BY DEF Silent
      <4>3. r.frames = << >> /\ r.session.outSeq = s.outSeq
        BY <4>1, <4>2, ClosingNumber
      <4>. QED
        BY <2>6, <4>3 DEF Reacts
    <3>3. CASE fault # "OK"
      <4>1. r = Error(s, fault) /\ fault \in ErrorCode
        BY <3>1, <3>3, DecodeCases DEF OnError
      <4>. HIDE DEF fault
      <4>. QED
        BY <4>1, ErrorReacts
    <3>. QED
      BY <3>2, <3>3
  <2>. QED
    BY <1>1, <2>1, <2>2, <2>3, <2>4, <2>5, <2>6 DEF MsgType
<1>. QED
  BY <1>3, <1>4, <1>5 DEF Live

\* A session reacts to a frame with at most one of its own, numbered from outSeq.
LEMMA OnFrameReacts ==
  ASSUME NEW s \in Sessions, Live(s), NEW f \in Frames
  PROVE  Reacts(OnFrame(s, f), f, s.outSeq)
<1>. DEFINE heard == [s EXCEPT !.lastPeerSeq = f.seq]
<1>1. CASE f.seq <= s.lastPeerSeq
  <2>1. OnFrame(s, f) = Error(s, "ERR_SEQ")
    BY <1>1 DEF OnFrame, Live
  <2>2. Reacts(Error(s, "ERR_SEQ"), f, s.outSeq)
    BY ErrorReacts DEF ErrorCode
  <2>. QED
    BY <2>1, <2>2
<1>2. CASE ~(f.seq <= s.lastPeerSeq)
  <2>1. OnFrame(s, f) = Dispatch(heard, f)
    BY <1>2 DEF OnFrame, Live
  <2>2. heard \in Sessions /\ heard.outSeq = s.outSeq /\ Live(heard)
    BY DEF Sessions, Frames, Live
  <2>. HIDE DEF heard
  <2>3. Reacts(Dispatch(heard, f), f, heard.outSeq)
    BY <2>2, DispatchReacts
  <2>. QED
    BY <2>1, <2>2, <2>3
<1>. QED
  BY <1>1, <1>2
-----------------------------------------------------------------------------
(* What ends a session.                                                    *)

\* A frame that is neither stale nor one a server does not expect ends a session
\* only by saying BYE.
LEMMA OnFrameEnds ==
  ASSUME NEW s \in Sessions, s.state = "READY", NEW f \in Frames,
         s.lastPeerSeq < f.seq, f.type \notin {"HELLO", "HELLO_ACK", "ERROR"},
         OnFrame(s, f).close
  PROVE  f.type = "BYE" /\ Accepted(OnFrame(s, f))
<1>. DEFINE heard == [s EXCEPT !.lastPeerSeq = f.seq]
            r == OnFrame(s, f)
<1>1. ~(f.seq <= s.lastPeerSeq)
  BY DEF Sessions, Frames
<1>2. r = Dispatch(heard, f)
  BY <1>1 DEF OnFrame
<1>3. heard \in Sessions /\ heard.state = "READY" /\ f.type \in MsgType
  BY DEF Sessions, Frames
<1>. HIDE DEF heard
<1>4. CASE f.type \in {"PING", "DATA"}
  BY <1>2, <1>3, <1>4 DEF Dispatch, Reply
<1>5. CASE f.type \in {"PONG", "ACK"}
  BY <1>2, <1>3, <1>5 DEF Dispatch, Silent
<1>6. CASE f.type = "BYE"
  <2>1. r = Closing(Reply(heard, "BYE", NoPayload))
    BY <1>2, <1>3, <1>6 DEF Dispatch
  <2>2. Accepted(Closing(Reply(heard, "BYE", NoPayload)))
    BY <1>3, ReplyFacts
  <2>. QED
    BY <1>6, <2>1, <2>2
<1>. QED
  BY <1>3, <1>4, <1>5, <1>6 DEF MsgType
=============================================================================
