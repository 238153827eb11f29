------------------------------- MODULE Session ------------------------------
(***************************************************************************)
(* ServerSession: the state machine of one client connection as the server *)
(* sees it.  It does no I/O.  Every event maps a session to a reaction: the*)
(* session after the event, the frames the transport must send, and whether*)
(* the transport must close.  The TCP server and the UDP server share it.  *)
(*                                                                         *)
(* "id" stands for the random session_id: a fresh number per session of an *)
(* address.  client_id and peer_nonce are stored and never read.           *)
(***************************************************************************)
EXTENDS Wire

State == {"NEW", "HANDSHAKE", "READY", "CLOSING", "CLOSED"}

Sessions ==
  [id : Nat, state : State, outSeq : 0..MaxSeq, lastPeerSeq : -1..MaxSeq]

\* Mutant: the next number starts at the value that means "none yet".
NewSessionUnnumbered(id) ==
  [id |-> id, state |-> "NEW", outSeq |-> -1, lastPeerSeq |-> -1]

NewSession(id) == [id |-> id, state |-> "NEW", outSeq |-> 0, lastPeerSeq |-> -1]

Reactions == [session : Sessions, frames : Seq(Frames), close : BOOLEAN]

-----------------------------------------------------------------------------

\* Reaction(): nothing to send.
Silent(s) == [session |-> s, frames |-> << >>, close |-> FALSE]

\* Mutant: the frame does not consume its number.
ReplyUncounted(s, type, payload) ==
  [session |-> s, frames |-> << Frame(type, s.outSeq, payload, {}) >>, close |-> FALSE]

\* A reaction of one frame, numbered by _next_seq.
Reply(s, type, payload) ==
  [session |-> [s EXCEPT !.outSeq = NextSeq(s.outSeq)],
   frames  |-> << Frame(type, s.outSeq, payload, {}) >>,
   close   |-> FALSE]

\* Mutant: the transport is not told to close.
ClosingUntold(r) ==
  [session |-> [r.session EXCEPT !.state = "CLOSED"], frames |-> r.frames, close |-> FALSE]

\* The reaction r, with the session CLOSED and the transport told to close.
Closing(r) ==
  [session |-> [r.session EXCEPT !.state = "CLOSED"], frames |-> r.frames, close |-> TRUE]

\* Mutant: the session goes on after an ERROR.
ErrorStaysOpen(s, code) == Reply(s, "ERROR", [code |-> code])

Error(s, code) == Closing(Reply(s, "ERROR", [code |-> code]))

\* Mutant: an ACK is not numbered in the sequence.
AckUncounted(s, peerSeq) ==
  [session |-> s, frames |-> << Frame("ACK", s.outSeq, [ack_seq |-> peerSeq], {}) >>,
   close |-> FALSE]

\* ack(peer_seq): an ACK takes a number of this side's own sequence.
Ack(s, peerSeq) == Reply(s, "ACK", [ack_seq |-> peerSeq])

-----------------------------------------------------------------------------

OnHello(s, f) ==
  LET fault == Decode(f.payload, "client_id")
  IN  IF fault # "OK" THEN Error(s, fault)
      ELSE Reply([s EXCEPT !.state = "READY"], "HELLO_ACK", [session_id |-> s.id])

\* A peer's ERROR frame ends the session, if its payload can be read.
OnError(s, f) ==
  LET fault == Decode(f.payload, "code")
  IN  IF fault # "OK" THEN Error(s, fault) ELSE Closing(Silent(s))

\* Mutant: a second HELLO shakes hands again.
DispatchAnyHello(s, f) ==
  IF f.type = "HELLO" THEN OnHello(s, f)
  ELSE IF s.state = "NEW" THEN Error(s, "ERR_STATE")
  ELSE IF f.type = "DATA" THEN Reply(s, "DATA", f.payload)
  ELSE Silent(s)

Dispatch(s, f) ==
  IF s.state = "NEW"
  THEN IF f.type = "HELLO" THEN OnHello(s, f) ELSE Error(s, "ERR_STATE")
  ELSE CASE f.type \in {"HELLO", "HELLO_ACK"} -> Error(s, "ERR_STATE")
         [] f.type = "PING"                   -> Reply(s, "PONG", f.payload)
         [] f.type = "DATA"                   -> Reply(s, "DATA", f.payload)
         [] f.type \in {"PONG", "ACK"}        -> Silent(s)
         [] f.type = "BYE"                    -> Closing(Reply(s, "BYE", NoPayload))
         [] f.type = "ERROR"                  -> OnError(s, f)

\* Mutant: the number of a frame is stored and not compared.
OnFrameAnyNumber(s, f) ==
  IF s.state \in {"CLOSING", "CLOSED"} THEN Closing(Silent(s))
  ELSE Dispatch([s EXCEPT !.lastPeerSeq = f.seq], f)

OnFrame(s, f) ==
  IF s.state \in {"CLOSING", "CLOSED"} THEN Closing(Silent(s))
  ELSE IF f.seq <= s.lastPeerSeq THEN Error(s, "ERR_SEQ")
  ELSE Dispatch([s EXCEPT !.lastPeerSeq = f.seq], f)

\* The transport failed to decode; the stream position is no longer trusted.
OnProtocolError(s, code) == Error(s, code)

\* No frame within the idle window: closed quietly.
OnIdleTimeout(s) == Closing(Silent(s))

\* The frame was accepted and its handler ran: the answer is not an ERROR.
Accepted(r) == \A i \in DOMAIN r.frames : r.frames[i].type # "ERROR"
=============================================================================
