------------------------------ MODULE UdpServer -----------------------------
(***************************************************************************)
(* The UDP server: one session per peer address, with deduplication in     *)
(* front of the session.  Datagrams that fail decode() are dropped and     *)
(* leave no state behind: they are stuttering steps.                       *)
(*                                                                         *)
(* A peer address that is not in _peers is represented by the fresh        *)
(* session and empty window its next frame will get; deleting the entry    *)
(* puts the next fresh session in its place.  session.id counts the        *)
(* sessions of the address.                                                *)
(***************************************************************************)
EXTENDS Session, Dedup

CONSTANT MaxSessions   \* bound: sessions of one address that are explored

ASSUME MaxSessionsAssumption == MaxSessions \in Nat

VARIABLES
  peers,  \* _peers: the session and the deduplication window of each address
  s2c,    \* every datagram sent to each address.  Nothing is removed: receiving
          \* none, one or many copies, in any order, is loss, delay, reordering
          \* and duplication.  The field "session" is history, not on the wire
  ran     \* history: the requests of each address whose handler ran, in order

serverVars == <<peers, s2c, ran>>

NewPeer(id) == [session |-> NewSession(id), window |-> << >>]

ServerInit ==
  /\ peers = [c \in Client |-> NewPeer(0)]
  /\ s2c   = [c \in Client |-> {}]
  /\ ran   = [c \in Client |-> << >>]

-----------------------------------------------------------------------------

\* Empty replies are not sent.
SendTo(c, session, frames) ==
  s2c' = IF frames = << >> THEN s2c
         ELSE [s2c EXCEPT ![c] = @ \cup {[session |-> session, frames |-> frames]}]

\* Mutant: a retransmission is acknowledged anew, in front of the stored reply.
ReplayFreshAck(c, f) ==
  LET acked  == Ack(peers[c].session, f.seq)
      stored == CachedReply(peers[c].window, f.seq)
  IN  /\ Cached(peers[c].window, f.seq)
      /\ SendTo(c, peers[c].session.id, acked.frames \o Tail(stored))
      /\ peers' = [peers EXCEPT ![c].session = acked.session]
      /\ UNCHANGED ran

\* A retransmission of something already handled gets the stored reply, as it was.
Replay(c, f) ==
  /\ Cached(peers[c].window, f.seq)
  /\ SendTo(c, peers[c].session.id, CachedReply(peers[c].window, f.seq))
  /\ UNCHANGED <<peers, ran>>

Run(session, f) ==
  [session |-> session, seq |-> f.seq, type |-> f.type, payload |-> f.payload]

\* Mutant: the ACK names the last frame the session accepted.
AckFirstAccepted(s, f) ==
  IF "REQUIRE_ACK" \in f.flags
  THEN Ack(s, IF s.lastPeerSeq >= 0 THEN s.lastPeerSeq ELSE f.seq)
  ELSE Silent(s)

\* The ACK is built first and takes the lower number.
AckFirst(s, f) == IF "REQUIRE_ACK" \in f.flags THEN Ack(s, f.seq) ELSE Silent(s)

\* What one datagram makes of a session: the ACK and the reaction behind it.
Answering(s, f) ==
  LET acked    == AckFirst(s, f)
      reaction == OnFrame(acked.session, f)
  IN  [session |-> reaction.session,
       frames  |-> acked.frames \o reaction.frames,
       close   |-> reaction.close]

\* Mutant: a closed session is kept like any other.
AfterReactionKept(peer, seq, r) ==
  [session |-> r.session, window |-> Put(peer.window, seq, r.frames)]

\* The peer's entry after the reaction r to frame number seq.
AfterReaction(peer, seq, r) ==
  IF r.close THEN NewPeer(peer.session.id + 1)
  ELSE [session |-> r.session, window |-> Put(peer.window, seq, r.frames)]

Handle(c, f) ==
  LET peer == peers[c]
      r    == Answering(peer.session, f)
  IN  /\ ~Cached(peer.window, f.seq)
      /\ peer.session.id < MaxSessions          \* bound
      /\ SendTo(c, peer.session.id, r.frames)
      /\ peers' = [peers EXCEPT ![c] = AfterReaction(peer, f.seq, r)]
      /\ ran' = IF Accepted(r) THEN [ran EXCEPT ![c] = Append(@, Run(peer.session.id, f))]
                ELSE ran

OnDatagram(c, f) == Replay(c, f) \/ Handle(c, f)

\* The server facing peers that may send any frame of inbox, any number of times
\* and in any order.
ServerNext(inbox) == \E c \in Client, f \in inbox : OnDatagram(c, f)

-----------------------------------------------------------------------------

\* What the handler answers to a run: the last frame of its datagram, which is
\* the ACK when the message has no reply of its own.
Answer(run) ==
  CASE run.type = "HELLO" -> [type |-> "HELLO_ACK", payload |-> [session_id |-> run.session]]
    [] run.type = "PING"  -> [type |-> "PONG", payload |-> run.payload]
    [] run.type = "DATA"  -> [type |-> "DATA", payload |-> run.payload]
    [] run.type = "BYE"   -> [type |-> "BYE", payload |-> NoPayload]
    [] run.type \in {"PONG", "ACK", "ERROR"}
                          -> [type |-> "ACK", payload |-> [ack_seq |-> run.seq]]

\* The datagram answers the request it acknowledges, and not with an ERROR.
Acknowledges(d, seq) ==
  /\ d.frames[1].type = "ACK"
  /\ d.frames[1].payload.ack_seq = seq

LastFrame(d) == d.frames[Len(d.frames)]

-----------------------------------------------------------------------------

(* Type invariant of the server (UdpServer._peers and what it has sent).   *)
ServerTypeOK ==
  /\ peers \in [Client -> [session : Sessions,
                           window  : Seq([seq : 0..MaxSeq, reply : Seq(Frames)])]]
  /\ s2c \in [Client -> SUBSET [session : Nat, frames : Seq(Frames)]]
  /\ ran \in [Client -> Seq([session : Nat, seq : 0..MaxSeq,
                             type : MsgType, payload : Payload])]

(* Within a session a request runs at most once, and requests run in the   *)
(* order of their numbers, whatever copies and orders the network delivers:*)
(* the window alone forgets (it is bounded), the session's strict rule     *)
(* alone cannot tell a duplicate from a stale frame; together they must.   *)
RunsInOrder ==
  \A c \in Client : \A i, j \in DOMAIN ran[c] :
    i < j => \/ ran[c][i].session < ran[c][j].session
             \/ /\ ran[c][i].session = ran[c][j].session
                /\ ran[c][i].seq < ran[c][j].seq

(* The first request a session runs is HELLO, and it is the only HELLO:    *)
(* nothing runs for a peer that has not shaken hands in this session.      *)
HandshakeFirst ==
  \A c \in Client : \A j \in DOMAIN ran[c] :
    ran[c][j].type = "HELLO"
      <=> \A i \in 1..(j - 1) : ran[c][i].session # ran[c][j].session

(* A successful answer to a request is the answer of a run of that request *)
(* in that session: nothing is acknowledged as done that did not run.      *)
AnswersAreOfRuns ==
  \A c \in Client : \A d \in s2c[c] : \A n \in 0..MaxSeq :
    Acknowledges(d, n) /\ LastFrame(d).type # "ERROR" =>
      \E i \in DOMAIN ran[c] :
        /\ ran[c][i].session = d.session
        /\ ran[c][i].seq = n
        /\ Answer(ran[c][i]) = [type |-> LastFrame(d).type, payload |-> LastFrame(d).payload]

(* All the successful answers a session gives to one request are the same  *)
(* bytes: a retransmission gets the stored reply, never a second one.      *)
OneAnswerPerRequest ==
  \A c \in Client : \A a, b \in s2c[c] : \A n \in 0..MaxSeq :
    /\ a.session = b.session
    /\ Acknowledges(a, n) /\ LastFrame(a).type # "ERROR"
    /\ Acknowledges(b, n) /\ LastFrame(b).type # "ERROR"
    => a = b

(* The numbers of a session's own frames never repeat: the ACK takes one   *)
(* too, and a replay is the same frame again (as long as they do not wrap).*)
ReplyNumbersUnique ==
  \A c \in Client : \A a, b \in s2c[c] : a.session = b.session =>
    \A i \in DOMAIN a.frames, j \in DOMAIN b.frames :
      a.frames[i].seq = b.frames[j].seq => a = b /\ i = j

(* An answer that closes a session (ERROR, BYE) is the last it gives: the  *)
(* entry is gone, so the session neither answers nor replays again.        *)
ClosingAnswerIsLast ==
  \A c \in Client : \A a \in s2c[c] : LastFrame(a).type \in {"ERROR", "BYE"} =>
    /\ a.session < peers[c].session.id
    /\ \A b \in s2c[c] : b.session = a.session =>
         \A i \in DOMAIN b.frames : b.frames[i].seq <= LastFrame(a).seq

(* The window of a live session remembers exactly its DedupSize most recent*)
(* requests, so the latest request, the only one a stop-and-wait client can*)
(* be retransmitting, is always answered from it.  What ran before them is *)
(* of an earlier session, unless the window is full.                       *)
RecentRunsCached ==
  \A c \in Client :
    LET window == peers[c].window
        before == Len(ran[c]) - Len(window)
    IN  /\ before >= 0
        /\ Len(window) <= DedupSize
        /\ \A i \in DOMAIN window : /\ ran[c][before + i].session = peers[c].session.id
                                    /\ ran[c][before + i].seq = window[i].seq
        /\ \A i \in 1..before : ran[c][i].session = peers[c].session.id =>
             Len(window) = DedupSize
=============================================================================
