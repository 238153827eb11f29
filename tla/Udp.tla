--------------------------------- MODULE Udp --------------------------------
(***************************************************************************)
(* The UDP clients and the UDP server over a network that loses, delays,   *)
(* reorders and duplicates datagrams.                                      *)
(***************************************************************************)
EXTENDS UdpServer, UdpClient

vars == <<peers, s2c, ran, state, outSeq, sessionId, attempt, issued, results, c2s>>

Init == ServerInit /\ ClientInit

\* What the program using the client does.
User(c) ==
  \/ Connect(c)
  \/ \E type \in RequestTypes, d \in Data : Request(c, type, [data |-> d])
  \/ Close(c)

ClientStep(c) ==
  \/ User(c)
  \/ Timeout(c)
  \/ \E d \in s2c[c] : AwaitReply(c, d.frames)

ServerStep(c) == \E f \in c2s[c] : OnDatagram(c, f)

Next ==
  \E c \in Client :
    \/ ClientStep(c) /\ UNCHANGED serverVars
    \/ ServerStep(c) /\ UNCHANGED clientVars

Spec == Init /\ [][Next]_vars

\* asyncio.wait_for: a timer that is running expires.  Nothing is assumed of the
\* network, the server or the application.
Timers == \A c \in Client : WF_vars(Timeout(c) /\ UNCHANGED serverVars)

FairSpec == Spec /\ Timers

(* A client that was closed, and a new one on the same address (an         *)
(* ephemeral port is used again) after every old datagram has died out.    *)
Reopen(c) ==
  /\ state[c] = "CLOSED"
  /\ state'     = [state EXCEPT ![c] = "NEW"]
  /\ outSeq'    = [outSeq EXCEPT ![c] = 0]
  /\ sessionId' = [sessionId EXCEPT ![c] = NoSession]
  /\ c2s'       = [c2s EXCEPT ![c] = {}]
  /\ s2c'       = [s2c EXCEPT ![c] = {}]
  /\ UNCHANGED <<attempt, issued, results, peers, ran>>

ReuseSpec == Init /\ [][Next \/ \E c \in Client : Reopen(c)]_vars

-----------------------------------------------------------------------------

(* Type invariant of the whole.                                            *)
TypeOK == ServerTypeOK /\ ClientTypeOK

(* A request() that returns hands its caller the answer of a run of this   *)
(* very request: never the late answer of an earlier request, never the    *)
(* answer of a request nobody ran (UdpClient._await_reply).                *)
AnswersOwnRequest ==
  \A c \in Client : \A k \in DOMAIN results[c] :
    results[c][k].code = "OK" =>
      \E i \in DOMAIN ran[c] :
        /\ ran[c][i] = Run(ran[c][i].session, issued[c][k])
        /\ results[c][k] = Returned(Answer(ran[c][i]))

(* Retransmitting is safe: however often a request is repeated, and however*)
(* late its copies arrive, its sender is never told that it is stale       *)
(* (UdpServer._on_datagram, DedupWindow).                                  *)
InFlightNeverStale ==
  \A c \in Client : \A k \in DOMAIN results[c] : results[c][k].code # "ERR_SEQ"

(* A session that is shaken hands in, of a client that never gave a request*)
(* up and has sent no more requests than the window holds, ends only by a  *)
(* BYE: no retransmission and no late copy tears it down.  (The first      *)
(* session: see SessionEndsByBye for what is not promised.)                *)
SessionSurvives ==
  [][\A c \in Client :
       /\ Len(issued[c]) <= DedupSize
       /\ \A k \in DOMAIN results[c] : results[c][k].code # "ERR_TIMEOUT"
       /\ peers[c].session.id = 0
       /\ peers[c].session.state = "READY"
       /\ peers'[c].session.id # 0
       => ran'[c][Len(ran'[c])].type = "BYE"]_vars

(* Resending cannot execute the request twice (udp.py, request()).         *)
DataRunsOnce ==
  \A c \in Client : \A i, j \in DOMAIN ran[c] :
    /\ ran[c][i].type = "DATA"
    /\ ran[c][i].seq = ran[c][j].seq
    => i = j

(* The session never sees a duplicate (ADR-0005), and a copy of a request  *)
(* does not tear the session down: a live session ends only because its    *)
(* client said BYE in it.                                                  *)
SessionEndsByBye ==
  [][\A c \in Client :
       /\ peers[c].session.state = "READY"
       /\ peers'[c].session.id # peers[c].session.id
       => ran'[c][Len(ran'[c])].type = "BYE"]_vars

(* Every request() ends, with an answer or with an error.                  *)
RequestResolves == \A c \in Client : InFlight(c) ~> ~InFlight(c)

(* The reliable layer implements the promise of Rpc.                       *)
Abs == INSTANCE Rpc WITH
  Requests   <- [seq : 0..(MaxRequests - 1), type : RequestTypes \cup {"HELLO"},
                 payload : [data : Data] \cup [client_id : Client]],
  SessionIds <- 0..(MaxSessions - 1),
  Failures   <- ErrorCode

ImplementsRpc == Abs!Spec
=============================================================================
