--------------------------------- MODULE Tcp --------------------------------
(***************************************************************************)
(* WirelineClient and WirelineServer over one TCP connection at a time.    *)
(***************************************************************************)
EXTENDS TcpClient

vars == <<session, task, ending, toServer, toClient, peerClosed, handled, sent,
          state, outSeq, lastPeerSeq, sessionId, op, got, skip,
          connections, issued, results>>

Init == NoConnection /\ ClientInit

\* What the program using the client does.
User ==
  \/ Connect
  \/ \E type \in RequestTypes, d \in Data : Request(type, [data |-> d])
  \/ SayBye
  \/ op = "idle" /\ CloseSocket

Next ==
  \/ User
  \/ ClientStep
  \/ ServerStep /\ UNCHANGED clientVars

Spec == Init /\ [][Next]_vars

\* Both event loops run, and timers that are running expire.
FairSpec ==
  /\ Spec
  /\ WF_vars(ClientStep)
  /\ WF_vars(ServerStep /\ UNCHANGED clientVars)

-----------------------------------------------------------------------------

(* Type invariant of the whole.                                            *)
TypeOK == ServerTypeOK /\ ClientTypeOK

AnswersOrRefuses(frame, request) == frame.type = "ERROR" \/ Answers(frame, request)

(* request() returns the answer to the frame it sent                       *)
(* (WirelineClient.request; test_data_is_echoed).                          *)
AnswersOwnRequest ==
  \A k \in DOMAIN results :
    results[k].code = "OK" => AnswersOrRefuses(results[k].frame, issued[k])

TimedOutBefore(k) == \E j \in 1..(k - 1) : results[j].code = "TIMEOUT"

(* request() returns the answer to the frame it sent as long as no earlier *)
(* request of the connection timed out; the stream position is lost only by*)
(* a timeout.                                                              *)
AnswersUnlessTimedOut ==
  \A k \in DOMAIN results : ~TimedOutBefore(k) =>
    /\ results[k].code = "OK" => AnswersOrRefuses(results[k].frame, issued[k])
    /\ results[k].code # "ERR_MAGIC"

(* The client never takes a frame of the server for a replay: each peer    *)
(* numbers its own frames from 0, strictly increasing, per connection.     *)
NoFalseReplay == \A k \in DOMAIN results : results[k].code # "ERR_SEQ"

(* The server runs what the client sent, in that order, without gap or     *)
(* repetition, and a BYE that runs finds everything before it done: close()*)
(* may lose the tail of what was sent, never something in between.         *)
RunsInOrder ==
  /\ Len(handled) <= Len(issued)
  /\ \A i \in DOMAIN handled : handled[i] = issued[i]

\* Both wait in drain() for the other to read.
MutualWait ==
  /\ op \in {"sending", "leaving"} /\ ~CanDrain(toServer)
  /\ task = "draining" /\ ~CanDrain(toClient)

(* Client and server wait for each other only if the client left answers   *)
(* unread, by a timeout: one request at a time cannot fill both directions.*)
MutualWaitOnlyAfterTimeout ==
  MutualWait => \E k \in DOMAIN results : results[k].code = "TIMEOUT"

(* request() and close() end, unless both sides wait for each other: neither*)
(* drain() has a timeout.                                                  *)
CallsEnd == op # "idle" ~> (op = "idle" \/ MutualWait)
=============================================================================
