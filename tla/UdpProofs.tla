------------------------------ MODULE UdpProofs -----------------------------
(***************************************************************************)
(* What the client and the server guarantee together over any network:     *)
(* theorems of Udp, for every number of clients, retries and requests and  *)
(* every window size.                                                      *)
(***************************************************************************)
EXTENDS Udp, UdpServerProofs

-----------------------------------------------------------------------------
(* The inductive invariant.  AnswersOwnRequest needs that what ran, and    *)
(* what is on its way, was issued, and that numbers name requests.         *)
(* InFlightNeverStale needs that no session has accepted a number past the *)
(* request in flight, and that this number, if accepted, is in the window. *)

Requests == [seq : 0..MaxSeq, type : MsgType, payload : Payload]
Outcomes == [code : {"OK"}, type : MsgType, payload : Payload] \cup [code : ErrorCode]

Numbering ==
  \A c \in Client :
    /\ Len(issued[c]) <= MaxRequests
    /\ Len(issued[c]) < MaxRequests => outSeq[c] = Len(issued[c])
    /\ \A k \in DOMAIN issued[c] : issued[c][k].seq = k - 1

OneAtATime ==
  \A c \in Client :
    /\ Len(issued[c]) \in {Len(results[c]), Len(results[c]) + 1}
    /\ state[c] = "NEW" => ~InFlight(c)

SentWasIssued ==
  \A c \in Client : \A f \in c2s[c] : \E k \in DOMAIN issued[c] :
    f.seq = issued[c][k].seq /\ f.type = issued[c][k].type /\ f.payload = issued[c][k].payload

RunsWereIssued ==
  \A c \in Client : \A i \in DOMAIN ran[c] : \E k \in DOMAIN issued[c] :
    ran[c][i] = Run(ran[c][i].session, issued[c][k])

PeerNotAhead == \A c \in Client : peers[c].session.lastPeerSeq < Len(issued[c])

\* No refusal of the latest request says that it is stale.
RefusalsKnown ==
  \A c \in Client : \A d \in s2c[c] :
    /\ d.frames # << >>
    /\ \A n \in 0..MaxSeq : Acknowledges(d, n) /\ LastFrame(d).type = "ERROR" =>
         \E code \in ErrorCode : /\ LastFrame(d).payload = [code |-> code]
                                 /\ code = "ERR_SEQ" => n + 1 < Len(issued[c])

UdpInv ==
  /\ ServerInv
  /\ ClientTypeOK
  /\ Numbering
  /\ OneAtATime
  /\ SentWasIssued
  /\ RunsWereIssued
  /\ PeerNotAhead
  /\ RefusalsKnown
  /\ AnswersOwnRequest
  /\ InFlightNeverStale

LEMMA UdpInitInv == Init => UdpInv
<1>. SUFFICES ASSUME Init
              PROVE  UdpInv
  OBVIOUS
<1>1. ServerInv
  BY ServerInitInv DEF Init
<1>2. \A c \in Client : /\ state[c] = "NEW" /\ outSeq[c] = 0 /\ issued[c] = << >>
                        /\ results[c] = << >> /\ c2s[c] = {}
                        /\ ran[c] = << >> /\ s2c[c] = {}
                        /\ peers[c].session.lastPeerSeq = -1
  BY DEF Init, ClientInit, ServerInit, NewPeer, NewSession
<1>3. ClientTypeOK
  BY MaxSeqAssumption, UdpClientAssumption DEF Init, ClientInit, ClientTypeOK, NoSession
<1>4. Numbering /\ OneAtATime /\ PeerNotAhead
  BY <1>2, UdpClientAssumption DEF Numbering, OneAtATime, InFlight, PeerNotAhead
<1>5. SentWasIssued /\ RunsWereIssued /\ RefusalsKnown
  BY <1>2 DEF SentWasIssued, RunsWereIssued, RefusalsKnown
<1>6. AnswersOwnRequest /\ InFlightNeverStale
  BY <1>2 DEF AnswersOwnRequest, InFlightNeverStale
<1>. QED
  BY <1>1, <1>3, <1>4, <1>5, <1>6 DEF UdpInv

-----------------------------------------------------------------------------
(* Steps of the server.                                                    *)

LEMMA ServerHandleStep ==
  ASSUME UdpInv, NEW c \in Client, NEW f \in c2s[c], Handle(c, f), UNCHANGED clientVars
  PROVE  UdpInv'
<1>. DEFINE s == peers[c].session
            r == Answering(s, f)
            d == [session |-> s.id, frames |-> r.frames]
            run == Run(s.id, f)
<1>1. /\ ServerInv /\ ServerTypeOK /\ PeersLive
      /\ f \in Frames
  BY DEF UdpInv, ServerInv, ClientTypeOK
<1>2. ServerInv'
  BY <1>1, OnDatagramInv DEF OnDatagram
<1>3. /\ state' = state /\ outSeq' = outSeq /\ sessionId' = sessionId /\ attempt' = attempt
      /\ issued' = issued /\ results' = results /\ c2s' = c2s
  BY DEF clientVars
<1>4. /\ ClientTypeOK' /\ Numbering' /\ OneAtATime' /\ SentWasIssued' /\ InFlightNeverStale'
  BY <1>3 DEF UdpInv, ClientTypeOK, Numbering, OneAtATime, InFlight, SentWasIssued,
     InFlightNeverStale
<1>5. s \in Sessions /\ Live(s) /\ r \in Reactions /\ ~Cached(peers[c].window, f.seq)
  BY <1>1, HandleFacts
<1>6. ~r.close => r.session.lastPeerSeq = f.seq
  BY <1>1, <1>5, AnsweringFacts
<1>7. r.frames # << >> /\ r.frames[1].type = "ACK" => AnswersOrRefuses(r.frames, s, f)
  BY <1>1, <1>5, AnsweringFrames
<1>8. /\ r.close  => peers'[c] = NewPeer(s.id + 1)
      /\ ~r.close => peers'[c].session = r.session
      /\ s2c'[c] = IF r.frames = << >> THEN s2c[c] ELSE s2c[c] \cup {d}
      /\ ran'[c] = IF Accepted(r) THEN Append(ran[c], run) ELSE ran[c]
      /\ \A o \in Client \ {c} : /\ peers'[o] = peers[o]
                                 /\ s2c'[o] = s2c[o]
                                 /\ ran'[o] = ran[o]
  BY <1>1, HandleEffect
<1>9. NewPeer(s.id + 1).session.lastPeerSeq = -1
  BY DEF NewPeer, NewSession
<1>10. ran[c] \in Seq(Runs)
  BY <1>1 DEF ServerTypeOK, Runs
<1>11. d.frames = r.frames
  OBVIOUS
<1>12. s.lastPeerSeq # -1 => Cached(peers[c].window, s.lastPeerSeq)
  BY <1>1 DEF ServerInv, LatestCached
<1>13. PICK k \in DOMAIN issued[c] :
         f.seq = issued[c][k].seq /\ f.type = issued[c][k].type /\ f.payload = issued[c][k].payload
  BY DEF UdpInv, SentWasIssued
<1>14. run = Run(run.session, issued[c][k])
  BY <1>13 DEF Run
<1>15. issued[c] \in Seq(Requests)
  BY DEF UdpInv, ClientTypeOK, Requests
<1>16. f.seq = k - 1 /\ k \in 1..Len(issued[c]) /\ Len(issued[c]) \in Nat
  BY <1>13, <1>15 DEF UdpInv, Numbering
<1>. HIDE DEF s, r, d, run
<1>17. /\ \A i \in DOMAIN ran'[c] : \/ i \in DOMAIN ran[c] /\ ran'[c][i] = ran[c][i]
                                    \/ ran'[c][i] = run
       /\ \A i \in DOMAIN ran[c] : i \in DOMAIN ran'[c] /\ ran'[c][i] = ran[c][i]
  BY <1>8, <1>10, AppendFacts
<1>20. RunsWereIssued'
  <2>1. ASSUME NEW i \in DOMAIN ran'[c]
        PROVE  \E j \in DOMAIN issued[c] : ran'[c][i] = Run(ran'[c][i].session, issued[c][j])
    BY <1>13, <1>14, <1>17 DEF UdpInv, RunsWereIssued
  <2>2. ASSUME NEW o \in Client \ {c}, NEW i \in DOMAIN ran'[o]
        PROVE  \E j \in DOMAIN issued[o] : ran'[o][i] = Run(ran'[o][i].session, issued[o][j])
    BY <1>8 DEF UdpInv, RunsWereIssued
  <2>. QED
    BY <2>1, <2>2, <1>3 DEF RunsWereIssued
<1>21. PeerNotAhead'
  <2>1. peers'[c].session.lastPeerSeq < Len(issued[c])
    BY <1>6, <1>8, <1>9, <1>16
  <2>. QED
    BY <2>1, <1>3, <1>8 DEF UdpInv, PeerNotAhead
<1>22. RefusalsKnown'
  <2>1. ASSUME r.frames # << >>, NEW n \in 0..MaxSeq,
               Acknowledges(d, n), LastFrame(d).type = "ERROR"
        PROVE  \E code \in ErrorCode : /\ LastFrame(d).payload = [code |-> code]
                                       /\ code = "ERR_SEQ" => n + 1 < Len(issued[c])
    <3>1. /\ r.frames[1].type = "ACK" /\ r.frames[1].payload.ack_seq = n
          /\ LastFrame(d) = r.frames[Len(r.frames)]
      BY <2>1, <1>11 DEF Acknowledges, LastFrame
    <3>2. /\ n = f.seq
          /\ \E code \in ErrorCode : /\ LastFrame(d).payload = [code |-> code]
                                     /\ code = "ERR_SEQ" => f.seq <= s.lastPeerSeq
      BY <2>1, <3>1, <1>7 DEF AnswersOrRefuses
    <3>3. f.seq <= s.lastPeerSeq => n + 1 < Len(issued[c])
      <4>1. SUFFICES ASSUME f.seq <= s.lastPeerSeq
                     PROVE  n + 1 < Len(issued[c])
        OBVIOUS
      <4>2. s.lastPeerSeq < Len(issued[c]) /\ s.lastPeerSeq \in Int
        BY <1>5, MaxSeqAssumption DEF UdpInv, PeerNotAhead, Sessions, s
      <4>3. s.lastPeerSeq # f.seq
        BY <4>1, <1>5, <1>12, <1>16
      <4>. QED
        BY <4>1, <4>2, <4>3, <3>2, <1>16
    <3>. QED
      BY <3>2, <3>3
  <2>2. ASSUME NEW o \in Client, NEW x \in s2c'[o]
        PROVE  /\ x.frames # << >>
               /\ \A n \in 0..MaxSeq : Acknowledges(x, n) /\ LastFrame(x).type = "ERROR" =>
                    \E code \in ErrorCode : /\ LastFrame(x).payload = [code |-> code]
                                            /\ code = "ERR_SEQ" => n + 1 < Len(issued[o])
    <3>1. CASE x \in s2c[o]
      BY <3>1 DEF UdpInv, RefusalsKnown
    <3>2. CASE o = c /\ r.frames # << >> /\ x = d
      BY <2>1, <3>2, <1>11
    <3>. QED
      BY <2>2, <3>1, <3>2, <1>8
  <2>. QED
    BY <2>2, <1>3 DEF RefusalsKnown, Acknowledges, LastFrame
<1>23. AnswersOwnRequest'
  <2>1. ASSUME NEW o \in Client, NEW j \in DOMAIN results[o], results[o][j].code = "OK"
        PROVE  \E i \in DOMAIN ran'[o] :
                 /\ ran'[o][i] = Run(ran'[o][i].session, issued[o][j])
                 /\ results[o][j] = Returned(Answer(ran'[o][i]))
    <3>1. PICK i \in DOMAIN ran[o] : /\ ran[o][i] = Run(ran[o][i].session, issued[o][j])
                                     /\ results[o][j] = Returned(Answer(ran[o][i]))
      BY <2>1 DEF UdpInv, AnswersOwnRequest
    <3>2. i \in DOMAIN ran'[o] /\ ran'[o][i] = ran[o][i]
      BY <3>1, <1>8, <1>17
    <3>. QED
      BY <3>1, <3>2
  <2>. QED
    BY <2>1, <1>3 DEF AnswersOwnRequest
<1>. QED
  BY <1>2, <1>4, <1>20, <1>21, <1>22, <1>23 DEF UdpInv

LEMMA UdpStutterStep ==
  ASSUME UdpInv, UNCHANGED vars
  PROVE  UdpInv'
<1>1. UNCHANGED serverVars
  BY DEF vars, serverVars
<1>2. ServerInv'
  BY <1>1, StutterStep DEF UdpInv
<1>3. /\ peers' = peers /\ s2c' = s2c /\ ran' = ran
      /\ state' = state /\ outSeq' = outSeq /\ sessionId' = sessionId /\ attempt' = attempt
      /\ issued' = issued /\ results' = results /\ c2s' = c2s
  BY DEF vars
<1>4. ClientTypeOK' /\ Numbering' /\ OneAtATime' /\ SentWasIssued'
  BY <1>3 DEF UdpInv, ClientTypeOK, Numbering, OneAtATime, InFlight, SentWasIssued
<1>5. RunsWereIssued' /\ PeerNotAhead' /\ AnswersOwnRequest' /\ InFlightNeverStale'
  BY <1>3 DEF UdpInv, RunsWereIssued, PeerNotAhead, AnswersOwnRequest, InFlightNeverStale
<1>6. RefusalsKnown'
  BY <1>3 DEF UdpInv, RefusalsKnown, Acknowledges, LastFrame
<1>. QED
  BY <1>2, <1>4, <1>5, <1>6 DEF UdpInv

LEMMA ServerStepInv ==
  ASSUME UdpInv, NEW c \in Client, ServerStep(c), UNCHANGED clientVars
  PROVE  UdpInv'
<1>1. PICK f \in c2s[c] : OnDatagram(c, f)
  BY DEF ServerStep
<1>2. ServerInv /\ f \in Frames
  BY DEF UdpInv, ClientTypeOK
<1>3. CASE Replay(c, f)
  <2>1. UNCHANGED serverVars
    BY <1>2, <1>3, ReplayStep
  <2>. QED
    BY <2>1, UdpStutterStep DEF serverVars, clientVars, vars
<1>4. CASE Handle(c, f)
  BY <1>4, ServerHandleStep
<1>. QED
  BY <1>1, <1>3, <1>4 DEF OnDatagram

-----------------------------------------------------------------------------
(* Steps of the clients.                                                   *)

\* What the steps of the clients leave as it is.
LEMMA ClientStepServer ==
  ASSUME UdpInv, UNCHANGED serverVars
  PROVE  ServerInv' /\ peers' = peers /\ s2c' = s2c /\ ran' = ran
BY StutterStep DEF UdpInv, serverVars

LEMMA NextSeqBelow ==
  ASSUME NEW n \in Nat, n + 1 < MaxRequests
  PROVE  NextSeq(n) = n + 1
<1>1. n + 1 < MaxSeq + 1 /\ MaxSeq \in Nat
  BY UdpClientAssumption, MaxSeqAssumption
<1>. QED
  BY <1>1 DEF NextSeq

\* A log of each client, and one more entry in the log of c.
LEMMA LogFacts ==
  ASSUME NEW T, NEW g \in [Client -> Seq(T)], NEW c \in Client, NEW x \in T
  PROVE  LET h == [g EXCEPT ![c] = Append(@, x)]
         IN  /\ h \in [Client -> Seq(T)]
             /\ \A o \in Client \ {c} : h[o] = g[o]
             /\ Len(h[c]) = Len(g[c]) + 1
             /\ Len(g[c]) + 1 \in DOMAIN h[c]
             /\ h[c][Len(g[c]) + 1] = x
             /\ \A k \in DOMAIN g[c] : k \in DOMAIN h[c] /\ h[c][k] = g[c][k]
             /\ \A k \in DOMAIN h[c] : k \in DOMAIN g[c] \/ k = Len(g[c]) + 1
<1>. DEFINE more == Append(g[c], x)
            h == [g EXCEPT ![c] = more]
<1>1. /\ more \in Seq(T)
      /\ Len(more) = Len(g[c]) + 1
      /\ Len(g[c]) + 1 \in DOMAIN more
      /\ more[Len(g[c]) + 1] = x
      /\ \A k \in DOMAIN g[c] : k \in DOMAIN more /\ more[k] = g[c][k]
      /\ \A k \in DOMAIN more : k \in DOMAIN g[c] \/ k = Len(g[c]) + 1
  <2>1. g[c] \in Seq(T)
    OBVIOUS
  <2>. QED
    BY <2>1, AppendFacts
<1>. HIDE DEF more
<1>2. h \in [Client -> Seq(T)] /\ h[c] = more /\ \A o \in Client \ {c} : h[o] = g[o]
  BY <1>1, UpdateFacts
<1>. QED
  BY <1>1, <1>2 DEF more

LEMMA IssueStep ==
  ASSUME UdpInv, NEW c \in Client, NEW type \in MsgType, NEW payload \in Payload,
         ~InFlight(c), Issue(c, type, payload), UNCHANGED serverVars,
         state' \in [Client -> {"NEW", "HANDSHAKE", "READY", "CLOSED"}],
         state'[c] # "NEW", \A o \in Client \ {c} : state'[o] = state[o]
  PROVE  UdpInv'
<1>. DEFINE q == [seq |-> outSeq[c], type |-> type, payload |-> payload]
            x == Frame(type, outSeq[c], payload, {"REQUIRE_ACK"})
            n == Len(issued[c])
<1>1. ServerInv' /\ peers' = peers /\ s2c' = s2c /\ ran' = ran
  BY ClientStepServer
<1>2. /\ issued \in [Client -> Seq(Requests)]
      /\ results \in [Client -> Seq(Outcomes)]
      /\ outSeq \in [Client -> 0..MaxSeq]
      /\ attempt \in [Client -> 0..MaxRetries]
      /\ c2s \in [Client -> SUBSET Frames]
      /\ sessionId \in [Client -> Nat \cup {NoSession}]
  BY DEF UdpInv, ClientTypeOK, Requests, Outcomes
<1>3. /\ n < MaxRequests
      /\ c2s' = [c2s EXCEPT ![c] = @ \cup {x}]
      /\ issued' = [issued EXCEPT ![c] = Append(@, q)]
      /\ outSeq' = [outSeq EXCEPT ![c] = NextSeq(outSeq[c])]
      /\ attempt' = [attempt EXCEPT ![c] = 0]
      /\ sessionId' = sessionId /\ results' = results
  BY DEF Issue, Send
<1>4. /\ outSeq[c] = n
      /\ n \in Nat
      /\ n = Len(results[c])
      /\ MaxRequests \in 1..(MaxSeq + 1)
  BY <1>2, <1>3, UdpClientAssumption DEF UdpInv, Numbering, OneAtATime, InFlight
<1>5. q \in Requests /\ x \in Frames
  BY <1>2 DEF Requests, Frames, Frame, Flag
<1>. HIDE DEF q, x
<1>6. /\ issued' \in [Client -> Seq(Requests)]
      /\ \A o \in Client \ {c} : issued'[o] = issued[o]
      /\ Len(issued'[c]) = n + 1
      /\ n + 1 \in DOMAIN issued'[c]
      /\ issued'[c][n + 1] = q
      /\ \A k \in DOMAIN issued[c] : k \in DOMAIN issued'[c] /\ issued'[c][k] = issued[c][k]
      /\ \A k \in DOMAIN issued'[c] : k \in DOMAIN issued[c] \/ k = n + 1
  BY <1>2, <1>3, <1>5, LogFacts
<1>7. \A o \in Client : \A k \in DOMAIN issued[o] :
        k \in DOMAIN issued'[o] /\ issued'[o][k] = issued[o][k]
  BY <1>6
<1>8. q.seq = n /\ q.type = type /\ q.payload = payload
      /\ x.seq = n /\ x.type = type /\ x.payload = payload
  BY <1>4 DEF Frame, q, x
<1>9. /\ c2s' \in [Client -> SUBSET Frames]
      /\ c2s'[c] = c2s[c] \cup {x}
      /\ \A o \in Client \ {c} : c2s'[o] = c2s[o]
  <2>. DEFINE sent == c2s[c] \cup {x}
  <2>1. sent \in SUBSET Frames
    BY <1>2, <1>5
  <2>2. c2s' = [c2s EXCEPT ![c] = sent]
    BY <1>3
  <2>3. sent = c2s[c] \cup {x}
    OBVIOUS
  <2>. HIDE DEF sent
  <2>. QED
    BY <1>2, <2>1, <2>2, <2>3, UpdateFacts
<1>10. /\ outSeq' \in [Client -> 0..MaxSeq]
       /\ outSeq'[c] = NextSeq(n)
       /\ \A o \in Client \ {c} : outSeq'[o] = outSeq[o]
       /\ attempt' \in [Client -> 0..MaxRetries]
  <2>1. NextSeq(outSeq[c]) \in 0..MaxSeq /\ 0 \in 0..MaxRetries
    BY <1>2, NextSeqType, UdpClientAssumption
  <2>. QED
    BY <1>2, <1>3, <1>4, <2>1, UpdateFacts
<1>20. ClientTypeOK'
  BY <1>2, <1>3, <1>6, <1>9, <1>10 DEF ClientTypeOK, Requests, Outcomes
<1>21. Numbering'
  <2>1. n + 1 < MaxRequests => outSeq'[c] = n + 1
    BY <1>4, <1>10, NextSeqBelow
  <2>2. \A k \in DOMAIN issued'[c] : issued'[c][k].seq = k - 1
    <3>1. \A k \in DOMAIN issued[c] : issued'[c][k].seq = k - 1
      BY <1>6 DEF UdpInv, Numbering
    <3>2. issued'[c][n + 1].seq = (n + 1) - 1
      BY <1>4, <1>6, <1>8
    <3>. QED
      BY <3>1, <3>2, <1>6
  <2>3. n + 1 <= MaxRequests
    BY <1>3, <1>4
  <2>4. ASSUME NEW o \in Client
        PROVE  /\ Len(issued'[o]) <= MaxRequests
               /\ Len(issued'[o]) < MaxRequests => outSeq'[o] = Len(issued'[o])
               /\ \A k \in DOMAIN issued'[o] : issued'[o][k].seq = k - 1
    <3>1. CASE o = c
      BY <3>1, <2>1, <2>2, <2>3, <1>6
    <3>2. CASE o \in Client \ {c}
      <4>1. issued'[o] = issued[o] /\ outSeq'[o] = outSeq[o]
        BY <3>2, <1>6, <1>10
      <4>2. /\ Len(issued[o]) <= MaxRequests
            /\ Len(issued[o]) < MaxRequests => outSeq[o] = Len(issued[o])
            /\ \A k \in DOMAIN issued[o] : issued[o][k].seq = k - 1
        BY DEF UdpInv, Numbering
      <4>. QED
        BY <4>1, <4>2
    <3>. QED
      BY <3>1, <3>2
  <2>. QED
    BY <2>4 DEF Numbering
<1>22. OneAtATime'
  <2>1. ASSUME NEW o \in Client
        PROVE  /\ Len(issued'[o]) \in {Len(results'[o]), Len(results'[o]) + 1}
               /\ state'[o] = "NEW" => ~(Len(issued'[o]) > Len(results'[o]))
    BY <1>3, <1>4, <1>6, <1>7 DEF UdpInv, OneAtATime, InFlight
  <2>. QED
    BY <2>1 DEF OneAtATime, InFlight
<1>23. SentWasIssued'
  <2>1. ASSUME NEW o \in Client, NEW f \in c2s'[o]
        PROVE  \E k \in DOMAIN issued'[o] :
                 f.seq = issued'[o][k].seq /\ f.type = issued'[o][k].type
                 /\ f.payload = issued'[o][k].payload
    <3>1. CASE f \in c2s[o]
      <4>1. PICK k \in DOMAIN issued[o] :
              f.seq = issued[o][k].seq /\ f.type = issued[o][k].type
              /\ f.payload = issued[o][k].payload
        BY <3>1 DEF UdpInv, SentWasIssued
      <4>. QED
        BY <4>1, <1>7
    <3>2. CASE o = c /\ f = x
      BY <3>2, <1>6, <1>8
    <3>. QED
      BY <2>1, <3>1, <3>2, <1>9
  <2>. QED
    BY <2>1 DEF SentWasIssued
<1>24. RunsWereIssued'
  <2>1. ASSUME NEW o \in Client, NEW i \in DOMAIN ran[o]
        PROVE  \E k \in DOMAIN issued'[o] : ran[o][i] = Run(ran[o][i].session, issued'[o][k])
    <3>1. PICK k \in DOMAIN issued[o] : ran[o][i] = Run(ran[o][i].session, issued[o][k])
      BY DEF UdpInv, RunsWereIssued
    <3>. QED
      BY <3>1, <1>7
  <2>. QED
    BY <2>1, <1>1 DEF RunsWereIssued
<1>25. PeerNotAhead'
  <2>1. ASSUME NEW o \in Client
        PROVE  peers[o].session.lastPeerSeq < Len(issued'[o])
    <3>1. peers[o].session.lastPeerSeq < Len(issued[o]) /\ peers[o].session \in Sessions
      BY DEF UdpInv, PeerNotAhead, ServerInv, ServerTypeOK
    <3>2. peers[o].session.lastPeerSeq \in Int
      BY <3>1, MaxSeqAssumption DEF Sessions
    <3>. QED
      BY <3>1, <3>2, <1>4, <1>6, <1>7
  <2>. QED
    BY <2>1, <1>1 DEF PeerNotAhead
<1>26. RefusalsKnown'
  <2>1. \A o \in Client : \A m \in 0..MaxSeq :
          m + 1 < Len(issued[o]) => m + 1 < Len(issued'[o])
    <3>1. \A o \in Client \ {c} : Len(issued'[o]) = Len(issued[o])
      BY <1>6
    <3>2. \A m \in 0..MaxSeq : m + 1 < n => m + 1 < Len(issued'[c])
      BY <1>4, <1>6
    <3>. QED
      BY <3>1, <3>2
  <2>2. ASSUME NEW o \in Client, NEW d \in s2c[o]
        PROVE  /\ d.frames # << >>
               /\ \A m \in 0..MaxSeq : Acknowledges(d, m) /\ LastFrame(d).type = "ERROR" =>
                    \E code \in ErrorCode : /\ LastFrame(d).payload = [code |-> code]
                                            /\ code = "ERR_SEQ" => m + 1 < Len(issued'[o])
    <3>1. /\ d.frames # << >>
          /\ \A m \in 0..MaxSeq : Acknowledges(d, m) /\ LastFrame(d).type = "ERROR" =>
               \E code \in ErrorCode : /\ LastFrame(d).payload = [code |-> code]
                                       /\ code = "ERR_SEQ" => m + 1 < Len(issued[o])
      BY DEF UdpInv, RefusalsKnown
    <3>. QED
      BY <2>1, <3>1
  <2>. QED
    BY <2>2, <1>1 DEF RefusalsKnown, Acknowledges, LastFrame
<1>27. AnswersOwnRequest'
  <2>1. ASSUME NEW o \in Client, NEW k \in DOMAIN results[o]
        PROVE  issued'[o][k] = issued[o][k]
    <3>1. /\ results[o] \in Seq(Outcomes) /\ issued[o] \in Seq(Requests)
          /\ Len(issued[o]) \in {Len(results[o]), Len(results[o]) + 1}
      BY <1>2 DEF UdpInv, OneAtATime
    <3>2. k \in DOMAIN issued[o]
      BY <3>1
    <3>. QED
      BY <3>2, <1>6, <1>7
  <2>2. ASSUME NEW o \in Client, NEW k \in DOMAIN results[o], results[o][k].code = "OK"
        PROVE  \E i \in DOMAIN ran[o] :
                 /\ ran[o][i] = Run(ran[o][i].session, issued'[o][k])
                 /\ results[o][k] = Returned(Answer(ran[o][i]))
    BY <2>1, <2>2 DEF UdpInv, AnswersOwnRequest
  <2>. QED
    BY <2>2, <1>1, <1>3 DEF AnswersOwnRequest
<1>28. InFlightNeverStale'
  BY <1>3 DEF UdpInv, InFlightNeverStale
<1>. QED
  BY <1>1, <1>20, <1>21, <1>22, <1>23, <1>24, <1>25, <1>26, <1>27, <1>28 DEF UdpInv

\* The request in flight ends with the outcome out.
LEMMA ResultStep ==
  ASSUME UdpInv, NEW c \in Client, InFlight(c), NEW out \in Outcomes,
         results' = [results EXCEPT ![c] = Append(@, out)],
         UNCHANGED <<outSeq, attempt, issued, c2s>>, UNCHANGED serverVars,
         state' \in [Client -> {"NEW", "HANDSHAKE", "READY", "CLOSED"}],
         sessionId' \in [Client -> Nat \cup {NoSession}],
         \A o \in Client : state'[o] = "NEW" => state[o] = "NEW",
         out.code # "ERR_SEQ",
         out.code = "OK" => \E i \in DOMAIN ran[c] :
                              /\ ran[c][i] = Run(ran[c][i].session, Current(c))
                              /\ out = Returned(Answer(ran[c][i]))
  PROVE  UdpInv'
<1>. DEFINE n == Len(results[c])
<1>1. ServerInv' /\ peers' = peers /\ s2c' = s2c /\ ran' = ran
  BY ClientStepServer
<1>2. outSeq' = outSeq /\ attempt' = attempt /\ issued' = issued /\ c2s' = c2s
  OBVIOUS
<1>3. results \in [Client -> Seq(Outcomes)] /\ issued \in [Client -> Seq(Requests)]
  BY DEF UdpInv, ClientTypeOK, Outcomes, Requests
<1>4. Len(issued[c]) = n + 1 /\ n \in Nat
  BY <1>3 DEF UdpInv, OneAtATime, InFlight
<1>5. /\ results' \in [Client -> Seq(Outcomes)]
      /\ \A o \in Client \ {c} : results'[o] = results[o]
      /\ Len(results'[c]) = n + 1
      /\ results'[c][n + 1] = out
      /\ \A k \in DOMAIN results[c] : k \in DOMAIN results'[c] /\ results'[c][k] = results[c][k]
      /\ \A k \in DOMAIN results'[c] : k \in DOMAIN results[c] \/ k = n + 1
  BY <1>3, LogFacts
<1>6. ClientTypeOK'
  BY <1>2, <1>5 DEF UdpInv, ClientTypeOK, Outcomes
<1>7. Numbering' /\ SentWasIssued' /\ RunsWereIssued' /\ PeerNotAhead'
  BY <1>1, <1>2 DEF UdpInv, Numbering, SentWasIssued, RunsWereIssued, PeerNotAhead
<1>8. RefusalsKnown'
  BY <1>1, <1>2 DEF UdpInv, RefusalsKnown, Acknowledges, LastFrame
<1>9. OneAtATime'
  <2>1. ASSUME NEW o \in Client
        PROVE  /\ Len(issued[o]) \in {Len(results'[o]), Len(results'[o]) + 1}
               /\ state'[o] = "NEW" => ~(Len(issued[o]) > Len(results'[o]))
    <3>1. CASE o = c
      BY <3>1, <1>4, <1>5
    <3>2. CASE o \in Client \ {c}
      BY <3>2, <1>5 DEF UdpInv, OneAtATime, InFlight
    <3>. QED
      BY <3>1, <3>2
  <2>. QED
    BY <2>1, <1>2 DEF OneAtATime, InFlight
<1>10. AnswersOwnRequest'
  <2>1. ASSUME NEW o \in Client, NEW k \in DOMAIN results'[o], results'[o][k].code = "OK"
        PROVE  \E i \in DOMAIN ran[o] :
                 /\ ran[o][i] = Run(ran[o][i].session, issued[o][k])
                 /\ results'[o][k] = Returned(Answer(ran[o][i]))
    <3>1. CASE k \in DOMAIN results[o] /\ results'[o][k] = results[o][k]
      BY <2>1, <3>1 DEF UdpInv, AnswersOwnRequest
    <3>2. CASE o = c /\ k = n + 1
      <4>1. issued[c][k] = Current(c) /\ results'[c][k] = out
        BY <3>2, <1>4, <1>5 DEF Current
      <4>. QED
        BY <2>1, <3>2, <4>1
    <3>. QED
      BY <3>1, <3>2, <1>5
  <2>. QED
    BY <2>1, <1>1, <1>2 DEF AnswersOwnRequest
<1>11. InFlightNeverStale'
  BY <1>5 DEF UdpInv, InFlightNeverStale
<1>. QED
  BY <1>1, <1>6, <1>7, <1>8, <1>9, <1>10, <1>11 DEF UdpInv

LEMMA GiveUpStep ==
  ASSUME UdpInv, NEW c \in Client, GiveUp(c), UNCHANGED serverVars
  PROVE  UdpInv'
<1>1. Raised("ERR_TIMEOUT") \in Outcomes /\ Raised("ERR_TIMEOUT").code = "ERR_TIMEOUT"
  BY DEF Raised, Outcomes, ErrorCode
<1>2. /\ state' = state /\ sessionId' = sessionId
      /\ outSeq' = outSeq /\ attempt' = attempt /\ issued' = issued /\ c2s' = c2s
      /\ results' = [results EXCEPT ![c] = Append(@, Raised("ERR_TIMEOUT"))]
      /\ InFlight(c)
  BY DEF GiveUp
<1>3. /\ state' \in [Client -> {"NEW", "HANDSHAKE", "READY", "CLOSED"}]
      /\ sessionId' \in [Client -> Nat \cup {NoSession}]
  BY <1>2 DEF UdpInv, ClientTypeOK
<1>. QED
  BY <1>1, <1>2, <1>3, ResultStep

LEMMA RetryStep ==
  ASSUME UdpInv, NEW c \in Client, Retry(c), UNCHANGED serverVars
  PROVE  UdpInv'
<1>. DEFINE q == Current(c)
            x == Frame(q.type, q.seq, q.payload, {"REQUIRE_ACK", "RETRANSMIT"})
            n == Len(issued[c])
<1>1. ServerInv' /\ peers' = peers /\ s2c' = s2c /\ ran' = ran
  BY ClientStepServer
<1>2. /\ state' = state /\ outSeq' = outSeq /\ sessionId' = sessionId
      /\ issued' = issued /\ results' = results
      /\ attempt[c] < MaxRetries
      /\ attempt' = [attempt EXCEPT ![c] = @ + 1]
      /\ c2s' = [c2s EXCEPT ![c] = @ \cup {x}]
      /\ InFlight(c)
  BY DEF Retry, Send
<1>3. /\ issued \in [Client -> Seq(Requests)] /\ results \in [Client -> Seq(Outcomes)]
      /\ attempt \in [Client -> 0..MaxRetries] /\ MaxRetries \in Nat
      /\ c2s \in [Client -> SUBSET Frames]
  BY UdpClientAssumption DEF UdpInv, ClientTypeOK, Requests, Outcomes
<1>4. n \in DOMAIN issued[c] /\ q = issued[c][n]
  BY <1>2, <1>3 DEF InFlight, Current
<1>5. q \in Requests
  BY <1>3, <1>4
<1>. HIDE DEF q
<1>6. /\ x \in Frames
      /\ x.seq = q.seq /\ x.type = q.type /\ x.payload = q.payload
  BY <1>5 DEF Requests, Frames, Frame, Flag
<1>. DEFINE sent == c2s[c] \cup {x}
            again == attempt[c] + 1
<1>7. sent \in SUBSET Frames /\ again \in 0..MaxRetries
  BY <1>2, <1>3, <1>6
<1>8. c2s' = [c2s EXCEPT ![c] = sent] /\ attempt' = [attempt EXCEPT ![c] = again]
  BY <1>2
<1>9. sent = c2s[c] \cup {x}
  OBVIOUS
<1>. HIDE DEF x, sent, again
<1>10. /\ c2s' \in [Client -> SUBSET Frames]
       /\ attempt' \in [Client -> 0..MaxRetries]
       /\ c2s'[c] = c2s[c] \cup {x}
       /\ \A o \in Client \ {c} : c2s'[o] = c2s[o]
  BY <1>3, <1>7, <1>8, <1>9, UpdateFacts
<1>11. ClientTypeOK'
  BY <1>2, <1>10 DEF UdpInv, ClientTypeOK
<1>12. SentWasIssued'
  <2>1. ASSUME NEW o \in Client, NEW f \in c2s'[o]
        PROVE  \E k \in DOMAIN issued[o] :
                 f.seq = issued[o][k].seq /\ f.type = issued[o][k].type
                 /\ f.payload = issued[o][k].payload
    <3>1. CASE f \in c2s[o]
      BY <3>1 DEF UdpInv, SentWasIssued
    <3>2. CASE o = c /\ f = x
      BY <3>2, <1>4, <1>6
    <3>. QED
      BY <2>1, <3>1, <3>2, <1>10
  <2>. QED
    BY <2>1, <1>2 DEF SentWasIssued
<1>13. Numbering' /\ OneAtATime' /\ RunsWereIssued' /\ PeerNotAhead'
  BY <1>1, <1>2 DEF UdpInv, Numbering, OneAtATime, InFlight, RunsWereIssued, PeerNotAhead
<1>14. RefusalsKnown'
  <2>1. RefusalsKnown /\ s2c' = s2c /\ issued' = issued
    BY <1>1, <1>2 DEF UdpInv
  <2>2. ASSUME NEW o \in Client, NEW d \in s2c'[o]
        PROVE  /\ d.frames # << >>
               /\ \A m \in 0..MaxSeq : Acknowledges(d, m) /\ LastFrame(d).type = "ERROR" =>
                    \E code \in ErrorCode : /\ LastFrame(d).payload = [code |-> code]
                                            /\ code = "ERR_SEQ" => m + 1 < Len(issued'[o])
    BY <2>1 DEF RefusalsKnown
  <2>. QED
    BY <2>2 DEF RefusalsKnown, Acknowledges, LastFrame
<1>15. AnswersOwnRequest' /\ InFlightNeverStale'
  BY <1>1, <1>2 DEF UdpInv, AnswersOwnRequest, InFlightNeverStale
<1>. QED
  BY <1>1, <1>11, <1>12, <1>13, <1>14, <1>15 DEF UdpInv

LEMMA CloseStep ==
  ASSUME UdpInv, NEW c \in Client, Close(c), UNCHANGED serverVars
  PROVE  UdpInv'
<1>1. ServerInv' /\ peers' = peers /\ s2c' = s2c /\ ran' = ran
  BY ClientStepServer
<1>2. /\ state' = [state EXCEPT ![c] = "CLOSED"]
      /\ outSeq' = outSeq /\ sessionId' = sessionId /\ attempt' = attempt
      /\ issued' = issued /\ results' = results /\ c2s' = c2s
  BY DEF Close
<1>3. /\ state' \in [Client -> {"NEW", "HANDSHAKE", "READY", "CLOSED"}]
      /\ \A o \in Client : state'[o] = "NEW" => state[o] = "NEW"
  BY <1>2 DEF UdpInv, ClientTypeOK
<1>4. ClientTypeOK'
  BY <1>2, <1>3 DEF UdpInv, ClientTypeOK
<1>5. OneAtATime'
  BY <1>2, <1>3 DEF UdpInv, OneAtATime, InFlight
<1>6. Numbering' /\ SentWasIssued' /\ RunsWereIssued' /\ PeerNotAhead'
  BY <1>1, <1>2 DEF UdpInv, Numbering, SentWasIssued, RunsWereIssued, PeerNotAhead
<1>7. RefusalsKnown'
  BY <1>1, <1>2 DEF UdpInv, RefusalsKnown, Acknowledges, LastFrame
<1>8. AnswersOwnRequest' /\ InFlightNeverStale'
  BY <1>1, <1>2 DEF UdpInv, AnswersOwnRequest, InFlightNeverStale
<1>. QED
  BY <1>1, <1>4, <1>5, <1>6, <1>7, <1>8 DEF UdpInv

\* What the reply to the request in flight can be.
LEMMA ReplyTaken ==
  ASSUME UdpInv, NEW c \in Client, NEW d \in s2c[c], InFlight(c),
         Acknowledges(d, Current(c).seq)
  PROVE  LET reply == LastFrame(d)
         IN  /\ reply.type = "ERROR" =>
                  \E code \in ErrorCode : reply.payload = [code |-> code] /\ code # "ERR_SEQ"
             /\ reply.type # "ERROR" =>
                  \E i \in DOMAIN ran[c] :
                    /\ ran[c][i] = Run(ran[c][i].session, Current(c))
                    /\ Answer(ran[c][i]) = [type |-> reply.type, payload |-> reply.payload]
<1>. DEFINE q == Current(c)
            n == Len(issued[c])
            reply == LastFrame(d)
<1>1. issued \in [Client -> Seq(Requests)] /\ results \in [Client -> Seq(Outcomes)]
  BY DEF UdpInv, ClientTypeOK, Requests, Outcomes
<1>2. InFlight(c) /\ Acknowledges(d, q.seq)
  OBVIOUS
<1>3. n \in DOMAIN issued[c] /\ q = issued[c][n] /\ q \in Requests
  BY <1>1, <1>2 DEF InFlight, Current
<1>4. q.seq = n - 1 /\ q.seq \in 0..MaxSeq /\ n \in Nat
  BY <1>1, <1>3 DEF UdpInv, Numbering, Requests
<1>5. reply.type = "ERROR" =>
        \E code \in ErrorCode : reply.payload = [code |-> code] /\ code # "ERR_SEQ"
  <2>1. SUFFICES ASSUME reply.type = "ERROR"
                 PROVE  \E code \in ErrorCode : reply.payload = [code |-> code] /\ code # "ERR_SEQ"
    OBVIOUS
  <2>2. PICK code \in ErrorCode : /\ reply.payload = [code |-> code]
                                  /\ code = "ERR_SEQ" => q.seq + 1 < n
    BY <1>2, <1>4, <2>1 DEF UdpInv, RefusalsKnown
  <2>. QED
    BY <2>2, <1>4
<1>6. reply.type # "ERROR" =>
        \E i \in DOMAIN ran[c] :
          /\ ran[c][i] = Run(ran[c][i].session, q)
          /\ Answer(ran[c][i]) = [type |-> reply.type, payload |-> reply.payload]
  <2>1. SUFFICES ASSUME reply.type # "ERROR"
                 PROVE  \E i \in DOMAIN ran[c] :
                          /\ ran[c][i] = Run(ran[c][i].session, q)
                          /\ Answer(ran[c][i]) = [type |-> reply.type, payload |-> reply.payload]
    OBVIOUS
  <2>2. PICK i \in DOMAIN ran[c] :
          /\ ran[c][i].seq = q.seq
          /\ Answer(ran[c][i]) = [type |-> reply.type, payload |-> reply.payload]
    BY <1>2, <1>4, <2>1 DEF UdpInv, ServerInv, AnswersAreOfRuns
  <2>3. PICK k \in DOMAIN issued[c] : ran[c][i] = Run(ran[c][i].session, issued[c][k])
    BY DEF UdpInv, RunsWereIssued
  <2>4. issued[c][k].seq = q.seq
    BY <2>2, <2>3 DEF Run
  <2>5. k = n
    BY <1>1, <1>4, <2>4 DEF UdpInv, Numbering
  <2>. QED
    BY <1>3, <2>2, <2>3, <2>5
<1>. QED
  BY <1>5, <1>6

LEMMA AwaitReplyStep ==
  ASSUME UdpInv, NEW c \in Client, NEW d \in s2c[c], AwaitReply(c, d.frames),
         UNCHANGED serverVars
  PROVE  UdpInv'
<1>. DEFINE q == Current(c)
            n == Len(issued[c])
            reply == LastFrame(d)
            out == IF reply.type = "ERROR" THEN Raised(reply.payload.code)
                   ELSE Returned(reply)
<1>1. /\ issued \in [Client -> Seq(Requests)] /\ results \in [Client -> Seq(Outcomes)]
      /\ d \in [session : Nat, frames : Seq(Frames)] /\ d.frames # << >>
  <2>1. s2c \in [Client -> SUBSET [session : Nat, frames : Seq(Frames)]]
    BY DEF UdpInv, ServerInv, ServerTypeOK
  <2>2. d \in [session : Nat, frames : Seq(Frames)]
    BY <2>1
  <2>. QED
    BY <2>2 DEF UdpInv, ClientTypeOK, Requests, Outcomes, RefusalsKnown
<1>2. /\ InFlight(c)
      /\ Acknowledges(d, q.seq)
      /\ results' = [results EXCEPT ![c] = Append(@, out)]
      /\ outSeq' = outSeq /\ attempt' = attempt /\ issued' = issued /\ c2s' = c2s
      /\ \/ /\ q.type = "HELLO" /\ reply.type = "HELLO_ACK"
            /\ state' = [state EXCEPT ![c] = "READY"]
            /\ sessionId' = [sessionId EXCEPT ![c] = reply.payload.session_id]
         \/ state' = state /\ sessionId' = sessionId
  BY DEF AwaitReply, AnswersSeq, Acknowledges, LastFrame
<1>3. reply \in Frames
  BY <1>1 DEF LastFrame
<1>4. n \in DOMAIN issued[c] /\ q = issued[c][n] /\ q \in Requests
  BY <1>1, <1>2 DEF InFlight, Current
<1>5. q.seq = n - 1 /\ q.seq \in 0..MaxSeq /\ n \in Nat
  BY <1>1, <1>4 DEF UdpInv, Numbering, Requests
<1>6. reply.type = "ERROR" =>
        \E code \in ErrorCode : reply.payload = [code |-> code] /\ code # "ERR_SEQ"
  BY <1>2, ReplyTaken
<1>7. reply.type # "ERROR" =>
        \E i \in DOMAIN ran[c] :
          /\ ran[c][i] = Run(ran[c][i].session, q)
          /\ Answer(ran[c][i]) = [type |-> reply.type, payload |-> reply.payload]
  BY <1>2, ReplyTaken
<1>8. /\ out \in Outcomes
      /\ out.code # "ERR_SEQ"
      /\ out.code = "OK" => \E i \in DOMAIN ran[c] :
                              /\ ran[c][i] = Run(ran[c][i].session, Current(c))
                              /\ out = Returned(Answer(ran[c][i]))
  <2>1. CASE reply.type = "ERROR"
    <3>1. PICK code \in ErrorCode : reply.payload = [code |-> code] /\ code # "ERR_SEQ"
      BY <1>6, <2>1
    <3>2. out = [code |-> code]
      BY <2>1, <3>1 DEF Raised
    <3>. QED
      BY <3>1, <3>2 DEF Outcomes, ErrorCode
  <2>2. CASE reply.type # "ERROR"
    <3>1. out = [code |-> "OK", type |-> reply.type, payload |-> reply.payload]
      BY <2>2 DEF Returned
    <3>2. out \in Outcomes /\ out.code = "OK"
      BY <3>1, <1>3 DEF Outcomes, Frames
    <3>3. PICK i \in DOMAIN ran[c] :
            /\ ran[c][i] = Run(ran[c][i].session, q)
            /\ Answer(ran[c][i]) = [type |-> reply.type, payload |-> reply.payload]
      BY <1>7, <2>2
    <3>4. out = Returned(Answer(ran[c][i]))
      BY <3>1, <3>3 DEF Returned
    <3>. QED
      BY <3>2, <3>3, <3>4
  <2>. QED
    BY <2>1, <2>2
<1>9. q.type = "HELLO" /\ reply.type = "HELLO_ACK" => reply.payload.session_id \in Nat
  <2>1. SUFFICES ASSUME q.type = "HELLO", reply.type = "HELLO_ACK"
                 PROVE  reply.payload.session_id \in Nat
    OBVIOUS
  <2>2. PICK i \in DOMAIN ran[c] :
          /\ ran[c][i] = Run(ran[c][i].session, q)
          /\ Answer(ran[c][i]) = [type |-> reply.type, payload |-> reply.payload]
    BY <1>7, <2>1
  <2>3. ran[c][i].type = "HELLO"
    BY <2>1, <2>2 DEF Run
  <2>4. reply.payload = [session_id |-> ran[c][i].session]
    BY <2>2, <2>3 DEF Answer
  <2>5. ran[c][i].session \in Nat
    <3>1. ran \in [Client -> Seq(Runs)]
      BY DEF UdpInv, ServerInv, ServerTypeOK, Runs
    <3>2. ran[c][i] \in Runs
      BY <3>1
    <3>. QED
      BY <3>2 DEF Runs
  <2>. HIDE DEF reply
  <2>. QED
    BY <2>4, <2>5
<1>. HIDE DEF out, reply, q
<1>10. /\ state \in [Client -> {"NEW", "HANDSHAKE", "READY", "CLOSED"}]
       /\ sessionId \in [Client -> Nat \cup {NoSession}]
  BY DEF UdpInv, ClientTypeOK
<1>11. /\ state' \in [Client -> {"NEW", "HANDSHAKE", "READY", "CLOSED"}]
       /\ sessionId' \in [Client -> Nat \cup {NoSession}]
       /\ \A o \in Client : state'[o] = "NEW" => state[o] = "NEW"
  <2>1. CASE /\ q.type = "HELLO" /\ reply.type = "HELLO_ACK"
             /\ state' = [state EXCEPT ![c] = "READY"]
             /\ sessionId' = [sessionId EXCEPT ![c] = reply.payload.session_id]
    <3>1. reply.payload.session_id \in Nat \cup {NoSession}
      BY <1>9, <2>1
    <3>. DEFINE id == reply.payload.session_id
    <3>. HIDE DEF id
    <3>2. sessionId' \in [Client -> Nat \cup {NoSession}]
      BY <1>10, <2>1, <3>1, UpdateFacts DEF id
    <3>. QED
      BY <1>10, <2>1, <3>2
  <2>2. CASE state' = state /\ sessionId' = sessionId
    BY <1>10, <2>2
  <2>. QED
    BY <1>2, <2>1, <2>2
<1>. QED
  BY <1>2, <1>8, <1>11, ResultStep

LEMMA ClientStepInv ==
  ASSUME UdpInv, NEW c \in Client, ClientStep(c), UNCHANGED serverVars
  PROVE  UdpInv'
<1>. USE DEF ClientStep, User, Timeout
<1>1. state \in [Client -> {"NEW", "HANDSHAKE", "READY", "CLOSED"}]
  BY DEF UdpInv, ClientTypeOK
<1>2. CASE Connect(c)
  <2>1. [client_id |-> c] \in Payload /\ "HELLO" \in MsgType
    BY DEF Payload, MsgType
  <2>2. ~InFlight(c) /\ Issue(c, "HELLO", [client_id |-> c])
    BY <1>2 DEF Connect, UdpInv, OneAtATime
  <2>3. state' = [state EXCEPT ![c] = "HANDSHAKE"]
    BY <1>2 DEF Connect
  <2>. QED
    BY <1>1, <2>1, <2>2, <2>3, IssueStep
<1>3. CASE \E type \in RequestTypes, x \in Data : Request(c, type, [data |-> x])
  <2>1. PICK type \in RequestTypes, x \in Data : Request(c, type, [data |-> x])
    BY <1>3
  <2>2. [data |-> x] \in Payload /\ type \in MsgType
    BY UdpClientAssumption DEF Payload
  <2>3. /\ ~InFlight(c) /\ Issue(c, type, [data |-> x])
        /\ state' = state /\ state[c] # "NEW"
    BY <2>1 DEF Request
  <2>4. /\ state' \in [Client -> {"NEW", "HANDSHAKE", "READY", "CLOSED"}]
        /\ state'[c] # "NEW"
        /\ \A o \in Client \ {c} : state'[o] = state[o]
    BY <1>1, <2>3
  <2>. QED
    BY <2>2, <2>3, <2>4, IssueStep
<1>4. CASE Close(c)
  BY <1>4, CloseStep
<1>5. CASE Retry(c)
  BY <1>5, RetryStep
<1>6. CASE GiveUp(c)
  BY <1>6, GiveUpStep
<1>7. CASE \E d \in s2c[c] : AwaitReply(c, d.frames)
  BY <1>7, AwaitReplyStep
<1>. QED
  BY <1>2, <1>3, <1>4, <1>5, <1>6, <1>7

-----------------------------------------------------------------------------

(* The inductive invariant holds in every behaviour of the clients and the *)
(* server, over a network that loses, repeats and reorders (Udp!Next).     *)
THEOREM UdpInvariant == Spec => []UdpInv
<1>1. UdpInv /\ [Next]_vars => UdpInv'
  <2>1. SUFFICES ASSUME UdpInv, [Next]_vars
                 PROVE  UdpInv'
    OBVIOUS
  <2>2. CASE UNCHANGED vars
    BY <2>1, <2>2, UdpStutterStep
  <2>3. ASSUME NEW c \in Client, ClientStep(c), UNCHANGED serverVars
        PROVE  UdpInv'
    BY <2>1, <2>3, ClientStepInv
  <2>4. ASSUME NEW c \in Client, ServerStep(c), UNCHANGED clientVars
        PROVE  UdpInv'
    BY <2>1, <2>4, ServerStepInv
  <2>. QED
    BY <2>1, <2>2, <2>3, <2>4 DEF Next
<1>. QED
  BY <1>1, UdpInitInv, PTL DEF Spec

(* The types of the server and of the clients (UdpServer, UdpClient).      *)
THEOREM UdpTypeOK == Spec => []TypeOK
<1>1. UdpInv => TypeOK
  BY DEF UdpInv, ServerInv, TypeOK
<1>. QED
  BY <1>1, UdpInvariant, PTL

(* What request() returns is the answer of a run of that very request      *)
(* (UdpClient._await_reply), for every window size and retry count.        *)
THEOREM UdpAnswersOwnRequest == Spec => []AnswersOwnRequest
<1>1. UdpInv => AnswersOwnRequest
  BY DEF UdpInv
<1>. QED
  BY <1>1, UdpInvariant, PTL

(* No request() is ever refused as stale: a window of one entry is enough  *)
(* for a client that waits for each answer (DedupWindow, ServerSession).   *)
THEOREM UdpInFlightNeverStale == Spec => []InFlightNeverStale
<1>1. UdpInv => InFlightNeverStale
  BY DEF UdpInv
<1>. QED
  BY <1>1, UdpInvariant, PTL

-----------------------------------------------------------------------------
(* The refinement: every step of Udp is a step of Rpc or leaves what Rpc   *)
(* sees as it is.                                                          *)

rpcVars == <<issued, results, ran>>

RpcRequests == [seq : 0..(MaxRequests - 1), type : RequestTypes \cup {"HELLO"},
                payload : [data : Data] \cup [client_id : Client]]

LEMMA InitRefines == Init => Abs!Init
BY DEF Init, ServerInit, ClientInit, Abs!Init

\* A request is sent: the call begins.
LEMMA IssueRefines ==
  ASSUME UdpInv, NEW c \in Client, NEW type \in RequestTypes \cup {"HELLO"},
         NEW payload \in [data : Data] \cup [client_id : Client],
         ~InFlight(c), Issue(c, type, payload), UNCHANGED serverVars
  PROVE  Abs!Next
<1>. DEFINE q == [seq |-> outSeq[c], type |-> type, payload |-> payload]
<1>1. Len(issued[c]) < MaxRequests /\ outSeq[c] = Len(issued[c])
  BY DEF Issue, UdpInv, Numbering
<1>2. issued[c] \in Seq(Requests)
  BY DEF UdpInv, ClientTypeOK, Requests
<1>3. outSeq[c] \in 0..(MaxRequests - 1)
  BY <1>1, <1>2, UdpClientAssumption, MaxSeqAssumption
<1>4. q \in RpcRequests
  BY <1>3 DEF RpcRequests
<1>5. Abs!Call(c, q)
  BY DEF Issue, serverVars, Abs!Call, Abs!InFlight, InFlight
<1>. QED
  BY <1>4, <1>5 DEF RpcRequests, Abs!Next

\* An answer that is taken: the call returns the answer of a run, or fails.
LEMMA AwaitReplyRefines ==
  ASSUME UdpInv, NEW c \in Client, NEW d \in s2c[c], AwaitReply(c, d.frames),
         UNCHANGED serverVars
  PROVE  Abs!Next
<1>. DEFINE q == Current(c)
            reply == LastFrame(d)
<1>1. InFlight(c) /\ Acknowledges(d, q.seq) /\ issued' = issued /\ ran' = ran
  BY DEF AwaitReply, AnswersSeq, Acknowledges, LastFrame, serverVars
<1>2. results' = [results EXCEPT ![c] =
        Append(@, IF reply.type = "ERROR" THEN [code |-> reply.payload.code]
                  ELSE [code |-> "OK", type |-> reply.type, payload |-> reply.payload])]
  BY DEF AwaitReply, LastFrame, Raised, Returned
<1>3. CASE reply.type = "ERROR"
  <2>1. PICK code \in ErrorCode : reply.payload = [code |-> code]
    BY <1>1, <1>3, ReplyTaken
  <2>2. reply.payload.code = code
    BY <2>1
  <2>. HIDE DEF reply
  <2>3. Abs!Fail(c, code)
    BY <1>1, <1>2, <1>3, <2>2 DEF InFlight, Abs!InFlight, Abs!Fail
  <2>. QED
    BY <2>3 DEF Abs!Next, Abs!Resolve
<1>4. CASE reply.type # "ERROR"
  <2>1. PICK i \in DOMAIN ran[c] :
          /\ ran[c][i] = Run(ran[c][i].session, q)
          /\ Answer(ran[c][i]) = [type |-> reply.type, payload |-> reply.payload]
    BY <1>1, <1>4, ReplyTaken
  <2>2. Answer(ran[c][i]).type = reply.type /\ Answer(ran[c][i]).payload = reply.payload
    BY <2>1
  <2>. HIDE DEF reply
  <2>3. Abs!Return(c, i)
    BY <1>1, <1>2, <1>4, <2>1, <2>2
       DEF InFlight, Current, Run, Abs!InFlight, Abs!RunOf, Abs!Return
  <2>. QED
    BY <2>3 DEF Abs!Next, Abs!Resolve
<1>. QED
  BY <1>3, <1>4

\* A request runs: it was called, and nothing later has run.
LEMMA HandleRefines ==
  ASSUME UdpInv, UdpInv', NEW c \in Client, NEW f \in c2s[c], Handle(c, f),
         UNCHANGED clientVars
  PROVE  Abs!Next \/ UNCHANGED rpcVars
<1>. DEFINE s == peers[c].session
            r == Answering(s, f)
            run == Run(s.id, f)
<1>1. ServerTypeOK /\ PeersLive /\ f \in Frames
  BY DEF UdpInv, ServerInv, ClientTypeOK
<1>2. issued' = issued /\ results' = results
  BY DEF clientVars
<1>3. /\ Accepted(r) => ran' = [ran EXCEPT ![c] = Append(@, run)]
      /\ ~Accepted(r) => ran' = ran
      /\ s \in Sessions
  BY <1>1, HandleFacts
<1>4. s.id \in 0..(MaxSessions - 1)
  BY <1>3, MaxSessionsAssumption DEF Handle, Sessions
<1>5. PICK k \in DOMAIN issued[c] :
        f.seq = issued[c][k].seq /\ f.type = issued[c][k].type /\ f.payload = issued[c][k].payload
  BY DEF UdpInv, SentWasIssued
<1>6. run = Abs!RunOf(s.id, issued[c][k])
  BY <1>5 DEF Run, Abs!RunOf
<1>. HIDE DEF s, r, run
<1>7. CASE ~Accepted(r)
  BY <1>2, <1>3, <1>7 DEF rpcVars
<1>8. CASE Accepted(r)
  <2>1. ran \in [Client -> Seq(Runs)]
    BY <1>1 DEF ServerTypeOK, Runs
  <2>2. ran'[c] = Append(ran[c], run)
    BY <1>3, <1>8, <2>1
  <2>3. /\ Len(ran[c]) + 1 \in DOMAIN ran'[c] /\ ran'[c][Len(ran[c]) + 1] = run
        /\ \A i \in DOMAIN ran[c] : /\ i \in DOMAIN ran'[c] /\ ran'[c][i] = ran[c][i]
                                    /\ i < Len(ran[c]) + 1
    BY <2>1, <2>2, AppendFacts
  <2>4. Abs!IsNext(c, run)
    BY <2>3 DEF UdpInv, ServerInv, RunsInOrder, Abs!IsNext
  <2>5. Abs!Execute(c, s.id, k)
    BY <1>2, <1>3, <1>6, <1>8, <2>4 DEF Abs!Execute
  <2>. QED
    BY <1>4, <2>5 DEF Abs!Next
<1>. QED
  BY <1>7, <1>8

LEMMA ClientRefines ==
  ASSUME UdpInv, NEW c \in Client, ClientStep(c), UNCHANGED serverVars
  PROVE  Abs!Next \/ UNCHANGED rpcVars
<1>. USE DEF ClientStep, User, Timeout
<1>1. CASE Connect(c)
  <2>1. ~InFlight(c) /\ Issue(c, "HELLO", [client_id |-> c])
    BY <1>1 DEF Connect, UdpInv, OneAtATime
  <2>. QED
    BY <2>1, IssueRefines
<1>2. CASE \E type \in RequestTypes, x \in Data : Request(c, type, [data |-> x])
  BY <1>2, IssueRefines DEF Request
<1>3. CASE Close(c) \/ Retry(c)
  BY <1>3 DEF Close, Retry, serverVars, rpcVars
<1>4. CASE GiveUp(c)
  <2>1. Abs!Fail(c, "ERR_TIMEOUT")
    BY <1>4 DEF GiveUp, Raised, serverVars, InFlight, Abs!InFlight, Abs!Fail
  <2>. QED
    BY <2>1 DEF ErrorCode, Abs!Next, Abs!Resolve
<1>5. CASE \E d \in s2c[c] : AwaitReply(c, d.frames)
  BY <1>5, AwaitReplyRefines
<1>. QED
  BY <1>1, <1>2, <1>3, <1>4, <1>5

LEMMA ServerRefines ==
  ASSUME UdpInv, UdpInv', NEW c \in Client, ServerStep(c), UNCHANGED clientVars
  PROVE  Abs!Next \/ UNCHANGED rpcVars
<1>1. PICK f \in c2s[c] : OnDatagram(c, f)
  BY DEF ServerStep
<1>2. CASE Replay(c, f)
  BY <1>2 DEF Replay, clientVars, rpcVars
<1>3. CASE Handle(c, f)
  BY <1>3, HandleRefines
<1>. QED
  BY <1>1, <1>2, <1>3 DEF OnDatagram

(* The reliable layer keeps the promise of Rpc (a call returns the answer  *)
(* of a run of its request; runs are in order, once per session) for every *)
(* number of clients, retries and requests and every window size.          *)
THEOREM UdpImplementsRpc == Spec => ImplementsRpc
<1>1. UdpInv /\ UdpInv' /\ [Next]_vars => [Abs!Next]_Abs!vars
  <2>. SUFFICES ASSUME UdpInv, UdpInv', [Next]_vars PROVE Abs!Next \/ UNCHANGED rpcVars
    BY DEF rpcVars, Abs!vars
  <2>1. CASE UNCHANGED vars
    BY <2>1 DEF vars, rpcVars
  <2>2. ASSUME NEW c \in Client, ClientStep(c), UNCHANGED serverVars
        PROVE  Abs!Next \/ UNCHANGED rpcVars
    BY <2>2, ClientRefines
  <2>3. ASSUME NEW c \in Client, ServerStep(c), UNCHANGED clientVars
        PROVE  Abs!Next \/ UNCHANGED rpcVars
    BY <2>3, ServerRefines
  <2>. QED
    BY <2>1, <2>2, <2>3 DEF Next
<1>. QED
  BY <1>1, InitRefines, UdpInvariant, PTL DEF Spec, ImplementsRpc, Abs!Spec

-----------------------------------------------------------------------------
(* A session survives what the network does to its datagrams.  Of a client *)
(* that never gave up, every earlier request has been answered.  If the    *)
(* answers are not refusals, its requests ran in the first session, which  *)
(* is still there; as they are no more than the window holds, all of them  *)
(* are in the window, and a late copy of one is replayed, never handled.   *)

\* The first session runs at most one request per number it has seen.
FirstSession ==
  \A c \in Client :
    peers[c].session.id = 0 => Len(ran[c]) <= peers[c].session.lastPeerSeq + 1

\* connect() comes first, and only once.
HelloFirst ==
  \A c \in Client :
    /\ state[c] = "NEW" => issued[c] = << >>
    /\ \A k \in DOMAIN issued[c] : /\ issued[c][k].type \in RequestTypes \cup {"HELLO"}
                                   /\ issued[c][k].type = "HELLO" => k = 1

\* An ERROR is the end of a session: whoever was told one is past the first.
ErrorsEnd ==
  \A c \in Client :
    /\ \A d \in s2c[c] : LastFrame(d).type = "ERROR" => peers[c].session.id # 0
    /\ \A k \in DOMAIN results[c] :
         results[c][k].code \notin {"OK", "ERR_TIMEOUT"} => peers[c].session.id # 0

SurvivalInv ==
  /\ RecentRunsCached
  /\ FirstSession
  /\ HelloFirst
  /\ ErrorsEnd

LEMMA SurvivalInit == Init => SurvivalInv
<1>. SUFFICES ASSUME Init PROVE SurvivalInv
  OBVIOUS
<1>1. RecentRunsCached
  BY WindowStart DEF Init
<1>2. \A c \in Client : /\ issued[c] = << >> /\ results[c] = << >>
                        /\ ran[c] = << >> /\ s2c[c] = {}
                        /\ peers[c].session.lastPeerSeq = -1
  BY DEF Init, ClientInit, ServerInit, NewPeer, NewSession
<1>3. FirstSession /\ HelloFirst /\ ErrorsEnd
  BY <1>2 DEF FirstSession, HelloFirst, ErrorsEnd
<1>. QED
  BY <1>1, <1>3 DEF SurvivalInv

LEMMA SurvivalHandle ==
  ASSUME UdpInv, SurvivalInv, NEW c \in Client, NEW f \in c2s[c], Handle(c, f),
         UNCHANGED clientVars
  PROVE  SurvivalInv'
<1>. DEFINE s == peers[c].session
            r == Answering(s, f)
            d == [session |-> s.id, frames |-> r.frames]
            run == Run(s.id, f)
<1>1. /\ ServerInv /\ ServerTypeOK /\ PeersLive /\ f \in Frames
      /\ RecentRunsCached /\ FirstSession /\ HelloFirst /\ ErrorsEnd
  BY DEF UdpInv, ServerInv, ClientTypeOK, SurvivalInv
<1>2. RecentRunsCached'
  BY <1>1, WindowStep
<1>3. state' = state /\ issued' = issued /\ results' = results
  BY DEF clientVars
<1>4. HelloFirst'
  BY <1>1, <1>3 DEF HelloFirst
<1>5. s \in Sessions /\ Live(s) /\ r \in Reactions
  BY <1>1, HandleFacts
<1>6. /\ r.session.id = s.id
      /\ Accepted(r) => s.lastPeerSeq < f.seq
      /\ ~r.close => Accepted(r) /\ r.session.lastPeerSeq = f.seq
  BY <1>1, <1>5, AnsweringFacts
<1>7. /\ r.close  => peers'[c] = NewPeer(s.id + 1)
      /\ ~r.close => peers'[c].session = r.session
      /\ s2c'[c] = IF r.frames = << >> THEN s2c[c] ELSE s2c[c] \cup {d}
      /\ ran'[c] = IF Accepted(r) THEN Append(ran[c], run) ELSE ran[c]
      /\ \A o \in Client \ {c} : peers'[o] = peers[o] /\ s2c'[o] = s2c[o] /\ ran'[o] = ran[o]
  BY <1>1, HandleEffect
<1>8. s.id \in Nat /\ s.lastPeerSeq \in Int /\ f.seq \in Int /\ ran[c] \in Seq(Runs)
  <2>1. f.seq \in Int
    BY <1>1, MaxSeqAssumption DEF Frames
  <2>2. ran[c] \in Seq(Runs)
    BY <1>1 DEF ServerTypeOK, Runs
  <2>. HIDE DEF s
  <2>. QED
    BY <1>5, <2>1, <2>2, MaxSeqAssumption DEF Sessions
<1>9. r.close => peers'[c].session.id = s.id + 1
  BY <1>7 DEF NewPeer, NewSession
<1>10. ASSUME r.frames # << >>, LastFrame(d).type = "ERROR"
       PROVE  r.close
  <2>1. r.frames \in Seq(Frames) /\ LastFrame(d) = r.frames[Len(r.frames)]
    BY <1>5 DEF Reactions, LastFrame
  <2>2. ~Accepted(r)
    <3>. DEFINE g == r.frames
    <3>1. Len(g) \in DOMAIN g /\ g[Len(g)].type = "ERROR"
      <4>. HIDE DEF r
      <4>. QED
        BY <1>10, <2>1
    <3>. QED
      BY <3>1 DEF Accepted
  <2>. QED
    BY <1>6, <2>2
<1>. HIDE DEF s, r, d, run
<1>11. FirstSession'
  <2>1. ASSUME peers'[c].session.id = 0
        PROVE  Len(ran'[c]) <= peers'[c].session.lastPeerSeq + 1
    <3>1. ~r.close
      BY <1>8, <1>9, <2>1
    <3>2. s.id = 0 /\ peers'[c].session.lastPeerSeq = f.seq /\ s.lastPeerSeq < f.seq
      BY <1>6, <1>7, <2>1, <3>1
    <3>3. Len(ran'[c]) = Len(ran[c]) + 1 /\ Len(ran[c]) \in Nat
      BY <1>6, <1>7, <1>8, <3>1, AppendFacts
    <3>4. Len(ran[c]) <= s.lastPeerSeq + 1
      BY <1>1, <3>2 DEF FirstSession, s
    <3>. QED
      BY <1>8, <3>2, <3>3, <3>4
  <2>2. ASSUME NEW o \in Client \ {c}, peers'[o].session.id = 0
        PROVE  Len(ran'[o]) <= peers'[o].session.lastPeerSeq + 1
    BY <1>1, <1>7, <2>2 DEF FirstSession
  <2>. QED
    BY <2>1, <2>2 DEF FirstSession
<1>12. peers[c].session.id # 0 => peers'[c].session.id # 0
  BY <1>6, <1>7, <1>8, <1>9 DEF s
<1>13. ErrorsEnd'
  <2>1. ASSUME NEW x \in s2c'[c], LastFrame(x).type = "ERROR"
        PROVE  peers'[c].session.id # 0
    <3>1. CASE x \in s2c[c]
      BY <1>1, <1>12, <2>1, <3>1 DEF ErrorsEnd
    <3>2. CASE r.frames # << >> /\ x = d
      BY <1>8, <1>9, <1>10, <2>1, <3>2
    <3>. QED
      BY <1>7, <3>1, <3>2
  <2>2. ASSUME NEW k \in DOMAIN results[c], results[c][k].code \notin {"OK", "ERR_TIMEOUT"}
        PROVE  peers'[c].session.id # 0
    BY <1>1, <1>12, <2>2 DEF ErrorsEnd
  <2>3. ASSUME NEW o \in Client \ {c}
        PROVE  /\ \A x \in s2c'[o] : LastFrame(x).type = "ERROR" => peers'[o].session.id # 0
               /\ \A k \in DOMAIN results[o] :
                    results[o][k].code \notin {"OK", "ERR_TIMEOUT"} => peers'[o].session.id # 0
    BY <1>1, <1>7 DEF ErrorsEnd
  <2>. QED
    BY <1>3, <2>1, <2>2, <2>3 DEF ErrorsEnd, LastFrame
<1>. QED
  BY <1>2, <1>4, <1>11, <1>13 DEF SurvivalInv

\* A call begins.
LEMMA SurvivalIssue ==
  ASSUME UdpInv, SurvivalInv, NEW c \in Client, NEW type, NEW payload,
         Issue(c, type, payload), UNCHANGED serverVars,
         type \in RequestTypes \cup {"HELLO"},
         type = "HELLO" => issued[c] = << >>,
         state'[c] # "NEW", \A o \in Client \ {c} : state'[o] = state[o]
  PROVE  SurvivalInv'
<1>. DEFINE q == [seq |-> outSeq[c], type |-> type, payload |-> payload]
            more == Append(issued[c], q)
<1>1. /\ peers' = peers /\ s2c' = s2c /\ ran' = ran /\ results' = results
      /\ issued' = [issued EXCEPT ![c] = more]
  BY DEF serverVars, Issue
<1>2. issued \in [Client -> Seq(Requests)]
  BY DEF UdpInv, ClientTypeOK, Requests
<1>3. q.type = type
  OBVIOUS
<1>4. /\ \A k \in DOMAIN issued[c] : more[k] = issued[c][k]
      /\ \A k \in DOMAIN more : k \in DOMAIN issued[c] \/ k = Len(issued[c]) + 1
      /\ more[Len(issued[c]) + 1] = q
  BY <1>2, AppendFacts
<1>. HIDE DEF q, more
<1>5. issued'[c] = more /\ \A o \in Client \ {c} : issued'[o] = issued[o]
  BY <1>1, <1>2
<1>6. HelloFirst
  BY DEF SurvivalInv
<1>7. ASSUME NEW k \in DOMAIN issued'[c]
      PROVE  /\ issued'[c][k].type \in RequestTypes \cup {"HELLO"}
             /\ issued'[c][k].type = "HELLO" => k = 1
  <2>1. CASE k \in DOMAIN issued[c]
    BY <1>4, <1>5, <1>6, <2>1 DEF HelloFirst
  <2>2. CASE k = Len(issued[c]) + 1
    <3>1. issued'[c][k].type = type
      BY <1>3, <1>4, <1>5, <2>2
    <3>2. issued[c] = << >> => k = 1
      BY <2>2
    <3>. QED
      BY <3>1, <3>2
  <2>. QED
    BY <1>4, <1>5, <2>1, <2>2
<1>8. ASSUME NEW o \in Client \ {c}
      PROVE  /\ state'[o] = "NEW" => issued'[o] = << >>
             /\ \A k \in DOMAIN issued'[o] :
                  /\ issued'[o][k].type \in RequestTypes \cup {"HELLO"}
                  /\ issued'[o][k].type = "HELLO" => k = 1
  BY <1>5, <1>6 DEF HelloFirst
<1>9. HelloFirst'
  BY <1>7, <1>8 DEF HelloFirst
<1>10. RecentRunsCached' /\ FirstSession'
  BY <1>1 DEF SurvivalInv, RecentRunsCached, FirstSession
<1>11. ErrorsEnd'
  BY <1>1 DEF SurvivalInv, ErrorsEnd, LastFrame
<1>. QED
  BY <1>9, <1>10, <1>11 DEF SurvivalInv

\* A call ends; an error other than a timeout is one the server sent.
LEMMA SurvivalResult ==
  ASSUME UdpInv, SurvivalInv, NEW c \in Client, NEW out \in Outcomes,
         results' = [results EXCEPT ![c] = Append(@, out)],
         out.code \notin {"OK", "ERR_TIMEOUT"} => peers[c].session.id # 0,
         UNCHANGED issued, UNCHANGED serverVars,
         \A o \in Client : state'[o] = "NEW" => state[o] = "NEW"
  PROVE  SurvivalInv'
<1>1. peers' = peers /\ s2c' = s2c /\ ran' = ran /\ issued' = issued
  BY DEF serverVars
<1>2. results \in [Client -> Seq(Outcomes)]
  BY DEF UdpInv, ClientTypeOK, Outcomes
<1>3. /\ \A o \in Client \ {c} : results'[o] = results[o]
      /\ results'[c][Len(results[c]) + 1] = out
      /\ \A k \in DOMAIN results[c] : results'[c][k] = results[c][k]
      /\ \A k \in DOMAIN results'[c] : k \in DOMAIN results[c] \/ k = Len(results[c]) + 1
  BY <1>2, LogFacts
<1>4. ErrorsEnd /\ HelloFirst
  BY DEF SurvivalInv
<1>5. \A k \in DOMAIN results'[c] :
        results'[c][k].code \notin {"OK", "ERR_TIMEOUT"} => peers[c].session.id # 0
  BY <1>3, <1>4 DEF ErrorsEnd
<1>6. \A o \in Client \ {c} : \A k \in DOMAIN results'[o] :
        results'[o][k].code \notin {"OK", "ERR_TIMEOUT"} => peers[o].session.id # 0
  BY <1>3, <1>4 DEF ErrorsEnd
<1>7. \A o \in Client : \A d \in s2c[o] :
        LastFrame(d).type = "ERROR" => peers[o].session.id # 0
  BY <1>4 DEF ErrorsEnd
<1>8. ErrorsEnd'
  BY <1>1, <1>5, <1>6, <1>7 DEF ErrorsEnd, LastFrame
<1>9. HelloFirst'
  BY <1>1, <1>4 DEF HelloFirst
<1>10. RecentRunsCached' /\ FirstSession'
  BY <1>1 DEF SurvivalInv, RecentRunsCached, FirstSession
<1>. QED
  BY <1>8, <1>9, <1>10 DEF SurvivalInv

LEMMA SurvivalKept ==
  ASSUME SurvivalInv, UNCHANGED serverVars, UNCHANGED <<issued, results>>,
         \A o \in Client : state'[o] = "NEW" => state[o] = "NEW"
  PROVE  SurvivalInv'
<1>1. peers' = peers /\ s2c' = s2c /\ ran' = ran /\ issued' = issued /\ results' = results
  BY DEF serverVars
<1>2. RecentRunsCached' /\ FirstSession' /\ HelloFirst'
  BY <1>1 DEF SurvivalInv, RecentRunsCached, FirstSession, HelloFirst
<1>3. ErrorsEnd'
  BY <1>1 DEF SurvivalInv, ErrorsEnd, LastFrame
<1>. QED
  BY <1>2, <1>3 DEF SurvivalInv

LEMMA SurvivalClient ==
  ASSUME UdpInv, SurvivalInv, NEW c \in Client, ClientStep(c), UNCHANGED serverVars
  PROVE  SurvivalInv'
<1>. USE DEF ClientStep, User, Timeout
<1>1. /\ state \in [Client -> {"NEW", "HANDSHAKE", "READY", "CLOSED"}]
      /\ HelloFirst /\ ErrorsEnd
  BY DEF UdpInv, ClientTypeOK, SurvivalInv
<1>2. CASE Connect(c)
  <2>1. /\ Issue(c, "HELLO", [client_id |-> c])
        /\ state[c] = "NEW" /\ state' = [state EXCEPT ![c] = "HANDSHAKE"]
    BY <1>2 DEF Connect
  <2>2. issued[c] = << >>
    BY <1>1, <2>1 DEF HelloFirst
  <2>3. state'[c] # "NEW" /\ \A o \in Client \ {c} : state'[o] = state[o]
    BY <1>1, <2>1
  <2>. QED
    BY <2>1, <2>2, <2>3, SurvivalIssue
<1>3. CASE \E type \in RequestTypes, x \in Data : Request(c, type, [data |-> x])
  <2>1. PICK type \in RequestTypes, x \in Data : Request(c, type, [data |-> x])
    BY <1>3
  <2>2. type # "HELLO"
    BY UdpClientAssumption
  <2>3. Issue(c, type, [data |-> x]) /\ state' = state /\ state[c] # "NEW"
    BY <2>1 DEF Request
  <2>. QED
    BY <2>2, <2>3, SurvivalIssue
<1>4. CASE Close(c)
  <2>1. state' = [state EXCEPT ![c] = "CLOSED"] /\ UNCHANGED <<issued, results>>
    BY <1>4 DEF Close
  <2>. QED
    BY <1>1, <2>1, SurvivalKept
<1>5. CASE Retry(c)
  BY <1>5, SurvivalKept DEF Retry
<1>6. CASE GiveUp(c)
  <2>1. Raised("ERR_TIMEOUT") \in Outcomes /\ Raised("ERR_TIMEOUT").code = "ERR_TIMEOUT"
    BY DEF Raised, Outcomes, ErrorCode
  <2>. QED
    BY <1>6, <2>1, SurvivalResult DEF GiveUp
<1>7. CASE \E d \in s2c[c] : AwaitReply(c, d.frames)
  <2>1. PICK d \in s2c[c] : AwaitReply(c, d.frames)
    BY <1>7
  <2>. DEFINE reply == LastFrame(d)
              out == IF reply.type = "ERROR" THEN Raised(reply.payload.code) ELSE Returned(reply)
  <2>2. /\ InFlight(c) /\ Acknowledges(d, Current(c).seq)
        /\ results' = [results EXCEPT ![c] = Append(@, out)]
        /\ issued' = issued
        /\ state' = [state EXCEPT ![c] = "READY"] \/ state' = state
    BY <2>1 DEF AwaitReply, AnswersSeq, Acknowledges, LastFrame
  <2>3. \A o \in Client : state'[o] = "NEW" => state[o] = "NEW"
    BY <1>1, <2>2
  <2>4. /\ out \in Outcomes
        /\ out.code \notin {"OK", "ERR_TIMEOUT"} => peers[c].session.id # 0
    <3>1. CASE reply.type = "ERROR"
      <4>1. \E code \in ErrorCode : reply.payload = [code |-> code]
        BY <2>2, <3>1, ReplyTaken
      <4>2. out \in Outcomes
        BY <3>1, <4>1 DEF Raised, Outcomes
      <4>3. peers[c].session.id # 0
        BY <1>1, <3>1 DEF ErrorsEnd
      <4>. QED
        BY <4>2, <4>3
    <3>2. CASE reply.type # "ERROR"
      <4>1. out = [code |-> "OK", type |-> reply.type, payload |-> reply.payload]
        BY <3>2 DEF Returned
      <4>2. reply \in Frames
        <5>1. d.frames # << >>
          BY DEF UdpInv, RefusalsKnown
        <5>2. s2c \in [Client -> SUBSET [session : Nat, frames : Seq(Frames)]]
          BY DEF UdpInv, ServerInv, ServerTypeOK
        <5>3. d.frames \in Seq(Frames)
          BY <5>2
        <5>. QED
          BY <5>1, <5>3 DEF LastFrame
      <4>. QED
        BY <4>1, <4>2 DEF Outcomes, Frames
    <3>. QED
      BY <3>1, <3>2
  <2>. HIDE DEF out, reply
  <2>. QED
    BY <2>2, <2>3, <2>4, SurvivalResult
<1>. QED
  BY <1>2, <1>3, <1>4, <1>5, <1>6, <1>7

\* A late copy is in the window: it is not handled again.
LEMMA LateCopyCached ==
  ASSUME UdpInv, SurvivalInv, NEW c \in Client, NEW k \in DOMAIN issued[c],
         Len(issued[c]) <= DedupSize,
         \A j \in DOMAIN results[c] : results[c][j].code # "ERR_TIMEOUT",
         peers[c].session.id = 0,
         k - 1 <= peers[c].session.lastPeerSeq
  PROVE  Cached(peers[c].window, k - 1)
<1>. DEFINE last == peers[c].session.lastPeerSeq
            n == Len(issued[c])
            m == Len(results[c])
            before == Len(ran[c]) - Len(peers[c].window)
<1>1. /\ issued[c] \in Seq(Requests) /\ results[c] \in Seq(Outcomes)
      /\ ran[c] \in Seq(Runs) /\ peers[c].session \in Sessions
      /\ peers[c].window \in Seq(Entries)
  BY DEF UdpInv, ClientTypeOK, Requests, Outcomes, ServerInv, ServerTypeOK, Runs, Entries
<1>2. /\ n \in Nat /\ m \in Nat /\ k \in 1..n /\ last \in Int
      /\ DOMAIN results[c] = 1..m
  BY <1>1, MaxSeqAssumption DEF Sessions
<1>3. last < n /\ n \in {m, m + 1} /\ issued[c][k].seq = k - 1
  BY DEF UdpInv, PeerNotAhead, OneAtATime, Numbering
<1>4. CASE k \notin DOMAIN results[c]
  <2>. HIDE DEF last, n, m
  <2>1. k - 1 = last /\ last # -1
    BY <1>2, <1>3, <1>4 DEF last
  <2>. QED
    BY <2>1 DEF last, UdpInv, ServerInv, LatestCached
<1>5. CASE k \in DOMAIN results[c]
  <2>1. results[c][k].code = "OK"
    BY <1>5 DEF SurvivalInv, ErrorsEnd
  <2>2. PICK i \in DOMAIN ran[c] : ran[c][i] = Run(ran[c][i].session, issued[c][k])
    BY <1>5, <2>1 DEF UdpInv, AnswersOwnRequest
  <2>3. ran[c][i].seq = k - 1 /\ ran[c][i] \in Runs
    BY <1>1, <1>3, <2>2 DEF Run
  <2>4. ran[c][i].session < 0 \/ ran[c][i].session = 0
    BY DEF UdpInv, ServerInv, RunsBelow
  <2>5. ran[c][i].session = peers[c].session.id
    BY <2>3, <2>4 DEF Runs
  <2>6. Len(ran[c]) <= last + 1
    BY DEF SurvivalInv, FirstSession
  <2>7. /\ before >= 0
        /\ \A j \in DOMAIN peers[c].window : ran[c][before + j].seq = peers[c].window[j].seq
        /\ i \in 1..before => Len(peers[c].window) = DedupSize
    BY <2>5 DEF SurvivalInv, RecentRunsCached
  <2>8. /\ i \in 1..Len(ran[c]) /\ Len(ran[c]) \in Nat
        /\ DOMAIN peers[c].window = 1..Len(peers[c].window) /\ Len(peers[c].window) \in Nat
    BY <1>1
  <2>. DEFINE a == Len(ran[c])
              b == Len(peers[c].window)
  <2>9. /\ a \in Nat /\ b \in Nat /\ i \in 1..a /\ before = a - b /\ before >= 0
        /\ a <= last + 1 /\ last < n /\ n <= DedupSize
        /\ i \in 1..before => b = DedupSize
    BY <1>3, <2>6, <2>7, <2>8
  <2>. HIDE DEF a, b, before, last, n, m
  <2>10. i \notin 1..before
    BY <1>2, <2>9, DedupSizeAssumption
  <2>11. i - before \in 1..b /\ before + (i - before) = i
    BY <2>9, <2>10
  <2>12. i - before \in DOMAIN peers[c].window
    BY <2>8, <2>11 DEF b
  <2>13. peers[c].window[i - before].seq = k - 1
    BY <2>3, <2>7, <2>11, <2>12
  <2>. QED
    BY <2>12, <2>13 DEF Cached
<1>. QED
  BY <1>4, <1>5

LEMMA SessionEnds ==
  ASSUME RequestTypes \cap {"HELLO_ACK", "ERROR"} = {},
         UdpInv, SurvivalInv, NEW c \in Client, NEW f \in c2s[c], Handle(c, f),
         Len(issued[c]) <= DedupSize,
         \A k \in DOMAIN results[c] : results[c][k].code # "ERR_TIMEOUT",
         peers[c].session.id = 0,
         peers[c].session.state = "READY",
         peers'[c].session.id # 0
  PROVE  ran'[c][Len(ran'[c])].type = "BYE"
<1>. DEFINE s == peers[c].session
            r == Answering(s, f)
            run == Run(s.id, f)
<1>1. ServerTypeOK /\ PeersLive /\ f \in Frames /\ ran[c] \in Seq(Runs)
  BY DEF UdpInv, ServerInv, ServerTypeOK, Runs, ClientTypeOK
<1>2. s \in Sessions /\ Live(s) /\ ~Cached(peers[c].window, f.seq)
  BY <1>1, HandleFacts
<1>3. /\ r.session.id = s.id
      /\ ~r.close => peers'[c].session = r.session
      /\ ran'[c] = IF Accepted(r) THEN Append(ran[c], run) ELSE ran[c]
  BY <1>1, <1>2, AnsweringFacts, HandleEffect
<1>4. r.close
  <2>. HIDE DEF r
  <2>. QED
    BY <1>3
<1>5. PICK k \in DOMAIN issued[c] : f.seq = issued[c][k].seq /\ f.type = issued[c][k].type
  BY DEF UdpInv, SentWasIssued
<1>6. f.seq = k - 1
  BY <1>5 DEF UdpInv, Numbering
<1>7. ~(k - 1 <= s.lastPeerSeq)
  BY <1>2, <1>6, LateCopyCached
<1>8. s.lastPeerSeq >= 0 /\ s.lastPeerSeq \in Int
  <2>1. PICK i \in DOMAIN ran[c] : ran[c][i].session = s.id
    BY DEF UdpInv, ServerInv, NewMeansNothingRan
  <2>2. ran[c][i] \in Runs
    BY <1>1
  <2>3. ran[c][i].session < s.id \/ ran[c][i].seq <= s.lastPeerSeq
    BY DEF UdpInv, ServerInv, RunsBelow
  <2>4. ran[c][i].seq \in Nat /\ s.id = 0 /\ s.lastPeerSeq \in Int
    BY <1>2, <2>2, MaxSeqAssumption DEF Runs, Sessions
  <2>. HIDE DEF s
  <2>. QED
    BY <2>1, <2>3, <2>4
<1>9. k \in Nat
  <2>1. issued[c] \in Seq(Requests)
    BY DEF UdpInv, ClientTypeOK, Requests
  <2>. QED
    BY <2>1
<1>. HIDE DEF s, r, run
<1>10. s.lastPeerSeq < f.seq /\ k # 1
  BY <1>6, <1>7, <1>8, <1>9
<1>11. f.type \notin {"HELLO", "HELLO_ACK", "ERROR"}
  BY <1>5, <1>10 DEF SurvivalInv, HelloFirst
<1>12. f.type = "BYE" /\ Accepted(r)
  <2>1. s.state = "READY"
    BY DEF s
  <2>. QED
    BY <1>1, <1>2, <1>4, <1>10, <1>11, <2>1, AnsweringEnds DEF r
<1>13. ran'[c][Len(ran'[c])] = run
  BY <1>1, <1>3, <1>12, AppendFacts
<1>. QED
  BY <1>12, <1>13 DEF run, Run

(* The first session of a client that never gave a request up, and has sent*)
(* no more requests than the window holds, ends only by a BYE: the network *)
(* may repeat and delay what it likes.  The hypothesis says that the       *)
(* application does not send, as requests, the two messages that are       *)
(* answers and end a session by themselves (ServerSession._dispatch).      *)
THEOREM UdpSessionSurvives ==
  ASSUME RequestTypes \cap {"HELLO_ACK", "ERROR"} = {}
  PROVE  Spec => SessionSurvives
<1>1. UdpInv /\ SurvivalInv /\ [Next]_vars => SurvivalInv'
  <2>. SUFFICES ASSUME UdpInv, SurvivalInv, [Next]_vars PROVE SurvivalInv'
    OBVIOUS
  <2>1. CASE UNCHANGED vars
    BY <2>1, SurvivalKept DEF vars, serverVars
  <2>2. ASSUME NEW c \in Client, ClientStep(c), UNCHANGED serverVars
        PROVE  SurvivalInv'
    BY <2>2, SurvivalClient
  <2>3. ASSUME NEW c \in Client, NEW f \in c2s[c], Handle(c, f), UNCHANGED clientVars
        PROVE  SurvivalInv'
    BY <2>3, SurvivalHandle
  <2>4. ASSUME NEW c \in Client, NEW f \in c2s[c], Replay(c, f), UNCHANGED clientVars
        PROVE  SurvivalInv'
    <3>1. UNCHANGED serverVars
      BY <2>4, ReplayStep DEF UdpInv, ClientTypeOK
    <3>. QED
      BY <2>4, <3>1, SurvivalKept DEF clientVars
  <2>. QED
    BY <2>1, <2>2, <2>3, <2>4 DEF Next, ServerStep, OnDatagram
<1>. DEFINE Ends(c) == /\ Len(issued[c]) <= DedupSize
                       /\ \A k \in DOMAIN results[c] : results[c][k].code # "ERR_TIMEOUT"
                       /\ peers[c].session.id = 0
                       /\ peers[c].session.state = "READY"
                       /\ peers'[c].session.id # 0
                       => ran'[c][Len(ran'[c])].type = "BYE"
            Survives == \A c \in Client : Ends(c)
<1>2. UdpInv /\ SurvivalInv /\ [Next]_vars => Survives
  <2>. SUFFICES ASSUME UdpInv, SurvivalInv, [Next]_vars, NEW c \in Client,
                       peers[c].session.id = 0, peers'[c].session.id # 0
                PROVE  Ends(c)
    OBVIOUS
  <2>1. PICK o \in Client : \E f \in c2s[o] : Handle(o, f)
    <3>1. ~UNCHANGED peers
      OBVIOUS
    <3>. QED
      BY <3>1 DEF Next, vars, serverVars, ServerStep, OnDatagram, Replay
  <2>a. PICK f \in c2s[o] : Handle(o, f)
    BY <2>1
  <2>2. o = c
    <3>1. f \in Frames /\ ServerTypeOK /\ PeersLive
      BY DEF UdpInv, ServerInv, ClientTypeOK
    <3>2. \A p \in Client \ {o} : peers'[p] = peers[p]
      BY <2>a, <3>1, HandleEffect
    <3>. QED
      BY <3>2
  <2>. QED
    BY <2>a, <2>2, SessionEnds
<1>. HIDE DEF Ends
<1>3. SessionSurvives <=> [][Survives]_vars
  BY DEF SessionSurvives, Survives, Ends
<1>4. UdpInv /\ SurvivalInv /\ [Next]_vars => [Survives]_vars
  BY <1>2
<1>. HIDE DEF Survives
<1>. QED
  BY <1>1, <1>3, <1>4, SurvivalInit, UdpInvariant, PTL DEF Spec
=============================================================================
