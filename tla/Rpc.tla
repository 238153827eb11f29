--------------------------------- MODULE Rpc --------------------------------
(***************************************************************************)
(* What the reliable layer over UDP promises, with no network, no copies,  *)
(* no windows and no timers: a client calls, the server may run the        *)
(* request, and the call returns the answer of such a run or fails.        *)
(*                                                                         *)
(* The promise is per session: a request runs at most once in a session,   *)
(* and in the order of the calls.  A call that fails may have run, may run *)
(* later, or may never run.                                                *)
(***************************************************************************)
EXTENDS Integers, Sequences

CONSTANTS
  Client, Requests,  \* a request is a record [seq, type, payload]
  SessionIds,        \* a totally ordered set: numbers
  Failures,
  Answer(_)          \* the answer of a run [session, seq, type, payload]

VARIABLES issued, results, ran

vars == <<issued, results, ran>>

Init ==
  /\ issued  = [c \in Client |-> << >>]
  /\ results = [c \in Client |-> << >>]
  /\ ran     = [c \in Client |-> << >>]

InFlight(c) == Len(issued[c]) > Len(results[c])

Call(c, request) ==
  /\ ~InFlight(c)
  /\ issued' = [issued EXCEPT ![c] = Append(@, request)]
  /\ UNCHANGED <<results, ran>>

RunOf(id, request) ==
  [session |-> id, seq |-> request.seq, type |-> request.type, payload |-> request.payload]

\* Nothing later than this run has run.
IsNext(c, run) ==
  \A i \in DOMAIN ran[c] :
    \/ ran[c][i].session < run.session
    \/ ran[c][i].session = run.session /\ ran[c][i].seq < run.seq

\* Any request ever called may still be on its way.
Execute(c, id, n) ==
  LET run == RunOf(id, issued[c][n])
  IN  /\ IsNext(c, run)
      /\ ran' = [ran EXCEPT ![c] = Append(@, run)]
      /\ UNCHANGED <<issued, results>>

\* The i-th run is one of the request in flight, and the call returns its answer.
Return(c, i) ==
  /\ InFlight(c)
  /\ ran[c][i] = RunOf(ran[c][i].session, issued[c][Len(issued[c])])
  /\ results' = [results EXCEPT ![c] =
       Append(@, [code |-> "OK", type |-> Answer(ran[c][i]).type,
                  payload |-> Answer(ran[c][i]).payload])]
  /\ UNCHANGED <<issued, ran>>

Fail(c, code) ==
  /\ InFlight(c)
  /\ results' = [results EXCEPT ![c] = Append(@, [code |-> code])]
  /\ UNCHANGED <<issued, ran>>

Resolve(c) == (\E i \in DOMAIN ran[c] : Return(c, i)) \/ (\E code \in Failures : Fail(c, code))

Next ==
  \E c \in Client :
    \/ \E request \in Requests : Call(c, request)
    \/ \E id \in SessionIds, n \in DOMAIN issued[c] : Execute(c, id, n)
    \/ Resolve(c)

Spec == Init /\ [][Next]_vars

\* Every call ends.
FairSpec == Spec /\ \A c \in Client : WF_vars(Resolve(c))
=============================================================================
