----------------------------- MODULE MCCapture ------------------------------
(***************************************************************************)
(* Capture for TLC: one flow whose sender may write damaged frames, and one*)
(* whose sender does not.                                                  *)
(***************************************************************************)
EXTENDS Capture
LOCAL INSTANCE TLC

CONSTANTS f1, f2

Item(id, length, faults) == [id |-> id, length |-> length, faults |-> faults]

Good(id, length) == Item(id, length, {})

\* Every check fails before the next one in the decoder's order.
Damaged ==
  {Item(1, 0, codes) : codes \in {{"ERR_MAGIC", "ERR_VERSION"}, {"ERR_VERSION", "ERR_LENGTH"},
                                  {"ERR_FLAGS", "ERR_TYPE"}, {"ERR_TYPE", "ERR_CRC"}, {"ERR_AUTH"}}}
  \cup {Item(1, 1, {"ERR_LENGTH", "ERR_FLAGS"}), Item(1, 1, {"ERR_CRC", "ERR_AUTH"})}

\* One flow with two frames, the first of them good or damaged; or two flows.
MCWires ==
       {f1 :> <<a, Good(2, 0)>> @@ f2 :> << >> : a \in {Good(1, 1)} \cup Damaged}
  \cup {f1 :> <<Good(1, 0)>> @@ f2 :> <<Good(2, 0)>>}

MCMaxSegments == f1 :> 3 @@ f2 :> 1

Small(l4, declares, pad) == [l4 |-> l4, declares |-> declares, pad |-> pad]

\* Padded, with and without a declared length; or not TCP or UDP over IPv4.
MCSmallShapes ==
  {Small("TCP", TRUE, 1), Small("TCP", FALSE, 1), Small("none", TRUE, 1)}
=============================================================================
