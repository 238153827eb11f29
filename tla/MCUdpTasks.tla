----------------------------- MODULE MCUdpTasks -----------------------------
(***************************************************************************)
(* UdpTasks for TLC: the instance is given by the cfg file.                *)
(***************************************************************************)
EXTENDS UdpTasks

CONSTANTS c1, d1, t1, t2
=============================================================================
