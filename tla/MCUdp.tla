-------------------------------- MODULE MCUdp -------------------------------
(***************************************************************************)
(* Udp for TLC: the instances are given by the cfg files.                  *)
(***************************************************************************)
EXTENDS Udp

CONSTANTS c1, d1, d2
=============================================================================
