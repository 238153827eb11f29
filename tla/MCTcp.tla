-------------------------------- MODULE MCTcp -------------------------------
(***************************************************************************)
(* Tcp for TLC: the instances are given by the cfg files.                  *)
(***************************************************************************)
EXTENDS Tcp

CONSTANTS c1, d1, d2
=============================================================================
