------------------------------ MODULE MCMedia -------------------------------
(* MediaQueue for TLC: the configuration gives the constants their values. *)
EXTENDS MediaQueue
=============================================================================
