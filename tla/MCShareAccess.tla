--------------------------- MODULE MCShareAccess ----------------------------
(* ShareAccess for TLC: the configuration gives the constants their values. *)
EXTENDS ShareAccess, TLC

\* Handlers are interchangeable.
Symmetry == Permutations(Requests)
=============================================================================
