------------------------------- MODULE MCTree -------------------------------
(* DriveTree for TLC: the configurations give the constants their values. *)
EXTENDS DriveTree, TLC

\* Entries and handlers are interchangeable.
Symmetry == Permutations(Entries) \cup Permutations(Requests)
=============================================================================
