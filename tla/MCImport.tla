------------------------------ MODULE MCImport ------------------------------
(* DriveImport for TLC: the configurations give the constants their values. *)
EXTENDS DriveImport, TLC

\* Runs, and the contents of files, are interchangeable.
Symmetry == Permutations(Runs) \cup Permutations(Contents)
=============================================================================
