----------------------------- MODULE MCStorage ------------------------------
(* StorageSystem for TLC: the configurations give the constants their values. *)
EXTENDS StorageInvariant, TLC

\* Uploads, handlers and byte values are interchangeable.
Symmetry ==
    Permutations(Uploads) \cup Permutations(Finalizers)
        \cup Permutations(Sweepers) \cup Permutations(Data)
=============================================================================
