------------------------------ MODULE MCT4Ingest ------------------------------
(* Two writers are alike: they may be swapped. *)
EXTENDS T4Ingest, TLC

Symmetry == Permutations(Writers)
=============================================================================
