------------------------------- MODULE MCGate -------------------------------
(* Small instances of Gate. *)
EXTENDS Gate, TLC

\* Requests differ in nothing but their name.
RequestSymmetry == Permutations(Requests)
=============================================================================
