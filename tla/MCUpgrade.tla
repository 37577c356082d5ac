------------------------------ MODULE MCUpgrade ------------------------------
(* Small instances of Upgrade. *)
EXTENDS Upgrade, TLC

\* Invocations differ in nothing but their name.
RunSymmetry == Permutations(Runs)
=============================================================================
