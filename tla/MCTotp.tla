------------------------------- MODULE MCTotp -------------------------------
(* Small instances of Totp. *)
EXTENDS Totp, TLC

\* Requests differ in nothing but their name.
RequestSymmetry == Permutations(Requests)
=============================================================================
