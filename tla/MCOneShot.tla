----------------------------- MODULE MCOneShot ------------------------------
(* OneShot on a target of a few threads, for TLC.                          *)
EXTENDS OneShot, TLC

Symmetry == Permutations(Ordinary)
=============================================================================
