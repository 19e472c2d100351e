--------------------------- MODULE MCAtomicOutput ---------------------------
(* AtomicOutput on a file system of a few inodes, for TLC.                 *)
EXTENDS AtomicOutput, TLC

Symmetry == Permutations(Inodes)
=============================================================================
