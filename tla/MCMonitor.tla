----------------------------- MODULE MCMonitor ------------------------------
(* Monitor on a target of a few threads, for TLC.                          *)
EXTENDS Monitor, TLC

Symmetry == Permutations(Ordinary \ Caught) \cup Permutations(Fatal)
=============================================================================
