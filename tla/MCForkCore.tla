----------------------------- MODULE MCForkCore ------------------------------
(* ForkCore on a target of two threads, for TLC.                           *)
EXTENDS ForkCore

=============================================================================
