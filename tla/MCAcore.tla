------------------------------- MODULE MCAcore ------------------------------
(* Blocks of three bytes.  The larger process has a maps file, a region and   *)
(* program headers of two blocks, and a region that is not captured.          *)
EXTENDS Acore

MCTargets == {[threads |-> 2, layout |-> <<1, 0, 4>>, crash |-> 1],
              [threads |-> 1, layout |-> <<1>>, crash |-> 0]}
=============================================================================
