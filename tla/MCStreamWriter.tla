--------------------------- MODULE MCStreamWriter ---------------------------
(* Blocks of three bytes; data that leaves room for less than itself, and data   *)
(* that takes two blocks.                                                      *)
EXTENDS StreamWriter

MCSizes == {2, 4}
MCTypes == {"process", "thread"}
=============================================================================
