---------------------------- MODULE MCDecodeRing ----------------------------
(* The ring with blocks of 1 to 4 bytes and a window that spans two of them. *)
EXTENDS DecodeRing
=============================================================================
