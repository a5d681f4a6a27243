---------------------------- MODULE MCFinalImage -----------------------------
(* Pages of four bytes, an image of two pages and a byte, over a shorter or  *)
(* a longer file, on a slot that is new or has written before.               *)
EXTENDS FinalImage

MCOldSizes == {0, 6, 12}
MCStalePhys == {0, 1, 3}
=============================================================================
