---------------------------- MODULE MCBlockCache ------------------------------
(* Two threads and three blocks, two of which fit the table. *)
EXTENDS BlockCache

CONSTANTS t1, t2, b1, b2, b3
==============================================================================
