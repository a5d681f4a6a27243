---------------------------- MODULE MCPoolAlloc -------------------------------
(* Small pages, lists of two blocks: five blocks fill two lists. *)
EXTENDS PoolAlloc, TLC

CONSTANTS b1, b2, b3, b4, b5

AnyBlock == Permutations(Blocks)
==============================================================================
