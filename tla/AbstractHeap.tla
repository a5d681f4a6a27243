---------------------------- MODULE AbstractHeap -----------------------------
(***************************************************************************)
(* What the callers of _get_new_phys_blk and _release_block rely on: a     *)
(* block that is got is in nobody else's use until it is put back.         *)
(***************************************************************************)
CONSTANTS Threads, Blocks, None

VARIABLE holder    \* the thread that got each block in use

HeapInit == holder = [b \in Blocks |-> None]

Get(t, b) ==
  /\ holder[b] = None
  /\ holder' = [holder EXCEPT ![b] = t]

(* Whoever puts it back. *)
Put(b) ==
  /\ holder[b] # None
  /\ holder' = [holder EXCEPT ![b] = None]

HeapNext == \E b \in Blocks : Put(b) \/ \E t \in Threads : Get(t, b)

HeapSpec == HeapInit /\ [][HeapNext]_holder
==============================================================================
