------------------------------ MODULE BlockCache ------------------------------
(***************************************************************************)
(* The 16K blocks that all memory of the linker is made of, alloc/allocc.c.*)
(* Main and the reader threads get blocks with _get_new_phys_blk and give  *)
(* them back with _release_block; up to PHYS_TABLE_MAX released blocks are *)
(* kept for the next caller, the others go back to Windows.                *)
(*                                                                         *)
(* The table of released blocks is guarded by GLOBALALLOC_SEM, the lock of *)
(* MutexSem; VirtualAlloc and VirtualFree are called outside of it.        *)
(***************************************************************************)
EXTENDS MutexSem

CONSTANTS
  Blocks,            \* the 16K pieces of the address space
  PHYS_TABLE_MAX     \* released blocks that are kept, 8

ASSUME BlockCacheAssumption ==
  /\ None \notin Blocks
  /\ PHYS_TABLE_MAX \in Nat \ {0}

VARIABLES
  entries,     \* PHYS_TABLE_ENTRIES
  table,       \* PHYS_TABLE
  mapped,      \* blocks reserved and committed by VirtualAlloc
  holder,      \* the thread that got each block in use
  at,          \* where each thread is in the two functions
  reg,         \* n or ECX: what it has read of PHYS_TABLE_ENTRIES
  blk,         \* p or EAX: the block it is about to return or to release
  oom          \* _oom_error: the link is given up

cacheVars == <<entries, table, mapped, holder, at, reg, blk, oom>>
allVars   == <<semVars, cacheVars>>

Slots == 0 .. PHYS_TABLE_MAX - 1

CacheInit ==
  /\ InitSem
  /\ entries = 0
  /\ table = [i \in Slots |-> None]
  /\ mapped = {}
  /\ holder = [b \in Blocks |-> None]
  /\ at = [t \in Threads |-> "idle"]
  /\ reg = [t \in Threads |-> 0]
  /\ blk = [t \in Threads |-> None]
  /\ oom = FALSE

Goto(t, l) == at' = [at EXCEPT ![t] = l]

(* t is at l, inside the critical section. *)
Holding(t, l) == at[t] = l /\ pc[t] = "owner"

(* t is at l, with the lock released and the signal, if any, sent. *)
Past(t, l) == at[t] = l /\ pc[t] = "idle"

(* A thread may wait for the lock on its way in, and send a signal on its  *)
(* way out.                                                                *)
Granted(t) == CaptureWait(t) /\ UNCHANGED cacheVars
Signal(t)  == ReleasePost(t) /\ UNCHANGED cacheVars

------------------------------------------------------------------------------
(* _get_new_phys_blk *)

CallGet(t) ==
  /\ at[t] = "idle"
  /\ Capture(t)
  /\ Goto(t, "get")
  /\ UNCHANGED <<entries, table, mapped, holder, reg, blk, oom>>

ReadEntries(t) ==
  /\ Holding(t, "get")
  /\ reg' = [reg EXCEPT ![t] = entries]
  /\ Goto(t, IF entries = 0 THEN "none" ELSE "take")
  /\ UNCHANGED <<semVars, entries, table, mapped, holder, blk, oom>>

Unshifted(n) == table                    \* fault: the memcpy forgotten
(* memcpy of n entries to one place lower. *)
Shifted(n) == [i \in Slots |-> IF i < n THEN table[i + 1] ELSE table[i]]

TakeFirst(t) ==
  /\ Holding(t, "take")
  /\ entries' = reg[t] - 1
  /\ blk' = [blk EXCEPT ![t] = table[0]]
  /\ table' = Shifted(reg[t] - 1)
  /\ Goto(t, "taken")
  /\ UNCHANGED <<semVars, mapped, holder, reg, oom>>

ReleaseTaken(t) ==
  /\ at[t] = "taken"
  /\ Release(t)
  /\ Goto(t, "return")
  /\ UNCHANGED <<entries, table, mapped, holder, reg, blk, oom>>

Return(t) ==
  /\ Past(t, "return")
  /\ holder' = [holder EXCEPT ![blk[t]] = t]
  /\ blk' = [blk EXCEPT ![t] = None]
  /\ Goto(t, "idle")
  /\ UNCHANGED <<semVars, entries, table, mapped, reg, oom>>

(* Fault: the early return inside the critical section. *)
ReturnNone(t) ==
  /\ Holding(t, "none")
  /\ Goto(t, "sbrk")
  /\ UNCHANGED <<semVars, entries, table, mapped, holder, reg, blk, oom>>

ReleaseNone(t) ==
  /\ at[t] = "none"
  /\ Release(t)
  /\ Goto(t, "sbrk")
  /\ UNCHANGED <<entries, table, mapped, holder, reg, blk, oom>>

(* VirtualAlloc finds a free place, ... *)
Sbrk(t) ==
  /\ Past(t, "sbrk")
  /\ \E b \in Blocks \ mapped :
       /\ mapped' = mapped \union {b}
       /\ holder' = [holder EXCEPT ![b] = t]
  /\ Goto(t, "idle")
  /\ UNCHANGED <<semVars, entries, table, reg, blk, oom>>

(* ... or the linker gives up. *)
OomError(t) ==
  /\ Past(t, "sbrk")
  /\ mapped = Blocks
  /\ oom' = TRUE
  /\ UNCHANGED <<semVars, entries, table, mapped, holder, at, reg, blk>>

------------------------------------------------------------------------------
(* _release_block.  The block need not be one that t got: main releases    *)
(* what the readers filled.                                                *)

CallRelease(t) ==
  /\ at[t] = "idle"
  /\ Capture(t)
  /\ \E b \in Blocks :
       /\ holder[b] # None
       /\ holder' = [holder EXCEPT ![b] = None]
       /\ blk' = [blk EXCEPT ![t] = b]
  /\ Goto(t, "release")
  /\ UNCHANGED <<entries, table, mapped, reg, oom>>

FullTooLate(n) == n = PHYS_TABLE_MAX + 1 \* fault: one block too many
Full(n) == n = PHYS_TABLE_MAX            \* ECX == 8

ReadRoom(t) ==
  /\ Holding(t, "release")
  /\ reg' = [reg EXCEPT ![t] = entries]
  /\ Goto(t, IF Full(entries) THEN "full" ELSE "store")
  /\ UNCHANGED <<semVars, entries, table, mapped, holder, blk, oom>>

NotCounted(n) == n                       \* fault: ECX++ forgotten
Counted(n) == n + 1                      \* ECX++

Store(t) ==
  /\ Holding(t, "store")
  /\ table' = [table EXCEPT ![reg[t]] = blk[t]]
  /\ entries' = Counted(reg[t])
  /\ blk' = [blk EXCEPT ![t] = None]
  /\ Goto(t, "stored")
  /\ UNCHANGED <<semVars, mapped, holder, reg, oom>>

ReleaseStored(t) ==
  /\ at[t] = "stored"
  /\ Release(t)
  /\ Goto(t, "idle")
  /\ UNCHANGED <<entries, table, mapped, holder, reg, blk, oom>>

ReleaseFull(t) ==
  /\ at[t] = "full"
  /\ Release(t)
  /\ Goto(t, "free")
  /\ UNCHANGED <<entries, table, mapped, holder, reg, blk, oom>>

(* VirtualFree *)
Free(t) ==
  /\ Past(t, "free")
  /\ mapped' = mapped \ {blk[t]}
  /\ blk' = [blk EXCEPT ![t] = None]
  /\ Goto(t, "idle")
  /\ UNCHANGED <<semVars, entries, table, holder, reg, oom>>

------------------------------------------------------------------------------
Inner(t) ==
  \/ ReadEntries(t) \/ TakeFirst(t) \/ ReleaseTaken(t) \/ Return(t)
  \/ ReleaseNone(t) \/ Sbrk(t) \/ OomError(t)
  \/ ReadRoom(t) \/ Store(t) \/ ReleaseStored(t) \/ ReleaseFull(t) \/ Free(t)
  \/ Signal(t)

CacheNext ==
  /\ ~oom                                \* ExitProcess ends every thread
  /\ \E t \in Threads :
       \/ CallGet(t) \/ CallRelease(t)
       \/ Granted(t)
       \/ Inner(t)

(* Both functions are straight code that Windows keeps running, and a      *)
(* waiter is not passed over for ever.  Nobody need ever call.             *)
CacheFairness ==
  \A t \in Threads :
    /\ WF_allVars(~oom /\ Inner(t))
    /\ SF_allVars(~oom /\ Granted(t))

CacheSpec == CacheInit /\ [][CacheNext]_allVars /\ CacheFairness

------------------------------------------------------------------------------
Places == {"idle", "get", "none", "sbrk", "take", "taken", "return",
           "release", "store", "stored", "full", "free"}

CacheTypeOK ==
  /\ entries \in 0 .. PHYS_TABLE_MAX
  /\ table \in [Slots -> Blocks \union {None}]
  /\ mapped \subseteq Blocks
  /\ holder \in [Blocks -> Threads \union {None}]
  /\ at \in [Threads -> Places]
  /\ reg \in [Threads -> 0 .. PHYS_TABLE_MAX]
  /\ blk \in [Threads -> Blocks \union {None}]
  /\ oom \in BOOLEAN

Cached(b)  == \E i \in 0 .. entries - 1 : table[i] = b
Carried(b) == \E t \in Threads : blk[t] = b

(* Every block that Windows has given is in one place: used by a thread,   *)
(* in one slot of the table, or in the hands of one thread on its way      *)
(* between the two.  None is kept that has been given back, none is lost.  *)
BlocksAccounted ==
  /\ \A i, j \in 0 .. entries - 1 : table[i] = table[j] => i = j
  /\ \A t, u \in Threads : blk[t] = blk[u] /\ blk[t] # None => t = u
  /\ \A b \in Blocks :
       /\ b \in mapped <=> holder[b] # None \/ Cached(b) \/ Carried(b)
       /\ holder[b] # None => ~Cached(b) /\ ~Carried(b)
       /\ Cached(b) => ~Carried(b)
  /\ ~Cached(None)

(* A thread that asks for a block, or gives one back, is not kept waiting  *)
(* for ever by the others.                                                 *)
CallsReturn ==
  \A t \in Threads : at[t] # "idle" ~> at[t] = "idle" \/ oom

(* The table, the lock and the two paths through Windows amount to a heap  *)
(* that never gives a block to two callers.                                *)
Heap == INSTANCE AbstractHeap

ImplementsHeap == Heap!HeapSpec
==============================================================================
