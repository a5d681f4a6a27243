--------------------------- MODULE SemaphoreProofs ----------------------------
(***************************************************************************)
(* GLOBALSEM under its two disciplines, and the table of released blocks   *)
(* that GLOBALALLOC_SEM guards.  First the lock by itself: safe for every  *)
(* finite set of threads.  Then the table: a heap, for every number of     *)
(* threads, blocks and slots, because every step is a step of the lock or  *)
(* none.  Last the counter between producers and one consumer: it keeps    *)
(* every unit, whatever the number of threads that release, of units at    *)
(* the beginning and of releases.                                          *)
(***************************************************************************)
EXTENDS BlockCache, StreamSem, FiniteSetTheorems, TLAPS

Inside == At("waiting") \union At("owner")

(* The threads inside are finitely many, so that they can be counted.      *)
LEMMA InsideFinite == ASSUME SemTypeOK PROVE IsFiniteSet(Inside) /\ IsFiniteSet(Inside')
<1>1. Inside \subseteq Threads /\ Inside' \subseteq Threads
  BY DEF Inside, At
<1>2. QED
  BY <1>1, ThreadsAssumption, FS_Subset

(* How many are inside is a number. *)
LEMMA InsideCounted == ASSUME SemTypeOK PROVE Cardinality(Inside) \in Nat
BY InsideFinite, FS_CardinalityType

(* A capture adds one thread to those inside. *)
LEMMA CaptureCounts ==
  ASSUME SemTypeOK, NEW t \in Threads, Capture(t)
  PROVE  Cardinality(Inside') = Cardinality(Inside) + 1
<1>1. Inside' = Inside \union {t} /\ t \notin Inside
  BY DEF Capture, CaptureFast, CaptureSlow, SemTypeOK, Inside, At, Locations
<1>2. QED
  BY <1>1, InsideFinite, FS_AddElement

(* A release takes one thread from those inside. *)
LEMMA ReleaseCounts ==
  ASSUME SemTypeOK, NEW t \in Threads, Release(t)
  PROVE  Cardinality(Inside') = Cardinality(Inside) - 1
<1>1. Inside' = Inside \ {t} /\ t \in Inside
  BY DEF Release, ReleaseFast, ReleaseSlow, SemTypeOK, Inside, At, Locations
<1>2. QED
  BY <1>1, InsideFinite, FS_RemoveElement

(* A new semaphore has one token, in the counter, and nobody inside.      *)
LEMMA InitIInv == InitSem => IInv
<1> SUFFICES ASSUME InitSem PROVE IInv
  OBVIOUS
<1>1. SemTypeOK
  BY DEF InitSem, SemTypeOK, Locations
<1>2. Inside = {}
  BY DEF InitSem, Inside, At
<1>3. CounterCounts
  BY <1>2, FS_EmptySet DEF InitSem, CounterCounts, Inside
<1>4. OneToken
  BY DEF InitSem, OneToken, At
<1>5. QED
  BY <1>1, <1>3, <1>4 DEF IInv

(* No step of any thread makes a second token, loses the only one, or gets *)
(* the counter out of step with the threads inside.                        *)
LEMMA StepIInv == IInv /\ [Next]_semVars => IInv'
<1> SUFFICES ASSUME IInv, [Next]_semVars PROVE IInv'
  OBVIOUS
<1> USE DEF IInv
<1>1. ASSUME NEW t \in Threads, Capture(t) PROVE IInv'
  <2>1. SemTypeOK'
    BY <1>1 DEF Capture, CaptureFast, CaptureSlow, SemTypeOK, Locations
  <2>2. counter' = counter + 1
    BY <1>1 DEF Capture, CaptureFast, CaptureSlow
  <2>3. CounterCounts'
    BY <1>1, <2>2, CaptureCounts, InsideCounted DEF CounterCounts, Inside, SemTypeOK
  <2>3a. counter >= -1
    BY InsideCounted DEF CounterCounts, Inside, SemTypeOK
  <2>4. OneToken'
    BY <1>1, <2>3a DEF Capture, CaptureFast, CaptureSlow, OneToken, At, SemTypeOK, Locations
  <2>5. QED
    BY <2>1, <2>3, <2>4
<1>2. ASSUME NEW t \in Threads, CaptureWait(t) PROVE IInv'
  <2>1. SemTypeOK'
    BY <1>2 DEF CaptureWait, SemTypeOK, Locations
  <2>2. Inside' = Inside
    BY <1>2 DEF CaptureWait, Inside, At, SemTypeOK, Locations
  <2>3. CounterCounts'
    BY <1>2, <2>2 DEF CaptureWait, CounterCounts, Inside
  <2>4. OneToken'
    BY <1>2 DEF CaptureWait, OneToken, At, SemTypeOK, Locations
  <2>5. QED
    BY <2>1, <2>3, <2>4
<1>3. ASSUME NEW t \in Threads, Release(t) PROVE IInv'
  <2>1. SemTypeOK'
    BY <1>3 DEF Release, ReleaseFast, ReleaseSlow, SemTypeOK, Locations
  <2>2. counter' = counter - 1
    BY <1>3 DEF Release, ReleaseFast, ReleaseSlow
  <2>3. CounterCounts'
    <3>1. Cardinality(Inside') = Cardinality(Inside) - 1
      BY <1>3, ReleaseCounts
    <3>2. counter + 1 = Cardinality(Inside)
      BY DEF CounterCounts, Inside
    <3>3. counter' + 1 = Cardinality(Inside')
      BY <2>2, <3>1, <3>2, InsideCounted DEF SemTypeOK
    <3>4. QED
      BY <3>3 DEF CounterCounts, Inside
  <2>4. counter >= 0
    <3>1. t \in Inside
      BY <1>3 DEF Release, Inside, At
    <3>2. Cardinality(Inside) # 0
      BY <3>1, InsideFinite, FS_EmptySet
    <3>3. QED
      BY <3>2, InsideCounted DEF CounterCounts, Inside, SemTypeOK
  <2>5. OneToken'
    BY <1>3, <2>4 DEF Release, ReleaseFast, ReleaseSlow, OneToken, At, SemTypeOK, Locations
  <2>6. QED
    BY <2>1, <2>3, <2>5
<1>4. ASSUME NEW t \in Threads, ReleasePost(t) PROVE IInv'
  <2>1. SemTypeOK'
    BY <1>4 DEF ReleasePost, SemTypeOK, Locations
  <2>2. Inside' = Inside
    BY <1>4 DEF ReleasePost, Inside, At, SemTypeOK, Locations
  <2>3. CounterCounts'
    BY <1>4, <2>2 DEF ReleasePost, CounterCounts, Inside
  <2>4. OneToken'
    BY <1>4 DEF ReleasePost, OneToken, At, SemTypeOK, Locations
  <2>5. QED
    BY <2>1, <2>3, <2>4
<1>5. CASE UNCHANGED semVars
  BY <1>5 DEF semVars, SemTypeOK, CounterCounts, OneToken, At
<1>6. QED
  BY <1>1, <1>2, <1>3, <1>4, <1>5 DEF Next, Step

(* Whatever the interleaving, the semaphore's state is one the code can    *)
(* represent, the counter says how many threads are inside, and there is   *)
(* one token.                                                              *)
THEOREM TokenKept == Spec => []IInv
BY InitIInv, StepIInv, PTL DEF Spec

(* CAPTURE / RELEASE excludes: no two threads are inside together.         *)
THEOREM Exclusion == Spec => []MutualExclusion
<1>1. IInv => MutualExclusion
  BY DEF IInv, OneToken, MutualExclusion
<1>2. QED
  BY InitIInv, StepIInv, <1>1, PTL DEF Spec

(* A maximum count of one is enough for a lock, however many threads wait: *)
(* ReleaseSemaphore never finds the object signalled.                      *)
THEOREM PostsKept == Spec => []NoLostPost
<1>1. IInv => NoLostPost
  BY DEF IInv, OneToken, NoLostPost, At
<1>2. QED
  BY InitIInv, StepIInv, <1>1, PTL DEF Spec

Holder == IF At("owner") = {} THEN None ELSE CHOOSE t \in Threads : pc[t] = "owner"

(* Who owns the semaphore is the owner that the abstract lock is told.     *)
LEMMA OwnerHolds ==
  ASSUME OneToken, NEW t \in Threads, pc[t] = "owner"
  PROVE  Holder = t
<1>1. \A u \in Threads : pc[u] = "owner" => u = t
  BY DEF OneToken, At
<1>2. At("owner") # {}
  BY DEF At
<1>3. QED
  BY <1>1, <1>2 DEF Holder

(* The same after a step. *)
LEMMA OwnerHoldsNext ==
  ASSUME OneToken', NEW t \in Threads, pc'[t] = "owner"
  PROVE  Holder' = t
<1>1. \A u \in Threads : pc'[u] = "owner" => u = t
  BY DEF OneToken, At
<1>2. At("owner")' # {}
  BY DEF At
<1>3. QED
  BY <1>1, <1>2 DEF Holder

(* Seen from outside, each step is one of the lock's or none. *)
LEMMA StepOfLock ==
  ASSUME IInv, IInv', [Next]_semVars
  PROVE  [Lock!LockNext]_<<Holder, At("waiting")>>
<1> USE DEF IInv
<1>1. ASSUME NEW t \in Threads, CaptureFast(t) PROVE Lock!Acquire(t)
  <2>1. Holder = None /\ t \notin At("waiting")
    BY <1>1 DEF CaptureFast, SemTypeOK, OneToken, Holder, At
  <2>2. Holder' = t
    BY <1>1, OwnerHoldsNext DEF CaptureFast, SemTypeOK
  <2>3. At("waiting")' = At("waiting") \ {t}
    BY <1>1, <2>1 DEF CaptureFast, SemTypeOK, At
  <2>4. QED
    BY <2>1, <2>2, <2>3 DEF Lock!Acquire, Holder
<1>2. ASSUME NEW t \in Threads, CaptureSlow(t) PROVE Lock!Ask(t)
  <2>1. t \notin At("waiting") /\ Holder # t
    BY <1>2, NoneAssumption DEF CaptureSlow, Holder, At
  <2>2. At("waiting")' = At("waiting") \union {t}
    BY <1>2 DEF CaptureSlow, SemTypeOK, At
  <2>3. At("owner")' = At("owner") /\ \A u \in Threads : pc'[u] = "owner" <=> pc[u] = "owner"
    BY <1>2 DEF CaptureSlow, SemTypeOK, At
  <2>4. Holder' = Holder
    <3>1. CASE At("owner") = {}
      BY <3>1, <2>3 DEF Holder
    <3>2. CASE At("owner") # {}
      BY <3>2, <2>3, OwnerHolds, OwnerHoldsNext DEF At
    <3>3. QED
      BY <3>1, <3>2
  <2>5. QED
    BY <2>1, <2>2, <2>4 DEF Lock!Ask, Holder
<1>3. ASSUME NEW t \in Threads, CaptureWait(t) PROVE Lock!Acquire(t)
  <2>1. Holder = None
    BY <1>3 DEF CaptureWait, SemTypeOK, OneToken, Holder, At
  <2>2. Holder' = t
    BY <1>3, OwnerHoldsNext DEF CaptureWait, SemTypeOK
  <2>3. At("waiting")' = At("waiting") \ {t}
    BY <1>3 DEF CaptureWait, SemTypeOK, At
  <2>4. QED
    BY <2>1, <2>2, <2>3 DEF Lock!Acquire, Holder
<1>4. ASSUME NEW t \in Threads, Release(t) PROVE Lock!Leave(t)
  <2>1. Holder = t
    BY <1>4, OwnerHolds DEF Release
  <2>2. At("owner")' = {}
    BY <1>4 DEF Release, ReleaseFast, ReleaseSlow, SemTypeOK, OneToken, At
  <2>3. At("waiting")' = At("waiting")
    BY <1>4 DEF Release, ReleaseFast, ReleaseSlow, SemTypeOK, At
  <2>4. QED
    BY <2>1, <2>2, <2>3 DEF Lock!Leave, Holder
<1>5. ASSUME NEW t \in Threads, ReleasePost(t) PROVE UNCHANGED <<Holder, At("waiting")>>
  <2>1. At("owner")' = At("owner") /\ At("waiting")' = At("waiting")
    BY <1>5 DEF ReleasePost, SemTypeOK, At
  <2>2. Holder' = Holder
    <3>1. CASE At("owner") = {}
      BY <3>1, <2>1 DEF Holder
    <3>2. CASE At("owner") # {}
      BY <3>2, <2>1, OwnerHolds, OwnerHoldsNext DEF At
    <3>3. QED
      BY <3>1, <3>2
  <2>3. QED
    BY <2>1, <2>2
<1>6. CASE UNCHANGED semVars
  BY <1>6 DEF semVars, Holder, At
<1>7. QED
  BY <1>1, <1>2, <1>3, <1>4, <1>5, <1>6 DEF Next, Step, Capture, Lock!LockNext

(* GLOBALSEM is the lock of the CAPTURE / RELEASE macros: every history of *)
(* interlocked instructions and kernel calls is one of the abstract lock,  *)
(* its liveness left to model checking.                                    *)
THEOREM ImplementsLockSafety == Spec => Lock!LockSafety
<1>1. InitSem => Lock!LockInit
  BY DEF InitSem, Lock!LockInit, At
<1>2. IInv /\ IInv' /\ [Next]_semVars => [Lock!LockNext]_Lock!lockVars
  BY StepOfLock DEF Lock!lockVars, Holder
<1>3. QED
  BY InitIInv, StepIInv, <1>1, <1>2, PTL DEF Spec, Lock!LockSafety

------------------------------------------------------------------------------
(* The table of released blocks.                                           *)


(* Where a thread is in the functions tells where it is in the lock. *)
Control ==
  \A t \in Threads :
    /\ at[t] \in {"none", "take", "taken", "store", "stored", "full"} => pc[t] = "owner"
    /\ at[t] \in {"get", "release"} => pc[t] \in {"waiting", "owner"}
    /\ at[t] \in {"idle", "sbrk", "return", "free"} => pc[t] \in {"idle", "posting"}

(* What a thread has read of PHYS_TABLE_ENTRIES is still so when it writes. *)
Fresh ==
  \A t \in Threads :
    /\ at[t] = "take" => reg[t] = entries /\ entries > 0
    /\ at[t] = "store" => reg[t] = entries /\ entries < PHYS_TABLE_MAX

(* A thread has a block in its hands between the table or Windows and its  *)
(* caller, and at no other time.                                           *)
Hands ==
  \A t \in Threads :
    blk[t] # None <=> at[t] \in {"taken", "return", "release", "store", "full", "free"}

(* BlocksAccounted is not inductive alone: that the slots are still those  *)
(* that were counted rests on the lock.                                    *)
CInv == IInv /\ CacheTypeOK /\ Control /\ Fresh /\ Hands /\ BlocksAccounted

(* Initially nothing is mapped, cached or carried. *)
LEMMA InitCInv == CacheInit => CInv
<1> SUFFICES ASSUME CacheInit PROVE CInv
  OBVIOUS
<1>1. IInv
  BY InitIInv DEF CacheInit
<1>2. CacheTypeOK
  <2>1. entries \in 0 .. PHYS_TABLE_MAX /\ reg \in [Threads -> 0 .. PHYS_TABLE_MAX]
    BY BlockCacheAssumption DEF CacheInit
  <2>2. at \in [Threads -> Places]
    BY DEF CacheInit, Places
  <2>3. table \in [Slots -> Blocks \union {None}] /\ blk \in [Threads -> Blocks \union {None}]
    BY DEF CacheInit
  <2>4. mapped \subseteq Blocks /\ holder \in [Blocks -> Threads \union {None}]
    BY DEF CacheInit
  <2>5. oom \in BOOLEAN
    BY DEF CacheInit
  <2>6. QED
    BY <2>1, <2>2, <2>3, <2>4, <2>5 DEF CacheTypeOK
<1>2a. Control /\ Fresh /\ Hands
  BY DEF CacheInit, InitSem, Control, Fresh, Hands
<1>3. BlocksAccounted
  BY BlockCacheAssumption DEF CacheInit, BlocksAccounted, Cached, Carried
<1>4. QED
  BY <1>1, <1>2, <1>2a, <1>3 DEF CInv

(* The two functions use the semaphore as the lock it is. *)
LEMMA StepsOfLock == CacheTypeOK /\ [CacheNext]_allVars => [Next]_semVars
<1> SUFFICES ASSUME CacheTypeOK, CacheNext PROVE [Next]_semVars
  BY DEF allVars, semVars
<1>1. PICK t \in Threads :
        CallGet(t) \/ CallRelease(t) \/ Granted(t) \/ Inner(t)
  BY DEF CacheNext
<1>2. CASE CallGet(t) \/ CallRelease(t) \/ Granted(t)
  BY <1>2 DEF CallGet, CallRelease, Granted, Next, Step
<1>3. CASE Inner(t)
  BY <1>3 DEF Inner, ReadEntries, TakeFirst, ReleaseTaken, Return, ReleaseNone, Sbrk, OomError,
              ReadRoom, Store, ReleaseStored, ReleaseFull, Free, Signal, Next, Step
<1>4. QED
  BY <1>1, <1>2, <1>3

(* What the lock gives: no two threads are in the critical section.        *)
LEMMA Alone ==
  ASSUME OneToken, NEW t \in Threads, NEW u \in Threads, pc[t] = "owner", pc[u] = "owner"
  PROVE  t = u
BY DEF OneToken, At

(* Steps that only move a thread through the lock leave the blocks alone.  *)
LEMMA LockSteps ==
  ASSUME CInv, NEW t \in Threads,
         CallGet(t) \/ Granted(t) \/ Signal(t) \/ ReleaseTaken(t) \/ ReleaseNone(t)
           \/ ReleaseStored(t) \/ ReleaseFull(t)
  PROVE  CacheTypeOK' /\ Control' /\ Fresh' /\ Hands' /\ BlocksAccounted'
<1> USE DEF CInv, IInv
<1>1. UNCHANGED <<entries, table, mapped, holder, reg, blk, oom>>
  BY DEF CallGet, Granted, Signal, ReleaseTaken, ReleaseNone, ReleaseStored, ReleaseFull, cacheVars
<1>2. BlocksAccounted'
  BY <1>1 DEF BlocksAccounted, Cached, Carried
<1>3. at' = at \/ \E l \in Places : Goto(t, l)
  BY DEF CallGet, Granted, Signal, ReleaseTaken, ReleaseNone, ReleaseStored, ReleaseFull, cacheVars,
         Places
<1>4. CacheTypeOK'
  BY <1>1, <1>3 DEF CacheTypeOK, Goto
<1>5. Control'
  BY DEF CallGet, Granted, Signal, ReleaseTaken, ReleaseNone, ReleaseStored, ReleaseFull, cacheVars,
         Goto, Control, CacheTypeOK, SemTypeOK, Capture, CaptureFast, CaptureSlow, CaptureWait,
         Release, ReleaseFast, ReleaseSlow, ReleasePost
<1>6. Fresh' /\ Hands'
  BY <1>1 DEF CallGet, Granted, Signal, ReleaseTaken, ReleaseNone, ReleaseStored, ReleaseFull,
     cacheVars, Goto, Fresh, Hands, CacheTypeOK
<1>7. QED
  BY <1>2, <1>4, <1>5, <1>6

(* Reading the count of the table is harmless, and what was read holds     *)
(* until the thread writes: it alone is inside.                            *)
LEMMA ReadSteps ==
  ASSUME CInv, NEW t \in Threads, ReadEntries(t) \/ ReadRoom(t)
  PROVE  CacheTypeOK' /\ Control' /\ Fresh' /\ Hands' /\ BlocksAccounted'
<1> USE DEF CInv, IInv
<1>1. UNCHANGED <<semVars, entries, table, mapped, holder, blk, oom>>
  BY DEF ReadEntries, ReadRoom
<1>2. BlocksAccounted'
  BY <1>1 DEF BlocksAccounted, Cached, Carried
<1>3. CacheTypeOK'
  BY <1>1 DEF ReadEntries, ReadRoom, Goto, CacheTypeOK, Places
<1>4. Control'
  BY <1>1 DEF ReadEntries, ReadRoom, Goto, Holding, Control, CacheTypeOK, semVars
<1>5. /\ at'[t] = "take" => reg'[t] = entries' /\ entries' > 0
      /\ at'[t] = "store" => reg'[t] = entries' /\ entries' < PHYS_TABLE_MAX
  <2>1. entries \in 0 .. PHYS_TABLE_MAX /\ entries' = entries
    BY <1>1 DEF CacheTypeOK
  <2>2. CASE ReadEntries(t)
    BY <2>1, <2>2, BlockCacheAssumption DEF ReadEntries, Goto, CacheTypeOK
  <2>3. CASE ReadRoom(t)
    BY <2>1, <2>3, BlockCacheAssumption DEF ReadRoom, Full, Goto, CacheTypeOK
  <2>4. QED
    BY <2>2, <2>3
<1>6. Fresh'
  <2>1. ASSUME NEW u \in Threads, u # t
        PROVE  /\ at'[u] = "take" => reg'[u] = entries' /\ entries' > 0
               /\ at'[u] = "store" => reg'[u] = entries' /\ entries' < PHYS_TABLE_MAX
    <3>1. at'[u] = at[u] /\ reg'[u] = reg[u] /\ entries' = entries
      BY <2>1 DEF ReadEntries, ReadRoom, Goto, CacheTypeOK
    <3>2. /\ at[u] = "take" => reg[u] = entries /\ entries > 0
          /\ at[u] = "store" => reg[u] = entries /\ entries < PHYS_TABLE_MAX
      BY DEF Fresh
    <3>3. QED
      BY <3>1, <3>2
  <2>2. QED
    BY <1>5, <2>1 DEF Fresh
<1>7. Hands'
  BY <1>1 DEF ReadEntries, ReadRoom, Goto, Holding, Hands, CacheTypeOK
<1>8. QED
  BY <1>2, <1>3, <1>4, <1>6, <1>7

(* The first block of the table goes into the hands of the only thread     *)
(* that is inside; the others move up and stay distinct.                   *)
LEMMA TakeStep ==
  ASSUME CInv, NEW t \in Threads, TakeFirst(t)
  PROVE  CacheTypeOK' /\ Control' /\ Fresh' /\ Hands' /\ BlocksAccounted'
<1> USE DEF CInv, IInv
<1>1. at[t] = "take" /\ pc[t] = "owner" /\ reg[t] = entries /\ entries > 0
      /\ entries \in 1 .. PHYS_TABLE_MAX /\ blk[t] = None
  BY DEF TakeFirst, Holding, Fresh, Hands, CacheTypeOK
<1>2. entries' = entries - 1 /\ table' = Shifted(entries - 1)
  BY <1>1 DEF TakeFirst
<1>3. \A i \in 0 .. entries' - 1 : table'[i] = table[i + 1]
  BY <1>1, <1>2, BlockCacheAssumption DEF Shifted, Slots
<1>4. table[0] \in Blocks
  BY <1>1, BlockCacheAssumption DEF BlocksAccounted, Cached, CacheTypeOK, Slots
<1>5. blk' = [blk EXCEPT ![t] = table[0]] /\ UNCHANGED <<semVars, mapped, holder, reg, oom>>
  BY DEF TakeFirst
<1>6. CacheTypeOK'
  BY <1>1, <1>2, <1>4, <1>5, BlockCacheAssumption
  DEF TakeFirst, Goto, CacheTypeOK, Places, Shifted, Slots
<1>7. Control'
  BY <1>1, <1>5 DEF TakeFirst, Goto, Control, CacheTypeOK, semVars
<1>8. Fresh'
  <2>1. ASSUME NEW u \in Threads, u # t PROVE at'[u] \notin {"take", "store"}
    BY <1>1, <2>1, Alone DEF TakeFirst, Goto, Control, CacheTypeOK
  <2>2. at'[t] = "taken"
    BY <1>1 DEF TakeFirst, Goto, CacheTypeOK
  <2>3. QED
    BY <2>1, <2>2 DEF Fresh
<1>9. Hands'
  BY <1>4, <1>5, BlockCacheAssumption DEF TakeFirst, Goto, Hands, CacheTypeOK
<1>10. \A b \in Blocks : Cached(b)' <=> Cached(b) /\ b # table[0]
  <2>1. ASSUME NEW b \in Blocks, Cached(b)' PROVE Cached(b) /\ b # table[0]
    <3>1. PICK i \in 0 .. entries' - 1 : table'[i] = b
      BY <2>1 DEF Cached
    <3>2. table[i + 1] = b /\ i + 1 \in 0 .. entries - 1 /\ 0 \in 0 .. entries - 1 /\ i + 1 # 0
      BY <1>1, <1>2, <1>3, <3>1
    <3>3. QED
      BY <3>2 DEF Cached, BlocksAccounted
  <2>2. ASSUME NEW b \in Blocks, Cached(b), b # table[0] PROVE Cached(b)'
    <3>1. PICK i \in 0 .. entries - 1 : table[i] = b
      BY <2>2 DEF Cached
    <3>2. i - 1 \in 0 .. entries' - 1 /\ table'[i - 1] = b
      BY <1>1, <1>2, <1>3, <2>2, <3>1
    <3>3. QED
      BY <3>2 DEF Cached
  <2>3. QED
    BY <2>1, <2>2
<1>11. \A b \in Blocks : Carried(b)' <=> Carried(b) \/ b = table[0]
  BY <1>1, <1>4, <1>5, BlockCacheAssumption DEF Carried, CacheTypeOK
<1>12. Cached(table[0])
  BY <1>1 DEF Cached
<1>13. BlocksAccounted'
  <2>1. \A i, j \in 0 .. entries' - 1 : table'[i] = table'[j] => i = j
    BY <1>1, <1>2, <1>3 DEF BlocksAccounted
  <2>2. \A u, v \in Threads : blk'[u] = blk'[v] /\ blk'[u] # None => u = v
    BY <1>4, <1>5, <1>12 DEF BlocksAccounted, Carried, CacheTypeOK
  <2>3. ~Cached(None)'
    BY <1>1, <1>2, <1>3 DEF BlocksAccounted, Cached
  <2>4. ASSUME NEW b \in Blocks
        PROVE  /\ b \in mapped' <=> holder'[b] # None \/ Cached(b)' \/ Carried(b)'
               /\ holder'[b] # None => ~Cached(b)' /\ ~Carried(b)'
               /\ Cached(b)' => ~Carried(b)'
    BY <1>4, <1>5, <1>10, <1>11, <1>12 DEF BlocksAccounted
  <2>5. QED
    BY <2>1, <2>2, <2>3, <2>4 DEF BlocksAccounted
<1>14. QED
  BY <1>6, <1>7, <1>8, <1>9, <1>13

(* The block that is given back takes the first free slot. *)
LEMMA StoreStep ==
  ASSUME CInv, NEW t \in Threads, Store(t)
  PROVE  CacheTypeOK' /\ Control' /\ Fresh' /\ Hands' /\ BlocksAccounted'
<1> USE DEF CInv, IInv
<1>1. at[t] = "store" /\ pc[t] = "owner" /\ reg[t] = entries /\ entries < PHYS_TABLE_MAX
      /\ entries \in Slots
  BY BlockCacheAssumption DEF Store, Holding, Fresh, CacheTypeOK, Slots
<1>2. entries' = entries + 1 /\ table' = [table EXCEPT ![entries] = blk[t]]
      /\ blk' = [blk EXCEPT ![t] = None] /\ UNCHANGED <<semVars, mapped, holder, reg, oom>>
  BY <1>1 DEF Store, Counted
<1>3. blk[t] \in Blocks
  BY <1>1 DEF Hands, CacheTypeOK
<1>4. CacheTypeOK'
  BY <1>1, <1>2, <1>3, BlockCacheAssumption DEF Store, Goto, CacheTypeOK, Places, Slots
<1>5. Control'
  BY <1>1, <1>2 DEF Store, Goto, Control, CacheTypeOK, semVars
<1>6. Fresh'
  <2>1. ASSUME NEW u \in Threads, u # t PROVE at'[u] \notin {"take", "store"}
    BY <1>1, <2>1, Alone DEF Store, Goto, Control, CacheTypeOK
  <2>2. at'[t] = "stored"
    BY <1>1 DEF Store, Goto, CacheTypeOK
  <2>3. QED
    BY <2>1, <2>2 DEF Fresh
<1>7. Hands'
  BY <1>2 DEF Store, Goto, Hands, CacheTypeOK
<1>8. \A i \in 0 .. entries' - 1 :
        table'[i] = IF i = entries THEN blk[t] ELSE table[i]
  BY <1>1, <1>2, BlockCacheAssumption DEF CacheTypeOK, Slots
<1>9. \A b \in Blocks : Cached(b)' <=> Cached(b) \/ b = blk[t]
  BY <1>1, <1>2, <1>8 DEF Cached, Slots
<1>10. \A b \in Blocks : Carried(b)' <=> Carried(b) /\ b # blk[t]
  BY <1>2, <1>3, BlockCacheAssumption DEF Carried, BlocksAccounted, CacheTypeOK
<1>11. Carried(blk[t])
  BY DEF Carried
<1>12. BlocksAccounted'
  <2>1. ASSUME NEW i \in 0 .. entries' - 1, NEW j \in 0 .. entries' - 1, table'[i] = table'[j]
        PROVE  i = j
    <3>1. \A k \in 0 .. entries - 1 : table[k] # blk[t]
      BY <1>3, <1>11 DEF BlocksAccounted, Cached
    <3>2. QED
      BY <1>1, <1>2, <1>8, <2>1, <3>1 DEF BlocksAccounted, Slots
  <2>2. \A u, v \in Threads : blk'[u] = blk'[v] /\ blk'[u] # None => u = v
    BY <1>2 DEF BlocksAccounted, CacheTypeOK
  <2>3. ~Cached(None)'
    BY <1>1, <1>2, <1>3, <1>8, BlockCacheAssumption DEF BlocksAccounted, Cached, Slots
  <2>4. ASSUME NEW b \in Blocks
        PROVE  /\ b \in mapped' <=> holder'[b] # None \/ Cached(b)' \/ Carried(b)'
               /\ holder'[b] # None => ~Cached(b)' /\ ~Carried(b)'
               /\ Cached(b)' => ~Carried(b)'
    BY <1>2, <1>3, <1>9, <1>10, <1>11 DEF BlocksAccounted
  <2>5. QED
    BY <2>1, <2>2, <2>3, <2>4 DEF BlocksAccounted
<1>13. QED
  BY <1>4, <1>5, <1>6, <1>7, <1>12

(* Outside of the lock a block passes between a thread, its hands and      *)
(* Windows.                                                                *)
LEMMA HandSteps ==
  ASSUME CInv, NEW t \in Threads,
         Return(t) \/ Sbrk(t) \/ OomError(t) \/ CallRelease(t) \/ Free(t)
  PROVE  CacheTypeOK' /\ Control' /\ Fresh' /\ Hands' /\ BlocksAccounted'
<1> USE DEF CInv, IInv
<1>1. UNCHANGED <<entries, table, reg>> /\ \A b : Cached(b)' <=> Cached(b)
  BY DEF Return, Sbrk, OomError, CallRelease, Free, Cached
<1>2. CASE Return(t)
  <2>1. blk[t] \in Blocks /\ at[t] = "return"
    BY <1>2 DEF Return, Past, Hands, CacheTypeOK
  <2>2. CacheTypeOK' /\ Control' /\ Fresh'
    BY <1>2, <2>1 DEF Return, Goto, Past, CacheTypeOK, Control, Fresh, Places, semVars
  <2>3. Hands'
    BY <1>2, <2>1 DEF Return, Goto, Hands, CacheTypeOK
  <2>4. \A b \in Blocks : Carried(b)' <=> Carried(b) /\ b # blk[t]
    BY <1>2, <2>1, BlockCacheAssumption DEF Return, Carried, BlocksAccounted, CacheTypeOK
  <2>5. Carried(blk[t]) /\ t # None
    BY NoneAssumption DEF Carried
  <2>6. BlocksAccounted'
    BY <1>1, <1>2, <2>1, <2>4, <2>5 DEF Return, BlocksAccounted, CacheTypeOK
  <2>7. QED
    BY <2>2, <2>3, <2>6
<1>3. CASE Sbrk(t)
  <2>1. PICK b \in Blocks \ mapped :
          mapped' = mapped \union {b} /\ holder' = [holder EXCEPT ![b] = t]
    BY <1>3 DEF Sbrk
  <2>2. CacheTypeOK' /\ Control' /\ Fresh'
    BY <1>3, <2>1 DEF Sbrk, Goto, Past, CacheTypeOK, Control, Fresh, Places, semVars
  <2>3. Hands'
    BY <1>3 DEF Sbrk, Goto, Past, Hands, CacheTypeOK
  <2>4. \A c : Carried(c)' <=> Carried(c)
    BY <1>3 DEF Sbrk, Carried
  <2>5. BlocksAccounted'
    BY <1>1, <1>3, <2>1, <2>4, NoneAssumption DEF Sbrk, BlocksAccounted, CacheTypeOK
  <2>6. QED
    BY <2>2, <2>3, <2>5
<1>4. CASE OomError(t)
  BY <1>1, <1>4 DEF OomError, CacheTypeOK, Control, Fresh, Hands, BlocksAccounted, Carried, semVars
<1>5. CASE CallRelease(t)
  <2>1. PICK b \in Blocks : /\ holder[b] # None
                            /\ holder' = [holder EXCEPT ![b] = None]
                            /\ blk' = [blk EXCEPT ![t] = b]
    BY <1>5 DEF CallRelease
  <2>2. CacheTypeOK' /\ Fresh'
    BY <1>5, <2>1 DEF CallRelease, Goto, CacheTypeOK, Fresh, Places
  <2>3. Control'
    BY <1>5 DEF CallRelease, Goto, CacheTypeOK, Control, Capture, CaptureFast, CaptureSlow, SemTypeOK
  <2>4. Hands'
    BY <1>5, <2>1, BlockCacheAssumption DEF CallRelease, Goto, Hands, CacheTypeOK
  <2>5. blk[t] = None
    BY <1>5 DEF CallRelease, Hands
  <2>6. \A c \in Blocks : Carried(c)' <=> Carried(c) \/ c = b
    BY <2>1, <2>5, BlockCacheAssumption DEF Carried, CacheTypeOK
  <2>7. ~Carried(b) /\ ~Cached(b) /\ b \in mapped
    BY <2>1 DEF BlocksAccounted
  <2>8. BlocksAccounted'
    <3>1. \A u, v \in Threads : blk'[u] = blk'[v] /\ blk'[u] # None => u = v
      BY <2>1, <2>7 DEF BlocksAccounted, Carried, CacheTypeOK
    <3>2. QED
      BY <1>1, <1>5, <2>1, <2>6, <2>7, <3>1 DEF CallRelease, BlocksAccounted, CacheTypeOK
  <2>9. QED
    BY <2>2, <2>3, <2>4, <2>8
<1>6. CASE Free(t)
  <2>1. blk[t] \in Blocks
    BY <1>6 DEF Free, Past, Hands, CacheTypeOK
  <2>2. CacheTypeOK' /\ Control' /\ Fresh'
    BY <1>6 DEF Free, Goto, Past, CacheTypeOK, Control, Fresh, Places, semVars
  <2>3. Hands'
    BY <1>6 DEF Free, Goto, Hands, CacheTypeOK
  <2>4. \A b \in Blocks : Carried(b)' <=> Carried(b) /\ b # blk[t]
    BY <1>6, <2>1, BlockCacheAssumption DEF Free, Carried, BlocksAccounted, CacheTypeOK
  <2>5. Carried(blk[t])
    BY DEF Carried
  <2>6. BlocksAccounted'
    BY <1>1, <1>6, <2>1, <2>4, <2>5 DEF Free, BlocksAccounted, CacheTypeOK
  <2>7. QED
    BY <2>2, <2>3, <2>6
<1>7. QED
  BY <1>2, <1>3, <1>4, <1>5, <1>6

(* Every step of every thread keeps the invariant. *)
LEMMA StepCInv == CInv /\ [CacheNext]_allVars => CInv'
<1> SUFFICES ASSUME CInv, [CacheNext]_allVars PROVE CInv'
  OBVIOUS
<1>1. IInv'
  BY StepsOfLock, StepIInv DEF CInv
<1>2. CASE CacheNext
  <2>1. PICK t \in Threads : CallGet(t) \/ CallRelease(t) \/ Granted(t) \/ Inner(t)
    BY <1>2 DEF CacheNext
  <2>2. CacheTypeOK' /\ Control' /\ Fresh' /\ Hands' /\ BlocksAccounted'
    BY <2>1, LockSteps, ReadSteps, TakeStep, StoreStep, HandSteps DEF Inner
  <2>3. QED
    BY <1>1, <2>2 DEF CInv
<1>3. CASE UNCHANGED allVars
  BY <1>1, <1>3 DEF allVars, cacheVars, semVars, CInv, CacheTypeOK, Control, Fresh, Hands,
                    BlocksAccounted, Cached, Carried
<1>4. QED
  BY <1>2, <1>3

(* The table of released blocks never overflows, and no register holds a   *)
(* count that it could not have.                                           *)
THEOREM CacheTypeCorrect == CacheSpec => []CacheTypeOK
<1>1. CInv => CacheTypeOK
  BY DEF CInv
<1>2. QED
  BY InitCInv, StepCInv, <1>1, PTL DEF CacheSpec

(* No block is lost, kept after it went back to Windows, or in two places. *)
THEOREM CacheSound == CacheSpec => []BlocksAccounted
<1>1. CInv => BlocksAccounted
  BY DEF CInv
<1>2. QED
  BY InitCInv, StepCInv, <1>1, PTL DEF CacheSpec

(* _get_new_phys_blk and _release_block together are a heap: what one      *)
(* thread gets is in nobody else's use.                                    *)
THEOREM CacheIsHeap == CacheSpec => ImplementsHeap
<1>1. CacheInit => Heap!HeapInit
  BY DEF CacheInit, Heap!HeapInit
<1>2. CInv /\ [CacheNext]_allVars => [Heap!HeapNext]_holder
  <2> SUFFICES ASSUME CInv, CacheNext, holder' # holder PROVE Heap!HeapNext
    BY DEF allVars, cacheVars
  <2>1. PICK t \in Threads : CallRelease(t) \/ Return(t) \/ Sbrk(t)
    BY DEF CacheNext, Inner, CallGet, Granted, Signal, ReadEntries, TakeFirst, ReleaseTaken,
           ReleaseNone, OomError, ReadRoom, Store, ReleaseStored, ReleaseFull, Free, cacheVars
  <2>2. CASE CallRelease(t)
    BY <2>2 DEF CallRelease, Heap!HeapNext, Heap!Put
  <2>3. CASE Return(t)
    <3>1. blk[t] \in Blocks
      BY <2>3 DEF Return, Past, CInv, Hands, CacheTypeOK
    <3>2. holder[blk[t]] = None
      BY <3>1 DEF CInv, BlocksAccounted, Carried
    <3>3. QED
      BY <2>3, <3>1, <3>2 DEF Return, Heap!HeapNext, Heap!Get
  <2>4. CASE Sbrk(t)
    <3>1. PICK b \in Blocks \ mapped : holder' = [holder EXCEPT ![b] = t]
      BY <2>4 DEF Sbrk
    <3>2. holder[b] = None
      BY <3>1 DEF CInv, BlocksAccounted
    <3>3. QED
      BY <3>1, <3>2 DEF Heap!HeapNext, Heap!Get
  <2>5. QED
    BY <2>1, <2>2, <2>3, <2>4
<1>3. QED
  BY InitCInv, StepCInv, <1>1, <1>2, PTL DEF CacheSpec, ImplementsHeap, Heap!HeapSpec

------------------------------------------------------------------------------
(* The counting semaphore (StreamSem).                                     *)

StreamTypeOK ==
  /\ SemTypeOK
  /\ given \in Nat
  /\ pc[Consumer] # "posting"
  /\ \A p \in Producers : pc[p] \in {"idle", "posting"}

(* Nobody is owed a signal. *)
NoSignal == kernel = 0 /\ At("posting") = {}

(* One signal is at the kernel object or on its way there, from the thread *)
(* that took the counter back to zero; others that release while it is on  *)
(* its way find the counter at zero or less and do not post.               *)
OneSignal ==
  \/ kernel = 1 /\ At("posting") = {}
  \/ kernel = 0 /\ \E p \in Producers : At("posting") = {p}

(* A signal is owed only to a consumer that waits and has been released.   *)
OwedToSleeper ==
  \/ pc[Consumer] # "waiting" /\ counter <= 0 /\ NoSignal
  \/ pc[Consumer] = "waiting" /\ counter = 1 /\ NoSignal
  \/ pc[Consumer] = "waiting" /\ counter <= 0 /\ OneSignal

SInv == StreamTypeOK /\ OwedToSleeper

-----------------------------------------------------------------------------
LEMMA InitSInv == StreamInit => SInv
<1> SUFFICES ASSUME StreamInit PROVE SInv
  OBVIOUS
<1>1. StreamTypeOK
  BY StreamAssumption DEF StreamInit, StreamTypeOK, SemTypeOK, Locations, Producers
<1>2. At("posting") = {} /\ kernel = 0 /\ counter <= 0 /\ pc[Consumer] # "waiting"
  BY StreamAssumption DEF StreamInit, At
<1> QED
  BY <1>1, <1>2 DEF SInv, OwedToSleeper, NoSignal

LEMMA ReleaseSInv ==
  ASSUME SInv, NEW p \in Producers, Give(p)
  PROVE  SInv'
<1>0. p \in Threads /\ p # Consumer /\ Consumer \in Threads /\ pc[p] = "idle" /\ counter \in Int
  BY StreamAssumption DEF Give, Producers, SInv, StreamTypeOK, SemTypeOK
<1>1. CASE ReleaseFast(p)
  <2>1. counter' = counter - 1 /\ counter <= 0 /\ kernel' = kernel /\ pc' = pc /\ given' = given + 1
    BY <1>0, <1>1 DEF Give, ReleaseFast, SInv, StreamTypeOK, SemTypeOK
  <2>2. StreamTypeOK'
    BY <1>0, <2>1 DEF SInv, StreamTypeOK, SemTypeOK
  <2>3. OwedToSleeper'
    BY <1>0, <2>1 DEF SInv, OwedToSleeper, NoSignal, OneSignal, At
  <2> QED
    BY <2>2, <2>3 DEF SInv
<1>2. CASE ReleaseSlow(p)
  <2>1. /\ counter' = counter - 1 /\ counter >= 1 /\ kernel' = kernel
        /\ pc' = [pc EXCEPT ![p] = "posting"] /\ given' = given + 1
    BY <1>0, <1>2 DEF Give, ReleaseSlow
  <2>2. StreamTypeOK'
    BY <1>0, <2>1 DEF SInv, StreamTypeOK, SemTypeOK, Locations, Producers
  <2>3. pc[Consumer] = "waiting" /\ counter = 1 /\ NoSignal
    BY <1>0, <2>1 DEF SInv, OwedToSleeper
  <2>4. At("posting")' = {p}
    BY <1>0, <2>1, <2>3 DEF NoSignal, At, SInv, StreamTypeOK, SemTypeOK
  <2>5. pc'[Consumer] = "waiting" /\ counter' = 0 /\ kernel' = 0
    BY <1>0, <2>1, <2>3 DEF NoSignal, SInv, StreamTypeOK, SemTypeOK
  <2> QED
    BY <2>2, <2>4, <2>5 DEF SInv, OwedToSleeper, OneSignal
<1> QED
  BY <1>1, <1>2 DEF Give

LEMMA PostSInv ==
  ASSUME SInv, NEW p \in Producers, Post(p)
  PROVE  SInv' /\ At("posting") = {p} /\ kernel = 0 /\ kernel' = 1 /\ At("posting")' = {}
<1>1. /\ p \in Threads /\ p # Consumer /\ Consumer \in Threads
      /\ pc[p] = "posting" /\ p \in At("posting")
  BY StreamAssumption DEF Post, ReleasePost, Producers, At
<1>2. pc[Consumer] = "waiting" /\ counter <= 0 /\ kernel = 0 /\ At("posting") = {p}
  BY <1>1 DEF SInv, OwedToSleeper, NoSignal, OneSignal
<1>3. kernel' = 1 /\ pc' = [pc EXCEPT ![p] = "idle"] /\ counter' = counter /\ given' = given
  BY <1>2 DEF Post, ReleasePost
<1>4. StreamTypeOK'
  BY <1>1, <1>3 DEF SInv, StreamTypeOK, SemTypeOK, Locations, Producers
<1>5. At("posting")' = {}
  BY <1>1, <1>2, <1>3 DEF At, SInv, StreamTypeOK, SemTypeOK
<1>6. pc'[Consumer] = "waiting"
  BY <1>1, <1>2, <1>3 DEF SInv, StreamTypeOK, SemTypeOK
<1> QED
  BY <1>2, <1>3, <1>4, <1>5, <1>6 DEF SInv, OwedToSleeper, OneSignal

(* What the consumer does leaves the producers where they are. *)
LEMMA ConsumerMoves ==
  ASSUME SInv, NEW loc \in Locations \ {"posting"}, pc' = [pc EXCEPT ![Consumer] = loc]
  PROVE  /\ pc'[Consumer] = loc /\ pc' \in [Threads -> Locations]
         /\ \A p \in Producers : pc'[p] = pc[p]
         /\ At("posting")' = At("posting")
<1> QED
  BY StreamAssumption DEF SInv, StreamTypeOK, SemTypeOK, Producers, At, Locations

LEMMA ConsumerSInv ==
  ASSUME SInv, Take \/ Wait \/ Use
  PROVE  SInv'
<1>0. counter \in Int /\ given' = given
  BY DEF SInv, StreamTypeOK, SemTypeOK, Take, Wait, Use
<1>1. CASE CaptureFast(Consumer)
  <2>1. counter' = counter + 1 /\ counter' <= 0 /\ kernel' = kernel /\ pc' = [pc EXCEPT ![Consumer] = "owner"]
        /\ pc[Consumer] = "idle"
    BY <1>1 DEF CaptureFast
  <2>2. pc'[Consumer] = "owner" /\ pc' \in [Threads -> Locations] /\ At("posting")' = At("posting")
        /\ \A p \in Producers : pc'[p] = pc[p]
    BY <2>1, ConsumerMoves DEF Locations
  <2> QED
    BY <1>0, <2>1, <2>2 DEF SInv, StreamTypeOK, SemTypeOK, OwedToSleeper, NoSignal
<1>2. CASE CaptureSlow(Consumer)
  <2>1. counter' = counter + 1 /\ counter' > 0 /\ kernel' = kernel /\ pc' = [pc EXCEPT ![Consumer] = "waiting"]
        /\ pc[Consumer] = "idle"
    BY <1>2 DEF CaptureSlow
  <2>2. pc'[Consumer] = "waiting" /\ pc' \in [Threads -> Locations] /\ At("posting")' = At("posting")
        /\ \A p \in Producers : pc'[p] = pc[p]
    BY <2>1, ConsumerMoves DEF Locations
  <2> QED
    BY <1>0, <2>1, <2>2 DEF SInv, StreamTypeOK, SemTypeOK, OwedToSleeper, NoSignal
<1>3. CASE Wait
  <2>1. counter' = counter /\ kernel > 0 /\ kernel' = kernel - 1 /\ pc' = [pc EXCEPT ![Consumer] = "owner"]
        /\ pc[Consumer] = "waiting"
    BY <1>3 DEF Wait, CaptureWait
  <2>2. pc'[Consumer] = "owner" /\ pc' \in [Threads -> Locations] /\ At("posting")' = At("posting")
        /\ \A p \in Producers : pc'[p] = pc[p]
    BY <2>1, ConsumerMoves DEF Locations
  <2>3. counter <= 0 /\ kernel = 1 /\ At("posting") = {}
    BY <2>1 DEF SInv, OwedToSleeper, NoSignal, OneSignal
  <2> QED
    BY <1>0, <2>1, <2>2, <2>3 DEF SInv, StreamTypeOK, SemTypeOK, OwedToSleeper, NoSignal
<1>4. CASE Use
  <2>1. counter' = counter /\ kernel' = kernel /\ pc' = [pc EXCEPT ![Consumer] = "idle"]
        /\ pc[Consumer] = "owner"
    BY <1>4 DEF Use
  <2>2. pc'[Consumer] = "idle" /\ pc' \in [Threads -> Locations] /\ At("posting")' = At("posting")
        /\ \A p \in Producers : pc'[p] = pc[p]
    BY <2>1, ConsumerMoves DEF Locations
  <2> QED
    BY <1>0, <2>1, <2>2 DEF SInv, StreamTypeOK, SemTypeOK, OwedToSleeper, NoSignal
<1> QED
  BY <1>1, <1>2, <1>3, <1>4 DEF Take

LEMMA NextSInv == SInv /\ [StreamNext]_streamVars => SInv'
<1> SUFFICES ASSUME SInv, [StreamNext]_streamVars PROVE SInv'
  OBVIOUS
<1>1. CASE UNCHANGED streamVars
  BY <1>1 DEF streamVars, SInv, StreamTypeOK, SemTypeOK, OwedToSleeper, NoSignal, OneSignal, At
<1> QED
  BY <1>1, ReleaseSInv, PostSInv, ConsumerSInv DEF StreamNext

(* ReleaseSemaphore is called only when the kernel object is not signalled, *)
(* so that a maximum count of one loses no wake-up here either.             *)
THEOREM StreamPostsKept == StreamSpec => []NoLostPost
<1>1. SInv => NoLostPost
  BY DEF SInv, OwedToSleeper, NoSignal, OneSignal, NoLostPost
<1> QED
  BY InitSInv, NextSInv, <1>1, PTL DEF StreamSpec

-----------------------------------------------------------------------------
(* The units, counted where they are. *)
InCounter == IF counter < 0 THEN -counter ELSE 0

LEMMA UnitsAre ==
  ASSUME SInv
  PROVE  /\ At("posting") = {} => Units = InCounter + kernel
         /\ \A p : At("posting") = {p} => Units = InCounter + kernel + 1
<1>1. Cardinality({}) = 0 /\ \A p : Cardinality({p}) = 1
  BY FS_EmptySet, FS_Singleton
<1>2. InCounter \in Nat /\ kernel \in Nat
  BY DEF InCounter, SInv, StreamTypeOK, SemTypeOK
<1>3. Units = InCounter + kernel + Cardinality(At("posting"))
  BY DEF Units, InCounter
<1>4. ASSUME At("posting") = {} PROVE Units = InCounter + kernel
  BY <1>1, <1>2, <1>3, <1>4
<1>5. ASSUME NEW p, At("posting") = {p} PROVE Units = InCounter + kernel + 1
  BY <1>1, <1>2, <1>3, <1>5
<1> QED
  BY <1>4, <1>5

(* A step of the implementation is one of the credit counter's or none. *)
LEMMA ReleaseGives ==
  ASSUME SInv, SInv', NEW p \in Producers, Give(p)
  PROVE  Credit!Give
<1>0. /\ p \in Threads /\ p # Consumer /\ Consumer \in Threads /\ pc[p] = "idle"
      /\ counter \in Int /\ kernel \in {0, 1} /\ given < MaxGiven /\ given' = given + 1
  BY StreamAssumption DEF Give, Producers, SInv, StreamTypeOK, SemTypeOK
<1>1. CASE ReleaseFast(p)
  <2>1. /\ counter' = counter - 1 /\ counter <= 0 /\ kernel' = kernel /\ pc' = pc
    BY <1>0, <1>1 DEF ReleaseFast, SInv, StreamTypeOK, SemTypeOK
  <2>2. At("posting")' = At("posting") /\ pc'[Consumer] = pc[Consumer]
    BY <2>1 DEF At
  <2>3. InCounter' = InCounter + 1 /\ InCounter \in Nat
    BY <1>0, <2>1 DEF InCounter
  <2>4. Units' = InCounter' + kernel' + Cardinality(At("posting"))
    BY <2>2 DEF Units, InCounter
  <2>5. Units = InCounter + kernel + Cardinality(At("posting"))
    BY DEF Units, InCounter
  <2>6. Cardinality(At("posting")) \in Nat
    <3>1. CASE At("posting") = {}
      <4>1. Cardinality({}) = 0
        BY FS_EmptySet
      <4> QED
        BY <4>1, <3>1
    <3>2. ASSUME NEW q \in Producers, At("posting") = {q}
          PROVE  Cardinality(At("posting")) \in Nat
      <4>1. Cardinality({q}) = 1
        BY FS_Singleton
      <4> QED
        BY <4>1, <3>2
    <3>3. At("posting") = {} \/ \E q \in Producers : At("posting") = {q}
      BY DEF SInv, OwedToSleeper, NoSignal, OneSignal
    <3> QED
      BY <3>1, <3>2, <3>3
  <2>7. Units' = Units + 1
    BY <1>0, <2>1, <2>3, <2>4, <2>5, <2>6
  <2> QED
    BY <1>0, <2>2, <2>7 DEF Credit!Give
<1>2. CASE ReleaseSlow(p)
  <2>1. /\ counter' = counter - 1 /\ counter >= 1 /\ kernel' = kernel
        /\ pc' = [pc EXCEPT ![p] = "posting"]
    BY <1>0, <1>2 DEF ReleaseSlow
  <2>2. counter = 1 /\ kernel = 0 /\ At("posting") = {}
    BY <1>0, <2>1 DEF SInv, OwedToSleeper, NoSignal
  <2>3. At("posting")' = {p} /\ pc'[Consumer] = pc[Consumer]
    BY <1>0, <2>1, <2>2 DEF At, SInv, StreamTypeOK, SemTypeOK
  <2>4. InCounter = 0 /\ InCounter' = 0
    BY <2>1, <2>2 DEF InCounter
  <2>5. Cardinality({}) = 0 /\ Cardinality({p}) = 1
    BY FS_EmptySet, FS_Singleton
  <2>6. Units = 0
    BY <2>2, <2>4, UnitsAre
  <2>7. Units' = InCounter' + kernel' + Cardinality({p})
    BY <2>3 DEF Units, InCounter
  <2>8. Units' = Units + 1
    BY <2>1, <2>2, <2>4, <2>5, <2>6, <2>7
  <2> QED
    BY <1>0, <2>3, <2>8 DEF Credit!Give
<1> QED
  BY <1>1, <1>2 DEF Give

LEMMA PostMovesUnit ==
  ASSUME SInv, NEW p \in Producers, Post(p)
  PROVE  UNCHANGED Credit!creditVars
<1>1. At("posting") = {p} /\ kernel = 0 /\ kernel' = 1 /\ At("posting")' = {}
  BY PostSInv
<1>2. counter' = counter /\ given' = given /\ pc' = [pc EXCEPT ![p] = "idle"] /\ counter \in Int
  BY DEF Post, ReleasePost, SInv, StreamTypeOK, SemTypeOK
<1>3. pc'[Consumer] = pc[Consumer]
  BY <1>2, StreamAssumption DEF Producers, SInv, StreamTypeOK, SemTypeOK
<1>4. Units = InCounter + 1 /\ InCounter \in Nat
  <2>1. InCounter \in Nat
    BY <1>2 DEF InCounter
  <2>2. Units = InCounter + kernel + 1
    BY <1>1, UnitsAre
  <2> QED
    BY <1>1, <2>1, <2>2
<1>5. Units' = InCounter' + kernel' + Cardinality({})
  BY <1>1 DEF Units, InCounter
<1>6. InCounter' = InCounter
  BY <1>2 DEF InCounter
<1>7. Units' = Units
  BY <1>1, <1>4, <1>5, <1>6, FS_EmptySet
<1> QED
  BY <1>2, <1>3, <1>7 DEF Credit!creditVars

LEMMA ConsumerTakes ==
  ASSUME SInv, Take \/ Wait \/ Use
  PROVE  [Credit!CreditNext]_Credit!creditVars
<1>0. counter \in Int /\ kernel \in {0, 1} /\ given' = given /\ InCounter \in Nat
  BY DEF SInv, StreamTypeOK, SemTypeOK, Take, Wait, Use, InCounter
<1>1. CASE CaptureFast(Consumer)
  <2>1. /\ counter' = counter + 1 /\ counter < 0 /\ kernel' = kernel
        /\ pc' = [pc EXCEPT ![Consumer] = "owner"] /\ pc[Consumer] = "idle"
    BY <1>0, <1>1 DEF CaptureFast
  <2>2. pc'[Consumer] = "owner" /\ At("posting")' = At("posting")
    BY <2>1, ConsumerMoves DEF Locations
  <2>3. NoSignal
    BY <2>1 DEF SInv, OwedToSleeper
  <2>4. Units = InCounter
    BY <1>0, <2>3, UnitsAre DEF NoSignal
  <2>5. Units' = InCounter' + kernel' + Cardinality({})
    BY <2>2, <2>3 DEF NoSignal, Units, InCounter
  <2>6. InCounter' = InCounter - 1 /\ InCounter > 0
    BY <1>0, <2>1 DEF InCounter
  <2>7. Units' = Units - 1 /\ Units > 0
    BY <1>0, <2>1, <2>3, <2>4, <2>5, <2>6, FS_EmptySet DEF NoSignal
  <2> QED
    BY <1>0, <2>2, <2>7 DEF Credit!CreditNext, Credit!Take
<1>2. CASE CaptureSlow(Consumer)
  <2>1. /\ counter' = counter + 1 /\ counter' > 0 /\ kernel' = kernel
        /\ pc' = [pc EXCEPT ![Consumer] = "waiting"] /\ pc[Consumer] = "idle"
    BY <1>2 DEF CaptureSlow
  <2>2. pc'[Consumer] = "waiting" /\ At("posting")' = At("posting")
    BY <2>1, ConsumerMoves DEF Locations
  <2>3. NoSignal /\ counter = 0
    BY <1>0, <2>1 DEF SInv, OwedToSleeper
  <2>4. InCounter = 0 /\ InCounter' = 0
    BY <2>1, <2>3 DEF InCounter
  <2>5. Units' = InCounter' + kernel' + Cardinality(At("posting")) /\ Units = InCounter + kernel + Cardinality(At("posting"))
    BY <2>2 DEF Units, InCounter
  <2>6. Units' = Units
    BY <2>1, <2>4, <2>5
  <2> QED
    BY <1>0, <2>1, <2>2, <2>6 DEF Credit!CreditNext, Credit!AskCredit
<1>3. CASE Wait
  <2>1. counter' = counter /\ kernel > 0 /\ kernel' = kernel - 1 /\ pc' = [pc EXCEPT ![Consumer] = "owner"]
        /\ pc[Consumer] = "waiting"
    BY <1>3 DEF Wait, CaptureWait
  <2>2. pc'[Consumer] = "owner" /\ At("posting")' = At("posting")
    BY <2>1, ConsumerMoves DEF Locations
  <2>3. kernel = 1 /\ At("posting") = {}
    BY <2>1 DEF SInv, OwedToSleeper, NoSignal, OneSignal
  <2>4. Units = InCounter + 1
    BY <1>0, <2>3, UnitsAre
  <2>5. Units' = InCounter' + kernel' + Cardinality({})
    BY <2>2, <2>3 DEF Units, InCounter
  <2>6. InCounter' = InCounter
    BY <2>1 DEF InCounter
  <2>7. Units' = Units - 1 /\ Units > 0
    BY <1>0, <2>1, <2>3, <2>4, <2>5, <2>6, FS_EmptySet
  <2> QED
    BY <1>0, <2>2, <2>7 DEF Credit!CreditNext, Credit!Take
<1>4. CASE Use
  <2>1. counter' = counter /\ kernel' = kernel /\ pc' = [pc EXCEPT ![Consumer] = "idle"]
        /\ pc[Consumer] = "owner"
    BY <1>4 DEF Use
  <2>2. pc'[Consumer] = "idle" /\ At("posting")' = At("posting")
    BY <2>1, ConsumerMoves DEF Locations
  <2>3. Units' = Units
    BY <2>1, <2>2 DEF Units
  <2> QED
    BY <1>0, <2>1, <2>2, <2>3 DEF Credit!creditVars
<1> QED
  BY <1>1, <1>2, <1>3, <1>4 DEF Take

(***************************************************************************)
(* A GLOBALSEM between threads that release and one that captures is a     *)
(* credit counter: no unit is lost while it changes from the counter to a  *)
(* signal, and none is made up.  The safety part of ImplementsCredit, for  *)
(* any number of threads, initial units and releases.                      *)
(***************************************************************************)
THEOREM ImplementsCreditSafety == StreamSpec => Credit!CreditSafety
<1>1. StreamInit => Credit!CreditInit
  <2> SUFFICES ASSUME StreamInit PROVE Credit!CreditInit
    OBVIOUS
  <2>1. At("posting") = {} /\ kernel = 0 /\ counter = -InitialUnits /\ given = 0 /\ pc[Consumer] # "waiting"
    BY StreamAssumption DEF StreamInit, At
  <2>2. SInv
    BY InitSInv
  <2>3. InCounter = InitialUnits
    BY <2>1, StreamAssumption DEF InCounter
  <2>4. Units = InitialUnits
    BY <2>1, <2>2, <2>3, UnitsAre, StreamAssumption
  <2> QED
    BY <2>1, <2>4 DEF Credit!CreditInit
<1>2. SInv /\ SInv' /\ [StreamNext]_streamVars => [Credit!CreditNext]_Credit!creditVars
  <2> SUFFICES ASSUME SInv, SInv', [StreamNext]_streamVars PROVE [Credit!CreditNext]_Credit!creditVars
    OBVIOUS
  <2>1. ASSUME NEW p \in Producers, Give(p) PROVE [Credit!CreditNext]_Credit!creditVars
    BY <2>1, ReleaseGives DEF Credit!CreditNext
  <2>2. ASSUME NEW p \in Producers, Post(p) PROVE [Credit!CreditNext]_Credit!creditVars
    BY <2>2, PostMovesUnit
  <2>3. CASE Take \/ Wait \/ Use
    BY <2>3, ConsumerTakes
  <2>4. CASE UNCHANGED streamVars
    <3>1. Units' = Units /\ given' = given /\ pc' = pc
      BY <2>4 DEF streamVars, Units, At
    <3> QED
      BY <3>1 DEF Credit!creditVars
  <2> QED
    BY <2>1, <2>2, <2>3, <2>4 DEF StreamNext
<1> QED
  BY InitSInv, NextSInv, <1>1, <1>2, PTL DEF StreamSpec, Credit!CreditSafety
==============================================================================
