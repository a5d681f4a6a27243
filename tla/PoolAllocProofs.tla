--------------------------- MODULE PoolAllocProofs ----------------------------
(***************************************************************************)
(* The pieces of a pool never overlap (NoOverlap), the release finds every *)
(* list of blocks alive (NextListAlive) and every block is in one of them  *)
(* (EveryBlockKept), for every page size, list length, left-over threshold *)
(* and sequence of requests and releases.                                  *)
(***************************************************************************)
EXTENDS PoolAlloc, SequenceTheorems, FiniteSetTheorems, TLAPS

PoolTypes ==
  /\ ptr \in Address \union {NoAddress} /\ cnt \in 0 .. PAGE_SIZE
  /\ subPtr \in Address \union {NoAddress} /\ subCnt \in 0 .. PAGE_SIZE
  /\ blkCnt \in BOOLEAN /\ releasing \in BOOLEAN
  /\ pieces \subseteq Extents
  /\ owned \subseteq Blocks
  /\ want \in Seq(1 .. PAGE_SIZE)
  /\ want # <<>> => ~releasing

(* What is left of the current block begins behind all pieces of it. *)
BlockRoom ==
  cnt > 0 =>
    /\ ptr[1] \in owned /\ ptr[2] + cnt <= PAGE_SIZE
    /\ \A p \in pieces : p[1] = ptr[1] => p[2] + p[3] <= ptr[2]

(* So does the left-over piece, in a block that is not the current one. *)
SubRoom ==
  subCnt > 0 =>
    /\ subPtr[1] \in owned /\ subPtr[2] + subCnt <= PAGE_SIZE
    /\ \A p \in pieces : p[1] = subPtr[1] => p[2] + p[3] <= subPtr[2]
    /\ cnt > 0 => subPtr[1] # ptr[1]

(* PiecesDisjoint is not inductive alone: the next piece comes out of what *)
(* the structure takes to be free.  During a release that is out of date,  *)
(* and nothing is requested until the structure has been cleared.          *)
PInv ==
  /\ PoolTypes
  /\ PiecesDisjoint
  /\ ~releasing => BlockRoom /\ SubRoom
  /\ ~blkCnt /\ ~releasing => cnt = 0 /\ subCnt = 0

(* A structure of zeroes has no pieces and no room. *)
LEMMA InitPInv == Init => PInv
<1> SUFFICES ASSUME Init PROVE PInv
  OBVIOUS
<1>1. PoolTypes
  <2>1. cnt \in 0 .. PAGE_SIZE /\ subCnt \in 0 .. PAGE_SIZE /\ want = <<>> /\ <<>> \in Seq(1 .. PAGE_SIZE)
    BY PoolAssumption, EmptySeq DEF Init
  <2>2. ptr = NoAddress /\ subPtr = NoAddress
    BY DEF Init
  <2>3. pieces = {} /\ owned = {} /\ blkCnt = FALSE /\ releasing = FALSE
    BY DEF Init
  <2>4. QED
    BY <2>1, <2>2, <2>3 DEF PoolTypes
<1>2. PiecesDisjoint /\ BlockRoom /\ SubRoom
  BY DEF Init, PiecesDisjoint, BlockRoom, SubRoom
<1>3. QED
  BY <1>1, <1>2 DEF Init, PInv

(* A new piece at the beginning of a free range that lies behind the other *)
(* pieces of its block overlaps none of them.                              *)
LEMMA NewPiece ==
  ASSUME PiecesDisjoint, pieces \subseteq Extents, PAGE_SIZE \in Nat,
         NEW b \in owned, NEW o \in Nat, NEW n \in 1 .. PAGE_SIZE, o + n <= PAGE_SIZE,
         \A p \in pieces : p[1] = b => p[2] + p[3] <= o,
         pieces' = pieces \union {<<b, o, n>>}, owned \subseteq owned'
  PROVE  PiecesDisjoint'
<1>1. ASSUME NEW p \in pieces', NEW q \in pieces', Overlap(p, q) PROVE p = q
  <2>1. CASE p \in pieces /\ q \in pieces
    BY <1>1, <2>1 DEF PiecesDisjoint
  <2>2. CASE p \in pieces /\ q = <<b, o, n>>
    BY <1>1, <2>2 DEF Overlap, Extents
  <2>3. CASE p = <<b, o, n>> /\ q \in pieces
    BY <1>1, <2>3 DEF Overlap, Extents
  <2>4. QED
    BY <1>1, <2>1, <2>2, <2>3
<1>2. ASSUME NEW p \in pieces' PROVE p[2] + p[3] <= PAGE_SIZE /\ p[1] \in owned'
  BY <1>2 DEF PiecesDisjoint
<1>3. QED
  BY <1>1, <1>2 DEF PiecesDisjoint, Overlap

(* The size being requested is one that a block can hold. *)
LEMMA WantedSize == ASSUME PoolTypes, want # <<>> PROVE Wanted \in 1 .. PAGE_SIZE
<1> DEFINE S == 1 .. PAGE_SIZE
<1>1. want \in Seq(S)
  BY DEF PoolTypes
<1>2. Len(want) \in 1 .. Len(want)
  BY <1>1, EmptySeq
<1> HIDE DEF S
<1>3. want[Len(want)] \in S
  BY <1>1, <1>2, ElementOfSeq
<1>4. QED
  BY <1>3 DEF Wanted, S

(* What remains to be requested when a piece is delivered. *)
LEMMA DeliverKeeps ==
  ASSUME PoolTypes, want # <<>>, NEW p, Deliver(p)
  PROVE  want' \in Seq(1 .. PAGE_SIZE) /\ pieces' = pieces \union {<<p[1], p[2], Wanted>>}
<1>1. Len(want) \in Nat /\ Len(want) > 0
  BY EmptySeq, LenProperties DEF PoolTypes
<1>2. SubSeq(want, 1, Len(want) - 1) \in Seq(1 .. PAGE_SIZE)
  <2> DEFINE S == 1 .. PAGE_SIZE
  <2>1. want \in Seq(S)
    BY DEF PoolTypes
  <2> HIDE DEF S
  <2>2. \A i \in 1 .. Len(want) - 1 : want[i] \in S
    <3>1. \A i \in 1 .. Len(want) - 1 : i \in 1 .. Len(want)
      BY <1>1
    <3>2. QED
      BY <2>1, <3>1, ElementOfSeq
  <2>3. Len(want) - 1 \in Int
    BY <1>1
  <2>4. SubSeq(want, 1, Len(want) - 1) \in Seq(S)
    BY <2>2, <2>3, SubSeqProperties
  <2>5. QED
    BY <2>4 DEF S
<1>3. QED
  BY <1>2 DEF Deliver

(* A piece out of the left-over, or out of the current block, is a new one *)
(* and leaves the rest of that range free.                                 *)
LEMMA UseSteps ==
  ASSUME PInv, UseSub \/ UseBlock
  PROVE  PInv'
<1> USE DEF PInv
<1>1. want # <<>> /\ ~releasing /\ releasing' = releasing /\ Wanted \in 1 .. PAGE_SIZE
      /\ owned' = owned /\ blkCnt' = blkCnt /\ PAGE_SIZE \in Nat
  BY WantedSize, PoolAssumption DEF UseSub, UseBlock, PoolTypes
<1>2. CASE UseSub
  <2>1. Wanted <= subCnt /\ subCnt' = subCnt - Wanted /\ subPtr' = <<subPtr[1], subPtr[2] + Wanted>>
        /\ UNCHANGED <<ptr, cnt>>
    BY <1>2 DEF UseSub, Advance
  <2>2. want' \in Seq(1 .. PAGE_SIZE) /\ pieces' = pieces \union {<<subPtr[1], subPtr[2], Wanted>>}
    BY <1>1, <1>2, DeliverKeeps DEF UseSub
  <2>3. /\ subCnt \in 1 .. PAGE_SIZE /\ subPtr[1] \in owned /\ subPtr[2] + subCnt <= PAGE_SIZE
        /\ \A p \in pieces : p[1] = subPtr[1] => p[2] + p[3] <= subPtr[2]
        /\ cnt > 0 => subPtr[1] # ptr[1]
    BY <1>1, <2>1 DEF SubRoom, PoolTypes
  <2>4. subPtr[1] \in Blocks /\ subPtr[2] \in 0 .. PAGE_SIZE
    BY <2>3, PoolAssumption DEF PoolTypes, Address, NoAddress
  <2>5. PiecesDisjoint'
    <3>1. subPtr[2] \in Nat /\ subPtr[2] + Wanted <= PAGE_SIZE
      BY <1>1, <2>1, <2>3, <2>4
    <3>2. pieces \subseteq Extents /\ owned \subseteq owned'
      BY <1>1 DEF PoolTypes
    <3>3. QED
      BY <1>1, <2>2, <2>3, <3>1, <3>2, NewPiece
  <2>6. subPtr'[2] \in 0 .. PAGE_SIZE /\ subCnt' \in 0 .. PAGE_SIZE
    BY <1>1, <2>1, <2>3, <2>4
  <2>7. PoolTypes'
    <3>1. subPtr' \in Address
      BY <2>1, <2>4, <2>6 DEF Address
    <3>2. pieces' \subseteq Extents
      BY <1>1, <2>2, <2>4 DEF PoolTypes, Extents
    <3>3. QED
      BY <1>1, <2>1, <2>2, <2>6, <3>1, <3>2 DEF PoolTypes
  <2>8. SubRoom'
    <3>1. \A p \in pieces' : p[1] = subPtr[1] => p[2] + p[3] <= subPtr[2] + Wanted
      BY SMTT(30), <1>1, <2>2, <2>3, <2>4 DEF PoolTypes, Extents
    <3>2. QED
      BY <1>1, <2>1, <2>3, <2>4, <3>1 DEF SubRoom
  <2>9. BlockRoom'
    BY <1>1, <2>1, <2>2, <2>3 DEF BlockRoom
  <2>10. QED
    BY <1>1, <2>1, <2>3, <2>5, <2>7, <2>8, <2>9
<1>3. CASE UseBlock
  <2>1. Wanted <= cnt /\ cnt' = cnt - Wanted /\ ptr' = <<ptr[1], ptr[2] + Wanted>>
        /\ UNCHANGED <<subPtr, subCnt>>
    BY <1>3 DEF UseBlock, Advance
  <2>2. want' \in Seq(1 .. PAGE_SIZE) /\ pieces' = pieces \union {<<ptr[1], ptr[2], Wanted>>}
    BY <1>1, <1>3, DeliverKeeps DEF UseBlock
  <2>3. /\ cnt \in 1 .. PAGE_SIZE /\ ptr[1] \in owned /\ ptr[2] + cnt <= PAGE_SIZE
        /\ \A p \in pieces : p[1] = ptr[1] => p[2] + p[3] <= ptr[2]
        /\ subCnt > 0 => subPtr[1] # ptr[1]
    BY <1>1, <2>1 DEF BlockRoom, SubRoom, PoolTypes
  <2>4. ptr[1] \in Blocks /\ ptr[2] \in 0 .. PAGE_SIZE
    BY <2>3, PoolAssumption DEF PoolTypes, Address, NoAddress
  <2>5. PiecesDisjoint'
    <3>1. ptr[2] \in Nat /\ ptr[2] + Wanted <= PAGE_SIZE
      BY <1>1, <2>1, <2>3, <2>4
    <3>2. pieces \subseteq Extents /\ owned \subseteq owned'
      BY <1>1 DEF PoolTypes
    <3>3. QED
      BY <1>1, <2>2, <2>3, <3>1, <3>2, NewPiece
  <2>6. ptr'[2] \in 0 .. PAGE_SIZE /\ cnt' \in 0 .. PAGE_SIZE
    BY <1>1, <2>1, <2>3, <2>4
  <2>7. PoolTypes'
    <3>1. ptr' \in Address
      BY <2>1, <2>4, <2>6 DEF Address
    <3>2. pieces' \subseteq Extents
      BY <1>1, <2>2, <2>4 DEF PoolTypes, Extents
    <3>3. QED
      BY <1>1, <2>1, <2>2, <2>6, <3>1, <3>2 DEF PoolTypes
  <2>8. BlockRoom'
    <3>1. \A p \in pieces' : p[1] = ptr[1] => p[2] + p[3] <= ptr[2] + Wanted
      BY SMTT(30), <1>1, <2>2, <2>3, <2>4 DEF PoolTypes, Extents
    <3>2. QED
      BY <1>1, <2>1, <2>3, <2>4, <3>1 DEF BlockRoom
  <2>9. SubRoom'
    BY <1>1, <2>1, <2>2, <2>3 DEF SubRoom
  <2>10. QED
    BY <1>1, <2>1, <2>3, <2>5, <2>7, <2>8, <2>9
<1>4. QED
  BY <1>2, <1>3

(* A new block is free as a whole; the left-over, if it is kept, is in the *)
(* block before.                                                           *)
LEMMA FixStep == ASSUME PInv, ApFix PROVE PInv'
<1> USE DEF PInv
<1>1. want # <<>> /\ ~releasing /\ UNCHANGED <<pieces, releasing>> /\ blkCnt' = TRUE
      /\ cnt' = PAGE_SIZE /\ PAGE_SIZE \in Nat
  BY PoolAssumption DEF ApFix, PoolTypes
<1>2. PICK b \in Blocks \ owned : owned' = owned \union {b} /\ ptr' = <<b, 0>>
  BY DEF ApFix
<1>3. PiecesDisjoint'
  BY <1>1, <1>2 DEF PiecesDisjoint
<1>4. \A p \in pieces : p[1] # b
  BY <1>2 DEF PiecesDisjoint
<1>5. BlockRoom'
  BY <1>1, <1>2, <1>4 DEF BlockRoom
<1>6. SubRoom' /\ subPtr' \in Address \union {NoAddress} /\ subCnt' \in 0 .. PAGE_SIZE
  <2>1. CASE Better
    <3>1. subCnt' = cnt /\ subPtr' = ptr
      BY <2>1 DEF ApFix
    <3>2. SubRoom'
      BY <1>1, <1>2, <3>1 DEF BlockRoom, SubRoom
    <3>3. QED
      BY <3>1, <3>2 DEF PoolTypes
  <2>2. CASE ~Better
    <3>1. UNCHANGED <<subCnt, subPtr>>
      BY <2>2 DEF ApFix
    <3>2. SubRoom'
      BY <1>1, <1>2, <3>1 DEF SubRoom
    <3>3. QED
      BY <3>1, <3>2 DEF PoolTypes
  <2>3. QED
    BY <2>1, <2>2
<1>8. want' \in Seq(1 .. PAGE_SIZE)
  <2> DEFINE S == 1 .. PAGE_SIZE
  <2>1. NODE_SIZE \in S
    BY PoolAssumption DEF NODE_SIZE
  <2>2. want \in Seq(S) /\ (want' = want \/ want' = Append(want, NODE_SIZE))
    BY DEF ApFix, PoolTypes
  <2> HIDE DEF S
  <2>3. want' \in Seq(S)
    BY <2>1, <2>2, AppendProperties
  <2>4. QED
    BY <2>3 DEF S
<1>9. PoolTypes'
  <2>1. ptr' \in Address
    BY <1>1, <1>2 DEF Address
  <2>2. QED
    BY <1>1, <1>2, <1>6, <1>8, <2>1 DEF PoolTypes
<1>10. QED
  BY <1>1, <1>3, <1>5, <1>6, <1>9

(* The hash table is the first piece of a pool that begins with one. *)
LEMMA HashStep == ASSUME PInv, CommonInstInit PROVE PInv'
<1> USE DEF PInv
<1>1. want = <<>> /\ ~releasing /\ ~blkCnt /\ cnt = 0 /\ subCnt = 0
      /\ UNCHANGED <<subPtr, subCnt, want, releasing>> /\ blkCnt' = TRUE
      /\ cnt' = PAGE_SIZE - HASH_SIZE /\ PAGE_SIZE \in Nat /\ HASH_SIZE \in 1 .. PAGE_SIZE
  BY PoolAssumption DEF CommonInstInit, Ready
<1>2. PICK b \in Blocks \ owned : /\ owned' = owned \union {b}
                                 /\ ptr' = <<b, HASH_SIZE>>
                                 /\ pieces' = pieces \union {<<b, 0, HASH_SIZE>>}
  BY DEF CommonInstInit
<1>3. \A p \in pieces : p[1] # b
  BY <1>2 DEF PiecesDisjoint
<1>4. PiecesDisjoint'
  <2>1. ASSUME NEW p \in pieces', NEW q \in pieces', Overlap(p, q) PROVE p = q
    BY <1>2, <1>3, <2>1 DEF PiecesDisjoint, Overlap
  <2>2. ASSUME NEW p \in pieces' PROVE p[2] + p[3] <= PAGE_SIZE /\ p[1] \in owned'
    BY <1>1, <1>2 DEF PiecesDisjoint
  <2>3. QED
    BY <2>1, <2>2 DEF PiecesDisjoint, Overlap
<1>5. BlockRoom' /\ SubRoom'
  <2>1. \A p \in pieces' : p[1] = b => p[2] + p[3] <= HASH_SIZE
    BY <1>1, <1>2, <1>3
  <2>2. QED
    BY <1>1, <1>2, <2>1 DEF BlockRoom, SubRoom
<1>6. PoolTypes'
  <2>1. ptr' \in Address /\ cnt' \in 0 .. PAGE_SIZE
    BY <1>1, <1>2 DEF Address
  <2>2. pieces' \subseteq Extents
    BY <1>1, <1>2 DEF PoolTypes, Extents
  <2>3. QED
    BY <1>1, <1>2, <2>1, <2>2 DEF PoolTypes
<1>7. QED
  BY <1>1, <1>4, <1>5, <1>6

(* The release only takes pieces away, whole blocks of them. *)
LEMMA ReleaseSteps ==
  ASSUME PInv, ReleaseFirst \/ ReadList \/ ReleaseDone
  PROVE  PInv'
<1> USE DEF PInv
<1>1. CASE ReleaseDone
  <2>1. PoolTypes'
    <3>1. ptr' = NoAddress /\ subPtr' = NoAddress
      BY <1>1 DEF ReleaseDone
    <3>2. cnt' \in 0 .. PAGE_SIZE /\ subCnt' \in 0 .. PAGE_SIZE
      BY <1>1, PoolAssumption DEF ReleaseDone
    <3>3. blkCnt' \in BOOLEAN /\ releasing' = FALSE
      BY <1>1 DEF ReleaseDone
    <3>4. pieces' = pieces /\ owned' = owned /\ want' = want
      BY <1>1 DEF ReleaseDone, memVars
    <3>5. QED
      BY <3>1, <3>2, <3>3, <3>4 DEF PoolTypes
  <2>2. PiecesDisjoint' /\ BlockRoom' /\ SubRoom'
    BY <1>1 DEF ReleaseDone, memVars, PiecesDisjoint, Overlap, BlockRoom, SubRoom
  <2>3. QED
    BY <1>1, <2>1, <2>2 DEF ReleaseDone
<1>2. CASE ReleaseFirst \/ ReadList
  <2>1. PICK blocks : ReleaseBlocks(blocks)
    BY <1>2 DEF ReleaseFirst, ReadList
  <2>2. releasing' = TRUE /\ want = <<>> /\ UNCHANGED <<ptr, cnt, subPtr, subCnt, blkCnt, want>>
    BY <1>2 DEF ReleaseFirst, ReadList, Ready, structVars, PoolTypes
  <2>3. owned' \subseteq owned /\ pieces' \subseteq pieces /\ \A p \in pieces' : p[1] \in owned'
    BY <2>1 DEF ReleaseBlocks
  <2>4. PiecesDisjoint'
    BY <2>3 DEF PiecesDisjoint, Overlap
  <2>5. PoolTypes'
    BY <2>2, <2>3 DEF PoolTypes
  <2>6. QED
    BY <2>2, <2>4, <2>5
<1>3. QED
  BY <1>1, <1>2

(* Every step keeps the invariant. *)
LEMMA StepPInv == PInv /\ [Next]_vars => PInv'
<1> SUFFICES ASSUME PInv, [Next]_vars PROVE PInv'
  OBVIOUS
<1>1. CASE Request
  <2>1. PICK n \in Sizes : want' = <<n>>
    BY <1>1 DEF Request
  <2>2. n \in 1 .. PAGE_SIZE /\ want' \in Seq(1 .. PAGE_SIZE)
    BY <2>1, PoolAssumption
  <2>3. UNCHANGED <<structVars, memVars, releasing>> /\ ~releasing
    BY <1>1 DEF Request, Ready
  <2>4. PoolTypes'
    BY <2>2, <2>3 DEF PInv, PoolTypes, structVars, memVars
  <2>5. QED
    BY <2>3, <2>4 DEF PInv, structVars, memVars, PiecesDisjoint, Overlap, BlockRoom, SubRoom
<1>2. CASE OutOfMemory \/ UNCHANGED vars
  BY <1>2 DEF OutOfMemory, vars, structVars, memVars, PInv, PoolTypes, PiecesDisjoint, Overlap,
              BlockRoom, SubRoom
<1>3. QED
  BY <1>1, <1>2, HashStep, UseSteps, FixStep, ReleaseSteps DEF Next

(* Pieces that a pool has handed out, the lists of its blocks among them,  *)
(* never overlap, and lie within blocks that the pool still has.           *)
THEOREM NoOverlap == Spec => []PiecesDisjoint
<1>1. PInv => PiecesDisjoint
  BY DEF PInv
<1>2. QED
  BY InitPInv, StepPInv, <1>1, PTL DEF Spec

------------------------------------------------------------------------------
(***************************************************************************)
(* The lists of blocks.  They are chained from the newest to the oldest;   *)
(* as a function from 1 .. k the oldest comes first.                       *)
(***************************************************************************)
Node == [at : Address, next : Address \union {NoAddress}, blocks : Seq(Blocks)]
Piece(n) == <<n.at[1], n.at[2], NODE_SIZE>>

(* The blocks of the list in the structure, unless it is a copy of one that *)
(* has been released.                                                       *)
Listed == IF releasing THEN {} ELSE Elements(list)

(* Each list is in a piece of the pool, in a block of its own or of an older *)
(* list: so it is read before its block is let go.  No two lists share a     *)
(* block, and all together they are the blocks of the pool.                  *)
IsChain(k, s) ==
  /\ nodes = {s[i] : i \in 1 .. k}
  /\ lastList = (IF k = 0 THEN NoAddress ELSE s[k].at)
  /\ \A i \in 1 .. k :
       /\ s[i].next = IF i = 1 THEN NoAddress ELSE s[i - 1].at
       /\ Len(s[i].blocks) = LIST_MAX
       /\ Piece(s[i]) \in pieces
       /\ \E j \in 1 .. i : s[i].at[1] \in Elements(s[j].blocks)
       /\ Elements(s[i].blocks) \cap Listed = {}
  /\ \A i, j \in 1 .. k : (i # j) =>
       s[i].at # s[j].at /\ Elements(s[i].blocks) \cap Elements(s[j].blocks) = {}
  /\ owned = Listed \union UNION {Elements(s[i].blocks) : i \in 1 .. k}

Chained == \E k \in Nat : \E s \in [1 .. k -> Node] : IsChain(k, s)

(* A list that is complete is saved before anything else is requested. *)
ListOK ==
  /\ list \in Seq(Blocks) /\ Len(list) <= LIST_MAX
  /\ Len(want) <= 2
  /\ Len(want) = 2 => Len(list) = LIST_MAX /\ cnt = PAGE_SIZE /\ want[2] = NODE_SIZE
  /\ ~releasing /\ Len(want) # 2 => Len(list) < LIST_MAX

NotBegun == ~blkCnt => ~releasing /\ list = <<>> /\ lastList = NoAddress /\ Len(want) < 2

Counted ==
  /\ IsFiniteSet(owned) /\ IsFiniteSet(nodes)
  /\ ~releasing => Cardinality(owned) = Len(list) + LIST_MAX * Cardinality(nodes)

KInv == ListOK /\ NotBegun /\ Counted /\ Chained /\ oom \in BOOLEAN

LEMMA ElementsAppend ==
  ASSUME NEW S, NEW s \in Seq(S), NEW x \in S
  PROVE  /\ Append(s, x) \in Seq(S) /\ Len(Append(s, x)) = Len(s) + 1
         /\ Elements(Append(s, x)) = Elements(s) \union {x}
<1>1. /\ Append(s, x) \in Seq(S) /\ Len(Append(s, x)) = Len(s) + 1
      /\ \A i \in 1 .. Len(s) : Append(s, x)[i] = s[i]
      /\ Append(s, x)[Len(s) + 1] = x
  BY AppendProperties
<1>2. DOMAIN s = 1 .. Len(s) /\ DOMAIN Append(s, x) = 1 .. Len(s) + 1 /\ Len(s) \in Nat
  BY <1>1, LenProperties
<1>3. QED
  BY <1>1, <1>2 DEF Elements

LEMMA ElementsEmpty == Elements(<<>>) = {} /\ Len(<<>>) = 0
BY DEF Elements

(* An address is that of a list, or none. *)
LEMMA NoAddressApart == NoAddress \notin Address
BY PoolAssumption DEF NoAddress, Address

LEMMA InitKInv == Init => KInv
<1> SUFFICES ASSUME Init PROVE KInv
  OBVIOUS
<1>1. ListOK
  BY PoolAssumption, ElementsEmpty DEF Init, ListOK
<1>2. NotBegun
  BY ElementsEmpty DEF Init, NotBegun
<1>3. Counted
  BY PoolAssumption, ElementsEmpty, FS_EmptySet DEF Init, Counted
<1>4. Chained
  <2> DEFINE s == [i \in 1 .. 0 |-> [at |-> NoAddress, next |-> NoAddress, blocks |-> <<>>]]
  <2>1. s \in [1 .. 0 -> Node]
    OBVIOUS
  <2>2. IsChain(0, s)
    BY ElementsEmpty DEF Init, IsChain, Listed
  <2>3. QED
    BY <2>1, <2>2 DEF Chained
<1>5. QED
  BY <1>1, <1>2, <1>3, <1>4 DEF Init, KInv

(* What is being requested: nothing, a caller's piece, or a list's. *)
LEMMA WantedList ==
  ASSUME PInv, ListOK, want # <<>>
  PROVE  /\ Len(want) \in {1, 2}
         /\ Len(want) = 2 => Wanted = NODE_SIZE
         /\ \A p : Deliver(p) => Len(want') = Len(want) - 1
<1>1. want \in Seq(1 .. PAGE_SIZE) /\ Len(want) \in Nat /\ Len(want) <= 2
  BY LenProperties DEF PInv, PoolTypes, ListOK
<1>2. Len(want) # 0
  BY <1>1, EmptySeq
<1>3. ASSUME NEW p, Deliver(p) PROVE Len(want') = Len(want) - 1
  <2> DEFINE S == 1 .. PAGE_SIZE
  <2>1. want \in Seq(S)
    BY <1>1
  <2> HIDE DEF S
  <2>2. \A i \in 1 .. Len(want) - 1 : want[i] \in S
    <3>1. \A i \in 1 .. Len(want) - 1 : i \in 1 .. Len(want)
      BY <1>1
    <3>2. QED
      BY <2>1, <3>1, ElementOfSeq
  <2> DEFINE m == Len(want) - 1
  <2>a. m \in Nat
    BY <1>1, <1>2
  <2>b. \A i \in 1 .. m : want[i] \in S
    BY <2>2
  <2> HIDE DEF m
  <2>c. Len(SubSeq(want, 1, m)) = m
    BY <2>a, <2>b, SubSeqProperties
  <2>3. Len(SubSeq(want, 1, Len(want) - 1)) = Len(want) - 1
    BY <2>c DEF m
  <2>4. QED
    BY <1>3, <2>3 DEF Deliver
<1>4. Len(want) \in {1, 2}
  <2>1. Len(want) \in Nat /\ Len(want) <= 2
    BY <1>1
  <2> DEFINE m == Len(want)
  <2> HIDE DEF m
  <2>2. m \in Nat /\ m <= 2 /\ m # 0
    BY <1>2, <2>1 DEF m
  <2>3. m \in {1, 2}
    BY <2>2
  <2>4. QED
    BY <2>3 DEF m
<1>5. Len(want) = 2 => Wanted = NODE_SIZE
  BY DEF Wanted, ListOK
<1>6. QED
  BY <1>3, <1>4, <1>5

(* A list that is saved becomes the newest; the piece it is put in was free, *)
(* so that no older list is there.                                           *)
LEMMA PushChain ==
  ASSUME NEW k \in Nat, NEW s \in [1 .. k -> Node], IsChain(k, s), ~releasing,
         list \in Seq(Blocks), Len(list) = LIST_MAX,
         NEW p \in Address, p[1] \in owned,
         \A q \in pieces : q[1] = p[1] => q[2] + q[3] <= p[2],
         pieces' = pieces \union {<<p[1], p[2], NODE_SIZE>>},
         nodes' = nodes \union {ListNode(p)}, lastList' = p, list' = <<>>,
         owned' = owned, releasing' = releasing
  PROVE  /\ Chained'
         /\ ListNode(p) \notin nodes
<1>0. PICK n : n = ListNode(p)
  OBVIOUS
<1>a. PICK t : t = [i \in 1 .. k + 1 |-> IF i = k + 1 THEN n ELSE s[i]]
  OBVIOUS
<1>1. n.at = p /\ n.next = lastList /\ n.blocks = list
  BY <1>0 DEF ListNode
<1>2. \A i \in 1 .. k : s[i] \in Node
  OBVIOUS
<1>3. lastList \in Address \union {NoAddress}
  BY <1>2 DEF IsChain, Node
<1>4. n \in Node
  BY <1>0, <1>3 DEF ListNode, Node
<1>5. NODE_SIZE \in Nat /\ NODE_SIZE > 0
  BY PoolAssumption DEF NODE_SIZE
<1>6. \A i \in 1 .. k : s[i].at # p
  <2> SUFFICES ASSUME NEW i \in 1 .. k, s[i].at = p PROVE FALSE
    OBVIOUS
  <2>1. <<p[1], p[2], NODE_SIZE>> \in pieces
    BY DEF IsChain, Piece
  <2>2. p[2] + NODE_SIZE <= p[2] /\ p[2] \in Int
    BY <2>1, PoolAssumption DEF Address
  <2>3. QED
    BY <1>5, <2>2
<1>7. ListNode(p) \notin nodes
  BY <1>0, <1>1, <1>6 DEF IsChain
<1>8. t \in [1 .. k + 1 -> Node]
  BY <1>2, <1>4, <1>a
<1>9. t[k + 1] = n /\ \A i \in 1 .. k : t[i] = s[i]
  BY <1>a
<1>10. \A i \in 1 .. k + 1 : i \in 1 .. k \/ i = k + 1
  OBVIOUS
<1>11. Listed = Elements(list) /\ Listed' = {}
  BY ElementsEmpty DEF Listed
<1>12. nodes' = {t[i] : i \in 1 .. k + 1}
  <2>1. nodes = {s[i] : i \in 1 .. k}
    BY DEF IsChain
  <2>2. \A i \in 1 .. k : i \in 1 .. k + 1
    OBVIOUS
  <2>3. k + 1 \in 1 .. k + 1
    OBVIOUS
  <2>4. QED
    BY <1>0, <1>9, <1>10, <2>1, <2>2, <2>3
<1>13. lastList' = (IF k + 1 = 0 THEN NoAddress ELSE t[k + 1].at)
  BY <1>1, <1>9
<1>14. ASSUME NEW i \in 1 .. k + 1
       PROVE  /\ t[i].next = IF i = 1 THEN NoAddress ELSE t[i - 1].at
              /\ Len(t[i].blocks) = LIST_MAX
              /\ Piece(t[i]) \in pieces'
              /\ \E j \in 1 .. i : t[i].at[1] \in Elements(t[j].blocks)
              /\ Elements(t[i].blocks) \cap Listed' = {}
  <2>1. CASE i \in 1 .. k
    <3>1. t[i] = s[i] /\ (i # 1 => i - 1 \in 1 .. k /\ t[i - 1] = s[i - 1])
      BY <1>9, <2>1
    <3>2. PICK j \in 1 .. i : s[i].at[1] \in Elements(s[j].blocks)
      BY <2>1 DEF IsChain
    <3>3. t[j] = s[j]
      BY <1>9, <2>1
    <3>4. Piece(s[i]) \in pieces /\ Len(s[i].blocks) = LIST_MAX
          /\ s[i].next = IF i = 1 THEN NoAddress ELSE s[i - 1].at
      BY <2>1 DEF IsChain
    <3>5. QED
      BY <1>11, <3>1, <3>2, <3>3, <3>4
  <2>2. CASE i = k + 1
    <3>1. t[i] = n /\ Len(n.blocks) = LIST_MAX /\ Piece(n) \in pieces'
      BY <1>1, <1>9, <2>2 DEF Piece
    <3>2. n.next = IF i = 1 THEN NoAddress ELSE t[i - 1].at
      <4>1. CASE k = 0
        BY <1>1, <2>2, <4>1 DEF IsChain
      <4>2. CASE k # 0
        <5>1. lastList = s[k].at /\ i - 1 = k /\ i # 1 /\ t[k] = s[k]
          BY <1>9, <2>2, <4>2 DEF IsChain
        <5>2. QED
          BY <1>1, <5>1
      <4>3. QED
        BY <4>1, <4>2
    <3>3. \E j \in 1 .. i : n.at[1] \in Elements(t[j].blocks)
      <4>1. CASE p[1] \in Elements(list)
        BY <1>1, <1>9, <2>2, <4>1
      <4>2. CASE p[1] \notin Elements(list)
        <5>1. PICK j \in 1 .. k : p[1] \in Elements(s[j].blocks)
          BY <1>11, <4>2 DEF IsChain
        <5>2. j \in 1 .. i /\ t[j] = s[j]
          BY <1>9, <2>2
        <5>3. QED
          BY <1>1, <5>1, <5>2
      <4>3. QED
        BY <4>1, <4>2
    <3>4. QED
      BY <1>11, <3>1, <3>2, <3>3
  <2>3. QED
    BY <1>10, <2>1, <2>2
<1>15. ASSUME NEW i \in 1 .. k + 1, NEW j \in 1 .. k + 1, i # j
       PROVE  t[i].at # t[j].at /\ Elements(t[i].blocks) \cap Elements(t[j].blocks) = {}
  <2>1. \A h \in 1 .. k : s[h].at # p /\ Elements(s[h].blocks) \cap Elements(list) = {}
    BY <1>6, <1>11 DEF IsChain
  <2>2. CASE i \in 1 .. k /\ j \in 1 .. k
    BY <1>9, <1>15, <2>2 DEF IsChain
  <2>3. CASE i = k + 1 /\ j \in 1 .. k
    BY <1>1, <1>9, <2>1, <2>3
  <2>4. CASE i \in 1 .. k /\ j = k + 1
    BY <1>1, <1>9, <2>1, <2>4
  <2>5. QED
    BY <1>10, <1>15, <2>2, <2>3, <2>4
<1>16. owned' = Listed' \union UNION {Elements(t[i].blocks) : i \in 1 .. k + 1}
  <2>1. owned = Elements(list) \union UNION {Elements(s[i].blocks) : i \in 1 .. k}
    BY <1>11 DEF IsChain
  <2>2. ASSUME NEW x \in owned PROVE \E i \in 1 .. k + 1 : x \in Elements(t[i].blocks)
    <3>1. CASE x \in Elements(list)
      BY <1>1, <1>9, <3>1
    <3>2. CASE x \notin Elements(list)
      <4>1. PICK i \in 1 .. k : x \in Elements(s[i].blocks)
        BY <2>1, <3>2
      <4>2. i \in 1 .. k + 1 /\ t[i] = s[i]
        BY <1>9
      <4>3. QED
        BY <4>1, <4>2
    <3>3. QED
      BY <3>1, <3>2
  <2>3. ASSUME NEW i \in 1 .. k + 1, NEW x \in Elements(t[i].blocks) PROVE x \in owned
    BY <1>1, <1>9, <1>10, <2>1
  <2>4. QED
    BY <1>11, <2>2, <2>3
<1>17. IsChain(k + 1, t)'
  BY <1>12, <1>13, <1>14, <1>15, <1>16 DEF IsChain
<1>18. QED
  BY <1>7, <1>8, <1>17 DEF Chained

(* The same lists in the same places, and new pieces. *)
LEMMA SameChain ==
  ASSUME Chained, UNCHANGED <<nodes, lastList, owned>>, pieces \subseteq pieces', Listed' = Listed
  PROVE  Chained'
<1>1a. PICK k \in Nat : \E s \in [1 .. k -> Node] : IsChain(k, s)
  BY DEF Chained
<1>1. PICK s \in [1 .. k -> Node] : IsChain(k, s)
  BY <1>1a
<1>2. IsChain(k, s)'
  BY <1>1 DEF IsChain
<1>3. QED
  BY <1>2 DEF Chained

(* A piece is delivered: to the caller, or the list is saved in it. *)
LEMMA DeliverKInv ==
  ASSUME PInv, KInv, want # <<>>, NEW p \in Address, p[1] \in owned,
         \A q \in pieces : q[1] = p[1] => q[2] + q[3] <= p[2],
         Deliver(p), UNCHANGED <<blkCnt, owned, releasing, oom>>, cnt' = cnt - Wanted \/ cnt' = cnt
  PROVE  KInv'
<1>1. ListOK /\ NotBegun /\ Counted /\ Chained /\ ~releasing
  BY DEF KInv, PInv, PoolTypes
<1>2. /\ Len(want) \in {1, 2} /\ Len(want') = Len(want) - 1
      /\ Len(want) = 2 => Wanted = NODE_SIZE
  BY <1>1, WantedList
<1>3. pieces' = pieces \union {<<p[1], p[2], Wanted>>}
  BY DEF Deliver
<1>4. CASE Len(want) = 2
  <2>1. /\ nodes' = nodes \union {ListNode(p)} /\ lastList' = p /\ list' = <<>>
        /\ pieces' = pieces \union {<<p[1], p[2], NODE_SIZE>>} /\ Len(want') = 1
    BY <1>2, <1>3, <1>4 DEF Deliver, AfterSave
  <2>2. list \in Seq(Blocks) /\ Len(list) = LIST_MAX
    BY <1>1, <1>4 DEF ListOK
  <2>3a. PICK k \in Nat : \E s \in [1 .. k -> Node] : IsChain(k, s)
    BY <1>1 DEF Chained
  <2>3. PICK s \in [1 .. k -> Node] : IsChain(k, s)
    BY <2>3a
  <2>4. Chained' /\ ListNode(p) \notin nodes
    BY <1>1, <2>1, <2>2, <2>3, PushChain
  <2>5. list' \in Seq(Blocks) /\ Len(list') = 0
    BY <2>1, ElementsEmpty
  <2>6. ListOK'
    BY <2>1, <2>5, PoolAssumption DEF ListOK
  <2>7. NotBegun'
    BY <1>1, <1>4 DEF NotBegun
  <2>8. Counted'
    <3>1. /\ IsFiniteSet(owned) /\ IsFiniteSet(nodes)
          /\ Cardinality(owned) = LIST_MAX + LIST_MAX * Cardinality(nodes)
      BY <1>1, <2>2 DEF Counted
    <3>2. /\ IsFiniteSet(nodes') /\ Cardinality(nodes') = Cardinality(nodes) + 1
          /\ Cardinality(nodes) \in Nat
      BY <2>1, <2>4, <3>1, FS_AddElement, FS_CardinalityType
    <3>3. LIST_MAX * (Cardinality(nodes) + 1) = LIST_MAX + LIST_MAX * Cardinality(nodes)
      BY <3>2, PoolAssumption
    <3>4. Cardinality(owned) = 0 + LIST_MAX * Cardinality(nodes')
      BY <3>1, <3>2, <3>3, PoolAssumption
    <3>5. QED
      BY <2>5, <3>1, <3>2, <3>4 DEF Counted
  <2>9. QED
    BY <2>4, <2>6, <2>7, <2>8 DEF KInv
<1>5. CASE Len(want) = 1
  <2>1. UNCHANGED <<nodes, lastList, list>> /\ Len(want') = 0
    BY <1>2, <1>5 DEF Deliver
  <2>2. Chained'
    BY <1>1, <1>3, <2>1, SameChain DEF Listed
  <2>3. ListOK' /\ NotBegun' /\ Counted'
    BY <1>1, <1>5, <2>1 DEF ListOK, NotBegun, Counted
  <2>4. QED
    BY <2>2, <2>3 DEF KInv
<1>6. QED
  BY <1>2, <1>4, <1>5

LEMMA UseKInv == ASSUME PInv, KInv, UseSub \/ UseBlock PROVE KInv'
<1>1. want # <<>> /\ ~releasing /\ Wanted \in 1 .. PAGE_SIZE /\ PAGE_SIZE \in Nat
      /\ UNCHANGED <<blkCnt, owned, releasing, oom>>
  BY WantedSize, PoolAssumption DEF UseSub, UseBlock, PInv, PoolTypes
<1>2. CASE UseSub
  <2>1. Wanted <= subCnt /\ subCnt \in 0 .. PAGE_SIZE /\ cnt' = cnt /\ Deliver(subPtr)
    BY <1>2 DEF UseSub, PInv, PoolTypes
  <2>2. subPtr[1] \in owned /\ \A p \in pieces : p[1] = subPtr[1] => p[2] + p[3] <= subPtr[2]
    BY <1>1, <2>1 DEF PInv, SubRoom
  <2>3. subPtr \in Address
    BY <2>2, PoolAssumption DEF PInv, PoolTypes, NoAddress
  <2>4. QED
    BY <1>1, <2>1, <2>2, <2>3, DeliverKInv
<1>3. CASE UseBlock
  <2>1. Wanted <= cnt /\ cnt \in 0 .. PAGE_SIZE /\ cnt' = cnt - Wanted /\ Deliver(ptr)
    BY <1>3 DEF UseBlock, PInv, PoolTypes
  <2>2. ptr[1] \in owned /\ \A p \in pieces : p[1] = ptr[1] => p[2] + p[3] <= ptr[2]
    BY <1>1, <2>1 DEF PInv, BlockRoom
  <2>3. ptr \in Address
    BY <2>2, PoolAssumption DEF PInv, PoolTypes, NoAddress
  <2>4. QED
    BY <1>1, <2>1, <2>2, <2>3, DeliverKInv
<1>4. QED
  BY <1>2, <1>3

(* A block from Windows joins the list in the structure. *)
LEMMA BlockJoins ==
  ASSUME Chained, Counted, ~releasing, releasing' = releasing,
         NEW b \in Blocks \ owned, owned' = owned \union {b},
         list \in Seq(Blocks), list' = Append(list, b), UNCHANGED <<nodes, lastList>>,
         pieces \subseteq pieces'
  PROVE  Chained' /\ Counted'
<1>1. Elements(list') = Elements(list) \union {b} /\ Len(list') = Len(list) + 1
  BY ElementsAppend
<1>2. Listed = Elements(list) /\ Listed' = Elements(list) \union {b}
  BY <1>1 DEF Listed
<1>3. Chained'
  <2>1a. PICK k \in Nat : \E s \in [1 .. k -> Node] : IsChain(k, s)
    BY DEF Chained
  <2>1. PICK s \in [1 .. k -> Node] : IsChain(k, s)
    BY <2>1a
  <2>2. \A i \in 1 .. k : b \notin Elements(s[i].blocks)
    BY <2>1 DEF IsChain
  <2>3. IsChain(k, s)'
    <3>1. nodes' = {s[i] : i \in 1 .. k} /\ lastList' = (IF k = 0 THEN NoAddress ELSE s[k].at)
      BY <2>1 DEF IsChain
    <3>2. ASSUME NEW i \in 1 .. k
          PROVE  /\ s[i].next = IF i = 1 THEN NoAddress ELSE s[i - 1].at
                 /\ Len(s[i].blocks) = LIST_MAX
                 /\ Piece(s[i]) \in pieces'
                 /\ \E j \in 1 .. i : s[i].at[1] \in Elements(s[j].blocks)
                 /\ Elements(s[i].blocks) \cap Listed' = {}
      BY <1>2, <2>1, <2>2 DEF IsChain
    <3>3. \A i, j \in 1 .. k : (i # j) =>
            s[i].at # s[j].at /\ Elements(s[i].blocks) \cap Elements(s[j].blocks) = {}
      BY <2>1 DEF IsChain
    <3>4. owned' = Listed' \union UNION {Elements(s[i].blocks) : i \in 1 .. k}
      BY <1>2, <2>1 DEF IsChain
    <3>5. QED
      BY <3>1, <3>2, <3>3, <3>4 DEF IsChain
  <2>4. QED
    BY <2>3 DEF Chained
<1>4. Counted'
  <2>1. /\ IsFiniteSet(owned) /\ IsFiniteSet(nodes)
        /\ Cardinality(owned) = Len(list) + LIST_MAX * Cardinality(nodes)
    BY DEF Counted
  <2>2. IsFiniteSet(owned') /\ Cardinality(owned') = Cardinality(owned) + 1
    BY <2>1, FS_AddElement
  <2>3. LIST_MAX * Cardinality(nodes) \in Int /\ Len(list) \in Nat
    BY <2>1, FS_CardinalityType, LenProperties, PoolAssumption
  <2>4. Cardinality(owned') = Len(list') + LIST_MAX * Cardinality(nodes)
    BY <1>1, <2>1, <2>2, <2>3
  <2>5. QED
    BY <2>1, <2>2, <2>4 DEF Counted
<1>5. QED
  BY <1>3, <1>4

LEMMA FixKInv == ASSUME PInv, KInv, ApFix PROVE KInv'
<1>1. /\ want # <<>> /\ Wanted > cnt /\ ~releasing /\ releasing' = releasing
      /\ cnt' = PAGE_SIZE /\ blkCnt' = TRUE /\ oom' = oom
      /\ UNCHANGED <<lastList, nodes, pieces>>
      /\ want' = IF Complete(list') THEN Append(want, NODE_SIZE) ELSE want
  BY DEF ApFix, PInv, PoolTypes
<1>2. PICK b \in Blocks \ owned : owned' = owned \union {b} /\ list' = Append(list, b)
  BY DEF ApFix
<1>3. ListOK /\ Chained /\ Counted
  BY DEF KInv
<1>4. Len(want) = 1
  <2>1. Wanted \in 1 .. PAGE_SIZE /\ PAGE_SIZE \in Nat
    BY <1>1, WantedSize, PoolAssumption DEF PInv
  <2>2. Len(want) = 2 => cnt = PAGE_SIZE
    BY <1>3 DEF ListOK
  <2>3. QED
    BY <1>1, <1>3, <2>1, <2>2, WantedList
<1>5. list \in Seq(Blocks) /\ Len(list) < LIST_MAX /\ Len(list) \in Nat
  BY <1>1, <1>3, <1>4, LenProperties DEF ListOK
<1>6. list' \in Seq(Blocks) /\ Len(list') = Len(list) + 1 /\ Len(list') \in Nat /\ LIST_MAX \in Nat
  BY <1>2, <1>5, ElementsAppend, PoolAssumption
<1>7. Chained' /\ Counted'
  BY <1>1, <1>2, <1>3, <1>5, BlockJoins
<1>8. ListOK'
  <2>1. CASE Len(list') = LIST_MAX
    <3>1. want' = Append(want, NODE_SIZE)
      BY <1>1, <2>1 DEF Complete
    <3> DEFINE S == 1 .. PAGE_SIZE
    <3>2. want \in Seq(S) /\ NODE_SIZE \in S
      BY PoolAssumption DEF PInv, PoolTypes, NODE_SIZE
    <3> HIDE DEF S
    <3>3. Len(want') = Len(want) + 1 /\ want'[Len(want) + 1] = NODE_SIZE
      BY <3>1, <3>2, AppendProperties
    <3>4. Len(want') = 2 /\ want'[2] = NODE_SIZE
      BY <1>4, <3>3
    <3>5. QED
      <4>1. Len(list') <= LIST_MAX /\ Len(want') <= 2
        BY <1>6, <2>1, <3>4
      <4>2. (Len(want') = 2 => Len(list') = LIST_MAX /\ cnt' = PAGE_SIZE /\ want'[2] = NODE_SIZE)
        BY <1>1, <2>1, <3>4
      <4>3. ~releasing' /\ Len(want') # 2 => Len(list') < LIST_MAX
        BY <3>4
      <4>4. QED
        BY <1>6, <4>1, <4>2, <4>3 DEF ListOK
  <2>2. CASE Len(list') # LIST_MAX
    <3>1. want' = want
      BY <1>1, <2>2 DEF Complete
    <3>2. Len(list') < LIST_MAX
      BY <1>5, <1>6, <2>2, PoolAssumption
    <3>3. QED
      <4>1. Len(list') <= LIST_MAX /\ Len(want') <= 2
        <5>1. Len(want') = 1
          BY <1>4, <3>1
        <5>2. Len(list') <= LIST_MAX
          BY <1>6, <3>2
        <5>3. QED
          BY <5>1, <5>2
      <4>2. (Len(want') = 2 => Len(list') = LIST_MAX /\ cnt' = PAGE_SIZE /\ want'[2] = NODE_SIZE)
        BY <1>4, <3>1
      <4>3. QED
        BY <1>6, <3>2, <4>1, <4>2 DEF ListOK
  <2>3. QED
    BY <2>1, <2>2
<1>9. QED
  BY <1>1, <1>7, <1>8 DEF KInv, NotBegun

LEMMA HashKInv == ASSUME PInv, KInv, CommonInstInit PROVE KInv'
<1>1. /\ want = <<>> /\ ~releasing /\ ~blkCnt /\ blkCnt' = TRUE /\ releasing' = releasing
      /\ UNCHANGED <<lastList, nodes, want, oom>> /\ pieces \subseteq pieces'
  BY DEF CommonInstInit, Ready
<1>2. PICK b \in Blocks \ owned : owned' = owned \union {b} /\ list' = <<b>>
  BY DEF CommonInstInit
<1>3. ListOK /\ Chained /\ Counted /\ list = <<>>
  BY <1>1 DEF KInv, NotBegun
<1>4. list \in Seq(Blocks) /\ list' = Append(list, b) /\ list' \in Seq(Blocks) /\ Len(list') = 1
  BY <1>2, <1>3
<1>5. Chained' /\ Counted'
  BY <1>1, <1>2, <1>3, <1>4, BlockJoins
<1>6. Len(want') = 0
  BY <1>1
<1>7. ListOK'
  BY <1>4, <1>6, PoolAssumption DEF ListOK
<1>8. QED
  BY <1>1, <1>5, <1>7 DEF KInv, NotBegun

(* The first blocks released are those of the list in the structure: every *)
(* saved list is in another block.                                         *)
LEMMA ReleaseFirstKInv == ASSUME PInv, KInv, ReleaseFirst PROVE KInv'
<1>1. /\ want = <<>> /\ ~releasing /\ blkCnt /\ releasing' = TRUE
      /\ UNCHANGED <<structVars, want, oom>> /\ list' = list
      /\ owned' = owned \ Elements(list)
      /\ pieces' = {p \in pieces : p[1] \in owned'}
      /\ nodes' = {n \in nodes : n.at[1] \in owned'}
  BY DEF ReleaseFirst, Ready, ReleaseBlocks, structVars
<1>2. ListOK /\ Chained /\ Counted /\ Listed = Elements(list) /\ Listed' = {}
  BY <1>1 DEF KInv, Listed
<1>3a. PICK k \in Nat : \E s \in [1 .. k -> Node] : IsChain(k, s)
  BY <1>2 DEF Chained
<1>3. PICK s \in [1 .. k -> Node] : IsChain(k, s)
  BY <1>3a
<1>4. owned' = UNION {Elements(s[i].blocks) : i \in 1 .. k}
  <2>1. owned = Elements(list) \union UNION {Elements(s[i].blocks) : i \in 1 .. k}
    BY <1>2, <1>3 DEF IsChain
  <2>2. \A i \in 1 .. k : Elements(s[i].blocks) \cap Elements(list) = {}
    BY <1>2, <1>3 DEF IsChain
  <2>3. QED
    BY <1>1, <2>1, <2>2
<1>5. \A i \in 1 .. k : s[i].at[1] \in owned'
  <2> SUFFICES ASSUME NEW i \in 1 .. k PROVE s[i].at[1] \in owned'
    OBVIOUS
  <2>1. PICK j \in 1 .. i : s[i].at[1] \in Elements(s[j].blocks)
    BY <1>3 DEF IsChain
  <2>2. j \in 1 .. k
    OBVIOUS
  <2>3. QED
    BY <1>4, <2>1, <2>2
<1>6. nodes' = nodes
  BY <1>1, <1>3, <1>5 DEF IsChain
<1>7. \A i \in 1 .. k : Piece(s[i]) \in pieces'
  BY <1>1, <1>3, <1>5 DEF IsChain, Piece
<1>8. IsChain(k, s)'
  <2>1. nodes' = {s[i] : i \in 1 .. k} /\ lastList' = (IF k = 0 THEN NoAddress ELSE s[k].at)
    BY <1>1, <1>3, <1>6 DEF IsChain, structVars
  <2>2. ASSUME NEW i \in 1 .. k
        PROVE  /\ s[i].next = IF i = 1 THEN NoAddress ELSE s[i - 1].at
               /\ Len(s[i].blocks) = LIST_MAX
               /\ Piece(s[i]) \in pieces'
               /\ \E j \in 1 .. i : s[i].at[1] \in Elements(s[j].blocks)
               /\ Elements(s[i].blocks) \cap Listed' = {}
    BY <1>2, <1>3, <1>7 DEF IsChain
  <2>3. \A i, j \in 1 .. k : (i # j) =>
          s[i].at # s[j].at /\ Elements(s[i].blocks) \cap Elements(s[j].blocks) = {}
    BY <1>3 DEF IsChain
  <2>4. QED
    BY <1>2, <1>4, <2>1, <2>2, <2>3 DEF IsChain
<1>9. Counted'
  <2>1. IsFiniteSet(owned') /\ IsFiniteSet(nodes')
    BY <1>1, <1>2, <1>6, FS_Subset DEF Counted
  <2>2. QED
    BY <1>1, <2>1 DEF Counted
<1>10. Len(want') = 0
  BY <1>1
<1>11. ListOK'
  BY <1>1, <1>2, <1>10 DEF ListOK, structVars
<1>12. NotBegun' /\ oom' \in BOOLEAN
  BY <1>1 DEF KInv, NotBegun, structVars
<1>13. Chained'
  BY <1>8 DEF Chained
<1>14. QED
  BY <1>9, <1>11, <1>12, <1>13 DEF KInv

(* Then the newest list that is left: the others are in blocks of their own *)
(* or of older lists, and not in those that are released with it.           *)
LEMMA ReadListKInv == ASSUME PInv, KInv, ReadList PROVE KInv'
<1>1. /\ releasing /\ lastList # NoAddress /\ releasing' = releasing
      /\ UNCHANGED <<ptr, cnt, subPtr, subCnt, blkCnt, want, releasing, oom>>
  BY DEF ReadList
<1>2. PICK n \in nodes :
        /\ n.at = lastList /\ lastList' = n.next /\ list' = n.blocks
        /\ owned' = owned \ Elements(n.blocks)
        /\ pieces' = {p \in pieces : p[1] \in owned'}
        /\ nodes' = {m \in nodes \ {n} : m.at[1] \in owned'}
  BY DEF ReadList, ReleaseBlocks
<1>3. ListOK /\ Chained /\ Counted /\ Listed = {} /\ Listed' = {}
  BY <1>1 DEF KInv, Listed
<1>4a. PICK k \in Nat : \E s \in [1 .. k -> Node] : IsChain(k, s)
  BY <1>3 DEF Chained
<1>4. PICK s \in [1 .. k -> Node] : IsChain(k, s)
  BY <1>4a
<1>5. k # 0 /\ k \in 1 .. k /\ lastList = s[k].at
  BY <1>1, <1>4 DEF IsChain
<1>6. n = s[k]
  <2>1. PICK i \in 1 .. k : n = s[i]
    BY <1>4 DEF IsChain
  <2>2. s[i].at = s[k].at
    BY <1>2, <1>5, <2>1
  <2>3. i = k
    BY <1>4, <1>5, <2>2 DEF IsChain
  <2>4. QED
    BY <2>1, <2>3
<1>7. PICK h \in Nat : h = k - 1
  BY <1>5
<1>8. PICK t : t = [i \in 1 .. h |-> s[i]]
  OBVIOUS
<1>9. /\ \A i \in 1 .. h : i \in 1 .. k /\ i # k /\ t[i] = s[i]
      /\ \A i \in 1 .. k : i \in 1 .. h \/ i = k
  BY <1>7, <1>8
<1>10. t \in [1 .. h -> Node]
  BY <1>8, <1>9
<1>11. owned' = UNION {Elements(t[i].blocks) : i \in 1 .. h}
  <2>1. owned = UNION {Elements(s[i].blocks) : i \in 1 .. k}
    BY <1>3, <1>4 DEF IsChain
  <2>2. \A i \in 1 .. h : Elements(s[i].blocks) \cap Elements(s[k].blocks) = {}
    BY <1>4, <1>5, <1>9 DEF IsChain
  <2>3. ASSUME NEW x \in owned' PROVE \E i \in 1 .. h : x \in Elements(t[i].blocks)
    <3>1. x \in owned /\ x \notin Elements(s[k].blocks)
      BY <1>2, <1>6
    <3>2. PICK i \in 1 .. k : x \in Elements(s[i].blocks)
      BY <2>1, <3>1
    <3>3. i \in 1 .. h
      BY <1>9, <3>1, <3>2
    <3>4. QED
      BY <1>9, <3>2, <3>3
  <2>4. ASSUME NEW i \in 1 .. h, NEW x \in Elements(t[i].blocks) PROVE x \in owned'
    <3>1. i \in 1 .. k /\ x \in Elements(s[i].blocks)
      BY <1>9, <2>4
    <3>2. x \in owned /\ x \notin Elements(s[k].blocks)
      BY <2>1, <2>2, <3>1
    <3>3. QED
      BY <1>2, <1>6, <3>2
  <2>5. QED
    BY <2>3, <2>4
<1>12. \A i \in 1 .. h : \E j \in 1 .. i : t[i].at[1] \in Elements(t[j].blocks)
  <2> SUFFICES ASSUME NEW i \in 1 .. h
               PROVE  \E j \in 1 .. i : t[i].at[1] \in Elements(t[j].blocks)
    OBVIOUS
  <2>1. i \in 1 .. k /\ t[i] = s[i]
    BY <1>9
  <2>2. PICK j \in 1 .. i : s[i].at[1] \in Elements(s[j].blocks)
    BY <1>4, <2>1 DEF IsChain
  <2>3. j \in 1 .. h
    OBVIOUS
  <2>4. QED
    BY <1>9, <2>1, <2>2, <2>3
<1>13. \A i \in 1 .. h : t[i].at[1] \in owned'
  <2> SUFFICES ASSUME NEW i \in 1 .. h PROVE t[i].at[1] \in owned'
    OBVIOUS
  <2>1. PICK j \in 1 .. i : t[i].at[1] \in Elements(t[j].blocks)
    BY <1>12
  <2>2. j \in 1 .. h
    OBVIOUS
  <2>3. QED
    BY <1>11, <2>1, <2>2
<1>14. nodes' = {t[i] : i \in 1 .. h}
  <2>1. nodes = {s[i] : i \in 1 .. k}
    BY <1>4 DEF IsChain
  <2>2. ASSUME NEW i \in 1 .. h PROVE t[i] \in nodes'
    <3>1. t[i] = s[i] /\ i \in 1 .. k /\ i # k
      BY <1>9
    <3>2. s[i].at # s[k].at
      BY <1>4, <1>5, <3>1 DEF IsChain
    <3>3. t[i] \in nodes \ {n}
      BY <1>6, <2>1, <3>1, <3>2
    <3>4. QED
      BY <1>2, <1>13, <3>3
  <2>3. ASSUME NEW m \in nodes' PROVE \E i \in 1 .. h : m = t[i]
    <3>1. m \in nodes /\ m # s[k]
      BY <1>2, <1>6
    <3>2. PICK i \in 1 .. k : m = s[i]
      BY <2>1, <3>1
    <3>3. QED
      BY <1>9, <3>1, <3>2
  <2>4. QED
    BY <2>2, <2>3
<1>15. IsChain(h, t)'
  <2>1. lastList' = (IF h = 0 THEN NoAddress ELSE t[h].at)
    <3>1. lastList' = IF k = 1 THEN NoAddress ELSE s[k - 1].at
      BY <1>2, <1>4, <1>5, <1>6 DEF IsChain
    <3>2. h # 0 => h \in 1 .. h /\ k # 1
      BY <1>7
    <3>3. QED
      BY <1>7, <1>9, <3>1, <3>2
  <2>2. ASSUME NEW i \in 1 .. h
        PROVE  /\ t[i].next = IF i = 1 THEN NoAddress ELSE t[i - 1].at
               /\ Len(t[i].blocks) = LIST_MAX
               /\ Piece(t[i]) \in pieces'
               /\ \E j \in 1 .. i : t[i].at[1] \in Elements(t[j].blocks)
               /\ Elements(t[i].blocks) \cap Listed' = {}
    <3>1. i \in 1 .. k /\ t[i] = s[i] /\ (i # 1 => i - 1 \in 1 .. h /\ t[i - 1] = s[i - 1])
      BY <1>9
    <3>2. Piece(s[i]) \in pieces /\ Len(s[i].blocks) = LIST_MAX
          /\ s[i].next = IF i = 1 THEN NoAddress ELSE s[i - 1].at
      BY <1>4, <3>1 DEF IsChain
    <3>3. Piece(t[i]) \in pieces'
      BY <1>2, <1>13, <3>1, <3>2 DEF Piece
    <3>4. t[i].next = IF i = 1 THEN NoAddress ELSE t[i - 1].at
      BY <3>1, <3>2
    <3>5. QED
      BY <1>3, <1>12, <3>1, <3>2, <3>3, <3>4
  <2>3. ASSUME NEW i \in 1 .. h, NEW j \in 1 .. h, i # j
        PROVE  t[i].at # t[j].at /\ Elements(t[i].blocks) \cap Elements(t[j].blocks) = {}
    BY <1>4, <1>9, <2>3 DEF IsChain
  <2>4. QED
    BY <1>3, <1>11, <1>14, <2>1, <2>2, <2>3 DEF IsChain
<1>16. Chained'
  BY <1>10, <1>15 DEF Chained
<1>17. Counted'
  <2>1. IsFiniteSet(owned') /\ IsFiniteSet(nodes')
    BY <1>2, <1>3, FS_Subset DEF Counted
  <2>2. QED
    BY <1>1, <2>1 DEF Counted
<1>18. list' \in Seq(Blocks) /\ Len(list') = LIST_MAX
  <2>1. s[k] \in Node /\ Len(s[k].blocks) = LIST_MAX
    BY <1>4, <1>5 DEF IsChain
  <2>2. QED
    BY <1>2, <1>6, <2>1 DEF Node
<1>19. want = <<>> /\ Len(want') = 0
  BY <1>1 DEF PInv, PoolTypes
<1>20. ListOK'
  BY <1>1, <1>18, <1>19, PoolAssumption DEF ListOK
<1>21. NotBegun' /\ oom' \in BOOLEAN
  BY <1>1 DEF KInv, NotBegun
<1>22. QED
  BY <1>16, <1>17, <1>20, <1>21 DEF KInv

(* No list left means that nothing is. *)
LEMMA NoListLeft ==
  ASSUME Chained, lastList = NoAddress
  PROVE  nodes = {} /\ owned = Listed
<1>1a. PICK k \in Nat : \E s \in [1 .. k -> Node] : IsChain(k, s)
  BY DEF Chained
<1>1. PICK s \in [1 .. k -> Node] : IsChain(k, s)
  BY <1>1a
<1>2. k = 0
  <2> SUFFICES ASSUME k # 0 PROVE FALSE
    OBVIOUS
  <2>1. s[k].at = NoAddress /\ s[k] \in Node
    BY <1>1 DEF IsChain
  <2>2. QED
    BY <2>1, NoAddressApart DEF Node
<1>3. 1 .. k = {}
  BY <1>2
<1>4. QED
  BY <1>1, <1>3 DEF IsChain

LEMMA ReleaseDoneKInv == ASSUME PInv, KInv, ReleaseDone PROVE KInv'
<1>1. /\ releasing /\ lastList = NoAddress /\ lastList' = lastList /\ want' = want /\ oom' = oom
      /\ list' = <<>> /\ releasing' = FALSE /\ UNCHANGED memVars /\ want = <<>>
  BY DEF ReleaseDone, PInv, PoolTypes
<1>2. ListOK /\ Chained /\ Counted /\ Listed = {} /\ Listed' = {}
  BY <1>1, ElementsEmpty DEF KInv, Listed
<1>3. nodes = {} /\ owned = {}
  BY <1>1, <1>2, NoListLeft
<1>4. Chained'
  BY <1>1, <1>2, SameChain DEF memVars
<1>5. Counted'
  BY <1>1, <1>2, <1>3, ElementsEmpty, FS_EmptySet, PoolAssumption DEF Counted, memVars
<1>6. Len(want') = 0 /\ Len(list') = 0 /\ list' \in Seq(Blocks)
  BY <1>1
<1>7. ListOK'
  BY <1>6, PoolAssumption DEF ListOK
<1>8. NotBegun'
  BY <1>1, <1>6 DEF NotBegun
<1>9. QED
  BY <1>1, <1>4, <1>5, <1>7, <1>8 DEF KInv

LEMMA StepKInv == PInv /\ KInv /\ [Next]_vars => KInv'
<1> SUFFICES ASSUME PInv, KInv, [Next]_vars PROVE KInv'
  OBVIOUS
<1>1. CASE Request
  <2>1. PICK n \in Sizes : want' = <<n>>
    BY <1>1 DEF Request
  <2>2. Len(want') = 1
    BY <2>1
  <2>3. /\ UNCHANGED <<structVars, memVars, releasing, oom>> /\ want = <<>> /\ ~releasing
    BY <1>1 DEF Request, Ready
  <2>4. Chained'
    BY <2>3, SameChain DEF KInv, structVars, memVars, Listed
  <2>5. Len(want) = 0
    BY <2>3
  <2>6. ListOK' /\ NotBegun' /\ Counted'
    BY <2>2, <2>3, <2>5 DEF KInv, ListOK, NotBegun, Counted, structVars, memVars
  <2>7. QED
    BY <2>3, <2>4, <2>6 DEF KInv
<1>2. CASE OutOfMemory \/ UNCHANGED vars
  <2>1. UNCHANGED <<structVars, memVars, want, releasing>> /\ (oom' = TRUE \/ oom' = oom)
    BY <1>2 DEF OutOfMemory, vars
  <2>2. Chained'
    BY <2>1, SameChain DEF KInv, structVars, memVars, Listed
  <2>3. ListOK' /\ NotBegun' /\ Counted'
    BY <2>1 DEF KInv, ListOK, NotBegun, Counted, structVars, memVars
  <2>4. QED
    BY <2>1, <2>2, <2>3 DEF KInv
<1>3. QED
  BY <1>1, <1>2, HashKInv, UseKInv, FixKInv, ReleaseFirstKInv, ReadListKInv, ReleaseDoneKInv DEF Next

LEMMA PoolInvariant == Spec => [](PInv /\ KInv)
<1>1. QED
  BY InitPInv, StepPInv, InitKInv, StepKInv, PTL DEF Spec

(***************************************************************************)
(* The list that a release reads next is in a block that the pool still    *)
(* has, in a piece that is in use for it.                                  *)
(***************************************************************************)
THEOREM NextListAlive == Spec => []ListAlive
<1>1. KInv => ListAlive
  <2> SUFFICES ASSUME Chained, lastList # NoAddress
               PROVE  \E n \in nodes : n.at = lastList /\ <<n.at[1], n.at[2], NODE_SIZE>> \in pieces
    BY DEF KInv, ListAlive
  <2>1a. PICK k \in Nat : \E s \in [1 .. k -> Node] : IsChain(k, s)
    BY DEF Chained
  <2>1. PICK s \in [1 .. k -> Node] : IsChain(k, s)
    BY <2>1a
  <2>2. k \in 1 .. k /\ s[k].at = lastList
    BY <2>1 DEF IsChain
  <2>3. s[k] \in nodes /\ Piece(s[k]) \in pieces
    BY <2>1, <2>2 DEF IsChain
  <2>4. QED
    BY <2>2, <2>3 DEF Piece
<1>2. QED
  BY PoolInvariant, <1>1, PTL

(***************************************************************************)
(* Every block of the pool is in one list, once; a pool that has been      *)
(* released has none; and the structure is well-formed.                    *)
(***************************************************************************)
THEOREM EveryBlockKept == Spec => []BlocksKept
<1>1. ASSUME PInv, KInv PROVE BlocksKept
  <2>1a. PICK k \in Nat : \E s \in [1 .. k -> Node] : IsChain(k, s)
    BY <1>1 DEF KInv, Chained
  <2>1. PICK s \in [1 .. k -> Node] : IsChain(k, s)
    BY <2>1a
  <2>2. lastList \in Address \union {NoAddress}
    BY <2>1 DEF IsChain, Node
  <2>3. nodes \subseteq Node
    BY <2>1 DEF IsChain
  <2>4. TypeOK
    BY <1>1, <2>2, <2>3 DEF TypeOK, PInv, PoolTypes, KInv, ListOK, Node
  <2>5. EveryBlockListed
    <3> SUFFICES ASSUME ~releasing
                 PROVE  /\ owned = Elements(list) \union UNION {Elements(n.blocks) : n \in nodes}
                        /\ Cardinality(owned) = Len(list) + LIST_MAX * Cardinality(nodes)
      BY DEF EveryBlockListed
    <3>1. owned = Elements(list) \union UNION {Elements(s[i].blocks) : i \in 1 .. k}
      BY <2>1 DEF IsChain, Listed
    <3>2. UNION {Elements(s[i].blocks) : i \in 1 .. k} = UNION {Elements(n.blocks) : n \in nodes}
      <4>1. nodes = {s[i] : i \in 1 .. k}
        BY <2>1 DEF IsChain
      <4>2. \A x : (\E i \in 1 .. k : x \in Elements(s[i].blocks))
                     <=> (\E n \in nodes : x \in Elements(n.blocks))
        BY <4>1
      <4>3. QED
        BY <4>2
    <3>3. QED
      BY <1>1, <3>1, <3>2 DEF KInv, Counted
  <2>6. AllReleased
    <3> SUFFICES ASSUME ~blkCnt PROVE owned = {} /\ pieces = {}
      BY DEF AllReleased
    <3>1. ~releasing /\ list = <<>> /\ lastList = NoAddress /\ Chained
      BY <1>1 DEF KInv, NotBegun
    <3>2. owned = {}
      BY <3>1, NoListLeft, ElementsEmpty DEF Listed
    <3>3. pieces = {}
      BY <1>1, <3>2 DEF PInv, PiecesDisjoint
    <3>4. QED
      BY <3>2, <3>3
  <2>7. QED
    BY <2>4, <2>5, <2>6 DEF BlocksKept
<1>2. QED
  BY PoolInvariant, <1>1, PTL
==============================================================================
