------------------------------ MODULE PoolAlloc -------------------------------
(***************************************************************************)
(* The memory pools: an ALLOCS_STRUCT hands out pieces of 16K blocks       *)
(* (alloc/allopoolc.c) that are all released together                      *)
(* (alloc/minidatac.c).  The addresses of the blocks are kept in the       *)
(* structure, eight at most; full lists are written into pieces of the     *)
(* pool's own blocks and chained, and the release has to read them before  *)
(* it lets go of the block they are in.                                    *)
(*                                                                         *)
(* Sizes and offsets are in double words: (EAX + 3) & ~3.  The blocks come *)
(* from BlockCache, where a released block may be overwritten at once.     *)
(***************************************************************************)
EXTENDS Integers, Sequences, FiniteSets

CONSTANTS
  Blocks,      \* what _get_new_phys_blk can return
  PAGE_SIZE,   \* double words in a block, 4096
  LIST_MAX,    \* entries of ALLO_BLK_LIST, 8
  MIN_SUB,     \* smallest left-over worth keeping, 8 (32 bytes)
  HASH_SIZE,   \* hash table at the beginning of some pools, 2048
  Sizes,       \* sizes requested
  Null

NODE_SIZE == LIST_MAX + 1      \* _allo_pool_get1(36, EBX)

ASSUME PoolAssumption ==
  /\ PAGE_SIZE \in Nat /\ MIN_SUB \in Nat \ {0}
  /\ LIST_MAX \in Nat \ {0, 1}
  /\ NODE_SIZE <= PAGE_SIZE
  /\ HASH_SIZE \in 1 .. PAGE_SIZE
  /\ Sizes \subseteq 1 .. PAGE_SIZE
  /\ Null \notin Blocks

Address == Blocks \X (0 .. PAGE_SIZE)
NoAddress == <<Null, 0>>

Elements(s) == {s[i] : i \in DOMAIN s}

VARIABLES
  ptr, cnt,          \* ALLO_PTR, ALLO_CNT
  subPtr, subCnt,    \* ALLO_SUB_PTR, ALLO_SUB_CNT
  blkCnt,            \* ALLO_BLK_CNT # 0
  list,              \* ALLO_BLK_LIST up to ALLO_NEXT_BLK
  lastList,          \* ALLO_LAST_LIST
  nodes,             \* lists that are intact in memory, by address
  pieces,            \* <<block, offset, size>> in use, by callers or for lists
  owned,             \* blocks that the pool has got and not released
  want,              \* sizes being requested: a caller's, and a list's within it
  releasing,         \* in _release_minidata, between two lists
  oom                \* _get_new_phys_blk did not return

structVars == <<ptr, cnt, subPtr, subCnt, blkCnt, list, lastList>>
memVars    == <<nodes, pieces, owned>>
vars       == <<structVars, memVars, want, releasing, oom>>

(* An ALLOCS_STRUCT of zeroes. *)
Init ==
  /\ ptr = NoAddress /\ cnt = 0
  /\ subPtr = NoAddress /\ subCnt = 0
  /\ blkCnt = FALSE
  /\ list = <<>>
  /\ lastList = NoAddress
  /\ nodes = {}
  /\ pieces = {}
  /\ owned = {}
  /\ want = <<>>
  /\ releasing = FALSE
  /\ oom = FALSE

Ready == want = <<>> /\ ~releasing /\ ~oom

------------------------------------------------------------------------------
(* _common_inst_init: the pool begins with a hash table. *)
CommonInstInit ==
  /\ Ready /\ ~blkCnt
  /\ \E b \in Blocks \ owned :
       /\ owned' = owned \union {b}
       /\ list' = <<b>>
       /\ ptr' = <<b, HASH_SIZE>>
       /\ pieces' = pieces \union {<<b, 0, HASH_SIZE>>}
  /\ cnt' = PAGE_SIZE - HASH_SIZE
  /\ blkCnt' = TRUE
  /\ UNCHANGED <<subPtr, subCnt, lastList, nodes, want, releasing, oom>>

(* _allo_pool_get1 is called. *)
Request ==
  /\ Ready
  /\ \E n \in Sizes : want' = <<n>>
  /\ UNCHANGED <<structVars, memVars, releasing, oom>>

Wanted == want[Len(want)]
NotAdvanced(p, n) == p                        \* fault: the same address returned twice
Advance(p, n) == <<p[1], p[2] + n>>

SkipsFirst(p)  == [at |-> p, next |-> lastList, blocks |-> Tail(list)] \* fault: copied from [1]
ListNode(p)    == [at |-> p, next |-> lastList, blocks |-> list]

KeepsNewest == <<list[Len(list)]>>            \* fault: ALLO_NEXT_BLK one too high
AfterSave   == <<>>                           \* &ALLO_BLK_LIST[0], all zero

(* The piece at p is returned: to the caller, or to _ap_fix, which stores  *)
(* the list of blocks there.                                               *)
Deliver(p) ==
  /\ pieces' = pieces \union {<<p[1], p[2], Wanted>>}
  /\ want' = SubSeq(want, 1, Len(want) - 1)
  /\ IF Len(want) = 2
       THEN /\ nodes' = nodes \union {ListNode(p)}
            /\ lastList' = p
            /\ list' = AfterSave
       ELSE UNCHANGED <<nodes, lastList, list>>

(* From a left-over piece, ... *)
UseSub ==
  /\ want # <<>>
  /\ Wanted <= subCnt
  /\ subCnt' = subCnt - Wanted
  /\ subPtr' = Advance(subPtr, Wanted)
  /\ Deliver(subPtr)
  /\ UNCHANGED <<ptr, cnt, blkCnt, owned, releasing, oom>>

(* ... from the current block, ... *)
UseBlock ==
  /\ want # <<>>
  /\ Wanted > subCnt /\ Wanted <= cnt
  /\ cnt' = cnt - Wanted
  /\ ptr' = Advance(ptr, Wanted)
  /\ Deliver(ptr)
  /\ UNCHANGED <<subPtr, subCnt, blkCnt, owned, releasing, oom>>

(* _ap_fix: is what is left of the block better than the old left-over? *)
Better == cnt >= MIN_SUB /\ subCnt <= cnt

Complete(s) == Len(s) = LIST_MAX

(* ... or from a new block.  The eighth one makes the list complete. *)
ApFix ==
  /\ want # <<>> /\ ~oom
  /\ Wanted > subCnt /\ Wanted > cnt
  /\ IF Better THEN subCnt' = cnt /\ subPtr' = ptr ELSE UNCHANGED <<subCnt, subPtr>>
  /\ \E b \in Blocks \ owned :
       /\ owned' = owned \union {b}
       /\ ptr' = <<b, 0>>
       /\ list' = Append(list, b)
  /\ cnt' = PAGE_SIZE
  /\ blkCnt' = TRUE
  /\ want' = IF Complete(list') THEN Append(want, NODE_SIZE) ELSE want
  /\ UNCHANGED <<lastList, nodes, pieces, releasing, oom>>

OutOfMemory ==
  /\ want # <<>> /\ ~oom
  /\ Wanted > subCnt /\ Wanted > cnt
  /\ owned = Blocks
  /\ oom' = TRUE
  /\ UNCHANGED <<structVars, memVars, want, releasing>>

------------------------------------------------------------------------------
(* _release_minidata: the blocks of the list in the structure, whose       *)
(* contents are then anybody's.                                            *)
ReleaseBlocks(blocks) ==
  /\ owned' = owned \ Elements(blocks)
  /\ pieces' = {p \in pieces : p[1] \in owned'}

ReleaseFirst ==
  /\ Ready /\ blkCnt
  /\ ReleaseBlocks(list)
  /\ nodes' = {n \in nodes : n.at[1] \in owned'}
  /\ releasing' = TRUE
  /\ UNCHANGED <<structVars, want, oom>>

(* The next list is copied out of its block, then its blocks are released. *)
ReadList ==
  /\ releasing /\ lastList # NoAddress
  /\ \E n \in nodes :
       /\ n.at = lastList
       /\ lastList' = n.next
       /\ list' = n.blocks
       /\ ReleaseBlocks(n.blocks)
       /\ nodes' = {m \in nodes \ {n} : m.at[1] \in owned'}
  /\ UNCHANGED <<ptr, cnt, subPtr, subCnt, blkCnt, want, releasing, oom>>

(* memset of the structure *)
ReleaseDone ==
  /\ releasing /\ lastList = NoAddress
  /\ ptr' = NoAddress /\ cnt' = 0
  /\ subPtr' = NoAddress /\ subCnt' = 0
  /\ blkCnt' = FALSE
  /\ list' = <<>>
  /\ releasing' = FALSE
  /\ UNCHANGED <<lastList, memVars, want, oom>>

Next ==
  \/ CommonInstInit \/ Request \/ UseSub \/ UseBlock \/ ApFix \/ OutOfMemory
  \/ ReleaseFirst \/ ReadList \/ ReleaseDone

Spec == Init /\ [][Next]_vars

------------------------------------------------------------------------------
Extents == Blocks \X (0 .. PAGE_SIZE) \X (1 .. PAGE_SIZE)

TypeOK ==
  /\ ptr \in Address \union {NoAddress} /\ cnt \in 0 .. PAGE_SIZE
  /\ subPtr \in Address \union {NoAddress} /\ subCnt \in 0 .. PAGE_SIZE
  /\ blkCnt \in BOOLEAN
  /\ list \in Seq(Blocks) /\ Len(list) <= LIST_MAX
  /\ lastList \in Address \union {NoAddress}
  /\ nodes \subseteq [at : Address, next : Address \union {NoAddress}, blocks : Seq(Blocks)]
  /\ pieces \subseteq Extents
  /\ owned \subseteq Blocks
  /\ want \in Seq(1 .. PAGE_SIZE) /\ Len(want) <= 2
  /\ releasing \in BOOLEAN /\ oom \in BOOLEAN

Overlap(p, q) == p[1] = q[1] /\ p[2] < q[2] + q[3] /\ q[2] < p[2] + p[3]

(* No two pieces in use overlap, none reaches over the end of its block or *)
(* lies in a block that the pool has released or never had.                *)
PiecesDisjoint ==
  /\ \A p, q \in pieces : Overlap(p, q) => p = q
  /\ \A p \in pieces : p[2] + p[3] <= PAGE_SIZE /\ p[1] \in owned

(* Every block is in one list once, the one in the structure or one that   *)
(* is kept in memory, so that the release returns it exactly once.         *)
EveryBlockListed ==
  ~releasing =>
    /\ owned = Elements(list) \union UNION {Elements(n.blocks) : n \in nodes}
    /\ Cardinality(owned) = Len(list) + LIST_MAX * Cardinality(nodes)

(* The list that the release reads next is in a block that it has not      *)
(* released yet, and nothing else has been put there.                      *)
ListAlive ==
  lastList # NoAddress =>
    \E n \in nodes :
      /\ n.at = lastList
      /\ <<n.at[1], n.at[2], NODE_SIZE>> \in pieces

(* A pool that has been released has nothing left. *)
AllReleased == ~blkCnt => owned = {} /\ pieces = {}

(* A block is listed from the moment the pool has it and released once.    *)
BlocksKept == TypeOK /\ EveryBlockListed /\ AllReleased
==============================================================================
