------------------------------ MODULE CvTables ------------------------------
(***************************************************************************)
(* The two lookup tables that follow the symbols of a CodeView section     *)
(* (cv/cvhashesc.c): one finds a symbol by the hash of its name, one by    *)
(* its segment and offset.  A symbol's entry in the list of _store_cv_     *)
(* symbol_info is a record [at, hash, seg, off]: where the symbol stands   *)
(* in the section, and what it is looked up by.                            *)
(***************************************************************************)
EXTENDS Integers, SequencesExt, FiniteSetsExt

CONSTANTS Block,       \* PAGE_SIZE: bytes of a block of memory
          MaxBuckets   \* PAGE_SIZE_8_HASH: the most buckets of eight bytes in a block

ASSUME TablesAssumption ==
  /\ Block \in Nat /\ Block % 16 = 0 /\ Block > 0
  /\ MaxBuckets \in 1..2297       \* the last of CV_PRIMES

-----------------------------------------------------------------------------
(* What is written of a table goes through one block: an item that fills   *)
(* the block sends it to the file, and the rest follows at the end.        *)

Room(bytes) == Block \div bytes

Empty == [block |-> <<>>, file |-> <<>>]

Emit(bytes, b, item) ==
  LET filled == Append(b.block, item)
  IN  IF Len(filled) >= Room(bytes) THEN [block |-> <<>>, file |-> b.file \o filled]
      ELSE [b EXCEPT !.block = filled]

Emptied(b) == b.file \o b.block

Written(bytes, items) == Emptied(FoldLeft(LAMBDA b, item : Emit(bytes, b, item), Empty, items))

-----------------------------------------------------------------------------
(* The table of names. *)

CV_PRIMES == <<1,3,7,13,31,47,61,79,89,109,127,139,157,173,191,199,223,239,251,
  283,317,349,383,409,443,479,509,541,571,607,631,661,701,733,761,797,829,863,887,919,953,991,1021,
  1087,1151,1213,1279,1327,1399,1471,1531,1597,1663,1723,1789,1847,1913,1979,2039,2111,2161,2239,2297>>

BitLength(n) == Cardinality({i \in 0..29 : 2^i <= n})

(* The number of buckets: as many symbols in each as the count has bits    *)
(* beyond seven, but at least three, rounded up to a prime.                *)
Buckets(count) ==
  LET each   == Max({10, BitLength(count)}) - 7
      wanted == Min({count \div each, MaxBuckets})
  IN  CV_PRIMES[Min({i \in DOMAIN CV_PRIMES : CV_PRIMES[i] >= wanted})]

(* Every symbol is put before those of its bucket, from the last to the    *)
(* first.                                                                  *)
Chains(infos) ==
  LET n == Buckets(Len(infos))
  IN  FoldRight(LAMBDA s, chain : [chain EXCEPT ![s.hash % n] = <<s>> \o @], infos, [b \in 0..(n - 1) |-> <<>>])

InOrder(f) == [i \in 1..Cardinality(DOMAIN f) |-> f[i - 1]]

OffsetsOf(counts) == [i \in DOMAIN counts |-> 8 * FoldLeft(+, 0, SubSeq(counts, 1, i - 1))]

NamePair(s) == <<s.at, s.hash>>

DoSymbolHash(infos) ==
  IF infos = <<>> THEN [offsets |-> <<>>, counts |-> <<>>, pairs |-> <<>>, bytes |-> 0]
  ELSE LET chains == InOrder(Chains(infos))
           counts == [i \in DOMAIN chains |-> Len(chains[i])]
           pairs  == Written(8, FoldLeft(LAMBDA all, chain : all \o [i \in DOMAIN chain |-> NamePair(chain[i])], <<>>, chains))
       IN  [offsets |-> OffsetsOf(counts), counts |-> counts, pairs |-> pairs,
            bytes |-> 4 + 8 * Len(counts) + 8 * Len(pairs)]

-----------------------------------------------------------------------------
(* The table of addresses. *)

Lower(s, t) == s.seg < t.seg \/ (s.seg = t.seg /\ s.off <= t.off)

SortHashes(infos) == SortSeq(infos, Lower)

(* Fault: the count of the segment looked for before is raised. *)
CountBefore(counts, s) ==
  LET reached == counts \o [i \in 1..(s.seg - Len(counts)) |-> 0]
  IN  IF s.seg = 0 THEN counts ELSE [reached EXCEPT ![Len(counts)] = @ + 1]

(* A count for each segment up to the one a symbol is in; a constant is in *)
(* segment 0 and is not counted.                                           *)
CountIn(counts, s) ==
  LET reached == counts \o [i \in 1..(s.seg - Len(counts)) |-> 0]
  IN  IF s.seg = 0 THEN counts ELSE [reached EXCEPT ![s.seg] = @ + 1]

AddressPair(s) == <<s.at, s.off>>

DoAddressHash(infos) ==
  IF infos = <<>> THEN [offsets |-> <<>>, counts |-> <<>>, pairs |-> <<>>, bytes |-> 0]
  ELSE LET sorted == SortHashes(infos)
           cseg   == Last(sorted).seg
           counts == SubSeq(FoldLeft(CountIn, <<0>>, sorted), 1, cseg)
           placed == SelectSeq(sorted, LAMBDA s : s.seg # 0)
           pairs  == Written(8, [i \in DOMAIN placed |-> AddressPair(placed[i])])
       IN  [offsets |-> Tail(Written(4, <<cseg>> \o OffsetsOf(counts))), counts |-> counts, pairs |-> pairs,
            bytes |-> 4 + 8 * cseg + 8 * Len(pairs)]

-----------------------------------------------------------------------------
(* A reader of either table: the pairs of the chain (or segment) numbered  *)
(* from one.                                                               *)
Chain(table, i) == SubSeq(table.pairs, table.offsets[i] \div 8 + 1, table.offsets[i] \div 8 + table.counts[i])

Bag(seq) == [x \in Range(seq) |-> Cardinality({i \in DOMAIN seq : seq[i] = x})]

Inside(table, i) == table.offsets[i] \div 8 + table.counts[i] <= Len(table.pairs)

(* Looking a name up leads to the symbols of its hash and to no other      *)
(* bucket's, each once.                                                    *)
NamesFound(table, infos) ==
  /\ infos # <<>> => Len(table.counts) = Buckets(Len(infos))
  /\ Len(table.pairs) = Len(infos)
  /\ \A i \in DOMAIN table.counts :
       LET mine == SelectSeq(infos, LAMBDA s : s.hash % Len(table.counts) = i - 1)
       IN  Inside(table, i) /\ Bag(Chain(table, i)) = Bag([j \in DOMAIN mine |-> NamePair(mine[j])])

(* Looking an address up leads to the symbols of its segment, in the order *)
(* of their offsets.                                                       *)
AddressesFound(table, infos) ==
  /\ Len(table.pairs) = Cardinality({i \in DOMAIN infos : infos[i].seg # 0})
  /\ \A i \in DOMAIN infos : infos[i].seg <= Len(table.counts)
  /\ \A i \in DOMAIN table.counts :
       LET mine  == SelectSeq(infos, LAMBDA s : s.seg = i)
           chain == Chain(table, i)
       IN  /\ Inside(table, i)
           /\ Bag(chain) = Bag([j \in DOMAIN mine |-> AddressPair(mine[j])])
           /\ \A j \in 2..Len(chain) : chain[j - 1][2] <= chain[j][2]
=============================================================================
