------------------------------- MODULE LibTables -------------------------------
(***************************************************************************)
(* The tables the linker builds when it opens a library: the pages at      *)
(* which modules begin, collected as bits of a map (install/modpagec.c);   *)
(* the ascending list of pages the map gives; how many modules each block  *)
(* of the file holds; the offsets of the modules; and the binary search    *)
(* that turns the page in a dictionary entry into a module number          *)
(* (common/newlibc.c).                                                     *)
(*                                                                         *)
(* A library is a record: page, the pages where its modules begin, in the  *)
(* order the dictionary names them; pageSize, LIB_PAGE_SIZE; dict,         *)
(* DICT_OFFSET, where the last module ends.                                *)
(* Tables of more than one block of entries are sequences of blocks, each  *)
(* of Entries entries.                                                     *)
(***************************************************************************)
EXTENDS Integers, Sequences, FiniteSets, SequencesExt

CONSTANTS
  PAGE_SIZE,   \* bytes of a block of the library, and of a block of storage
  Word         \* bytes of a table entry, 4

ASSUME LibTablesAssumption ==
  /\ PAGE_SIZE \in Nat \ {0} /\ Word \in Nat \ {0}
  /\ PAGE_SIZE % (2 * Word) = 0

Entries == PAGE_SIZE \div Word       \* table entries of a block of storage
Bits    == 8 * Word                  \* bits of a word of the page map

NotFound == -1                       \* LIB1_ERR, the linker stops

\* Op(x), with x bound to a variable: TLC evaluates it once.
Once(Op(_), x) == CHOOSE y \in {Op(v) : v \in {x}} : TRUE

\* Op applied to the elements of q in order, from t on, with Op once for each.
InOrder(Op(_, _), t, q) ==
  LET after[i \in 0 .. Len(q)] ==
        IF i = 0 THEN t ELSE CHOOSE y \in {Op(u, q[i]) : u \in {after[i - 1]}} : TRUE
  IN  after[Len(q)]

\* The elements of q that are in the set, in order.
Those(q, set) ==
  LET those[i \in 0 .. Len(q)] ==
        IF i = 0 THEN <<>> ELSE IF q[i] \in set THEN Append(those[i - 1], q[i]) ELSE those[i - 1]
  IN  those[Len(q)]

RangeOf(q) == {q[i] : i \in DOMAIN q}

------------------------------------------------------------------------------
(* The map of pages.                                                       *)

\* A map is its bits, each the word it is in and its place there, and the
\* highest word that has one.
EmptyMap == [bits |-> {}, max |-> 0]

InstallModulePage(map, p) ==
  LET w == p \div Bits
  IN  [bits |-> map.bits \union {<<w, p % Bits>>},
       max  |-> IF map.max < w THEN w ELSE map.max]

MapOf(pages) == InOrder(InstallModulePage, EmptyMap, pages)

\* The pages the map names: its words up to the highest used, and the bits of
\* each, are gone through in order.
ScanBits(map) ==
  Those([i \in 1 .. (map.max + 1) * Bits |-> i - 1], {x[1] * Bits + x[2] : x \in map.bits})

LIB_MODULES(list) == Len(list) + 1   \* the dictionary counts as one

------------------------------------------------------------------------------
(* How many modules of the library touch each of its blocks: the count is  *)
(* what _dec_lib_block brings to zero before it gives the block back.      *)

Blocks(lib) == (lib.dict + PAGE_SIZE - 1) \div PAGE_SIZE

\* fault: a module that ends where a block does counts the next block too
CountsNextBlock(acc, end) ==
  [count |-> [b \in DOMAIN acc.count |->
                acc.count[b] + IF acc.block <= b /\ b <= end \div PAGE_SIZE THEN 1 ELSE 0],
   block |-> end \div PAGE_SIZE]

\* One end of a module, at offset end, seen from block b with the counts so
\* far: every block the module leaves counts it, and so does the block in
\* which it ends, unless it ends exactly where the block does.
EndOfModule(acc, end) ==
  LET left == (end - 1) \div PAGE_SIZE          \* the block of its last byte
      on   == end \div PAGE_SIZE                \* the block of the next one
  IN  [count |-> [b \in DOMAIN acc.count |->
                    acc.count[b] + IF acc.block <= b /\ b <= left THEN 1 ELSE 0],
       block |-> on]

\* The first end is that of the header before the first module, and does not
\* count.
CountModsPerBlock(lib, list) ==
  LET ends == [i \in 1 .. Len(list) + 1 |->
                 IF i > Len(list) THEN lib.dict ELSE list[i] * lib.pageSize]
      none == [count |-> [b \in 0 .. Blocks(lib) - 1 |-> IF b = 0 THEN -1 ELSE 0], block |-> 0]
  IN  InOrder(EndOfModule, none, ends).count

------------------------------------------------------------------------------
(* The offsets of the modules, the dictionary's after the last.            *)

Chopped(s) ==
  [b \in 1 .. (Len(s) + Entries - 1) \div Entries |->
     SubSeq(s, (b - 1) * Entries + 1,
               IF b * Entries <= Len(s) THEN b * Entries ELSE Len(s))]

\* A short table is one array; from half a block on it is a list of blocks.
DoModulePtrs(lib, list) ==
  LET offsets == [i \in 1 .. LIB_MODULES(list) |->
                    IF i = LIB_MODULES(list) THEN lib.dict ELSE list[i] * lib.pageSize]
      Lay(s) == IF Len(s) < Entries \div 2 THEN [flat |-> TRUE,  blocks |-> <<s>>]
                                            ELSE [flat |-> FALSE, blocks |-> Chopped(s)]
  IN  Once(Lay, offsets)

\* How many entries the table has.
Size(ptrs) == (Len(ptrs.blocks) - 1) * Entries + Len(Last(ptrs.blocks))

\* The offset of module number n.
ModulePtr(ptrs, n) ==
  IF ptrs.flat THEN ptrs.blocks[1][n + 1]
               ELSE ptrs.blocks[(n \div Entries) + 1][(n % Entries) + 1]

------------------------------------------------------------------------------
(* The module that begins at a page.                                       *)

\* The entry of one block that holds val, at, by halving low .. high - 1 until it
\* is found or nothing is left; every turn leaves less.
Halve(tab, val) ==
  LET turn[k \in 0 .. Len(tab)] ==
        LET r   == turn[k - 1]
            mid == r.low + (r.high - r.low) \div 2
        IN  IF k = 0 THEN [low |-> 0, high |-> Len(tab), at |-> NotFound]
            ELSE IF r.low = r.high \/ r.at # NotFound THEN r
            ELSE IF tab[mid + 1] < val THEN [r EXCEPT !.low = mid + 1]
            ELSE IF tab[mid + 1] = val THEN [r EXCEPT !.at = mid]
            ELSE [r EXCEPT !.high = mid]
  IN  turn[Len(tab)].at

\* Of more than one block, the first whose greatest entry is not below the
\* offset is searched, the last one only as far as it is filled.
BinserModule(lib, ptrs, page) ==
  LET val   == page * lib.pageSize
      right == {b \in DOMAIN ptrs.blocks : Last(ptrs.blocks[b]) >= val}
      b     == CHOOSE c \in right : \A d \in right : c <= d
      n     == Halve(ptrs.blocks[b], val)
  IN  IF right = {} THEN NotFound
      ELSE IF n = NotFound THEN NotFound ELSE (b - 1) * Entries + n
================================================================================
