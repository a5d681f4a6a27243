--------------------------- MODULE CvSymbolsProofs ----------------------------
(***************************************************************************)
(* The symbols of a CodeView section, for every size of block and page,    *)
(* every Slack and every order of symbols of whatever lengths a block      *)
(* holds (CvSymbols.tla): the buffer is never filled past its block        *)
(* (BufferNeverOverrun), no symbol that fits a page crosses one            *)
(* (PagesAlwaysHold), every symbol stands where the tables say             *)
(* (SymbolsAlwaysFound), the global list keeps what it is offered          *)
(* (GlobalsAlwaysKept), and the directory is whole and says where the       *)
(* sections stand (DirectoryAlwaysRight).                                  *)
(*                                                                         *)
(* BInv is the buffer as lengths; SInv adds where its records are, WInv    *)
(* the words of the directory, DInv the places of its entries, and GInv is *)
(* of the global list alone.                                               *)
(***************************************************************************)
EXTENDS CvSymbols, SequenceTheorems, WellFoundedInduction, TLAPS

(* A record of the buffer, in the bytes that are filled. *)
RecordIn(r, end) ==
  /\ r.at \in Nat /\ r.size \in Nat
  /\ r.at + r.size <= end

IsOutput(o) == DOMAIN o = {"high", "base", "put", "bytes", "most", "wrote", "page"}

(* What the code keeps of a buffer between two symbols: it is filled at    *)
(* most to its end, wherever its limit is.                                 *)
BufferOK(o) ==
  /\ IsOutput(o)
  /\ o.bytes \in 0 .. Block /\ o.most \in 0 .. Block /\ o.page \in Nat
  /\ \A r \in o.put : RecordIn(r, o.bytes)

(* The global list is given out in its order, by the number of symbols     *)
(* stored so far.                                                          *)
ListsOK ==
  /\ gsyms \in Seq(Globals)
  /\ \E S : infos \in Seq(S)

BInv == BufferOK(out) /\ ListsOK

LEMMA MaxOfTwo ==
  ASSUME NEW a \in Int, NEW b \in Int
  PROVE  Max({a, b}) = IF a >= b THEN a ELSE b
<1>1. \E x \in {a, b} : \A y \in {a, b} : x >= y
  <2>1. CASE a >= b
    BY <2>1
  <2>2. CASE ~(a >= b)
    BY <2>2
  <2> QED
    BY <2>1, <2>2
<1>2. Max({a, b}) \in {a, b} /\ \A y \in {a, b} : Max({a, b}) >= y
  BY <1>1 DEF Max
<1> QED
  BY <1>2

LEMMA AlignedBy4 ==
  ASSUME NEW n \in Nat
  PROVE  Aligned(n) \in Nat /\ Aligned(n) >= 2
<1>1. (2 - n) % 4 \in 0 .. 3
  OBVIOUS
<1> QED
  BY <1>1 DEF Aligned

LEMMA FlushKeeps ==
  ASSUME NEW o, BufferOK(o)
  PROVE  /\ BufferOK(FlushTemp(o)) /\ FlushTemp(o).bytes = 0 /\ FlushTemp(o).page = o.page
<1>1. /\ IsOutput(FlushTemp(o))
      /\ FlushTemp(o).put = {} /\ FlushTemp(o).bytes = 0
      /\ FlushTemp(o).most = o.most /\ FlushTemp(o).page = o.page
  BY DEF FlushTemp, BufferOK, IsOutput
<1> QED
  BY <1>1, TablesAssumption DEF BufferOK

(* The buffer is written if what comes would not fit. *)
LEMMA FittingMakesRoom ==
  ASSUME NEW o, BufferOK(o), NEW n \in 0 .. Block
  PROVE  /\ BufferOK(Fitting(o, n)) /\ Fitting(o, n).bytes + n <= Block /\ Fitting(o, n).page = o.page
<1>1. CASE o.bytes + n > Block
  BY <1>1, FlushKeeps, TablesAssumption DEF Fitting, FlushIf
<1>2. CASE ~(o.bytes + n > Block)
  BY <1>2, TablesAssumption DEF Fitting, FlushIf, BufferOK
<1> QED
  BY <1>1, <1>2

LEMMA PutKeeps ==
  ASSUME NEW o, BufferOK(o), NEW n \in 0 .. Block, NEW sym, o.bytes + n <= Block
  PROVE  BufferOK(PutRecord(o, n, sym)) /\ PutRecord(o, n, sym).page = o.page
<1> DEFINE new == [at |-> o.bytes, size |-> n, sym |-> sym]
           p   == PutRecord(o, n, sym)
<1>1. /\ IsOutput(p)
      /\ p.put = o.put \cup {new} /\ p.bytes = o.bytes + n
      /\ p.most = Max({o.most, o.bytes + n}) /\ p.page = o.page
  BY DEF PutRecord, BufferOK, IsOutput
<1>2. o.bytes \in Nat /\ o.most \in Nat /\ o.most <= Block /\ n \in Nat /\ o.page \in Nat
  BY TablesAssumption DEF BufferOK
<1>3. Max({o.most, o.bytes + n}) \in 0 .. Block
  BY <1>2, MaxOfTwo, TablesAssumption
<1>4. p.bytes \in 0 .. Block
  BY <1>1, <1>2, TablesAssumption
<1>5. ASSUME NEW r \in p.put PROVE RecordIn(r, p.bytes)
  <2>1. CASE r \in o.put
    <3>1. r.at \in Nat /\ r.size \in Nat /\ r.at + r.size <= o.bytes
      BY <2>1 DEF BufferOK, RecordIn
    <3> QED
      BY <3>1, <1>1, <1>2 DEF RecordIn
  <2>2. CASE r = new
    <3>1. r.at = o.bytes /\ r.size = n
      BY <2>2
    <3>2. p.bytes = o.bytes + n
      BY <1>1
    <3> QED
      BY <3>1, <3>2, <1>2 DEF RecordIn
  <2> QED
    BY <1>1, <2>1, <2>2
<1>7. p.most \in 0 .. Block /\ p.page = o.page
  BY <1>1, <1>3
<1> HIDE DEF p
<1>8. BufferOK(p)
  BY <1>2, <1>4, <1>5, <1>1, <1>7 DEF BufferOK
<1> QED
  BY <1>7, <1>8 DEF p

LEMMA SpillKeeps ==
  ASSUME NEW o, BufferOK(o)
  PROVE  BufferOK(Spilled(o)) /\ Spilled(o).page = o.page
<1> QED
  BY FlushKeeps DEF Spilled, FlushIf

(* Filling the rest of a page, which is shorter than the buffer. *)
LEMMA PadKeeps ==
  ASSUME NEW o, BufferOK(o), NEW n \in Nat, o.page < Page
  PROVE  BufferOK(Padded(o, n))
<1> DEFINE rest == Page - o.page
           p    == Spilled(PutRecord(Fitting(o, rest), rest, S_ALIGN))
<1>1. rest \in 0 .. Block
  BY SymbolsAssumption, TablesAssumption DEF BufferOK
<1>2. BufferOK(Fitting(o, rest)) /\ Fitting(o, rest).bytes + rest <= Block
  BY <1>1, FittingMakesRoom
<1>3. BufferOK(p)
  BY <1>1, <1>2, PutKeeps, SpillKeeps
<1>4. Padded(o, n) = [p EXCEPT !.page = n]
  BY DEF Padded
<1> HIDE DEF p
<1>5. /\ IsOutput(Padded(o, n)) /\ Padded(o, n).page = n
      /\ Padded(o, n).put = p.put /\ Padded(o, n).bytes = p.bytes /\ Padded(o, n).most = p.most
  BY <1>3, <1>4 DEF BufferOK, IsOutput
<1> QED
  BY <1>3, <1>5 DEF BufferOK

LEMMA PagedKeeps ==
  ASSUME NEW o, BufferOK(o), NEW n \in Nat, NEW align \in BOOLEAN, ~Overruns(align, o, n)
  PROVE  BufferOK(Paged(align, o, n))
<1>1. CASE ~align
  BY <1>1 DEF Paged
<1>2. CASE align /\ NeedsPage(o, n)
  <2>1. o.page < Page
    BY <1>2, SymbolsAssumption DEF Overruns, BufferOK
  <2> QED
    BY <1>2, <2>1, PadKeeps DEF Paged
<1>3. CASE align /\ ~NeedsPage(o, n)
  <2> DEFINE g == [o EXCEPT !.page = (@ + n) % Page]
  <2>1. /\ IsOutput(g) /\ g.page = (o.page + n) % Page
        /\ g.put = o.put /\ g.bytes = o.bytes /\ g.most = o.most
    BY DEF BufferOK, IsOutput
  <2>3. Paged(align, o, n) = g
    BY <1>3 DEF Paged, Counted
  <2>2. (o.page + n) % Page \in Nat
    BY SymbolsAssumption DEF BufferOK
  <2> QED
    BY <2>1, <2>2, <2>3 DEF BufferOK
<1> QED
  BY <1>1, <1>2, <1>3

(***************************************************************************)
(* A symbol that fits a block leaves the buffer within it.                 *)
(***************************************************************************)
LEMMA OutputKeeps ==
  ASSUME NEW o, BufferOK(o), NEW n \in 0 .. Block, NEW align \in BOOLEAN, ~Overruns(align, o, n), NEW sym
  PROVE  BufferOK(OutputSymbol(align, o, n, sym))
<1>1. n \in Nat
  BY TablesAssumption
<1>2. BufferOK(Paged(align, o, n))
  BY <1>1, PagedKeeps
<1> DEFINE g == Paged(align, o, n)
<1> HIDE DEF g
<1>3. BufferOK(Fitting(g, n)) /\ Fitting(g, n).bytes + n <= Block
  BY <1>2, FittingMakesRoom DEF g
<1>4. BufferOK(PutRecord(Fitting(g, n), n, sym))
  BY <1>3, PutKeeps
<1> QED
  BY <1>4, SpillKeeps DEF OutputSymbol, Stored, g

LEMMA OpenedOK ==
  ASSUME NEW high
  PROVE  BufferOK(Opened(high))
<1> QED
  BY TablesAssumption DEF Opened, BufferOK, IsOutput

(* The end of the file is moved by what is written beside the buffer. *)
LEMMA HighOnly ==
  ASSUME NEW o, BufferOK(o), NEW h
  PROVE  BufferOK([o EXCEPT !.high = h])
<1> DEFINE g == [o EXCEPT !.high = h]
<1>1. /\ IsOutput(g) /\ g.put = o.put /\ g.bytes = o.bytes /\ g.most = o.most /\ g.page = o.page
  BY DEF BufferOK, IsOutput
<1> QED
  BY <1>1 DEF BufferOK

-----------------------------------------------------------------------------
LEMMA InitBInv == Init => BInv
<1> SUFFICES ASSUME Init PROVE BInv
  OBVIOUS
<1>1. out = Opened(0) /\ gsyms = <<>> /\ infos = <<>>
  BY DEF Init
<1>2. BufferOK(out)
  BY <1>1, OpenedOK
<1>3. gsyms \in Seq(Globals) /\ infos \in Seq(Globals)
  BY <1>1, EmptySeq
<1> QED
  BY <1>2, <1>3 DEF BInv, ListsOK

(* The offset of the next symbol's list entry may be of any kind: the list *)
(* stays a sequence.                                                       *)
LEMMA InfosGrow ==
  ASSUME ListsOK, NEW x, infos' = Append(infos, x), gsyms' = gsyms
  PROVE  ListsOK'
<1>1. PICK S : infos \in Seq(S)
  BY DEF ListsOK
<1>2. infos \in Seq(S \cup {x})
  <2>1. S \subseteq S \cup {x}
    OBVIOUS
  <2>2. infos \in [1 .. Len(infos) -> S] /\ Len(infos) \in Nat
    BY <1>1, LenProperties
  <2>3. infos \in [1 .. Len(infos) -> S \cup {x}]
    BY <2>2
  <2> QED
    BY <2>2, <2>3, SeqDef
<1>3. Append(infos, x) \in Seq(S \cup {x})
  BY <1>2, AppendProperties
<1> QED
  BY <1>3 DEF ListsOK

LEMMA PutKeepsInv ==
  ASSUME BInv, NEW align \in BOOLEAN, NEW s \in Publics \cup Globals \cup Statics, Put(align, s),
         gsyms' = gsyms
  PROVE  BInv'
<1> DEFINE o == InitHashes.out
           n == Aligned(s.len)
<1>1. n \in 0 .. Block
  <2>1. s.len \in Nat /\ n <= Block
    BY SymbolsFit
  <2> QED
    BY <2>1, AlignedBy4, TablesAssumption
<1>2. BufferOK(o)
  <2>1. CASE open
    BY <2>1 DEF InitHashes, BInv
  <2>2. CASE ~open
    BY <2>2, OpenedOK DEF InitHashes
  <2> QED
    BY <2>1, <2>2
<1> HIDE DEF n, o
<1>3. CASE Overruns(align, o, n)
  <2>1. out' = out /\ infos' = infos
    BY <1>3 DEF Put, o, n
  <2> QED
    BY <2>1 DEF BInv, ListsOK
<1>4. CASE ~Overruns(align, o, n)
  <2>1. out' = OutputSymbol(align, o, n, s)
    BY <1>4 DEF Put, o, n
  <2>2. BufferOK(out)'
    BY <1>1, <1>2, <1>4, <2>1, OutputKeeps
  <2>3. \E x : infos' = Append(infos, x)
    BY <1>4 DEF Put, o, n
  <2> QED
    BY <2>2, <2>3, InfosGrow DEF BInv
<1> QED
  BY <1>3, <1>4

(* A symbol to be put out is one of the list, which the symbols stored so  *)
(* far do not exhaust.                                                     *)
LEMMA NextGlobal ==
  ASSUME ListsOK, Len(infos) < Len(gsyms)
  PROVE  gsyms[Len(infos) + 1] \in Globals
<1>1. Len(infos) \in Nat
  BY LenProperties DEF ListsOK
<1>2. gsyms \in [1 .. Len(gsyms) -> Globals] /\ Len(gsyms) \in Nat
  BY LenProperties DEF ListsOK
<1> QED
  BY <1>1, <1>2

LEMMA EndSectionBInv ==
  ASSUME BInv, EndSection
  PROVE  BInv'
<1> DEFINE align == stage # "static"
<1>1. CASE Overruns(align, out, 8)
  BY <1>1 DEF EndSection, BInv, ListsOK
<1>2. CASE ~Overruns(align, out, 8)
  <2>1. FlushSymbolHashes(FlushTemp(Terminated(align))) /\ infos' = <<>> /\ gsyms' = gsyms
    BY <1>2 DEF EndSection
  <2>2. 8 \in 0 .. Block
    BY SymbolsAssumption, TablesAssumption
  <2>3. BufferOK(Terminated(align))
    BY <1>2, <2>2, OutputKeeps DEF Terminated, BInv
  <2> DEFINE o == FlushTemp(Terminated(align))
  <2>4. BufferOK(o)
    BY <2>3, FlushKeeps
  <2> HIDE DEF o
  <2>5. \E h : out' = [o EXCEPT !.high = h]
    BY <2>1 DEF FlushSymbolHashes, o
  <2>6. BufferOK(out)'
    BY <2>4, <2>5, HighOnly
  <2>7. <<>> \in Seq(Globals)
    BY EmptySeq
  <2> QED
    BY <2>1, <2>6, <2>7 DEF BInv, ListsOK
<1> QED
  BY <1>1, <1>2

LEMMA NextBInv == BInv /\ [Next]_vars => BInv'
<1> SUFFICES ASSUME BInv, [Next]_vars PROVE BInv'
  OBVIOUS
<1>1. CASE WriteModule
  <2>1. (\E h : out' = [out EXCEPT !.high = h]) /\ gsyms' = gsyms /\ infos' = infos
    BY <1>1 DEF WriteModule, Another
  <2> QED
    BY <2>1, HighOnly DEF BInv, ListsOK
<1>2. CASE WriteSegments
  <2>1. (\E h : out' = [out EXCEPT !.high = h]) /\ gsyms' = gsyms /\ infos' = infos
    BY <1>2 DEF WriteSegments
  <2> QED
    BY <2>1, HighOnly DEF BInv, ListsOK
<1>3. CASE FlushIndexes
  <2>1. (\E h : out' = [out EXCEPT !.high = h]) /\ gsyms' = gsyms /\ infos' = infos
    BY <1>3 DEF FlushIndexes
  <2> QED
    BY <2>1, HighOnly DEF BInv, ListsOK
<1>4. CASE EndModules \/ EndInstall \/ SkipSection \/ UNCHANGED vars
  BY <1>4 DEF EndModules, EndInstall, SkipSection, vars, BInv, ListsOK
<1>5. ASSUME NEW s \in Globals, InstallGlobalsym(s) PROVE BInv'
  <2>1. out' = out /\ infos' = infos /\ gsyms' \in {gsyms, Append(gsyms, s)}
    BY <1>5 DEF InstallGlobalsym, Installed
  <2>2. gsyms' \in Seq(Globals)
    BY <2>1, AppendProperties DEF BInv, ListsOK
  <2> QED
    BY <2>1, <2>2 DEF BInv, ListsOK
<1>6. ASSUME NEW s \in Publics, PutPublic(s) PROVE BInv'
  BY <1>6, PutKeepsInv DEF PutPublic
<1>7. CASE PutGlobal
  <2>1. gsyms[Len(infos) + 1] \in Globals
    BY <1>7, NextGlobal DEF PutGlobal, BInv
  <2> QED
    BY <1>7, <2>1, PutKeepsInv DEF PutGlobal
<1>8. ASSUME NEW s \in Statics, PutStatic(s) PROVE BInv'
  BY <1>8, PutKeepsInv DEF PutStatic
<1>9. CASE EndSection
  BY <1>9, EndSectionBInv
<1> QED
  BY <1>1, <1>2, <1>3, <1>4, <1>5, <1>6, <1>7, <1>8, <1>9 DEF Next

(***************************************************************************)
(* _output_cv_symbol_align never writes past its block, whatever the order *)
(* of long symbols and of the padding between them: the checks before each *)
(* copy are enough without the room CVG_PUT_LIMIT was to keep.  What is    *)
(* left is the padding whose length wraps (NeverFaults).                   *)
(***************************************************************************)
THEOREM BufferNeverOverrun == Spec => []BufferKept
<1>1. BInv => BufferKept
  BY TablesAssumption DEF BInv, BufferOK, BufferKept, RecordIn
<1> QED
  BY InitBInv, NextBInv, <1>1, PTL DEF Spec

-----------------------------------------------------------------------------
(* The places of a section.  Recs are its records, in the file and in the  *)
(* buffer, and End is where the next will begin.                           *)
Recs(o) == o.wrote \cup Moved(o)

End(o) == o.high - o.base + o.bytes

IsRecord(r) == DOMAIN r = {"at", "size", "sym"}

PlacesOK(o) ==
  /\ BufferOK(o)
  /\ o.high \in Nat /\ o.base \in Nat /\ o.base <= o.high
  /\ \A r \in o.put : IsRecord(r)

(* g is o with a record more. *)
Adds(g, o, n, sym) ==
  /\ PlacesOK(g) /\ g.base = o.base
  /\ Recs(g) = Recs(o) \cup {[at |-> End(o), size |-> n, sym |-> sym]}
  /\ End(g) = End(o) + n

LEMMA EndIsNat == ASSUME NEW o, PlacesOK(o) PROVE End(o) \in Nat
<1>1. o.bytes \in Nat /\ o.high \in Nat /\ o.base \in Nat /\ o.base <= o.high
  BY TablesAssumption DEF PlacesOK, BufferOK
<1> QED
  BY <1>1 DEF End

(* Writing the buffer moves no record: a place counts from the section.    *)
LEMMA FlushPlaces ==
  ASSUME NEW o, PlacesOK(o)
  PROVE  /\ PlacesOK(FlushTemp(o)) /\ FlushTemp(o).base = o.base
         /\ Recs(FlushTemp(o)) = Recs(o) /\ End(FlushTemp(o)) = End(o)
         /\ FlushTemp(o).wrote = Recs(o)
<1> DEFINE g == FlushTemp(o)
<1>1. o.bytes \in Nat /\ o.high \in Nat /\ o.base \in Nat /\ o.base <= o.high
  BY TablesAssumption DEF PlacesOK, BufferOK
<1>2. /\ g.wrote = o.wrote \cup Moved(o) /\ g.high = o.high + o.bytes
      /\ g.put = {} /\ g.bytes = 0 /\ g.base = o.base
  BY DEF FlushTemp, PlacesOK, BufferOK, IsOutput
<1>3. BufferOK(g)
  BY FlushKeeps DEF PlacesOK
<1> HIDE DEF g
<1>4. Moved(g) = {}
  BY <1>2 DEF Moved
<1> QED
  BY <1>1, <1>2, <1>3, <1>4 DEF PlacesOK, Recs, End, g

LEMMA FlushIfPlaces ==
  ASSUME NEW o, PlacesOK(o), NEW full
  PROVE  /\ PlacesOK(FlushIf(o, full)) /\ FlushIf(o, full).base = o.base
         /\ Recs(FlushIf(o, full)) = Recs(o) /\ End(FlushIf(o, full)) = End(o)
<1>1. CASE full
  BY <1>1, FlushPlaces DEF FlushIf
<1>2. CASE ~full
  BY <1>2 DEF FlushIf
<1> QED
  BY <1>1, <1>2

LEMMA PutPlaces ==
  ASSUME NEW o, PlacesOK(o), NEW n \in 0 .. Block, NEW sym, o.bytes + n <= Block
  PROVE  Adds(PutRecord(o, n, sym), o, n, sym)
<1> DEFINE g   == PutRecord(o, n, sym)
           new == [at |-> o.bytes, size |-> n, sym |-> sym]
           to  == [at |-> End(o), size |-> n, sym |-> sym]
<1>1. o.bytes \in Nat /\ o.high \in Nat /\ o.base \in Nat /\ o.base <= o.high /\ n \in Nat
  BY TablesAssumption DEF PlacesOK, BufferOK
<1>2. /\ g.wrote = o.wrote /\ g.high = o.high /\ g.base = o.base
      /\ g.put = o.put \cup {new} /\ g.bytes = o.bytes + n
  BY DEF PutRecord, PlacesOK, BufferOK, IsOutput
<1>3. BufferOK(g)
  BY PutKeeps DEF PlacesOK
<1>4. IsRecord(new)
  BY DEF IsRecord
<1> HIDE DEF g
<1>5. [new EXCEPT !.at = @ + (o.high - o.base)] = to
  <2>1. o.bytes + (o.high - o.base) = End(o)
    BY <1>1 DEF End
  <2>2. new.at = o.bytes
    OBVIOUS
  <2> QED
    BY <2>1, <2>2
<1> HIDE DEF new, to
<1>6. Moved(g) = Moved(o) \cup {to}
  <2>1. Moved(g) = {[r EXCEPT !.at = @ + (o.high - o.base)] : r \in o.put \cup {new}}
    BY <1>2 DEF Moved
  <2> QED
    BY <2>1, <1>5 DEF Moved
<1>7. Recs(g) = Recs(o) \cup {to}
  BY <1>2, <1>6 DEF Recs
<1>8. End(g) = End(o) + n
  BY <1>1, <1>2 DEF End
<1>9. PlacesOK(g)
  BY <1>1, <1>2, <1>3, <1>4 DEF PlacesOK
<1> QED
  BY <1>2, <1>7, <1>8, <1>9 DEF Adds, g, to

LEMMA StoredPlaces ==
  ASSUME NEW o, PlacesOK(o), NEW n \in 0 .. Block, NEW sym
  PROVE  Adds(Stored(o, n, sym), o, n, sym) /\ Stored(o, n, sym).page = o.page
<1> DEFINE f == Fitting(o, n)
           p == PutRecord(f, n, sym)
<1>1. PlacesOK(f) /\ f.base = o.base /\ Recs(f) = Recs(o) /\ End(f) = End(o)
  BY FlushIfPlaces DEF Fitting
<1>2. f.bytes + n <= Block /\ f.page = o.page
  BY FittingMakesRoom DEF PlacesOK
<1> HIDE DEF f
<1>3. Adds(p, f, n, sym)
  BY <1>1, <1>2, PutPlaces
<1>4. p.page = o.page
  BY <1>1, <1>2, PutKeeps DEF PlacesOK
<1> HIDE DEF p
<1>5. /\ PlacesOK(Spilled(p)) /\ Spilled(p).base = p.base
      /\ Recs(Spilled(p)) = Recs(p) /\ End(Spilled(p)) = End(p)
  BY <1>3, FlushIfPlaces DEF Spilled, Adds
<1>6. Spilled(p).page = p.page
  BY <1>3, SpillKeeps DEF Adds, PlacesOK
<1>7. Stored(o, n, sym) = Spilled(p)
  BY DEF Stored, p, f
<1> QED
  BY <1>1, <1>3, <1>4, <1>5, <1>6, <1>7 DEF Adds

(* A count of the page is no place. *)
LEMMA PageOnly ==
  ASSUME NEW o, PlacesOK(o), NEW k \in Nat
  PROVE  LET g == [o EXCEPT !.page = k]
         IN  /\ PlacesOK(g) /\ g.base = o.base /\ g.page = k
             /\ Recs(g) = Recs(o) /\ End(g) = End(o)
<1> DEFINE g == [o EXCEPT !.page = k]
<1>1. /\ IsOutput(g) /\ g.page = k /\ g.put = o.put /\ g.bytes = o.bytes /\ g.most = o.most
      /\ g.high = o.high /\ g.base = o.base /\ g.wrote = o.wrote
  BY DEF PlacesOK, BufferOK, IsOutput
<1> HIDE DEF g
<1>2. PlacesOK(g)
  BY <1>1 DEF PlacesOK, BufferOK
<1>3. Moved(g) = Moved(o)
  BY <1>1 DEF Moved
<1> QED
  BY <1>1, <1>2, <1>3 DEF Recs, End, g

LEMMA PaddedPlaces ==
  ASSUME NEW o, PlacesOK(o), NEW n \in Nat, o.page < Page
  PROVE  Adds(Padded(o, n), o, Page - o.page, S_ALIGN) /\ Padded(o, n).page = n
<1> DEFINE rest == Page - o.page
           p    == Stored(o, rest, S_ALIGN)
<1>1. rest \in 0 .. Block
  BY SymbolsAssumption, TablesAssumption DEF PlacesOK, BufferOK
<1>2. Adds(p, o, rest, S_ALIGN)
  BY <1>1, StoredPlaces
<1>3. Padded(o, n) = [p EXCEPT !.page = n]
  BY DEF Padded, Stored
<1> HIDE DEF p
<1>4. PlacesOK(p)
  BY <1>2 DEF Adds
<1> QED
  BY <1>2, <1>3, <1>4, PageOnly DEF Adds

(* The records of a section follow each other without a gap.               *)
Follows(o, at) == at = 0 \/ \E q \in Recs(o) : q.at + q.size = at

SectionOK(o) ==
  /\ PlacesOK(o)
  /\ \A r \in Recs(o) : RecordIn(r, End(o)) /\ Follows(o, r.at)
  /\ Follows(o, End(o))

(* CV_PAGE_BYTES is how far the section is in its page, until a symbol as  *)
(* long as a page begins one: then no other can follow (Overruns).         *)
PagesOK(o) ==
  /\ \E k \in Nat : End(o) = k * Page + o.page
  /\ \A r \in Recs(o) : r.size <= Page => OnOnePage(r)

LEMMA AddsSection ==
  ASSUME NEW o, SectionOK(o), NEW g, NEW n \in Nat, NEW sym, Adds(g, o, n, sym)
  PROVE  SectionOK(g)
<1> DEFINE new == [at |-> End(o), size |-> n, sym |-> sym]
<1>1. /\ PlacesOK(g) /\ Recs(g) = Recs(o) \cup {new} /\ End(g) = End(o) + n /\ End(o) \in Nat
      /\ new.at = End(o) /\ new.size = n
  BY EndIsNat DEF Adds, SectionOK
<1> HIDE DEF new
<1>2. ASSUME NEW at, Follows(o, at) PROVE Follows(g, at)
  BY <1>1, <1>2 DEF Follows
<1>3. Follows(g, End(g))
  BY <1>1 DEF Follows
<1>4. ASSUME NEW r \in Recs(g) PROVE RecordIn(r, End(g)) /\ Follows(g, r.at)
  <2>1. CASE r = new
    <3>1. RecordIn(r, End(g))
      BY <1>1, <2>1 DEF RecordIn
    <3>2. Follows(o, r.at)
      BY <1>1, <2>1 DEF SectionOK
    <3> QED
      BY <1>2, <3>1, <3>2
  <2>2. CASE r \in Recs(o)
    <3>1. r.at \in Nat /\ r.size \in Nat /\ r.at + r.size <= End(o) /\ Follows(o, r.at)
      BY <2>2 DEF SectionOK, RecordIn
    <3>2. RecordIn(r, End(g))
      BY <1>1, <3>1 DEF RecordIn
    <3> QED
      BY <1>2, <3>1, <3>2
  <2> QED
    BY <1>1, <2>1, <2>2
<1> QED
  BY <1>1, <1>3, <1>4 DEF SectionOK

(* Multiples of a page. *)
LEMMA NextPage ==
  ASSUME NEW k \in Nat
  PROVE  k * Page \in Nat /\ (k + 1) * Page = k * Page + Page /\ k <= k * Page
<1>1. Page \in Nat /\ Page >= 1
  BY SymbolsAssumption
<1> QED
  BY <1>1

(* A record that ends with its page or before it. *)
LEMMA InPage ==
  ASSUME NEW k \in Nat, NEW p \in Nat, NEW r, r.at = k * Page + p, r.size \in Nat, p + r.size <= Page
  PROVE  OnOnePage(r)
<1>1. k * Page \in Nat /\ (k + 1) * Page = k * Page + Page /\ k <= k * Page /\ Page \in Nat
  BY NextPage, SymbolsAssumption
<1> DEFINE m == k * Page
           e == (k + 1) * Page
<1>2. m \in Nat /\ e = m + Page /\ k <= m /\ r.at = m + p
  BY <1>1
<1> HIDE DEF m, e
<1>3. k \in 0 .. r.at /\ m <= r.at /\ r.at + r.size <= e
  BY <1>1, <1>2
<1> QED
  BY <1>3 DEF OnOnePage, m, e

(* One more record, of which it is known that it fits the page.            *)
LEMMA AddsPages ==
  ASSUME NEW o, SectionOK(o), PagesOK(o), NEW g, NEW n \in Nat, NEW sym, Adds(g, o, n, sym),
         n <= Page => o.page + n <= Page
  PROVE  \A r \in Recs(g) : r.size <= Page => OnOnePage(r)
<1> DEFINE new == [at |-> End(o), size |-> n, sym |-> sym]
<1>1. Recs(g) = Recs(o) \cup {new} /\ new.at = End(o) /\ new.size = n
  BY DEF Adds
<1> HIDE DEF new
<1>2. PICK k \in Nat : End(o) = k * Page + o.page
  BY DEF PagesOK
<1>3. o.page \in Nat
  BY DEF SectionOK, PlacesOK, BufferOK
<1>4. n <= Page => OnOnePage(new)
  BY <1>1, <1>2, <1>3, InPage
<1> QED
  BY <1>1, <1>4 DEF PagesOK

LEMMA PageRemainder ==
  ASSUME NEW n \in Nat, n <= Page
  PROVE  n % Page = IF n = Page THEN 0 ELSE n
<1>1. Page \in Nat /\ Page > 0
  BY SymbolsAssumption
<1>2. n = Page * (n \div Page) + (n % Page) /\ n % Page \in 0 .. Page - 1 /\ n \div Page \in Int
  BY <1>1
<1>3. CASE n \div Page <= -1
  <2>1. Page * (n \div Page) <= -Page
    BY <1>1, <1>2, <1>3
  <2> QED
    BY <1>1, <1>2, <2>1
<1>4. CASE n \div Page = 0
  BY <1>1, <1>2, <1>4
<1>5. CASE n \div Page = 1
  BY <1>1, <1>2, <1>5
<1>6. CASE n \div Page >= 2
  <2>1. Page * (n \div Page) >= 2 * Page
    BY <1>1, <1>2, <1>6
  <2> QED
    BY <1>1, <1>2, <2>1
<1> QED
  BY <1>2, <1>3, <1>4, <1>5, <1>6

(* A symbol goes where it does not cross a page: in what is left of this   *)
(* one, or after an S_ALIGN that fills it.                                 *)
LEMMA PagedSection ==
  ASSUME NEW o, SectionOK(o), NEW n \in Nat, NEW align \in BOOLEAN, ~Overruns(align, o, n)
  PROVE  /\ SectionOK(Paged(align, o, n)) /\ Paged(align, o, n).base = o.base
         /\ Recs(o) \subseteq Recs(Paged(align, o, n))
         /\ align /\ n > 0 /\ PagesOK(o) =>
              /\ \A r \in Recs(Paged(align, o, n)) : r.size <= Page => OnOnePage(r)
              /\ \E k \in Nat, p \in Nat :
                   /\ End(Paged(align, o, n)) = k * Page + p
                   /\ n <= Page => p + n <= Page
                   /\ \E j \in Nat : End(Paged(align, o, n)) + n = j * Page + Paged(align, o, n).page
<1> DEFINE g == Paged(align, o, n)
<1>0. PlacesOK(o) /\ o.page \in Nat /\ Page \in Nat /\ Page > 8
  BY SymbolsAssumption DEF SectionOK, PlacesOK, BufferOK
<1>1. CASE ~align
  BY <1>1 DEF Paged
<1>2. CASE align /\ NeedsPage(o, n)
  <2>1. o.page < Page
    BY <1>0, <1>2 DEF Overruns
  <2>2. g = Padded(o, n)
    BY <1>2 DEF Paged
  <2> DEFINE rest == Page - o.page
  <2>3. rest \in Nat /\ Adds(g, o, rest, S_ALIGN) /\ g.page = n
    BY <1>0, <2>1, <2>2, PaddedPlaces
  <2> HIDE DEF g
  <2>4. SectionOK(g) /\ g.base = o.base /\ Recs(o) \subseteq Recs(g)
    BY <2>3, AddsSection DEF Adds
  <2>5. ASSUME PagesOK(o)
        PROVE  /\ \A r \in Recs(g) : r.size <= Page => OnOnePage(r)
               /\ \E k \in Nat : End(g) = k * Page
    <3>1. \A r \in Recs(g) : r.size <= Page => OnOnePage(r)
      <4>1. o.page + rest <= Page
        BY <1>0
      <4> QED
        BY <2>3, <2>5, <4>1, AddsPages
    <3>2. PICK k \in Nat : End(o) = k * Page + o.page
      BY <2>5 DEF PagesOK
    <3>3. k * Page \in Nat /\ (k + 1) * Page = k * Page + Page
      BY NextPage
    <3>4. End(g) = (k + 1) * Page
      BY <1>0, <2>3, <3>2, <3>3 DEF Adds
    <3> QED
      BY <3>1, <3>4
  <2>6. ASSUME NEW k \in Nat, End(g) = k * Page
        PROVE  End(g) = k * Page + 0 /\ End(g) + n = k * Page + g.page
    BY <2>3, <2>6, NextPage
  <2>7. n <= Page => 0 + n <= Page
    BY <1>0
  <2> QED
    BY <2>4, <2>5, <2>6, <2>7 DEF g
<1>3. CASE align /\ ~NeedsPage(o, n)
  <2> DEFINE page == (o.page + n) % Page
  <2>1. g = [o EXCEPT !.page = page]
    BY <1>3 DEF Paged, Counted
  <2>2. page \in Nat
    BY <1>0
  <2> HIDE DEF page
  <2>3. PlacesOK(g) /\ g.base = o.base /\ g.page = page /\ Recs(g) = Recs(o) /\ End(g) = End(o)
    BY <1>0, <2>1, <2>2, PageOnly
  <2> HIDE DEF g
  <2>4. SectionOK(g)
    BY <2>3 DEF SectionOK, Follows
  <2>5. o.page + n <= Page
    BY <1>0, <1>3 DEF NeedsPage
  <2>6. page = IF o.page + n = Page THEN 0 ELSE o.page + n
    <3> DEFINE m == o.page + n
    <3>1. m \in Nat /\ m <= Page
      BY <1>0, <2>5
    <3> HIDE DEF m
    <3>2. m % Page = IF m = Page THEN 0 ELSE m
      BY <3>1, PageRemainder
    <3> QED
      BY <3>2, Zenon DEF m, page
  <2>7. ASSUME PagesOK(o)
        PROVE  \E k \in Nat : /\ End(g) = k * Page + o.page
                              /\ \E j \in Nat : End(g) + n = j * Page + page
    <3>1. PICK k \in Nat : End(o) = k * Page + o.page
      BY <2>7 DEF PagesOK
    <3>2. k * Page \in Nat /\ (k + 1) * Page = k * Page + Page
      BY NextPage
    <3>3. CASE o.page + n = Page
      <4>1. End(g) + n = (k + 1) * Page + page
        BY <1>0, <2>3, <2>6, <3>1, <3>2, <3>3
      <4> QED
        BY <2>3, <3>1, <4>1
    <3>4. CASE o.page + n # Page
      <4>1. End(g) + n = k * Page + page
        BY <1>0, <2>3, <2>6, <3>1, <3>2, <3>4
      <4> QED
        BY <2>3, <3>1, <4>1
    <3> QED
      BY <3>3, <3>4
  <2>8. PagesOK(o) => \A r \in Recs(g) : r.size <= Page => OnOnePage(r)
    BY <2>3 DEF PagesOK
  <2> QED
    BY <1>0, <2>3, <2>4, <2>5, <2>7, <2>8 DEF g
<1> QED
  BY <1>1, <1>2, <1>3

(***************************************************************************)
(* A symbol that is put out stands at the place the tables are given, and  *)
(* crosses no page if it fits one.                                         *)
(***************************************************************************)
LEMMA OutputSection ==
  ASSUME NEW o, SectionOK(o), NEW n \in 0 .. Block, n > 0, NEW align \in BOOLEAN,
         ~Overruns(align, o, n), NEW sym
  PROVE  LET g == OutputSymbol(align, o, n, sym)
         IN  /\ SectionOK(g) /\ g.base = o.base /\ Recs(o) \subseteq Recs(g)
             /\ [at |-> OffsetOf(align, o, n), size |-> n, sym |-> sym] \in Recs(g)
             /\ align /\ PagesOK(o) => PagesOK(g)
<1> DEFINE p   == Paged(align, o, n)
           g   == OutputSymbol(align, o, n, sym)
           new == [at |-> End(p), size |-> n, sym |-> sym]
<1>1. n \in Nat
  BY TablesAssumption
<1>2. SectionOK(p) /\ p.base = o.base /\ Recs(o) \subseteq Recs(p)
  BY <1>1, PagedSection
<1>3. align /\ PagesOK(o) =>
        /\ \A r \in Recs(p) : r.size <= Page => OnOnePage(r)
        /\ \E k \in Nat, q \in Nat : /\ End(p) = k * Page + q
                                     /\ n <= Page => q + n <= Page
                                     /\ \E j \in Nat : End(p) + n = j * Page + p.page
  BY <1>1, PagedSection
<1>4. g = Stored(p, n, sym)
  BY DEF OutputSymbol
<1>5. OffsetOf(align, o, n) = End(p)
  <2>1. PlacesOK(p)
    BY <1>2 DEF SectionOK
  <2>2. End(Fitting(p, n)) = End(p)
    BY <2>1, FlushIfPlaces DEF Fitting
  <2> QED
    BY <2>2 DEF OffsetOf, SymbolOffset, End
<1> HIDE DEF p, g
<1>6. Adds(g, p, n, sym) /\ g.page = p.page
  BY <1>2, <1>4, StoredPlaces DEF SectionOK
<1>7. SectionOK(g)
  BY <1>1, <1>2, <1>6, AddsSection
<1>8. g.base = o.base /\ Recs(g) = Recs(p) \cup {new} /\ End(g) = End(p) + n
  BY <1>2, <1>6 DEF Adds
<1>9. new.at = End(p) /\ new.size = n
  OBVIOUS
<1> HIDE DEF new
<1>10. ASSUME align, PagesOK(o) PROVE PagesOK(g)
  <2>1. PICK k \in Nat, q \in Nat : /\ End(p) = k * Page + q
                                    /\ n <= Page => q + n <= Page
                                    /\ \E j \in Nat : End(p) + n = j * Page + p.page
    BY <1>3, <1>10
  <2>2. n <= Page => OnOnePage(new)
    BY <1>1, <1>9, <2>1, InPage
  <2> QED
    BY <1>3, <1>6, <1>8, <1>9, <1>10, <2>1, <2>2 DEF PagesOK
<1> QED
  BY <1>2, <1>5, <1>7, <1>8, <1>10 DEF g, new

(* A section that begins is on a page of its own, of which it has nothing. *)
LEMMA OpenedSection ==
  ASSUME NEW high \in Nat
  PROVE  /\ SectionOK(Opened(high)) /\ PagesOK(Opened(high))
         /\ Recs(Opened(high)) = {} /\ Opened(high).base = high /\ Opened(high).page = 0
<1> DEFINE o == Opened(high)
<1>1. /\ o.high = high /\ o.base = high /\ o.put = {} /\ o.bytes = 0 /\ o.wrote = {} /\ o.page = 0
  BY DEF Opened
<1>2. BufferOK(o)
  BY OpenedOK
<1> HIDE DEF o
<1>3. Recs(o) = {} /\ End(o) = 0
  BY <1>1 DEF Recs, Moved, End
<1>4. 0 = 0 * Page + 0
  BY SymbolsAssumption
<1>5. PlacesOK(o)
  BY <1>1, <1>2 DEF PlacesOK
<1>6. SectionOK(o)
  BY <1>3, <1>5 DEF SectionOK, Follows
<1>7. PagesOK(o)
  BY <1>1, <1>3, <1>4 DEF PagesOK
<1> QED
  BY <1>1, <1>3, <1>6, <1>7 DEF o

-----------------------------------------------------------------------------
(* The sections, one after the other.  An entry of the list of a section   *)
(* is [at, hash, seg, off, sym]: the place of a symbol and what it is      *)
(* looked up by.                                                           *)
Symbols == Publics \cup Globals \cup Statics

InfoOf(a, s) == [at |-> a, hash |-> s.hash, seg |-> s.seg, off |-> s.off, sym |-> s]

Infos == {InfoOf(a, s) : a \in Nat, s \in Symbols}

(* The tables of a section have a size.  What they hold is the outcome of  *)
(* folds over the list of symbols, which the provers cannot compute.       *)
TablesSized ==
  \A list \in Seq(Infos) : DoSymbolHash(list).bytes \in Nat /\ DoAddressHash(list).bytes \in Nat

FoundIn(i, records) == \E r \in records : r.at = i.at /\ r.sym = i.sym

SectionInv ==
  /\ open => stage \in {"public", "global", "static", "fault"}
  /\ infos \in Seq(Infos) /\ (~open => infos = <<>>)
  /\ stage # "end" => out.high \in Nat /\ soFar \in Nat
  /\ open => SectionOK(out) /\ \A i \in DOMAIN infos : FoundIn(infos[i], Recs(out))
  /\ open /\ stage # "static" => PagesOK(out)

MadeInv ==
  /\ \E S : made \in Seq(S)
  /\ \A m \in Range(made) : \A i \in DOMAIN m.infos : FoundIn(m.infos[i], m.wrote)

SInv == BInv /\ SectionInv /\ MadeInv

LEMMA DwordSteps ==
  ASSUME NEW n \in Nat
  PROVE  DwordAligned(n) \in Nat /\ DwordAligned(n) >= n /\ DwordAligned(DwordAligned(n)) = DwordAligned(n)
<1>1. (0 - n) % 4 \in 0 .. 3 /\ (n + ((0 - n) % 4)) % 4 = 0
  OBVIOUS
<1> DEFINE m == n + ((0 - n) % 4)
<1>2. m \in Nat /\ m >= n /\ m % 4 = 0
  BY <1>1
<1> HIDE DEF m
<1>3. m + ((0 - m) % 4) = m
  BY <1>2
<1> QED
  BY <1>2, <1>3 DEF DwordAligned, m

LEMMA XdebugNat ==
  ASSUME out.high \in Nat, NEW n \in Nat
  PROVE  Xdebug(n) \in Nat /\ Xdebug(n) = IF out.high >= n THEN out.high ELSE n
BY MaxOfTwo DEF Xdebug

LEMMA InitSInv == Init => SInv
<1> SUFFICES ASSUME Init PROVE SInv
  OBVIOUS
<1>1. out.high = 0 /\ soFar = 8 /\ open = FALSE /\ infos = <<>> /\ made = <<>>
  BY DEF Init, Opened
<1>2. infos \in Seq(Infos) /\ made \in Seq({})
  BY <1>1, EmptySeq
<1>3. Range(made) = {}
  BY <1>1 DEF Range
<1> QED
  BY <1>1, <1>2, <1>3, InitBInv DEF SInv, SectionInv, MadeInv

(* A longer list, whose new entry is found too. *)
LEMMA FoundGrows ==
  ASSUME infos \in Seq(Infos), NEW x \in Infos, NEW R, NEW Q, R \subseteq Q, FoundIn(x, Q),
         \A i \in DOMAIN infos : FoundIn(infos[i], R), infos' = Append(infos, x)
  PROVE  infos' \in Seq(Infos) /\ \A i \in DOMAIN infos' : FoundIn(infos'[i], Q)
<1>1. /\ Append(infos, x) \in Seq(Infos) /\ Len(Append(infos, x)) = Len(infos) + 1
      /\ \A i \in 1 .. Len(infos) : Append(infos, x)[i] = infos[i]
      /\ Append(infos, x)[Len(infos) + 1] = x
  BY AppendProperties
<1>2. DOMAIN infos = 1 .. Len(infos) /\ DOMAIN infos' = 1 .. Len(infos) + 1 /\ Len(infos) \in Nat
  BY <1>1, LenProperties
<1>3. ASSUME NEW i \in DOMAIN infos' PROVE FoundIn(infos'[i], Q)
  <2>1. CASE i = Len(infos) + 1
    BY <1>1, <2>1
  <2>2. CASE i # Len(infos) + 1
    <3>1. i \in DOMAIN infos /\ infos'[i] = infos[i]
      BY <1>1, <1>2, <2>2
    <3>2. FoundIn(infos[i], R)
      BY <3>1
    <3> QED
      BY <3>1, <3>2 DEF FoundIn
  <2> QED
    BY <2>1, <2>2
<1> QED
  BY <1>1, <1>3

LEMMA PutSection ==
  ASSUME SInv, NEW align \in BOOLEAN, NEW s \in Symbols, Put(align, s),
         stage \in {"public", "global", "static"}, align <=> stage # "static"
  PROVE  SectionInv' /\ (stage' # "fault" => open' /\ stage' = stage /\ out'.base = InitHashes.out.base)
<1> DEFINE o == InitHashes.out
           n == Aligned(s.len)
           x == [at |-> OffsetOf(align, o, n), hash |-> s.hash, seg |-> s.seg, off |-> s.off, sym |-> s]
<1>1. n \in 0 .. Block /\ n > 0
  <2>1. s.len \in Nat /\ n <= Block
    BY SymbolsFit DEF Symbols
  <2> QED
    BY <2>1, AlignedBy4, TablesAssumption
<1>2. /\ SectionOK(o) /\ (align => PagesOK(o)) /\ InitHashes.soFar \in Nat
      /\ \A i \in DOMAIN infos : FoundIn(infos[i], Recs(o))
      /\ ~open => o.page = 0
  <2>1. CASE open
    BY <2>1 DEF InitHashes, SInv, SectionInv
  <2>2. CASE ~open
    <3>1. DwordAligned(soFar) \in Nat
      BY DwordSteps DEF SInv, SectionInv
    <3>2. Xdebug(DwordAligned(soFar)) \in Nat
      BY <3>1, XdebugNat DEF SInv, SectionInv
    <3>3. Xdebug(DwordAligned(soFar)) + HeaderSize \in Nat /\ DwordAligned(soFar) + HeaderSize \in Nat
      BY <3>1, <3>2 DEF HeaderSize
    <3>4. /\ o = Opened(Xdebug(DwordAligned(soFar)) + HeaderSize)
          /\ InitHashes.soFar = DwordAligned(soFar) + HeaderSize
      BY <2>2 DEF InitHashes
    <3>5. DOMAIN infos = {}
      BY <2>2 DEF SInv, SectionInv
    <3> QED
      BY <3>3, <3>4, <3>5, OpenedSection
  <2> QED
    BY <2>1, <2>2
<1> HIDE DEF o, n
<1>3. CASE Overruns(align, o, n)
  <2>1. UNCHANGED <<open, soFar, out, infos>> /\ stage' = "fault" /\ align
    BY <1>3 DEF Put, o, n, Overruns
  <2>2. stage # "static"
    BY <2>1
  <2> QED
    BY <2>1, <2>2 DEF SInv, SectionInv
<1>4. CASE ~Overruns(align, o, n)
  <2>1. /\ open' = TRUE /\ soFar' = InitHashes.soFar /\ stage' = stage
        /\ out' = OutputSymbol(align, o, n, s) /\ infos' = Append(infos, x)
    BY <1>4 DEF Put, o, n
  <2>2. /\ SectionOK(out') /\ Recs(o) \subseteq Recs(out') /\ out'.base = o.base
        /\ [at |-> x.at, size |-> n, sym |-> s] \in Recs(out')
        /\ align => PagesOK(out')
    BY <1>1, <1>2, <1>4, <2>1, OutputSection
  <2>3. x.at \in Nat /\ x \in Infos
    <3>1. [at |-> x.at, size |-> n, sym |-> s].at \in Nat
      BY <2>2 DEF SectionOK, RecordIn
    <3>2. OffsetOf(align, o, n) \in Nat
      BY <3>1
    <3>3. x = InfoOf(OffsetOf(align, o, n), s)
      BY DEF InfoOf
    <3>4. x.at \in Nat
      BY <3>2
    <3> HIDE DEF x
    <3>5. x \in Infos
      BY <3>2, <3>3 DEF Infos
    <3> QED
      BY <3>4, <3>5
  <2>4. FoundIn(x, Recs(out'))
    <3>1. x.sym = s
      OBVIOUS
    <3> HIDE DEF x
    <3> QED
      BY <2>2, <3>1 DEF FoundIn
  <2>5. infos \in Seq(Infos)
    BY DEF SInv, SectionInv
  <2> HIDE DEF x
  <2>6. infos' \in Seq(Infos) /\ \A i \in DOMAIN infos' : FoundIn(infos'[i], Recs(out'))
    BY <1>2, <2>1, <2>2, <2>3, <2>4, <2>5, FoundGrows
  <2>7. out'.high \in Nat /\ soFar' \in Nat
    BY <1>2, <2>1, <2>2 DEF SectionOK, PlacesOK
  <2>8. (stage' # "static" => PagesOK(out'))
    BY <2>1, <2>2
  <2>9. SectionOK(out)' /\ (\A i \in DOMAIN infos : FoundIn(infos[i], Recs(out)))' /\ (stage # "static" => PagesOK(out))'
    BY <2>2, <2>6, <2>8
  <2>10. (infos \in Seq(Infos))' /\ (out.high \in Nat)' /\ (soFar \in Nat)'
    BY <2>6, <2>7
  <2>11. SectionInv'
    BY <2>1, <2>9, <2>10 DEF SectionInv
  <2> QED
    BY <2>1, <2>2, <2>11 DEF o
<1> QED
  BY <1>3, <1>4

(* The finished sections are not changed but by one more. *)
LEMMA MadeGrows ==
  ASSUME MadeInv, NEW m, made' = Append(made, m), \A i \in DOMAIN m.infos : FoundIn(m.infos[i], m.wrote)
  PROVE  MadeInv'
<1>1. PICK S : made \in Seq(S)
  BY DEF MadeInv
<1>2. made \in Seq(S \cup {m})
  <2>1. S \subseteq S \cup {m}
    OBVIOUS
  <2> QED
    BY <1>1, <2>1, SeqMonotonic
<1>3. made' \in Seq(S \cup {m}) /\ Len(made') = Len(made) + 1 /\ Len(made) \in Nat
      /\ (\A i \in 1 .. Len(made) : made'[i] = made[i]) /\ made'[Len(made) + 1] = m
  BY <1>2, AppendProperties, LenProperties
<1>4. DOMAIN made = 1 .. Len(made) /\ DOMAIN made' = 1 .. Len(made) + 1
  BY <1>2, <1>3, LenProperties
<1>5. ASSUME NEW q \in Range(made') PROVE q = m \/ q \in Range(made)
  <2>1. PICK i \in DOMAIN made' : q = made'[i]
    BY DEF Range
  <2>2. CASE i = Len(made) + 1
    BY <1>3, <2>1, <2>2
  <2>3. CASE i # Len(made) + 1
    BY <1>3, <1>4, <2>1, <2>3 DEF Range
  <2> QED
    BY <2>2, <2>3
<1>6. ASSUME NEW q \in Range(made') PROVE \A i \in DOMAIN q.infos : FoundIn(q.infos[i], q.wrote)
  BY <1>5 DEF MadeInv
<1>7. \E Q : made' \in Seq(Q)
  BY <1>3
<1> QED
  BY <1>6, <1>7 DEF MadeInv, FoundIn

LEMMA ExhaustedStage == ASSUME Exhausted PROVE stage \in {"public", "global", "static"}
<1> SUFFICES ASSUME stage \notin {"public", "global", "static"} PROVE FALSE
  OBVIOUS
<1>1. Exhausted = FALSE
  BY DEF Exhausted
<1> QED
  BY <1>1

(* The last record of a section, if it has one. *)
LEMMA TerminatedSection ==
  ASSUME SectionOK(out), NEW align \in BOOLEAN, ~Overruns(align, out, 8)
  PROVE  /\ SectionOK(Terminated(align)) /\ Terminated(align).base = out.base
         /\ Recs(out) \subseteq Recs(Terminated(align))
<1>1. CASE align
  <2> DEFINE n == 8
  <2>1. n \in 0 .. Block /\ n > 0
    BY SymbolsAssumption, TablesAssumption
  <2>2. Terminated(align) = OutputSymbol(align, out, n, S_ALIGN) /\ ~Overruns(align, out, n)
    BY <1>1 DEF Terminated
  <2> HIDE DEF n
  <2>3. \A sym : LET g == OutputSymbol(align, out, n, sym)
                 IN  SectionOK(g) /\ g.base = out.base /\ Recs(out) \subseteq Recs(g)
    BY <2>1, <2>2, OutputSection
  <2> QED
    BY <2>2, <2>3
<1>2. CASE ~align
  BY <1>2 DEF Terminated
<1> QED
  BY <1>1, <1>2

LEMMA EndSectionSInv ==
  ASSUME TablesSized, SInv, EndSection
  PROVE  SectionInv' /\ MadeInv' /\ (stage' # "fault" /\ out.base = soFar => out'.high = soFar')
<1> DEFINE align == stage # "static"
<1>0. stage \in {"public", "global", "static"} /\ open /\ align \in BOOLEAN
  BY ExhaustedStage DEF EndSection
<1>1. CASE Overruns(align, out, 8)
  <2>1. UNCHANGED <<open, soFar, out, infos, made>> /\ stage' = "fault" /\ stage # "static"
    BY <1>1 DEF EndSection, Overruns
  <2> QED
    BY <1>0, <2>1 DEF SInv, SectionInv, MadeInv
<1>2. CASE ~Overruns(align, out, 8)
  <2> DEFINE t == Terminated(align)
             g == FlushTemp(t)
             m == [stage |-> stage, at |-> start, infos |-> infos, wrote |-> g.wrote,
                   names |-> DoSymbolHash(infos), addresses |-> DoAddressHash(infos), symbols |-> g.high - g.base]
  <2>2. SectionOK(t) /\ t.base = out.base /\ Recs(out) \subseteq Recs(t)
    BY <1>0, <1>2, TerminatedSection DEF SInv, SectionInv
  <2> HIDE DEF t
  <2>3. PlacesOK(g) /\ g.wrote = Recs(t) /\ g.base = out.base
    BY <2>2, FlushPlaces DEF SectionOK
  <2>4. DoSymbolHash(infos).bytes \in Nat /\ DoAddressHash(infos).bytes \in Nat
    BY DEF TablesSized, SInv, SectionInv
  <2>5. /\ out' = [g EXCEPT !.high = @ + DoSymbolHash(infos).bytes + DoAddressHash(infos).bytes]
        /\ made' = Append(made, m)
        /\ soFar' = soFar + (g.high - g.base) + DoSymbolHash(infos).bytes + DoAddressHash(infos).bytes
        /\ open' = FALSE /\ infos' = <<>>
    BY <1>2 DEF EndSection, FlushSymbolHashes, HandleIndex, t
  <2>6. m.infos = infos /\ m.wrote = g.wrote
    OBVIOUS
  <2> HIDE DEF g, m
  <2>7. out'.high = g.high + DoSymbolHash(infos).bytes + DoAddressHash(infos).bytes
    BY <2>3, <2>5 DEF PlacesOK, BufferOK, IsOutput
  <2>8. out'.high \in Nat /\ soFar' \in Nat
    <3>1. soFar \in Nat
      BY <1>0 DEF SInv, SectionInv
    <3> QED
      BY <2>3, <2>4, <2>5, <2>7, <3>1 DEF PlacesOK
  <2>9. infos' \in Seq(Infos)
    BY <2>5, EmptySeq
  <2>10. \A i \in DOMAIN m.infos : FoundIn(m.infos[i], m.wrote)
    BY <1>0, <2>2, <2>3, <2>6 DEF SInv, SectionInv, FoundIn
  <2>11. MadeInv'
    BY <2>5, <2>10, MadeGrows DEF SInv
  <2>12. SectionInv'
    <3>1. (out.high \in Nat)' /\ (soFar \in Nat)' /\ (infos \in Seq(Infos))' /\ (infos = <<>>)' /\ ~open'
      BY <2>5, <2>8, <2>9
    <3> QED
      BY <3>1 DEF SectionInv
  <2>13. out.base = soFar => out'.high = soFar'
    BY <2>3, <2>4, <2>5, <2>7 DEF PlacesOK
  <2> QED
    BY <2>11, <2>12, <2>13
<1> QED
  BY <1>1, <1>2

(* A record of another kind, between the sections. *)
LEMMA AnotherSection ==
  ASSUME SInv, ~open, stage # "end", NEW n \in Nat, out' = [out EXCEPT !.high = Xdebug(n)], soFar' \in Nat,
         UNCHANGED <<open, infos, made>>
  PROVE  SectionInv' /\ MadeInv'
<1>1. Xdebug(n) \in Nat
  BY XdebugNat DEF SInv, SectionInv
<1>2. out'.high = Xdebug(n)
  BY DEF SInv, BInv, BufferOK, IsOutput
<1> QED
  BY <1>1, <1>2 DEF SInv, SectionInv, MadeInv

LEMMA NextSInv == ASSUME TablesSized, SInv, [Next]_vars PROVE SInv'
<1>0. BInv'
  BY NextBInv DEF SInv
<1>1. ASSUME SectionInv' /\ MadeInv' PROVE SInv'
  BY <1>0, <1>1 DEF SInv
<1>2. stage # "end" => soFar \in Nat
  BY DEF SInv, SectionInv
<1>3. ASSUME stage \notin {"public", "global", "static", "fault"} PROVE ~open
  BY <1>3 DEF SInv, SectionInv
<1>4. CASE WriteModule
  <2> DEFINE at == DwordAligned(soFar)
  <2>1. at \in Nat
    BY <1>2, <1>4, DwordSteps DEF WriteModule
  <2>2. at + 21 \in Nat
    BY <2>1
  <2>3. stage # "end" /\ ~open /\ out' = [out EXCEPT !.high = Xdebug(at + 21)] /\ soFar' = at + 21 /\ UNCHANGED <<open, infos, made>>
    BY <1>3, <1>4 DEF WriteModule, Another, HandleIndex
  <2> QED
    BY <1>1, <2>2, <2>3, AnotherSection
<1>5. CASE WriteSegments
  <2> DEFINE at == DwordAligned(DwordAligned(soFar) + 30)
  <2>1. at \in Nat
    <3>1. DwordAligned(soFar) + 30 \in Nat
      BY <1>2, <1>5, DwordSteps DEF WriteSegments
    <3> QED
      BY <3>1, DwordSteps
  <2>2. stage # "end" /\ ~open /\ out' = [out EXCEPT !.high = Xdebug(at)] /\ soFar' = at /\ UNCHANGED <<open, infos, made>>
    BY <1>3, <1>5 DEF WriteSegments
  <2> QED
    BY <1>1, <2>1, <2>2, AnotherSection
<1>6. CASE EndModules \/ EndInstall \/ SkipSection \/ UNCHANGED vars
  <2>1. UNCHANGED <<open, infos, soFar, out, made>>
    BY <1>6 DEF EndModules, EndInstall, SkipSection, vars
  <2>2. /\ ~open \/ stage' = stage
        /\ stage # "end" \/ stage' = stage
    BY <1>3, <1>6, ExhaustedStage DEF EndModules, EndInstall, SkipSection, vars
  <2> QED
    BY <1>1, <2>1, <2>2 DEF SInv, SectionInv, MadeInv
<1>7. ASSUME NEW s \in Globals, InstallGlobalsym(s) PROVE SInv'
  <2>1. UNCHANGED <<open, infos, soFar, out, made, stage>>
    BY <1>7 DEF InstallGlobalsym
  <2> QED
    BY <1>1, <2>1 DEF SInv, SectionInv, MadeInv
<1>8. ASSUME UNCHANGED made PROVE MadeInv'
  BY <1>8 DEF SInv, MadeInv
<1>9. ASSUME NEW s \in Publics, PutPublic(s) PROVE SInv'
  <2>1. SectionInv'
    BY <1>9, PutSection DEF PutPublic, Symbols
  <2> QED
    BY <1>1, <1>8, <1>9, <2>1 DEF PutPublic
<1>10. CASE PutGlobal
  <2>1. gsyms[Len(infos) + 1] \in Symbols
    BY <1>10, NextGlobal DEF PutGlobal, SInv, BInv, Symbols
  <2>2. SectionInv'
    BY <1>10, <2>1, PutSection DEF PutGlobal
  <2> QED
    BY <1>1, <1>8, <1>10, <2>2 DEF PutGlobal
<1>11. ASSUME NEW s \in Statics, PutStatic(s) PROVE SInv'
  <2>1. SectionInv'
    BY <1>11, PutSection DEF PutStatic, Symbols
  <2> QED
    BY <1>1, <1>8, <1>11, <2>1 DEF PutStatic
<1>12. CASE EndSection
  BY <1>1, <1>12, EndSectionSInv
<1>13. CASE FlushIndexes
  <2>1. UNCHANGED <<open, infos, made>> /\ stage' = "end" /\ stage = "directory"
    BY <1>13, Zenon DEF FlushIndexes
  <2>2. ~open
    BY <1>3, <2>1
  <2> QED
    BY <1>1, <2>1, <2>2 DEF SInv, SectionInv, MadeInv
<1> QED
  BY <1>4, <1>5, <1>6, <1>7, <1>9, <1>10, <1>11, <1>12, <1>13 DEF Next

LEMMA SInvHolds == ASSUME TablesSized PROVE Spec => []SInv
BY InitSInv, NextSInv, PTL DEF Spec

(* In the public and the global section no symbol that fits a page crosses *)
(* one, and no record begins but where another ends, for any sizes of page *)
(* and block and any symbols (_output_cv_symbol_align).                    *)
THEOREM PagesAlwaysHold ==
  ASSUME TablesSized
  PROVE  Spec => []PagesHold
<1>1. SInv => PagesHold
  BY DEF SInv, SectionInv, SectionOK, PagesOK, PagesHold, Records, Recs, Follows
<1> QED
  BY <1>1, SInvHolds, PTL

(* Every symbol stands in the file at the place that its tables are given, *)
(* although the place is worked out before the buffer is written, by way   *)
(* of padding and of as many writes as there may be between                *)
(* (_store_cv_symbol_info, _flush_cv_temp).                                *)
THEOREM SymbolsAlwaysFound ==
  ASSUME TablesSized
  PROVE  Spec => []SymbolsFound
<1>1. SInv => SymbolsFound
  BY DEF SInv, SectionInv, MadeInv, FoundIn, SymbolsFound, Records, Recs
<1> QED
  BY <1>1, SInvHolds, PTL

(* The global list.  Of the symbols without a reference, those that the    *)
(* comparison of names takes for one are one: an odd name belongs to one   *)
(* symbol.  Else the second is left out of the list (_install_globalsym    *)
(* returns at FAR_MATCH_FAIL too).                                         *)
OddNamesOnce ==
  \A g, s \in Globals :
    g.kind # "ref" /\ s.kind # "ref" /\ g.hash = s.hash /\ SameName(g, s)
      => g.kind = s.kind /\ g.seg = s.seg /\ g.off = s.off

Stands(g, s) == g.kind = s.kind /\ g.seg = s.seg /\ g.off = s.off

LEMMA StandsFor ==
  ASSUME NEW g \in Globals, NEW s \in Globals, Stands(g, s)
  PROVE  [g EXCEPT !.name = s.name, !.len = s.len, !.hash = s.hash] = s
<1> DEFINE k == s.kind  e == s.seg  f == s.off
           n == s.name  l == s.len  h == s.hash
<1>1. \E n0, h0, l0 : g = [kind |-> k, name |-> n0, hash |-> h0, len |-> l0, seg |-> e, off |-> f]
  BY SymbolRecords DEF Stands
<1>2. s = [kind |-> k, name |-> n, hash |-> h, len |-> l, seg |-> e, off |-> f]
  BY SymbolRecords
<1> HIDE DEF k, n, h, l, e, f
<1>3. PICK n0, h0, l0 : g = [kind |-> k, name |-> n0, hash |-> h0, len |-> l0, seg |-> e, off |-> f]
  BY <1>1
<1> DEFINE a == [kind |-> k, name |-> n, hash |-> h0, len |-> l0, seg |-> e, off |-> f]
           b == [kind |-> k, name |-> n, hash |-> h0, len |-> l, seg |-> e, off |-> f]
<1>4. [g EXCEPT !.name = n] = a
  BY <1>3
<1>5. [a EXCEPT !.len = l] = b
  OBVIOUS
<1>6. [b EXCEPT !.hash = h] = s
  BY <1>2
<1> HIDE DEF a, b
<1>7. [g EXCEPT !.name = n, !.len = l, !.hash = h] = s
  BY <1>4, <1>5, <1>6, Zenon
<1> QED
  BY <1>7, Zenon DEF n, l, h

GInv ==
  /\ gsyms \in Seq(Globals) /\ offered \subseteq Globals
  /\ \A s \in offered : \E i \in DOMAIN gsyms : Stands(gsyms[i], s)
  /\ \A i, j \in DOMAIN gsyms : i # j /\ gsyms[i].kind = "ref" => gsyms[i] # gsyms[j]

LEMMA InstallGInv ==
  ASSUME OddNamesOnce, GInv, NEW s \in Globals, InstallGlobalsym(s)
  PROVE  GInv'
<1>1. gsyms' = Installed(s) /\ offered' = offered \cup {s}
  BY DEF InstallGlobalsym
<1>2. /\ gsyms \in Seq(Globals) /\ Len(gsyms) \in Nat /\ DOMAIN gsyms = 1 .. Len(gsyms)
      /\ \A i \in DOMAIN gsyms : gsyms[i] \in Globals
  BY LenProperties, ElementOfSeq DEF GInv
<1>3. CASE \E i \in DOMAIN gsyms : Matches(gsyms[i], s)
  <2>1. PICK i \in DOMAIN gsyms : Matches(gsyms[i], s)
    BY <1>3
  <2>2. gsyms' = gsyms
    BY <1>1, <1>3 DEF Installed
  <2>3. Stands(gsyms[i], s)
    BY <1>2, <2>1 DEF Matches, SameReference, OddNamesOnce, Stands
  <2>4. \A q \in offered' : \E j \in DOMAIN gsyms' : Stands(gsyms'[j], q)
    BY <1>1, <2>2, <2>3 DEF GInv
  <2> QED
    BY <1>1, <2>2, <2>4 DEF GInv
<1>4. CASE ~ \E i \in DOMAIN gsyms : Matches(gsyms[i], s)
  <2>1. gsyms' = Append(gsyms, s)
    BY <1>1, <1>4 DEF Installed
  <2>2. /\ gsyms' \in Seq(Globals) /\ DOMAIN gsyms' = 1 .. Len(gsyms) + 1
        /\ \A i \in DOMAIN gsyms : gsyms'[i] = gsyms[i]
        /\ gsyms'[Len(gsyms) + 1] = s
    BY <1>2, <2>1, AppendProperties, LenProperties
  <2>3. \A i \in DOMAIN gsyms' : i \in DOMAIN gsyms \/ i = Len(gsyms) + 1
    BY <1>2, <2>2
  <2>4. ASSUME NEW q \in offered' PROVE \E j \in DOMAIN gsyms' : Stands(gsyms'[j], q)
    <3>1. CASE q = s
      <4>1. Stands(gsyms'[Len(gsyms) + 1], q) /\ Len(gsyms) + 1 \in DOMAIN gsyms'
        BY <1>2, <2>2, <3>1 DEF Stands
      <4> QED
        BY <4>1
    <3>2. CASE q \in offered
      <4>1. PICK j \in DOMAIN gsyms : Stands(gsyms[j], q)
        BY <3>2 DEF GInv
      <4>2. j \in DOMAIN gsyms' /\ gsyms'[j] = gsyms[j]
        BY <1>2, <2>2
      <4> QED
        BY <4>1, <4>2
    <3> QED
      BY <1>1, <3>1, <3>2
  <2>5. ASSUME NEW i \in DOMAIN gsyms, s.kind = "ref" PROVE gsyms[i] # s
    BY <1>4, <2>5 DEF Matches, SameReference
  <2>6. ASSUME NEW i \in DOMAIN gsyms', NEW j \in DOMAIN gsyms', i # j, gsyms'[i].kind = "ref"
        PROVE  gsyms'[i] # gsyms'[j]
    <3>1. CASE i \in DOMAIN gsyms /\ j \in DOMAIN gsyms
      BY <2>2, <2>6, <3>1 DEF GInv
    <3>2. CASE i = Len(gsyms) + 1 /\ j \in DOMAIN gsyms
      BY <2>2, <2>5, <2>6, <3>2
    <3>3. CASE i \in DOMAIN gsyms /\ j = Len(gsyms) + 1
      BY <2>2, <2>5, <2>6, <3>3
    <3> QED
      BY <2>3, <2>6, <3>1, <3>2, <3>3
  <2> QED
    BY <1>1, <2>2, <2>4, <2>6 DEF GInv
<1> QED
  BY <1>3, <1>4

LEMMA NextGInv == ASSUME OddNamesOnce, GInv, [Next]_vars PROVE GInv'
<1>1. ASSUME UNCHANGED <<gsyms, offered>> PROVE GInv'
  BY <1>1 DEF GInv
<1>2. CASE \E s \in Globals : InstallGlobalsym(s)
  BY <1>2, InstallGInv
<1>3. CASE WriteModule \/ EndModules \/ EndInstall \/ SkipSection \/ WriteSegments \/ UNCHANGED vars
  BY <1>1, <1>3 DEF WriteModule, EndModules, EndInstall, SkipSection, WriteSegments, vars
<1>4. CASE (\E s \in Publics : PutPublic(s)) \/ PutGlobal \/ (\E s \in Statics : PutStatic(s)) \/ EndSection
  BY <1>1, <1>4 DEF PutPublic, PutGlobal, PutStatic, EndSection
<1>5. CASE FlushIndexes
  <2>1. UNCHANGED <<gsyms, offered>>
    BY <1>5, Zenon DEF FlushIndexes
  <2> QED
    BY <1>1, <2>1
<1> QED
  BY <1>2, <1>3, <1>4, <1>5 DEF Next

(* The global list keeps, of every symbol offered, one of its kind at its  *)
(* place, and no reference twice, however many are offered and in whatever *)
(* order (_install_globalsym).                                             *)
THEOREM GlobalsAlwaysKept ==
  ASSUME OddNamesOnce
  PROVE  Spec => []GlobalsKept
<1>1. Init => GInv
  <2> SUFFICES ASSUME Init PROVE GInv
    OBVIOUS
  <2>1. gsyms = <<>> /\ offered = {}
    BY DEF Init
  <2>2. gsyms \in Seq(Globals) /\ DOMAIN gsyms = {}
    BY <2>1, EmptySeq
  <2> QED
    BY <2>1, <2>2 DEF GInv
<1>2. GInv /\ [Next]_vars => GInv'
  BY NextGInv
<1>3. GInv => GlobalsKept
  <2> SUFFICES ASSUME GInv PROVE GlobalsKept
    OBVIOUS
  <2>1. ASSUME NEW s \in offered
        PROVE  \E i \in DOMAIN gsyms : [gsyms[i] EXCEPT !.name = s.name, !.len = s.len, !.hash = s.hash] = s
    <3>1. PICK i \in DOMAIN gsyms : Stands(gsyms[i], s)
      BY DEF GInv
    <3>2. gsyms[i] \in Globals /\ s \in Globals
      BY ElementOfSeq, LenProperties DEF GInv
    <3>3. [gsyms[i] EXCEPT !.name = s.name, !.len = s.len, !.hash = s.hash] = s
      BY <3>1, <3>2, StandsFor, Zenon
    <3> QED
      BY <3>3, Zenon
  <2>2. \A i, j \in DOMAIN gsyms : i # j /\ gsyms[i].kind = "ref" => gsyms[i] # gsyms[j]
    BY DEF GInv
  <2> QED
    BY <2>1, <2>2, Zenon DEF GlobalsKept
<1> QED
  BY <1>1, <1>2, <1>3, PTL DEF Spec

-----------------------------------------------------------------------------
(* Sequences of sequences, joined.                                         *)

(* A set of numbers that is not empty has a least.                         *)
LEMMA LeastNumber ==
  ASSUME NEW S, S \subseteq Nat, S # {}
  PROVE  \E n \in S : \A m \in S : n <= m
<1> DEFINE R == {p \in Nat \X Nat : p[1] < p[2]}
<1>1. IsWellFoundedOn(R, Nat)
  BY NatLessThanWellFounded DEF OpToRel
<1>2. \E n \in S : \A m \in S : <<m, n>> \notin R
  <2> HIDE DEF R
  <2> QED
    BY <1>1, WFMin
<1>3. PICK n \in S : \A m \in S : <<m, n>> \notin R
  BY <1>2
<1>4. ASSUME NEW m \in S PROVE n <= m
  <2>1. m \in Nat /\ n \in Nat /\ ~(m < n)
    BY <1>3
  <2> QED
    BY <2>1
<1> QED
  BY <1>4

(* Induction up to n, for a set instead of a predicate.                    *)
LEMMA UpTo ==
  ASSUME NEW n \in Nat, NEW S, 1 \in S, \A i \in 1 .. n - 1 : i \in S => i + 1 \in S
  PROVE  1 .. n \subseteq S
<1> DEFINE T == (1 .. n) \ S
<1> SUFFICES ASSUME T # {} PROVE FALSE
  OBVIOUS
<1>1. T \subseteq Nat
  OBVIOUS
<1>2. PICK k \in T : \A m \in T : k <= m
  <2> HIDE DEF T
  <2> QED
    BY <1>1, LeastNumber
<1>3. k - 1 \in 1 .. n - 1 /\ k - 1 \in S
  BY <1>2
<1> QED
  BY <1>3

Flattens(f, k, s) == f = [i \in 1 .. k |-> IF i = 1 THEN s[i] ELSE f[i - 1] \o s[i]]

LEMMA Joins ==
  ASSUME NEW W, NEW a \in Seq(W), NEW b \in Seq(W)
  PROVE  a \o b \in Seq(W) /\ Len(a \o b) = Len(a) + Len(b)
BY ConcatProperties

(* The recursion of FlattenSeq has a solution. *)
LEMMA FlatExists ==
  ASSUME NEW W, NEW s \in Seq(Seq(W)), Len(s) # 0
  PROVE  \E f \in [1 .. Len(s) -> Seq(W)] : Flattens(f, Len(s), s)
<1> DEFINE S == {k \in 1 .. Len(s) : \E f \in [1 .. k -> Seq(W)] : Flattens(f, k, s)}
<1>0. Len(s) \in Nat /\ \A i \in 1 .. Len(s) : s[i] \in Seq(W)
  BY LenProperties, ElementOfSeq
<1>1. 1 \in S
  <2> DEFINE f == [n \in 1 .. 1 |-> s[1]]
  <2>1. f \in [1 .. 1 -> Seq(W)] /\ Flattens(f, 1, s)
    BY <1>0 DEF Flattens
  <2>2. 1 \in 1 .. Len(s)
    BY <1>0
  <2> QED
    BY <2>1, <2>2
<1>2. ASSUME NEW k \in 1 .. Len(s) - 1, k \in S PROVE k + 1 \in S
  <2>1. PICK f \in [1 .. k -> Seq(W)] : Flattens(f, k, s)
    BY <1>2
  <2> DEFINE e == f[k] \o s[k + 1]
             g == [n \in 1 .. k + 1 |-> IF n = k + 1 THEN e ELSE f[n]]
  <2>2. e \in Seq(W)
    BY <1>0, Joins
  <2>3. g \in [1 .. k + 1 -> Seq(W)]
    <3> HIDE DEF e
    <3> QED
      BY <2>2
  <2>4. \A n \in 1 .. k : f[n] = IF n = 1 THEN s[n] ELSE f[n - 1] \o s[n]
    BY <2>1 DEF Flattens
  <2>5. ASSUME NEW n \in 1 .. k + 1
        PROVE g[n] = IF n = 1 THEN s[n] ELSE g[n - 1] \o s[n]
    <3> HIDE DEF e
    <3>1. CASE n = k + 1
      <4>1. g[n] = e /\ g[n - 1] = f[k] /\ n # 1
        BY <3>1
      <4> QED
        BY <4>1, <3>1 DEF e
    <3>2. CASE n # k + 1
      <4>1. n \in 1 .. k /\ g[n] = f[n] /\ (n # 1 => g[n - 1] = f[n - 1])
        BY <3>2
      <4> QED
        BY <4>1, <2>4
    <3> QED
      BY <3>1, <3>2
  <2>6. Flattens(g, k + 1, s)
    <3> HIDE DEF g
    <3> QED
      BY <2>3, <2>5 DEF Flattens
  <2>7. k + 1 \in 1 .. Len(s)
    BY <1>0
  <2> QED
    <3> HIDE DEF g
    <3> QED
      BY <2>3, <2>6, <2>7
<1>4. 1 .. Len(s) \subseteq S
  <2> HIDE DEF S
  <2> QED
    BY <1>0, <1>1, <1>2, UpTo
<1>5. Len(s) \in S
  BY <1>0, <1>4
<1> QED
  BY <1>5

(* What FlattenSeq computes, block by block. *)
Joined(f, s) ==
  /\ f[1] = s[1]
  /\ \A i \in 2 .. Len(s) : f[i] = f[i - 1] \o s[i]

BeginAlike(s, t, n) == n \in 1 .. Len(s) /\ n \in 1 .. Len(t) /\ \A i \in 1 .. n : s[i] = t[i]

(* Two sequences that begin alike are joined alike so far. *)
LEMMA FlatAgree ==
  ASSUME NEW s, NEW t, NEW f, NEW g, NEW n, Len(s) \in Nat, Len(t) \in Nat,
         Joined(f, s), Joined(g, t), BeginAlike(s, t, n)
  PROVE  f[n] = g[n]
<1> DEFINE S == {i \in 1 .. n : f[i] = g[i]}
<1>0. n \in Nat \ {0} /\ n <= Len(s) /\ n <= Len(t) /\ \A i \in 1 .. n : s[i] = t[i]
  BY DEF BeginAlike
<1>1. 1 \in S
  BY <1>0 DEF Joined
<1>2. ASSUME NEW i \in 1 .. n - 1, i \in S PROVE i + 1 \in S
  <2>1. i + 1 \in 1 .. n /\ i + 1 \in 2 .. Len(s) /\ i + 1 \in 2 .. Len(t) /\ (i + 1) - 1 = i
    BY <1>0
  <2>2. f[i + 1] = f[i] \o s[i + 1] /\ g[i + 1] = g[i] \o t[i + 1]
    BY <2>1 DEF Joined
  <2> QED
    BY <1>0, <1>2, <2>1, <2>2
<1>3. 1 .. n \subseteq S
  <2> HIDE DEF S
  <2> QED
    BY <1>0, <1>1, <1>2, UpTo
<1> QED
  BY <1>0, <1>3

LEMMA FlatDef ==
  ASSUME NEW W, NEW s \in Seq(Seq(W)), Len(s) # 0
  PROVE  \E f \in [1 .. Len(s) -> Seq(W)] : Joined(f, s) /\ FlattenSeq(s) = f[Len(s)]
<1> DEFINE g == CHOOSE f : Flattens(f, Len(s), s)
<1>1. FlattenSeq(s) = g[Len(s)]
  BY DEF FlattenSeq, Flattens
<1>2. PICK f \in [1 .. Len(s) -> Seq(W)] : Flattens(f, Len(s), s)
  BY FlatExists
<1>3. Flattens(g, Len(s), s)
  BY <1>2
<1> HIDE DEF g
<1>4. Len(s) \in Nat
  BY LenProperties
<1>5. Joined(g, s)
  <2>1. \A n \in 1 .. Len(s) : g[n] = IF n = 1 THEN s[n] ELSE g[n - 1] \o s[n]
    BY <1>3 DEF Flattens
  <2>2. 1 \in 1 .. Len(s) /\ \A n \in 2 .. Len(s) : n \in 1 .. Len(s) /\ n # 1
    BY <1>4
  <2>3. g[1] = s[1]
    BY <2>1, <2>2, Zenon
  <2>4. \A n \in 2 .. Len(s) : g[n] = g[n - 1] \o s[n]
    BY <2>1, <2>2, Zenon
  <2> QED
    BY <2>3, <2>4 DEF Joined
<1>6. Joined(f, s)
  <2>1. \A n \in 1 .. Len(s) : f[n] = IF n = 1 THEN s[n] ELSE f[n - 1] \o s[n]
    BY <1>2 DEF Flattens
  <2>2. 1 \in 1 .. Len(s) /\ \A n \in 2 .. Len(s) : n \in 1 .. Len(s) /\ n # 1
    BY <1>4
  <2>3. f[1] = s[1]
    BY <2>1, <2>2, Zenon
  <2>4. \A n \in 2 .. Len(s) : f[n] = f[n - 1] \o s[n]
    BY <2>1, <2>2, Zenon
  <2> QED
    BY <2>3, <2>4 DEF Joined
<1>7. f[Len(s)] = g[Len(s)]
  <2>1. BeginAlike(s, s, Len(s))
    BY <1>4 DEF BeginAlike
  <2>2. \A p, q : Joined(p, s) /\ Joined(q, s) => p[Len(s)] = q[Len(s)]
    BY <1>4, <2>1, FlatAgree
  <2> QED
    BY <1>5, <1>6, <2>2
<1> QED
  BY <1>1, <1>6, <1>7

(* The blocks with one more are the words with its own behind. *)
LEMMA FlatAppend ==
  ASSUME NEW W, NEW s \in Seq(Seq(W)), NEW x \in Seq(W)
  PROVE  /\ FlattenSeq(Append(s, x)) = FlattenSeq(s) \o x
         /\ FlattenSeq(s) \in Seq(W)
<1> DEFINE t == Append(s, x)
<1>1. /\ t \in Seq(Seq(W)) /\ Len(t) = Len(s) + 1 /\ Len(s) \in Nat
      /\ (\A i \in 1 .. Len(s) : t[i] = s[i]) /\ t[Len(s) + 1] = x
  BY AppendProperties, LenProperties
<1> HIDE DEF t
<1>2. PICK g \in [1 .. Len(t) -> Seq(W)] : Joined(g, t) /\ FlattenSeq(t) = g[Len(t)]
  BY <1>1, FlatDef
<1>3. CASE Len(s) = 0
  <2>1. s = <<>> /\ FlattenSeq(s) = <<>>
    BY <1>3, EmptySeq DEF FlattenSeq
  <2>2. FlattenSeq(t) = x
    BY <1>1, <1>2, <1>3 DEF Joined
  <2>3. <<>> \o x = x /\ <<>> \in Seq(W)
    BY ConcatEmptySeq, EmptySeq
  <2> QED
    BY <2>1, <2>2, <2>3 DEF t
<1>4. CASE Len(s) # 0
  <2>1. PICK f \in [1 .. Len(s) -> Seq(W)] : Joined(f, s) /\ FlattenSeq(s) = f[Len(s)]
    BY <1>4, FlatDef
  <2>2. f[Len(s)] = g[Len(s)]
    <3>1. BeginAlike(s, t, Len(s)) /\ Len(t) \in Nat
      BY <1>1, <1>4 DEF BeginAlike
    <3>2. \A p, q : Joined(p, s) /\ Joined(q, t) => p[Len(s)] = q[Len(s)]
      BY <1>1, <3>1, FlatAgree
    <3> QED
      BY <1>2, <2>1, <3>2
  <2>3. g[Len(t)] = g[Len(s)] \o x
    <3>1. Len(t) \in 2 .. Len(t) /\ Len(t) - 1 = Len(s)
      BY <1>1, <1>4
    <3> QED
      BY <1>1, <1>2, <3>1 DEF Joined
  <2>4. FlattenSeq(s) \in Seq(W)
    BY <1>1, <1>4, <2>1
  <2> QED
    BY <1>2, <2>1, <2>2, <2>3, <2>4 DEF t
<1> QED
  BY <1>3, <1>4

LEMMA AppendTwo ==
  ASSUME NEW S, NEW s \in Seq(S), NEW x \in S, NEW y \in S
  PROVE  s \o <<x, y>> = Append(s \o <<x>>, y)
<1>1. s \o <<x, y>> = Append(Append(s, x), y)
  OBVIOUS
<1>2. s \o <<x>> = Append(s, x)
  BY AppendIsConcat
<1> QED
  BY <1>1, <1>2

Blocks(S) == Seq(Seq(S))

(* A block that is last, with the words before it. *)
LEMMA LastBlock ==
  ASSUME NEW W, NEW blocks \in Blocks(W), Len(blocks) # 0
  PROVE  /\ Front(blocks) \in Blocks(W) /\ Last(blocks) \in Seq(W)
         /\ FlattenSeq(blocks) = FlattenSeq(Front(blocks)) \o Last(blocks)
         /\ FlattenSeq(Front(blocks)) \in Seq(W)
<1> DEFINE n == Len(blocks)
           front == SubSeq(blocks, 1, n - 1)
           last == blocks[n]
<1>1. n \in Nat \ {0} /\ \A i \in 1 .. n : blocks[i] \in Seq(W)
  BY LenProperties, ElementOfSeq DEF Blocks
<1>2. /\ front \in Seq(Seq(W)) /\ Len(front) = n - 1 /\ \A i \in 1 .. n - 1 : front[i] = blocks[i]
  <2>1. \A i \in 1 .. n - 1 : blocks[i] \in Seq(W)
    BY <1>1
  <2>2. n - 1 \in Int /\ 1 \in Int
    BY <1>1
  <2> HIDE DEF n
  <2>3. /\ front \in Seq(Seq(W))
        /\ Len(front) = IF 1 <= n - 1 THEN (n - 1) - 1 + 1 ELSE 0
        /\ \A i \in 1 .. (n - 1) - 1 + 1 : front[i] = blocks[1 + i - 1]
    BY <2>1, <2>2, SubSeqProperties
  <2>4. (n - 1) - 1 + 1 = n - 1 /\ \A i \in 1 .. n - 1 : 1 + i - 1 = i
    BY <1>1
  <2> QED
    BY <1>1, <2>3, <2>4
<1>3. blocks = Append(front, last)
  <2> HIDE DEF front, last
  <2>1. last \in Seq(W)
    BY <1>1 DEF last
  <2>2. /\ Append(front, last) \in Seq(Seq(W)) /\ Len(Append(front, last)) = n
        /\ \A i \in 1 .. n : Append(front, last)[i] = blocks[i]
    <3>1. /\ Append(front, last) \in Seq(Seq(W)) /\ Len(Append(front, last)) = Len(front) + 1
          /\ \A i \in 1 .. Len(front) : Append(front, last)[i] = front[i]
          /\ Append(front, last)[Len(front) + 1] = last
      BY <1>2, <2>1, AppendProperties
    <3>2. Len(front) + 1 = n
      BY <1>1, <1>2
    <3>3. \A i \in 1 .. n : i \in 1 .. n - 1 \/ i = n
      BY <1>1
    <3> QED
      BY <1>2, <3>1, <3>2, <3>3 DEF last
  <2> QED
    BY <1>1, <2>2, SeqEqual DEF Blocks
<1>4. front = Front(blocks) /\ last = Last(blocks)
  BY DEF Front, Last
<1>5. last \in Seq(W)
  BY <1>1
<1> HIDE DEF front, last
<1> QED
  BY <1>2, <1>3, <1>4, <1>5, FlatAppend DEF Blocks

(* An entry goes behind all words, whether or not it is divided. *)
LEMMA AppendedWords ==
  ASSUME NEW W, NEW blocks \in Blocks(W), Len(blocks) # 0, Len(Last(blocks)) <= BlockWords,
         NEW words \in Seq(W), Len(words) <= BlockWords
  PROVE  /\ AppendWords(blocks, words) \in Blocks(W) /\ Len(AppendWords(blocks, words)) # 0
         /\ Len(Last(AppendWords(blocks, words))) <= BlockWords
         /\ FlattenSeq(AppendWords(blocks, words)) = FlattenSeq(blocks) \o words
<1> DEFINE front == Front(blocks)
           last  == Last(blocks)
           left  == BlockWords - Len(last)
           all   == FlattenSeq(front)
<1>1. /\ front \in Seq(Seq(W)) /\ last \in Seq(W) /\ all \in Seq(W)
      /\ FlattenSeq(blocks) = all \o last
  BY LastBlock DEF Blocks
<1>2. BlockWords \in Nat
  BY TablesAssumption DEF BlockWords
<1>3. Len(last) \in Nat /\ Len(words) \in Nat /\ left \in Nat
  BY <1>1, <1>2, LenProperties
<1>4. \A x \in Seq(W) : /\ front \o <<x>> = Append(front, x)
                        /\ Append(front, x) \in Seq(Seq(W))
                        /\ Len(Append(front, x)) # 0
                        /\ Last(Append(front, x)) = x
                        /\ FlattenSeq(Append(front, x)) = all \o x
  <2> HIDE DEF front
  <2> TAKE x \in Seq(W)
  <2>1. front \o <<x>> = Append(front, x)
    BY <1>1, AppendIsConcat
  <2>2. Append(front, x) \in Seq(Seq(W)) /\ Len(Append(front, x)) = Len(front) + 1
        /\ Append(front, x)[Len(front) + 1] = x /\ Len(front) \in Nat
    BY <1>1, AppendProperties, LenProperties
  <2>3. Last(Append(front, x)) = x
    BY <2>2 DEF Last
  <2>4. FlattenSeq(Append(front, x)) = all \o x
    BY <1>1, FlatAppend
  <2> QED
    BY <2>1, <2>2, <2>3, <2>4
<1>5. CASE Len(words) <= left
  <2>1. AppendWords(blocks, words) = front \o <<last \o words>>
    BY <1>5 DEF AppendWords
  <2>2. last \o words \in Seq(W) /\ Len(last \o words) = Len(last) + Len(words)
    BY <1>1, Joins
  <2>3. Len(last \o words) <= BlockWords
    BY <1>2, <1>3, <1>5, <2>2
  <2>4. all \o (last \o words) = (all \o last) \o words
    BY <1>1, ConcatAssociative
  <2> HIDE DEF front, last, all, left
  <2> QED
    BY <1>1, <1>4, <2>1, <2>2, <2>3, <2>4 DEF Blocks
<1>6. CASE ~(Len(words) <= left)
  <2> DEFINE a == SubSeq(words, 1, left)
             b == SubSeq(words, left + 1, Len(words))
  <2>1. AppendWords(blocks, words) = front \o <<last \o a, b>>
    BY <1>6 DEF AppendWords
  <2>2. /\ a \in Seq(W) /\ b \in Seq(W) /\ a \o b = words /\ Len(b) <= BlockWords
    <3> HIDE DEF left
    <3>1. left \in 0 .. Len(words)
      BY <1>3, <1>6
    <3>2. \A i \in 1 .. Len(words) : words[i] \in W
      BY ElementOfSeq
    <3>3. 1 \in Int /\ left \in Int /\ left + 1 \in Int /\ Len(words) \in Int
          /\ (\A i \in 1 .. left : words[i] \in W) /\ \A i \in left + 1 .. Len(words) : words[i] \in W
      BY <1>3, <3>1, <3>2
    <3>4. a \in Seq(W)
      BY <3>3, SubSeqProperties
    <3>5. b \in Seq(W) /\ Len(b) = IF left + 1 <= Len(words) THEN Len(words) - (left + 1) + 1 ELSE 0
      BY <3>3, SubSeqProperties
    <3>6. Len(b) <= BlockWords
      BY <1>2, <1>3, <3>1, <3>5
    <3>7. a \o b = SubSeq(words, 1, Len(words))
      <4>1. 1 \in 1 .. Len(words) + 1 /\ left \in (1 - 1) .. Len(words) /\ Len(words) \in left .. Len(words)
        BY <1>3, <3>1
      <4> QED
        BY <4>1, <3>1, <1>3, ConcatAdjacentSubSeq
    <3>8. SubSeq(words, 1, Len(words)) = words
      BY SubSeqFull
    <3> QED
      BY <3>4, <3>5, <3>6, <3>7, <3>8
  <2> HIDE DEF a, b
  <2>3. front \o <<last \o a, b>> = Append(front \o <<last \o a>>, b)
    <3>1. last \o a \in Seq(W)
      BY <1>1, <2>2, Joins
    <3>2. front \in Seq(Seq(W)) /\ b \in Seq(W)
      BY <1>1, <2>2
    <3> DEFINE x == last \o a
    <3> HIDE DEF front, x
    <3>3. x \in Seq(W)
      BY <3>1 DEF x
    <3>4. front \o <<x, b>> = Append(front \o <<x>>, b)
      BY <3>2, <3>3, AppendTwo, Zenon
    <3> QED
      BY <3>4 DEF x
  <2>4. last \o a \in Seq(W)
    BY <1>1, <2>2, Joins
  <2> DEFINE f == Append(front, last \o a)
  <2>5. f \in Seq(Seq(W)) /\ FlattenSeq(f) = all \o (last \o a) /\ f = front \o <<last \o a>>
    BY <1>4, <2>4
  <2> HIDE DEF f
  <2>6. /\ Append(f, b) \in Seq(Seq(W)) /\ Len(Append(f, b)) # 0 /\ Last(Append(f, b)) = b
        /\ FlattenSeq(Append(f, b)) = FlattenSeq(f) \o b
    <3>1. Append(f, b) \in Seq(Seq(W)) /\ Len(Append(f, b)) = Len(f) + 1
          /\ Append(f, b)[Len(f) + 1] = b /\ Len(f) \in Nat
      BY <2>2, <2>5, AppendProperties, LenProperties
    <3>2. FlattenSeq(Append(f, b)) = FlattenSeq(f) \o b
      BY <2>2, <2>5, FlatAppend
    <3> QED
      BY <3>1, <3>2 DEF Last
  <2>7. (all \o (last \o a)) \o b = (all \o last) \o words
    <3>1. all \in Seq(W) /\ last \in Seq(W) /\ a \in Seq(W) /\ b \in Seq(W) /\ all \o last \in Seq(W)
      BY <1>1, <2>2, Joins
    <3> HIDE DEF last, all
    <3>2. (all \o last) \o a = all \o (last \o a)
      BY <3>1
    <3> DEFINE x == all \o last
    <3> HIDE DEF x
    <3>3. x \in Seq(W)
      BY <3>1 DEF x
    <3>4. (x \o a) \o b = x \o (a \o b)
      BY <3>1, <3>3
    <3> QED
      BY <2>2, <3>2, <3>4 DEF x
  <2> HIDE DEF front, last, all, left
  <2>8. AppendWords(blocks, words) = Append(f, b)
    BY <2>1, <2>3, <2>5
  <2> QED
    BY <1>1, <2>2, <2>5, <2>6, <2>7, <2>8 DEF Blocks
<1> QED
  BY <1>5, <1>6

-----------------------------------------------------------------------------
(* The words of the directory: those in the blocks are the header and, in  *)
(* their order, those of the entries.                                      *)
WordLists(es) == [i \in DOMAIN es |-> WordsOf(es[i])]

Directory(es) == DirHeader \o FlattenSeq(WordLists(es))

WInv ==
  /\ \E S : entries \in Seq(S)
  /\ \E S : index \in Blocks(S)
  /\ Len(index) # 0 /\ Len(Last(index)) <= BlockWords
  /\ FlattenSeq(index) = Directory(entries)
  /\ final # <<>> => stage = "end"
  /\ \A d \in Range(final) : d.words = Directory(entries) \o Trailer

WordsIn(S) == {<<x, w>> : x \in S \cup {"header", "trailer"}, w \in 1 .. 8}

LEMMA WordLengths == BlockWords \in Nat /\ BlockWords >= 8
<1>1. Block \in Nat /\ Block % 16 = 0 /\ Block > 0
  BY TablesAssumption
<1>2. Block >= 16
  BY <1>1
<1> QED
  BY <1>1, <1>2 DEF BlockWords

LEMMA WordsTyped ==
  ASSUME NEW S, NEW e \in S
  PROVE  /\ DirHeader \in Seq(WordsIn(S)) /\ Len(DirHeader) = 8
         /\ Trailer \in Seq(WordsIn(S)) /\ Len(Trailer) = 4
         /\ WordsOf(e) \in Seq(WordsIn(S)) /\ Len(WordsOf(e)) = 6
<1>1. DirHeader \in [1 .. 8 -> WordsIn(S)] /\ Trailer \in [1 .. 4 -> WordsIn(S)]
  BY DEF DirHeader, Trailer, WordsIn
<1>2. WordsOf(e) \in [1 .. 6 -> WordsIn(S)]
  BY DEF WordsOf, EntryWords, WordsIn
<1>3. 8 \in Nat /\ 4 \in Nat /\ 6 \in Nat
  OBVIOUS
<1>4. \A n \in Nat : \A f : f \in [1 .. n -> WordsIn(S)] => f \in Seq(WordsIn(S)) /\ Len(f) = n
  BY IsASeq, LenProperties
<1> QED
  BY <1>1, <1>2, <1>3, <1>4

LEMMA BlocksGrow ==
  ASSUME NEW S, NEW T, S \subseteq T, NEW b \in Blocks(S)
  PROVE  b \in Blocks(T)
<1>1. Seq(S) \subseteq Seq(T)
  BY SeqMonotonic
<1>2. Seq(Seq(S)) \subseteq Seq(Seq(T))
  BY <1>1, SeqMonotonic
<1> QED
  BY <1>2 DEF Blocks

LEMMA WordListsTyped ==
  ASSUME NEW S, NEW es \in Seq(S)
  PROVE  WordLists(es) \in Blocks(WordsIn(S))
<1>1. Len(es) \in Nat /\ DOMAIN es = 1 .. Len(es) /\ \A i \in 1 .. Len(es) : es[i] \in S
  BY LenProperties, ElementOfSeq
<1>2. \A i \in 1 .. Len(es) : WordsOf(es[i]) \in Seq(WordsIn(S))
  BY <1>1, WordsTyped
<1>3. WordLists(es) \in [1 .. Len(es) -> Seq(WordsIn(S))]
  BY <1>1, <1>2 DEF WordLists
<1> QED
  BY <1>1, <1>3, IsASeq DEF Blocks

LEMMA WordListsAppend ==
  ASSUME NEW S, NEW es \in Seq(S), NEW e \in S
  PROVE  WordLists(Append(es, e)) = Append(WordLists(es), WordsOf(e))
<1> DEFINE n == Len(es)
           l == WordLists(Append(es, e))
           r == Append(WordLists(es), WordsOf(e))
<1>1. /\ n \in Nat /\ DOMAIN es = 1 .. n /\ Append(es, e) \in Seq(S) /\ Len(Append(es, e)) = n + 1
      /\ (\A i \in 1 .. n : Append(es, e)[i] = es[i]) /\ Append(es, e)[n + 1] = e
      /\ DOMAIN Append(es, e) = 1 .. n + 1
  BY AppendProperties, LenProperties
<1>2. WordLists(es) \in Blocks(WordsIn(S)) /\ l \in Blocks(WordsIn(S)) /\ WordsOf(e) \in Seq(WordsIn(S))
  BY <1>1, WordListsTyped, WordsTyped
<1>3. Len(WordLists(es)) = n /\ Len(l) = n + 1
  BY <1>1, <1>2, LenProperties DEF WordLists, Blocks
<1>4. /\ r \in Blocks(WordsIn(S)) /\ Len(r) = n + 1 /\ r[n + 1] = WordsOf(e)
      /\ \A i \in 1 .. n : r[i] = WordLists(es)[i]
  BY <1>2, <1>3, AppendProperties DEF Blocks
<1>5. ASSUME NEW i \in 1 .. n + 1 PROVE l[i] = r[i]
  <2>1. l[i] = WordsOf(Append(es, e)[i])
    BY <1>1 DEF WordLists
  <2>2. CASE i = n + 1
    BY <1>1, <1>4, <2>1, <2>2
  <2>3. CASE i # n + 1
    <3>1. i \in 1 .. n
      BY <1>1, <2>3
    <3>2. WordLists(es)[i] = WordsOf(es[i])
      BY <1>1, <3>1 DEF WordLists
    <3> QED
      BY <1>1, <1>4, <2>1, <3>1, <3>2
  <2> QED
    BY <2>2, <2>3
<1> HIDE DEF l, r
<1>6. l = r
  BY <1>2, <1>3, <1>4, <1>5, SeqEqual DEF Blocks
<1> QED
  BY <1>6 DEF l, r

LEMMA DirectoryTyped ==
  ASSUME NEW S, NEW es \in Seq(S), NEW e \in S
  PROVE  /\ Directory(es) \in Seq(WordsIn(S))
         /\ Directory(Append(es, e)) = Directory(es) \o WordsOf(e)
<1> DEFINE all == FlattenSeq(WordLists(es))
<1>1. /\ DirHeader \in Seq(WordsIn(S)) /\ WordsOf(e) \in Seq(WordsIn(S))
      /\ WordLists(es) \in Seq(Seq(WordsIn(S)))
  BY WordsTyped, WordListsTyped DEF Blocks
<1>2. all \in Seq(WordsIn(S)) /\ FlattenSeq(WordLists(Append(es, e))) = all \o WordsOf(e)
  BY <1>1, FlatAppend, WordListsAppend
<1> HIDE DEF all
<1>3. Directory(es) = DirHeader \o all /\ Directory(Append(es, e)) = DirHeader \o (all \o WordsOf(e))
  BY <1>2 DEF Directory, all
<1>4. DirHeader \o all \in Seq(WordsIn(S))
  BY <1>1, <1>2, Joins
<1>5. DirHeader \o (all \o WordsOf(e)) = (DirHeader \o all) \o WordsOf(e)
  BY <1>1, <1>2, ConcatAssociative
<1> QED
  BY <1>3, <1>4, <1>5

(* An entry with its words. *)
LEMMA EntryWritten ==
  ASSUME WInv, NEW e, entries' = Append(entries, e), index' = AppendWords(index, WordsOf(e)),
         final' = final, stage # "end"
  PROVE  WInv'
<1>1. PICK S : entries \in Seq(S)
  BY DEF WInv
<1>2. PICK W : index \in Blocks(W)
  BY DEF WInv
<1> DEFINE T == S \cup {e}
           V == W \cup WordsIn(T)
<1>3. entries \in Seq(T) /\ e \in T
  BY <1>1, SeqMonotonic
<1>4. index \in Blocks(V) /\ WordsOf(e) \in Seq(V) /\ Len(WordsOf(e)) = 6
  <2>1. W \subseteq V /\ WordsIn(T) \subseteq V
    OBVIOUS
  <2> HIDE DEF V
  <2>2. WordsOf(e) \in Seq(WordsIn(T)) /\ Len(WordsOf(e)) = 6
    BY <1>3, WordsTyped
  <2> QED
    BY <1>2, <2>1, <2>2, BlocksGrow, SeqMonotonic
<1>5. Len(WordsOf(e)) <= BlockWords
  BY <1>4, WordLengths
<1> HIDE DEF T, V
<1>6. /\ index' \in Blocks(V) /\ Len(index') # 0 /\ Len(Last(index')) <= BlockWords
      /\ FlattenSeq(index') = FlattenSeq(index) \o WordsOf(e)
  BY <1>4, <1>5, AppendedWords DEF WInv
<1>7. Directory(entries') = Directory(entries) \o WordsOf(e)
  BY <1>3, DirectoryTyped
<1>8. entries' \in Seq(T)
  BY <1>3, AppendProperties
<1>9. final' = <<>> /\ Range(final') = {}
  BY DEF WInv, Range
<1> QED
  BY <1>6, <1>7, <1>8, <1>9 DEF WInv

LEMMA DirectoryFlushed ==
  ASSUME WInv, FlushIndexes
  PROVE  /\ WInv'
         /\ \E n \in Nat : out' = [out EXCEPT !.high = Xdebug(DwordAligned(soFar) + 2 * n)] /\ soFar' = DwordAligned(soFar) + 2 * n
<1> DEFINE words == FlattenSeq(AppendWords(index, Trailer))
           at == DwordAligned(soFar)
<1>1. /\ stage' = "end" /\ UNCHANGED <<index, entries>>
      /\ final' = <<[place |-> soFar, at |-> at, words |-> words]>>
      /\ soFar' = at + 2 * Len(words) /\ out' = [out EXCEPT !.high = Xdebug(at + 2 * Len(words))]
  BY DEF FlushIndexes
<1>2. PICK W : index \in Blocks(W)
  BY DEF WInv
<1> DEFINE V == W \cup WordsIn({0})
<1>3. index \in Blocks(V) /\ Trailer \in Seq(V) /\ Len(Trailer) = 4
  <2>1. W \subseteq V /\ WordsIn({0}) \subseteq V
    OBVIOUS
  <2> HIDE DEF V
  <2>2. Trailer \in Seq(WordsIn({0})) /\ Len(Trailer) = 4
    BY WordsTyped
  <2> QED
    BY <1>2, <2>1, <2>2, BlocksGrow, SeqMonotonic
<1> HIDE DEF V
<1>4. /\ AppendWords(index, Trailer) \in Blocks(V)
      /\ words = FlattenSeq(index) \o Trailer
  <2>1. Len(Trailer) <= BlockWords /\ Len(index) # 0 /\ Len(Last(index)) <= BlockWords
    BY <1>3, WordLengths DEF WInv
  <2> QED
    BY <1>3, <2>1, AppendedWords
<1>5. words \in Seq(V)
  BY <1>3, <1>4, FlatAppend DEF Blocks
<1>6. Len(words) \in Nat
  BY <1>5, LenProperties
<1>7. words = Directory(entries) \o Trailer
  BY <1>4 DEF WInv
<1> HIDE DEF words, at
<1>8. \A d \in Range(final') : d.words = words
  BY <1>1 DEF Range
<1>9. WInv'
  BY <1>1, <1>7, <1>8 DEF WInv
<1> QED
  BY <1>1, <1>6, <1>9 DEF at

LEMMA InitWInv == Init => WInv
<1> SUFFICES ASSUME Init PROVE WInv
  OBVIOUS
<1>1. index = <<DirHeader>> /\ entries = <<>> /\ final = <<>>
  BY DEF Init
<1>2. DirHeader \in Seq(WordsIn({0})) /\ Len(DirHeader) = 8
  BY WordsTyped
<1>3. index \in Blocks(WordsIn({0})) /\ Len(index) = 1 /\ Last(index) = DirHeader
  BY <1>1, <1>2 DEF Blocks, Last
<1>4. entries \in Seq({})
  BY <1>1
<1>5. WordLists(entries) = <<>>
  <2>1. WordLists(entries) \in Blocks(WordsIn({}))
    BY <1>4, WordListsTyped
  <2>2. DOMAIN WordLists(entries) = {}
    BY <1>1 DEF WordLists
  <2> QED
    BY <2>1, <2>2, EmptySeq, LenProperties DEF Blocks
<1>6. FlattenSeq(WordLists(entries)) = <<>>
  BY <1>5 DEF FlattenSeq
<1>7. Directory(entries) = DirHeader
  BY <1>2, <1>6, ConcatEmptySeq DEF Directory
<1>8. FlattenSeq(index) = DirHeader
  <2> DEFINE none == <<>>
  <2>1. none \in Seq(Seq(WordsIn({0}))) /\ index = Append(none, DirHeader)
    BY <1>1, <1>2
  <2>2. FlattenSeq(none) = <<>>
    BY DEF FlattenSeq
  <2>3. FlattenSeq(index) = FlattenSeq(none) \o DirHeader
    <3> HIDE DEF none
    <3> QED
      BY <1>2, <2>1, FlatAppend
  <2> QED
    BY <1>2, <2>2, <2>3, ConcatEmptySeq
<1>9. Range(final) = {}
  BY <1>1 DEF Range
<1>10. Len(index) # 0 /\ Len(Last(index)) <= BlockWords
  <2>1. Len(index) = 1 /\ Len(Last(index)) = 8
    BY <1>2, <1>3
  <2> QED
    BY <2>1, WordLengths
<1>11. FlattenSeq(index) = Directory(entries)
  BY <1>7, <1>8
<1>12. \A d \in Range(final) : d.words = Directory(entries) \o Trailer
  BY <1>9
<1> QED
  <2>1. \E S : entries \in Seq(S)
    BY <1>4
  <2>2. \E S : index \in Blocks(S)
    BY <1>3
  <2>3. final # <<>> => stage = "end"
    BY <1>1
  <2> QED
    BY <2>1, <2>2, <2>3, <1>10, <1>11, <1>12 DEF WInv

LEMMA NextWInv == WInv /\ [Next]_vars => WInv'
<1> SUFFICES ASSUME WInv, [Next]_vars PROVE WInv'
  OBVIOUS
<1>1. CASE WriteModule
  <2>1. /\ stage = "modules" /\ final' = final
        /\ \E e : entries' = Append(entries, e) /\ index' = AppendWords(index, WordsOf(e))
    BY <1>1 DEF WriteModule, Another, HandleIndex
  <2> QED
    BY <2>1, EntryWritten
<1>2. CASE WriteSegments
  <2> DEFINE e == [type |-> "segments", at |-> DwordAligned(soFar), length |-> 30]
  <2>1. /\ stage = "segments" /\ final' = final
        /\ entries' = Append(entries, e) /\ index' = AppendWords(index, WordsOf(Last(entries')))
    BY <1>2 DEF WriteSegments
  <2> HIDE DEF e
  <2>2. Last(entries') = e
    <3>1. PICK S : entries \in Seq(S)
      BY DEF WInv
    <3>2. entries \in Seq(S \cup {e})
      BY <3>1, SeqMonotonic
    <3>3. Len(entries') = Len(entries) + 1 /\ entries'[Len(entries) + 1] = e
      BY <2>1, <3>2, AppendProperties
    <3> QED
      BY <3>3 DEF Last
  <2> QED
    BY <2>1, <2>2, EntryWritten
<1>3. CASE EndSection
  <2>1. stage \in {"public", "global", "static"} /\ final' = final
    BY <1>3, ExhaustedStage DEF EndSection
  <2>2. CASE Overruns(stage # "static", out, 8)
    <3>1. UNCHANGED <<index, entries>>
      BY <1>3, <2>2 DEF EndSection
    <3>2. final' = <<>>
      BY <2>1 DEF WInv
    <3> QED
      BY <3>1, <3>2, <2>1 DEF WInv
  <2>3. CASE ~Overruns(stage # "static", out, 8)
    <3> DEFINE g == FlushTemp(Terminated(stage # "static"))
    <3>1. FlushSymbolHashes(g)
      BY <1>3, <2>3 DEF EndSection
    <3> HIDE DEF g
    <3>2. \E e : entries' = Append(entries, e) /\ index' = AppendWords(index, WordsOf(e))
      BY <3>1, Zenon DEF FlushSymbolHashes, HandleIndex
    <3> QED
      BY <2>1, <3>2, EntryWritten
  <2> QED
    BY <2>2, <2>3
<1>4. CASE FlushIndexes
  BY <1>4, DirectoryFlushed
<1>5. ASSUME UNCHANGED <<index, entries, final>>, stage = "end" => stage' = "end" PROVE WInv'
  BY <1>5 DEF WInv
<1>6. CASE UNCHANGED vars
  BY <1>5, <1>6 DEF vars
<1>7. CASE EndModules \/ EndInstall \/ \E s \in Globals : InstallGlobalsym(s)
  BY <1>5, <1>7 DEF EndModules, EndInstall, InstallGlobalsym
<1>8. CASE (\E s \in Publics : PutPublic(s)) \/ PutGlobal \/ \E s \in Statics : PutStatic(s)
  BY <1>5, <1>8 DEF PutPublic, PutGlobal, PutStatic
<1>9. CASE SkipSection
  BY <1>5, <1>9, ExhaustedStage DEF SkipSection
<1> QED
  BY <1>1, <1>2, <1>3, <1>4, <1>6, <1>7, <1>8, <1>9 DEF Next

-----------------------------------------------------------------------------
(* The places in the directory.                                            *)

(* Where the entries so far end: at first behind the signature. *)
Ends == IF entries = <<>> THEN 8 ELSE entries[Len(entries)].at + entries[Len(entries)].length

DInv ==
  /\ \E S : entries \in Seq(S)
  /\ \A i \in DOMAIN entries :
       entries[i].at = IF i = 1 THEN 8 ELSE DwordAligned(entries[i - 1].at + entries[i - 1].length)
  /\ ~open /\ stage \notin {"directory", "end"} =>
       Ends = soFar /\ out.high = IF entries = <<>> THEN 0 ELSE soFar
  /\ open => start = DwordAligned(Ends) /\ out.base = start + HeaderSize /\ soFar = out.base /\ start \in Nat
  /\ stage = "directory" => soFar = DwordAligned(soFar) /\ out.high = soFar
  /\ stage = "end" => out.high = soFar
  /\ final # <<>> <=> stage = "end"
  /\ \A d \in Range(final) : d.place = d.at

LEMMA EntryAdded ==
  ASSUME DInv, NEW e, entries' = Append(entries, e), e.at = DwordAligned(Ends)
  PROVE  /\ \E S : entries' \in Seq(S)
         /\ \A i \in DOMAIN entries' :
              entries'[i].at = IF i = 1 THEN 8 ELSE DwordAligned(entries'[i - 1].at + entries'[i - 1].length)
         /\ Ends' = e.at + e.length /\ entries' # <<>>
<1>1. PICK S : entries \in Seq(S)
  BY DEF DInv
<1>2. entries \in Seq(S \cup {e})
  <2>1. S \subseteq S \cup {e}
    OBVIOUS
  <2> QED
    BY <1>1, <2>1, SeqMonotonic
<1>3. /\ entries' \in Seq(S \cup {e}) /\ Len(entries') = Len(entries) + 1 /\ Len(entries) \in Nat
      /\ (\A i \in 1 .. Len(entries) : entries'[i] = entries[i]) /\ entries'[Len(entries) + 1] = e
      /\ DOMAIN entries = 1 .. Len(entries) /\ DOMAIN entries' = 1 .. Len(entries) + 1
  BY <1>2, AppendProperties, LenProperties
<1>4. entries = <<>> <=> Len(entries) = 0
  BY <1>2, EmptySeq
<1>5. entries' # <<>>
  BY <1>3, EmptySeq
<1>6. DwordAligned(8) = 8
  BY DEF DwordAligned
<1>7. ASSUME NEW i \in DOMAIN entries'
      PROVE  entries'[i].at = IF i = 1 THEN 8 ELSE DwordAligned(entries'[i - 1].at + entries'[i - 1].length)
  <2>1. CASE i = Len(entries) + 1 /\ i = 1
    <3>1. Len(entries) = 0
      BY <1>3, <2>1
    <3>2. Ends = 8
      BY <1>4, <3>1 DEF Ends
    <3>3. entries'[i].at = 8
      BY <1>3, <1>6, <2>1, <3>2
    <3> QED
      BY <2>1, <3>3
  <2>2. CASE i = Len(entries) + 1 /\ i # 1
    <3>1. Ends = entries[i - 1].at + entries[i - 1].length /\ entries'[i - 1] = entries[i - 1] /\ entries'[i] = e
      <4>1. Len(entries) = i - 1 /\ Len(entries) # 0 /\ i - 1 \in 1 .. Len(entries) /\ i = Len(entries) + 1
        BY <1>3, <2>2
      <4>2. Ends = entries[Len(entries)].at + entries[Len(entries)].length
        BY <1>4, <4>1 DEF Ends
      <4>3. entries'[i - 1] = entries[i - 1] /\ entries'[i] = e
        BY <1>3, <4>1
      <4> QED
        BY <4>1, <4>2, <4>3
    <3> QED
      BY <2>2, <3>1
  <2>3. CASE i \in DOMAIN entries
    <3>1. entries'[i] = entries[i] /\ (i # 1 => entries'[i - 1] = entries[i - 1])
      BY <1>3, <2>3
    <3>2. entries[i].at = IF i = 1 THEN 8 ELSE DwordAligned(entries[i - 1].at + entries[i - 1].length)
      BY <2>3 DEF DInv
    <3> QED
      BY <3>1, <3>2
  <2> QED
    BY <1>3, <2>1, <2>2, <2>3
<1>8. Ends' = e.at + e.length
  BY <1>3, <1>5 DEF Ends
<1> QED
  BY <1>3, <1>5, <1>7, <1>8

LEMMA PutDInv ==
  ASSUME SInv, DInv, NEW align \in BOOLEAN, NEW s \in Symbols, Put(align, s), UNCHANGED <<entries, final>>,
         stage \in {"public", "global", "static"}, align <=> stage # "static"
  PROVE  DInv'
<1>1. SectionInv' /\ (stage' # "fault" => open' /\ stage' = stage /\ out'.base = InitHashes.out.base)
  BY PutSection
<1>2. Ends' = Ends
  BY DEF Ends
<1>3. soFar \in Nat
  BY DEF SInv, SectionInv
<1>4. CASE stage' = "fault"
  <2>1. UNCHANGED <<open, soFar, start, out>>
    BY <1>4 DEF Put
  <2> QED
    BY <1>2, <1>4, <2>1 DEF DInv
<1>5. CASE stage' # "fault"
  <2>1. stage' = stage /\ open' /\ start' = InitHashes.at /\ soFar' = InitHashes.soFar
    BY <1>1, <1>5 DEF Put
  <2>2. CASE open
    <3>1. start' = start /\ soFar' = soFar /\ out'.base = out.base
      BY <1>1, <1>5, <2>1, <2>2 DEF InitHashes
    <3> QED
      BY <1>2, <2>1, <2>2, <3>1 DEF DInv
  <2>3. CASE ~open
    <3> DEFINE at == DwordAligned(soFar)
    <3>1. at \in Nat /\ at >= soFar
      BY <1>3, DwordSteps
    <3>2. out.high \in Nat /\ out.high <= soFar /\ Ends = soFar
      BY <1>3, <2>3 DEF DInv
    <3>3. Xdebug(at) = at
      BY <1>3, <3>1, <3>2, XdebugNat
    <3>4. start' = at /\ soFar' = at + HeaderSize /\ InitHashes.out = Opened(Xdebug(at) + HeaderSize)
      BY <2>1, <2>3 DEF InitHashes
    <3>5. out'.base = at + HeaderSize
      BY <1>1, <1>5, <3>3, <3>4 DEF Opened
    <3> QED
      BY <1>2, <2>1, <3>1, <3>2, <3>4, <3>5 DEF DInv
  <2> QED
    BY <2>2, <2>3
<1> QED
  BY <1>4, <1>5

LEMMA EndSectionDInv ==
  ASSUME TablesSized, SInv, DInv, EndSection
  PROVE  DInv'
<1>1. stage \in {"public", "global", "static"} /\ open
  BY ExhaustedStage DEF EndSection
<1>2. SectionInv' /\ (stage' # "fault" /\ out.base = soFar => out'.high = soFar')
  BY EndSectionSInv
<1>3. CASE Overruns(stage # "static", out, 8)
  <2>1. UNCHANGED <<open, soFar, start, out, entries, final>> /\ stage' = "fault"
    BY <1>3 DEF EndSection
  <2>2. Ends' = Ends
    BY <2>1 DEF Ends
  <2> QED
    BY <1>1, <2>1, <2>2 DEF DInv
<1>4. CASE ~Overruns(stage # "static", out, 8)
  <2> DEFINE e == [type |-> stage, at |-> start, length |-> soFar' - start]
  <2>1. /\ entries' = Append(entries, e) /\ open' = FALSE /\ final' = final
        /\ stage' \in {"global", "static", "segments"}
    <3> DEFINE g == FlushTemp(Terminated(stage # "static"))
    <3>1. FlushSymbolHashes(g) /\ stage' = NextStage[stage] /\ open' = FALSE /\ final' = final
      BY <1>4 DEF EndSection
    <3> HIDE DEF g
    <3>2. \E end : entries' = Append(entries, [type |-> stage, at |-> start, length |-> end - start]) /\ soFar' = end
      BY <3>1, Zenon DEF FlushSymbolHashes, HandleIndex
    <3>3. entries' = Append(entries, e)
      BY <3>2
    <3>4. NextStage[stage] \in {"global", "static", "segments"}
      BY <1>1 DEF NextStage
    <3> QED
      BY <3>1, <3>3, <3>4
  <2>2. e.at = DwordAligned(Ends) /\ e.at = start /\ e.length = soFar' - start /\ start \in Nat
    BY <1>1 DEF DInv
  <2>3. out'.high = soFar' /\ soFar' \in Nat
    BY <1>1, <1>2, <2>1 DEF DInv, SectionInv
  <2> HIDE DEF e
  <2>4. /\ \E S : entries' \in Seq(S)
        /\ \A i \in DOMAIN entries' :
             entries'[i].at = IF i = 1 THEN 8 ELSE DwordAligned(entries'[i - 1].at + entries'[i - 1].length)
        /\ Ends' = e.at + e.length /\ entries' # <<>>
    BY <2>1, <2>2, EntryAdded
  <2>5. Ends' = soFar'
    <3>1. \A a, b \in Nat : a + (b - a) = b
      OBVIOUS
    <3>2. e.at + e.length = start + (soFar' - start)
      BY <2>2, Zenon
    <3>3. start + (soFar' - start) = soFar'
      BY <2>2, <2>3, <3>1, Zenon
    <3> QED
      BY <2>4, <3>2, <3>3, Zenon
  <2>6. \A d \in Range(final) : d.place = d.at
    BY DEF DInv
  <2>7. final' = <<>>
    BY <1>1, <2>1 DEF DInv
  <2> QED
    BY <2>1, <2>3, <2>4, <2>5, <2>6, <2>7 DEF DInv
<1> QED
  BY <1>3, <1>4

LEMMA NextDInv == ASSUME TablesSized, SInv, WInv, DInv, [Next]_vars PROVE DInv'
<1>1. stage # "end" => soFar \in Nat /\ out.high \in Nat
  BY DEF SInv, SectionInv
<1>2. stage \notin {"public", "global", "static", "fault"} => ~open
  BY DEF SInv, SectionInv
<1>3. DOMAIN out = {"high", "base", "put", "bytes", "most", "wrote", "page"}
  BY DEF SInv, BInv, BufferOK, IsOutput
<1>4. CASE WriteModule
  <2> DEFINE at == DwordAligned(soFar)
             e  == [type |-> "module", at |-> at, length |-> (at + 21) - at]
  <2>1. /\ stage = "modules" /\ ~open /\ stage' = stage /\ open' = open /\ UNCHANGED <<start, final>>
        /\ entries' = Append(entries, e) /\ soFar' = at + 21 /\ out' = [out EXCEPT !.high = Xdebug(at + 21)]
    BY <1>2, <1>4 DEF WriteModule, Another, HandleIndex
  <2>2. soFar \in Nat /\ out.high \in Nat /\ out.high <= soFar /\ Ends = soFar
    BY <1>1, <2>1 DEF DInv
  <2>3. at \in Nat /\ at >= soFar
    BY <2>2, DwordSteps
  <2>4. Xdebug(at + 21) = at + 21
    BY <2>2, <2>3, XdebugNat
  <2>5. out'.high = soFar'
    BY <1>3, <2>1, <2>4
  <2>6. e.at = DwordAligned(Ends) /\ e.at + e.length = soFar'
    BY <2>1, <2>2, <2>3
  <2> HIDE DEF e
  <2>7. /\ \E S : entries' \in Seq(S)
        /\ \A i \in DOMAIN entries' :
             entries'[i].at = IF i = 1 THEN 8 ELSE DwordAligned(entries'[i - 1].at + entries'[i - 1].length)
        /\ Ends' = e.at + e.length /\ entries' # <<>>
    BY <2>1, <2>6, EntryAdded
  <2> QED
    BY <2>1, <2>5, <2>6, <2>7 DEF DInv
<1>5. CASE WriteSegments
  <2> DEFINE at == DwordAligned(soFar)
             e  == [type |-> "segments", at |-> at, length |-> 30]
             to == DwordAligned(at + 30)
  <2>1. /\ stage = "segments" /\ ~open /\ stage' = "directory" /\ open' = open /\ UNCHANGED <<start, final>>
        /\ entries' = Append(entries, e) /\ soFar' = to /\ out' = [out EXCEPT !.high = Xdebug(to)]
    BY <1>2, <1>5 DEF WriteSegments
  <2>2. soFar \in Nat /\ out.high \in Nat /\ out.high <= soFar /\ Ends = soFar
    BY <1>1, <2>1 DEF DInv
  <2>3. at \in Nat /\ at >= soFar
    BY <2>2, DwordSteps
  <2>4. at + 30 \in Nat
    BY <2>3
  <2>5. to \in Nat /\ to >= at + 30 /\ DwordAligned(to) = to
    BY <2>4, DwordSteps
  <2>6. e.at = DwordAligned(Ends)
    BY <2>2
  <2> HIDE DEF e, to
  <2>7. Xdebug(to) = to
    BY <2>2, <2>3, <2>5, XdebugNat
  <2>8. out'.high = soFar'
    BY <1>3, <2>1, <2>7
  <2>9. /\ \E S : entries' \in Seq(S)
        /\ \A i \in DOMAIN entries' :
             entries'[i].at = IF i = 1 THEN 8 ELSE DwordAligned(entries'[i - 1].at + entries'[i - 1].length)
    BY <2>1, <2>6, EntryAdded
  <2>10. soFar' = DwordAligned(soFar')
    BY <2>1, <2>5
  <2> QED
    BY <2>1, <2>8, <2>9, <2>10 DEF DInv
<1>6. CASE FlushIndexes
  <2>1. /\ stage = "directory" /\ stage' = "end" /\ UNCHANGED <<open, start, entries>>
        /\ \E w : final' = <<[place |-> soFar, at |-> DwordAligned(soFar), words |-> w]>>
    BY <1>6, Zenon DEF FlushIndexes
  <2>2. soFar = DwordAligned(soFar) /\ out.high = soFar /\ soFar \in Nat /\ ~open
    BY <1>1, <1>2, <2>1 DEF DInv
  <2>3. PICK w : final' = <<[place |-> soFar, at |-> DwordAligned(soFar), words |-> w]>>
    BY <2>1
  <2>4. \A d \in Range(final') : d.place = d.at
    BY <2>2, <2>3 DEF Range
  <2>5. PICK n \in Nat : out' = [out EXCEPT !.high = Xdebug(soFar + 2 * n)] /\ soFar' = soFar + 2 * n
    BY <1>6, <2>2, DirectoryFlushed
  <2>6. Xdebug(soFar + 2 * n) = soFar + 2 * n
    <3>1. soFar + 2 * n \in Nat /\ soFar + 2 * n >= out.high
      BY <2>2
    <3> QED
      BY <2>2, <3>1, XdebugNat
  <2>7. out'.high = soFar'
    BY <1>3, <2>5, <2>6
  <2> QED
    BY <2>1, <2>2, <2>4, <2>7 DEF DInv
<1>7. ASSUME UNCHANGED <<open, soFar, start, out, entries, final>>,
             stage' = stage \/ (~open /\ {stage, stage'} \cap {"directory", "end"} = {})
      PROVE  DInv'
  <2>1. Ends' = Ends
    BY <1>7 DEF Ends
  <2> QED
    BY <1>7, <2>1 DEF DInv
<1>8. CASE EndModules \/ EndInstall \/ UNCHANGED vars
  <2>1. UNCHANGED <<open, soFar, start, out, entries, final>>
    BY <1>8 DEF EndModules, EndInstall, vars
  <2>2. stage' = stage \/ (~open /\ {stage, stage'} \cap {"directory", "end"} = {})
    BY <1>2, <1>8 DEF EndModules, EndInstall, vars
  <2> QED
    BY <1>7, <2>1, <2>2
<1>9. CASE SkipSection
  <2>1. UNCHANGED <<open, soFar, start, out, entries, final>> /\ ~open
    BY <1>9 DEF SkipSection
  <2>2. stage \in {"public", "global", "static"} /\ stage' \in {"global", "static", "segments"}
    BY <1>9, ExhaustedStage DEF SkipSection, NextStage
  <2> QED
    BY <1>7, <2>1, <2>2
<1>10. ASSUME NEW s \in Globals, InstallGlobalsym(s) PROVE DInv'
  BY <1>7, <1>10 DEF InstallGlobalsym
<1>11. ASSUME NEW s \in Publics, PutPublic(s) PROVE DInv'
  BY <1>11, PutDInv DEF PutPublic, Symbols
<1>12. CASE PutGlobal
  <2>1. gsyms[Len(infos) + 1] \in Symbols
    BY <1>12, NextGlobal DEF PutGlobal, SInv, BInv, Symbols
  <2> QED
    BY <1>12, <2>1, PutDInv DEF PutGlobal
<1>13. ASSUME NEW s \in Statics, PutStatic(s) PROVE DInv'
  BY <1>13, PutDInv DEF PutStatic, Symbols
<1>14. CASE EndSection
  BY <1>14, EndSectionDInv
<1> QED
  BY <1>4, <1>5, <1>6, <1>8, <1>9, <1>10, <1>11, <1>12, <1>13, <1>14 DEF Next

(* The directory holds its header, every entry and the trailer, word for   *)
(* word, divided over blocks as they fill (_handle_index); the places in   *)
(* it are those of the sections, though BYTES_SO_FAR and FINAL_HIGH_WATER  *)
(* are advanced by different functions (_handle_index, _init_cv_symbol_    *)
(* hashes, _flush_symbol_hashes, xdebug_normal); and it is where the       *)
(* header of the information says.                                         *)
THEOREM DirectoryAlwaysRight ==
  ASSUME TablesSized
  PROVE  Spec => []DirectoryRight
<1>1. Init => DInv
  <2> SUFFICES ASSUME Init PROVE DInv
    OBVIOUS
  <2>1. /\ entries = <<>> /\ final = <<>> /\ open = FALSE /\ soFar = 8 /\ out.high = 0 /\ stage = "modules"
    BY DEF Init, Opened
  <2>2. entries \in Seq({}) /\ DOMAIN entries = {} /\ Range(final) = {}
    BY <2>1, EmptySeq DEF Range
  <2> QED
    BY <2>1, <2>2 DEF DInv, Ends
<1>2. SInv /\ WInv /\ DInv /\ [Next]_vars => SInv' /\ WInv' /\ DInv'
  BY NextSInv, NextWInv, NextDInv
<1>3. SInv /\ WInv /\ DInv => DirectoryRight
  <2> SUFFICES ASSUME SInv, WInv, DInv PROVE DirectoryRight
    OBVIOUS
  <2>1. ~open /\ entries # <<>> => out.high = soFar
    BY DEF DInv
  <2>2. open => out.base = start + HeaderSize
    BY DEF DInv
  <2>3. \A i \in DOMAIN entries :
          entries[i].at = IF i = 1 THEN 8 ELSE DwordAligned(entries[i - 1].at + entries[i - 1].length)
    BY DEF DInv
  <2>4. \A d \in Range(final) :
          /\ d.place = d.at
          /\ d.words = DirHeader \o FlattenSeq([i \in DOMAIN entries |-> WordsOf(entries[i])]) \o Trailer
    BY DEF DInv, WInv, Directory, WordLists
  <2> QED
    BY <2>1, <2>2, <2>3, <2>4, Zenon DEF DirectoryRight
<1> QED
  BY InitSInv, InitWInv, <1>1, <1>2, <1>3, PTL DEF Spec
=============================================================================
