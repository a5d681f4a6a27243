--------------------------- MODULE OpenReadProofs ----------------------------
(***************************************************************************)
(* Threaded file input (OpenRead.tla) for one, two or four threads and any *)
(* files: the buffers of a thread are accounted for (BuffersAccounted), a  *)
(* structure is not reused while main reads from it (SlotsOwned,           *)
(* RingsHold), main sees the files in order, each whole, as if it read     *)
(* them itself (InputInOrder), and each handle has one holder and none is  *)
(* left in the end (HandlesHeld).                                          *)
(*                                                                         *)
(* The invariant has parts, each inductive with those before it: BInv, the *)
(* buffers as counts; DInv, the order of the files; SInv, the OPEN_STRUCTs;*)
(* CInv, the blocks in the buffers; WInv, the units that the tail leaves;  *)
(* HInv, the handles.  BInv stands alone; the others speak of an order d   *)
(* in which the files were dealt and of the number p[t] of those of thread *)
(* t that main has behind it, ghosts that the invariant quantifies over.   *)
(***************************************************************************)
EXTENDS OpenRead, SequenceTheorems, TLAPS

(* What a thread delivers of a file.                                       *)
Delivers(f) == IF Disk[f].found THEN ReadBlocks(f) ELSE 0

(* A tail file that leaves nothing in the rings for the next one.          *)
ReadToEnd(f) == Disk[f].wanted /\ (Disk[f].found => NeedBlocks(f) = ReadBlocks(f))

(* The tail files that main reads as it reads the others: it looks at all  *)
(* that is delivered of each, the last of all excepted.                    *)
TailsTaken ==
  \A c \in Commands : \A i \in DOMAIN c.tail :
    /\ Disk[c.tail[i]].wanted => Disk[c.tail[i]].nonres = 0
    /\ i < Len(c.tail) => ReadToEnd(c.tail[i])

(* No thread has more than three tail files, so it never waits for the     *)
(* OPEN_STRUCTs that they keep.                                            *)
TailsFew == \A c \in Commands : Len(c.tail) <= 3 * N_R_THREADS

-----------------------------------------------------------------------------
(* A thread, and its half of the rings.                                    *)
InFile == {"header", "oldlength", "getbuffer", "read", "full", "close"}
AtFile == InFile \cup {"open", "opened"}

(* Of a library something is read, at least its dictionary.                *)
HasBlocks(f) == Disk[f].kind = "LIB" => Pages(f) > 0

ThreadOK(t) ==
  /\ lastOpened[t] <= Len(linked[t])
  /\ pc[t] \in AtFile => lastOpened[t] >= 1
  /\ pc[t] = "unborn" <=> linked[t] = <<>>
  /\ pc[t] \in {"abort", "dead"} => opreadsDone
  /\ ~opreadsDone => sem[t].name = Len(linked[t]) - lastOpened[t]
  /\ pc[t] \in {"opened", "header", "oldlength"} => blk[t] = 0
  /\ pc[t] \in {"getbuffer", "read"} => blk[t] < ReadBlocks(ThreadFile(t))
  /\ pc[t] = "full" => blk[t] \in 1 .. ReadBlocks(ThreadFile(t))
  /\ pc[t] = "close" => blk[t] = ReadBlocks(ThreadFile(t)) /\ ~IsLibrary(ThreadFile(t))
  /\ pc[t] = "header" => Disk[ThreadFile(t)].kind = "LIB"
  /\ pc[t] = "oldlength" => Disk[ThreadFile(t)].kind = "OLD"
  /\ \A k \in 1 .. Len(linked[t]) : HasBlocks(linked[t][k])

MainOK ==
  /\ Using => todo # <<>>
  /\ opreadsDone <=> mpc \in {"bump", "join", "finished"}
  /\ opreadsDone => libsDone /\ todo = <<>>
  /\ mpc # "link" => toLink = <<>>
  /\ \A f \in Elements(toLink) \cup Elements(defaults) : HasBlocks(f)

(* The units of a thread's buffers, and what is in them.                   *)
CountsOK(t) ==
  /\ sem[t].full + sem[t].ins + Filling(t) + Returning(t) = 4
  /\ nextBuffer[t] = (next16K[t] + sem[t].full + Filling(t)) % 4

InUse(t, i) ==
  \/ \E k \in 1 .. sem[t].full : i = (next16K[t] + k) % 4
  \/ pc[t] = "full" /\ i = nextBuffer[t]

PlacesOK(t) == \A i \in Ring : insBlock[t][i] # NoBlock <=> InUse(t, i)

BInv ==
  /\ TypeOK
  /\ mpc # "exited" =>
       /\ MainOK
       /\ \A t \in Threads : ThreadOK(t)
       /\ ~opreadsDone => \A t \in Threads : CountsOK(t) /\ PlacesOK(t)

-----------------------------------------------------------------------------
(* What a step leaves alone.                                               *)
Same(u) ==
  /\ pc'[u] = pc[u] /\ lastOpened'[u] = lastOpened[u] /\ nextOpenStruc'[u] = nextOpenStruc[u]
  /\ nextBuffer'[u] = nextBuffer[u] /\ blk'[u] = blk[u] /\ linked'[u] = linked[u]
  /\ openStruc'[u] = openStruc[u] /\ insBlock'[u] = insBlock[u] /\ sem'[u] = sem[u]
  /\ nextOpenFile'[u] = nextOpenFile[u] /\ next16K'[u] = next16K[u]

OnlyAt(t) == \A u \in Threads \ {t} : Same(u)

SameMain ==
  UNCHANGED <<command, mpc, toLink, todo, defaults, thread, nextRead, bufcnt, mblock, got,
              libHandles, libsDone, stop, linked, nextOpenFile, next16K, opreadsDone>>

(* The steps of thread t but a failing read, which ends the process.       *)
ThreadSteps(t) ==
  \/ GetNextOpenStruc(t) \/ GetNextFileName(t) \/ OpenFile(t) \/ SignalOpened(t)
  \/ ReadHeader(t) \/ ReadOldLength(t)
  \/ GetNextBuffer(t) \/ ReadBlock(t) \/ SignalFull(t) \/ CloseFile(t) \/ Abort(t)

LEMMA ThreadFrame ==
  ASSUME TypeOK, NEW t \in Threads, ThreadSteps(t)
  PROVE  SameMain /\ OnlyAt(t)
<1> USE DEF TypeOK, OnlyAt, Same, SameMain, mainVars, mainRing, threadVars, Take, Post, Goto, GotoUnlessDone
<1>1. CASE GetNextOpenStruc(t)
  BY <1>1 DEF GetNextOpenStruc
<1>2. CASE GetNextFileName(t)
  BY <1>2 DEF GetNextFileName
<1>3. CASE OpenFile(t)
  BY <1>3 DEF OpenFile
<1>4. CASE SignalOpened(t)
  BY <1>4 DEF SignalOpened
<1>5. CASE ReadHeader(t)
  BY <1>5 DEF ReadHeader
<1>6. CASE ReadOldLength(t)
  BY <1>6 DEF ReadOldLength
<1>7. CASE GetNextBuffer(t)
  BY <1>7 DEF GetNextBuffer
<1>8. CASE ReadBlock(t)
  BY <1>8 DEF ReadBlock
<1>9. CASE SignalFull(t)
  BY <1>9 DEF SignalFull
<1>10. CASE CloseFile(t)
  BY <1>10 DEF CloseFile
<1>11. CASE Abort(t)
  BY <1>11 DEF Abort
<1> QED
  BY <1>1, <1>2, <1>3, <1>4, <1>5, <1>6, <1>7, <1>8, <1>9, <1>10, <1>11 DEF ThreadSteps

LEMMA InFiles ==
  ASSUME TypeOK, NEW t \in Threads, ThreadOK(t)
  PROVE  /\ pc[t] \in AtFile => lastOpened[t] \in 1 .. Len(linked[t]) /\ ThreadFile(t) \in Files
         /\ \A k \in 1 .. Len(linked[t]) : linked[t][k] \in Files
         /\ Len(linked[t]) \in Nat
<1>1. linked[t] \in Seq(Files) /\ Len(linked[t]) \in Nat
  BY DEF TypeOK
<1>2. \A k \in 1 .. Len(linked[t]) : linked[t][k] \in Files
  BY <1>1
<1>3. ASSUME pc[t] \in AtFile PROVE lastOpened[t] \in 1 .. Len(linked[t])
  BY <1>1, <1>3 DEF TypeOK, ThreadOK
<1> QED
  BY <1>1, <1>2, <1>3 DEF ThreadFile

(* The sizes of a file.                                                    *)
LEMMA FileSizes ==
  ASSUME NEW f \in Files
  PROVE  /\ Disk[f] \in FileRecord /\ Pages(f) \in Nat /\ ReadBlocks(f) \in Nat /\ NeedBlocks(f) \in Nat
         /\ Delivers(f) \in Nat
         /\ Disk[f].full \in Nat /\ Disk[f].nonres \in Nat /\ Disk[f].modend \in Nat
         /\ Disk[f].found \in BOOLEAN /\ Disk[f].rest \in BOOLEAN /\ Disk[f].wanted \in BOOLEAN
         /\ Disk[f].isLib \in BOOLEAN /\ Disk[f].kind \in {"OBJ", "LIB", "OLD", "STUB", "RES"}
<1>1. Disk[f] \in FileRecord
  BY OpenReadAssumption DEF Files
<1>2. /\ Disk[f].full \in Nat /\ Disk[f].nonres \in Nat /\ Disk[f].modend \in Nat
      /\ Disk[f].found \in BOOLEAN /\ Disk[f].rest \in BOOLEAN /\ Disk[f].wanted \in BOOLEAN
      /\ Disk[f].isLib \in BOOLEAN /\ Disk[f].kind \in {"OBJ", "LIB", "OLD", "STUB", "RES"}
  BY <1>1 DEF FileRecord
<1>3. Pages(f) \in Nat
  BY <1>2 DEF Pages
<1>4. ReadBlocks(f) \in Nat /\ NeedBlocks(f) \in Nat
  BY <1>2, <1>3 DEF ReadBlocks, NeedBlocks
<1> QED
  BY <1>1, <1>2, <1>3, <1>4 DEF Delivers

LEMMA ElementsConcat ==
  ASSUME NEW S, NEW r \in Seq(S), NEW s \in Seq(S)
  PROVE  Elements(r \o s) = Elements(r) \cup Elements(s)
<1>1. /\ r \o s \in Seq(S) /\ Len(r \o s) = Len(r) + Len(s)
      /\ \A i \in 1 .. Len(r) + Len(s) : (r \o s)[i] = IF i <= Len(r) THEN r[i] ELSE s[i - Len(r)]
  BY ConcatProperties
<1>2. /\ Len(r) \in Nat /\ Len(s) \in Nat /\ DOMAIN r = 1 .. Len(r) /\ DOMAIN s = 1 .. Len(s)
      /\ DOMAIN (r \o s) = 1 .. Len(r) + Len(s)
  BY <1>1, LenProperties
<1>3. ASSUME NEW i \in 1 .. Len(s) PROVE \E j \in 1 .. Len(r) + Len(s) : (r \o s)[j] = s[i]
  <2>1. Len(r) + i \in 1 .. Len(r) + Len(s) /\ ~(Len(r) + i <= Len(r)) /\ (Len(r) + i) - Len(r) = i
    BY <1>2
  <2> QED
    BY <1>1, <2>1
<1>4. \A i \in 1 .. Len(r) : i \in 1 .. Len(r) + Len(s) /\ (r \o s)[i] = r[i]
  BY <1>1, <1>2
<1>5. \A i \in 1 .. Len(r) + Len(s) : i <= Len(r) => i \in 1 .. Len(r)
  BY <1>2
<1>6. \A i \in 1 .. Len(r) + Len(s) : ~(i <= Len(r)) => i - Len(r) \in 1 .. Len(s)
  BY <1>2
<1>7. Elements(r) \cup Elements(s) \subseteq Elements(r \o s)
  BY <1>2, <1>3, <1>4, ZenonT(30) DEF Elements
<1>8. Elements(r \o s) \subseteq Elements(r) \cup Elements(s)
  <2> SUFFICES ASSUME NEW i \in 1 .. Len(r) + Len(s) PROVE (r \o s)[i] \in Elements(r) \cup Elements(s)
    BY <1>2 DEF Elements
  <2> QED
    BY <1>1, <1>2, <1>5, <1>6 DEF Elements
<1> QED
  BY <1>7, <1>8

LEMMA InitBInv == Init => BInv
<1> SUFFICES ASSUME Init PROVE BInv
  OBVIOUS
<1>0. N_R_THREADS \in {1, 2, 4} /\ Threads = 0 .. N_R_THREADS - 1
  BY OpenReadAssumption DEF Threads
<1>1. command \in CommandRecord /\ command \in Commands
  BY OpenReadAssumption DEF Init
<1>2. /\ command.obj \in Seq(Files) /\ command.lib \in Seq(Files) /\ command.defaults \in Seq(Files)
      /\ command.obj \o command.lib \in Seq(Files)
  BY <1>1 DEF CommandRecord
<1>3. TypeOK
  <2>1. /\ pc \in [Threads -> {"unborn", "getstruc", "getname", "open", "opened", "header",
                         "oldlength", "getbuffer", "read", "full", "close", "abort", "dead"}]
        /\ lastOpened \in [Threads -> Nat] /\ blk \in [Threads -> Nat]
        /\ nextOpenStruc \in [Threads -> Ring] /\ nextBuffer \in [Threads -> Ring]
        /\ nextOpenFile \in [Threads -> Ring] /\ next16K \in [Threads -> Ring]
    BY <1>0 DEF Init, Ring
  <2>2. linked \in [Threads -> Seq(Files)]
    BY DEF Init
  <2>3. openStruc \in [Threads -> [Ring ->
          [file : Files \union {NoFile}, flags : BOOLEAN, handle : Files \union {NoFile}]]]
    BY DEF Init, FreeOpen
  <2>4. insBlock \in [Threads -> [Ring -> Blocks]] /\ mblock \in Blocks
    BY DEF Init, NoBlock, Blocks
  <2>5. sem \in [Threads -> [SemNames -> Nat]] /\ nonresSem \in Nat
    BY DEF Init, NewSems
  <2>6. /\ toLink \in Seq(Files) /\ todo \in Seq(Files) /\ defaults \in Seq(Files)
        /\ thread \in [Files -> Threads] /\ nextRead \in Threads /\ stop \in Threads
    BY <1>0, <1>2 DEF Init
  <2>7. /\ opreadsDone \in BOOLEAN /\ libsDone \in BOOLEAN
        /\ handles \subseteq Files /\ libHandles \subseteq Files \union {NoFile}
        /\ mpc \in {"link", "next", "header", "tables", "fill", "taken", "parse", "done",
                    "bump", "join", "finished", "exited"}
        /\ bufcnt \in Int /\ got \in Nat
    <3>1. /\ opreadsDone = FALSE /\ libsDone = FALSE /\ handles = {} /\ libHandles = {}
          /\ mpc = "link" /\ bufcnt = 0 /\ got = 0
      BY DEF Init
    <3>2. opreadsDone \in BOOLEAN /\ libsDone \in BOOLEAN
      BY <3>1, Zenon
    <3> QED
      BY <3>1, <3>2
  <2> QED
    BY <1>1, <2>1, <2>2, <2>3, <2>4, <2>5, <2>6, <2>7 DEF TypeOK
<1>4. MainOK
  <2>1. \A f \in Elements(command.obj) : Disk[f].kind = "OBJ"
    BY <1>1, OpenReadAssumption
  <2>2. \A f \in Elements(command.lib) \cup Elements(command.defaults) : HasBlocks(f)
    BY <1>1, OpenReadAssumption DEF HasBlocks
  <2>3. Elements(command.obj \o command.lib) = Elements(command.obj) \cup Elements(command.lib)
    BY <1>2, ElementsConcat
  <2>4. \A f \in Elements(toLink) \cup Elements(defaults) : HasBlocks(f)
    BY <2>1, <2>2, <2>3 DEF Init, HasBlocks
  <2> QED
    BY <2>4 DEF Init, MainOK, Using
<1>5. \A t \in Threads : ThreadOK(t)
  BY DEF Init, ThreadOK, NewSems, SemNames, AtFile, InFile
<1>6. \A t \in Threads : CountsOK(t) /\ PlacesOK(t)
  BY DEF Init, CountsOK, PlacesOK, InUse, Filling, Returning, NewSems, SemNames, Ring
<1> QED
  BY <1>3, <1>4, <1>5, <1>6 DEF BInv

LEMMA NextInRing == ASSUME NEW i \in Ring PROVE Follow(i) \in Ring
BY DEF Ring, Follow

LEMMA ThreadTypes ==
  ASSUME TypeOK, NEW t \in Threads, ThreadOK(t), ThreadSteps(t)
  PROVE  TypeOK'
<1>0. SameMain
  BY ThreadFrame
<1>1. nextOpenStruc[t] \in Ring /\ nextBuffer[t] \in Ring /\ Follow(nextOpenStruc[t]) \in Ring /\ Follow(nextBuffer[t]) \in Ring
  BY NextInRing DEF TypeOK
<1>2. pc[t] \in AtFile => ThreadFile(t) \in Files
  BY InFiles
<1>3. SemNames = {"name", "avail", "open", "header", "full", "ins"}
  BY DEF SemNames
<1>4. lastOpened' \in [Threads -> Nat] /\ blk' \in [Threads -> Nat]
  <2>1. lastOpened' \in {lastOpened, [lastOpened EXCEPT ![t] = @ + 1]}
    BY DEF ThreadSteps, GetNextOpenStruc, GetNextFileName, OpenFile, SignalOpened, ReadHeader, ReadOldLength,
         GetNextBuffer, ReadBlock, SignalFull, CloseFile, Abort
  <2>2. blk' \in {blk, [blk EXCEPT ![t] = 0], [blk EXCEPT ![t] = @ + 1]}
    BY DEF ThreadSteps, GetNextOpenStruc, GetNextFileName, OpenFile, SignalOpened, ReadHeader, ReadOldLength,
         GetNextBuffer, ReadBlock, SignalFull, CloseFile, Abort
  <2>3. lastOpened \in [Threads -> Nat] /\ blk \in [Threads -> Nat]
    BY DEF TypeOK
  <2> QED
    BY <2>1, <2>2, <2>3
<1>5. nextOpenStruc' \in [Threads -> Ring] /\ nextBuffer' \in [Threads -> Ring]
  <2>1. nextOpenStruc' \in {nextOpenStruc, [nextOpenStruc EXCEPT ![t] = Follow(@)]}
    BY DEF ThreadSteps, GetNextOpenStruc, GetNextFileName, OpenFile, SignalOpened, ReadHeader, ReadOldLength,
         GetNextBuffer, ReadBlock, SignalFull, CloseFile, Abort
  <2>2. nextBuffer' \in {nextBuffer, [nextBuffer EXCEPT ![t] = Follow(@)]}
    BY DEF ThreadSteps, GetNextOpenStruc, GetNextFileName, OpenFile, SignalOpened, ReadHeader, ReadOldLength,
         GetNextBuffer, ReadBlock, SignalFull, CloseFile, Abort
  <2>3. nextOpenStruc \in [Threads -> Ring] /\ nextBuffer \in [Threads -> Ring]
    BY DEF TypeOK
  <2> QED
    BY <1>1, <2>1, <2>2, <2>3
<1>6. nonresSem' \in Nat
  BY SMTT(30) DEF TypeOK, ThreadSteps, GetNextOpenStruc, GetNextFileName, OpenFile, SignalOpened, ReadHeader, ReadOldLength,
         GetNextBuffer, ReadBlock, SignalFull, CloseFile, Abort
<1>7. sem' \in [Threads -> [SemNames -> Nat]]
  <2>1. \/ sem' = sem
        \/ \E s \in SemNames : Post(t, s) \/ Take(t, s)
    BY <1>3 DEF ThreadSteps, GetNextOpenStruc, GetNextFileName, OpenFile, SignalOpened, ReadHeader, ReadOldLength,
         GetNextBuffer, ReadBlock, SignalFull, CloseFile, Abort
  <2>2. ASSUME NEW s \in SemNames, Post(t, s) \/ Take(t, s) PROVE sem' \in [Threads -> [SemNames -> Nat]]
    <3>1. sem[t] \in [SemNames -> Nat] /\ sem[t][s] \in Nat
      BY DEF TypeOK
    <3>2. CASE Post(t, s)
      BY <3>1, <3>2, SMTT(30) DEF Post, TypeOK
    <3>3. CASE Take(t, s)
      <4>1. sem[t][s] - 1 \in Nat
        BY <3>1, <3>3 DEF Take
      <4> QED
        BY <3>1, <3>3, <4>1 DEF Take, TypeOK
    <3> QED
      BY <2>2, <3>2, <3>3
  <2> QED
    BY <2>1, <2>2 DEF TypeOK
<1>8. pc' \in [Threads -> {"unborn", "getstruc", "getname", "open", "opened", "header",
                           "oldlength", "getbuffer", "read", "full", "close", "abort", "dead"}]
  BY ZenonT(30) DEF TypeOK, ThreadSteps, GetNextOpenStruc, GetNextFileName, OpenFile, SignalOpened, ReadHeader, ReadOldLength,
         GetNextBuffer, ReadBlock, SignalFull, CloseFile, Abort, Goto, GotoUnlessDone
<1>9. insBlock' \in [Threads -> [Ring -> Blocks]]
  <2>1. CASE ReadBlock(t)
    <3>1. <<ThreadFile(t), blk[t] + 1>> \in Blocks
      <4>1. pc[t] \in AtFile /\ blk[t] + 1 \in Nat
        BY <2>1 DEF ReadBlock, TypeOK, AtFile, InFile
      <4> QED
        BY <1>2, <4>1 DEF Blocks
    <3> QED
      BY <2>1, <3>1, <1>1 DEF ReadBlock, TypeOK
  <2>2. CASE Abort(t)
    <3>1. NoBlock \in Blocks
      BY DEF NoBlock, Blocks
    <3> QED
      BY <2>2, <3>1 DEF Abort, TypeOK
  <2> QED
    BY <2>1, <2>2 DEF TypeOK, ThreadSteps, GetNextOpenStruc, GetNextFileName, OpenFile, SignalOpened, ReadHeader,
         ReadOldLength, GetNextBuffer, SignalFull, CloseFile
<1>10. openStruc' \in [Threads -> [Ring ->
         [file : Files \union {NoFile}, flags : BOOLEAN, handle : Files \union {NoFile}]]]
  <2> DEFINE Slots == [file : Files \union {NoFile}, flags : BOOLEAN, handle : Files \union {NoFile}]
  <2>0. openStruc \in [Threads -> [Ring -> Slots]]
    BY DEF TypeOK
  <2>1. CASE GetNextOpenStruc(t)
    <3>1. \A s \in Slots : [s EXCEPT !.flags = FALSE] \in Slots
      OBVIOUS
    <3> HIDE DEF Slots
    <3>2. [openStruc EXCEPT ![t][Follow(nextOpenStruc[t])].flags = FALSE] \in [Threads -> [Ring -> Slots]]
      BY <2>0, <3>1, <1>1
    <3> QED
      BY <2>0, <2>1, <3>2 DEF GetNextOpenStruc, Slots
  <2>2. CASE OpenFile(t)
    <3> DEFINE found == Disk[ThreadFile(t)].found /\ ~opreadsDone
               new == [file |-> ThreadFile(t), flags |-> found, handle |-> IF found THEN ThreadFile(t) ELSE NoFile]
    <3>1. new \in Slots
      BY <1>2, <2>2 DEF OpenFile, AtFile, InFile
    <3>2. openStruc' = [openStruc EXCEPT ![t][nextOpenStruc[t]] = new]
      BY <2>2 DEF OpenFile
    <3> HIDE DEF Slots, new
    <3>3. openStruc' \in [Threads -> [Ring -> Slots]]
      BY <2>0, <3>1, <3>2, <1>1
    <3> QED
      BY <3>3 DEF Slots
  <2>3. CASE CloseFile(t)
    <3>1. \A s \in Slots : Emptied(s) \in Slots
      BY DEF Emptied
    <3> HIDE DEF Slots
    <3>2. openStruc' \in [Threads -> [Ring -> Slots]]
      BY <2>0, <2>3, <3>1, <1>1 DEF CloseFile
    <3> QED
      BY <3>2 DEF Slots
  <2>4. CASE Abort(t)
    <3>1. \A s \in Slots : Emptied(s) \in Slots
      BY DEF Emptied
    <3> HIDE DEF Slots
    <3>2. openStruc' \in [Threads -> [Ring -> Slots]]
      BY <2>0, <2>4, <3>1 DEF Abort
    <3> QED
      BY <3>2 DEF Slots
  <2>5. CASE UNCHANGED openStruc
    BY <2>5 DEF TypeOK
  <2> QED
    BY <2>1, <2>2, <2>3, <2>4, <2>5 DEF ThreadSteps, GetNextFileName, SignalOpened, ReadHeader, ReadOldLength,
         GetNextBuffer, ReadBlock, SignalFull
<1>11. handles' \subseteq Files
  BY <1>2 DEF TypeOK, ThreadSteps, GetNextOpenStruc, GetNextFileName, OpenFile, SignalOpened, ReadHeader, ReadOldLength,
         GetNextBuffer, ReadBlock, SignalFull, CloseFile, Abort, AtFile, InFile
<1> QED
  BY <1>0, <1>4, <1>5, <1>6, <1>7, <1>8, <1>9, <1>10, <1>11 DEF TypeOK, SameMain

(* A thread that does not move stays as it is.                             *)
LEMMA ThreadOther ==
  ASSUME NEW u \in Threads, ThreadOK(u), Same(u), opreadsDone' = opreadsDone
  PROVE  ThreadOK(u)'
BY DEF ThreadOK, Same, ThreadFile

LEMMA SomethingRead ==
  ASSUME NEW f \in Files, HasBlocks(f), Disk[f].kind # "OLD"
  PROVE  ReadBlocks(f) > 0
BY FileSizes DEF HasBlocks, ReadBlocks, IsLibrary

LEMMA ThreadKept ==
  ASSUME TypeOK, NEW t \in Threads, ThreadOK(t), ThreadSteps(t)
  PROVE  ThreadOK(t)'
<1>1. linked' = linked /\ opreadsDone' = opreadsDone
  BY ThreadFrame DEF SameMain
<1>2. /\ pc[t] \in AtFile => /\ lastOpened[t] \in 1 .. Len(linked[t]) /\ ThreadFile(t) \in Files
                             /\ ReadBlocks(ThreadFile(t)) \in Nat /\ HasBlocks(ThreadFile(t))
      /\ Len(linked[t]) \in Nat
      /\ lastOpened[t] \in Nat /\ blk[t] \in Nat /\ sem[t].name \in Nat
  <2>1. pc[t] \in AtFile => lastOpened[t] \in 1 .. Len(linked[t]) /\ ThreadFile(t) \in Files
    BY InFiles
  <2>2. pc[t] \in AtFile => HasBlocks(ThreadFile(t))
    BY <2>1 DEF ThreadOK, ThreadFile
  <2>3. Len(linked[t]) \in Nat /\ lastOpened[t] \in Nat /\ blk[t] \in Nat /\ sem[t].name \in Nat
    BY InFiles, ZenonT(30) DEF TypeOK, SemNames
  <2> QED
    BY <2>1, <2>2, <2>3, FileSizes
<1>3. (lastOpened'[t] = lastOpened[t]) => ThreadFile(t)' = ThreadFile(t)
  BY <1>1 DEF ThreadFile
<1>4. CASE GetNextOpenStruc(t)
  <2>1. pc[t] = "getstruc"
    BY <1>4 DEF GetNextOpenStruc
  <2>2. /\ pc'[t] = (IF opreadsDone THEN "abort" ELSE "getname")
        /\ lastOpened'[t] = lastOpened[t] /\ blk'[t] = blk[t] /\ sem'[t].name = sem[t].name
    BY <1>4 DEF GetNextOpenStruc, TypeOK, Goto, GotoUnlessDone, Take, Post, SemNames
  <2> QED
    BY <1>1, <1>2, <1>3, <2>1, <2>2 DEF ThreadOK, AtFile, InFile, IsLibrary
<1>5. CASE GetNextFileName(t)
  <2>1. pc[t] = "getname"
    BY <1>5 DEF GetNextFileName
  <2>2. /\ pc'[t] = (IF opreadsDone THEN "abort" ELSE "open")
        /\ lastOpened'[t] = (IF opreadsDone THEN lastOpened[t] ELSE lastOpened[t] + 1) /\ blk'[t] = blk[t] /\ sem[t].name > 0 /\ sem'[t].name = sem[t].name - 1
    BY <1>5 DEF GetNextFileName, TypeOK, Goto, GotoUnlessDone, Take, Post, SemNames
  <2> QED
    BY <1>1, <1>2, <1>3, <2>1, <2>2 DEF ThreadOK, AtFile, InFile, IsLibrary
<1>6. CASE OpenFile(t)
  <2>1. pc[t] = "open"
    BY <1>6 DEF OpenFile
  <2>2. /\ pc'[t] = (IF opreadsDone THEN "abort" ELSE "opened")
        /\ lastOpened'[t] = lastOpened[t] /\ blk'[t] = 0 /\ sem'[t].name = sem[t].name
    BY <1>6 DEF OpenFile, TypeOK, Goto, GotoUnlessDone, Take, Post, SemNames
  <2> QED
    BY <1>1, <1>2, <1>3, <2>1, <2>2 DEF ThreadOK, AtFile, InFile, IsLibrary
<1>7. CASE SignalOpened(t)
  <2>1. pc[t] = "opened"
    BY <1>7 DEF SignalOpened
  <2>2. /\ pc'[t] = (IF ~Slot(t).flags THEN "getstruc" ELSE IF Disk[ThreadFile(t)].kind = "LIB" THEN "header" ELSE IF Disk[ThreadFile(t)].kind = "OLD" THEN "oldlength" ELSE "getbuffer")
        /\ lastOpened'[t] = lastOpened[t] /\ blk'[t] = blk[t] /\ sem'[t].name = sem[t].name
    BY <1>7 DEF SignalOpened, TypeOK, Goto, GotoUnlessDone, Take, Post, SemNames
  <2>3. ReadBlocks(ThreadFile(t)) > 0 \/ Disk[ThreadFile(t)].kind = "OLD"
    BY <1>2, <2>1, SomethingRead DEF AtFile, InFile
  <2> QED
    BY <1>1, <1>2, <1>3, <2>1, <2>2, <2>3 DEF ThreadOK, AtFile, InFile, IsLibrary
<1>8. CASE ReadHeader(t)
  <2>1. pc[t] = "header"
    BY <1>8 DEF ReadHeader
  <2>2. /\ pc'[t] = "getbuffer"
        /\ lastOpened'[t] = lastOpened[t] /\ blk'[t] = blk[t] /\ sem'[t].name = sem[t].name
    BY <1>8 DEF ReadHeader, TypeOK, Goto, GotoUnlessDone, Take, Post, SemNames
  <2>3. ReadBlocks(ThreadFile(t)) > 0 \/ Disk[ThreadFile(t)].kind = "OLD"
    BY <1>2, <2>1, SomethingRead DEF AtFile, InFile
  <2> QED
    BY <1>1, <1>2, <1>3, <2>1, <2>2, <2>3 DEF ThreadOK, AtFile, InFile, IsLibrary
<1>9. CASE ReadOldLength(t)
  <2>1. pc[t] = "oldlength"
    BY <1>9 DEF ReadOldLength
  <2>2. /\ pc'[t] = (IF ReadBlocks(ThreadFile(t)) = 0 THEN "close" ELSE "getbuffer")
        /\ lastOpened'[t] = lastOpened[t] /\ blk'[t] = blk[t] /\ sem'[t].name = sem[t].name
    BY <1>9 DEF ReadOldLength, TypeOK, Goto, GotoUnlessDone, Take, Post, SemNames
  <2>3. ReadBlocks(ThreadFile(t)) > 0 \/ Disk[ThreadFile(t)].kind = "OLD"
    BY <1>2, <2>1, SomethingRead DEF AtFile, InFile
  <2> QED
    BY <1>1, <1>2, <1>3, <2>1, <2>2, <2>3 DEF ThreadOK, AtFile, InFile, IsLibrary
<1>10. CASE GetNextBuffer(t)
  <2>1. pc[t] = "getbuffer"
    BY <1>10 DEF GetNextBuffer
  <2>2. /\ pc'[t] = (IF opreadsDone THEN "abort" ELSE "read")
        /\ lastOpened'[t] = lastOpened[t] /\ blk'[t] = blk[t] /\ sem'[t].name = sem[t].name
    BY <1>10 DEF GetNextBuffer, TypeOK, Goto, GotoUnlessDone, Take, Post, SemNames
  <2> QED
    BY <1>1, <1>2, <1>3, <2>1, <2>2 DEF ThreadOK, AtFile, InFile, IsLibrary
<1>11. CASE ReadBlock(t)
  <2>1. pc[t] = "read"
    BY <1>11 DEF ReadBlock
  <2>2. /\ pc'[t] = "full"
        /\ lastOpened'[t] = lastOpened[t] /\ blk'[t] = blk[t] + 1 /\ sem'[t].name = sem[t].name
    BY <1>11 DEF ReadBlock, TypeOK, Goto, GotoUnlessDone, Take, Post, SemNames
  <2> QED
    BY <1>1, <1>2, <1>3, <2>1, <2>2 DEF ThreadOK, AtFile, InFile, IsLibrary
<1>12. CASE SignalFull(t)
  <2>1. pc[t] = "full"
    BY <1>12 DEF SignalFull
  <2>2. /\ pc'[t] = (IF blk[t] < ReadBlocks(ThreadFile(t)) THEN "getbuffer" ELSE IF IsLibrary(ThreadFile(t)) THEN "getstruc" ELSE "close")
        /\ lastOpened'[t] = lastOpened[t] /\ blk'[t] = blk[t] /\ sem'[t].name = sem[t].name
    BY <1>12 DEF SignalFull, TypeOK, Goto, GotoUnlessDone, Take, Post, SemNames
  <2> QED
    BY <1>1, <1>2, <1>3, <2>1, <2>2 DEF ThreadOK, AtFile, InFile, IsLibrary
<1>13. CASE CloseFile(t)
  <2>1. pc[t] = "close"
    BY <1>13 DEF CloseFile
  <2>2. /\ pc'[t] = "getstruc"
        /\ lastOpened'[t] = lastOpened[t] /\ blk'[t] = blk[t] /\ sem'[t].name = sem[t].name
    BY <1>13 DEF CloseFile, TypeOK, Goto, GotoUnlessDone, Take, Post, SemNames
  <2> QED
    BY <1>1, <1>2, <1>3, <2>1, <2>2 DEF ThreadOK, AtFile, InFile, IsLibrary
<1>14. CASE Abort(t)
  <2>1. pc[t] = "abort"
    BY <1>14 DEF Abort
  <2>2. /\ pc'[t] = "dead"
        /\ lastOpened'[t] = lastOpened[t] /\ blk'[t] = blk[t] /\ sem'[t].name = sem[t].name
    BY <1>14 DEF Abort, TypeOK, Goto, GotoUnlessDone, Take, Post, SemNames
  <2> QED
    BY <1>1, <1>2, <1>3, <2>1, <2>2 DEF ThreadOK, AtFile, InFile, IsLibrary
<1> QED
  BY <1>4, <1>5, <1>6, <1>7, <1>8, <1>9, <1>10, <1>11, <1>12, <1>13, <1>14 DEF ThreadSteps

-----------------------------------------------------------------------------
(* The buffers of a thread.                                                *)
LEMMA BuffersOther ==
  ASSUME NEW u \in Threads, CountsOK(u), PlacesOK(u), Same(u), Returning(u)' = Returning(u)
  PROVE  CountsOK(u)' /\ PlacesOK(u)'
<1>1. Filling(u)' = Filling(u) /\ \A i \in Ring : InUse(u, i)' <=> InUse(u, i)
  BY DEF Filling, InUse, Same
<1> QED
  BY <1>1 DEF CountsOK, PlacesOK, Same

(* The units that tell, at the ends of a step.                             *)
LEMMA UnitTypes ==
  ASSUME TypeOK, NEW t \in Threads
  PROVE  /\ sem[t].full \in Nat /\ sem[t].ins \in Nat /\ sem[t].name \in Nat /\ sem[t].avail \in Nat
         /\ sem[t].open \in Nat /\ sem[t].header \in Nat
         /\ nextBuffer[t] \in 0 .. 3 /\ next16K[t] \in 0 .. 3
         /\ nextOpenStruc[t] \in 0 .. 3 /\ nextOpenFile[t] \in 0 .. 3
         /\ lastOpened[t] \in Nat /\ blk[t] \in Nat
         /\ DOMAIN insBlock = Threads /\ DOMAIN insBlock[t] = Ring
         /\ DOMAIN openStruc = Threads /\ DOMAIN openStruc[t] = Ring
         /\ DOMAIN pc = Threads /\ DOMAIN nextBuffer = Threads /\ DOMAIN next16K = Threads
         /\ DOMAIN sem = Threads /\ DOMAIN sem[t] = SemNames
<1>1. /\ sem[t].full \in Nat /\ sem[t].ins \in Nat /\ sem[t].name \in Nat /\ sem[t].avail \in Nat
      /\ sem[t].open \in Nat /\ sem[t].header \in Nat /\ DOMAIN sem = Threads /\ DOMAIN sem[t] = SemNames
  <2>1. sem \in [Threads -> [SemNames -> Nat]]
    BY DEF TypeOK
  <2>2. sem[t] \in [SemNames -> Nat] /\ DOMAIN sem = Threads /\ DOMAIN sem[t] = SemNames
    BY <2>1
  <2>3. \A s \in SemNames : sem[t][s] \in Nat
    BY <2>2
  <2> QED
    BY <2>2, <2>3 DEF SemNames
<1>2. /\ nextBuffer[t] \in 0 .. 3 /\ next16K[t] \in 0 .. 3
      /\ nextOpenStruc[t] \in 0 .. 3 /\ nextOpenFile[t] \in 0 .. 3
      /\ lastOpened[t] \in Nat /\ blk[t] \in Nat
  BY DEF TypeOK, Ring
<1>3. /\ DOMAIN insBlock = Threads /\ DOMAIN insBlock[t] = Ring
      /\ DOMAIN openStruc = Threads /\ DOMAIN openStruc[t] = Ring
  BY DEF TypeOK
<1>4. DOMAIN pc = Threads /\ DOMAIN nextBuffer = Threads /\ DOMAIN next16K = Threads
  BY DEF TypeOK
<1> QED
  BY <1>1, <1>2, <1>3, <1>4

LEMMA BuffersKept ==
  ASSUME TypeOK, NEW t \in Threads, ThreadOK(t), ThreadSteps(t), ~opreadsDone,
         CountsOK(t), PlacesOK(t)
  PROVE  CountsOK(t)' /\ PlacesOK(t)'
<1>1. Returning(t)' = Returning(t) /\ next16K' = next16K
  BY ThreadFrame DEF SameMain, Returning, Cur, T
<1>2. CASE GetNextBuffer(t)
  <2>1. /\ pc[t] = "getbuffer" /\ pc'[t] = "read" /\ sem[t].ins > 0 /\ sem'[t].ins = sem[t].ins - 1
        /\ sem'[t].full = sem[t].full
        /\ nextBuffer'[t] = (nextBuffer[t] + 1) % 4 /\ insBlock' = insBlock
    BY <1>2, UnitTypes DEF GetNextBuffer, Take, GotoUnlessDone, Goto, Follow, SemNames
  <2>2. CountsOK(t)'
    BY <1>1, <2>1, UnitTypes DEF CountsOK, Filling
  <2>3. \A i \in Ring : InUse(t, i)' <=> InUse(t, i)
    BY <1>1, <2>1 DEF InUse
  <2> QED
    BY <2>1, <2>2, <2>3 DEF PlacesOK
<1>3. CASE ReadBlock(t)
  <2>1. /\ pc[t] = "read" /\ pc'[t] = "full" /\ sem' = sem /\ nextBuffer' = nextBuffer
        /\ insBlock'[t] = [insBlock[t] EXCEPT ![nextBuffer[t]] = <<ThreadFile(t), blk[t] + 1>>]
    BY <1>3, UnitTypes DEF ReadBlock, Goto
  <2>2. <<ThreadFile(t), blk[t] + 1>> # NoBlock
    BY <2>1, InFiles, OpenReadAssumption DEF NoBlock, AtFile, InFile
  <2>3. CountsOK(t)'
    BY <1>1, <2>1 DEF CountsOK, Filling
  <2>4. \A i \in Ring : InUse(t, i)' <=> InUse(t, i) \/ i = nextBuffer[t]
    BY <1>1, <2>1 DEF InUse
  <2>5. \A i \in Ring : insBlock'[t][i] = IF i = nextBuffer[t] THEN <<ThreadFile(t), blk[t] + 1>> ELSE insBlock[t][i]
    BY <2>1, UnitTypes
  <2> QED
    BY <2>2, <2>3, <2>4, <2>5 DEF PlacesOK
<1>4. CASE SignalFull(t)
  <2>1. /\ pc[t] = "full" /\ pc'[t] \notin {"read", "full"} /\ nextBuffer' = nextBuffer /\ insBlock' = insBlock
        /\ sem'[t].full = sem[t].full + 1 /\ sem'[t].ins = sem[t].ins
    BY <1>4, UnitTypes DEF SignalFull, Goto, Post, SemNames
  <2>2. CountsOK(t)'
    BY <1>1, <2>1, UnitTypes DEF CountsOK, Filling
  <2>3. nextBuffer[t] = (next16K[t] + (sem[t].full + 1)) % 4
    BY <2>1, UnitTypes DEF CountsOK, Filling
  <2>4. \A k \in 1 .. sem[t].full + 1 : k \in 1 .. sem[t].full \/ k = sem[t].full + 1
    BY UnitTypes
  <2>5. 1 .. sem[t].full \subseteq 1 .. sem[t].full + 1 /\ sem[t].full + 1 \in 1 .. sem[t].full + 1
    BY UnitTypes
  <2>6. \A i \in Ring : InUse(t, i)' <=> InUse(t, i)
    BY <1>1, <2>1, <2>3, <2>4, <2>5 DEF InUse
  <2> QED
    BY <2>1, <2>2, <2>6 DEF PlacesOK
<1>5. CASE Abort(t)
  BY <1>5 DEF Abort, ThreadOK
<1>6. CASE GetNextOpenStruc(t) \/ GetNextFileName(t) \/ OpenFile(t) \/ SignalOpened(t)
             \/ ReadHeader(t) \/ ReadOldLength(t) \/ CloseFile(t)
  <2>1. /\ pc[t] \notin {"read", "full"} /\ pc'[t] \notin {"read", "full"}
        /\ nextBuffer' = nextBuffer /\ insBlock' = insBlock
        /\ sem'[t].full = sem[t].full /\ sem'[t].ins = sem[t].ins
    BY <1>6, UnitTypes DEF GetNextOpenStruc, GetNextFileName, OpenFile, SignalOpened, ReadHeader, ReadOldLength, CloseFile,
         Goto, GotoUnlessDone, Take, Post, SemNames
  <2>2. CountsOK(t)' /\ \A i \in Ring : InUse(t, i)' <=> InUse(t, i)
    BY <1>1, <2>1 DEF CountsOK, Filling, InUse
  <2> QED
    BY <2>1, <2>2 DEF PlacesOK
<1> QED
  BY <1>2, <1>3, <1>4, <1>5, <1>6 DEF ThreadSteps

LEMMA ThreadBInv ==
  ASSUME BInv, NEW t \in Threads, OpRead(t)
  PROVE  BInv'
<1>1. mpc # "exited" /\ TypeOK /\ MainOK /\ ThreadOK(t)
  BY DEF OpRead, BInv
<1>2. CASE ReadFails(t)
  BY <1>1, <1>2 DEF ReadFails, TypeOK, BInv, threadVars, ringVars, mainRing
<1>3. CASE ThreadSteps(t)
  <2>1. SameMain /\ OnlyAt(t)
    BY <1>1, <1>3, ThreadFrame
  <2>2. TypeOK'
    BY <1>1, <1>3, ThreadTypes
  <2>3. MainOK'
    BY <1>1, <2>1 DEF MainOK, SameMain, Using
  <2>4. \A u \in Threads : ThreadOK(u)'
    BY <1>1, <1>3, <2>1, ThreadKept, ThreadOther DEF BInv, OnlyAt, SameMain
  <2>5. ASSUME ~opreadsDone' PROVE \A u \in Threads : CountsOK(u)' /\ PlacesOK(u)'
    <3>1. ~opreadsDone /\ \A u \in Threads : Returning(u)' = Returning(u)
      BY <2>1, <2>5 DEF SameMain, Returning, Cur, T
    <3> QED
      BY <1>1, <1>3, <2>1, <3>1, BuffersKept, BuffersOther DEF BInv, OnlyAt
  <2> QED
    BY <2>2, <2>3, <2>4, <2>5 DEF BInv
<1> QED
  BY <1>2, <1>3 DEF OpRead, ThreadSteps

-----------------------------------------------------------------------------
(* The steps of main.                                                      *)
LEMMA CurFile ==
  ASSUME TypeOK, todo # <<>>
  PROVE  /\ Cur \in Files /\ T \in Threads /\ Tail(todo) \in Seq(Files) /\ Len(todo) \in Nat \ {0}
         /\ Cur = todo[1] /\ 1 \in 1 .. Len(todo)
         /\ Len(Tail(todo)) = Len(todo) - 1 /\ \A i \in 1 .. Len(todo) - 1 : Tail(todo)[i] = todo[i + 1]
<1>1. todo \in Seq(Files)
  BY DEF TypeOK
<1>2. /\ Head(todo) \in Files /\ Head(todo) = todo[1] /\ Tail(todo) \in Seq(Files) /\ Len(todo) \in Nat \ {0}
      /\ Len(Tail(todo)) = Len(todo) - 1 /\ \A i \in 1 .. Len(todo) - 1 : Tail(todo)[i] = todo[i + 1]
  BY <1>1, HeadTailProperties, EmptySeq
<1>3. thread[Head(todo)] \in Threads
  BY <1>2 DEF TypeOK
<1> QED
  BY <1>2, <1>3 DEF Cur, T

LEMMA ElementsTail ==
  ASSUME NEW S, NEW s \in Seq(S), s # <<>>
  PROVE  /\ Tail(s) \in Seq(S) /\ Head(s) \in S
         /\ Elements(s) = {Head(s)} \cup Elements(Tail(s))
<1>1. /\ Head(s) \in S /\ Head(s) = s[1] /\ Tail(s) \in Seq(S) /\ Len(s) \in Nat \ {0}
      /\ Len(Tail(s)) = Len(s) - 1 /\ \A i \in 1 .. Len(s) - 1 : Tail(s)[i] = s[i + 1]
  BY HeadTailProperties, EmptySeq
<1>2. DOMAIN s = 1 .. Len(s) /\ DOMAIN Tail(s) = 1 .. Len(s) - 1
  BY <1>1, LenProperties
<1>3. ASSUME NEW i \in 1 .. Len(s) PROVE s[i] = s[1] \/ \E j \in 1 .. Len(s) - 1 : s[i] = Tail(s)[j]
  <2>1. i = 1 \/ (i - 1 \in 1 .. Len(s) - 1 /\ (i - 1) + 1 = i)
    BY <1>1
  <2> QED
    BY <1>1, <2>1
<1>4. \A j \in 1 .. Len(s) - 1 : j + 1 \in 1 .. Len(s)
  BY <1>1
<1>5. 1 \in 1 .. Len(s)
  BY <1>1
<1>6. {Head(s)} \cup Elements(Tail(s)) \subseteq Elements(s)
  BY <1>1, <1>2, <1>4, <1>5 DEF Elements
<1>7. Elements(s) \subseteq {Head(s)} \cup Elements(Tail(s))
  <2> SUFFICES ASSUME NEW i \in 1 .. Len(s) PROVE s[i] \in {Head(s)} \cup Elements(Tail(s))
    BY <1>2 DEF Elements
  <2> QED
    BY <1>1, <1>2, <1>3 DEF Elements
<1> QED
  BY <1>1, <1>6, <1>7

LEMMA ElementsAppend ==
  ASSUME NEW S, NEW s \in Seq(S), NEW x \in S
  PROVE  /\ Append(s, x) \in Seq(S) /\ Len(Append(s, x)) = Len(s) + 1 /\ Len(s) \in Nat
         /\ \A i \in 1 .. Len(s) : Append(s, x)[i] = s[i]
         /\ Append(s, x)[Len(s) + 1] = x
         /\ Elements(Append(s, x)) = Elements(s) \cup {x} /\ Append(s, x) # <<>>
<1>1. /\ Append(s, x) \in Seq(S) /\ Len(Append(s, x)) = Len(s) + 1
      /\ \A i \in 1 .. Len(s) : Append(s, x)[i] = s[i]
      /\ Append(s, x)[Len(s) + 1] = x
  BY AppendProperties
<1>2. DOMAIN s = 1 .. Len(s) /\ DOMAIN Append(s, x) = 1 .. Len(s) + 1 /\ Len(s) \in Nat
  BY <1>1, LenProperties
<1>3. Append(s, x) # <<>>
  BY <1>1, <1>2, EmptySeq
<1> QED
  BY <1>1, <1>2, <1>3 DEF Elements

(* What of a thread is its own: main changes it only by dealing a file.    *)
Unmoved(u) ==
  /\ pc'[u] = pc[u] /\ lastOpened'[u] = lastOpened[u] /\ nextOpenStruc'[u] = nextOpenStruc[u]
  /\ nextBuffer'[u] = nextBuffer[u] /\ blk'[u] = blk[u] /\ linked'[u] = linked[u]

LEMMA ThreadUnmoved ==
  ASSUME NEW u \in Threads, ThreadOK(u), Unmoved(u),
         opreadsDone' \in {opreadsDone, TRUE},
         opreadsDone' \/ sem'[u].name = sem[u].name
  PROVE  ThreadOK(u)'
BY DEF ThreadOK, Unmoved, ThreadFile

LEMMA BuffersUnmoved ==
  ASSUME NEW u \in Threads, CountsOK(u), PlacesOK(u), Unmoved(u), Returning(u)' = Returning(u),
         sem'[u].full = sem[u].full, sem'[u].ins = sem[u].ins, next16K'[u] = next16K[u], insBlock'[u] = insBlock[u]
  PROVE  CountsOK(u)' /\ PlacesOK(u)'
<1>1. Filling(u)' = Filling(u) /\ \A i \in Ring : InUse(u, i)' <=> InUse(u, i)
  BY DEF Filling, InUse, Unmoved
<1> QED
  BY <1>1 DEF CountsOK, PlacesOK, Unmoved

(* Dealing a file f to the next thread.                                    *)
Dealer == (nextRead + 1) % N_R_THREADS

LEMMA DealtTo ==
  ASSUME TypeOK, NEW f \in Files, LinkToThread(f)
  PROVE  /\ Dealer \in Threads /\ nextRead' = Dealer /\ OnlyAt(Dealer)
         /\ pc'[Dealer] = (IF pc[Dealer] = "unborn" THEN "getstruc" ELSE pc[Dealer])
         /\ linked'[Dealer] = Append(linked[Dealer], f) /\ linked'[Dealer] \in Seq(Files)
         /\ thread' = [thread EXCEPT ![f] = Dealer]
         /\ sem'[Dealer] = [sem[Dealer] EXCEPT !["name"] = @ + 1]
         /\ UNCHANGED <<command, lastOpened, nextOpenStruc, nextBuffer, blk, openStruc, insBlock,
                            nonresSem, opreadsDone, handles, nextOpenFile, next16K, bufcnt, mblock, got,
                            libHandles, libsDone, stop>>
         /\ pc' \in [Threads -> {"unborn", "getstruc", "getname", "open", "opened", "header",
                           "oldlength", "getbuffer", "read", "full", "close", "abort", "dead"}]
         /\ linked' \in [Threads -> Seq(Files)] /\ thread' \in [Files -> Threads]
         /\ sem' \in [Threads -> [SemNames -> Nat]]
<1> DEFINE t == Dealer
<1>1. t \in Threads
  <2>1. N_R_THREADS \in {1, 2, 4} /\ nextRead \in 0 .. N_R_THREADS - 1
    BY OpenReadAssumption DEF TypeOK, Threads
  <2> QED
    BY <2>1 DEF Threads, Dealer
<1> HIDE DEF t
<1>2. nextRead' = t /\ thread' = [thread EXCEPT ![f] = t] /\ linked' = [linked EXCEPT ![t] = Append(@, f)]
      /\ pc' = (IF pc[t] = "unborn" THEN [pc EXCEPT ![t] = "getstruc"] ELSE pc) /\ Post(t, "name")
      /\ UNCHANGED <<command, lastOpened, nextOpenStruc, nextBuffer, blk, openStruc, insBlock,
                     nonresSem, opreadsDone, handles, nextOpenFile, next16K, bufcnt, mblock, got,
                     libHandles, libsDone, stop>>
  BY DEF LinkToThread, t, Dealer, MarkOwner, mainRing
<1>3. /\ sem \in [Threads -> [SemNames -> Nat]] /\ linked \in [Threads -> Seq(Files)] /\ thread \in [Files -> Threads]
      /\ pc \in [Threads -> {"unborn", "getstruc", "getname", "open", "opened", "header",
                           "oldlength", "getbuffer", "read", "full", "close", "abort", "dead"}]
  BY DEF TypeOK
<1>4. Append(linked[t], f) \in Seq(Files)
  BY <1>1, <1>3, AppendProperties
<1>5. sem'[t] = [sem[t] EXCEPT !["name"] = @ + 1] /\ sem' \in [Threads -> [SemNames -> Nat]]
      /\ \A u \in Threads \ {t} : sem'[u] = sem[u]
  <2>1. sem' = [sem EXCEPT ![t]["name"] = @ + 1] /\ sem[t]["name"] + 1 \in Nat /\ "name" \in SemNames
    BY <1>1, <1>2, <1>3, SMTT(30) DEF Post, SemNames
  <2> QED
    BY <1>1, <1>3, <2>1
<1>6. linked' \in [Threads -> Seq(Files)] /\ linked'[t] = Append(linked[t], f)
      /\ \A u \in Threads \ {t} : linked'[u] = linked[u]
  BY <1>1, <1>2, <1>3, <1>4
<1>7. thread' \in [Files -> Threads]
  BY <1>1, <1>2, <1>3
<1>8. /\ pc' \in [Threads -> {"unborn", "getstruc", "getname", "open", "opened", "header",
                           "oldlength", "getbuffer", "read", "full", "close", "abort", "dead"}]
      /\ pc'[t] = (IF pc[t] = "unborn" THEN "getstruc" ELSE pc[t]) /\ \A u \in Threads \ {t} : pc'[u] = pc[u]
  BY <1>1, <1>2, <1>3
<1>9. OnlyAt(t)
  BY <1>2, <1>5, <1>6, <1>8 DEF OnlyAt, Same
<1> QED
  BY <1>1, <1>2, <1>4, <1>5, <1>6, <1>7, <1>8, <1>9 DEF t

LEMMA ThreadDealt ==
  ASSUME TypeOK, NEW f \in Files, HasBlocks(f), LinkToThread(f), NEW u \in Threads, ThreadOK(u)
  PROVE  ThreadOK(u)'
<1>1. opreadsDone' = opreadsDone /\ lastOpened' = lastOpened /\ blk' = blk
  BY DealtTo
<1>2. CASE u # Dealer
  BY <1>1, <1>2, DealtTo, ThreadOther DEF OnlyAt
<1>3. CASE u = Dealer
  <2>1. /\ pc'[u] = (IF pc[u] = "unborn" THEN "getstruc" ELSE pc[u])
        /\ linked'[u] = Append(linked[u], f) /\ sem'[u].name = sem[u].name + 1
    BY <1>3, DealtTo, UnitTypes DEF SemNames
  <2>2. /\ Len(linked'[u]) = Len(linked[u]) + 1 /\ Len(linked[u]) \in Nat /\ linked'[u] # <<>>
        /\ \A i \in 1 .. Len(linked[u]) : linked'[u][i] = linked[u][i]
        /\ linked'[u][Len(linked[u]) + 1] = f
    <3>1. linked[u] \in Seq(Files)
      BY DEF TypeOK
    <3> QED
      BY <2>1, <3>1, ElementsAppend
  <2>3. lastOpened[u] \in Nat /\ sem[u].name \in Nat
    BY UnitTypes
  <2>4. pc[u] \in AtFile => ThreadFile(u)' = ThreadFile(u)
    BY <1>1, <2>2, <2>3 DEF ThreadOK, ThreadFile
  <2>5. \A k \in 1 .. Len(linked'[u]) : HasBlocks(linked'[u][k])
    <3>1. \A k \in 1 .. Len(linked[u]) + 1 : k \in 1 .. Len(linked[u]) \/ k = Len(linked[u]) + 1
      BY <2>2
    <3> QED
      BY <2>2, <3>1 DEF ThreadOK
  <2>7. /\ lastOpened'[u] <= Len(linked'[u]) /\ (pc'[u] \in AtFile => lastOpened'[u] >= 1)
        /\ pc'[u] # "unborn" /\ (pc'[u] \in {"abort", "dead"} => opreadsDone')
        /\ (~opreadsDone' => sem'[u].name = Len(linked'[u]) - lastOpened'[u])
    BY <1>1, <2>1, <2>2, <2>3 DEF ThreadOK, AtFile, InFile
  <2>8. /\ pc'[u] \in {"opened", "header", "oldlength"} => blk'[u] = 0
        /\ pc'[u] \in {"getbuffer", "read"} => blk'[u] < ReadBlocks(ThreadFile(u)')
        /\ pc'[u] = "full" => blk'[u] \in 1 .. ReadBlocks(ThreadFile(u)')
        /\ pc'[u] = "close" => blk'[u] = ReadBlocks(ThreadFile(u)') /\ ~IsLibrary(ThreadFile(u)')
        /\ pc'[u] = "header" => Disk[ThreadFile(u)'].kind = "LIB"
        /\ pc'[u] = "oldlength" => Disk[ThreadFile(u)'].kind = "OLD"
    BY <1>1, <2>1, <2>4 DEF ThreadOK, AtFile, InFile
  <2> QED
    BY <2>2, <2>5, <2>7, <2>8 DEF ThreadOK
<1> QED
  BY <1>2, <1>3

LEMMA BuffersDealt ==
  ASSUME TypeOK, NEW f \in Files, LinkToThread(f), NEW u \in Threads,
         CountsOK(u), PlacesOK(u), Returning(u)' = Returning(u)
  PROVE  CountsOK(u)' /\ PlacesOK(u)'
<1>1. CASE u # Dealer
  BY <1>1, DealtTo, BuffersOther DEF OnlyAt
<1>2. CASE u = Dealer
  <2>1. /\ pc'[u] = (IF pc[u] = "unborn" THEN "getstruc" ELSE pc[u])
        /\ sem'[u].full = sem[u].full /\ sem'[u].ins = sem[u].ins
        /\ next16K' = next16K /\ nextBuffer' = nextBuffer /\ insBlock' = insBlock
    BY <1>2, DealtTo, UnitTypes DEF SemNames
  <2>2. Filling(u)' = Filling(u) /\ \A i \in Ring : InUse(u, i)' <=> InUse(u, i)
    BY <2>1 DEF Filling, InUse
  <2> QED
    BY <2>1, <2>2 DEF CountsOK, PlacesOK
<1> QED
  BY <1>1, <1>2

(* The types, action by action.                                            *)
LEMMA MainTypes ==
  ASSUME TypeOK, MainOK, Main
  PROVE  TypeOK'
<1>0. sem \in [Threads -> [SemNames -> Nat]]
  BY DEF TypeOK
<1>1. CASE LinkFile
  <2>1. Head(toLink) \in Files /\ Tail(toLink) \in Seq(Files) /\ LinkToThread(Head(toLink))
    <3>1. toLink \in Seq(Files) /\ toLink # <<>>
      BY <1>1 DEF LinkFile, TypeOK
    <3> QED
      BY <1>1, <3>1, ElementsTail DEF LinkFile
  <2> QED
    BY <1>1, <2>1, DealtTo DEF LinkFile, TypeOK
<1>2. CASE LinkDefault
  <2>1. /\ Head(defaults) \in Files /\ Tail(defaults) \in Seq(Files) /\ LinkToThread(Head(defaults))
        /\ Append(todo, Head(defaults)) \in Seq(Files)
    <3>1. defaults \in Seq(Files) /\ defaults # <<>> /\ todo \in Seq(Files)
      BY <1>2 DEF LinkDefault, TypeOK
    <3>2. Head(defaults) \in Files /\ Tail(defaults) \in Seq(Files)
      BY <3>1, ElementsTail
    <3> QED
      BY <1>2, <3>1, <3>2, ElementsAppend DEF LinkDefault
  <2> QED
    BY <1>2, <2>1, DealtTo DEF LinkDefault, TypeOK
<1>3. CASE Linked \/ FillPastEnd \/ Parse \/ Join \/ ReadOldTables \/ Terminate
  <2>1. /\ UNCHANGED <<command, threadVars, linked, openStruc, insBlock, sem, handles, mainRing,
                 toLink, todo, defaults, thread, nextRead, mblock, got, libHandles, libsDone>>
    BY <1>3 DEF Linked, FillPastEnd, Parse, Join, ReadOldTables, Terminate, ringVars
  <2>2. nonresSem' \in Nat
    <3>1. nonresSem' = nonresSem \/ (nonresSem > 0 /\ nonresSem' = nonresSem - 1)
      BY <1>3 DEF Linked, FillPastEnd, Parse, Join, ReadOldTables, Terminate, ringVars
    <3>2. nonresSem \in Nat
      BY DEF TypeOK
    <3> QED
      BY <3>1, <3>2
  <2>6. opreadsDone' \in BOOLEAN
    <3>1. opreadsDone' = opreadsDone \/ opreadsDone' = ~LeavesThreads
      BY <1>3, Zenon DEF Linked, FillPastEnd, Parse, Join, ReadOldTables, Terminate, ringVars
    <3> QED
      BY <3>1, Zenon DEF TypeOK
  <2>3. bufcnt' \in Int
    BY <1>3 DEF Linked, FillPastEnd, Parse, Join, ReadOldTables, Terminate, TypeOK
  <2>4. stop' \in Threads
    <3>1. N_R_THREADS \in {1, 2, 4} /\ stop \in 0 .. N_R_THREADS - 1
      BY OpenReadAssumption DEF TypeOK, Threads
    <3> QED
      BY <1>3, <3>1 DEF Linked, FillPastEnd, Parse, Join, ReadOldTables, Terminate, Threads
  <2>5. mpc' \in {"link", "next", "header", "tables", "fill", "taken", "parse", "done",
              "bump", "join", "finished", "exited"}
    BY <1>3 DEF Linked, FillPastEnd, Parse, Join, ReadOldTables, Terminate, MainGoto
  <2> QED
    BY <2>1, <2>2, <2>3, <2>4, <2>5, <2>6 DEF TypeOK, threadVars, mainRing
<1>4. CASE SkipNext
  <2>1. Tail(todo) \in Seq(Files)
    BY <1>4, CurFile DEF SkipNext
  <2> QED
    BY <1>4, <2>1 DEF SkipNext, TypeOK, threadVars, ringVars, mainRing
<1>5. CASE LibrariesDone
  <2>1. Tails \in Seq(Files)
    <3>1. command \in CommandRecord
      BY OpenReadAssumption DEF TypeOK
    <3>2. command.tail \in Seq(Files) /\ <<>> \in Seq(Files)
      BY <3>1, EmptySeq DEF CommandRecord
    <3> QED
      BY <3>2 DEF Tails
  <2> QED
    BY <1>5, <2>1 DEF LibrariesDone, TypeOK, threadVars, mainRing, MainGoto
<1>6. CASE OpenNext
  <2>1. T \in Threads /\ Tail(todo) \in Seq(Files)
    BY <1>6, CurFile DEF OpenNext
  <2>2. sem' \in [Threads -> [SemNames -> Nat]]
    <3>1. sem[T]["open"] \in Nat /\ sem[T]["avail"] \in Nat /\ sem[T]["open"] > 0
      BY <1>6, <2>1, UnitTypes DEF OpenNext
    <3>2. sem' = [sem EXCEPT ![T]["open"] = @ - 1, ![T]["avail"] = IF ~openStruc[T][Follow(nextOpenFile[T])].flags /\ Disk[Cur].kind = "LIB" THEN @ + 1 ELSE @]
      BY <1>6 DEF OpenNext
    <3>3. sem[T] \in [SemNames -> Nat] /\ "open" \in SemNames /\ "avail" \in SemNames
      BY <1>0, <2>1 DEF SemNames
    <3> QED
      BY <1>0, <2>1, <3>1, <3>2, <3>3
  <2>3. nextOpenFile' \in [Threads -> Ring]
    <3>1. nextOpenFile \in [Threads -> Ring]
      BY DEF TypeOK
    <3>2. Follow(nextOpenFile[T]) \in Ring
      BY <2>1, <3>1, NextInRing
    <3> QED
      BY <1>6, <3>1, <3>2 DEF OpenNext
  <2>4. mpc' \in {"exited", "next", "header", "tables", "done", "fill"}
    BY <1>6 DEF OpenNext, MainGoto
  <2>5. todo' \in Seq(Files) /\ bufcnt' \in Int
    BY <1>6, <2>1 DEF OpenNext, TypeOK
  <2>6. UNCHANGED <<command, threadVars, linked, openStruc, insBlock, nonresSem, opreadsDone, handles,
                 next16K, toLink, defaults, thread, nextRead, mblock, got, libHandles, libsDone, stop>>
    BY <1>6 DEF OpenNext
  <2> QED
    BY <2>1, <2>2, <2>3, <2>4, <2>5, <2>6 DEF TypeOK, threadVars
<1>7. CASE ReadLibHeader \/ FillDone
  <2>1. T \in Threads
    BY <1>7, CurFile DEF ReadLibHeader, FillDone, MainOK, Using
  <2>2. sem' \in [Threads -> [SemNames -> Nat]]
    <3>1. sem[T]["header"] \in Nat /\ sem[T]["ins"] \in Nat /\ "header" \in SemNames /\ "ins" \in SemNames
      BY <2>1, UnitTypes DEF SemNames
    <3>2. sem' = [sem EXCEPT ![T]["ins"] = @ + 1] \/ (sem[T]["header"] > 0 /\ sem' = [sem EXCEPT ![T]["header"] = @ - 1])
      BY <1>7 DEF ReadLibHeader, FillDone, Post, Take
    <3> QED
      BY <1>0, <2>1, <3>1, <3>2
  <2>3. mpc' \in {"fill", "exited", "parse"} /\ bufcnt' \in Int
    BY <1>7 DEF ReadLibHeader, FillDone, MainGoto, TypeOK
  <2>4. UNCHANGED <<command, threadVars, linked, openStruc, insBlock, nonresSem, opreadsDone, handles,
                 mainRing, toLink, todo, defaults, thread, nextRead, mblock, got, libHandles, libsDone, stop>>
    BY <1>7 DEF ReadLibHeader, FillDone
  <2> QED
    BY <2>2, <2>3, <2>4 DEF TypeOK, threadVars, mainRing
<1>8. CASE Fill
  <2>1. T \in Threads
    BY <1>8, CurFile DEF Fill, MainOK, Using
  <2>2. sem' \in [Threads -> [SemNames -> Nat]]
    <3>1. sem[T]["full"] \in Nat /\ "full" \in SemNames
      BY <2>1, UnitTypes DEF SemNames
    <3>2. sem[T]["full"] > 0 /\ sem' = [sem EXCEPT ![T]["full"] = @ - 1]
      BY <1>8 DEF Fill, Take
    <3> QED
      BY <1>0, <2>1, <3>1, <3>2
  <2>3. Follow(next16K[T]) \in Ring /\ next16K' \in [Threads -> Ring]
    <3>1. next16K \in [Threads -> Ring]
      BY DEF TypeOK
    <3>2. Follow(next16K[T]) \in Ring
      BY <2>1, <3>1, NextInRing
    <3> QED
      BY <1>8, <3>1, <3>2 DEF Fill
  <2>4. insBlock' \in [Threads -> [Ring -> Blocks]] /\ mblock' \in Blocks
    <3>1. insBlock \in [Threads -> [Ring -> Blocks]] /\ NoBlock \in Blocks
      BY DEF TypeOK, NoBlock, Blocks
    <3>2. insBlock' = [insBlock EXCEPT ![T][Follow(next16K[T])] = NoBlock] /\ mblock' = insBlock[T][Follow(next16K[T])]
      BY <1>8 DEF Fill
    <3> HIDE DEF Blocks
    <3> QED
      BY <2>1, <2>3, <3>1, <3>2
  <2>5. got' \in Nat /\ bufcnt' \in Int /\ mpc' = "taken"
    BY <1>8 DEF Fill, MainGoto, TypeOK
  <2>6. UNCHANGED <<command, threadVars, linked, openStruc, nonresSem, opreadsDone, handles, nextOpenFile,
                 toLink, todo, defaults, thread, nextRead, libHandles, libsDone, stop>>
    BY <1>8 DEF Fill
  <2> QED
    BY <2>2, <2>3, <2>4, <2>5, <2>6 DEF TypeOK, threadVars
<1>9. CASE FileDone
  <2>1. T \in Threads /\ Tail(todo) \in Seq(Files)
    BY <1>9, CurFile DEF FileDone, MainOK, Using
  <2>2. sem' \in [Threads -> [SemNames -> Nat]]
    <3>1. sem[T]["avail"] \in Nat /\ "avail" \in SemNames
      BY <2>1, UnitTypes DEF SemNames
    <3>2. sem' = [sem EXCEPT ![T]["avail"] = @ + 1] \/ sem' = sem
      BY <1>9 DEF FileDone, Post
    <3>3. CASE sem' = [sem EXCEPT ![T]["avail"] = @ + 1]
      BY <1>0, <2>1, <3>1, <3>3
    <3> QED
      BY <1>0, <3>2, <3>3
  <2>3. /\ nextOpenFile[T] \in Ring
        /\ openStruc \in [Threads -> [Ring -> [file : Files \union {NoFile}, flags : BOOLEAN, handle : Files \union {NoFile}]]]
    BY <2>1 DEF TypeOK
  <2>4. MainSlot \in [file : Files \union {NoFile}, flags : BOOLEAN, handle : Files \union {NoFile}]
    BY <2>1, <2>3 DEF MainSlot
  <2>5. openStruc' \in [Threads -> [Ring -> [file : Files \union {NoFile}, flags : BOOLEAN, handle : Files \union {NoFile}]]]
    <3>1. openStruc' = openStruc \/ openStruc' = [openStruc EXCEPT ![T][nextOpenFile[T]] = Emptied(@)]
      BY <1>9 DEF FileDone
    <3>2. Emptied(MainSlot) \in [file : Files \union {NoFile}, flags : BOOLEAN, handle : Files \union {NoFile}]
      BY <2>4 DEF Emptied
    <3>3. CASE openStruc' = [openStruc EXCEPT ![T][nextOpenFile[T]] = Emptied(@)]
      <4>1. openStruc' = [openStruc EXCEPT ![T] = [@ EXCEPT ![nextOpenFile[T]] = Emptied(MainSlot)]]
        BY <3>3 DEF MainSlot
      <4> QED
        BY <2>1, <2>3, <3>2, <4>1
    <3> QED
      BY <2>3, <3>1, <3>3
  <2>6. libHandles' \subseteq Files \cup {NoFile}
    BY <1>9, <2>4, ZenonT(30) DEF FileDone, TypeOK
  <2>7. mblock' \in Blocks /\ got' \in Nat /\ todo' \in Seq(Files) /\ mpc' = "next"
    BY <1>9, <2>1 DEF FileDone, MainGoto, NoBlock, Blocks
  <2>8. UNCHANGED <<command, threadVars, linked, insBlock, nonresSem, opreadsDone, handles, mainRing,
                 toLink, defaults, thread, nextRead, bufcnt, libsDone, stop>>
    BY <1>9 DEF FileDone
  <2> QED
    BY <2>2, <2>5, <2>6, <2>7, <2>8 DEF TypeOK, threadVars, mainRing
<1>10. CASE Bump
  <2>1. N_R_THREADS \in {1, 2, 4} /\ stop \in 0 .. N_R_THREADS - 1 /\ Threads = 0 .. N_R_THREADS - 1
    BY OpenReadAssumption DEF TypeOK, Threads
  <2>2. stop' \in Threads
    BY <1>10, <2>1 DEF Bump
  <2>3. sem' \in [Threads -> [SemNames -> Nat]]
    <3>1. sem' = sem \/ sem' = [sem EXCEPT ![stop] = Bumped(@)]
      BY <1>10 DEF Bump
    <3>2. sem[stop]["name"] \in Nat /\ sem[stop]["avail"] \in Nat /\ sem[stop]["ins"] \in Nat
          /\ sem[stop] \in [SemNames -> Nat]
      BY <1>0, <2>1, UnitTypes
    <3>3. Bumped(sem[stop]) \in [SemNames -> Nat]
      <4>1. \A u \in [SemNames -> Nat] : \A s \in SemNames : [u EXCEPT ![s] = @ + 1] \in [SemNames -> Nat]
        OBVIOUS
      <4>2. "name" \in SemNames /\ "avail" \in SemNames /\ "ins" \in SemNames
        BY DEF SemNames
      <4>3. Bumped(sem[stop]) = [[[sem[stop] EXCEPT !["name"] = @ + 1] EXCEPT !["avail"] = @ + 1] EXCEPT !["ins"] = @ + 1]
        BY <3>2, <4>2 DEF Bumped
      <4> QED
        BY <3>2, <4>1, <4>2, <4>3
    <3> QED
      BY <1>0, <2>1, <3>1, <3>3
  <2> QED
    BY <1>10, <2>2, <2>3 DEF Bump, TypeOK, threadVars, mainRing, MainGoto
<1> QED
  BY <1>1, <1>2, <1>3, <1>4, <1>5, <1>6, <1>7, <1>8, <1>9, <1>10 DEF Main

(* What main knows of itself.                                              *)
LEMMA MainKept ==
  ASSUME TypeOK, MainOK, Main, mpc' # "exited"
  PROVE  MainOK'
<1>1. CASE LinkFile
  <2>1. toLink \in Seq(Files) /\ toLink # <<>> /\ LinkToThread(Head(toLink)) /\ toLink' = Tail(toLink)
        /\ mpc = "link" /\ UNCHANGED <<mpc, todo, defaults, opreadsDone, libsDone>>
    BY <1>1 DEF LinkFile, LinkToThread, TypeOK
  <2>2. Elements(toLink') \subseteq Elements(toLink)
    BY <2>1, ElementsTail
  <2> QED
    BY <2>1, <2>2 DEF MainOK, Using
<1>2. CASE LinkDefault
  <2>1. defaults \in Seq(Files) /\ defaults # <<>> /\ defaults' = Tail(defaults)
        /\ mpc \in {"parse", "next"} /\ UNCHANGED <<mpc, toLink, opreadsDone, libsDone>>
        /\ todo' = Append(todo, Head(defaults)) /\ ~libsDone /\ todo \in Seq(Files)
    BY <1>2 DEF LinkDefault, LinkToThread, TypeOK
  <2>2. Elements(defaults') \subseteq Elements(defaults) /\ Head(defaults) \in Files
    BY <2>1, ElementsTail
  <2>3. todo' # <<>>
    BY <2>1, <2>2, ElementsAppend
  <2> QED
    BY <2>1, <2>2, <2>3 DEF MainOK, Using
<1>3. CASE Linked \/ SkipNext
  BY <1>3 DEF Linked, SkipNext, MainOK, Using, MainGoto, ringVars
<1>4. CASE OpenNext
  <2>1. mpc' \in {"next", "header", "tables", "done", "fill"} /\ (mpc' # "next" => todo' = todo)
        /\ mpc = "next" /\ todo # <<>> /\ UNCHANGED <<toLink, defaults, opreadsDone, libsDone>>
    BY <1>4 DEF OpenNext, MainGoto
  <2> QED
    BY <2>1 DEF MainOK, Using
<1>5. CASE ReadLibHeader \/ ReadOldTables \/ FillPastEnd \/ Fill \/ FillDone \/ Parse
  <2>1. Using /\ mpc' \in {"done", "fill", "taken", "parse"}
        /\ UNCHANGED <<todo, toLink, defaults, opreadsDone, libsDone>>
    BY <1>5 DEF ReadLibHeader, ReadOldTables, FillPastEnd, Fill, FillDone, Parse, MainGoto, ringVars, Using
  <2> QED
    BY <2>1 DEF MainOK, Using
<1>6. CASE FileDone
  <2>1. mpc = "done" /\ mpc' = "next" /\ UNCHANGED <<toLink, defaults, opreadsDone, libsDone>>
    BY <1>6 DEF FileDone, MainGoto
  <2>2. ~opreadsDone
    BY <2>1 DEF MainOK
  <2> QED
    BY <2>1, <2>2 DEF MainOK, Using
<1>7. CASE LibrariesDone
  <2>1. mpc = "next" /\ mpc' = "link" /\ UNCHANGED <<defaults, opreadsDone>> /\ toLink' = Tails
    BY <1>7 DEF LibrariesDone, MainGoto
  <2>2. \A f \in Elements(Tails) : HasBlocks(f)
    <3>1. \A f \in Elements(command.tail) : Disk[f].kind # "LIB"
      BY OpenReadAssumption DEF TypeOK
    <3>2. Elements(<<>>) = {}
      BY DEF Elements
    <3> QED
      BY <3>1, <3>2 DEF Tails, HasBlocks
  <2>3. \A f \in Elements(toLink') \cup Elements(defaults') : HasBlocks(f)
    BY <2>1, <2>2 DEF MainOK
  <2> QED
    BY <2>1, <2>3 DEF MainOK, Using
<1>8. CASE Terminate
  <2>1. mpc = "next" /\ mpc' = "bump" /\ opreadsDone' = TRUE /\ todo = <<>> /\ libsDone
        /\ UNCHANGED <<todo, toLink, defaults, libsDone>>
    BY <1>8 DEF Terminate, MainGoto
  <2> QED
    BY <2>1 DEF MainOK, Using
<1>9. CASE Bump \/ Join
  <2>1. mpc \in {"bump", "join"} /\ mpc' \in {"bump", "join", "finished"}
        /\ UNCHANGED <<todo, toLink, defaults, opreadsDone, libsDone>>
    BY <1>9 DEF Bump, Join, MainGoto, ringVars
  <2> QED
    BY <2>1 DEF MainOK, Using
<1> QED
  BY <1>1, <1>2, <1>3, <1>4, <1>5, <1>6, <1>7, <1>8, <1>9 DEF Main

LEMMA RingStep ==
  ASSUME NEW n \in 0 .. 3, NEW k \in 1 .. 3
  PROVE  (((n + 1) % 4) + k) % 4 = (n + (k + 1)) % 4 /\ (n + (k + 1)) % 4 # (n + 1) % 4
<1>1. n \in {0, 1, 2, 3} /\ k \in {1, 2, 3}
  OBVIOUS
<1> QED
  BY <1>1

(* The f buffers that follow n.                                            *)
InRun(n, f, i) == \E k \in 1 .. f : i = (n + k) % 4

LEMMA RunTurn ==
  ASSUME NEW n \in 0 .. 3, NEW f \in 1 .. 4, NEW i
  PROVE  InRun((n + 1) % 4, f - 1, i) <=> i # (n + 1) % 4 /\ InRun(n, f, i)
<1>1. ASSUME NEW k \in 1 .. f - 1, i = (((n + 1) % 4) + k) % 4
      PROVE  i # (n + 1) % 4 /\ k + 1 \in 1 .. f /\ i = (n + (k + 1)) % 4
  <2>1. k \in 1 .. 3 /\ k + 1 \in 1 .. f
    OBVIOUS
  <2> QED
    BY <1>1, <2>1, RingStep
<1>2. ASSUME NEW k \in 1 .. f, i = (n + k) % 4, i # (n + 1) % 4
      PROVE  k - 1 \in 1 .. f - 1 /\ i = (((n + 1) % 4) + (k - 1)) % 4
  <2>1. k # 1
    BY <1>2
  <2>2. k - 1 \in 1 .. 3 /\ k - 1 \in 1 .. f - 1 /\ n + ((k - 1) + 1) = n + k
    BY <2>1
  <2>3. (((n + 1) % 4) + (k - 1)) % 4 = (n + ((k - 1) + 1)) % 4
    BY <2>2, RingStep
  <2> QED
    BY <1>2, <2>2, <2>3
<1> QED
  BY <1>1, <1>2 DEF InRun

(* Every step of main keeps the accounts of the buffers.                   *)
LEMMA MainBInv ==
  ASSUME BInv, Main
  PROVE  BInv'
<1>1. mpc # "exited" /\ TypeOK /\ MainOK /\ \A u \in Threads : ThreadOK(u)
  BY DEF BInv, Main, LinkFile, LinkDefault, Linked, OpenNext, SkipNext, ReadLibHeader, ReadOldTables,
         FillPastEnd, Fill, FillDone, Parse, FileDone, LibrariesDone, Terminate, Bump, Join
<1>2. TypeOK'
  BY <1>1, MainTypes
<1> SUFFICES ASSUME mpc' # "exited"
             PROVE  /\ \A u \in Threads : ThreadOK(u)'
                    /\ ~opreadsDone' => \A u \in Threads : CountsOK(u)' /\ PlacesOK(u)'
  BY <1>1, <1>2, MainKept DEF BInv
<1>3. CASE LinkFile \/ LinkDefault
  <2>1. PICK f \in Files : LinkToThread(f) /\ HasBlocks(f)
    <3>1. CASE LinkFile
      <4>1. toLink \in Seq(Files) /\ toLink # <<>>
        BY <1>1, <3>1 DEF LinkFile, TypeOK
      <4> QED
        BY <1>1, <3>1, <4>1, ElementsTail DEF LinkFile, MainOK
    <3>2. CASE LinkDefault
      <4>1. defaults \in Seq(Files) /\ defaults # <<>>
        BY <1>1, <3>2 DEF LinkDefault, TypeOK
      <4> QED
        BY <1>1, <3>2, <4>1, ElementsTail DEF LinkDefault, MainOK
    <3> QED
      BY <1>3, <3>1, <3>2
  <2>2. \A u \in Threads : Returning(u)' = Returning(u)
    BY <1>3 DEF LinkFile, LinkDefault, Returning
  <2>3. opreadsDone' = opreadsDone
    BY <2>1 DEF LinkToThread
  <2> QED
    BY <1>1, <2>1, <2>2, <2>3, ThreadDealt, BuffersDealt DEF BInv
<1>4. CASE Fill
  <2>1. PICK t \in Threads : t = T /\ Using /\ ~opreadsDone
    BY <1>1, <1>4, CurFile DEF Fill, MainOK, Using
  <2>2. /\ T' = t /\ mpc = "fill" /\ mpc' = "taken" /\ opreadsDone' = opreadsDone
        /\ \A u \in Threads : Unmoved(u)
    BY <1>4, <2>1 DEF Fill, MainGoto, threadVars, T, Cur, Unmoved
  <2>3. /\ sem[t].full > 0 /\ sem'[t].full = sem[t].full - 1 /\ sem'[t].ins = sem[t].ins
        /\ sem'[t].name = sem[t].name /\ next16K'[t] = (next16K[t] + 1) % 4
        /\ insBlock'[t] = [insBlock[t] EXCEPT ![next16K'[t]] = NoBlock]
        /\ \A u \in Threads \ {t} : sem'[u] = sem[u] /\ next16K'[u] = next16K[u] /\ insBlock'[u] = insBlock[u]
    BY <1>1, <1>4, <2>1, UnitTypes DEF Fill, Take, Follow, SemNames
  <2>4. \A u \in Threads : ThreadOK(u)'
    BY <1>1, <2>2, <2>3, ThreadUnmoved
  <2>5. ASSUME NEW u \in Threads \ {t} PROVE CountsOK(u)' /\ PlacesOK(u)'
    <3>1. Returning(u)' = Returning(u)
      BY <2>1, <2>2 DEF Returning
    <3> QED
      BY <1>1, <2>1, <2>2, <2>3, <3>1, BuffersUnmoved DEF BInv
  <2>6. CountsOK(t) /\ PlacesOK(t) /\ Unmoved(t)
    BY <1>1, <2>1, <2>2 DEF BInv
  <2>7. CountsOK(t)'
    <3>1. Filling(t)' = Filling(t) /\ Returning(t)' = 1 /\ Returning(t) = 0
      BY <2>1, <2>2, <2>6 DEF Filling, Returning, Unmoved
    <3> QED
      BY <1>1, <2>1, <2>2, <2>3, <2>6, <3>1, UnitTypes DEF CountsOK, Unmoved, Filling
  <2>8. PlacesOK(t)'
    <3>1. \A i \in Ring : insBlock'[t][i] = IF i = next16K'[t] THEN NoBlock ELSE insBlock[t][i]
      BY <1>1, <2>1, <2>3, UnitTypes
    <3>2. next16K[t] \in 0 .. 3 /\ sem[t].full \in 1 .. 4 /\ nextBuffer'[t] = nextBuffer[t] /\ pc'[t] = pc[t]
      <4>1. sem[t].full \in Nat /\ sem[t].ins \in Nat /\ next16K[t] \in 0 .. 3
        BY <1>1, <2>1, UnitTypes
      <4>2. sem[t].full + sem[t].ins + Filling(t) + Returning(t) = 4 /\ Filling(t) \in 0 .. 1 /\ Returning(t) = 0
        BY <2>1, <2>2, <2>6 DEF CountsOK, Filling, Returning
      <4>3. sem[t].full \in 1 .. 4
        BY <2>3, <4>1, <4>2
      <4>4. nextBuffer'[t] = nextBuffer[t] /\ pc'[t] = pc[t]
        BY <2>6 DEF Unmoved
      <4> QED
        BY <4>1, <4>3, <4>4
    <3>3. pc[t] = "full" => nextBuffer[t] # next16K'[t]
      <4>1. ASSUME pc[t] = "full" PROVE sem[t].full \in 1 .. 3 /\ nextBuffer[t] = (next16K[t] + sem[t].full + 1) % 4
        <5>1. sem[t].full + sem[t].ins + Filling(t) + Returning(t) = 4 /\ Filling(t) = 1 /\ Returning(t) = 0
              /\ nextBuffer[t] = (next16K[t] + sem[t].full + Filling(t)) % 4
          BY <2>1, <2>2, <2>6, <4>1 DEF CountsOK, Filling, Returning
        <5>2. sem[t].ins \in Nat
          BY <1>1, UnitTypes
        <5> QED
          BY <3>2, <5>1, <5>2
      <4> QED
        BY <2>3, <3>2, <4>1
    <3>4. ASSUME NEW i \in Ring
          PROVE (\E k \in 1 .. sem[t].full - 1 : i = (next16K'[t] + k) % 4)
                  <=> i # next16K'[t] /\ \E k \in 1 .. sem[t].full : i = (next16K[t] + k) % 4
      <4>1. PICK n \in 0 .. 3 : n = next16K[t]
        BY <3>2
      <4>2. PICK f \in 1 .. 4 : f = sem[t].full
        BY <3>2
      <4>3. next16K'[t] = (n + 1) % 4
        BY <2>3, <4>1
      <4>4. InRun((n + 1) % 4, f - 1, i) <=> i # (n + 1) % 4 /\ InRun(n, f, i)
        BY <4>1, <4>2, RunTurn
      <4> QED
        BY <4>1, <4>2, <4>3, <4>4 DEF InRun
    <3>5. \A i \in Ring : InUse(t, i)' <=> i # next16K'[t] /\ InUse(t, i)
      BY <2>2, <2>3, <3>2, <3>3, <3>4 DEF InUse
    <3> QED
      BY <2>2, <2>6, <3>1, <3>5 DEF PlacesOK
  <2> QED
    BY <2>4, <2>5, <2>7, <2>8
<1>5. CASE FillDone
  <2>1. PICK t \in Threads : t = T /\ Using /\ ~opreadsDone
    BY <1>1, <1>5, CurFile DEF FillDone, MainOK, Using
  <2>2. /\ T' = t /\ mpc = "taken" /\ mpc' = "parse" /\ opreadsDone' = opreadsDone
        /\ \A u \in Threads : Unmoved(u) /\ next16K'[u] = next16K[u] /\ insBlock'[u] = insBlock[u]
    BY <1>5, <2>1 DEF FillDone, MainGoto, threadVars, mainRing, T, Cur, Unmoved
  <2>3. /\ sem'[t].full = sem[t].full /\ sem'[t].ins = sem[t].ins + 1 /\ sem'[t].name = sem[t].name
        /\ \A u \in Threads \ {t} : sem'[u] = sem[u]
    BY <1>1, <1>5, <2>1, UnitTypes DEF FillDone, Post, SemNames
  <2>4. \A u \in Threads : ThreadOK(u)'
    BY <1>1, <2>2, <2>3, ThreadUnmoved
  <2>5. ASSUME NEW u \in Threads \ {t} PROVE CountsOK(u)' /\ PlacesOK(u)'
    <3>1. Returning(u)' = Returning(u)
      BY <2>1, <2>2 DEF Returning
    <3> QED
      BY <1>1, <2>1, <2>2, <2>3, <3>1, BuffersUnmoved DEF BInv
  <2>6. CountsOK(t) /\ PlacesOK(t) /\ Unmoved(t)
    BY <1>1, <2>1, <2>2 DEF BInv
  <2>7. Filling(t)' = Filling(t) /\ Returning(t)' = 0 /\ Returning(t) = 1
    BY <2>1, <2>2, <2>6 DEF Filling, Returning, Unmoved
  <2>8. CountsOK(t)'
    BY <1>1, <2>1, <2>2, <2>3, <2>6, <2>7, UnitTypes DEF CountsOK, Unmoved, Filling
  <2>9. PlacesOK(t)'
    <3>1. \A i \in Ring : InUse(t, i)' <=> InUse(t, i)
      BY <2>1, <2>2, <2>3, <2>6 DEF InUse, Unmoved
    <3> QED
      BY <2>1, <2>2, <2>6, <3>1 DEF PlacesOK
  <2> QED
    BY <2>4, <2>5, <2>8, <2>9
<1>6. CASE Linked \/ SkipNext \/ FillPastEnd \/ Parse \/ Join \/ ReadOldTables \/ LibrariesDone \/ Terminate
             \/ OpenNext \/ ReadLibHeader \/ FileDone \/ Bump
  <2>1. \A u \in Threads : Unmoved(u) /\ next16K'[u] = next16K[u] /\ insBlock'[u] = insBlock[u] 
    BY <1>6 DEF Linked, SkipNext, FillPastEnd, Parse, Join, ReadOldTables, LibrariesDone, Terminate,
             OpenNext, ReadLibHeader, FileDone, Bump, threadVars, ringVars, mainRing, Unmoved
  <2>2. mpc # "taken" /\ mpc' # "taken"
    BY <1>6 DEF Linked, SkipNext, FillPastEnd, Parse, Join, ReadOldTables, LibrariesDone, Terminate,
             OpenNext, ReadLibHeader, FileDone, Bump, MainGoto
  <2>3. opreadsDone' = opreadsDone \/ opreadsDone' = TRUE
    BY <1>6 DEF Linked, SkipNext, FillPastEnd, Parse, Join, ReadOldTables, LibrariesDone, Terminate,
             OpenNext, ReadLibHeader, FileDone, Bump, MainGoto, ringVars
  <2>4. ASSUME NEW u \in Threads
        PROVE  opreadsDone' \/ (sem'[u].name = sem[u].name /\ sem'[u].full = sem[u].full /\ sem'[u].ins = sem[u].ins)
    <3>1. CASE Bump
      <4>1. opreadsDone /\ opreadsDone' = opreadsDone
        BY <1>1, <3>1 DEF Bump, MainOK
      <4> QED
        BY <4>1
    <3>2. CASE OpenNext \/ ReadLibHeader \/ FileDone
      <4>1. T \in Threads
        BY <1>1, <3>2, CurFile DEF OpenNext, ReadLibHeader, FileDone, MainOK, Using
      <4>2. sem \in [Threads -> [SemNames -> Nat]]
        BY <1>1 DEF TypeOK
      <4>3. CASE OpenNext
        <5>1. sem' = [sem EXCEPT ![T]["open"] = @ - 1, ![T]["avail"] = IF ~openStruc[T][Follow(nextOpenFile[T])].flags /\ Disk[Cur].kind = "LIB" THEN @ + 1 ELSE @]
          BY <4>3 DEF OpenNext
        <5> QED
          BY <4>1, <4>2, <5>1 DEF SemNames
      <4>4. CASE ReadLibHeader
        BY <4>1, <4>2, <4>4 DEF ReadLibHeader, Take, SemNames
      <4>5. CASE FileDone
        <5>1. sem' = sem \/ sem' = [sem EXCEPT ![T]["avail"] = @ + 1]
          BY <4>5 DEF FileDone, Post
        <5> QED
          BY <4>1, <4>2, <5>1 DEF SemNames
      <4> QED
        BY <3>2, <4>3, <4>4, <4>5
    <3>3. CASE Linked \/ SkipNext \/ FillPastEnd \/ Parse \/ Join \/ ReadOldTables \/ LibrariesDone \/ Terminate
      <4>1. sem' = sem
        BY <3>3 DEF Linked, SkipNext, FillPastEnd, Parse, Join, ReadOldTables, LibrariesDone, Terminate, ringVars
      <4> QED
        BY <4>1
    <3> QED
      BY <1>6, <3>1, <3>2, <3>3
  <2>5. \A u \in Threads : ThreadOK(u)'
    BY <1>1, <2>1, <2>3, <2>4, ThreadUnmoved
  <2>6. ASSUME ~opreadsDone', NEW u \in Threads PROVE CountsOK(u)' /\ PlacesOK(u)'
    <3>1. Returning(u)' = Returning(u) /\ ~opreadsDone
      BY <2>2, <2>3, <2>6 DEF Returning
    <3> QED
      BY <1>1, <2>1, <2>4, <2>6, <3>1, BuffersUnmoved DEF BInv
  <2> QED
    BY <2>5, <2>6
<1> QED
  BY <1>3, <1>4, <1>5, <1>6 DEF Main

LEMMA StutterBInv == ASSUME BInv, UNCHANGED vars PROVE BInv'
<1>1. /\ UNCHANGED <<pc, lastOpened, nextOpenStruc, nextBuffer, blk, linked, openStruc, insBlock, sem, nonresSem>>
      /\ UNCHANGED <<opreadsDone, handles, nextOpenFile, next16K, command, mpc, toLink, todo, defaults, thread>>
      /\ UNCHANGED <<nextRead, bufcnt, mblock, got, libHandles, libsDone, stop>>
  BY DEF vars, threadVars, ringVars, mainRing, mainVars
<1>2. TypeOK'
  BY <1>1 DEF BInv, TypeOK
<1>3. MainOK <=> MainOK'
  BY <1>1 DEF MainOK, Using
<1>4. \A u \in Threads : Same(u) /\ Returning(u)' = Returning(u)
  BY <1>1 DEF Same, Returning, T, Cur
<1> QED
  BY <1>1, <1>2, <1>3, <1>4, ThreadOther, BuffersOther DEF BInv

(* The counts of the buffers agree with what is in them, and every thread  *)
(* with the list of its files, in every state (_get_next_buffer,           *)
(* _get_next_file_name, _read_16k_threaded).                               *)
THEOREM BInvHolds == Spec => []BInv
<1>1. BInv /\ [Next]_vars => BInv'
  BY StutterBInv, ThreadBInv, MainBInv DEF Next
<1> QED
  BY <1>1, InitBInv, PTL DEF Spec

(* The four buffers of a thread are accounted for, whatever the files and  *)
(* however far the thread is ahead: so it never reads into a block that    *)
(* main has not taken (_get_next_buffer, _read_16k_threaded).              *)
THEOREM BuffersAccounted == Spec => []BufferAccount
<1>1. BInv => BufferAccount
  BY DEF BInv, BufferAccount, CountsOK, PlacesOK, InUse
<1> QED
  BY <1>1, BInvHolds, PTL

-----------------------------------------------------------------------------
(* The order of the files.  The nth file dealt goes to thread              *)
(* (n - 1) % N_R_THREADS: d are the files dealt, main has m of them behind *)
(* it, p[t] of those from thread t.                                        *)
At(t, k) == (k - 1) * N_R_THREADS + t + 1      \* what thread t's kth file is in d

Injective(s) == \A i, j \in DOMAIN s : s[i] = s[j] => i = j

Coming == Elements(toLink) \cup (IF libsDone THEN {} ELSE Elements(defaults) \cup Elements(command.tail))

(* Every list entry is dealt once.                                         *)
OnceOK(d) ==
  /\ Injective(d) /\ Injective(toLink)
  /\ Elements(d) \cap Coming = {}
  /\ ~libsDone => /\ Injective(defaults) /\ Injective(command.tail)
                  /\ Elements(toLink) \cap (Elements(defaults) \cup Elements(command.tail)) = {}
                  /\ Elements(defaults) \cap Elements(command.tail) = {}

DealtOK(d) ==
  /\ \A t \in Threads :
       /\ \A k \in 1 .. Len(linked[t]) : At(t, k) <= Len(d) /\ linked[t][k] = d[At(t, k)]
       /\ Len(d) < At(t, Len(linked[t]) + 1)
  /\ \A n \in 1 .. Len(d) : thread[d[n]] = (n - 1) % N_R_THREADS
  /\ Dealer = Len(d) % N_R_THREADS

BehindOK(m, p) ==
  \A t \in Threads : /\ p[t] > 0 => At(t, p[t]) <= m
                     /\ m < At(t, p[t] + 1)

TodoOK(d, m) ==
  /\ Len(todo) = (Len(d) - m) + Len(toLink)
  /\ \A j \in 1 .. Len(d) - m : todo[j] = d[m + j]
  /\ \A j \in 1 .. Len(toLink) : todo[(Len(d) - m) + j] = toLink[j]

(* What is known of the files that main has still to process.              *)
InputFile(f) ==
  /\ Disk[f].kind \in {"OBJ", "LIB"} /\ Disk[f].wanted /\ HasBlocks(f)
  /\ Disk[f].kind = "OBJ" => Disk[f].modend > 0

TailFile(f) ==
  /\ Disk[f].kind \in {"OLD", "STUB", "RES"}
  /\ TailsTaken /\ Disk[f].wanted => Disk[f].nonres = 0

KindsOK ==
  IF libsDone THEN /\ \A a \in DOMAIN todo : /\ TailFile(todo[a])
                                             /\ TailsTaken /\ a < Len(todo) => ReadToEnd(todo[a])
                   /\ libHandles = {}
              ELSE \A f \in Elements(todo) \cup Elements(defaults) : InputFile(f)

DInv(d, m, p) ==
  /\ d \in Seq(Files) /\ m \in 0 .. Len(d) /\ p \in [Threads -> Nat]
  /\ mpc # "exited" => OnceOK(d) /\ DealtOK(d) /\ BehindOK(m, p) /\ TodoOK(d, m) /\ KindsOK

LEMMA Places ==
  ASSUME NEW t \in Threads, NEW u \in Threads, NEW k \in Nat, NEW l \in Nat
  PROVE  /\ At(t, k) \in Int /\ (k > 0 => At(t, k) > 0)
         /\ At(t, k) = At(u, l) => t = u /\ k = l
         /\ k > 0 => (At(t, k) - 1) % N_R_THREADS = t
         /\ At(t, k) <= At(t, l) <=> k <= l
<1>1. CASE N_R_THREADS = 1
  BY <1>1 DEF At, Threads
<1>2. CASE N_R_THREADS = 2
  BY <1>2 DEF At, Threads
<1>3. CASE N_R_THREADS = 4
  BY <1>3 DEF At, Threads
<1> QED
  BY <1>1, <1>2, <1>3, OpenReadAssumption

LEMMA PlaceRange ==
  ASSUME NEW t \in Threads, NEW k \in Nat
  PROVE  At(t, k) \in Int /\ At(t, k) < At(t, k + 1) /\ (k > 0 => At(t, k) > 0)
<1>1. CASE N_R_THREADS = 1
  BY <1>1 DEF At, Threads
<1>2. CASE N_R_THREADS = 2
  BY <1>2 DEF At, Threads
<1>3. CASE N_R_THREADS = 4
  BY <1>3 DEF At, Threads
<1> QED
  BY <1>1, <1>2, <1>3, OpenReadAssumption

LEMMA NextPlace ==
  ASSUME NEW n \in Nat, NEW u \in Threads, NEW c \in Nat, c > 0 => At(u, c) <= n, n < At(u, c + 1)
  PROVE  IF u = n % N_R_THREADS THEN At(u, c + 1) = n + 1 ELSE n + 1 < At(u, c + 1)
<1>1. CASE N_R_THREADS = 1
  BY <1>1 DEF At, Threads
<1>2. CASE N_R_THREADS = 2
  BY <1>2 DEF At, Threads
<1>3. CASE N_R_THREADS = 4
  BY <1>3 DEF At, Threads
<1> QED
  BY <1>1, <1>2, <1>3, OpenReadAssumption

LEMMA TurnThread == ASSUME NEW n \in Nat PROVE n % N_R_THREADS \in Threads
BY OpenReadAssumption DEF Threads

(* No more files of a thread are behind main than it has got.              *)
LEMMA BehindBound ==
  ASSUME TypeOK, NEW d, NEW m, NEW p, DInv(d, m, p), mpc # "exited", NEW t \in Threads
  PROVE  p[t] \in 0 .. Len(linked[t]) /\ Len(linked[t]) \in Nat /\ Len(d) \in Nat
<1>1. linked[t] \in Seq(Files) /\ d \in Seq(Files) /\ p[t] \in Nat /\ m \in 0 .. Len(d)
  BY DEF DInv, TypeOK
<1>2. Len(linked[t]) \in Nat /\ Len(d) \in Nat
  BY <1>1
<1>3. p[t] > 0 => At(t, p[t]) < At(t, Len(linked[t]) + 1)
  <2>1. (p[t] > 0 => At(t, p[t]) <= m) /\ Len(d) < At(t, Len(linked[t]) + 1)
    BY DEF DInv, BehindOK, DealtOK
  <2>2. At(t, p[t]) \in Int /\ At(t, Len(linked[t]) + 1) \in Int
    BY <1>1, <1>2, Places, SMTT(30)
  <2> QED
    BY <1>1, <1>2, <2>1, <2>2
<1>4. p[t] > 0 => ~(Len(linked[t]) + 1 <= p[t])
  <2>1. At(t, p[t]) \in Int /\ At(t, Len(linked[t]) + 1) \in Int
    BY <1>1, <1>2, Places, SMTT(30)
  <2>2. At(t, Len(linked[t]) + 1) <= At(t, p[t]) <=> Len(linked[t]) + 1 <= p[t]
    BY <1>1, <1>2, Places
  <2> QED
    BY <1>3, <2>1, <2>2
<1> QED
  BY <1>1, <1>2, <1>4

(* A file is dealt to one thread, once.                                    *)
LEMMA FilePlace ==
  ASSUME TypeOK, NEW d, NEW m, NEW p, DInv(d, m, p), mpc # "exited",
         NEW t \in Threads, NEW u \in Threads,
         NEW k \in 1 .. Len(linked[t]), NEW l \in 1 .. Len(linked[u]), linked[t][k] = linked[u][l]
  PROVE  t = u /\ k = l
<1>1. d \in Seq(Files) /\ Len(linked[t]) \in Nat /\ Len(linked[u]) \in Nat /\ k \in Nat /\ l \in Nat /\ k > 0 /\ l > 0
  BY BehindBound DEF DInv
<1>2. At(t, k) \in 1 .. Len(d) /\ At(u, l) \in 1 .. Len(d)
  <2>1. At(t, k) <= Len(d) /\ At(u, l) <= Len(d)
    BY DEF DInv, DealtOK
  <2>2. At(t, k) \in Int /\ At(t, k) > 0 /\ At(u, l) \in Int /\ At(u, l) > 0
    BY <1>1, Places
  <2> QED
    BY <1>1, <2>1, <2>2
<1>3. d[At(t, k)] = d[At(u, l)]
  BY DEF DInv, DealtOK
<1>4. At(t, k) = At(u, l)
  BY <1>1, <1>2, <1>3, LenProperties DEF DInv, OnceOK, Injective
<1> QED
  BY <1>1, <1>4, Places

(* The current file is the next one of its thread.                         *)
LEMMA CurrentFile ==
  ASSUME TypeOK, NEW d, NEW m, NEW p, DInv(d, m, p), mpc # "exited", toLink = <<>>, todo # <<>>
  PROVE  /\ Cur \in Files /\ T \in Threads /\ m < Len(d) /\ T = m % N_R_THREADS
         /\ p[T] + 1 \in 1 .. Len(linked[T]) /\ linked[T][p[T] + 1] = Cur
<1>1. Cur \in Files /\ T \in Threads /\ Cur = todo[1] /\ Len(todo) \in Nat \ {0}
  BY CurFile
<1>2. d \in Seq(Files) /\ Len(d) \in Nat /\ m \in 0 .. Len(d) /\ Len(toLink) = 0
  BY EmptySeq DEF DInv
<1>3. m < Len(d) /\ Cur = d[m + 1] /\ m + 1 \in 1 .. Len(d)
  <2>1. Len(todo) = (Len(d) - m) + Len(toLink) /\ \A j \in 1 .. Len(d) - m : todo[j] = d[m + j]
    BY DEF DInv, TodoOK
  <2> QED
    BY <1>1, <1>2, <2>1
<1>4. T = m % N_R_THREADS
  <2>1. thread[d[m + 1]] = ((m + 1) - 1) % N_R_THREADS
    BY <1>3 DEF DInv, DealtOK
  <2>2. (m + 1) - 1 = m
    BY <1>2
  <2> QED
    BY <1>3, <2>1, <2>2 DEF T
<1>5. At(T, p[T] + 1) = m + 1
  <2>1. p[T] \in Nat /\ (p[T] > 0 => At(T, p[T]) <= m) /\ m < At(T, p[T] + 1) /\ m \in Nat
    BY <1>1, <1>2 DEF DInv, BehindOK
  <2> QED
    BY <1>1, <1>4, <2>1, NextPlace
<1>6. p[T] + 1 \in 1 .. Len(linked[T])
  <2>1. Len(d) < At(T, Len(linked[T]) + 1) /\ p[T] \in 0 .. Len(linked[T]) /\ Len(linked[T]) \in Nat
    BY <1>1, BehindBound DEF DInv, DealtOK
  <2>2. p[T] # Len(linked[T])
    BY <1>2, <1>3, <1>5, <2>1
  <2> QED
    BY <2>1, <2>2
<1>7. linked[T][p[T] + 1] = d[At(T, p[T] + 1)]
  BY <1>1, <1>6 DEF DInv, DealtOK
<1> QED
  BY <1>1, <1>3, <1>4, <1>5, <1>6, <1>7

LEMMA InjectiveConcat ==
  ASSUME NEW S, NEW r \in Seq(S), NEW s \in Seq(S), Injective(r \o s)
  PROVE  Injective(r) /\ Injective(s) /\ Elements(r) \cap Elements(s) = {}
<1>1. /\ r \o s \in Seq(S) /\ Len(r \o s) = Len(r) + Len(s)
      /\ \A i \in 1 .. Len(r) + Len(s) : (r \o s)[i] = IF i <= Len(r) THEN r[i] ELSE s[i - Len(r)]
  BY ConcatProperties
<1>2. /\ Len(r) \in Nat /\ Len(s) \in Nat /\ DOMAIN r = 1 .. Len(r) /\ DOMAIN s = 1 .. Len(s)
      /\ DOMAIN (r \o s) = 1 .. Len(r) + Len(s)
  BY <1>1, LenProperties
<1>3. \A i \in 1 .. Len(r) : i \in 1 .. Len(r) + Len(s) /\ (r \o s)[i] = r[i]
  BY <1>1, <1>2
<1>4. ASSUME NEW i \in 1 .. Len(s)
      PROVE  Len(r) + i \in 1 .. Len(r) + Len(s) /\ (r \o s)[Len(r) + i] = s[i]
  <2>1. Len(r) + i \in 1 .. Len(r) + Len(s) /\ ~(Len(r) + i <= Len(r)) /\ (Len(r) + i) - Len(r) = i
    BY <1>2
  <2> QED
    BY <1>1, <2>1
<1>5. Injective(r)
  BY <1>2, <1>3 DEF Injective
<1>6. Injective(s)
  <2> SUFFICES ASSUME NEW i \in 1 .. Len(s), NEW j \in 1 .. Len(s), s[i] = s[j] PROVE i = j
    BY <1>2 DEF Injective
  <2>1. Len(r) + i = Len(r) + j
    BY <1>2, <1>4 DEF Injective
  <2> QED
    BY <1>2, <2>1
<1>7. ASSUME NEW i \in 1 .. Len(r), NEW j \in 1 .. Len(s) PROVE r[i] # s[j]
  <2>1. i # Len(r) + j
    BY <1>2
  <2> QED
    BY <1>2, <1>3, <1>4, <2>1 DEF Injective
<1> QED
  BY <1>2, <1>5, <1>6, <1>7 DEF Elements

LEMMA InitDInv == Init => DInv(<<>>, 0, [t \in Threads |-> 0])
<1> SUFFICES ASSUME Init PROVE DInv(<<>>, 0, [t \in Threads |-> 0])
  OBVIOUS
<1>0. N_R_THREADS \in {1, 2, 4} /\ Threads = 0 .. N_R_THREADS - 1
  BY OpenReadAssumption DEF Threads
<1>1. command \in CommandRecord /\ command \in Commands
  BY OpenReadAssumption DEF Init
<1>2. /\ command.obj \in Seq(Files) /\ command.lib \in Seq(Files) /\ command.defaults \in Seq(Files)
      /\ command.tail \in Seq(Files)
  BY <1>1 DEF CommandRecord
<1>3. /\ <<>> \in Seq(Files) /\ Len(<<>>) = 0 /\ DOMAIN <<>> = {} /\ Elements(<<>>) = {}
  BY EmptySeq DEF Elements
<1> DEFINE first == command.obj \o command.lib
<1>4. first \in Seq(Files) /\ Elements(first) = Elements(command.obj) \cup Elements(command.lib)
  BY <1>2, ElementsConcat, ConcatProperties
<1>5. OnceOK(<<>>)
  <2>1. first \o command.defaults \in Seq(Files)
        /\ Elements(first \o command.defaults) = Elements(first) \cup Elements(command.defaults)
    <3>1. first \in Seq(Files) /\ command.defaults \in Seq(Files)
      BY <1>2, <1>4
    <3> HIDE DEF first
    <3>2. first \o command.defaults \in Seq(Files)
      BY <3>1, ConcatProperties
    <3>3. Elements(first \o command.defaults) = Elements(first) \cup Elements(command.defaults)
      BY <3>1, ElementsConcat
    <3> QED
      BY <3>2, <3>3
  <2>2. Injective((first \o command.defaults) \o command.tail)
    BY <1>1, OpenReadAssumption DEF Named, Injective
  <2>3. /\ Injective(first \o command.defaults) /\ Injective(command.tail)
        /\ Elements(first \o command.defaults) \cap Elements(command.tail) = {}
    BY <1>2, <2>1, <2>2, InjectiveConcat
  <2>4. /\ Injective(first) /\ Injective(command.defaults)
        /\ Elements(first) \cap Elements(command.defaults) = {}
    BY <1>2, <1>4, <2>3, InjectiveConcat
  <2>5. Injective(<<>>)
    BY <1>3 DEF Injective
  <2>6. toLink = first /\ defaults = command.defaults
    BY DEF Init
  <2> QED
    BY <1>3, <2>1, <2>3, <2>4, <2>5, <2>6 DEF OnceOK
<1>6. DealtOK(<<>>)
  <2>1. \A t \in Threads : linked[t] = <<>> /\ 0 < At(t, 1)
    BY <1>0 DEF Init, At
  <2>2. nextRead = N_R_THREADS - 1
    BY DEF Init
  <2>3. Dealer = 0 % N_R_THREADS
    BY <1>0, <2>2 DEF Dealer
  <2> QED
    BY <1>3, <2>1, <2>3 DEF DealtOK
<1>7. BehindOK(0, [t \in Threads |-> 0])
  BY <1>0 DEF BehindOK, At
<1>8. TodoOK(<<>>, 0)
  <2>1. todo = toLink /\ toLink \in Seq(Files)
    BY <1>4 DEF Init
  <2> QED
    BY <1>3, <2>1 DEF TodoOK
<1>9. KindsOK
  <2>1. \A f \in Elements(command.obj) : InputFile(f)
    BY <1>1, OpenReadAssumption DEF InputFile, HasBlocks
  <2>2. \A f \in Elements(command.lib) \cup Elements(command.defaults) : InputFile(f)
    BY <1>1, OpenReadAssumption DEF InputFile, HasBlocks
  <2>3. ~libsDone /\ todo = first /\ defaults = command.defaults
    BY DEF Init
  <2> QED
    BY <1>4, <2>1, <2>2, <2>3 DEF KindsOK
<1> QED
  BY <1>3, <1>5, <1>6, <1>7, <1>8, <1>9 DEF DInv

(* A step that neither deals a file nor finishes one.                      *)
LEMMA OrderStays ==
  ASSUME NEW d, NEW m, NEW p, DInv(d, m, p), mpc # "exited",
         UNCHANGED <<command, linked, thread, nextRead, todo, toLink, defaults, libsDone, libHandles>>
  PROVE  DInv(d, m, p)'
BY DEF DInv, OnceOK, DealtOK, BehindOK, TodoOK, KindsOK, Coming, Dealer

(* Main goes on to the next file.                                          *)
LEMMA OrderAdvances ==
  ASSUME TypeOK, NEW d, NEW m, NEW p, DInv(d, m, p), mpc # "exited", todo # <<>>, toLink = <<>>,
         UNCHANGED <<command, linked, thread, nextRead, toLink, defaults, libsDone>>,
         todo' = Tail(todo), libsDone => libHandles' = libHandles, NEW t \in Threads, t = T
  PROVE  DInv(d, m + 1, [p EXCEPT ![t] = @ + 1])'
<1> DEFINE q == [p EXCEPT ![t] = @ + 1]
<1>1. m < Len(d) /\ t = m % N_R_THREADS
  BY CurrentFile
<1>2. d \in Seq(Files) /\ Len(d) \in Nat /\ m \in 0 .. Len(d) /\ p \in [Threads -> Nat] /\ Len(toLink) = 0
  BY EmptySeq DEF DInv
<1>3. /\ Len(todo') = Len(todo) - 1 /\ \A i \in 1 .. Len(todo) - 1 : todo'[i] = todo[i + 1]
      /\ Len(todo) \in Nat \ {0} /\ todo' \in Seq(Files) /\ todo \in Seq(Files)
  BY CurFile DEF TypeOK
<1>4. q \in [Threads -> Nat] /\ q[t] = p[t] + 1 /\ \A u \in Threads \ {t} : q[u] = p[u]
  BY <1>1, <1>2
<1> HIDE DEF q
<1>5. BehindOK(m + 1, q)
  <2> SUFFICES ASSUME NEW u \in Threads
               PROVE  (q[u] > 0 => At(u, q[u]) <= m + 1) /\ m + 1 < At(u, q[u] + 1)
    BY DEF BehindOK
  <2>1. p[u] \in Nat /\ (p[u] > 0 => At(u, p[u]) <= m) /\ m < At(u, p[u] + 1) /\ m \in Nat
    BY <1>2 DEF DInv, BehindOK
  <2>2. IF u = m % N_R_THREADS THEN At(u, p[u] + 1) = m + 1 ELSE m + 1 < At(u, p[u] + 1)
    BY <2>1, NextPlace
  <2>3. /\ At(u, p[u]) \in Int /\ At(u, p[u] + 1) \in Int /\ At(u, (p[u] + 1) + 1) \in Int
        /\ At(u, p[u] + 1) < At(u, (p[u] + 1) + 1)
    <3> DEFINE c == p[u]
    <3>1. c \in Nat /\ c + 1 \in Nat /\ (c + 1) + 1 \in Nat
      BY <2>1
    <3> HIDE DEF c
    <3>2. At(u, c) \in Int /\ At(u, c + 1) \in Int /\ At(u, c + 1) < At(u, (c + 1) + 1)
      BY <3>1, PlaceRange
    <3>3. At(u, (c + 1) + 1) \in Int
      BY <3>1, PlaceRange
    <3> QED
      BY <3>2, <3>3 DEF c
  <2>4. CASE u = t
    <3>1. q[u] = p[u] + 1 /\ At(u, p[u] + 1) = m + 1
      BY <1>1, <1>4, <2>2, <2>4
    <3> QED
      BY <2>1, <2>3, <3>1
  <2>5. CASE u # t
    BY <1>1, <1>4, <2>1, <2>2, <2>3, <2>5
  <2> QED
    BY <2>4, <2>5
<1>6. TodoOK(d, m + 1)'
  <2>1. Len(todo) = (Len(d) - m) + Len(toLink) /\ \A j \in 1 .. Len(d) - m : todo[j] = d[m + j]
    BY DEF DInv, TodoOK
  <2>2. Len(todo') = Len(d) - (m + 1)
    BY <1>1, <1>2, <1>3, <2>1
  <2>3. ASSUME NEW j \in 1 .. Len(d) - (m + 1) PROVE todo'[j] = d[(m + 1) + j]
    <3>1. j \in 1 .. Len(todo) - 1 /\ j + 1 \in 1 .. Len(d) - m /\ m + (j + 1) = (m + 1) + j
      BY <1>1, <1>2, <2>1
    <3> QED
      BY <1>3, <2>1, <3>1
  <2>4. Len(toLink') = 0 /\ Len(d) - (m + 1) = (Len(d) - (m + 1)) + 0
    BY <1>1, <1>2
  <2> QED
    BY <2>2, <2>3, <2>4 DEF TodoOK
<1>7. KindsOK'
  <2>1. DOMAIN todo = 1 .. Len(todo) /\ DOMAIN todo' = 1 .. Len(todo) - 1
    BY <1>3, LenProperties
  <2>2. \A a \in DOMAIN todo' : a + 1 \in DOMAIN todo /\ todo'[a] = todo[a + 1] /\ (a < Len(todo') => a + 1 < Len(todo))
    BY <1>3, <2>1
  <2>3. CASE libsDone
    BY <2>2, <2>3 DEF DInv, KindsOK, TailFile
  <2>4. CASE ~libsDone
    <3>1. Elements(todo') \subseteq Elements(todo)
      BY <2>2 DEF Elements
    <3> QED
      BY <2>4, <3>1 DEF DInv, KindsOK
  <2> QED
    BY <2>3, <2>4
<1>8. OnceOK(d)' /\ DealtOK(d)'
  BY DEF DInv, OnceOK, DealtOK, Coming, Dealer
<1>9. m + 1 \in 0 .. Len(d)
  BY <1>1, <1>2, TurnThread
<1>10. BehindOK(m + 1, q)'
  BY <1>5 DEF BehindOK
<1> QED
  BY <1>2, <1>4, <1>6, <1>7, <1>8, <1>9, <1>10 DEF DInv, q

(* Main deals the next file.                                               *)
LEMMA DealKept ==
  ASSUME TypeOK, NEW d, NEW m, NEW p, DInv(d, m, p), mpc # "exited",
         NEW f \in Files, f \in Coming, LinkToThread(f)
  PROVE  /\ DealtOK(Append(d, f))' /\ BehindOK(m, p)'
         /\ Append(d, f) \in Seq(Files) /\ m \in 0 .. Len(Append(d, f)) /\ Injective(Append(d, f))
         /\ Elements(Append(d, f)) = Elements(d) \cup {f}
         /\ Len(Append(d, f)) = Len(d) + 1 /\ Append(d, f)[Len(d) + 1] = f
         /\ \A n \in 1 .. Len(d) : Append(d, f)[n] = d[n]
<1> DEFINE e == Append(d, f)
<1>1. d \in Seq(Files) /\ m \in 0 .. Len(d) /\ p \in [Threads -> Nat] /\ OnceOK(d) /\ DealtOK(d) /\ BehindOK(m, p)
  BY DEF DInv
<1>2. /\ e \in Seq(Files) /\ Len(e) = Len(d) + 1 /\ Len(d) \in Nat
      /\ \A n \in 1 .. Len(d) : e[n] = d[n]
      /\ e[Len(d) + 1] = f /\ Elements(e) = Elements(d) \cup {f}
  BY <1>1, ElementsAppend
<1>3. DOMAIN d = 1 .. Len(d) /\ DOMAIN e = 1 .. Len(d) + 1 /\ f \notin Elements(d)
  BY <1>1, <1>2, LenProperties DEF OnceOK
<1> HIDE DEF e
<1>4. Injective(e)
  <2>1. \A n \in 1 .. Len(d) + 1 : n \in 1 .. Len(d) \/ n = Len(d) + 1
    BY <1>2
  <2>2. \A n \in 1 .. Len(d) : d[n] # f
    BY <1>3 DEF Elements
  <2> QED
    BY <1>1, <1>2, <1>3, <2>1, <2>2 DEF OnceOK, Injective
<1>5. BehindOK(m, p)'
  BY <1>1 DEF BehindOK
<1>6. /\ Dealer \in Threads /\ nextRead' = Dealer /\ thread' = [thread EXCEPT ![f] = Dealer]
      /\ linked'[Dealer] = Append(linked[Dealer], f)
      /\ \A u \in Threads \ {Dealer} : linked'[u] = linked[u]
  BY DealtTo DEF OnlyAt, Same
<1>7. Dealer = Len(d) % N_R_THREADS
  BY <1>1 DEF DealtOK
<1>8. \A n \in 1 .. Len(e) : thread'[e[n]] = (n - 1) % N_R_THREADS
  <2> SUFFICES ASSUME NEW n \in 1 .. Len(d) + 1 PROVE thread'[e[n]] = (n - 1) % N_R_THREADS
    BY <1>2
  <2>1. thread \in [Files -> Threads]
    BY DEF TypeOK
  <2>2. CASE n = Len(d) + 1
    BY <1>2, <1>6, <1>7, <2>1, <2>2
  <2>3. CASE n \in 1 .. Len(d)
    <3>1. e[n] = d[n] /\ d[n] # f /\ d[n] \in Files
      BY <1>1, <1>2, <1>3, <2>3 DEF Elements
    <3>2. thread[d[n]] = (n - 1) % N_R_THREADS
      BY <1>1, <2>3 DEF DealtOK
    <3> QED
      BY <1>6, <2>1, <3>1, <3>2
  <2> QED
    BY <1>2, <2>2, <2>3
<1>9. Dealer' = Len(e) % N_R_THREADS
  <2>1. Dealer' = (nextRead' + 1) % N_R_THREADS
    BY DEF Dealer
  <2>2. CASE N_R_THREADS = 1
    BY <1>2, <1>6, <1>7, <2>1, <2>2
  <2>3. CASE N_R_THREADS = 2
    BY <1>2, <1>6, <1>7, <2>1, <2>3
  <2>4. CASE N_R_THREADS = 4
    BY <1>2, <1>6, <1>7, <2>1, <2>4
  <2> QED
    BY <2>2, <2>3, <2>4, OpenReadAssumption
<1>10. ASSUME NEW u \in Threads
       PROVE  /\ \A k \in 1 .. Len(linked'[u]) : At(u, k) <= Len(e) /\ linked'[u][k] = e[At(u, k)]
              /\ Len(e) < At(u, Len(linked'[u]) + 1)
  <2> DEFINE c == Len(linked[u])
  <2>1. c \in Nat /\ linked[u] \in Seq(Files)
    BY BehindBound DEF TypeOK
  <2>2. /\ \A k \in 1 .. c : At(u, k) <= Len(d) /\ linked[u][k] = d[At(u, k)]
        /\ Len(d) < At(u, c + 1)
    BY <1>1 DEF DealtOK
  <2> HIDE DEF c
  <2>3. \A k \in 1 .. c : At(u, k) \in 1 .. Len(d)
    <3> SUFFICES ASSUME NEW k \in 1 .. c PROVE At(u, k) \in 1 .. Len(d)
      OBVIOUS
    <3>1. k \in Nat /\ k > 0
      BY <2>1
    <3>2. At(u, k) \in Int /\ At(u, k) > 0
      BY <3>1, PlaceRange
    <3> QED
      BY <1>2, <2>2, <3>2
  <2>4. c > 0 => At(u, c) <= Len(d)
    BY <2>1, <2>2
  <2>5. IF u = Dealer THEN At(u, c + 1) = Len(d) + 1 ELSE Len(d) + 1 < At(u, c + 1)
    BY <1>2, <1>7, <2>1, <2>2, <2>4, NextPlace
  <2>6. \A k \in 1 .. c : At(u, k) <= Len(e) /\ linked[u][k] = e[At(u, k)]
    BY <1>2, <2>2, <2>3
  <2>7. CASE u # Dealer
    BY <1>2, <1>6, <2>5, <2>6, <2>7 DEF c
  <2>8. CASE u = Dealer
    <3>1. /\ Len(linked'[u]) = c + 1 /\ \A k \in 1 .. c : linked'[u][k] = linked[u][k]
          /\ linked'[u][c + 1] = f
      BY <1>6, <2>1, <2>8, ElementsAppend DEF c
    <3>2. \A k \in 1 .. c + 1 : k \in 1 .. c \/ k = c + 1
      BY <2>1
    <3>3. \A k \in 1 .. c + 1 : At(u, k) <= Len(e) /\ linked'[u][k] = e[At(u, k)]
      BY <1>2, <2>5, <2>6, <2>8, <3>1, <3>2
    <3>4. At(u, c + 1) < At(u, (c + 1) + 1) /\ At(u, (c + 1) + 1) \in Int
      <4>1. c + 1 \in Nat
        BY <2>1
      <4>2. At(u, c + 1) < At(u, (c + 1) + 1)
        BY <4>1, PlaceRange
      <4>3. (c + 1) + 1 \in Nat
        BY <2>1
      <4> QED
        BY <4>2, <4>3, PlaceRange
    <3> QED
      BY <1>2, <2>5, <2>8, <3>1, <3>3, <3>4
  <2> QED
    BY <2>7, <2>8
<1>11. DealtOK(e)'
  BY <1>8, <1>9, <1>10 DEF DealtOK
<1>12. m \in 0 .. Len(e)
  BY <1>1, <1>2
<1> QED
  BY <1>2, <1>4, <1>5, <1>11, <1>12 DEF e

LEMMA ElementsHead ==
  ASSUME NEW S, NEW s \in Seq(S), s # <<>>, Injective(s)
  PROVE  Injective(Tail(s)) /\ Head(s) \notin Elements(Tail(s)) /\ Elements(s) = {Head(s)} \cup Elements(Tail(s))
<1>1. /\ Head(s) \in S /\ Head(s) = s[1] /\ Tail(s) \in Seq(S) /\ Len(s) \in Nat \ {0}
      /\ Len(Tail(s)) = Len(s) - 1 /\ \A i \in 1 .. Len(s) - 1 : Tail(s)[i] = s[i + 1]
  BY HeadTailProperties, EmptySeq
<1>2. DOMAIN s = 1 .. Len(s) /\ DOMAIN Tail(s) = 1 .. Len(s) - 1
  BY <1>1, LenProperties
<1>3. \A i \in 1 .. Len(s) - 1 : i + 1 \in 1 .. Len(s) /\ i + 1 # 1
  BY <1>1
<1>4. 1 \in 1 .. Len(s)
  BY <1>1
<1>5. Injective(Tail(s))
  <2> SUFFICES ASSUME NEW i \in 1 .. Len(s) - 1, NEW j \in 1 .. Len(s) - 1, Tail(s)[i] = Tail(s)[j] PROVE i = j
    BY <1>2 DEF Injective
  <2>1. i + 1 = j + 1
    BY <1>1, <1>2, <1>3 DEF Injective
  <2> QED
    BY <2>1
<1>6. \A i \in 1 .. Len(s) - 1 : Tail(s)[i] # s[1]
  BY <1>1, <1>2, <1>3, <1>4 DEF Injective
<1>7. Head(s) \notin Elements(Tail(s))
  BY <1>1, <1>2, <1>6 DEF Elements
<1> QED
  BY <1>5, <1>7, ElementsTail

LEMMA FileDealt ==
  ASSUME TypeOK, NEW d, NEW m, NEW p, DInv(d, m, p), LinkFile, NEW f, f = Head(toLink)
  PROVE  f \in Files /\ f \in Coming /\ LinkToThread(f) /\ DInv(Append(d, f), m, p)'
<1> DEFINE e == Append(d, f)
<1>1. /\ toLink \in Seq(Files) /\ toLink # <<>> /\ mpc = "link" /\ LinkToThread(f) /\ toLink' = Tail(toLink)
      /\ UNCHANGED <<command, mpc, todo, defaults, libsDone, libHandles>>
  BY DEF LinkFile, LinkToThread, TypeOK
<1>2. f \in Files /\ f \in Elements(toLink) /\ Elements(toLink') \subseteq Elements(toLink)
  BY <1>1, ElementsTail
<1>3. f \in Coming
  BY <1>2 DEF Coming
<1>4. /\ DealtOK(e)' /\ BehindOK(m, p)'
      /\ e \in Seq(Files) /\ m \in 0 .. Len(e) /\ Injective(e)
      /\ Elements(e) = Elements(d) \cup {f}
      /\ Len(e) = Len(d) + 1 /\ e[Len(d) + 1] = f
      /\ \A n \in 1 .. Len(d) : e[n] = d[n]
  BY <1>1, <1>2, <1>3, DealKept
<1> HIDE DEF e
<1>5. OnceOK(e)'
  <2>1. Injective(toLink') /\ f \notin Elements(toLink')
    BY <1>1, ElementsHead DEF DInv, OnceOK
  <2>2. Coming' \subseteq Coming \ {f}
    BY <1>1, <1>2, <2>1 DEF DInv, OnceOK, Coming
  <2> QED
    BY <1>1, <1>2, <1>4, <2>1, <2>2 DEF DInv, OnceOK
<1>6. TodoOK(e, m)'
  <2>1. d \in Seq(Files) /\ Len(d) \in Nat /\ m \in 0 .. Len(d)
    BY DEF DInv
  <2>2. /\ Len(todo) = (Len(d) - m) + Len(toLink)
        /\ \A j \in 1 .. Len(d) - m : todo[j] = d[m + j]
        /\ \A j \in 1 .. Len(toLink) : todo[(Len(d) - m) + j] = toLink[j]
    BY <1>1 DEF DInv, TodoOK
  <2>3. /\ Len(toLink) \in Nat \ {0} /\ Len(toLink') = Len(toLink) - 1 /\ f = toLink[1]
        /\ \A i \in 1 .. Len(toLink) - 1 : toLink'[i] = toLink[i + 1]
    BY <1>1, HeadTailProperties, EmptySeq
  <2>4. Len(todo') = (Len(e) - m) + Len(toLink')
    BY <1>1, <1>4, <2>1, <2>2, <2>3
  <2>5. ASSUME NEW j \in 1 .. Len(e) - m PROVE todo'[j] = e[m + j]
    <3>1. CASE j \in 1 .. Len(d) - m
      <4>1. m + j \in 1 .. Len(d)
        BY <2>1, <3>1
      <4> QED
        BY <1>1, <1>4, <2>2, <3>1, <4>1
    <3>2. CASE j = (Len(d) - m) + 1
      <4>1. m + j = Len(d) + 1 /\ 1 \in 1 .. Len(toLink)
        BY <2>1, <2>3, <3>2
      <4> QED
        BY <1>1, <1>4, <2>2, <2>3, <3>2, <4>1
    <3> QED
      BY <1>4, <2>1, <3>1, <3>2
  <2>6. ASSUME NEW j \in 1 .. Len(toLink') PROVE todo'[(Len(e) - m) + j] = toLink'[j]
    <3>1. j \in 1 .. Len(toLink) - 1 /\ j + 1 \in 1 .. Len(toLink) /\ (Len(e) - m) + j = (Len(d) - m) + (j + 1)
      BY <1>4, <2>1, <2>3
    <3> QED
      BY <1>1, <2>2, <2>3, <3>1
  <2> QED
    BY <2>4, <2>5, <2>6 DEF TodoOK
<1>7. KindsOK'
  BY <1>1 DEF DInv, KindsOK
<1> QED
  BY <1>1, <1>2, <1>3, <1>4, <1>5, <1>6, <1>7 DEF DInv, e

LEMMA DefaultDealt ==
  ASSUME TypeOK, MainOK, NEW d, NEW m, NEW p, DInv(d, m, p), LinkDefault, NEW f, f = Head(defaults)
  PROVE  f \in Files /\ f \in Coming /\ LinkToThread(f) /\ DInv(Append(d, f), m, p)'
<1> DEFINE e == Append(d, f)
<1>1. /\ defaults \in Seq(Files) /\ defaults # <<>> /\ ~libsDone /\ LinkToThread(f) /\ defaults' = Tail(defaults)
      /\ mpc \in {"parse", "next"} /\ UNCHANGED <<command, mpc, toLink, libsDone, libHandles>>
      /\ todo \in Seq(Files) /\ todo' = Append(todo, f)
  BY DEF LinkDefault, LinkToThread, TypeOK
<1>2. f \in Files /\ f \in Elements(defaults) /\ Elements(defaults') \subseteq Elements(defaults)
  BY <1>1, ElementsTail
<1>3. f \in Coming /\ toLink = <<>> /\ Len(toLink) = 0
  BY <1>1, <1>2, EmptySeq DEF Coming, MainOK
<1>4. /\ DealtOK(e)' /\ BehindOK(m, p)'
      /\ e \in Seq(Files) /\ m \in 0 .. Len(e) /\ Injective(e)
      /\ Elements(e) = Elements(d) \cup {f}
      /\ Len(e) = Len(d) + 1 /\ e[Len(d) + 1] = f
      /\ \A n \in 1 .. Len(d) : e[n] = d[n]
  BY <1>1, <1>2, <1>3, DealKept
<1> HIDE DEF e
<1>5. OnceOK(e)'
  <2>1. Injective(defaults') /\ f \notin Elements(defaults')
    BY <1>1, ElementsHead DEF DInv, OnceOK
  <2>2. Coming' \subseteq Coming \ {f}
    BY <1>1, <1>2, <2>1 DEF DInv, OnceOK, Coming
  <2> QED
    BY <1>1, <1>2, <1>4, <2>1, <2>2 DEF DInv, OnceOK
<1>6. TodoOK(e, m)'
  <2>1. d \in Seq(Files) /\ Len(d) \in Nat /\ m \in 0 .. Len(d)
    BY DEF DInv
  <2>2. /\ Len(todo) = Len(d) - m
        /\ \A j \in 1 .. Len(d) - m : todo[j] = d[m + j]
    BY <1>1, <1>3, <2>1 DEF DInv, TodoOK
  <2>3. /\ Len(todo') = Len(todo) + 1 /\ todo'[Len(todo) + 1] = f
        /\ \A i \in 1 .. Len(todo) : todo'[i] = todo[i]
    BY <1>1, <1>2, ElementsAppend
  <2>4. Len(todo') = (Len(e) - m) + Len(toLink')
    BY <1>1, <1>3, <1>4, <2>1, <2>2, <2>3
  <2>5. ASSUME NEW j \in 1 .. Len(e) - m PROVE todo'[j] = e[m + j]
    <3>1. CASE j \in 1 .. Len(d) - m
      <4>1. m + j \in 1 .. Len(d)
        BY <2>1, <3>1
      <4> QED
        BY <1>4, <2>2, <2>3, <3>1, <4>1
    <3>2. CASE j = (Len(d) - m) + 1
      <4>1. m + j = Len(d) + 1
        BY <2>1, <3>2
      <4> QED
        BY <1>4, <2>2, <2>3, <3>2, <4>1
    <3> QED
      BY <1>4, <2>1, <3>1, <3>2
  <2>6. 1 .. Len(toLink') = {}
    BY <1>1, <1>3
  <2> QED
    BY <2>4, <2>5, <2>6 DEF TodoOK
<1>7. KindsOK'
  <2>1. Elements(todo') = Elements(todo) \cup {f}
    BY <1>1, <1>2, ElementsAppend
  <2> QED
    BY <1>1, <1>2, <2>1 DEF DInv, KindsOK
<1> QED
  BY <1>1, <1>2, <1>3, <1>4, <1>5, <1>6, <1>7 DEF DInv, e

(* The libraries are done, the tail comes.                                 *)
LEMMA TailDealt ==
  ASSUME TypeOK, MainOK, NEW d, NEW m, NEW p, DInv(d, m, p), LibrariesDone
  PROVE  DInv(d, m, p)'
<1>1. /\ mpc = "next" /\ todo = <<>> /\ ~libsDone /\ libsDone' /\ libHandles' = {} /\ toLink' = Tails /\ todo' = Tails
      /\ UNCHANGED <<command, linked, defaults, thread, nextRead>> /\ toLink = <<>>
  BY DEF LibrariesDone, MainOK
<1>2. command \in CommandRecord /\ command \in Commands
  BY OpenReadAssumption DEF TypeOK
<1>3. command.tail \in Seq(Files) /\ <<>> \in Seq(Files) /\ Len(<<>>) = 0 /\ DOMAIN <<>> = {} /\ Elements(<<>>) = {}
  BY <1>2, EmptySeq DEF CommandRecord, Elements
<1>4. d \in Seq(Files) /\ Len(d) \in Nat /\ m \in 0 .. Len(d) /\ Len(d) = m
  BY <1>1, <1>3 DEF DInv, TodoOK
<1>5. /\ Tails \in Seq(Files) /\ Injective(Tails) /\ Elements(Tails) \subseteq Elements(command.tail)
      /\ Tails = <<>> \/ Tails = command.tail
  BY <1>1, <1>3 DEF DInv, OnceOK, Injective, Tails
<1>6. OnceOK(d)'
  BY <1>1, <1>5 DEF DInv, OnceOK, Coming
<1>7. DealtOK(d)' /\ BehindOK(m, p)'
  BY <1>1 DEF DInv, DealtOK, BehindOK, Dealer
<1>8. TodoOK(d, m)'
  <2>1. Len(d) - m = 0 /\ Len(Tails) \in Nat
    BY <1>4, <1>5
  <2>2. Len(todo') = (Len(d) - m) + Len(toLink') /\ 1 .. Len(d) - m = {}
    BY <1>1, <2>1
  <2>3. \A j \in 1 .. Len(toLink') : (Len(d) - m) + j = j
    BY <2>1
  <2> QED
    BY <1>1, <2>2, <2>3 DEF TodoOK
<1>9. KindsOK'
  <2>1. \A f \in Elements(command.tail) : Disk[f].kind \in {"OLD", "STUB", "RES"}
    BY <1>2, OpenReadAssumption
  <2>2. TailsTaken => \A i \in DOMAIN command.tail :
           /\ Disk[command.tail[i]].wanted => Disk[command.tail[i]].nonres = 0
           /\ i < Len(command.tail) => ReadToEnd(command.tail[i])
    BY <1>2 DEF TailsTaken
  <2>3. \A a \in DOMAIN Tails : TailFile(Tails[a]) /\ (TailsTaken /\ a < Len(Tails) => ReadToEnd(Tails[a]))
    <3>1. CASE Tails = <<>>
      BY <1>3, <3>1
    <3>2. CASE Tails = command.tail
      BY <2>1, <2>2, <3>2 DEF TailFile, Elements
    <3> QED
      BY <1>5, <3>1, <3>2
  <2> QED
    BY <1>1, <2>3 DEF KindsOK
<1> QED
  BY <1>4, <1>6, <1>7, <1>8, <1>9 DEF DInv

-----------------------------------------------------------------------------
(* The OPEN_STRUCTs.  Main still waits for files that the threads open for *)
(* it, and gives their structures back: not for the tail in general.       *)
Active == ~libsDone \/ (TailsTaken /\ todo # <<>>)

MainAt(t) == Using /\ T = t

SlotOf(k) == (3 + k) % 4               \* the structure of a thread's kth file

(* Structures that thread t has captured, files it has told main of, files *)
(* of t that main has taken up.                                            *)
Captured(t)   == IF pc[t] = "getname" THEN lastOpened[t] + 1 ELSE lastOpened[t]
Announced(t)  == IF pc[t] \in {"open", "opened"} THEN lastOpened[t] - 1 ELSE lastOpened[t]
Claimed(t, p) == IF MainAt(t) THEN p[t] + 1 ELSE p[t]

Opened(t, k) == k < lastOpened[t] \/ pc[t] # "open"

SlotsOK(t) ==
  ~opreadsDone =>
    /\ nextOpenStruc[t] = SlotOf(Captured(t))
    /\ \A k \in 1 .. lastOpened[t] :
         k + 4 > Captured(t) /\ Opened(t, k) =>
           /\ openStruc[t][SlotOf(k)].file = linked[t][k]
           /\ openStruc[t][SlotOf(k)].flags = Disk[linked[t][k]].found
    /\ pc[t] \in InFile => Disk[ThreadFile(t)].found

ClaimsOK(t, p) ==
  /\ ~libsDone => sem[t].avail + Captured(t) = 4 + p[t]
  /\ Active => /\ sem[t].avail + Captured(t) <= 4 + p[t]
               /\ nextOpenFile[t] = SlotOf(Claimed(t, p))
               /\ sem[t].open + Claimed(t, p) = Announced(t)

MainFileOK == Using /\ Active => Disk[Cur].found /\ Disk[Cur].wanted

SInv(p) == mpc # "exited" => MainFileOK /\ \A t \in Threads : SlotsOK(t) /\ ClaimsOK(t, p)

LEMMA RingApart ==
  ASSUME NEW a \in Nat, NEW b \in Nat, a < b, b < a + 4
  PROVE  SlotOf(a) # SlotOf(b)
BY DEF SlotOf

LEMMA SlotRange == ASSUME NEW a \in Nat PROVE SlotOf(a) \in Ring /\ Follow(SlotOf(a)) = SlotOf(a + 1)
BY DEF SlotOf, Ring, Follow

LEMMA SlotType ==
  ASSUME TypeOK, NEW t \in Threads, NEW i \in Ring
  PROVE  openStruc[t][i] \in [file : Files \union {NoFile}, flags : BOOLEAN, handle : Files \union {NoFile}]
BY DEF TypeOK

(* What a step of the thread does to its structures.                       *)
LEMMA SlotSteps ==
  ASSUME TypeOK, NEW t \in Threads, ThreadOK(t), ThreadSteps(t), ~opreadsDone
  PROVE  /\ pc[t] = "getstruc" =>
              /\ pc'[t] = "getname" /\ lastOpened'[t] = lastOpened[t] /\ nextOpenStruc'[t] = Follow(nextOpenStruc[t])
              /\ sem[t].avail > 0 /\ sem'[t].avail = sem[t].avail - 1 /\ sem'[t].open = sem[t].open
              /\ \A i \in Ring \ {nextOpenStruc'[t]} : openStruc'[t][i] = openStruc[t][i]
              /\ \A i \in Ring : openStruc'[t][i].handle = openStruc[t][i].handle
         /\ pc[t] # "getstruc" => nextOpenStruc'[t] = nextOpenStruc[t] /\ sem'[t].avail = sem[t].avail
         /\ pc[t] = "getname" =>
              /\ pc'[t] = "open" /\ lastOpened'[t] = lastOpened[t] + 1
              /\ sem'[t].open = sem[t].open /\ openStruc'[t] = openStruc[t]
         /\ pc[t] # "getname" => lastOpened'[t] = lastOpened[t]
         /\ pc[t] = "open" =>
              /\ pc'[t] = "opened" /\ sem'[t].open = sem[t].open
              /\ \A i \in Ring \ {nextOpenStruc[t]} : openStruc'[t][i] = openStruc[t][i]
              /\ openStruc'[t][nextOpenStruc[t]].file = ThreadFile(t)
              /\ openStruc'[t][nextOpenStruc[t]].flags = Disk[ThreadFile(t)].found
              /\ openStruc'[t][nextOpenStruc[t]].handle = IF Disk[ThreadFile(t)].found THEN ThreadFile(t) ELSE NoFile
         /\ pc[t] = "opened" =>
              /\ pc'[t] \in {"getstruc", "header", "oldlength", "getbuffer"}
              /\ pc'[t] # "getstruc" <=> Slot(t).flags
              /\ sem'[t].open = sem[t].open + 1 /\ openStruc'[t] = openStruc[t]
         /\ pc[t] \in InFile \ {"close"} =>
              /\ pc'[t] \in InFile \cup {"getstruc"} /\ sem'[t].open = sem[t].open /\ openStruc'[t] = openStruc[t]
         /\ pc[t] = "close" =>
              /\ pc'[t] = "getstruc" /\ sem'[t].open = sem[t].open
              /\ \A i \in Ring \ {nextOpenStruc[t]} : openStruc'[t][i] = openStruc[t][i]
              /\ openStruc'[t][nextOpenStruc[t]] = Emptied(openStruc[t][nextOpenStruc[t]])
         /\ pc[t] \in {"getstruc", "getname", "open", "opened"} \cup InFile
<1>1. /\ sem \in [Threads -> [SemNames -> Nat]]
      /\ DOMAIN pc = Threads /\ DOMAIN lastOpened = Threads /\ DOMAIN nextOpenStruc = Threads
      /\ DOMAIN openStruc = Threads /\ DOMAIN openStruc[t] = Ring
      /\ nextOpenStruc[t] \in Ring /\ Follow(nextOpenStruc[t]) \in Ring
  BY NextInRing DEF TypeOK
<1>2. openStruc[t][Follow(nextOpenStruc[t])] \in [file : Files \union {NoFile}, flags : BOOLEAN, handle : Files \union {NoFile}]
  BY <1>1, SlotType
<1> USE DEF Goto, GotoUnlessDone, Take, Post, SemNames, InFile
<1>3. CASE GetNextOpenStruc(t)
  BY <1>1, <1>2, <1>3 DEF GetNextOpenStruc
<1>4. CASE GetNextFileName(t)
  BY <1>1, <1>4 DEF GetNextFileName
<1>5. CASE OpenFile(t)
  <2>1. pc[t] = "open" /\ ThreadFile(t) \in Files
    BY <1>5, InFiles DEF OpenFile, AtFile
  <2>2. Disk[ThreadFile(t)].found \in BOOLEAN
    BY <2>1, FileSizes
  <2>3. (Disk[ThreadFile(t)].found /\ ~opreadsDone) = Disk[ThreadFile(t)].found
    BY <2>2, Zenon
  <2>4. openStruc' = [openStruc EXCEPT ![t][nextOpenStruc[t]] =
                  [file |-> ThreadFile(t), flags |-> Disk[ThreadFile(t)].found,
                   handle |-> IF Disk[ThreadFile(t)].found THEN ThreadFile(t) ELSE NoFile]]
    BY <1>5, <2>3 DEF OpenFile
  <2>5. sem' = sem /\ nextOpenStruc' = nextOpenStruc /\ lastOpened' = lastOpened /\ pc'[t] = "opened"
    BY <1>1, <1>5 DEF OpenFile
  <2> QED
    BY <1>1, <2>1, <2>4, <2>5
<1>6. CASE SignalOpened(t)
  BY <1>1, <1>6 DEF SignalOpened
<1>7. CASE ReadHeader(t) \/ ReadOldLength(t) \/ GetNextBuffer(t) \/ ReadBlock(t) \/ SignalFull(t)
  BY <1>1, <1>7 DEF ReadHeader, ReadOldLength, GetNextBuffer, ReadBlock, SignalFull
<1>8. CASE CloseFile(t)
  BY <1>1, <1>8 DEF CloseFile
<1>9. CASE Abort(t)
  BY <1>9 DEF Abort, ThreadOK
<1> QED
  BY <1>3, <1>4, <1>5, <1>6, <1>7, <1>8, <1>9 DEF ThreadSteps

LEMMA ThreadSlots ==
  ASSUME TypeOK, NEW t \in Threads, ThreadOK(t), ThreadSteps(t), ~opreadsDone, SlotsOK(t)
  PROVE  SlotsOK(t)'
<1>1. linked' = linked /\ ~opreadsDone'
  BY ThreadFrame DEF SameMain
<1>2. /\ lastOpened[t] \in Nat /\ nextOpenStruc[t] \in Ring /\ nextOpenStruc[t] = SlotOf(Captured(t))
      /\ \A k \in 1 .. lastOpened[t] : k + 4 > Captured(t) /\ Opened(t, k) =>
           /\ openStruc[t][SlotOf(k)].file = linked[t][k]
           /\ openStruc[t][SlotOf(k)].flags = Disk[linked[t][k]].found
      /\ pc[t] \in InFile => Disk[ThreadFile(t)].found
  BY DEF TypeOK, SlotsOK
<1>3. \A k \in 1 .. lastOpened[t] : SlotOf(k) \in Ring
  BY <1>2, SlotRange
<1>4. CASE pc[t] = "getstruc"
  <2>1. /\ pc'[t] = "getname" /\ lastOpened'[t] = lastOpened[t] /\ nextOpenStruc'[t] = SlotOf(lastOpened[t] + 1)
        /\ \A i \in Ring \ {nextOpenStruc'[t]} : openStruc'[t][i] = openStruc[t][i]
    BY <1>2, <1>4, SlotSteps, SlotRange DEF Captured
  <2>2. \A k \in 1 .. lastOpened[t] : k + 4 > lastOpened[t] + 1 => SlotOf(k) # SlotOf(lastOpened[t] + 1)
    BY <1>2, RingApart
  <2>3. \A k \in 1 .. lastOpened[t] : k + 4 > lastOpened[t] + 1 => openStruc'[t][SlotOf(k)] = openStruc[t][SlotOf(k)]
    BY <1>3, <2>1, <2>2
  <2> QED
    BY <1>1, <1>2, <1>4, <2>1, <2>3 DEF SlotsOK, Captured, Opened, InFile
<1>5. CASE pc[t] = "getname"
  <2>1. /\ pc'[t] = "open" /\ lastOpened'[t] = lastOpened[t] + 1 /\ openStruc'[t] = openStruc[t]
        /\ nextOpenStruc'[t] = nextOpenStruc[t]
    BY <1>5, SlotSteps
  <2>2. \A k \in 1 .. lastOpened[t] + 1 : k < lastOpened[t] + 1 => k \in 1 .. lastOpened[t]
    BY <1>2
  <2> QED
    BY <1>1, <1>2, <1>5, <2>1, <2>2 DEF SlotsOK, Captured, Opened, InFile
<1>6. CASE pc[t] = "open"
  <2>1. /\ pc'[t] = "opened" /\ lastOpened'[t] = lastOpened[t] /\ nextOpenStruc'[t] = nextOpenStruc[t]
        /\ nextOpenStruc[t] = SlotOf(lastOpened[t])
        /\ \A i \in Ring \ {nextOpenStruc[t]} : openStruc'[t][i] = openStruc[t][i]
        /\ openStruc'[t][nextOpenStruc[t]].file = ThreadFile(t)
        /\ openStruc'[t][nextOpenStruc[t]].flags = Disk[ThreadFile(t)].found
    BY <1>2, <1>6, SlotSteps DEF Captured
  <2>2. \A k \in 1 .. lastOpened[t] : k < lastOpened[t] /\ k + 4 > lastOpened[t] => SlotOf(k) # SlotOf(lastOpened[t])
    BY <1>2, RingApart
  <2>3. ASSUME NEW k \in 1 .. lastOpened[t], k + 4 > lastOpened[t]
        PROVE  /\ openStruc'[t][SlotOf(k)].file = linked[t][k]
               /\ openStruc'[t][SlotOf(k)].flags = Disk[linked[t][k]].found
    <3>1. CASE k = lastOpened[t]
      BY <2>1, <3>1 DEF ThreadFile
    <3>2. CASE k < lastOpened[t]
      <4>1. openStruc'[t][SlotOf(k)] = openStruc[t][SlotOf(k)]
        BY <1>3, <2>1, <2>2, <2>3, <3>2
      <4> QED
        BY <1>2, <1>6, <2>3, <3>2, <4>1 DEF Captured, Opened
    <3> QED
      BY <1>2, <3>1, <3>2
  <2> QED
    BY <1>1, <1>6, <2>1, <2>3 DEF SlotsOK, Captured, InFile
<1>7. CASE pc[t] = "opened"
  <2>1. /\ pc'[t] \in {"getstruc", "header", "oldlength", "getbuffer"}
        /\ pc'[t] # "getstruc" => Slot(t).flags
        /\ lastOpened'[t] = lastOpened[t] /\ nextOpenStruc'[t] = nextOpenStruc[t] /\ openStruc'[t] = openStruc[t]
    BY <1>7, SlotSteps
  <2>2. Slot(t).flags => Disk[ThreadFile(t)].found
    <3>1. lastOpened[t] \in 1 .. lastOpened[t] /\ lastOpened[t] + 4 > Captured(t) /\ Opened(t, lastOpened[t])
          /\ nextOpenStruc[t] = SlotOf(lastOpened[t])
      BY <1>2, <1>7 DEF ThreadOK, AtFile, Captured, Opened
    <3>2. openStruc[t][SlotOf(lastOpened[t])].flags = Disk[linked[t][lastOpened[t]]].found
      BY <1>2, <3>1
    <3>3. Slot(t).flags = Disk[ThreadFile(t)].found
      BY <3>1, <3>2 DEF Slot, ThreadFile
    <3> QED
      BY <3>3
  <2>3. ThreadFile(t)' = ThreadFile(t)
    BY <1>1, <2>1 DEF ThreadFile
  <2> QED
    BY <1>1, <1>2, <1>7, <2>1, <2>2, <2>3 DEF SlotsOK, Captured, Opened, InFile
<1>8. CASE pc[t] \in InFile
  <2>1. /\ pc'[t] \in InFile \cup {"getstruc"}
        /\ lastOpened'[t] = lastOpened[t] /\ nextOpenStruc'[t] = nextOpenStruc[t]
        /\ \A i \in Ring : openStruc'[t][i].file = openStruc[t][i].file /\ openStruc'[t][i].flags = openStruc[t][i].flags
    <3>1. CASE pc[t] # "close"
      BY <1>8, <3>1, SlotSteps DEF InFile
    <3>2. CASE pc[t] = "close"
      <4>1. /\ pc'[t] = "getstruc" /\ lastOpened'[t] = lastOpened[t] /\ nextOpenStruc'[t] = nextOpenStruc[t]
            /\ \A i \in Ring \ {nextOpenStruc[t]} : openStruc'[t][i] = openStruc[t][i]
            /\ openStruc'[t][nextOpenStruc[t]] = Emptied(openStruc[t][nextOpenStruc[t]])
        BY <3>2, SlotSteps
      <4>2. LET s == openStruc[t][nextOpenStruc[t]]
            IN  Emptied(s).file = s.file /\ Emptied(s).flags = s.flags
        BY <1>2, SlotType DEF Emptied
      <4> QED
        BY <4>1, <4>2
    <3> QED
      BY <3>1, <3>2
  <2>2. ThreadFile(t)' = ThreadFile(t)
    BY <1>1, <2>1 DEF ThreadFile
  <2> QED
    BY <1>1, <1>2, <1>3, <1>8, <2>1, <2>2 DEF SlotsOK, Captured, Opened, InFile
<1> QED
  BY <1>4, <1>5, <1>6, <1>7, <1>8, SlotSteps

LEMMA ThreadClaims ==
  ASSUME TypeOK, NEW t \in Threads, ThreadOK(t), ThreadSteps(t), ~opreadsDone,
         NEW p \in [Threads -> Nat], ClaimsOK(t, p)
  PROVE  ClaimsOK(t, p)'
<1>1. /\ Active' <=> Active
      /\ Claimed(t, p)' = Claimed(t, p) /\ nextOpenFile' = nextOpenFile /\ libsDone' = libsDone
  BY ThreadFrame DEF SameMain, Active, Claimed, MainAt, Using, T, Cur
<1>2. lastOpened[t] \in Nat /\ sem[t].avail \in Nat /\ sem[t].open \in Nat /\ p[t] \in Nat /\ Claimed(t, p) \in Nat
  BY UnitTypes DEF Claimed
<1>3. pc[t] \in AtFile => lastOpened[t] > 0
  BY <1>2 DEF ThreadOK
<1>4. sem'[t].avail + Captured(t)' = sem[t].avail + Captured(t)
  <2>1. CASE pc[t] = "getstruc"
    BY <1>2, <2>1, SlotSteps DEF Captured
  <2>2. CASE pc[t] = "getname"
    BY <1>2, <2>2, SlotSteps DEF Captured
  <2>3. CASE pc[t] \in {"open", "opened"} \cup InFile
    <3>1. pc'[t] # "getname" /\ lastOpened'[t] = lastOpened[t] /\ sem'[t].avail = sem[t].avail
      BY <2>3, SlotSteps DEF InFile
    <3> QED
      BY <2>3, <3>1 DEF Captured, InFile
  <2> QED
    BY <2>1, <2>2, <2>3, SlotSteps
<1>5. sem'[t].open - Announced(t)' = sem[t].open - Announced(t)
  <2>1. CASE pc[t] = "getstruc"
    BY <1>2, <2>1, SlotSteps DEF Announced
  <2>2. CASE pc[t] = "getname"
    BY <1>2, <2>2, SlotSteps DEF Announced
  <2>3. CASE pc[t] = "open"
    BY <1>2, <2>3, SlotSteps DEF Announced
  <2>4. CASE pc[t] = "opened"
    BY <1>2, <2>4, SlotSteps DEF Announced
  <2>5. CASE pc[t] \in InFile
    <3>1. pc'[t] \in InFile \cup {"getstruc"} /\ lastOpened'[t] = lastOpened[t] /\ sem'[t].open = sem[t].open
      BY <2>5, SlotSteps DEF InFile
    <3> QED
      BY <2>5, <3>1 DEF Announced, InFile
  <2> QED
    BY <2>1, <2>2, <2>3, <2>4, <2>5, SlotSteps
<1>6. sem'[t].open \in Nat /\ Announced(t) \in Int /\ Announced(t)' \in Int
  <2>1. TypeOK'
    BY ThreadTypes
  <2>2. sem' \in [Threads -> [SemNames -> Nat]] /\ lastOpened' \in [Threads -> Nat]
    BY <2>1 DEF TypeOK
  <2> QED
    BY <1>2, <2>2 DEF Announced, SemNames
<1>7. ~libsDone' => sem'[t].avail + Captured(t)' = 4 + p[t]
  BY <1>1, <1>4 DEF ClaimsOK
<1>8. ASSUME Active'
      PROVE  /\ sem'[t].avail + Captured(t)' <= 4 + p[t]
             /\ nextOpenFile'[t] = SlotOf(Claimed(t, p)')
             /\ sem'[t].open + Claimed(t, p)' = Announced(t)'
  <2>1. /\ sem[t].avail + Captured(t) <= 4 + p[t]
        /\ nextOpenFile[t] = SlotOf(Claimed(t, p))
        /\ sem[t].open + Claimed(t, p) = Announced(t)
    BY <1>1, <1>8 DEF ClaimsOK
  <2>2. sem'[t].open + Claimed(t, p) = Announced(t)'
    BY <1>2, <1>5, <1>6, <2>1
  <2> QED
    BY <1>1, <1>4, <2>1, <2>2
<1> QED
  BY <1>7, <1>8 DEF ClaimsOK

LEMMA ThreadSInv ==
  ASSUME BInv, NEW p \in [Threads -> Nat], SInv(p), NEW t \in Threads, OpRead(t)
  PROVE  SInv(p)'
<1>1. mpc # "exited" /\ TypeOK /\ MainOK /\ ThreadOK(t) /\ MainFileOK /\ \A u \in Threads : SlotsOK(u) /\ ClaimsOK(u, p)
  BY DEF OpRead, BInv, SInv
<1>2. CASE ReadFails(t)
  BY <1>2 DEF ReadFails, SInv
<1>3. CASE ThreadSteps(t)
  <2>1. SameMain /\ OnlyAt(t)
    BY <1>1, <1>3, ThreadFrame
  <2>2. MainFileOK'
    BY <1>1, <2>1 DEF SameMain, MainFileOK, Using, Active, Cur
  <2>3. ASSUME NEW u \in Threads \ {t} PROVE SlotsOK(u)' /\ ClaimsOK(u, p)'
    <3>1. Same(u)
      BY <2>1 DEF OnlyAt
    <3>2. SlotsOK(u)'
      BY <1>1, <2>1, <3>1 DEF SameMain, Same, SlotsOK, Captured, Opened, ThreadFile
    <3>3. Claimed(u, p)' = Claimed(u, p) /\ (Active' <=> Active) /\ Captured(u)' = Captured(u) /\ Announced(u)' = Announced(u)
      BY <2>1, <3>1 DEF SameMain, Same, Claimed, MainAt, Using, T, Cur, Active, Captured, Announced
    <3>4. ClaimsOK(u, p)'
      BY <1>1, <2>1, <3>1, <3>3 DEF SameMain, Same, ClaimsOK
    <3> QED
      BY <3>2, <3>4
  <2>4. CASE ~opreadsDone
    BY <1>1, <1>3, <2>2, <2>3, <2>4, ThreadSlots, ThreadClaims DEF SInv
  <2>5. CASE opreadsDone
    <3>1. opreadsDone' /\ libsDone' /\ ~Active'
      BY <1>1, <2>1, <2>5 DEF SameMain, MainOK, Active
    <3>2. SlotsOK(t)' /\ ClaimsOK(t, p)'
      BY <3>1 DEF SlotsOK, ClaimsOK
    <3> QED
      BY <2>2, <2>3, <3>2 DEF SInv
  <2> QED
    BY <2>4, <2>5
<1> QED
  BY <1>2, <1>3 DEF OpRead, ThreadSteps

(* A file that the thread has told main of is in its structure still.      *)
LEMMA OpenedSlot ==
  ASSUME TypeOK, NEW t \in Threads, ThreadOK(t), SlotsOK(t), ~opreadsDone,
         NEW p \in [Threads -> Nat], ClaimsOK(t, p), Active,
         NEW k \in Nat, k > p[t], k <= Announced(t)
  PROVE  /\ k \in 1 .. lastOpened[t] /\ Opened(t, k) /\ k + 4 > Captured(t)
         /\ openStruc[t][SlotOf(k)].file = linked[t][k]
         /\ openStruc[t][SlotOf(k)].flags = Disk[linked[t][k]].found
<1>1. lastOpened[t] \in Nat /\ sem[t].avail \in Nat /\ p[t] \in Nat /\ Captured(t) \in Nat
  BY UnitTypes DEF Captured
<1>2. sem[t].avail + Captured(t) <= 4 + p[t]
  BY DEF ClaimsOK
<1>3. k \in 1 .. lastOpened[t] /\ Opened(t, k)
  BY <1>1 DEF Announced, Opened
<1>4. k + 4 > Captured(t)
  BY <1>1, <1>2
<1> QED
  BY <1>3, <1>4 DEF SlotsOK

LEMMA SlotsUnmoved ==
  ASSUME NEW u \in Threads, SlotsOK(u), TypeOK, ThreadOK(u), Unmoved(u),
         opreadsDone' = opreadsDone \/ opreadsDone' = TRUE,
         \A i \in Ring : openStruc'[u][i].file = openStruc[u][i].file /\ openStruc'[u][i].flags = openStruc[u][i].flags
  PROVE  SlotsOK(u)'
<1>1. \A k \in 1 .. lastOpened[u] : SlotOf(k) \in Ring
  BY SlotRange DEF TypeOK
<1> QED
  BY <1>1 DEF SlotsOK, Unmoved, Captured, Opened, ThreadFile

(* Naming and dealing a library does not disturb the current file.         *)
LEMMA FrontStays ==
  ASSUME TypeOK, MainOK, NEW d, NEW m, NEW p, DInv(d, m, p), LinkDefault, todo # <<>>
  PROVE  Cur' = Cur /\ T' = T
<1> DEFINE f == Head(defaults)
<1>1. /\ defaults \in Seq(Files) /\ defaults # <<>> /\ ~libsDone /\ LinkToThread(f)
      /\ mpc \in {"parse", "next"} /\ todo \in Seq(Files) /\ todo' = Append(todo, f)
  BY DEF LinkDefault, TypeOK
<1>2. f \in Files /\ f \in Elements(defaults) /\ toLink = <<>>
  BY <1>1, ElementsTail DEF MainOK
<1>3. Cur' = Cur
  <2>1. /\ todo' \in Seq(Files) /\ todo' # <<>> /\ todo'[1] = todo[1]
    BY <1>1, <1>2, CurFile, ElementsAppend
  <2>2. Head(todo') = todo'[1] /\ Head(todo) = todo[1]
    BY <1>1, <2>1, HeadTailProperties
  <2> QED
    BY <2>1, <2>2 DEF Cur
<1>4. Cur # f
  <2>1. m < Len(d) /\ m + 1 \in 1 .. Len(d) /\ Cur = d[m + 1]
    <3>1. m < Len(d)
      BY <1>1, <1>2, CurrentFile
    <3>2. m \in 0 .. Len(d) /\ d \in Seq(Files) /\ Len(d) \in Nat
      BY DEF DInv
    <3>3. 1 \in 1 .. Len(d) - m
      BY <3>1, <3>2
    <3>4. todo[1] = d[m + 1]
      BY <1>1, <3>3 DEF DInv, TodoOK
    <3> QED
      BY <3>1, <3>2, <3>4, CurFile
  <2>2. DOMAIN d = 1 .. Len(d)
    BY LenProperties DEF DInv
  <2>3. Cur \in Elements(d) /\ f \in Coming
    BY <1>1, <1>2, <2>1, <2>2 DEF Elements, Coming
  <2> QED
    BY <1>1, <2>3 DEF DInv, OnceOK
<1>5. thread' = [thread EXCEPT ![f] = Dealer] /\ thread \in [Files -> Threads] /\ Cur \in Files
  BY <1>1, <1>2, DealtTo, CurFile DEF TypeOK
<1> QED
  BY <1>3, <1>4, <1>5 DEF T

LEMMA ClaimsUnmoved ==
  ASSUME NEW u \in Threads, NEW p, ClaimsOK(u, p), pc'[u] = pc[u] \/ (pc[u] = "unborn" /\ pc'[u] = "getstruc"),
         lastOpened'[u] = lastOpened[u], sem'[u].avail = sem[u].avail, sem'[u].open = sem[u].open,
         nextOpenFile'[u] = nextOpenFile[u], Claimed(u, p)' = Claimed(u, p),
         libsDone' = libsDone, Active' => Active
  PROVE  ClaimsOK(u, p)'
<1>1. Captured(u)' = Captured(u) /\ Announced(u)' = Announced(u)
  BY DEF Captured, Announced
<1> QED
  BY <1>1 DEF ClaimsOK

LEMMA DealSInv ==
  ASSUME BInv, NEW d, NEW m, NEW p, DInv(d, m, p), SInv(p), LinkFile \/ LinkDefault
  PROVE  SInv(p)'
<1>1. mpc # "exited" /\ TypeOK /\ MainOK /\ MainFileOK /\ \A u \in Threads : ThreadOK(u) /\ SlotsOK(u) /\ ClaimsOK(u, p)
  BY DEF LinkFile, LinkDefault, BInv, SInv
<1>2. PICK f \in Files : LinkToThread(f)
  <2>1. CASE LinkFile
    BY <1>1, <2>1, FileDealt
  <2>2. CASE LinkDefault
    BY <1>1, <2>2, DefaultDealt
  <2> QED
    BY <2>1, <2>2
<1>3. Using => Cur' = Cur /\ T' = T
  BY <1>1, FrontStays DEF LinkFile, MainOK, Using
<1>4. mpc' = mpc /\ libsDone' = libsDone /\ (Active' <=> Active)
  <2>1. CASE LinkFile
    BY <2>1 DEF LinkFile, LinkToThread, Active
  <2>2. CASE LinkDefault
    BY <2>2 DEF LinkDefault, LinkToThread, Active
  <2> QED
    BY <2>1, <2>2
<1>5. MainFileOK'
  BY <1>1, <1>3, <1>4 DEF MainFileOK, Using
<1>6. \A u \in Threads : Claimed(u, p)' = Claimed(u, p)
  BY <1>3, <1>4 DEF Claimed, MainAt, Using
<1>7. ASSUME NEW u \in Threads
      PROVE  /\ lastOpened' = lastOpened /\ nextOpenStruc' = nextOpenStruc /\ openStruc' = openStruc
             /\ nextOpenFile' = nextOpenFile /\ opreadsDone' = opreadsDone
             /\ sem'[u].avail = sem[u].avail /\ sem'[u].open = sem[u].open
             /\ pc'[u] = (IF u = Dealer /\ pc[u] = "unborn" THEN "getstruc" ELSE pc[u])
             /\ \A k \in 1 .. lastOpened[u] : linked'[u][k] = linked[u][k]
  <2>1. CASE u = Dealer
    <3>1. linked[u] \in Seq(Files) /\ linked'[u] = Append(linked[u], f)
      BY <1>1, <1>2, <2>1, DealtTo DEF TypeOK
    <3>2. lastOpened[u] \in Nat /\ lastOpened[u] <= Len(linked[u]) /\ Len(linked[u]) \in Nat
      BY <1>1, <3>1 DEF TypeOK, ThreadOK
    <3>3. \A k \in 1 .. lastOpened[u] : linked'[u][k] = linked[u][k]
      BY <3>1, <3>2, ElementsAppend
    <3> QED
      BY <1>1, <1>2, <2>1, <3>3, DealtTo, UnitTypes DEF SemNames
  <2>2. CASE u # Dealer
    BY <1>1, <1>2, <2>2, DealtTo DEF OnlyAt, Same
  <2> QED
    BY <2>1, <2>2
<1>8. ASSUME NEW u \in Threads PROVE SlotsOK(u)'
  <2>1. Captured(u)' = Captured(u) /\ \A k \in Nat : Opened(u, k)' <=> Opened(u, k)
    BY <1>7 DEF Captured, Opened
  <2>2. pc[u] \in InFile => ThreadFile(u)' = ThreadFile(u)
    <3>1. pc[u] \in InFile => lastOpened[u] \in 1 .. lastOpened[u]
      BY <1>1 DEF TypeOK, ThreadOK, AtFile
    <3> QED
      BY <1>7, <3>1 DEF ThreadFile
  <2>3. pc'[u] \in InFile <=> pc[u] \in InFile
    BY <1>7 DEF InFile
  <2> QED
    BY <1>1, <1>7, <2>1, <2>2, <2>3 DEF SlotsOK
<1>9. ASSUME NEW u \in Threads PROVE ClaimsOK(u, p)'
  BY <1>1, <1>4, <1>6, <1>7, ClaimsUnmoved
<1> QED
  BY <1>5, <1>8, <1>9 DEF SInv

(* Main stays at its file, or is between two files as before.              *)
LEMMA StaySInv ==
  ASSUME BInv, NEW p, SInv(p),
         Linked \/ ReadLibHeader \/ ReadOldTables \/ FillPastEnd \/ Fill \/ FillDone \/ Parse
  PROVE  SInv(p)'
<1> SUFFICES ASSUME mpc' # "exited" PROVE MainFileOK' /\ \A u \in Threads : SlotsOK(u)' /\ ClaimsOK(u, p)'
  BY DEF SInv
<1>1. mpc # "exited" /\ TypeOK /\ MainOK /\ MainFileOK /\ \A u \in Threads : ThreadOK(u) /\ SlotsOK(u) /\ ClaimsOK(u, p)
  BY DEF Linked, ReadLibHeader, ReadOldTables, FillPastEnd, Fill, FillDone, Parse, BInv, SInv
<1>2. /\ Using' <=> Using
      /\ UNCHANGED <<pc, lastOpened, nextOpenStruc, nextBuffer, blk, linked, todo, thread, openStruc, nextOpenFile, libsDone>>
      /\ opreadsDone' = opreadsDone
  BY DEF Linked, ReadLibHeader, ReadOldTables, FillPastEnd, Fill, FillDone, Parse, MainGoto, Using,
         threadVars, ringVars, mainRing
<1>3. MainFileOK' /\ (Active' <=> Active) /\ \A u \in Threads : Claimed(u, p)' = Claimed(u, p)
  BY <1>1, <1>2 DEF MainFileOK, Active, Cur, T, Claimed, MainAt
<1>4. ASSUME NEW u \in Threads PROVE sem'[u].avail = sem[u].avail /\ sem'[u].open = sem[u].open
  <2>1. CASE Linked \/ ReadOldTables \/ FillPastEnd \/ Parse
    BY <2>1 DEF Linked, ReadOldTables, FillPastEnd, Parse, ringVars
  <2>2. CASE ReadLibHeader \/ Fill \/ FillDone
    <3>1. T \in Threads /\ sem \in [Threads -> [SemNames -> Nat]]
      BY <1>1, <2>2, CurFile DEF ReadLibHeader, Fill, FillDone, MainOK, Using, TypeOK
    <3> QED
      BY <2>2, <3>1 DEF ReadLibHeader, Fill, FillDone, Take, Post, SemNames
  <2> QED
    BY <2>1, <2>2
<1>5. \A u \in Threads : Unmoved(u)
  BY <1>2 DEF Unmoved
<1> QED
  BY <1>1, <1>2, <1>3, <1>4, <1>5, SlotsUnmoved, ClaimsUnmoved

LEMMA EndSInv ==
  ASSUME BInv, NEW d, NEW m, NEW p, DInv(d, m, p), SInv(p), LibrariesDone \/ Terminate \/ Bump \/ Join
  PROVE  SInv(p)'
<1> SUFFICES ASSUME mpc' # "exited" PROVE MainFileOK' /\ \A u \in Threads : SlotsOK(u)' /\ ClaimsOK(u, p)'
  BY DEF SInv
<1>1. mpc # "exited" /\ TypeOK /\ MainOK /\ MainFileOK /\ \A u \in Threads : ThreadOK(u) /\ SlotsOK(u) /\ ClaimsOK(u, p)
  BY DEF LibrariesDone, Terminate, Bump, Join, BInv, SInv
<1>2. ~Using /\ ~Using' /\ MainFileOK'
  BY DEF LibrariesDone, Terminate, Bump, Join, MainGoto, Using, MainFileOK
<1>3. CASE LibrariesDone
  <2>1. /\ UNCHANGED <<pc, lastOpened, nextOpenStruc, nextBuffer, blk, linked, openStruc, nextOpenFile, sem>>
        /\ opreadsDone' = opreadsDone /\ libsDone' /\ ~libsDone
    BY <1>3 DEF LibrariesDone, threadVars, mainRing
  <2>2. \A u \in Threads : Unmoved(u) /\ Captured(u)' = Captured(u) /\ Announced(u)' = Announced(u)
           /\ Claimed(u, p)' = Claimed(u, p)
    BY <1>2, <2>1 DEF Unmoved, Captured, Announced, Claimed, MainAt
  <2>3. \A u \in Threads : SlotsOK(u)'
    BY <1>1, <2>1, <2>2, SlotsUnmoved
  <2>4. \A u \in Threads : ClaimsOK(u, p)'
    BY <1>1, <2>1, <2>2 DEF ClaimsOK, Active
  <2> QED
    BY <1>2, <2>3, <2>4
<1>4. CASE Terminate \/ Bump \/ Join
  <2>1. opreadsDone' /\ libsDone' /\ ~Active'
    BY <1>1, <1>4 DEF Terminate, Bump, Join, MainOK, Active, MainGoto, ringVars
  <2> QED
    BY <1>2, <2>1 DEF SlotsOK, ClaimsOK
<1> QED
  BY <1>3, <1>4

(* Main takes up a file.                                                   *)
LEMMA OpenTurn ==
  ASSUME BInv, NEW d, NEW m, NEW p, DInv(d, m, p), SInv(p), OpenNext, NEW t \in Threads, t = T, Active
  PROVE  /\ ~opreadsDone /\ toLink = <<>> /\ p[t] \in Nat
         /\ Follow(nextOpenFile[t]) = SlotOf(p[t] + 1) /\ SlotOf(p[t] + 1) \in Ring
         /\ sem[t].open > 0 /\ sem[t].open + p[t] = Announced(t)
         /\ p[t] + 1 \in 1 .. lastOpened[t] /\ Opened(t, p[t] + 1) /\ p[t] + 1 + 4 > Captured(t)
         /\ openStruc[t][SlotOf(p[t] + 1)].file = Cur
         /\ openStruc[t][SlotOf(p[t] + 1)].flags = Disk[Cur].found
<1>1. mpc = "next" /\ todo # <<>> /\ TypeOK /\ MainOK /\ ThreadOK(t) /\ SlotsOK(t) /\ ClaimsOK(t, p)
  BY DEF OpenNext, BInv, SInv
<1>2. toLink = <<>> /\ ~opreadsDone /\ p \in [Threads -> Nat]
  BY <1>1 DEF MainOK, DInv
<1>3. linked[t][p[t] + 1] = Cur
  BY <1>1, <1>2, CurrentFile
<1>4. p[t] \in Nat /\ p[t] + 1 \in Nat /\ p[t] + 1 > p[t] /\ sem[t].open \in Nat /\ lastOpened[t] \in Nat
  BY <1>1, <1>2, UnitTypes
<1>5. sem[t].open > 0
  BY DEF OpenNext
<1>6. Claimed(t, p) = p[t] /\ nextOpenFile[t] = SlotOf(p[t]) /\ sem[t].open + p[t] = Announced(t)
  BY <1>1 DEF Claimed, MainAt, Using, ClaimsOK
<1>7. p[t] + 1 <= Announced(t)
  BY <1>4, <1>5, <1>6
<1>8. /\ p[t] + 1 \in 1 .. lastOpened[t] /\ Opened(t, p[t] + 1) /\ p[t] + 1 + 4 > Captured(t)
      /\ openStruc[t][SlotOf(p[t] + 1)].file = linked[t][p[t] + 1]
      /\ openStruc[t][SlotOf(p[t] + 1)].flags = Disk[linked[t][p[t] + 1]].found
  BY <1>1, <1>2, <1>4, <1>7, OpenedSlot
<1>9. Follow(nextOpenFile[t]) = SlotOf(p[t] + 1) /\ SlotOf(p[t] + 1) \in Ring
  BY <1>4, <1>6, SlotRange
<1> QED
  BY <1>2, <1>3, <1>4, <1>5, <1>6, <1>8, <1>9

(* What OpenNext does to the units.                                        *)
LEMMA OpenUnits ==
  ASSUME TypeOK, OpenNext, NEW t \in Threads, t = T
  PROVE  /\ sem'[t].open = sem[t].open - 1 /\ nextOpenFile'[t] = Follow(nextOpenFile[t])
         /\ sem'[t].avail = sem[t].avail + (IF ~openStruc[t][Follow(nextOpenFile[t])].flags /\ Disk[Cur].kind = "LIB" THEN 1 ELSE 0)
         /\ \A u \in Threads \ {t} : sem'[u] = sem[u] /\ nextOpenFile'[u] = nextOpenFile[u]
         /\ sem'[t].full = sem[t].full
<1>1. /\ sem \in [Threads -> [SemNames -> Nat]] /\ nextOpenFile \in [Threads -> Ring]
      /\ "open" \in SemNames /\ "avail" \in SemNames /\ "full" \in SemNames
  BY DEF TypeOK, SemNames
<1>2. /\ sem' = [sem EXCEPT ![t]["open"] = @ - 1,
                            ![t]["avail"] = IF ~openStruc[t][Follow(nextOpenFile[t])].flags /\ Disk[Cur].kind = "LIB" THEN @ + 1 ELSE @]
      /\ nextOpenFile' = [nextOpenFile EXCEPT ![t] = Follow(@)]
  BY DEF OpenNext
<1>3. sem[t]["avail"] \in Nat
  BY <1>1
<1> QED
  BY <1>1, <1>2, <1>3

LEMMA OpenSInv ==
  ASSUME BInv, NEW d, NEW m, NEW p, DInv(d, m, p), SInv(p), OpenNext, mpc' # "exited",
         NEW t \in Threads, t = T
  PROVE  IF mpc' = "next" THEN todo' = Tail(todo) /\ SInv([p EXCEPT ![t] = @ + 1])'
                          ELSE todo' = todo /\ SInv(p)'
<1> DEFINE q == [p EXCEPT ![t] = @ + 1]
<1>1. mpc = "next" /\ todo # <<>> /\ TypeOK /\ MainOK /\ \A u \in Threads : ThreadOK(u) /\ SlotsOK(u) /\ ClaimsOK(u, p)
  BY DEF OpenNext, BInv, SInv
<1>2. /\ UNCHANGED <<pc, lastOpened, nextOpenStruc, nextBuffer, blk, linked, thread, openStruc, libsDone, opreadsDone, toLink>>
      /\ mpc' \in {"next", "header", "tables", "done", "fill"}
      /\ mpc' = "next" => todo' = Tail(todo) /\ ~openStruc[t][Follow(nextOpenFile[t])].flags
                          /\ ~(Disk[Cur].kind = "OBJ")
      /\ mpc' # "next" => todo' = todo /\ openStruc[t][Follow(nextOpenFile[t])].flags /\ Disk[Cur].wanted
      /\ ~Using /\ toLink = <<>>
  BY <1>1 DEF OpenNext, MainGoto, threadVars, MainOK, Using
<1>3. \A u \in Threads : Unmoved(u) /\ SlotsOK(u)'
  BY <1>1, <1>2, SlotsUnmoved DEF Unmoved
<1>4. p \in [Threads -> Nat] /\ q \in [Threads -> Nat] /\ q[t] = p[t] + 1 /\ \A u \in Threads \ {t} : q[u] = p[u]
  BY DEF DInv
<1> HIDE DEF q
<1>5. Active' => Active
  BY <1>1, <1>2 DEF Active
<1>6. \A u \in Threads : Captured(u)' = Captured(u) /\ Announced(u)' = Announced(u)
  BY <1>2 DEF Captured, Announced
<1>7. sem[t].open \in Nat /\ sem[t].avail \in Nat /\ Captured(t) \in Nat /\ p[t] \in Nat /\ sem[t].open > 0
  BY <1>1, <1>4, UnitTypes DEF Captured, OpenNext
<1>8. CASE mpc' = "next"
  <2>1. ~Using' /\ MainFileOK'
    BY <1>8 DEF Using, MainFileOK
  <2>2. ASSUME NEW u \in Threads \ {t} PROVE ClaimsOK(u, q)'
    <3>1. Claimed(u, q)' = Claimed(u, p)
      BY <1>2, <1>4, <2>1 DEF Claimed, MainAt
    <3>2. sem'[u] = sem[u] /\ nextOpenFile'[u] = nextOpenFile[u]
      BY <1>1, OpenUnits
    <3> QED
      BY <1>1, <1>2, <1>4, <1>5, <1>6, <3>1, <3>2 DEF ClaimsOK
  <2>3. ClaimsOK(t, q)'
    <3>1. ~libsDone => Disk[Cur].kind = "LIB"
      <4>1. Cur \in Elements(todo)
        BY <1>1, ElementsTail, ZenonT(30) DEF Cur, TypeOK
      <4> QED
        BY <1>1, <1>2, <1>8, <4>1 DEF DInv, KindsOK, InputFile
    <3>2. /\ sem'[t].open = sem[t].open - 1 /\ nextOpenFile'[t] = Follow(nextOpenFile[t])
          /\ sem'[t].avail = sem[t].avail + (IF Disk[Cur].kind = "LIB" THEN 1 ELSE 0)
      BY <1>1, <1>2, <1>8, OpenUnits
    <3>3. Claimed(t, q)' = p[t] + 1
      BY <1>4, <2>1 DEF Claimed, MainAt
    <3>4. ~libsDone' => sem'[t].avail + Captured(t)' = 4 + q[t]
      BY <1>1, <1>2, <1>4, <1>6, <1>7, <3>1, <3>2, SMTT(30) DEF ClaimsOK
    <3>5. ASSUME Active'
          PROVE  /\ sem'[t].avail + Captured(t)' <= 4 + q[t]
                 /\ nextOpenFile'[t] = SlotOf(Claimed(t, q)')
                 /\ sem'[t].open + Claimed(t, q)' = Announced(t)'
      <4>1. sem[t].avail + Captured(t) <= 4 + p[t]
        BY <1>1, <1>5, <3>5 DEF ClaimsOK
      <4>2. Follow(nextOpenFile[t]) = SlotOf(p[t] + 1) /\ sem[t].open + p[t] = Announced(t)
        BY <1>5, <3>5, OpenTurn
      <4>3. sem'[t].avail + Captured(t)' <= 4 + q[t]
        BY <1>4, <1>6, <1>7, <3>2, <4>1
      <4>4. sem'[t].open + Claimed(t, q)' = Announced(t)'
        BY <1>6, <1>7, <3>2, <3>3, <4>2
      <4> QED
        BY <3>2, <3>3, <4>2, <4>3, <4>4
    <3> QED
      BY <3>4, <3>5 DEF ClaimsOK
  <2>4. SInv(q)'
    BY <1>3, <2>1, <2>2, <2>3 DEF SInv
  <2> QED
    BY <1>2, <1>8, <2>4 DEF q
<1>9. CASE mpc' # "next"
  <2>1. Using' /\ Cur' = Cur /\ T' = t /\ todo' = todo
    BY <1>2, <1>9 DEF Using, Cur, T
  <2>2. Active => Disk[Cur].found
    BY <1>2, <1>9, OpenTurn
  <2>3. MainFileOK'
    BY <1>2, <1>5, <1>9, <2>1, <2>2 DEF MainFileOK
  <2>4. ASSUME NEW u \in Threads \ {t} PROVE ClaimsOK(u, p)'
    <3>1. Claimed(u, p)' = Claimed(u, p)
      BY <1>2, <2>1 DEF Claimed, MainAt
    <3>2. sem'[u] = sem[u] /\ nextOpenFile'[u] = nextOpenFile[u]
      BY <1>1, OpenUnits
    <3> QED
      BY <1>1, <1>2, <1>5, <1>6, <3>1, <3>2 DEF ClaimsOK
  <2>5. ClaimsOK(t, p)'
    <3>1. /\ sem'[t].open = sem[t].open - 1 /\ nextOpenFile'[t] = Follow(nextOpenFile[t])
          /\ sem'[t].avail = sem[t].avail
      BY <1>1, <1>2, <1>7, <1>9, OpenUnits
    <3>2. Claimed(t, p)' = p[t] + 1
      BY <2>1 DEF Claimed, MainAt
    <3>3. Active' => /\ nextOpenFile'[t] = SlotOf(Claimed(t, p)')
                     /\ sem'[t].open + Claimed(t, p)' = Announced(t)'
      <4> SUFFICES ASSUME Active' PROVE /\ nextOpenFile'[t] = SlotOf(Claimed(t, p)')
                                        /\ sem'[t].open + Claimed(t, p)' = Announced(t)'
        OBVIOUS
      <4>1. Follow(nextOpenFile[t]) = SlotOf(p[t] + 1) /\ sem[t].open + p[t] = Announced(t)
        BY <1>5, OpenTurn
      <4> QED
        BY <1>6, <1>7, <3>1, <3>2, <4>1
    <3> QED
      BY <1>1, <1>2, <1>5, <1>6, <3>1, <3>3 DEF ClaimsOK
  <2> QED
    BY <1>3, <1>9, <2>1, <2>3, <2>4, <2>5 DEF SInv
<1> QED
  BY <1>8, <1>9

(* Main leaves a file that it does not look at: in the tail, and with      *)
(* TailsTaken the last one.                                                *)
LEMMA SkipEnds ==
  ASSUME BInv, NEW d, NEW m, NEW p, DInv(d, m, p), SkipNext
  PROVE  ~Active' /\ libsDone'
<1>1. mpc = "next" /\ todo # <<>> /\ TypeOK /\ MainOK
  BY DEF SkipNext, BInv
<1>2. libsDone' = libsDone /\ todo' = Tail(todo) /\ ~Disk[Cur].wanted
  BY DEF SkipNext
<1>3. /\ Cur = todo[1] /\ Len(todo) \in Nat \ {0} /\ Len(Tail(todo)) = Len(todo) - 1 /\ 1 \in DOMAIN todo
      /\ Tail(todo) \in Seq(Files) /\ Cur \in Elements(todo)
  BY <1>1, CurFile, ElementsTail, LenProperties, ZenonT(30) DEF TypeOK, Cur
<1>4. libsDone /\ (TailsTaken => Len(todo) = 1)
  <2>1. libsDone
    BY <1>1, <1>2, <1>3 DEF DInv, KindsOK, InputFile
  <2>2. ASSUME TailsTaken PROVE ~(1 < Len(todo))
    BY <1>1, <1>2, <1>3, <2>1, <2>2 DEF DInv, KindsOK, ReadToEnd
  <2> QED
    BY <1>3, <2>1, <2>2
<1> QED
  BY <1>2, <1>3, <1>4, EmptySeq DEF Active

LEMMA SkipSInv ==
  ASSUME BInv, NEW d, NEW m, NEW p, DInv(d, m, p), SInv(p), SkipNext, NEW q
  PROVE  SInv(q)'
<1>1. mpc = "next" /\ todo # <<>> /\ TypeOK /\ MainOK /\ \A u \in Threads : ThreadOK(u) /\ SlotsOK(u)
  BY DEF SkipNext, BInv, SInv
<1>2. UNCHANGED <<pc, lastOpened, nextOpenStruc, nextBuffer, blk, linked, openStruc, opreadsDone, mpc>>
  BY DEF SkipNext, threadVars, ringVars
<1>5. ~Active' /\ libsDone'
  BY SkipEnds
<1>6. MainFileOK' /\ \A u \in Threads : ClaimsOK(u, q)'
  BY <1>1, <1>2, <1>5 DEF MainFileOK, Using, ClaimsOK
<1>7. \A u \in Threads : SlotsOK(u)'
  BY <1>1, <1>2, SlotsUnmoved DEF Unmoved
<1> QED
  BY <1>6, <1>7 DEF SInv

LEMMA DoneSInv ==
  ASSUME BInv, NEW d, NEW m, NEW p, DInv(d, m, p), SInv(p), FileDone, NEW t \in Threads, t = T
  PROVE  SInv([p EXCEPT ![t] = @ + 1])'
<1> DEFINE q == [p EXCEPT ![t] = @ + 1]
<1>1. /\ mpc = "done" /\ Using /\ todo # <<>> /\ TypeOK /\ MainOK
      /\ \A u \in Threads : ThreadOK(u) /\ SlotsOK(u) /\ ClaimsOK(u, p)
  BY DEF FileDone, BInv, SInv, MainOK, Using
<1>2. /\ UNCHANGED <<pc, lastOpened, nextOpenStruc, nextBuffer, blk, linked, libsDone, opreadsDone, nextOpenFile>>
      /\ todo' = Tail(todo) /\ mpc' = "next" /\ ~Using'
  BY DEF FileDone, threadVars, mainRing, MainGoto, Using
<1>3. p \in [Threads -> Nat] /\ q \in [Threads -> Nat] /\ q[t] = p[t] + 1 /\ \A u \in Threads \ {t} : q[u] = p[u]
  BY DEF DInv
<1> HIDE DEF q
<1>4. \A u \in Threads : \A i \in Ring : openStruc'[u][i].file = openStruc[u][i].file /\ openStruc'[u][i].flags = openStruc[u][i].flags
  <2>1. CASE openStruc' = openStruc
    BY <2>1
  <2>2. CASE openStruc' = [openStruc EXCEPT ![t][nextOpenFile[t]] = Emptied(@)]
    <3>1. nextOpenFile[t] \in Ring /\ DOMAIN openStruc = Threads /\ DOMAIN openStruc[t] = Ring
      BY <1>1 DEF TypeOK
    <3>2. openStruc[t][nextOpenFile[t]] \in [file : Files \union {NoFile}, flags : BOOLEAN, handle : Files \union {NoFile}]
      BY <1>1, <3>1, SlotType
    <3> QED
      BY <2>2, <3>1, <3>2 DEF Emptied
  <2> QED
    BY <2>1, <2>2 DEF FileDone
<1>5. \A u \in Threads : SlotsOK(u)'
  BY <1>1, <1>2, <1>4, SlotsUnmoved DEF Unmoved
<1>6. Active' => Active
  BY <1>1, <1>2 DEF Active
<1>7. \A u \in Threads : /\ Captured(u)' = Captured(u) /\ Announced(u)' = Announced(u)
                         /\ Claimed(u, q)' = Claimed(u, p)
  BY <1>1, <1>2, <1>3 DEF Captured, Announced, Claimed, MainAt
<1>8. /\ \A u \in Threads \ {t} : sem'[u] = sem[u]
      /\ sem'[t].open = sem[t].open
      /\ sem'[t].avail = sem[t].avail + (IF GivesBack(Disk[Cur].kind) THEN 1 ELSE 0)
  <2>1. sem \in [Threads -> [SemNames -> Nat]] /\ sem[t].avail \in Nat
    BY <1>1, UnitTypes DEF TypeOK
  <2> QED
    BY <2>1, SMTT(30) DEF FileDone, Post, SemNames
<1>9. ~libsDone => GivesBack(Disk[Cur].kind)
  <2>1. Cur \in Elements(todo)
    BY <1>1, ElementsTail, ZenonT(30) DEF Cur, TypeOK
  <2> QED
    BY <1>1, <2>1 DEF DInv, KindsOK, InputFile, GivesBack
<1>10. \A u \in Threads \ {t} : ClaimsOK(u, q)'
  BY <1>1, <1>2, <1>3, <1>6, <1>7, <1>8 DEF ClaimsOK
<1>11. ClaimsOK(t, q)'
  <2>1. sem[t].avail \in Nat /\ Captured(t) \in Nat /\ p[t] \in Nat
    BY <1>1, <1>3, UnitTypes DEF Captured
  <2>2. ~libsDone' => sem'[t].avail + Captured(t)' = 4 + q[t]
    <3> SUFFICES ASSUME ~libsDone PROVE sem'[t].avail + Captured(t)' = 4 + q[t]
      BY <1>2
    <3>1. sem[t].avail + Captured(t) = 4 + p[t]
      BY <1>1 DEF ClaimsOK
    <3>2. sem'[t].avail = sem[t].avail + 1 /\ Captured(t)' = Captured(t)
      BY <1>7, <1>8, <1>9
    <3> QED
      BY <1>3, <2>1, <3>1, <3>2
  <2>3. Active' => sem'[t].avail + Captured(t)' <= 4 + q[t]
    BY <1>1, <1>3, <1>6, <1>7, <1>8, <2>1, SMTT(30) DEF ClaimsOK
  <2> QED
    BY <1>1, <1>2, <1>6, <1>7, <1>8, <2>2, <2>3 DEF ClaimsOK
<1>12. MainFileOK'
  BY <1>2 DEF MainFileOK
<1>13. SInv(q)'
  BY <1>5, <1>10, <1>11, <1>12 DEF SInv
<1> QED
  BY <1>13 DEF q

-----------------------------------------------------------------------------
(* The blocks.  c[k] is what a thread delivers of the first k of the files *)
(* s: so every block of a thread has a number.                             *)
Sums(s, c) ==
  /\ c \in [Nat -> Nat] /\ c[0] = 0
  /\ \A k \in 1 .. Len(s) : c[k] = c[k - 1] + Delivers(s[k])
  /\ \A k \in 0 .. Len(s) : \A j \in 0 .. k : c[j] <= c[k]

(* The last block read; the last one taken, when main has a files of the   *)
(* thread behind it.                                                       *)
ReadPos(t, c) ==
  IF pc[t] = "open" THEN c[lastOpened[t] - 1]
  ELSE IF pc[t] \in AtFile THEN c[lastOpened[t] - 1] + blk[t]
  ELSE c[lastOpened[t]]

TakenPos(t, a, c) == IF MainAt(t) THEN c[a] + got ELSE c[a]

(* The blocks behind lo, up to hi, are in the ring, each in its place.     *)
InPlace(s, ring, c, lo, hi) ==
  \A k \in 1 .. Len(s) : \A n \in Nat :
    0 < n /\ n <= Delivers(s[k]) /\ lo < c[k - 1] + n /\ c[k - 1] + n <= hi =>
      ring[SlotOf(c[k - 1] + n)] = <<s[k], n>>

Unsent(t) == IF pc[t] = "full" THEN 1 ELSE 0

ContentOK(t, a, c) ==
  /\ sem[t].full + Unsent(t) + TakenPos(t, a, c) = ReadPos(t, c)
  /\ next16K[t] = SlotOf(TakenPos(t, a, c))
  /\ InPlace(linked[t], insBlock[t], c, TakenPos(t, a, c), ReadPos(t, c))

(* What main has of the current file.                                      *)
TakenOK ==
  /\ mpc \in {"link", "next", "header", "tables"} => got = 0 /\ mblock = NoBlock
  /\ mpc = "header" => Disk[Cur].kind = "LIB"
  /\ mpc = "tables" => Disk[Cur].kind = "OLD"
  /\ mpc \in {"fill", "taken", "parse", "done"} /\ Disk[Cur].kind = "LIB" => Disk[Cur].isLib
  /\ mpc \in {"taken", "parse"} =>
       /\ mblock = <<Cur, got>>
       /\ IF Disk[Cur].kind = "OBJ"
          THEN got \in 1 .. Disk[Cur].full + 1 /\ bufcnt = (IF got <= Disk[Cur].full THEN -1 ELSE 1)
          ELSE got \in 1 .. NeedBlocks(Cur)
  /\ mpc = "fill" =>
       /\ mblock = IF got = 0 THEN NoBlock ELSE <<Cur, got>>
       /\ IF Disk[Cur].kind = "OBJ" THEN (bufcnt = 1 \/ got <= Disk[Cur].full) /\ got <= Disk[Cur].full + 1
                                    ELSE got < NeedBlocks(Cur)
  /\ mpc = "done" =>
       /\ got = (IF Disk[Cur].kind = "OBJ" THEN Disk[Cur].full + 1 ELSE NeedBlocks(Cur))
       /\ mblock = IF got = 0 THEN NoBlock ELSE <<Cur, got>>

CInv(p, cum) ==
  mpc # "exited" =>
    /\ \A t \in Threads : Sums(linked[t], cum[t])
    /\ Active => TakenOK /\ \A t \in Threads : ContentOK(t, p[t], cum[t])

(* Main never asks for more of a file than the thread delivers.            *)
LEMMA NeedFits ==
  ASSUME NEW f \in Files
  PROVE  /\ NeedBlocks(f) <= ReadBlocks(f)
         /\ Disk[f].kind = "OBJ" => ReadBlocks(f) = Disk[f].full + 1
         /\ IsLibrary(f) => NeedBlocks(f) = ReadBlocks(f)
<1>1. Disk[f].full \in Nat /\ Disk[f].nonres \in Nat /\ Disk[f].rest \in BOOLEAN
  BY FileSizes
<1>2. Pages(f) \in Nat /\ Disk[f].full <= Pages(f) /\ Pages(f) <= Disk[f].full + 1
  BY <1>1 DEF Pages
<1> QED
  BY <1>1, <1>2 DEF NeedBlocks, ReadBlocks, IsLibrary

LEMMA SumAt == ASSUME NEW s, NEW c, Sums(s, c), NEW n \in Nat PROVE c[n] \in Nat
BY DEF Sums

LEMMA SumTypes ==
  ASSUME NEW s \in Seq(Files), NEW c, Sums(s, c), NEW k \in 1 .. Len(s)
  PROVE  /\ s[k] \in Files /\ Delivers(s[k]) \in Nat /\ k - 1 \in Nat /\ k \in Nat
         /\ c[k] \in Nat /\ c[k - 1] \in Nat /\ c[k] = c[k - 1] + Delivers(s[k])
<1>1. k \in Nat /\ k - 1 \in Nat /\ s[k] \in Files
  OBVIOUS
<1>2. Delivers(s[k]) \in Nat
  BY <1>1, FileSizes
<1> QED
  BY <1>1, <1>2 DEF Sums

LEMMA NatSum == ASSUME NEW x \in Nat, NEW y \in Nat PROVE x + y \in Nat
OBVIOUS

LEMMA PartOfSum ==
  ASSUME NEW x \in Nat, NEW n \in Nat, NEW y \in Nat, 0 < n, n <= y
  PROVE  x + n \in Nat /\ x + n <= x + y /\ x < x + n
OBVIOUS

(* The number of a block determines the file and the place in it.          *)
LEMMA NumberOfBlock ==
  ASSUME NEW s \in Seq(Files), NEW c, Sums(s, c),
         NEW k \in 1 .. Len(s), NEW n \in Nat, 0 < n, n <= Delivers(s[k]), NEW l \in 0 .. Len(s)
  PROVE  /\ c[k - 1] + n \in Nat /\ c[l] \in Nat
         /\ k <= l => c[k - 1] + n <= c[l]
         /\ l < k => c[l] < c[k - 1] + n
<1>1. /\ Delivers(s[k]) \in Nat /\ c[k] = c[k - 1] + Delivers(s[k]) /\ c[k] \in Nat /\ c[k - 1] \in Nat
      /\ k - 1 \in 0 .. Len(s) /\ k \in 0 .. Len(s) /\ k \in Int /\ l \in Int
  <2>1. Delivers(s[k]) \in Nat /\ c[k] = c[k - 1] + Delivers(s[k]) /\ c[k] \in Nat /\ c[k - 1] \in Nat
    BY SumTypes
  <2>2. Len(s) \in Nat
    OBVIOUS
  <2> QED
    BY <2>1, <2>2
<1>2. c[l] \in Nat
  <2>1. l \in Nat
    OBVIOUS
  <2> QED
    BY <2>1, SumAt
<1>3. k <= l => c[k] <= c[l]
  BY <1>1 DEF Sums
<1>4. ASSUME l < k PROVE c[l] <= c[k - 1]
  <2>1. l \in 0 .. k - 1
    BY <1>1, <1>4
  <2>2. \A a \in 0 .. Len(s) : \A b \in 0 .. a : c[b] <= c[a]
    BY DEF Sums
  <2>3. \A b \in 0 .. k - 1 : c[b] <= c[k - 1]
    BY <1>1, <2>2
  <2> QED
    BY <2>1, <2>3
<1>5. c[k - 1] + n \in Nat /\ c[k - 1] + n <= c[k] /\ c[k - 1] < c[k - 1] + n
  <2>1. Delivers(s[k]) \in Nat /\ c[k] = c[k - 1] + Delivers(s[k]) /\ c[k - 1] \in Nat
    BY <1>1
  <2> QED
    BY <2>1, PartOfSum
<1>6. k <= l => c[k - 1] + n <= c[l]
  BY <1>1, <1>2, <1>3, <1>5, SMTT(30)
<1>7. l < k => c[l] < c[k - 1] + n
  BY <1>1, <1>2, <1>4, <1>5, SMTT(30)
<1> QED
  BY <1>2, <1>5, <1>6, <1>7

LEMMA ReadTypes ==
  ASSUME TypeOK, NEW t \in Threads, ThreadOK(t), NEW c, Sums(linked[t], c)
  PROVE  /\ linked[t] \in Seq(Files) /\ Len(linked[t]) \in Nat /\ lastOpened[t] \in 0 .. Len(linked[t])
         /\ blk[t] \in Nat /\ c[lastOpened[t]] \in Nat /\ ReadPos(t, c) \in Nat
         /\ pc[t] \in AtFile =>
              /\ lastOpened[t] \in 1 .. Len(linked[t]) /\ ThreadFile(t) = linked[t][lastOpened[t]]
              /\ ThreadFile(t) \in Files /\ Delivers(ThreadFile(t)) \in Nat /\ ReadBlocks(ThreadFile(t)) \in Nat
              /\ c[lastOpened[t] - 1] \in Nat
              /\ c[lastOpened[t]] = c[lastOpened[t] - 1] + Delivers(ThreadFile(t))
<1>0. blk[t] \in Nat
  BY UnitTypes
<1>1. linked[t] \in Seq(Files) /\ Len(linked[t]) \in Nat /\ blk[t] \in Nat /\ lastOpened[t] \in Nat
  BY InFiles, UnitTypes DEF TypeOK
<1>2. lastOpened[t] \in 0 .. Len(linked[t]) /\ c[lastOpened[t]] \in Nat
  <2>1. lastOpened[t] \in 0 .. Len(linked[t])
    BY <1>1 DEF ThreadOK
  <2>2. c[lastOpened[t]] \in Nat
    BY <1>1, SumAt
  <2> QED
    BY <2>1, <2>2
<1>3. ASSUME pc[t] \in AtFile
      PROVE  /\ lastOpened[t] \in 1 .. Len(linked[t]) /\ ThreadFile(t) = linked[t][lastOpened[t]]
             /\ ThreadFile(t) \in Files /\ Delivers(ThreadFile(t)) \in Nat /\ ReadBlocks(ThreadFile(t)) \in Nat
             /\ c[lastOpened[t] - 1] \in Nat
             /\ c[lastOpened[t]] = c[lastOpened[t] - 1] + Delivers(ThreadFile(t))
  <2>1. lastOpened[t] \in 1 .. Len(linked[t]) /\ ThreadFile(t) = linked[t][lastOpened[t]] /\ ThreadFile(t) \in Files
    BY <1>3, InFiles DEF ThreadFile
  <2>2. Delivers(ThreadFile(t)) \in Nat /\ ReadBlocks(ThreadFile(t)) \in Nat
    BY <2>1, FileSizes
  <2>3. /\ c[lastOpened[t] - 1] \in Nat
        /\ c[lastOpened[t]] = c[lastOpened[t] - 1] + Delivers(linked[t][lastOpened[t]])
    BY <1>1, <2>1, SumTypes
  <2> QED
    BY <2>1, <2>2, <2>3
<1>4. ReadPos(t, c) \in Nat
  <2>1. CASE pc[t] \in AtFile
    <3>1. c[lastOpened[t] - 1] \in Nat
      BY <1>3, <2>1
    <3>2. c[lastOpened[t] - 1] + blk[t] \in Nat
      BY <1>0, <3>1
    <3> QED
      BY <2>1, <3>1, <3>2 DEF ReadPos
  <2>2. CASE pc[t] \notin AtFile
    BY <1>2, <2>2 DEF ReadPos, AtFile
  <2> QED
    BY <2>1, <2>2
<1> QED
  BY <1>1, <1>2, <1>3, <1>4

(* A thread reads no further than to the end of its file.                  *)
LEMMA ReadBound ==
  ASSUME TypeOK, NEW t \in Threads, ThreadOK(t), SlotsOK(t), ~opreadsDone,
         NEW c, Sums(linked[t], c)
  PROVE  ReadPos(t, c) <= c[lastOpened[t]]
<1>1. CASE pc[t] \notin AtFile
  <2>1. ReadPos(t, c) = c[lastOpened[t]] /\ c[lastOpened[t]] \in Nat
    BY <1>1, ReadTypes DEF ReadPos, AtFile
  <2> QED
    BY <2>1
<1>2. CASE pc[t] = "open"
  <2>1. /\ c[lastOpened[t] - 1] \in Nat /\ Delivers(ThreadFile(t)) \in Nat
        /\ c[lastOpened[t]] = c[lastOpened[t] - 1] + Delivers(ThreadFile(t))
    BY <1>2, ReadTypes DEF AtFile
  <2>2. ReadPos(t, c) = c[lastOpened[t] - 1]
    BY <1>2 DEF ReadPos
  <2> QED
    BY <2>1, <2>2
<1>3. CASE pc[t] \in AtFile \ {"open"}
  <2>1. ReadPos(t, c) = c[lastOpened[t] - 1] + blk[t]
    BY <1>3 DEF ReadPos
  <2>2. blk[t] <= Delivers(ThreadFile(t))
    <3>1. CASE pc[t] = "opened"
      <4>1. blk[t] = 0 /\ Delivers(ThreadFile(t)) \in Nat
        BY <1>3, <3>1, ReadTypes DEF ThreadOK
      <4> QED
        BY <4>1
    <3>2. CASE pc[t] \in InFile
      <4>1. Disk[ThreadFile(t)].found
        BY <3>2 DEF SlotsOK
      <4>2. blk[t] \in Nat /\ ReadBlocks(ThreadFile(t)) \in Nat
        BY <1>3, ReadTypes
      <4>3. blk[t] <= ReadBlocks(ThreadFile(t))
        <5>1. CASE pc[t] \in {"header", "oldlength"}
          <6>1. blk[t] = 0
            BY <5>1 DEF ThreadOK
          <6> QED
            BY <4>2, <6>1
        <5>2. CASE pc[t] \in {"getbuffer", "read"}
          BY <4>2, <5>2 DEF ThreadOK
        <5>3. CASE pc[t] = "full"
          BY <4>2, <5>3 DEF ThreadOK
        <5>4. CASE pc[t] = "close"
          BY <4>2, <5>4 DEF ThreadOK
        <5> QED
          BY <3>2, <5>1, <5>2, <5>3, <5>4 DEF InFile
      <4> QED
        BY <4>1, <4>3 DEF Delivers
    <3> QED
      BY <1>3, <3>1, <3>2 DEF AtFile
  <2>3. /\ c[lastOpened[t]] = c[lastOpened[t] - 1] + Delivers(ThreadFile(t))
        /\ Delivers(ThreadFile(t)) \in Nat /\ blk[t] \in Nat /\ c[lastOpened[t] - 1] \in Nat
    BY <1>3, ReadTypes
  <2> QED
    BY <2>1, <2>2, <2>3
<1> QED
  BY <1>1, <1>2, <1>3

(* What a step of the thread does to its blocks.                           *)
LEMMA BlockSteps ==
  ASSUME TypeOK, NEW t \in Threads, ThreadOK(t), ThreadSteps(t), ~opreadsDone
  PROVE  /\ pc[t] = "read" =>
              /\ pc'[t] = "full" /\ blk'[t] = blk[t] + 1
              /\ insBlock'[t] = [insBlock[t] EXCEPT ![nextBuffer[t]] = <<ThreadFile(t), blk[t] + 1>>]
         /\ pc[t] # "read" => insBlock'[t] = insBlock[t] /\ (pc[t] # "open" => blk'[t] = blk[t])
         /\ pc[t] = "open" => blk'[t] = 0
         /\ pc[t] = "full" =>
              /\ sem'[t].full = sem[t].full + 1
              /\ pc'[t] \in {"getbuffer", "getstruc", "close"}
              /\ pc'[t] = "getstruc" => ~(blk[t] < ReadBlocks(ThreadFile(t)))
         /\ pc[t] # "full" => sem'[t].full = sem[t].full
         /\ pc[t] \in {"header", "oldlength", "getbuffer"} => pc'[t] \in {"getbuffer", "read", "close"}
<1>1. /\ sem \in [Threads -> [SemNames -> Nat]]
      /\ DOMAIN pc = Threads /\ DOMAIN blk = Threads /\ DOMAIN insBlock = Threads
  BY DEF TypeOK
<1> USE DEF Goto, GotoUnlessDone, Take, Post, SemNames
<1>2. CASE GetNextOpenStruc(t)
  BY <1>1, <1>2 DEF GetNextOpenStruc
<1>3. CASE GetNextFileName(t)
  BY <1>1, <1>3 DEF GetNextFileName
<1>4. CASE OpenFile(t)
  BY <1>1, <1>4 DEF OpenFile
<1>5. CASE SignalOpened(t)
  BY <1>1, <1>5 DEF SignalOpened
<1>6. CASE ReadHeader(t) \/ ReadOldLength(t) \/ GetNextBuffer(t)
  BY <1>1, <1>6 DEF ReadHeader, ReadOldLength, GetNextBuffer
<1>7. CASE ReadBlock(t)
  BY <1>1, <1>7 DEF ReadBlock
<1>8. CASE SignalFull(t)
  BY <1>1, <1>8 DEF SignalFull
<1>9. CASE CloseFile(t)
  BY <1>1, <1>9 DEF CloseFile
<1>10. CASE Abort(t)
  BY <1>10 DEF Abort, ThreadOK
<1> QED
  BY <1>2, <1>3, <1>4, <1>5, <1>6, <1>7, <1>8, <1>9, <1>10 DEF ThreadSteps

LEMMA ReadMoves ==
  ASSUME TypeOK, NEW t \in Threads, ThreadOK(t), SlotsOK(t), ThreadSteps(t), ~opreadsDone,
         NEW c, Sums(linked[t], c)
  PROVE  /\ ReadPos(t, c)' = ReadPos(t, c) + (IF pc[t] = "read" THEN 1 ELSE 0)
         /\ sem'[t].full + Unsent(t)' = sem[t].full + Unsent(t) + (IF pc[t] = "read" THEN 1 ELSE 0)
<1>1. /\ lastOpened[t] \in Nat /\ blk[t] \in Nat /\ sem[t].full \in Nat /\ ReadPos(t, c) \in Nat
      /\ c[lastOpened[t]] \in Nat
  BY ReadTypes, UnitTypes
<1>2. pc[t] \in AtFile =>
        /\ c[lastOpened[t] - 1] \in Nat /\ Delivers(ThreadFile(t)) \in Nat /\ ReadBlocks(ThreadFile(t)) \in Nat
        /\ c[lastOpened[t]] = c[lastOpened[t] - 1] + Delivers(ThreadFile(t))
  BY ReadTypes
<1>3. pc[t] \in InFile => Delivers(ThreadFile(t)) = ReadBlocks(ThreadFile(t))
  BY DEF SlotsOK, Delivers
<1>4. CASE pc[t] = "getstruc"
  <2>1. pc'[t] = "getname" /\ lastOpened'[t] = lastOpened[t] /\ sem'[t].full = sem[t].full
    BY <1>4, SlotSteps, BlockSteps
  <2> QED
    BY <1>1, <1>4, <2>1 DEF ReadPos, Unsent, AtFile, InFile
<1>5. CASE pc[t] = "getname"
  <2>1. pc'[t] = "open" /\ lastOpened'[t] = lastOpened[t] + 1 /\ sem'[t].full = sem[t].full
    BY <1>5, SlotSteps, BlockSteps
  <2>2. lastOpened'[t] - 1 = lastOpened[t]
    BY <1>1, <2>1
  <2> QED
    BY <1>1, <1>5, <2>1, <2>2 DEF ReadPos, Unsent, AtFile, InFile
<1>6. CASE pc[t] = "open"
  <2>1. pc'[t] = "opened" /\ lastOpened'[t] = lastOpened[t] /\ sem'[t].full = sem[t].full /\ blk'[t] = 0
    BY <1>6, SlotSteps, BlockSteps
  <2>2. c[lastOpened[t] - 1] \in Nat
    BY <1>2, <1>6 DEF AtFile
  <2> QED
    BY <1>1, <1>6, <2>1, <2>2 DEF ReadPos, Unsent, AtFile, InFile
<1>7. CASE pc[t] = "opened"
  <2>1. /\ pc'[t] \in {"getstruc", "header", "oldlength", "getbuffer"}
        /\ pc'[t] # "getstruc" <=> Slot(t).flags
        /\ lastOpened'[t] = lastOpened[t] /\ sem'[t].full = sem[t].full /\ blk'[t] = blk[t] /\ blk[t] = 0
    BY <1>7, SlotSteps, BlockSteps DEF ThreadOK
  <2>2. Slot(t).flags = Disk[ThreadFile(t)].found
    <3>1. lastOpened[t] \in 1 .. lastOpened[t] /\ lastOpened[t] + 4 > Captured(t) /\ Opened(t, lastOpened[t])
          /\ nextOpenStruc[t] = SlotOf(lastOpened[t])
      <4>1. lastOpened[t] >= 1 /\ Captured(t) = lastOpened[t]
        BY <1>7 DEF ThreadOK, AtFile, Captured
      <4>2. Opened(t, lastOpened[t]) /\ nextOpenStruc[t] = SlotOf(Captured(t))
        BY <1>7 DEF Opened, SlotsOK
      <4> QED
        BY <1>1, <4>1, <4>2
    <3>2. openStruc[t][SlotOf(lastOpened[t])].flags = Disk[linked[t][lastOpened[t]]].found
      BY <3>1 DEF SlotsOK
    <3> QED
      BY <3>1, <3>2 DEF Slot, ThreadFile
  <2>3. CASE pc'[t] = "getstruc"
    <3>1. Delivers(ThreadFile(t)) = 0
      BY <2>1, <2>2, <2>3 DEF Delivers
    <3>2. c[lastOpened[t]] = c[lastOpened[t] - 1]
      BY <1>2, <1>7, <3>1 DEF AtFile
    <3> QED
      BY <1>1, <1>7, <2>1, <2>3, <3>2 DEF ReadPos, Unsent, AtFile, InFile
  <2>4. CASE pc'[t] \in {"header", "oldlength", "getbuffer"}
    BY <1>1, <1>7, <2>1, <2>4 DEF ReadPos, Unsent, AtFile, InFile
  <2> QED
    BY <2>1, <2>3, <2>4
<1>8. CASE pc[t] \in {"header", "oldlength", "getbuffer"}
  <2>1. /\ pc'[t] \in {"getbuffer", "read", "close"} /\ blk'[t] = blk[t]
        /\ lastOpened'[t] = lastOpened[t] /\ sem'[t].full = sem[t].full
    BY <1>8, SlotSteps, BlockSteps
  <2> QED
    BY <1>1, <1>8, <2>1 DEF ReadPos, Unsent, AtFile, InFile
<1>9. CASE pc[t] = "read"
  <2>1. pc'[t] = "full" /\ blk'[t] = blk[t] + 1 /\ lastOpened'[t] = lastOpened[t] /\ sem'[t].full = sem[t].full
    BY <1>9, SlotSteps, BlockSteps
  <2>2. c[lastOpened[t] - 1] \in Nat
    BY <1>2, <1>9 DEF AtFile, InFile
  <2>3. ReadPos(t, c) = c[lastOpened[t] - 1] + blk[t] /\ ReadPos(t, c)' = c[lastOpened[t] - 1] + (blk[t] + 1)
    BY <1>9, <2>1 DEF ReadPos, AtFile, InFile
  <2> QED
    BY <1>1, <1>9, <2>1, <2>2, <2>3 DEF Unsent
<1>10. CASE pc[t] = "full"
  <2>1. /\ sem'[t].full = sem[t].full + 1 /\ pc'[t] \in {"getbuffer", "getstruc", "close"} /\ blk'[t] = blk[t]
        /\ pc'[t] = "getstruc" => ~(blk[t] < ReadBlocks(ThreadFile(t)))
        /\ lastOpened'[t] = lastOpened[t]
    BY <1>10, SlotSteps, BlockSteps
  <2>2. ReadPos(t, c) = c[lastOpened[t] - 1] + blk[t]
    BY <1>10 DEF ReadPos, AtFile, InFile
  <2>3. CASE pc'[t] = "getstruc"
    <3>1. ReadBlocks(ThreadFile(t)) \in Nat /\ Delivers(ThreadFile(t)) = ReadBlocks(ThreadFile(t))
          /\ c[lastOpened[t]] = c[lastOpened[t] - 1] + Delivers(ThreadFile(t))
      BY <1>2, <1>3, <1>10 DEF AtFile, InFile
    <3>2. blk[t] = ReadBlocks(ThreadFile(t))
      <4>1. blk[t] \in 1 .. ReadBlocks(ThreadFile(t)) /\ ~(blk[t] < ReadBlocks(ThreadFile(t)))
        BY <1>10, <2>1, <2>3 DEF ThreadOK
      <4> QED
        BY <1>1, <3>1, <4>1
    <3>3. ReadPos(t, c)' = c[lastOpened[t]]
      BY <2>1, <2>3 DEF ReadPos, AtFile, InFile
    <3> QED
      BY <1>1, <1>10, <2>1, <2>2, <2>3, <3>1, <3>2, <3>3 DEF Unsent
  <2>4. CASE pc'[t] \in {"getbuffer", "close"}
    <3>1. ReadPos(t, c)' = c[lastOpened[t] - 1] + blk[t]
      BY <2>1, <2>4 DEF ReadPos, AtFile, InFile
    <3> QED
      BY <1>1, <1>10, <2>1, <2>2, <2>4, <3>1 DEF Unsent
  <2> QED
    BY <2>1, <2>3, <2>4
<1>11. CASE pc[t] = "close"
  <2>1. pc'[t] = "getstruc" /\ lastOpened'[t] = lastOpened[t] /\ sem'[t].full = sem[t].full
    BY <1>11, SlotSteps, BlockSteps
  <2>2. c[lastOpened[t]] = c[lastOpened[t] - 1] + ReadBlocks(ThreadFile(t)) /\ blk[t] = ReadBlocks(ThreadFile(t))
    BY <1>2, <1>3, <1>11 DEF AtFile, InFile, ThreadOK
  <2> QED
    BY <1>1, <1>11, <2>1, <2>2 DEF ReadPos, Unsent, AtFile, InFile
<1> QED
  BY <1>4, <1>5, <1>6, <1>7, <1>8, <1>9, <1>10, <1>11, SlotSteps DEF InFile

LEMMA BeyondOneAnother ==
  ASSUME NEW x \in Nat, NEW y \in Nat, NEW n \in Nat, NEW i \in Nat, 0 < n, 0 < i, x + n = y + i
  PROVE  ~(x + n <= y) /\ ~(y + i <= x)
OBVIOUS

(* Two blocks of a thread never have the same number.                      *)
LEMMA SameNumber ==
  ASSUME NEW s \in Seq(Files), NEW c, Sums(s, c),
         NEW k \in 1 .. Len(s), NEW n \in Nat, 0 < n, n <= Delivers(s[k]),
         NEW j \in 1 .. Len(s), NEW i \in Nat, 0 < i, i <= Delivers(s[j]), c[k - 1] + n = c[j - 1] + i
  PROVE  k = j /\ n = i
<1>1. /\ c[k] \in Nat /\ c[k - 1] \in Nat /\ c[j] \in Nat /\ c[j - 1] \in Nat
      /\ k \in 0 .. Len(s) /\ j \in 0 .. Len(s) /\ Len(s) \in Nat
  <2>1. c[k] \in Nat /\ c[k - 1] \in Nat /\ c[j] \in Nat /\ c[j - 1] \in Nat
    BY SumTypes
  <2>2. Len(s) \in Nat
    OBVIOUS
  <2> QED
    BY <2>1, <2>2
<1>2. /\ k <= j - 1 => c[k - 1] + n <= c[j - 1]
      /\ j <= k - 1 => c[j - 1] + i <= c[k - 1]
  <2>1. \A l \in 0 .. Len(s) : /\ k <= l => c[k - 1] + n <= c[l]
                               /\ j <= l => c[j - 1] + i <= c[l]
    BY NumberOfBlock
  <2>2. j - 1 \in 0 .. Len(s) /\ k - 1 \in 0 .. Len(s)
    <3>1. \A x \in Nat : \A y \in 1 .. x : y - 1 \in 0 .. x
      OBVIOUS
    <3> QED
      BY <1>1, <3>1
  <2> QED
    BY <2>1, <2>2
<1>3. ~(k <= j - 1) /\ ~(j <= k - 1)
  BY <1>1, <1>2, BeyondOneAnother
<1>4. k = j
  BY <1>1, <1>3
<1> QED
  BY <1>1, <1>4

LEMMA InWindow ==
  ASSUME NEW lo \in Nat, NEW hi \in Nat, hi < lo + 4, NEW x \in Nat, lo < x, x <= hi
  PROVE  SlotOf(x) # SlotOf(hi + 1) /\ SlotOf(x) \in Ring
BY DEF SlotOf, Ring

LEMMA AboveWindow ==
  ASSUME NEW lo \in Nat, NEW hi \in Nat, hi <= lo + 4, NEW x \in Nat, lo + 1 < x, x <= hi
  PROVE  SlotOf(lo + 1) # SlotOf(x) /\ SlotOf(x) \in Ring
BY DEF SlotOf, Ring

(* The thread reads the next block into the ring, ...                      *)
LEMMA RingRead ==
  ASSUME NEW s \in Seq(Files), NEW c, Sums(s, c), NEW ring \in [Ring -> Blocks],
         NEW lo \in Nat, NEW hi \in Nat, lo <= hi, hi < lo + 4, InPlace(s, ring, c, lo, hi),
         NEW j \in 1 .. Len(s), NEW i \in Nat, 0 < i, i <= Delivers(s[j]), c[j - 1] + i = hi + 1
  PROVE  InPlace(s, [ring EXCEPT ![SlotOf(hi + 1)] = <<s[j], i>>], c, lo, hi + 1)
<1> DEFINE after == [ring EXCEPT ![SlotOf(hi + 1)] = <<s[j], i>>]
<1>1. SlotOf(hi + 1) \in Ring
  BY SlotRange
<1>2. after[SlotOf(hi + 1)] = <<s[j], i>> /\ \A x \in Ring \ {SlotOf(hi + 1)} : after[x] = ring[x]
  BY <1>1
<1> HIDE DEF after
<1> SUFFICES ASSUME NEW k \in 1 .. Len(s), NEW n \in Nat, 0 < n, n <= Delivers(s[k]),
                    lo < c[k - 1] + n, c[k - 1] + n <= hi + 1
             PROVE  after[SlotOf(c[k - 1] + n)] = <<s[k], n>>
  BY DEF InPlace, after
<1>3. c[k - 1] \in Nat /\ c[k - 1] + n \in Nat
  BY SumTypes, NatSum
<1>4. CASE c[k - 1] + n = hi + 1
  <2>1. c[k - 1] + n = c[j - 1] + i
    BY <1>4
  <2>2. k = j /\ n = i
    BY <2>1, SameNumber
  <2> QED
    BY <1>2, <1>4, <2>2
<1>5. CASE c[k - 1] + n <= hi
  <2>1. ring[SlotOf(c[k - 1] + n)] = <<s[k], n>>
    BY <1>5 DEF InPlace
  <2> DEFINE x == c[k - 1] + n
  <2>2. x \in Nat /\ lo < x /\ x <= hi
    BY <1>3, <1>5
  <2> HIDE DEF x
  <2>3. SlotOf(x) # SlotOf(hi + 1) /\ SlotOf(x) \in Ring
    BY <2>2, InWindow
  <2> QED
    BY <1>2, <2>1, <2>3 DEF x
<1>6. c[k - 1] + n = hi + 1 \/ c[k - 1] + n <= hi
  BY <1>3, SMTT(30)
<1> QED
  BY <1>4, <1>5, <1>6

(* ... and main takes the oldest one out.                                  *)
LEMMA RingTake ==
  ASSUME NEW s \in Seq(Files), NEW c, Sums(s, c), NEW ring \in [Ring -> Blocks],
         NEW lo \in Nat, NEW hi \in Nat, hi <= lo + 4, InPlace(s, ring, c, lo, hi)
  PROVE  InPlace(s, [ring EXCEPT ![SlotOf(lo + 1)] = NoBlock], c, lo + 1, hi)
<1> DEFINE after == [ring EXCEPT ![SlotOf(lo + 1)] = NoBlock]
<1>1. SlotOf(lo + 1) \in Ring
  BY SlotRange
<1>2. \A x \in Ring \ {SlotOf(lo + 1)} : after[x] = ring[x]
  BY <1>1
<1> HIDE DEF after
<1> SUFFICES ASSUME NEW k \in 1 .. Len(s), NEW n \in Nat, 0 < n, n <= Delivers(s[k]),
                    lo + 1 < c[k - 1] + n, c[k - 1] + n <= hi
             PROVE  after[SlotOf(c[k - 1] + n)] = <<s[k], n>>
  BY DEF InPlace, after
<1>3. c[k - 1] \in Nat /\ c[k - 1] + n \in Nat
  BY SumTypes, NatSum
<1>4. ring[SlotOf(c[k - 1] + n)] = <<s[k], n>>
  <2>1. lo < c[k - 1] + n
    BY <1>3
  <2> QED
    BY <1>3, <2>1 DEF InPlace
<1> DEFINE x == c[k - 1] + n
<1>5. x \in Nat /\ lo + 1 < x /\ x <= hi
  BY <1>3
<1> HIDE DEF x
<1>6. SlotOf(lo + 1) # SlotOf(x) /\ SlotOf(x) \in Ring
  BY <1>5, AboveWindow
<1> QED
  BY <1>2, <1>4, <1>6 DEF x

LEMMA TakenTypes ==
  ASSUME TypeOK, NEW t, NEW a, NEW c, c[a] \in Nat
  PROVE  TakenPos(t, a, c) \in Nat /\ got \in Nat
<1>1. got \in Nat
  BY DEF TypeOK
<1> QED
  BY <1>1, NatSum DEF TakenPos

LEMMA ThreadContent ==
  ASSUME TypeOK, NEW t \in Threads, ThreadOK(t), SlotsOK(t), CountsOK(t), ThreadSteps(t), ~opreadsDone,
         NEW a \in Nat, NEW c, Sums(linked[t], c), ContentOK(t, a, c)
  PROVE  ContentOK(t, a, c)'
<1> DEFINE lo == TakenPos(t, a, c)
           hi == ReadPos(t, c)
<1>1. /\ linked[t] \in Seq(Files) /\ sem[t].full \in Nat /\ sem[t].ins \in Nat /\ hi \in Nat
      /\ insBlock[t] \in [Ring -> Blocks] /\ next16K[t] \in 0 .. 3 /\ Unsent(t) \in 0 .. 1
  <2>1. linked[t] \in Seq(Files) /\ hi \in Nat
    BY ReadTypes
  <2>2. sem[t].full \in Nat /\ sem[t].ins \in Nat /\ next16K[t] \in 0 .. 3
    BY UnitTypes
  <2>3. insBlock[t] \in [Ring -> Blocks] /\ Unsent(t) \in 0 .. 1
    BY DEF TypeOK, Unsent
  <2> QED
    BY <2>1, <2>2, <2>3
<1>2. lo \in Nat
  BY SumAt, TakenTypes
<1>3. linked' = linked /\ next16K' = next16K /\ TakenPos(t, a, c)' = lo
  BY ThreadFrame DEF SameMain, TakenPos, MainAt, Using, T, Cur
<1>4. /\ sem[t].full + Unsent(t) + lo = hi /\ next16K[t] = SlotOf(lo)
      /\ InPlace(linked[t], insBlock[t], c, lo, hi)
  BY DEF ContentOK
<1> HIDE DEF lo, hi
<1>5. CASE pc[t] = "read"
  <2>1. /\ ReadPos(t, c)' = hi + 1 /\ sem'[t].full + Unsent(t)' = sem[t].full + Unsent(t) + 1
        /\ insBlock'[t] = [insBlock[t] EXCEPT ![nextBuffer[t]] = <<ThreadFile(t), blk[t] + 1>>]
    BY <1>5, ReadMoves, BlockSteps DEF hi
  <2>2. /\ lastOpened[t] \in 1 .. Len(linked[t]) /\ ThreadFile(t) = linked[t][lastOpened[t]]
        /\ blk[t] \in Nat /\ c[lastOpened[t] - 1] \in Nat /\ ReadBlocks(ThreadFile(t)) \in Nat
    BY <1>5, ReadTypes DEF AtFile, InFile
  <2>3. hi = c[lastOpened[t] - 1] + blk[t]
    BY <1>5 DEF ReadPos, AtFile, InFile, hi
  <2>4. blk[t] + 1 <= Delivers(linked[t][lastOpened[t]])
    <3>1. blk[t] < ReadBlocks(ThreadFile(t)) /\ Disk[ThreadFile(t)].found
      BY <1>5 DEF ThreadOK, SlotsOK, InFile
    <3>2. blk[t] \in Nat /\ ReadBlocks(ThreadFile(t)) \in Nat
      BY <2>2
    <3>3. blk[t] + 1 <= ReadBlocks(ThreadFile(t))
      BY <3>1, <3>2
    <3> QED
      BY <2>2, <3>1, <3>3 DEF Delivers
  <2>5. sem[t].full \in 0 .. 3 /\ hi = lo + sem[t].full
    <3>1. sem[t].full + sem[t].ins + 1 + Returning(t) = 4 /\ Returning(t) \in 0 .. 1
      BY <1>5 DEF CountsOK, Filling, Returning
    <3>2. Unsent(t) = 0
      BY <1>5 DEF Unsent
    <3>3. sem[t].full \in Nat /\ sem[t].ins \in Nat
      BY <1>1
    <3>4. sem[t].full + 0 + lo = hi
      BY <1>4, <3>2
    <3> QED
      BY <1>2, <3>1, <3>3, <3>4
  <2>6. nextBuffer[t] = SlotOf(hi + 1)
    <3>1. nextBuffer[t] = (next16K[t] + sem[t].full + 1) % 4 /\ next16K[t] = (3 + lo) % 4
      BY <1>4, <1>5 DEF CountsOK, Filling, SlotOf
    <3>2. (((3 + lo) % 4) + sem[t].full + 1) % 4 = (3 + (lo + sem[t].full + 1)) % 4
      BY <1>2, <2>5
    <3>3. (3 + (lo + sem[t].full + 1)) % 4 = SlotOf(hi + 1)
      BY <2>5 DEF SlotOf
    <3> QED
      BY <3>1, <3>2, <3>3
  <2>7. lo <= hi /\ hi < lo + 4
    BY <1>2, <2>5
  <2>8. blk[t] + 1 \in Nat /\ 0 < blk[t] + 1 /\ c[lastOpened[t] - 1] + (blk[t] + 1) = hi + 1
    <3>1. blk[t] \in Nat /\ c[lastOpened[t] - 1] \in Nat
      BY <2>2
    <3> QED
      BY <2>3, <3>1
  <2>9. InPlace(linked[t], [insBlock[t] EXCEPT ![SlotOf(hi + 1)] = <<linked[t][lastOpened[t]], blk[t] + 1>>], c, lo, hi + 1)
    <3>1. hi \in Nat /\ linked[t] \in Seq(Files) /\ insBlock[t] \in [Ring -> Blocks]
      BY <1>1
    <3>2. lastOpened[t] \in 1 .. Len(linked[t])
      BY <2>2
    <3> QED
      BY <1>2, <1>4, <2>4, <2>7, <2>8, <3>1, <3>2, RingRead
  <2>10. InPlace(linked'[t], insBlock'[t], c, lo, hi + 1)
    BY <1>3, <2>1, <2>2, <2>6, <2>9
  <2>11. sem'[t].full + Unsent(t)' + lo = hi + 1
    <3>1. sem[t].full \in Nat /\ Unsent(t) \in Nat /\ hi \in Nat
      BY <1>1
    <3> QED
      BY <1>2, <1>4, <2>1, <3>1
  <2>12. next16K'[t] = SlotOf(lo)
    BY <1>3, <1>4
  <2> QED
    BY <1>3, <2>1, <2>10, <2>11, <2>12 DEF ContentOK
<1>6. CASE pc[t] # "read"
  <2>1. /\ ReadPos(t, c)' = hi + 0 /\ sem'[t].full + Unsent(t)' = sem[t].full + Unsent(t) + 0
        /\ insBlock'[t] = insBlock[t]
    BY <1>6, ReadMoves, BlockSteps DEF hi
  <2>2. sem'[t].full + Unsent(t)' + lo = hi /\ ReadPos(t, c)' = hi
    <3>1. sem[t].full \in Nat /\ Unsent(t) \in Nat /\ hi \in Nat
      BY <1>1
    <3> QED
      BY <1>2, <1>4, <2>1, <3>1
  <2> QED
    BY <1>3, <1>4, <2>1, <2>2 DEF ContentOK
<1> QED
  BY <1>5, <1>6

LEMMA ContentUnmoved ==
  ASSUME NEW u \in Threads, NEW a, NEW b, NEW c, ContentOK(u, a, c),
         pc'[u] = pc[u], lastOpened'[u] = lastOpened[u], blk'[u] = blk[u], linked'[u] = linked[u],
         sem'[u].full = sem[u].full, next16K'[u] = next16K[u], insBlock'[u] = insBlock[u],
         TakenPos(u, b, c)' = TakenPos(u, a, c)
  PROVE  ContentOK(u, b, c)'
<1>1. ReadPos(u, c)' = ReadPos(u, c) /\ Unsent(u)' = Unsent(u)
  BY DEF ReadPos, Unsent
<1> QED
  BY <1>1 DEF ContentOK

LEMMA ThreadCInv ==
  ASSUME BInv, NEW p \in [Threads -> Nat], SInv(p), NEW cum, CInv(p, cum), NEW t \in Threads, OpRead(t)
  PROVE  CInv(p, cum)'
<1>1. /\ mpc # "exited" /\ TypeOK /\ MainOK /\ ThreadOK(t) /\ SlotsOK(t)
      /\ \A u \in Threads : Sums(linked[u], cum[u])
      /\ Active => TakenOK /\ \A u \in Threads : ContentOK(u, p[u], cum[u])
  BY DEF OpRead, BInv, SInv, CInv
<1>2. CASE ReadFails(t)
  BY <1>1, <1>2 DEF ReadFails, CInv
<1>3. CASE ThreadSteps(t)
  <2>1. SameMain /\ OnlyAt(t)
    BY <1>1, <1>3, ThreadFrame
  <2>2. (Active' <=> Active) /\ \A u \in Threads : Sums(linked[u], cum[u])'
    BY <1>1, <2>1 DEF SameMain, Active
  <2>3. ASSUME Active PROVE TakenOK'
    <3>1. TakenOK
      BY <1>1, <2>3
    <3> QED
      BY <2>1, <3>1 DEF SameMain, TakenOK, Cur
  <2>4. ASSUME Active, NEW u \in Threads \ {t} PROVE ContentOK(u, p[u], cum[u])'
    <3>1. Same(u) /\ ContentOK(u, p[u], cum[u])
      BY <1>1, <2>1, <2>4 DEF OnlyAt
    <3>2. TakenPos(u, p[u], cum[u])' = TakenPos(u, p[u], cum[u])
      BY <2>1 DEF SameMain, TakenPos, MainAt, Using, T, Cur
    <3> QED
      BY <3>1, <3>2, ContentUnmoved DEF Same
  <2>5. ASSUME Active PROVE ContentOK(t, p[t], cum[t])'
    <3>1. ~opreadsDone
      BY <1>1, <2>5 DEF MainOK, Active
    <3>2. CountsOK(t) /\ Sums(linked[t], cum[t]) /\ ContentOK(t, p[t], cum[t])
      BY <1>1, <2>5, <3>1 DEF BInv
    <3>3. p[t] \in Nat
      OBVIOUS
    <3> QED
      BY <1>1, <1>3, <3>1, <3>2, <3>3, ThreadContent
  <2> QED
    BY <1>1, <2>2, <2>3, <2>4, <2>5 DEF CInv
<1> QED
  BY <1>2, <1>3 DEF OpRead, ThreadSteps

(* Main deals a file: what its thread will deliver is added up.            *)
LEMMA SumsExtended ==
  ASSUME NEW s \in Seq(Files), NEW c, Sums(s, c), NEW f \in Files, NEW e,
         e = [k \in Nat |-> IF k = Len(s) + 1 THEN c[Len(s)] + Delivers(f) ELSE c[k]]
  PROVE  /\ Sums(Append(s, f), e)
         /\ \A k \in 0 .. Len(s) : e[k] = c[k]
<1>1. /\ Len(Append(s, f)) = Len(s) + 1 /\ Len(s) \in Nat
      /\ \A i \in 1 .. Len(s) : Append(s, f)[i] = s[i]
      /\ Append(s, f)[Len(s) + 1] = f
  BY ElementsAppend
<1>2. PICK n \in Nat : n = Len(s)
  BY <1>1
<1>3. PICK r : r = Append(s, f)
  OBVIOUS
<1>4. /\ Len(r) = n + 1 /\ \A i \in 1 .. n : r[i] = s[i]
      /\ r[n + 1] = f
  BY <1>1, <1>2, <1>3
<1>5. PICK x \in Nat : x = c[n] + Delivers(f) /\ c[n] <= x
  <2>1. c[n] \in Nat /\ Delivers(f) \in Nat
    BY FileSizes, SumAt
  <2>2. c[n] + Delivers(f) \in Nat /\ c[n] <= c[n] + Delivers(f)
    BY <2>1
  <2> QED
    BY <2>2
<1>6. e = [k \in Nat |-> IF k = n + 1 THEN x ELSE c[k]]
  BY <1>2, <1>5
<1>7. \A k \in Nat : c[k] \in Nat
  BY SumAt
<1>8. e \in [Nat -> Nat] /\ e[n + 1] = x /\ \A k \in Nat \ {n + 1} : e[k] = c[k]
  <2>1. \A k \in Nat : (IF k = n + 1 THEN x ELSE c[k]) \in Nat
    BY <1>7
  <2>2. e \in [Nat -> Nat]
    BY <1>6, <2>1
  <2>3. e[n + 1] = x
    BY <1>6
  <2>4. \A k \in Nat \ {n + 1} : e[k] = c[k]
    BY <1>6
  <2> QED
    BY <2>2, <2>3, <2>4
<1>9. \A k \in 0 .. n : k \in Nat /\ e[k] = c[k]
  <2>1. \A k \in 0 .. n : k \in Nat \ {n + 1}
    OBVIOUS
  <2> QED
    BY <1>8, <2>1
<1>10. /\ c[0] = 0 /\ \A k \in 1 .. n : c[k] = c[k - 1] + Delivers(s[k])
       /\ \A k \in 0 .. n : \A j \in 0 .. k : c[j] <= c[k]
  BY <1>2 DEF Sums
<1>11. e[0] = 0
  BY <1>9, <1>10
<1>12. ASSUME NEW k \in 1 .. n + 1 PROVE e[k] = e[k - 1] + Delivers(r[k])
  <2>1. CASE k \in 1 .. n
    <3>1. k - 1 \in 0 .. n /\ k \in 0 .. n
      BY <2>1
    <3> QED
      BY <1>4, <1>9, <1>10, <2>1, <3>1
  <2>2. CASE k = n + 1
    <3>1. k - 1 = n /\ n \in 0 .. n
      BY <2>2
    <3> QED
      BY <1>4, <1>5, <1>8, <1>9, <2>2, <3>1
  <2>3. k \in 1 .. n \/ k = n + 1
    OBVIOUS
  <2> QED
    BY <2>1, <2>2, <2>3
<1>13. ASSUME NEW k \in 0 .. n + 1, NEW j \in 0 .. k PROVE e[j] <= e[k]
  <2>1. CASE k \in 0 .. n
    <3>1. j \in 0 .. n /\ c[j] <= c[k]
      BY <1>10, <2>1
    <3> QED
      BY <1>9, <2>1, <3>1
  <2>2. CASE k = n + 1 /\ j \in 0 .. n
    <3>1. n \in 0 .. n /\ c[j] <= c[n]
      BY <1>10, <2>2
    <3>2. c[j] \in Nat /\ c[n] \in Nat
      BY <1>9, <2>2, SumAt
    <3>3. c[j] <= x
      BY <1>5, <3>1, <3>2
    <3> QED
      BY <1>8, <1>9, <2>2, <3>3
  <2>3. CASE k = n + 1 /\ j = k
    BY <1>8, <2>3
  <2>4. k \in 0 .. n \/ (k = n + 1 /\ (j \in 0 .. n \/ j = k))
    OBVIOUS
  <2> QED
    BY <2>1, <2>2, <2>3, <2>4
<1>14. Sums(r, e)
  BY <1>4, <1>8, <1>11, <1>12, <1>13 DEF Sums
<1> QED
  BY <1>2, <1>3, <1>9, <1>14

LEMMA InPlaceExtended ==
  ASSUME NEW s \in Seq(Files), NEW c, Sums(s, c), NEW f \in Files, NEW e,
         e = [k \in Nat |-> IF k = Len(s) + 1 THEN c[Len(s)] + Delivers(f) ELSE c[k]],
         NEW ring, NEW lo \in Nat, NEW hi \in Nat, hi <= c[Len(s)], InPlace(s, ring, c, lo, hi)
  PROVE  InPlace(Append(s, f), ring, e, lo, hi)
<1>1. /\ Len(Append(s, f)) = Len(s) + 1 /\ Len(s) \in Nat
      /\ \A i \in 1 .. Len(s) : Append(s, f)[i] = s[i]
  BY ElementsAppend
<1>2. PICK m \in Nat : m = Len(s)
  BY <1>1
<1>3. PICK r : r = Append(s, f)
  OBVIOUS
<1>4. Len(r) = m + 1 /\ \A i \in 1 .. m : r[i] = s[i]
  BY <1>1, <1>2, <1>3
<1>5. \A k \in 0 .. m : e[k] = c[k]
  BY <1>2, SumsExtended
<1>6. hi <= c[m]
  BY <1>2
<1>7. \A k \in 1 .. m : \A n \in Nat :
        0 < n /\ n <= Delivers(s[k]) /\ lo < c[k - 1] + n /\ c[k - 1] + n <= hi =>
          ring[SlotOf(c[k - 1] + n)] = <<s[k], n>>
  BY <1>2 DEF InPlace
<1>8. ASSUME NEW k \in 1 .. m + 1, NEW n \in Nat, 0 < n, n <= Delivers(r[k]),
             lo < e[k - 1] + n, e[k - 1] + n <= hi
      PROVE  ring[SlotOf(e[k - 1] + n)] = <<r[k], n>>
  <2>1. k - 1 \in 0 .. m /\ k - 1 \in Nat /\ (k = m + 1 \/ k \in 1 .. m)
    OBVIOUS
  <2>2. e[k - 1] = c[k - 1] /\ c[k - 1] \in Nat
    BY <1>5, <2>1, SumAt
  <2>3. k # m + 1
    <3>1. CASE k = m + 1
      <4>1. k - 1 = m
        BY <3>1
      <4>2. c[m] \in Nat /\ c[m] + n <= hi
        BY <1>8, <2>2, <4>1
      <4> QED
        BY <1>6, <1>8, <4>2
    <3> QED
      BY <3>1
  <2>4. k \in 1 .. m /\ r[k] = s[k]
    BY <1>4, <2>1, <2>3
  <2> QED
    BY <1>7, <1>8, <2>2, <2>4
<1>9. InPlace(r, ring, e, lo, hi)
  BY <1>4, <1>8 DEF InPlace
<1> QED
  BY <1>3, <1>9

LEMMA DealContent ==
  ASSUME TypeOK, NEW f \in Files, LinkToThread(f), NEW t \in Threads, t = Dealer, ThreadOK(t), SlotsOK(t), ~opreadsDone,
         NEW a \in 0 .. Len(linked[t]), NEW c, Sums(linked[t], c), ContentOK(t, a, c),
         (MainAt(t))' <=> MainAt(t), NEW e,
         e = [k \in Nat |-> IF k = Len(linked[t]) + 1 THEN c[Len(linked[t])] + Delivers(f) ELSE c[k]]
  PROVE  ContentOK(t, a, e)'
<1>1. /\ linked[t] \in Seq(Files) /\ Len(linked[t]) \in Nat /\ lastOpened[t] \in 0 .. Len(linked[t])
      /\ ReadPos(t, c) \in Nat /\ c[lastOpened[t]] \in Nat /\ (pc[t] \in AtFile => lastOpened[t] \in 1 .. Len(linked[t]))
  BY ReadTypes
<1>2. /\ pc'[t] = (IF pc[t] = "unborn" THEN "getstruc" ELSE pc[t])
      /\ linked'[t] = Append(linked[t], f) /\ sem'[t].full = sem[t].full
      /\ lastOpened' = lastOpened /\ blk' = blk /\ insBlock' = insBlock /\ next16K' = next16K
  BY DealtTo, UnitTypes DEF SemNames
<1>3. got' = got
  BY DEF LinkToThread
<1>4. \A k \in 0 .. Len(linked[t]) : e[k] = c[k]
  <2>1. linked[t] \in Seq(Files)
    BY <1>1
  <2> QED
    BY <2>1, SumsExtended
<1>5. TakenPos(t, a, e)' = TakenPos(t, a, c)
  <2>1. e[a] = c[a]
    BY <1>4
  <2> QED
    BY <1>3, <2>1 DEF TakenPos
<1>6. ReadPos(t, e)' = ReadPos(t, c)
  <2>1. CASE pc[t] \in AtFile
    <3>1. lastOpened[t] - 1 \in 0 .. Len(linked[t])
      <4>1. lastOpened[t] \in 1 .. Len(linked[t]) /\ Len(linked[t]) \in Nat
        BY <1>1, <2>1
      <4> QED
        BY <4>1
    <3>2. e[lastOpened[t] - 1] = c[lastOpened[t] - 1]
      BY <1>4, <3>1
    <3>3. pc'[t] = pc[t]
      BY <1>2, <2>1 DEF AtFile, InFile
    <3>4. ReadPos(t, e)' = IF pc[t] = "open" THEN e[lastOpened[t] - 1] ELSE e[lastOpened[t] - 1] + blk[t]
      BY <1>2, <2>1, <3>3 DEF ReadPos
    <3>5. ReadPos(t, c) = IF pc[t] = "open" THEN c[lastOpened[t] - 1] ELSE c[lastOpened[t] - 1] + blk[t]
      BY <2>1 DEF ReadPos
    <3> QED
      BY <3>2, <3>4, <3>5
  <2>2. CASE pc[t] \notin AtFile
    <3>1. pc'[t] \notin AtFile /\ pc'[t] # "open" /\ pc[t] # "open"
      BY <1>2, <2>2 DEF AtFile, InFile
    <3> QED
      BY <1>1, <1>2, <1>4, <2>2, <3>1 DEF ReadPos
  <2> QED
    BY <2>1, <2>2
<1>7. Unsent(t)' = Unsent(t)
  BY <1>2 DEF Unsent
<1>8. ReadPos(t, c) <= c[Len(linked[t])]
  <2>1. ReadPos(t, c) <= c[lastOpened[t]]
    BY ReadBound
  <2>2. Len(linked[t]) \in 0 .. Len(linked[t]) /\ lastOpened[t] \in 0 .. Len(linked[t])
    BY <1>1
  <2>3. c[lastOpened[t]] <= c[Len(linked[t])]
    BY <2>2 DEF Sums
  <2>4. c[Len(linked[t])] \in Nat /\ c[lastOpened[t]] \in Nat /\ ReadPos(t, c) \in Nat
    BY <1>1, SumAt
  <2> QED
    BY <2>1, <2>3, <2>4
<1>9. a \in Nat /\ TakenPos(t, a, c) \in Nat
  <2>1. a \in Nat
    BY <1>1
  <2>2. c[a] \in Nat
    BY <2>1, SumAt
  <2> QED
    BY <2>1, <2>2, TakenTypes
<1>10. /\ sem[t].full + Unsent(t) + TakenPos(t, a, c) = ReadPos(t, c) /\ next16K[t] = SlotOf(TakenPos(t, a, c))
       /\ InPlace(linked[t], insBlock[t], c, TakenPos(t, a, c), ReadPos(t, c))
  BY DEF ContentOK
<1> DEFINE lo == TakenPos(t, a, c)
           hi == ReadPos(t, c)
<1>11. lo \in Nat /\ hi \in Nat /\ hi <= c[Len(linked[t])] /\ InPlace(linked[t], insBlock[t], c, lo, hi)
  BY <1>1, <1>8, <1>9, <1>10
<1> HIDE DEF lo, hi
<1>12. InPlace(linked'[t], insBlock'[t], e, lo, hi)
  <2>1. linked[t] \in Seq(Files)
    BY <1>1
  <2>2. InPlace(Append(linked[t], f), insBlock[t], e, lo, hi)
    BY <1>11, <2>1, InPlaceExtended
  <2> QED
    BY <1>2, <2>2
<1> QED
  BY <1>2, <1>5, <1>6, <1>7, <1>10, <1>12 DEF ContentOK, lo, hi

LEMMA DealCInv ==
  ASSUME BInv, NEW d, NEW m, NEW p, DInv(d, m, p), SInv(p), NEW cum, CInv(p, cum),
         NEW f \in Files, LinkToThread(f), LinkFile \/ LinkDefault
  PROVE  \E e : CInv(p, e)'
<1>1. /\ mpc # "exited" /\ TypeOK /\ MainOK /\ \A u \in Threads : ThreadOK(u) /\ SlotsOK(u)
      /\ \A u \in Threads : Sums(linked[u], cum[u])
      /\ Active => TakenOK /\ \A u \in Threads : ContentOK(u, p[u], cum[u])
  BY DEF LinkFile, LinkDefault, BInv, SInv, CInv
<1>2. PICK t \in Threads : t = Dealer
  BY <1>1, DealtTo
<1>3. /\ linked[t] \in Seq(Files) /\ Sums(linked[t], cum[t])
      /\ linked'[t] = Append(linked[t], f) /\ \A u \in Threads \ {t} : Same(u)
  <2>1. linked'[t] = Append(linked[t], f) /\ OnlyAt(t)
    BY <1>1, <1>2, DealtTo
  <2> QED
    BY <1>1, <2>1 DEF TypeOK, OnlyAt
<1> DEFINE g0 == [k \in Nat |-> IF k = Len(linked[t]) + 1 THEN cum[t][Len(linked[t])] + Delivers(f) ELSE cum[t][k]]
<1>g. PICK g : g = g0
  OBVIOUS
<1>e. PICK e : e = [u \in Threads |-> IF u = t THEN g ELSE cum[u]]
  OBVIOUS
<1>4. Sums(linked'[t], g)
  <2>1. linked[t] \in Seq(Files) /\ Sums(linked[t], cum[t])
    BY <1>3
  <2>2. Sums(Append(linked[t], f), g)
    BY <1>g, <2>1, SumsExtended
  <2> QED
    BY <1>3, <2>2
<1>5. e[t] = g /\ \A u \in Threads \ {t} : e[u] = cum[u]
  BY <1>e
<1>6. \A u \in Threads : Sums(linked'[u], e[u])
  <2>1. \A u \in Threads \ {t} : linked'[u] = linked[u]
    BY <1>3 DEF Same
  <2> QED
    BY <1>1, <1>4, <1>5, <2>1
<1>7. Using => Cur' = Cur /\ T' = T
  BY <1>1, FrontStays DEF LinkFile, MainOK, Using
<1>8. /\ mpc' = mpc /\ got' = got /\ mblock' = mblock /\ bufcnt' = bufcnt /\ (Active' <=> Active)
      /\ opreadsDone' = opreadsDone /\ (Using' <=> Using)
  <2>1. got' = got /\ mblock' = mblock /\ bufcnt' = bufcnt /\ opreadsDone' = opreadsDone
    BY DEF LinkToThread
  <2>2. CASE LinkFile
    BY <2>1, <2>2 DEF LinkFile, LinkToThread, Active, Using
  <2>3. CASE LinkDefault
    BY <2>1, <2>3 DEF LinkDefault, LinkToThread, Active, Using
  <2> QED
    BY <2>2, <2>3
<1>9. \A u \in Threads : (MainAt(u))' <=> MainAt(u)
  BY <1>7, <1>8 DEF MainAt
<1>10. ASSUME Active PROVE TakenOK'
  <2>1. TakenOK
    BY <1>1, <1>10
  <2>2. CASE Using
    BY <1>7, <1>8, <2>1, <2>2 DEF TakenOK
  <2>3. CASE ~Using
    <3>1. mpc' \notin {"header", "tables", "fill", "taken", "parse", "done"}
      BY <1>8, <2>3 DEF Using
    <3> QED
      BY <1>8, <2>1, <3>1 DEF TakenOK
  <2> QED
    BY <2>2, <2>3
<1>11. ASSUME Active, NEW u \in Threads \ {t} PROVE ContentOK(u, p[u], e[u])'
  <2>1. Same(u) /\ ContentOK(u, p[u], cum[u]) /\ e[u] = cum[u]
    BY <1>1, <1>3, <1>5, <1>11
  <2>2. TakenPos(u, p[u], cum[u])' = TakenPos(u, p[u], cum[u])
    BY <1>8, <1>9 DEF TakenPos
  <2>3. ContentOK(u, p[u], cum[u])'
    BY <2>1, <2>2, ContentUnmoved DEF Same
  <2> QED
    BY <2>1, <2>3
<1>12. ASSUME Active PROVE ContentOK(t, p[t], e[t])'
  <2>1. ~opreadsDone /\ ContentOK(t, p[t], cum[t])
    BY <1>1, <1>12 DEF MainOK, Active
  <2>2. p[t] \in 0 .. Len(linked[t])
    BY <1>1, BehindBound
  <2>3. ThreadOK(t) /\ SlotsOK(t) /\ ((MainAt(t))' <=> MainAt(t))
    BY <1>1, <1>9
  <2>4. ContentOK(t, p[t], g)'
    <3>1. linked[t] \in Seq(Files) /\ Sums(linked[t], cum[t])
      BY <1>3
    <3> QED
      BY <1>1, <1>2, <1>g, <2>1, <2>2, <2>3, <3>1, DealContent
  <2> QED
    BY <1>5, <2>4
<1>13. CInv(p, e)'
  BY <1>5, <1>6, <1>8, <1>10, <1>11, <1>12 DEF CInv
<1> QED
  BY <1>13

(* Main stays at its file and takes no block.                              *)
LEMMA StayTaken ==
  ASSUME BInv, NEW d, NEW m, NEW p, DInv(d, m, p), TakenOK, mpc' # "exited", 
         Linked \/ ReadLibHeader \/ ReadOldTables \/ FillPastEnd \/ FillDone \/ Parse
  PROVE  TakenOK'
<1>1. mpc # "exited" /\ TypeOK /\ MainOK /\ KindsOK
  BY DEF Linked, ReadLibHeader, ReadOldTables, FillPastEnd, FillDone, Parse, BInv, DInv
<1>2. todo' = todo /\ Cur' = Cur /\ got' = got /\ mblock' = mblock /\ got \in Nat
  BY <1>1 DEF Linked, ReadLibHeader, ReadOldTables, FillPastEnd, FillDone, Parse, Cur, TypeOK
<1>3. CASE Linked
  BY <1>2, <1>3 DEF Linked, MainGoto, TakenOK
<1>4. Using => Cur \in Files /\ Cur \in Elements(todo) /\ Disk[Cur].full \in Nat /\ Pages(Cur) \in Nat /\ NeedBlocks(Cur) \in Nat
  <2>1. Using => Cur \in Files /\ Cur \in Elements(todo)
    BY <1>1, CurFile, ElementsTail, ZenonT(30) DEF MainOK, TypeOK, Cur
  <2> QED
    BY <2>1, FileSizes
<1>5. CASE ReadLibHeader
  <2>1. mpc = "header" /\ mpc' = "fill" /\ Disk[Cur].isLib /\ Using
    BY <1>5 DEF ReadLibHeader, MainGoto, Using
  <2>2. got = 0 /\ mblock = NoBlock /\ Disk[Cur].kind = "LIB"
    BY <2>1 DEF TakenOK
  <2>3. ~libsDone
    <3>1. 1 \in DOMAIN todo /\ Cur = todo[1]
      BY <1>1, <2>1, CurFile, LenProperties DEF MainOK, TypeOK
    <3> QED
      BY <1>1, <2>2, <3>1 DEF KindsOK, TailFile
  <2>4. Pages(Cur) > 0 /\ NeedBlocks(Cur) = Pages(Cur)
    BY <1>1, <1>4, <2>1, <2>2, <2>3 DEF KindsOK, InputFile, HasBlocks, NeedBlocks
  <2> QED
    BY <1>2, <1>4, <2>1, <2>2, <2>4 DEF TakenOK
<1>6. CASE ReadOldTables
  <2>1. mpc = "tables" /\ Using /\ mpc' = (IF NeedBlocks(Cur) = 0 THEN "done" ELSE "fill")
    BY <1>6 DEF ReadOldTables, MainGoto, Using
  <2>2. got = 0 /\ mblock = NoBlock /\ Disk[Cur].kind = "OLD"
    BY <2>1 DEF TakenOK
  <2> QED
    BY <1>2, <1>4, <2>1, <2>2 DEF TakenOK
<1>7. CASE FillPastEnd
  BY <1>7 DEF FillPastEnd, MainGoto
<1>8. CASE FillDone
  <2>1. mpc = "taken" /\ mpc' = "parse" /\ Using /\ (Disk[Cur].kind # "OLD" => bufcnt' = bufcnt)
    BY <1>8 DEF FillDone, MainGoto, Using
  <2> QED
    BY <1>2, <2>1 DEF TakenOK
<1>9. CASE Parse
  <2>1. mpc = "parse" /\ Using
    BY <1>9 DEF Parse, Using
  <2>2. CASE Disk[Cur].kind = "OBJ"
    <3>1. got \in 1 .. Disk[Cur].full + 1 /\ bufcnt = (IF got <= Disk[Cur].full THEN -1 ELSE 1) /\ mblock = <<Cur, got>>
      BY <2>1, <2>2 DEF TakenOK
    <3>2. /\ mpc' \in {"done", "fill"} /\ (mpc' = "done" => bufcnt = 1)
          /\ bufcnt' = bufcnt \/ bufcnt' = bufcnt - 1
          /\ bufcnt = 1 /\ mpc' = "fill" => bufcnt' = bufcnt
      BY <1>9, <2>2 DEF Parse, MainGoto
    <3>3. (bufcnt = 1 <=> got = Disk[Cur].full + 1) /\ got # 0 /\ got <= Disk[Cur].full + 1 /\ (bufcnt # 1 => got <= Disk[Cur].full)
      BY <1>2, <1>4, <2>1, <3>1
    <3> QED
      BY <1>2, <2>2, <3>1, <3>2, <3>3 DEF TakenOK
  <2>3. CASE Disk[Cur].kind # "OBJ"
    <3>1. got \in 1 .. NeedBlocks(Cur) /\ mblock = <<Cur, got>> /\ (Disk[Cur].kind = "LIB" => Disk[Cur].isLib)
      BY <2>1, <2>3 DEF TakenOK
    <3>2. mpc' = (IF got < NeedBlocks(Cur) THEN "fill" ELSE "done")
      BY <1>9, <2>3 DEF Parse, MainGoto
    <3>3. got # 0 /\ (~(got < NeedBlocks(Cur)) => got = NeedBlocks(Cur))
      BY <1>2, <1>4, <2>1, <3>1
    <3> QED
      BY <1>2, <2>3, <3>1, <3>2, <3>3 DEF TakenOK
  <2> QED
    BY <2>2, <2>3
<1> QED
  BY <1>3, <1>5, <1>6, <1>7, <1>8, <1>9

LEMMA StayCInv ==
  ASSUME BInv, NEW d, NEW m, NEW p, DInv(d, m, p), NEW cum, CInv(p, cum),
         Linked \/ ReadLibHeader \/ ReadOldTables \/ FillPastEnd \/ FillDone \/ Parse
  PROVE  CInv(p, cum)'
<1>1. /\ mpc # "exited" /\ TypeOK /\ MainOK
      /\ \A u \in Threads : Sums(linked[u], cum[u])
      /\ Active => TakenOK /\ \A u \in Threads : ContentOK(u, p[u], cum[u])
  BY DEF Linked, ReadLibHeader, ReadOldTables, FillPastEnd, FillDone, Parse, BInv, CInv
<1> SUFFICES ASSUME mpc' # "exited"
             PROVE  /\ \A u \in Threads : Sums(linked[u], cum[u])'
                    /\ Active' => TakenOK' /\ \A u \in Threads : ContentOK(u, p[u], cum[u])'
  BY <1>1 DEF CInv
<1>2. /\ Using' <=> Using
      /\ UNCHANGED <<pc, lastOpened, blk, linked, todo, thread, insBlock, next16K, libsDone, got>>
  BY DEF Linked, ReadLibHeader, ReadOldTables, FillPastEnd, FillDone, Parse, MainGoto, Using,
         threadVars, ringVars, mainRing
<1>3. (Active' <=> Active) /\ \A u \in Threads : TakenPos(u, p[u], cum[u])' = TakenPos(u, p[u], cum[u])
  BY <1>2 DEF Active, Cur, T, TakenPos, MainAt
<1>4. ASSUME NEW u \in Threads PROVE sem'[u].full = sem[u].full
  <2>1. CASE Linked \/ ReadOldTables \/ FillPastEnd \/ Parse
    BY <2>1 DEF Linked, ReadOldTables, FillPastEnd, Parse, ringVars
  <2>2. CASE ReadLibHeader \/ FillDone
    <3>1. T \in Threads /\ sem \in [Threads -> [SemNames -> Nat]]
      BY <1>1, <2>2, CurFile DEF ReadLibHeader, FillDone, MainOK, Using, TypeOK
    <3> QED
      BY <2>2, <3>1 DEF ReadLibHeader, FillDone, Take, Post, SemNames
  <2> QED
    BY <2>1, <2>2
<1>5. \A u \in Threads : Sums(linked[u], cum[u])'
  BY <1>1, <1>2
<1>6. ASSUME Active, NEW u \in Threads PROVE ContentOK(u, p[u], cum[u])'
  BY <1>1, <1>2, <1>3, <1>4, <1>6, ContentUnmoved
<1> QED
  BY <1>1, <1>3, <1>5, <1>6, StayTaken

(* Main takes the next block of the ring: it is the one main wants.        *)
LEMMA BlockTaken ==
  ASSUME BInv, NEW d, NEW m, NEW p, DInv(d, m, p), SInv(p), NEW cum, CInv(p, cum), Fill, Active,
         NEW t \in Threads, t = T
  PROVE  /\ insBlock[t][Follow(next16K[t])] = <<Cur, got + 1>> /\ got + 1 \in Nat
         /\ got < Delivers(Cur) /\ Delivers(Cur) = ReadBlocks(Cur)
         /\ ContentOK(t, p[t], cum[t])'
<1> DEFINE a == p[t]
           c == cum[t]
           s == linked[t]
           lo == c[a] + got
           hi == ReadPos(t, c)
<1>1. /\ mpc = "fill" /\ Using /\ TypeOK /\ MainOK /\ ThreadOK(t) /\ SlotsOK(t) /\ ~opreadsDone /\ todo # <<>>
      /\ toLink = <<>> /\ CountsOK(t) /\ MainFileOK
  BY DEF Fill, Using, MainOK, BInv, SInv
<1>2. TakenOK /\ ContentOK(t, a, c) /\ Sums(s, c) /\ s \in Seq(Files) /\ p \in [Threads -> Nat]
  BY <1>1 DEF CInv, DInv, TypeOK
<1>3. a \in Nat /\ got \in Nat /\ c[a] \in Nat /\ hi \in Nat
  <2>1. a \in Nat /\ got \in Nat
    BY <1>1, <1>2 DEF TypeOK
  <2>2. hi \in Nat
    BY <1>1, <1>2, ReadTypes
  <2>3. c[a] \in Nat
    BY <1>2, <2>1, SumAt
  <2> QED
    BY <2>1, <2>2, <2>3
<1>4. a + 1 \in 1 .. Len(s) /\ s[a + 1] = Cur /\ Cur \in Files
  BY <1>1, CurrentFile
<1>5. got < Delivers(Cur) /\ Delivers(Cur) = ReadBlocks(Cur)
  <2>1. Disk[Cur].found /\ Delivers(Cur) = ReadBlocks(Cur)
    BY <1>1 DEF MainFileOK, Delivers
  <2>2. NeedBlocks(Cur) <= ReadBlocks(Cur) /\ (Disk[Cur].kind = "OBJ" => ReadBlocks(Cur) = Disk[Cur].full + 1)
    BY <1>4, NeedFits
  <2>3. NeedBlocks(Cur) \in Nat /\ ReadBlocks(Cur) \in Nat /\ Disk[Cur].full \in Nat
    BY <1>4, FileSizes
  <2>4. IF Disk[Cur].kind = "OBJ" THEN got <= Disk[Cur].full ELSE got < NeedBlocks(Cur)
    BY <1>1, <1>2 DEF TakenOK, Fill
  <2> QED
    BY <1>3, <2>1, <2>2, <2>3, <2>4
<1>6. TakenPos(t, a, c) = lo /\ lo \in Nat
  BY <1>1, <1>3 DEF TakenPos, MainAt
<1>7. /\ sem[t].full + Unsent(t) + lo = hi /\ next16K[t] = SlotOf(lo)
      /\ InPlace(s, insBlock[t], c, lo, hi)
  BY <1>2, <1>6 DEF ContentOK
<1>8. sem[t].full \in Nat /\ sem[t].full > 0 /\ Unsent(t) \in 0 .. 1 /\ hi <= lo + 4 /\ lo + 1 <= hi
  <2>1. sem[t].full \in Nat /\ sem[t].ins \in Nat /\ sem[t].full > 0
    BY <1>1, UnitTypes DEF Fill, Take
  <2>2. sem[t].full + sem[t].ins + Filling(t) + Returning(t) = 4 /\ Returning(t) = 0
    BY <1>1 DEF CountsOK, Returning
  <2>3. Unsent(t) \in 0 .. 1 /\ Filling(t) \in 0 .. 1 /\ Unsent(t) <= Filling(t)
    BY DEF Unsent, Filling
  <2> HIDE DEF lo, hi
  <2> QED
    BY <1>3, <1>6, <1>7, <2>1, <2>2, <2>3
<1>9. insBlock[t][SlotOf(lo + 1)] = <<Cur, got + 1>>
  <2>1. (a + 1) - 1 = a /\ got + 1 \in Nat /\ 0 < got + 1 /\ got + 1 <= Delivers(Cur)
    <3>1. Delivers(Cur) \in Nat
      BY <1>4, FileSizes
    <3> QED
      BY <1>3, <1>5, <3>1
  <2>2. c[a] + (got + 1) = lo + 1 /\ lo < lo + 1
    BY <1>3
  <2> HIDE DEF lo, hi, a
  <2>3. lo < c[(a + 1) - 1] + (got + 1) /\ c[(a + 1) - 1] + (got + 1) <= hi
    BY <1>8, <2>1, <2>2
  <2>4. insBlock[t][SlotOf(c[(a + 1) - 1] + (got + 1))] = <<s[a + 1], got + 1>>
    BY <1>4, <1>7, <2>1, <2>3 DEF InPlace
  <2> QED
    BY <1>4, <2>1, <2>2, <2>4
<1>10. Follow(next16K[t]) = SlotOf(lo + 1)
  BY <1>6, <1>7, SlotRange
<1>11. ContentOK(t, a, c)'
  <2>1. /\ sem'[t].full = sem[t].full - 1 /\ next16K'[t] = SlotOf(lo + 1)
        /\ insBlock'[t] = [insBlock[t] EXCEPT ![SlotOf(lo + 1)] = NoBlock]
    <3> HIDE DEF lo
    <3> QED
      BY <1>1, <1>10, UnitTypes DEF Fill, Take, SemNames, TypeOK
  <2>2. TakenPos(t, a, c)' = lo + 1
    <3>1. T' = t /\ got' = got + 1 /\ Using'
      BY DEF Fill, MainGoto, T, Cur, Using
    <3>2. TakenPos(t, a, c)' = c[a] + (got + 1)
      BY <3>1 DEF TakenPos, MainAt
    <3> QED
      BY <1>3, <3>2
  <2>3. ReadPos(t, c)' = hi /\ Unsent(t)' = Unsent(t) /\ linked' = linked
    BY DEF Fill, threadVars, ReadPos, Unsent
  <2>4. insBlock[t] \in [Ring -> Blocks]
    BY <1>1 DEF TypeOK
  <2> HIDE DEF lo, hi
  <2>5. InPlace(s, insBlock'[t], c, lo + 1, hi)
    <3>1. s \in Seq(Files) /\ Sums(s, c) /\ lo \in Nat /\ hi \in Nat /\ hi <= lo + 4
      BY <1>2, <1>3, <1>6, <1>8
    <3>2. InPlace(s, insBlock[t], c, lo, hi)
      BY <1>7
    <3> HIDE DEF s, c
    <3>3. InPlace(s, [insBlock[t] EXCEPT ![SlotOf(lo + 1)] = NoBlock], c, lo + 1, hi)
      BY <2>4, <3>1, <3>2, RingTake
    <3> QED
      BY <2>1, <3>3
  <2>6. sem'[t].full + Unsent(t)' + (lo + 1) = hi
    BY <1>3, <1>6, <1>7, <1>8, <2>1, <2>3
  <2> QED
    BY <2>1, <2>2, <2>3, <2>5, <2>6 DEF ContentOK
<1> QED
  BY <1>3, <1>5, <1>9, <1>10, <1>11

LEMMA FillCInv ==
  ASSUME BInv, NEW d, NEW m, NEW p, DInv(d, m, p), SInv(p), NEW cum, CInv(p, cum), Fill
  PROVE  CInv(p, cum)'
<1>1. /\ mpc = "fill" /\ bufcnt # 1 /\ Using /\ TypeOK /\ todo # <<>>
      /\ \A u \in Threads : Sums(linked[u], cum[u])
      /\ Active => TakenOK /\ \A u \in Threads : ContentOK(u, p[u], cum[u])
  BY DEF Fill, Using, MainOK, BInv, CInv
<1>2. PICK t \in Threads : t = T
  BY <1>1, CurFile
<1>3. /\ UNCHANGED <<pc, lastOpened, blk, linked, todo, thread, libsDone>> /\ mpc' = "taken" /\ got' = got + 1
      /\ Cur' = Cur /\ T' = t /\ (Active' <=> Active)
      /\ mblock' = insBlock[t][Follow(next16K[t])]
      /\ bufcnt' = IF WholePage(mblock') THEN -1 ELSE 1
  BY <1>2 DEF Fill, MainGoto, Cur, T, Active, threadVars
<1>4. ASSUME Active, NEW u \in Threads \ {t} PROVE ContentOK(u, p[u], cum[u])'
  <2>1. sem'[u].full = sem[u].full /\ next16K'[u] = next16K[u] /\ insBlock'[u] = insBlock[u]
    BY <1>1, <1>2, UnitTypes DEF Fill, Take, TypeOK
  <2>2. TakenPos(u, p[u], cum[u])' = TakenPos(u, p[u], cum[u])
    BY <1>2, <1>3 DEF TakenPos, MainAt
  <2> QED
    BY <1>1, <1>3, <1>4, <2>1, <2>2, ContentUnmoved
<1>5. ASSUME Active PROVE TakenOK' /\ ContentOK(t, p[t], cum[t])'
  <2>1. /\ mblock' = <<Cur, got + 1>> /\ got + 1 \in Nat
        /\ got < Delivers(Cur) /\ Delivers(Cur) = ReadBlocks(Cur) /\ ContentOK(t, p[t], cum[t])'
    BY <1>2, <1>3, <1>5, BlockTaken
  <2>2. Cur \in Files /\ got \in Nat
    BY <1>1, CurFile DEF TypeOK
  <2>3. /\ Pages(Cur) \in Nat /\ NeedBlocks(Cur) \in Nat /\ Disk[Cur].full \in Nat /\ Disk[Cur].nonres \in Nat
        /\ Disk[Cur].kind = "OBJ" => Disk[Cur].nonres = 0
    BY <2>2, FileSizes, OpenReadAssumption
  <2>4. Disk[Cur].kind = "OBJ" => (WholePage(mblock') <=> got + 1 <= Disk[Cur].full)
    <3>1. mblock' # NoBlock /\ mblock'[1] = Cur /\ mblock'[2] = got + 1
      BY <2>1, <2>2, OpenReadAssumption DEF NoBlock
    <3>2. Disk[Cur].kind = "OBJ" => ~(got + 1 \in Pages(Cur) + 1 .. Pages(Cur) + Disk[Cur].nonres - 1)
      BY <2>3
    <3> QED
      BY <3>1, <3>2 DEF WholePage
  <2>5. IF Disk[Cur].kind = "OBJ" THEN got <= Disk[Cur].full ELSE got < NeedBlocks(Cur)
    BY <1>1, <1>5 DEF TakenOK
  <2>6. Disk[Cur].kind = "LIB" => Disk[Cur].isLib
    BY <1>1, <1>5 DEF TakenOK
  <2>7. IF Disk[Cur].kind = "OBJ"
        THEN got + 1 \in 1 .. Disk[Cur].full + 1 /\ bufcnt' = (IF got + 1 <= Disk[Cur].full THEN -1 ELSE 1)
        ELSE got + 1 \in 1 .. NeedBlocks(Cur)
    BY <1>3, <2>2, <2>3, <2>4, <2>5
  <2> QED
    BY <1>3, <2>1, <2>6, <2>7 DEF TakenOK
<1> QED
  BY <1>1, <1>3, <1>4, <1>5 DEF CInv

(* Main takes up the next file: of one that is missing there is no block.  *)
LEMMA OpenCInv ==
  ASSUME BInv, NEW d, NEW m, NEW p, DInv(d, m, p), SInv(p), NEW cum, CInv(p, cum), OpenNext, mpc' # "exited",
         NEW t \in Threads, t = T
  PROVE  IF mpc' = "next" THEN CInv([p EXCEPT ![t] = @ + 1], cum)' ELSE CInv(p, cum)'
<1> DEFINE q == [p EXCEPT ![t] = @ + 1]
<1>1. /\ mpc = "next" /\ ~Using /\ TypeOK /\ todo # <<>> /\ MainOK /\ toLink = <<>>
      /\ \A u \in Threads : Sums(linked[u], cum[u])
      /\ Active => TakenOK /\ \A u \in Threads : ContentOK(u, p[u], cum[u])
  BY DEF OpenNext, Using, MainOK, BInv, CInv
<1>2. /\ UNCHANGED <<pc, lastOpened, blk, linked, thread, insBlock, next16K, libsDone, mblock, got>>
      /\ mpc' = "next" => ~openStruc[t][Follow(nextOpenFile[t])].flags
      /\ mpc' # "next" => /\ todo' = todo
                          /\ mpc' = (IF Disk[Cur].kind = "LIB" THEN "header"
                                     ELSE IF Disk[Cur].kind = "OLD" THEN "tables"
                                     ELSE IF Disk[Cur].kind # "OBJ" /\ NeedBlocks(Cur) = 0 THEN "done" ELSE "fill")
  BY DEF OpenNext, MainGoto, threadVars
<1>3. \A u \in Threads : sem'[u].full = sem[u].full
  BY <1>1, OpenUnits
<1>4. Active' => Active
  BY <1>1, <1>2 DEF Active
<1>5. p \in [Threads -> Nat] /\ q \in [Threads -> Nat] /\ q[t] = p[t] + 1 /\ \A u \in Threads \ {t} : q[u] = p[u]
  BY DEF DInv
<1> HIDE DEF q
<1>6. \A u \in Threads : TakenPos(u, p[u], cum[u]) = cum[u][p[u]]
  BY <1>1 DEF TakenPos, MainAt
<1>7. \A u \in Threads : Sums(linked[u], cum[u])'
  BY <1>1, <1>2
<1>8. Active => got = 0 /\ mblock = NoBlock
  BY <1>1 DEF TakenOK
<1>9. Cur \in Files /\ NeedBlocks(Cur) \in Nat /\ Disk[Cur].full \in Nat
  BY <1>1, CurFile, FileSizes
<1>10. CASE mpc' = "next"
  <2>1. ~Using' /\ \A u \in Threads : TakenPos(u, q[u], cum[u])' = cum[u][q[u]]
    BY <1>10 DEF Using, TakenPos, MainAt
  <2>2. Active' => TakenOK'
    BY <1>2, <1>4, <1>8, <1>10 DEF TakenOK
  <2>3. ASSUME Active' PROVE cum[t][q[t]] = cum[t][p[t]]
    <3>1. Delivers(Cur) = 0
      BY <1>2, <1>4, <1>10, <2>3, OpenTurn DEF Delivers
    <3>2. p[t] + 1 \in 1 .. Len(linked[t]) /\ linked[t][p[t] + 1] = Cur /\ p[t] \in Nat
      BY <1>1, <1>5, CurrentFile
    <3>3. (p[t] + 1) - 1 = p[t] /\ cum[t][p[t]] \in Nat
      <4>1. cum[t][p[t]] \in Nat
        BY <1>1, <3>2, SumAt
      <4> QED
        BY <3>2, <4>1
    <3>4. cum[t][p[t] + 1] = cum[t][(p[t] + 1) - 1] + Delivers(Cur)
      BY <1>1, <3>2 DEF Sums
    <3> QED
      BY <1>5, <3>1, <3>3, <3>4
  <2>4. ASSUME Active', NEW u \in Threads PROVE ContentOK(u, q[u], cum[u])'
    <3>1. cum[u][q[u]] = cum[u][p[u]]
      BY <1>5, <2>3, <2>4
    <3>2. TakenPos(u, q[u], cum[u])' = TakenPos(u, p[u], cum[u])
      BY <1>6, <2>1, <3>1
    <3> QED
      BY <1>1, <1>2, <1>3, <1>4, <2>4, <3>2, ContentUnmoved
  <2>5. CInv(q, cum)'
    BY <1>1, <1>7, <2>2, <2>4 DEF CInv
  <2> QED
    BY <1>10, <2>5 DEF q
<1>11. CASE mpc' # "next"
  <2>1. Cur' = Cur /\ T' = t /\ todo' = todo
    BY <1>2, <1>11 DEF Cur, T
  <2>2. ASSUME Active' PROVE TakenOK'
    BY <1>2, <1>4, <1>8, <1>9, <1>11, <2>1, <2>2 DEF TakenOK
  <2>3. ASSUME Active', NEW u \in Threads PROVE TakenPos(u, p[u], cum[u])' = TakenPos(u, p[u], cum[u])
    <3>1. got' = 0 /\ cum[u][p[u]] \in Nat
      <4>1. got' = 0 /\ p[u] \in Nat
        BY <1>2, <1>4, <1>5, <1>8, <2>3
      <4> QED
        BY <1>1, <4>1, SumAt
    <3> QED
      BY <1>6, <3>1 DEF TakenPos
  <2>4. ASSUME Active', NEW u \in Threads PROVE ContentOK(u, p[u], cum[u])'
    BY <1>1, <1>2, <1>3, <1>4, <2>3, <2>4, ContentUnmoved
  <2> QED
    BY <1>1, <1>7, <1>11, <2>2, <2>4 DEF CInv
<1> QED
  BY <1>10, <1>11

(* Main is done with a file when it has taken all that there is of it.     *)
LEMMA AllTaken ==
  ASSUME BInv, NEW d, NEW m, NEW p, DInv(d, m, p), SInv(p), TakenOK, FileDone, Active'
  PROVE  got = Delivers(Cur)
<1>1. /\ mpc = "done" /\ Using /\ TypeOK /\ MainFileOK /\ todo # <<>> /\ KindsOK
      /\ libsDone' = libsDone /\ todo' = Tail(todo)
  BY DEF FileDone, Using, MainOK, BInv, SInv, DInv
<1>2. /\ Cur \in Files /\ Cur = todo[1] /\ Len(todo) \in Nat \ {0} /\ Len(Tail(todo)) = Len(todo) - 1
      /\ 1 \in DOMAIN todo /\ Tail(todo) \in Seq(Files) /\ Cur \in Elements(todo)
  BY <1>1, CurFile, ElementsTail, LenProperties, ZenonT(30) DEF TypeOK, Cur
<1>3. Active /\ Disk[Cur].found /\ Disk[Cur].wanted /\ Delivers(Cur) = ReadBlocks(Cur)
  BY <1>1 DEF Active, MainFileOK, Delivers
<1>4. got = (IF Disk[Cur].kind = "OBJ" THEN Disk[Cur].full + 1 ELSE NeedBlocks(Cur))
  BY <1>1 DEF TakenOK
<1>5. CASE Disk[Cur].kind = "OBJ"
  BY <1>2, <1>3, <1>4, <1>5, NeedFits
<1>6. CASE Disk[Cur].kind = "LIB"
  BY <1>1, <1>2, <1>3, <1>4, <1>6, NeedFits DEF TakenOK, IsLibrary
<1>7. CASE Disk[Cur].kind \notin {"OBJ", "LIB"}
  <2>1. libsDone
    BY <1>1, <1>2, <1>7 DEF KindsOK, InputFile
  <2>2. TailsTaken /\ Tail(todo) # <<>>
    BY <1>1, <2>1 DEF Active
  <2>3. 1 < Len(todo)
    BY <1>2, <2>2, EmptySeq
  <2>4. ReadToEnd(Cur)
    BY <1>1, <1>2, <2>1, <2>2, <2>3 DEF KindsOK
  <2> QED
    BY <1>3, <1>4, <1>7, <2>4 DEF ReadToEnd
<1> QED
  BY <1>5, <1>6, <1>7

LEMMA DoneCInv ==
  ASSUME BInv, NEW d, NEW m, NEW p, DInv(d, m, p), SInv(p), NEW cum, CInv(p, cum), FileDone,
         NEW t \in Threads, t = T
  PROVE  CInv([p EXCEPT ![t] = @ + 1], cum)'
<1> DEFINE q == [p EXCEPT ![t] = @ + 1]
<1>1. /\ mpc = "done" /\ Using /\ TypeOK /\ todo # <<>> /\ MainOK /\ toLink = <<>>
      /\ \A u \in Threads : Sums(linked[u], cum[u])
      /\ Active => TakenOK /\ \A u \in Threads : ContentOK(u, p[u], cum[u])
  BY DEF FileDone, Using, MainOK, BInv, CInv
<1>2. /\ UNCHANGED <<pc, lastOpened, blk, linked, insBlock, next16K, libsDone>>
      /\ mpc' = "next" /\ got' = 0 /\ mblock' = NoBlock
  BY DEF FileDone, MainGoto, threadVars, mainRing
<1>3. \A u \in Threads : sem'[u].full = sem[u].full
  <2>1. sem \in [Threads -> [SemNames -> Nat]]
    BY <1>1 DEF TypeOK
  <2> QED
    BY <2>1, ZenonT(30) DEF FileDone, Post, SemNames
<1>4. Active' => Active
  BY <1>1, <1>2 DEF Active
<1>5. p \in [Threads -> Nat] /\ q \in [Threads -> Nat] /\ q[t] = p[t] + 1 /\ \A u \in Threads \ {t} : q[u] = p[u]
  BY DEF DInv
<1> HIDE DEF q
<1>6. \A u \in Threads : Sums(linked[u], cum[u])'
  BY <1>1, <1>2
<1>7. Active' => TakenOK'
  BY <1>2 DEF TakenOK
<1>8. ~Using' /\ \A u \in Threads : TakenPos(u, q[u], cum[u])' = cum[u][q[u]]
  BY <1>2 DEF Using, TakenPos, MainAt
<1>9. ASSUME Active' PROVE cum[t][q[t]] = cum[t][p[t]] + got
  <2>1. got = Delivers(Cur)
    BY <1>1, <1>4, <1>9, AllTaken
  <2>2. p[t] + 1 \in 1 .. Len(linked[t]) /\ linked[t][p[t] + 1] = Cur /\ p[t] \in Nat
    BY <1>1, <1>5, CurrentFile
  <2>3. (p[t] + 1) - 1 = p[t]
    BY <2>2
  <2>4. cum[t][p[t] + 1] = cum[t][(p[t] + 1) - 1] + Delivers(Cur)
    BY <1>1, <2>2 DEF Sums
  <2> QED
    BY <1>5, <2>1, <2>3, <2>4
<1>10. ASSUME Active', NEW u \in Threads PROVE ContentOK(u, q[u], cum[u])'
  <2>1. TakenPos(u, q[u], cum[u])' = TakenPos(u, p[u], cum[u])
    <3>1. CASE u = t
      BY <1>1, <1>8, <1>9, <1>10, <3>1 DEF TakenPos, MainAt
    <3>2. CASE u # t
      BY <1>5, <1>8, <3>2 DEF TakenPos, MainAt
    <3> QED
      BY <3>1, <3>2
  <2> QED
    BY <1>1, <1>2, <1>3, <1>4, <1>10, <2>1, ContentUnmoved
<1>11. CInv(q, cum)'
  BY <1>1, <1>6, <1>7, <1>10 DEF CInv
<1> QED
  BY <1>11 DEF q

LEMMA SkipCInv ==
  ASSUME BInv, NEW d, NEW m, NEW p, DInv(d, m, p), NEW cum, CInv(p, cum), SkipNext, NEW q
  PROVE  CInv(q, cum)'
<1>1. mpc # "exited" /\ linked' = linked
  BY DEF SkipNext, ringVars
<1> QED
  BY <1>1, SkipEnds DEF CInv

LEMMA EndCInv ==
  ASSUME BInv, NEW p, NEW cum, CInv(p, cum), LibrariesDone \/ Terminate \/ Bump \/ Join
  PROVE  CInv(p, cum)'
<1>1. /\ mpc \in {"next", "bump", "join"} /\ TypeOK /\ MainOK /\ linked' = linked
      /\ \A u \in Threads : Sums(linked[u], cum[u])
      /\ Active => TakenOK /\ \A u \in Threads : ContentOK(u, p[u], cum[u])
  BY DEF LibrariesDone, Terminate, Bump, Join, ringVars, BInv, CInv
<1>2. CASE LibrariesDone
  <2>1. /\ UNCHANGED <<pc, lastOpened, blk, linked, insBlock, next16K, sem, got, mblock>>
        /\ mpc = "next" /\ mpc' = "link" /\ Active
    BY <1>2 DEF LibrariesDone, MainGoto, threadVars, mainRing, Active
  <2>2. TakenOK' /\ \A u \in Threads : TakenPos(u, p[u], cum[u])' = TakenPos(u, p[u], cum[u])
    BY <1>1, <2>1 DEF TakenOK, TakenPos, MainAt, Using
  <2>3. \A u \in Threads : ContentOK(u, p[u], cum[u])'
    BY <1>1, <2>1, <2>2, ContentUnmoved
  <2> QED
    BY <1>1, <2>2, <2>3 DEF CInv
<1>3. CASE Terminate \/ Bump \/ Join
  <2>1. ~Active'
    BY <1>1, <1>3 DEF Terminate, Bump, Join, MainOK, Active, ringVars
  <2> QED
    BY <1>1, <2>1 DEF CInv
<1> QED
  BY <1>2, <1>3

LEMMA InitSInv ==
  ASSUME Init
  PROVE  /\ SInv([t \in Threads |-> 0])
         /\ CInv([t \in Threads |-> 0], [t \in Threads |-> [n \in Nat |-> 0]])
<1> DEFINE p == [t \in Threads |-> 0]
           cum == [t \in Threads |-> [n \in Nat |-> 0]]
<1>1. /\ ~Using /\ ~libsDone /\ mpc = "link" /\ got = 0 /\ mblock = NoBlock
      /\ \A t \in Threads :
           /\ pc[t] = "unborn" /\ lastOpened[t] = 0 /\ linked[t] = <<>> /\ p[t] = 0 /\ cum[t] = [n \in Nat |-> 0]
           /\ nextOpenStruc[t] = 3 /\ nextOpenFile[t] = 3 /\ next16K[t] = 3
           /\ sem[t].avail = 4 /\ sem[t].open = 0 /\ sem[t].full = 0
  BY DEF Init, Using, NewSems, SemNames
<1>2. SlotOf(0) = 3 /\ Len(<<>>) = 0 /\ <<>> \in Seq(Files)
  BY EmptySeq DEF SlotOf
<1>3. cum \in [Threads -> [Nat -> Nat]]
  OBVIOUS
<1> HIDE DEF p, cum
<1>4. \A t \in Threads : ClaimsOK(t, p) /\ SlotsOK(t)
  BY <1>1, <1>2 DEF ClaimsOK, SlotsOK, Captured, Announced, Claimed, MainAt, InFile
<1>5. \A t \in Threads : Sums(linked[t], cum[t])
  BY <1>1, <1>2 DEF Sums
<1>6. \A t \in Threads : ContentOK(t, p[t], cum[t])
  <2>1. \A t \in Threads : TakenPos(t, p[t], cum[t]) = 0 /\ ReadPos(t, cum[t]) = 0 /\ Unsent(t) = 0
    BY <1>1 DEF TakenPos, ReadPos, Unsent, MainAt, AtFile, InFile
  <2> QED
    BY <1>1, <1>2, <2>1 DEF ContentOK, InPlace
<1>7. SInv(p) /\ CInv(p, cum)
  BY <1>1, <1>3, <1>4, <1>5, <1>6 DEF SInv, MainFileOK, CInv, TakenOK
<1> QED
  BY <1>7 DEF p, cum

-----------------------------------------------------------------------------
(* The waiting.  Tail files keep their OPEN_STRUCTs: with TailsFew there   *)
(* are units left for all that a thread gets.                              *)
Closing(t) == pc[t] \in {"abort", "dead"}

WaitsOK(t, n) == libsDone /\ ~Closing(t) => n < At(t, sem[t].avail + Captured(t))

WInv(d) ==
  TailsFew /\ mpc # "exited" =>
    \A n \in Nat : n = Len(d) + Len(toLink) => \A t \in Threads : WaitsOK(t, n)

LEMMA WaitSteps ==
  ASSUME TypeOK, NEW t \in Threads, ThreadSteps(t), pc'[t] \notin {"abort", "dead"}
  PROVE  sem'[t].avail + Captured(t)' = sem[t].avail + Captured(t) /\ ~Closing(t)
<1>1. /\ sem \in [Threads -> [SemNames -> Nat]] /\ sem[t].avail \in Nat /\ lastOpened[t] \in Nat
      /\ DOMAIN pc = Threads /\ DOMAIN lastOpened = Threads
  BY UnitTypes DEF TypeOK
<1> USE DEF Goto, GotoUnlessDone, Take, Post, SemNames, Captured, Closing
<1>2. CASE GetNextOpenStruc(t)
  BY <1>1, <1>2 DEF GetNextOpenStruc
<1>3. CASE GetNextFileName(t)
  BY <1>1, <1>3 DEF GetNextFileName
<1>4. CASE OpenFile(t)
  BY <1>1, <1>4 DEF OpenFile
<1>5. CASE SignalOpened(t)
  BY <1>1, <1>5 DEF SignalOpened
<1>6. CASE ReadHeader(t) \/ ReadOldLength(t) \/ GetNextBuffer(t) \/ ReadBlock(t) \/ SignalFull(t) \/ CloseFile(t)
  BY <1>1, <1>6 DEF ReadHeader, ReadOldLength, GetNextBuffer, ReadBlock, SignalFull, CloseFile
<1>7. CASE Abort(t)
  BY <1>1, <1>7 DEF Abort
<1> QED
  BY <1>2, <1>3, <1>4, <1>5, <1>6, <1>7 DEF ThreadSteps

LEMMA WaitsUnmoved ==
  ASSUME TypeOK, NEW u \in Threads, NEW n \in Nat, WaitsOK(u, n), libsDone' => libsDone,
         lastOpened'[u] = lastOpened[u], sem'[u].avail \in Nat, sem'[u].avail >= sem[u].avail,
         pc'[u] = pc[u] \/ (pc[u] = "unborn" /\ pc'[u] = "getstruc")
  PROVE  WaitsOK(u, n)'
<1>1. Captured(u)' = Captured(u) /\ Captured(u) \in Nat /\ sem[u].avail \in Nat /\ (Closing(u)' <=> Closing(u))
  BY UnitTypes DEF Captured, Closing
<1> DEFINE a == sem[u].avail + Captured(u)
           b == sem'[u].avail + Captured(u)
<1>2. a \in Nat /\ b \in Nat /\ a <= b
  BY <1>1
<1>3. WaitsOK(u, n)' <=> (libsDone' /\ ~Closing(u)' => n < At(u, b))
  BY <1>1 DEF WaitsOK
<1>4. WaitsOK(u, n) <=> (libsDone /\ ~Closing(u) => n < At(u, a))
  BY DEF WaitsOK
<1> HIDE DEF a, b
<1>5. At(u, a) <= At(u, b) /\ At(u, a) \in Int /\ At(u, b) \in Int
  BY <1>2, Places
<1>6. n < At(u, a) => n < At(u, b)
  BY <1>5
<1> QED
  BY <1>1, <1>3, <1>4, <1>6

LEMMA ThreadWInv ==
  ASSUME BInv, NEW d, WInv(d), NEW t \in Threads, OpRead(t)
  PROVE  WInv(d)'
<1>1. mpc # "exited" /\ TypeOK
  BY DEF OpRead, BInv
<1>2. CASE ReadFails(t)
  BY <1>2 DEF ReadFails, WInv
<1>3. CASE ThreadSteps(t)
  <2>1. SameMain /\ OnlyAt(t)
    BY <1>1, <1>3, ThreadFrame
  <2>2. libsDone' = libsDone /\ toLink' = toLink /\ mpc' = mpc
    BY <2>1 DEF SameMain
  <2> SUFFICES ASSUME TailsFew, NEW n \in Nat, n = Len(d) + Len(toLink'), NEW u \in Threads PROVE WaitsOK(u, n)'
    BY DEF WInv
  <2>3. CASE u = t
    <3>1. WaitsOK(t, n)
      BY <1>1, <2>2 DEF WInv
    <3>2. ~Closing(t)' => sem'[t].avail + Captured(t)' = sem[t].avail + Captured(t) /\ ~Closing(t)
      BY <1>1, <1>3, WaitSteps DEF Closing
    <3> QED
      BY <2>2, <2>3, <3>1, <3>2 DEF WaitsOK
  <2>4. CASE u # t
    <3>1. WaitsOK(u, n) /\ Same(u)
      BY <1>1, <2>1, <2>2, <2>4 DEF WInv, OnlyAt
    <3> QED
      BY <2>2, <3>1 DEF WaitsOK, Captured, Closing, Same
  <2> QED
    BY <2>3, <2>4
<1> QED
  BY <1>2, <1>3 DEF OpRead, ThreadSteps

(* Main gives structures back, and leaves them with the tail.              *)
LEMMA MainWInv ==
  ASSUME BInv, NEW d \in Seq(Files), WInv(d), NEW e \in Seq(Files),
         Main, ~LibrariesDone, LinkDefault \/ Len(e) + Len(toLink') = Len(d) + Len(toLink)
  PROVE  WInv(e)'
<1> SUFFICES ASSUME TailsFew, mpc' # "exited", NEW n \in Nat, n = Len(e) + Len(toLink'), NEW u \in Threads
             PROVE  WaitsOK(u, n)'
  BY DEF WInv
<1>1. mpc # "exited" /\ TypeOK /\ MainOK
  BY DEF BInv, Main, LinkFile, LinkDefault, Linked, OpenNext, SkipNext, ReadLibHeader, ReadOldTables,
         FillPastEnd, Fill, FillDone, Parse, FileDone, LibrariesDone, Terminate, Bump, Join
<1>2. sem \in [Threads -> [SemNames -> Nat]] /\ sem[u].avail \in Nat /\ sem'[u].avail \in Nat
  <2>1. TypeOK'
    BY MainBInv DEF BInv
  <2>2. sem \in [Threads -> [SemNames -> Nat]] /\ sem' \in [Threads -> [SemNames -> Nat]]
    BY <1>1, <2>1 DEF TypeOK
  <2> QED
    BY <2>2 DEF SemNames
<1>3. CASE LinkDefault
  BY <1>3 DEF LinkDefault, LinkToThread, WaitsOK
<1>4. CASE ~LinkDefault
  <2>1. WaitsOK(u, n)
    BY <1>1, <1>4 DEF WInv
  <2>2. CASE LinkFile
    <3>1. PICK f \in Files : LinkToThread(f)
      BY <1>1, <2>2, ElementsTail DEF LinkFile, TypeOK
    <3>2. lastOpened' = lastOpened /\ libsDone' = libsDone
      BY <3>1 DEF LinkToThread
    <3>3. sem'[u].avail = sem[u].avail /\ (pc'[u] = pc[u] \/ (pc[u] = "unborn" /\ pc'[u] = "getstruc"))
      <4>1. CASE u = Dealer
        BY <1>1, <3>1, <4>1, DealtTo, UnitTypes DEF SemNames
      <4>2. CASE u # Dealer
        BY <1>1, <3>1, <4>2, DealtTo DEF OnlyAt, Same
      <4> QED
        BY <4>1, <4>2
    <3>4. sem'[u].avail >= sem[u].avail
      BY <1>2, <3>3
    <3> QED
      BY <1>1, <1>2, <2>1, <3>2, <3>3, <3>4, WaitsUnmoved
  <2>3. CASE ~LinkFile
    <3>1. UNCHANGED <<pc, lastOpened, libsDone>>
      BY <1>4, <2>3 DEF Main, Linked, OpenNext, SkipNext, ReadLibHeader, ReadOldTables,
         FillPastEnd, Fill, FillDone, Parse, FileDone, Terminate, Bump, Join, threadVars
    <3>2. sem'[u].avail >= sem[u].avail
      <4>1. CASE Linked \/ ReadOldTables \/ FillPastEnd \/ Parse \/ SkipNext \/ Terminate \/ Join
        <5>1. sem' = sem
          BY <4>1 DEF Linked, ReadOldTables, FillPastEnd, Parse, SkipNext, Terminate, Join, ringVars
        <5> QED
          BY <1>2, <5>1
      <4>2. CASE ReadLibHeader \/ Fill \/ FillDone \/ FileDone
        <5>1. T \in Threads
          BY <1>1, <4>2, CurFile DEF ReadLibHeader, Fill, FillDone, FileDone, MainOK, Using
        <5>2. PICK t \in Threads : t = T
          BY <5>1
        <5>3. \/ \E s \in {"header", "full"} : sem' = [sem EXCEPT ![t][s] = @ - 1]
              \/ \E s \in {"ins", "avail"} : sem' = [sem EXCEPT ![t][s] = @ + 1]
              \/ sem' = sem
          BY <4>2, <5>2 DEF ReadLibHeader, Fill, FillDone, FileDone, Take, Post
        <5>4. "avail" \in SemNames /\ sem[t]["avail"] \in Nat
          BY <1>1, UnitTypes DEF SemNames
        <5>5. sem'[u].avail = sem[u].avail \/ sem'[u].avail = sem[u].avail + 1
          <6>1. ASSUME NEW s \in {"header", "full"}, sem' = [sem EXCEPT ![t][s] = @ - 1] PROVE sem'[u].avail = sem[u].avail
            BY <1>2, <5>4, <6>1
          <6>2. ASSUME sem' = [sem EXCEPT ![t]["ins"] = @ + 1] PROVE sem'[u].avail = sem[u].avail
            BY <1>2, <5>4, <6>2
          <6>3. ASSUME sem' = [sem EXCEPT ![t]["avail"] = @ + 1]
                PROVE  sem'[u].avail = sem[u].avail \/ sem'[u].avail = sem[u].avail + 1
            BY <1>2, <5>4, <6>3
          <6> QED
            BY <5>3, <6>1, <6>2, <6>3
        <5> QED
          BY <1>2, <5>5
      <4>3. CASE OpenNext
        <5>1. PICK t \in Threads : t = T
          BY <1>1, <4>3, CurFile DEF OpenNext
        <5>2. sem'[u].avail = sem[u].avail \/ sem'[u].avail = sem[u].avail + 1
          <6>1. CASE u = t
            <7>1. sem'[u].avail = sem[u].avail + (IF ~openStruc[u][Follow(nextOpenFile[u])].flags /\ Disk[Cur].kind = "LIB" THEN 1 ELSE 0)
              BY <1>1, <4>3, <5>1, <6>1, OpenUnits
            <7> QED
              BY <1>2, <7>1
          <6>2. CASE u # t
            <7>1. sem'[u] = sem[u]
              BY <1>1, <4>3, <5>1, <6>2, OpenUnits
            <7> QED
              BY <7>1
          <6> QED
            BY <6>1, <6>2
        <5> QED
          BY <1>2, <5>2
      <4>4. CASE Bump
        <5>1. stop \in Threads
          BY <1>1 DEF TypeOK
        <5>2. sem' = sem \/ sem' = [sem EXCEPT ![stop] = Bumped(@)]
          BY <4>4 DEF Bump
        <5>3. Bumped(sem[stop]).avail = sem[stop].avail + 1
          BY <1>2, <5>1 DEF Bumped, SemNames
        <5>4. sem'[u].avail = sem[u].avail \/ sem'[u].avail = sem[u].avail + 1
          BY <1>2, <5>1, <5>2, <5>3
        <5> QED
          BY <1>2, <5>4
      <4> QED
        BY <1>4, <2>3, <4>1, <4>2, <4>3, <4>4 DEF Main
    <3> QED
      BY <1>1, <1>2, <2>1, <3>1, <3>2, WaitsUnmoved
  <2> QED
    BY <2>2, <2>3
<1> QED
  BY <1>3, <1>4

(* With the libraries all structures are given back but those that threads *)
(* hold ready, and no thread gets more than three of the tail files.       *)
LEMMA ThreePlaces ==
  ASSUME NEW t \in Threads, NEW k \in Nat, NEW n \in Nat, NEW x \in Nat, n < At(t, k + 1), x <= 3 * N_R_THREADS
  PROVE  n + x < At(t, 4 + k)
<1>1. CASE N_R_THREADS = 1
  BY <1>1 DEF At, Threads
<1>2. CASE N_R_THREADS = 2
  BY <1>2 DEF At, Threads
<1>3. CASE N_R_THREADS = 4
  BY <1>3 DEF At, Threads
<1> QED
  BY <1>1, <1>2, <1>3, OpenReadAssumption

LEMMA TailWInv ==
  ASSUME BInv, NEW d, NEW m, NEW p, DInv(d, m, p), SInv(p), LibrariesDone
  PROVE  WInv(d)'
<1> SUFFICES ASSUME TailsFew, NEW n \in Nat, n = Len(d) + Len(toLink'), NEW u \in Threads
             PROVE  WaitsOK(u, n)'
  BY DEF WInv
<1>1. /\ mpc = "next" /\ todo = <<>> /\ ~libsDone /\ toLink' = Tails /\ toLink = <<>>
      /\ UNCHANGED <<pc, lastOpened, sem>> /\ TypeOK /\ ClaimsOK(u, p)
  BY DEF LibrariesDone, threadVars, BInv, MainOK, SInv
<1>2. d \in Seq(Files) /\ m \in Nat /\ m = Len(d) /\ p[u] \in Nat /\ m < At(u, p[u] + 1)
  <2>1. d \in Seq(Files) /\ m \in 0 .. Len(d) /\ p \in [Threads -> Nat] /\ Len(<<>>) = 0
    BY EmptySeq DEF DInv
  <2>2. Len(todo) = (Len(d) - m) + Len(toLink) /\ m < At(u, p[u] + 1)
    BY <1>1 DEF DInv, TodoOK, BehindOK
  <2> QED
    BY <1>1, <2>1, <2>2
<1>3. Len(toLink') \in Nat /\ Len(toLink') <= 3 * N_R_THREADS
  <2>1. command.tail \in Seq(Files) /\ Len(command.tail) <= 3 * N_R_THREADS
    BY <1>1, OpenReadAssumption DEF TypeOK, CommandRecord, TailsFew
  <2>2. Len(<<>>) = 0 /\ N_R_THREADS \in Nat
    BY EmptySeq, OpenReadAssumption
  <2> QED
    BY <1>1, <2>1, <2>2 DEF Tails
<1>4. n < At(u, 4 + p[u])
  BY <1>2, <1>3, ThreePlaces
<1>5. sem[u].avail + Captured(u) = 4 + p[u] /\ sem'[u].avail + Captured(u)' = sem[u].avail + Captured(u)
  BY <1>1 DEF ClaimsOK, Captured
<1> QED
  BY <1>4, <1>5 DEF WaitsOK

(* What a thread waits for: main has still a use for it.                   *)
LEMMA WaitedFor ==
  ASSUME BInv, NEW d, NEW m, NEW p, DInv(d, m, p), SInv(p), WInv(d), TailsFew, mpc # "exited"
  PROVE  KeptByMain
<1> SUFFICES ASSUME NEW t \in Threads, pc[t] = "getstruc", sem[t].avail = 0
             PROVE  openStruc[t][Follow(nextOpenStruc[t])].file \in Elements(todo)
  BY DEF KeptByMain
<1>1. TypeOK /\ MainOK /\ ThreadOK(t) /\ SlotsOK(t) /\ ClaimsOK(t, p)
  BY DEF BInv, SInv
<1>2. /\ d \in Seq(Files) /\ Len(d) \in Nat /\ m \in 0 .. Len(d) /\ p[t] \in 0 .. Len(linked[t]) /\ Len(linked[t]) \in Nat
      /\ lastOpened[t] \in Nat /\ lastOpened[t] <= Len(linked[t]) /\ Captured(t) = lastOpened[t]
  BY <1>1, BehindBound, UnitTypes DEF DInv, ThreadOK, Captured
<1>3. lastOpened[t] > 0 => At(t, lastOpened[t]) <= Len(d)
  <2>1. lastOpened[t] > 0 => lastOpened[t] \in 1 .. Len(linked[t])
    BY <1>2
  <2> QED
    BY <2>1 DEF DInv, DealtOK
<1>4. ~libsDone
  <2> SUFFICES ASSUME libsDone PROVE FALSE
    OBVIOUS
  <2> DEFINE n == Len(d) + Len(toLink)
  <2>1. n \in Nat /\ Len(d) <= n
    <3>1. Len(toLink) \in Nat
      <4>1. toLink \in Seq(Files)
        BY <1>1 DEF TypeOK
      <4> QED
        BY <4>1
    <3> QED
      BY <1>2, <3>1
  <2> HIDE DEF n
  <2>2. WaitsOK(t, n)
    BY <2>1 DEF WInv, n
  <2>3. n < At(t, lastOpened[t])
    <3>1. 0 + lastOpened[t] = lastOpened[t]
      BY <1>2
    <3> QED
      BY <1>2, <2>2, <3>1 DEF WaitsOK, Closing
  <2>4. At(t, lastOpened[t]) \in Int
    BY <1>2, Places
  <2>5. lastOpened[t] = 0
    BY <1>2, <1>3, <2>1, <2>3, <2>4
  <2>6. At(t, 0) <= 0 /\ At(t, 0) \in Int
    <3>1. t \in 0 .. N_R_THREADS - 1 /\ N_R_THREADS \in Nat
      BY OpenReadAssumption DEF Threads
    <3>2. At(t, 0) = (t + 1) - N_R_THREADS
      BY <3>1 DEF At
    <3> QED
      BY <3>1, <3>2
  <2>7. n < At(t, 0)
    BY <2>3, <2>5
  <2> QED
    BY <2>1, <2>6, <2>7
<1>5. lastOpened[t] = 4 + p[t] /\ ~opreadsDone
  BY <1>1, <1>2, <1>4 DEF ClaimsOK, MainOK
<1>6. Follow(nextOpenStruc[t]) = SlotOf(p[t] + 1)
  <2>1. nextOpenStruc[t] = SlotOf(4 + p[t])
    BY <1>1, <1>2, <1>5 DEF SlotsOK
  <2> QED
    BY <1>2, <2>1 DEF SlotOf, Follow
<1>7. p[t] + 1 \in 1 .. lastOpened[t] /\ p[t] + 1 \in 1 .. Len(linked[t]) /\ Opened(t, p[t] + 1) /\ p[t] + 1 + 4 > Captured(t)
  BY <1>2, <1>5 DEF Opened
<1>8. openStruc[t][SlotOf(p[t] + 1)].file = linked[t][p[t] + 1]
  BY <1>1, <1>5, <1>7 DEF SlotsOK
<1>9. linked[t][p[t] + 1] \in Elements(todo)
  <2> DEFINE a == At(t, p[t] + 1)
  <2>1. a <= Len(d) /\ linked[t][p[t] + 1] = d[a] /\ m < a /\ a \in Int
    <3>1. p[t] + 1 \in Nat
      BY <1>2
    <3>2. a \in Int
      BY <3>1, PlaceRange
    <3> QED
      BY <1>7, <3>2 DEF DInv, DealtOK, BehindOK
  <2> HIDE DEF a
  <2>2. a - m \in 1 .. Len(d) - m /\ m + (a - m) = a
    BY <1>2, <2>1
  <2>3. todo[a - m] = d[a] /\ Len(todo) = (Len(d) - m) + Len(toLink) /\ Len(toLink) \in Nat
    <3>1. /\ Len(todo) = (Len(d) - m) + Len(toLink)
          /\ \A j \in 1 .. Len(d) - m : todo[j] = d[m + j]
      BY DEF DInv, TodoOK
    <3>2. toLink \in Seq(Files)
      BY <1>1 DEF TypeOK
    <3>3. Len(toLink) \in Nat
      BY <3>2
    <3> QED
      BY <2>2, <3>1, <3>3
  <2>4. a - m \in DOMAIN todo
    <3>1. a - m \in 1 .. Len(todo)
      BY <1>2, <2>2, <2>3
    <3>2. todo \in Seq(Files)
      BY <1>1 DEF TypeOK
    <3> QED
      BY <3>1, <3>2, LenProperties
  <2> QED
    BY <2>1, <2>3, <2>4 DEF Elements
<1> QED
  BY <1>6, <1>8, <1>9

-----------------------------------------------------------------------------
(* All of it together, for some order d of the files.                      *)
OInv(d, m, p, cum) == DInv(d, m, p) /\ SInv(p) /\ CInv(p, cum) /\ WInv(d)

OrderInv == BInv /\ \E d, m, p, cum : OInv(d, m, p, cum)

LEMMA MainRuns == ASSUME Main PROVE mpc # "exited"
<1> SUFFICES ASSUME mpc = "exited" PROVE FALSE
  OBVIOUS
<1>1. LinkFile \/ LinkDefault \/ Linked => FALSE
  BY DEF LinkFile, LinkDefault, Linked
<1>2. OpenNext \/ SkipNext \/ ReadLibHeader \/ ReadOldTables \/ FillPastEnd \/ Fill => FALSE
  BY DEF OpenNext, SkipNext, ReadLibHeader, ReadOldTables, FillPastEnd, Fill
<1>3. FillDone \/ Parse \/ FileDone \/ LibrariesDone \/ Terminate \/ Bump \/ Join => FALSE
  BY DEF FillDone, Parse, FileDone, LibrariesDone, Terminate, Bump, Join
<1> QED
  BY <1>1, <1>2, <1>3 DEF Main

(* The process ends: nothing is asked any more.                            *)
LEMMA ExitOInv ==
  ASSUME NEW d, NEW m, NEW p, NEW cum, OInv(d, m, p, cum), mpc' = "exited"
  PROVE  OInv(d, m, p, cum)'
BY DEF OInv, DInv, SInv, CInv, WInv

LEMMA ThreadOInv ==
  ASSUME BInv, NEW d, NEW m, NEW p, NEW cum, OInv(d, m, p, cum), NEW t \in Threads, OpRead(t)
  PROVE  OInv(d, m, p, cum)'
<1>1. CASE mpc' = "exited"
  BY <1>1, ExitOInv
<1>2. CASE mpc' # "exited"
  <2>1. ThreadSteps(t) /\ mpc # "exited" /\ TypeOK
    BY <1>2 DEF OpRead, ThreadSteps, ReadFails, BInv
  <2>2. UNCHANGED <<command, linked, thread, nextRead, todo, toLink, defaults, libsDone, libHandles>>
    BY <2>1, ThreadFrame DEF SameMain
  <2>3. DInv(d, m, p)'
    BY <2>1, <2>2, OrderStays DEF OInv
  <2>4. p \in [Threads -> Nat]
    BY DEF OInv, DInv
  <2>5. SInv(p)'
    BY <2>4, ThreadSInv DEF OInv
  <2>6. CInv(p, cum)'
    BY <2>4, ThreadCInv DEF OInv
  <2>7. WInv(d)'
    BY ThreadWInv DEF OInv
  <2> QED
    BY <2>3, <2>5, <2>6, <2>7 DEF OInv
<1> QED
  BY <1>1, <1>2

LEMMA SameLength ==
  ASSUME NEW d \in Seq(Files), WInv(d), BInv, Main, ~LibrariesDone, toLink' = toLink
  PROVE  WInv(d)'
BY MainWInv

LEMMA DealOInv ==
  ASSUME BInv, NEW d, NEW m, NEW p, NEW cum, OInv(d, m, p, cum), LinkFile \/ LinkDefault
  PROVE  \E d1, e : OInv(d1, m, p, e)'
<1> USE DEF OInv
<1>1. TypeOK /\ mpc # "exited" /\ MainOK /\ Main /\ d \in Seq(Files)
  BY MainRuns DEF BInv, Main, DInv
<1>2. ~LibrariesDone /\ ~(LinkFile /\ LinkDefault)
  BY <1>1 DEF LinkFile, LinkDefault, LibrariesDone
<1>3. SInv(p)'
  BY DealSInv
<1>4. CASE LinkFile
  <2>0. PICK f : f = Head(toLink)
    OBVIOUS
  <2>1. f \in Files /\ LinkToThread(f) /\ DInv(Append(d, f), m, p)'
    BY <1>1, <1>4, <2>0, FileDealt
  <2>2. PICK e : CInv(p, e)'
    BY <2>1, <1>4, DealCInv
  <2>3. Len(Append(d, f)) + Len(toLink') = Len(d) + Len(toLink)
    <3>1. toLink \in Seq(Files) /\ toLink # <<>> /\ toLink' = Tail(toLink)
      BY <1>1, <1>4 DEF LinkFile, TypeOK
    <3>2. Len(toLink') = Len(toLink) - 1 /\ Len(toLink) \in Nat
      BY <3>1
    <3>3. Len(Append(d, f)) = Len(d) + 1 /\ Len(d) \in Nat
      BY <1>1, <2>1, ElementsAppend
    <3> QED
      BY <3>2, <3>3
  <2>4. Append(d, f) \in Seq(Files)
    BY <1>1, <2>1, ElementsAppend
  <2>5. WInv(Append(d, f))'
    BY <1>1, <1>2, <2>3, <2>4, MainWInv
  <2> QED
    BY <1>3, <2>1, <2>2, <2>5
<1>5. CASE LinkDefault
  <2>0. PICK f : f = Head(defaults)
    OBVIOUS
  <2>1. f \in Files /\ LinkToThread(f) /\ DInv(Append(d, f), m, p)'
    BY <1>1, <1>5, <2>0, DefaultDealt
  <2>2. PICK e : CInv(p, e)'
    BY <2>1, <1>5, DealCInv
  <2>4. Append(d, f) \in Seq(Files)
    BY <1>1, <2>1, ElementsAppend
  <2>5. WInv(Append(d, f))'
    BY <1>1, <1>2, <1>5, <2>4, MainWInv
  <2> QED
    BY <1>3, <2>1, <2>2, <2>5
<1> QED
  BY <1>2, <1>4, <1>5

(* Main goes on to the next file, or leaves it where it is.                *)
LEMMA TurnOInv ==
  ASSUME BInv, NEW d, NEW m, NEW p, NEW cum, OInv(d, m, p, cum), mpc' # "exited",
         OpenNext \/ SkipNext \/ FileDone, NEW t \in Threads, t = T
  PROVE  IF todo' = Tail(todo) THEN OInv(d, m + 1, [p EXCEPT ![t] = @ + 1], cum)'
                               ELSE OInv(d, m, p, cum)'
<1> USE DEF OInv
<1>1. TypeOK /\ mpc # "exited" /\ MainOK /\ Main /\ d \in Seq(Files)
  BY MainRuns DEF BInv, Main, DInv
<1>2. /\ todo # <<>> /\ toLink = <<>> /\ ~LibrariesDone /\ toLink' = toLink
      /\ UNCHANGED <<command, linked, thread, nextRead, toLink, defaults, libsDone>>
      /\ libsDone => libHandles' = libHandles
  <2>1. CASE OpenNext
    BY <1>1, <2>1 DEF OpenNext, MainOK, LibrariesDone, threadVars
  <2>2. CASE SkipNext
    BY <1>1, <2>2 DEF SkipNext, MainOK, LibrariesDone, threadVars, ringVars
  <2>3. CASE FileDone
    <3>1. libsDone => Disk[Cur].kind # "LIB"
      <4>1. libsDone => TailFile(todo[1])
        <5>1. todo # <<>>
          BY <1>1, <2>3 DEF FileDone, MainOK, Using
        <5>2. 1 \in DOMAIN todo
          BY <1>1, <5>1 DEF TypeOK
        <5> QED
          BY <1>1, <5>2 DEF DInv, KindsOK
      <4>2. Cur = todo[1]
        BY <1>1, <2>3, CurFile DEF FileDone, MainOK, Using
      <4> QED
        BY <4>1, <4>2 DEF TailFile
    <3> QED
      BY <1>1, <2>3, <3>1 DEF FileDone, MainOK, LibrariesDone, Using
  <2> QED
    BY <2>1, <2>2, <2>3
<1>3. WInv(d)'
  BY <1>1, <1>2, SameLength
<1>4. todo # Tail(todo)
  <2>1. Len(Tail(todo)) = Len(todo) - 1 /\ Len(todo) \in Nat
    BY <1>1, <1>2, CurFile
  <2>2. Len(Tail(todo)) # Len(todo)
    BY <2>1
  <2> QED
    BY <2>2
<1>5. ASSUME todo' = Tail(todo) PROVE DInv(d, m + 1, [p EXCEPT ![t] = @ + 1])'
  BY <1>1, <1>2, <1>5, OrderAdvances
<1>6. CASE OpenNext
  <2>1. IF mpc' = "next" THEN todo' = Tail(todo) /\ SInv([p EXCEPT ![t] = @ + 1])' /\ CInv([p EXCEPT ![t] = @ + 1], cum)'
                         ELSE todo' = todo /\ SInv(p)' /\ CInv(p, cum)'
    BY <1>6, OpenSInv, OpenCInv
  <2>2. CASE mpc' = "next"
    BY <1>3, <1>5, <2>1, <2>2
  <2>3. CASE mpc' # "next"
    <3>1. UNCHANGED <<command, linked, thread, nextRead, todo, toLink, defaults, libsDone, libHandles>>
      BY <1>6, <2>1, <2>3 DEF OpenNext
    <3>2. DInv(d, m, p)'
      BY <1>1, <3>1, OrderStays
    <3> QED
      BY <1>3, <1>4, <2>1, <2>3, <3>2
  <2> QED
    BY <2>2, <2>3
<1>7. CASE SkipNext
  <2>1. todo' = Tail(todo)
    BY <1>7 DEF SkipNext
  <2>2. SInv([p EXCEPT ![t] = @ + 1])' /\ CInv([p EXCEPT ![t] = @ + 1], cum)'
    BY <1>7, SkipSInv, SkipCInv
  <2> QED
    BY <1>3, <1>5, <2>1, <2>2
<1>8. CASE FileDone
  <2>1. todo' = Tail(todo)
    BY <1>8 DEF FileDone
  <2>2. SInv([p EXCEPT ![t] = @ + 1])' /\ CInv([p EXCEPT ![t] = @ + 1], cum)'
    BY <1>8, DoneSInv, DoneCInv
  <2> QED
    BY <1>3, <1>5, <2>1, <2>2
<1> QED
  BY <1>6, <1>7, <1>8

(* The other steps of main.                                                *)
LEMMA RestOInv ==
  ASSUME BInv, NEW d, NEW m, NEW p, NEW cum, OInv(d, m, p, cum), mpc' # "exited",
         \/ Linked \/ ReadLibHeader \/ ReadOldTables \/ FillPastEnd \/ Fill \/ FillDone \/ Parse
         \/ LibrariesDone \/ Terminate \/ Bump \/ Join
  PROVE  OInv(d, m, p, cum)'
<1> USE DEF OInv
<1>1. TypeOK /\ mpc # "exited" /\ MainOK /\ Main /\ d \in Seq(Files)
  BY MainRuns DEF BInv, Main, DInv
<1>2. CASE LibrariesDone
  <2>1. DInv(d, m, p)'
    BY <1>1, <1>2, TailDealt
  <2>2. SInv(p)' /\ CInv(p, cum)' /\ WInv(d)'
    BY <1>2, EndSInv, EndCInv, TailWInv
  <2> QED
    BY <2>1, <2>2
<1>3. CASE ~LibrariesDone
  <2>1. UNCHANGED <<command, linked, thread, nextRead, todo, toLink, defaults, libsDone, libHandles>>
    <3>1. CASE Linked \/ ReadLibHeader \/ ReadOldTables \/ FillPastEnd
      BY <3>1 DEF Linked, ReadLibHeader, ReadOldTables, FillPastEnd, ringVars
    <3>2. CASE Fill \/ FillDone \/ Parse
      BY <3>2 DEF Fill, FillDone, Parse, ringVars
    <3>3. CASE Terminate \/ Bump \/ Join
      BY <3>3 DEF Terminate, Bump, Join, ringVars
    <3> QED
      BY <1>3, <3>1, <3>2, <3>3
  <2>2. DInv(d, m, p)'
    BY <1>1, <2>1, OrderStays
  <2>3. SInv(p)'
    BY <1>3, StaySInv, EndSInv
  <2>4. CInv(p, cum)'
    BY <1>3, StayCInv, FillCInv, EndCInv
  <2>5. WInv(d)'
    BY <1>1, <1>3, <2>1, SameLength
  <2> QED
    BY <2>2, <2>3, <2>4, <2>5
<1> QED
  BY <1>2, <1>3

LEMMA MainOInv ==
  ASSUME BInv, NEW d, NEW m, NEW p, NEW cum, OInv(d, m, p, cum), Main
  PROVE  \E d1, m1, p1, cum1 : OInv(d1, m1, p1, cum1)'
<1>1. CASE mpc' = "exited"
  BY <1>1, ExitOInv
<1>2. CASE LinkFile \/ LinkDefault
  BY <1>2, DealOInv
<1>3. CASE mpc' # "exited" /\ (OpenNext \/ SkipNext \/ FileDone)
  <2>1. TypeOK /\ todo # <<>>
    BY <1>3, MainRuns DEF BInv, MainOK, OpenNext, SkipNext, FileDone, Using
  <2>2. PICK t \in Threads : t = T
    BY <2>1, CurFile
  <2>3. CASE todo' = Tail(todo)
    BY <1>3, <2>2, <2>3, TurnOInv
  <2>4. CASE todo' # Tail(todo)
    BY <1>3, <2>2, <2>4, TurnOInv
  <2> QED
    BY <2>3, <2>4
<1>4. CASE mpc' # "exited" /\ ~(LinkFile \/ LinkDefault) /\ ~(OpenNext \/ SkipNext \/ FileDone)
  <2>1. OInv(d, m, p, cum)'
    BY <1>4, RestOInv DEF Main
  <2> QED
    BY <2>1
<1> QED
  BY <1>1, <1>2, <1>3, <1>4

LEMMA InitOInv ==
  ASSUME Init
  PROVE  OInv(<<>>, 0, [t \in Threads |-> 0], [t \in Threads |-> [n \in Nat |-> 0]])
<1>1. DInv(<<>>, 0, [t \in Threads |-> 0])
  BY InitDInv
<1>2. SInv([t \in Threads |-> 0]) /\ CInv([t \in Threads |-> 0], [t \in Threads |-> [n \in Nat |-> 0]])
  BY InitSInv
<1>3. WInv(<<>>)
  BY DEF Init, WInv, WaitsOK
<1> QED
  BY <1>1, <1>2, <1>3 DEF OInv

(* The files are dealt in order, and where main is among them agrees with  *)
(* the structures and blocks that each thread has used, in every state     *)
(* (LINK_TO_THREAD, _open_reading, _read_16k_threaded).                    *)
THEOREM OrderInvHolds == Spec => []OrderInv
<1>1. Init => OrderInv
  BY InitBInv, InitOInv DEF OrderInv
<1>2. OrderInv /\ [Next]_vars => OrderInv'
  <2> SUFFICES ASSUME OrderInv, [Next]_vars PROVE OrderInv'
    OBVIOUS
  <2>1. PICK d, m, p, cum : OInv(d, m, p, cum)
    BY DEF OrderInv
  <2>2. BInv
    BY DEF OrderInv
  <2>3. CASE Main
    BY <2>1, <2>2, <2>3, MainBInv, MainOInv DEF OrderInv
  <2>4. ASSUME NEW t \in Threads, OpRead(t) PROVE OrderInv'
    <3>1. OInv(d, m, p, cum)'
      BY <2>1, <2>2, <2>4, ThreadOInv
    <3> QED
      BY <2>2, <2>4, <3>1, ThreadBInv DEF OrderInv
  <2>5. CASE UNCHANGED vars
    <3>1. BInv'
      BY <2>2, <2>5, StutterBInv, SMTT(30)
    <3>2. OInv(d, m, p, cum)'
      BY <2>1, <2>5 DEF OInv, DInv, OnceOK, DealtOK, BehindOK, TodoOK, KindsOK, Coming, Dealer,
         SInv, MainFileOK, SlotsOK, ClaimsOK, Active, MainAt, Captured, Announced, Claimed, Opened, Using, ThreadFile,
         CInv, TakenOK, ContentOK, ReadPos, TakenPos, Unsent, WInv, WaitsOK, Closing, T, Cur,
         vars, threadVars, ringVars, mainRing, mainVars
    <3> QED
      BY <3>1, <3>2 DEF OrderInv
  <2> QED
    BY <2>3, <2>4, <2>5 DEF Next
<1> QED
  BY <1>1, <1>2, PTL DEF Spec

-----------------------------------------------------------------------------
Exited == mpc = "exited"

(* Main reads from the structure that it waited for.                       *)
LEMMA OwnsSlot ==
  ASSUME BInv, NEW d, NEW m, NEW p, NEW cum, OInv(d, m, p, cum), TailsTaken \/ ~libsDone
  PROVE  OwnSlot
<1> SUFFICES ASSUME Using PROVE MainSlot.file = Cur /\ MainSlot.flags
  BY DEF OwnSlot
<1>1. TypeOK /\ mpc # "exited" /\ MainOK /\ todo # <<>> /\ toLink = <<>> /\ ~opreadsDone
  BY DEF BInv, Using, MainOK
<1>2. Active
  BY <1>1 DEF Active
<1>3. DInv(d, m, p) /\ SInv(p) /\ p \in [Threads -> Nat]
  BY DEF OInv, DInv
<1>4. /\ T \in Threads /\ p[T] + 1 \in 1 .. Len(linked[T]) /\ linked[T][p[T] + 1] = Cur
  BY <1>1, <1>3, CurrentFile
<1>5. PICK t \in Threads : t = T
  BY <1>4
<1>6. /\ SlotsOK(t) /\ ClaimsOK(t, p) /\ ThreadOK(t) /\ MainAt(t) /\ MainFileOK
  BY <1>1, <1>3, <1>5 DEF SInv, BInv, MainAt
<1>7. nextOpenFile[t] = SlotOf(p[t] + 1) /\ p[t] \in Nat /\ sem[t].open + (p[t] + 1) = Announced(t)
  BY <1>2, <1>3, <1>6 DEF ClaimsOK, Claimed
<1>8. Announced(t) \in Int
  BY <1>1, UnitTypes DEF Announced
<1>9. p[t] + 1 <= Announced(t) /\ p[t] + 1 \in Nat /\ p[t] + 1 > p[t]
  BY <1>1, <1>7, <1>8, UnitTypes
<1>10. /\ openStruc[t][SlotOf(p[t] + 1)].file = linked[t][p[t] + 1]
       /\ openStruc[t][SlotOf(p[t] + 1)].flags = Disk[linked[t][p[t] + 1]].found
  BY <1>1, <1>2, <1>3, <1>6, <1>9, OpenedSlot
<1>11. Disk[Cur].found
  BY <1>2, <1>6 DEF MainFileOK
<1>12. MainSlot = openStruc[t][SlotOf(p[t] + 1)]
  BY <1>5, <1>7 DEF MainSlot
<1>13. linked[t][p[t] + 1] = Cur
  BY <1>4, <1>5
<1> QED
  BY <1>10, <1>11, <1>12, <1>13

(* Of libraries and object files, and of the tail when it is read as it    *)
(* was dealt: main waits for a file in the structure in which its thread   *)
(* has opened it, and it stays there until main gives it back              *)
(* (_open_reading, _release_input, OPENFILE_AVAIL_SEM).                    *)
THEOREM SlotsOwned == Spec => [](TailsTaken \/ ~libsDone => OwnSlot)
<1>1. OrderInv => (TailsTaken \/ ~libsDone => OwnSlot)
  BY OwnsSlot DEF OrderInv
<1> QED
  BY <1>1, OrderInvHolds, PTL

LEMMA ExitKeeps ==
  ASSUME BInv, KeptByMain, [Next]_vars, mpc' = "exited"
  PROVE  KeptByMain'
<1> SUFFICES ASSUME NEW t \in Threads, pc'[t] = "getstruc", sem'[t].avail = 0
             PROVE  openStruc'[t][Follow(nextOpenStruc'[t])].file \in Elements(todo')
  BY DEF KeptByMain
<1>1. TypeOK
  BY DEF BInv
<1>2. /\ pc' = pc /\ openStruc' = openStruc /\ nextOpenStruc' = nextOpenStruc /\ todo' = todo
      /\ sem'[t].avail = 0 => sem[t].avail = 0
  <2>1. ASSUME NEW u \in Threads, OpRead(u) PROVE ReadFails(u)
    <3> SUFFICES ASSUME ThreadSteps(u) PROVE FALSE
      BY <2>1 DEF OpRead, ThreadSteps
    <3>1. mpc' = mpc
      BY <1>1, ThreadFrame DEF SameMain
    <3> QED
      BY <2>1, <3>1 DEF OpRead
  <2>2. ASSUME NEW u \in Threads, ReadFails(u)
        PROVE pc' = pc /\ openStruc' = openStruc /\ nextOpenStruc' = nextOpenStruc /\ todo' = todo /\ sem' = sem
    BY <2>2 DEF ReadFails, threadVars, ringVars
  <2>3. CASE Linked \/ SkipNext \/ FillPastEnd \/ Parse \/ Terminate \/ Join
    BY <2>3 DEF Linked, SkipNext, FillPastEnd, Parse, Terminate, Join, threadVars, ringVars
  <2>4. CASE LinkFile \/ LinkDefault \/ Fill \/ FillDone \/ FileDone \/ LibrariesDone \/ Bump \/ ReadOldTables
    <3>1. mpc' # "exited"
      BY <2>4 DEF LinkFile, LinkDefault, Fill, FillDone, FileDone, LibrariesDone, Bump, ReadOldTables, MainGoto
    <3> QED
      BY <3>1
  <2>5. CASE ReadLibHeader
    <3>1. pc' = pc /\ openStruc' = openStruc /\ nextOpenStruc' = nextOpenStruc /\ todo' = todo
      BY <2>5 DEF ReadLibHeader, threadVars
    <3>2. T \in Threads
      BY <1>1, <2>5, CurFile DEF BInv, MainOK, Using, ReadLibHeader
    <3>3. sem'[t].avail = sem[t].avail
      <4>1. sem \in [Threads -> [SemNames -> Nat]] /\ sem' = [sem EXCEPT ![T]["header"] = @ - 1]
        BY <1>1, <2>5 DEF ReadLibHeader, Take, TypeOK
      <4>2. "avail" \in SemNames /\ "header" \in SemNames
        BY DEF SemNames
      <4> QED
        BY <3>2, <4>1, <4>2
    <3> QED
      BY <3>1, <3>3
  <2>6. CASE OpenNext
    <3>1. pc' = pc /\ openStruc' = openStruc /\ nextOpenStruc' = nextOpenStruc
      BY <2>6 DEF OpenNext, threadVars
    <3>2. todo' = todo
      BY <2>6 DEF OpenNext, MainGoto
    <3>3. T \in Threads
      BY <1>1, <2>6, CurFile DEF OpenNext
    <3>4. PICK u \in Threads : u = T
      BY <3>3
    <3>5. sem'[t].avail = sem[t].avail \/ sem'[t].avail = sem[t].avail + 1
      <4>1. CASE t = u
        <5>1. sem'[t].avail = sem[t].avail + (IF ~openStruc[t][Follow(nextOpenFile[t])].flags /\ Disk[Cur].kind = "LIB" THEN 1 ELSE 0)
          BY <1>1, <2>6, <3>4, <4>1, OpenUnits
        <5>2. sem[t].avail \in Nat
          BY <1>1, UnitTypes
        <5> QED
          BY <5>1, <5>2
      <4>2. CASE t # u
        <5>1. sem'[t] = sem[t]
          BY <1>1, <2>6, <3>4, <4>2, OpenUnits
        <5> QED
          BY <5>1
      <4> QED
        BY <4>1, <4>2
    <3>6. sem[t].avail \in Nat
      BY <1>1, UnitTypes
    <3> QED
      BY <3>1, <3>2, <3>5, <3>6
  <2>7. CASE UNCHANGED vars
    BY <2>7 DEF vars, threadVars, ringVars, mainVars
  <2> QED
    BY <2>1, <2>2, <2>3, <2>4, <2>5, <2>6, <2>7 DEF Next, Main
<1> QED
  BY <1>2 DEF KeptByMain

(* What keeps the two rings of a thread sound, when the tail is read as it *)
(* was dealt and no thread gets more of it than fits in its ring: then a   *)
(* thread waits only for main (_get_next_open_struc).                      *)
THEOREM RingsHold ==
  ASSUME TailsTaken, TailsFew
  PROVE  Spec => []RingsKept
<1>1. Init => ~Exited
  BY DEF Init, Exited
<1>2. OrderInv /\ ~Exited => KeptByMain
  <2> SUFFICES ASSUME OrderInv, ~Exited PROVE KeptByMain
    OBVIOUS
  <2>1. PICK d, m, p, cum : OInv(d, m, p, cum)
    BY DEF OrderInv
  <2>2. BInv /\ DInv(d, m, p) /\ SInv(p) /\ WInv(d) /\ mpc # "exited"
    BY <2>1 DEF OrderInv, OInv, Exited
  <2> QED
    BY <2>2, WaitedFor
<1>3. OrderInv /\ KeptByMain /\ [Next]_vars => (Exited' => KeptByMain')
  BY ExitKeeps DEF OrderInv, Exited
<1>4. OrderInv => OwnSlot /\ TypeOK
  BY OwnsSlot DEF OrderInv, BInv
<1>5. Spec => []KeptByMain
  BY <1>1, <1>2, <1>3, OrderInvHolds, PTL DEF Spec
<1>6. OwnSlot /\ TypeOK /\ KeptByMain /\ BufferAccount => RingsKept
  BY DEF RingsKept
<1> QED
  BY <1>4, <1>5, <1>6, BuffersAccounted, OrderInvHolds, PTL

-----------------------------------------------------------------------------
(* Reading one file after the other.                                       *)
LEMMA WholeNeed ==
  ASSUME NEW f \in Files, Disk[f].nonres = 0
  PROVE  WholeRead(f) = IF Disk[f].kind = "OBJ" THEN Disk[f].full + 1 ELSE NeedBlocks(f)
BY FileSizes DEF WholeRead, NeedBlocks, Pages

(* Nothing of the current file is left out with the non-resident names.    *)
LEMMA NoTables ==
  ASSUME TypeOK, NEW d, NEW m, NEW p, DInv(d, m, p), mpc # "exited", todo # <<>>, TailsTaken, Disk[Cur].wanted
  PROVE  Disk[Cur].nonres = 0
<1>1. Cur = todo[1] /\ 1 \in DOMAIN todo /\ Cur \in Files /\ Cur \in Elements(todo)
  <2>1. 1 \in 1 .. Len(todo) /\ todo \in Seq(Files)
    BY CurFile DEF TypeOK
  <2>2. 1 \in DOMAIN todo
    BY <2>1
  <2> QED
    BY <2>2, CurFile DEF Elements
<1>2. CASE libsDone
  <2>1. TailFile(Cur)
    BY <1>1, <1>2 DEF DInv, KindsOK
  <2> QED
    BY <2>1 DEF TailFile
<1>3. CASE ~libsDone
  <2>1. Disk[Cur].kind # "OLD"
    BY <1>1, <1>3 DEF DInv, KindsOK, InputFile
  <2> QED
    BY <1>1, <2>1, OpenReadAssumption
<1> QED
  BY <1>2, <1>3

LEMMA MoreFiles ==
  ASSUME NEW r \in Seq(Files), NEW s \in Seq(Files), s # <<>>
  PROVE  Len(r \o s) > Len(r) /\ SubSeq(r \o s, 1, Len(r)) = r
<1>1. /\ Len(r) \in Nat /\ Len(s) \in Nat \ {0}
      /\ r \o s \in Seq(Files) /\ Len(r \o s) = Len(r) + Len(s)
      /\ \A i \in 1 .. Len(r) + Len(s) : (r \o s)[i] = IF i <= Len(r) THEN r[i] ELSE s[i - Len(r)]
  BY ConcatProperties, EmptySeq
<1>2. /\ SubSeq(r \o s, 1, Len(r)) \in Seq(Files) /\ Len(SubSeq(r \o s, 1, Len(r))) = Len(r)
      /\ \A i \in 1 .. Len(r) : SubSeq(r \o s, 1, Len(r))[i] = (r \o s)[i]
  <2>1. 1 .. Len(r) \subseteq 1 .. Len(r \o s)
    BY <1>1
  <2> QED
    BY <1>1, <2>1, SubSeqProperties
<1>3. \A i \in 1 .. Len(r) : (r \o s)[i] = r[i]
  BY <1>1
<1>4. SubSeq(r \o s, 1, Len(r)) = r
  BY <1>2, <1>3, SeqEqual
<1> QED
  BY <1>1, <1>4

(* Main leaves its file and its block alone: it goes on, or ends.          *)
LEMMA InputStays ==
  ASSUME ~Ended, UNCHANGED <<todo, got, mblock>>
  PROVE  [Input!InputNext]_(Input!inputVars)
<1>1. CASE Ended'
  BY <1>1 DEF Input!InputNext, Input!End, Ended
<1>2. CASE ~Ended'
  BY <1>2 DEF Input!inputVars, Ended
<1> QED
  BY <1>1, <1>2

(* Main is done with its file, ...                                         *)
LEMMA InputFinishes ==
  ASSUME ~Ended, ~Ended', todo # <<>>, todo' = Tail(todo), got' = 0, mblock' = NoBlock,
         got = IF ~Disk[Cur].found \/ ~Disk[Cur].wanted THEN 0 ELSE WholeRead(Cur)
  PROVE  Input!FinishFile
BY DEF Input!FinishFile, Cur, NoBlock, Ended

(* ... takes a block of it, ...                                            *)
LEMMA InputTakes ==
  ASSUME ~Ended, ~Ended', todo # <<>>, todo' = todo, Disk[Cur].found, Disk[Cur].wanted, got < WholeRead(Cur),
         got' = got + 1, mblock' = <<Cur, got + 1>>
  PROVE  Input!ReadBlock
BY DEF Input!ReadBlock, Cur, Ended

(* ... or has more files to read.                                          *)
LEMMA InputGrows ==
  ASSUME ~Ended, ~Ended', NEW s \in Seq(Files), s # <<>>, todo \in Seq(Files), todo' = todo \o s,
         got' = got, mblock' = mblock
  PROVE  Input!NameFiles
<1>1. Len(todo') > Len(todo) /\ SubSeq(todo', 1, Len(todo)) = todo
  BY MoreFiles
<1> QED
  BY <1>1 DEF Input!NameFiles, Ended

(* The file that main takes up or is done with.                            *)
LEMMA InputTurn ==
  ASSUME BInv, NEW d, NEW m, NEW p, NEW cum, OInv(d, m, p, cum), TailsTaken, ~Ended,
         OpenNext \/ SkipNext \/ FileDone
  PROVE  [Input!InputNext]_(Input!inputVars)
<1>1. /\ mpc # "exited" /\ TypeOK /\ MainOK /\ DInv(d, m, p) /\ SInv(p) /\ MainFileOK /\ CInv(p, cum)
  BY DEF OInv, BInv, SInv, Ended
<1>2. todo # <<>> /\ Active /\ TakenOK /\ Cur \in Files
  <2>1. todo # <<>>
    BY <1>1 DEF OpenNext, SkipNext, FileDone, MainOK, Using
  <2> QED
    BY <1>1, <2>1, CurFile DEF Active, CInv
<1>3. CASE OpenNext
  <2>1. got = 0 /\ mblock = NoBlock /\ got' = got /\ mblock' = mblock
    BY <1>2, <1>3 DEF OpenNext, TakenOK
  <2>2. PICK t \in Threads : t = T
    BY <1>1, <1>2, CurFile
  <2>3. openStruc[t][Follow(nextOpenFile[t])].flags = Disk[Cur].found
    BY <1>1, <1>2, <1>3, <2>2, OpenTurn
  <2>4. CASE todo' = todo
    BY <2>1, <2>4, InputStays
  <2>5. CASE todo' # todo
    <3>1. ~Disk[Cur].found /\ todo' = Tail(todo) /\ mpc' = "next"
      BY <1>3, <2>2, <2>3, <2>5 DEF OpenNext, MainGoto
    <3>2. Input!FinishFile
      BY <1>2, <2>1, <3>1, InputFinishes DEF Ended
    <3> QED
      BY <3>2 DEF Input!InputNext
  <2> QED
    BY <2>4, <2>5
<1>4. CASE SkipNext
  <2>1. /\ mpc = "next" /\ mpc' = mpc /\ ~Disk[Cur].wanted /\ todo' = Tail(todo)
        /\ got' = got /\ mblock' = mblock
    BY <1>4 DEF SkipNext
  <2>2. got = 0 /\ mblock = NoBlock
    BY <1>2, <2>1 DEF TakenOK
  <2>3. Input!FinishFile
    BY <1>2, <2>1, <2>2, InputFinishes DEF Ended
  <2> QED
    BY <2>3 DEF Input!InputNext
<1>5. CASE FileDone
  <2>1. mpc = "done" /\ Using /\ mpc' = "next" /\ todo' = Tail(todo) /\ got' = 0 /\ mblock' = NoBlock
    BY <1>5 DEF FileDone, MainGoto, Using
  <2>2. Disk[Cur].found /\ Disk[Cur].wanted
    BY <1>1, <1>2, <2>1 DEF MainFileOK
  <2>3. Disk[Cur].nonres = 0
    BY <1>1, <1>2, <2>2, NoTables
  <2>4. got = WholeRead(Cur)
    BY <1>2, <2>1, <2>3, WholeNeed DEF TakenOK
  <2>5. Input!FinishFile
    BY <1>2, <2>1, <2>2, <2>4, InputFinishes DEF Ended
  <2> QED
    BY <2>5 DEF Input!InputNext
<1> QED
  BY <1>3, <1>4, <1>5

LEMMA InputFill ==
  ASSUME BInv, NEW d, NEW m, NEW p, NEW cum, OInv(d, m, p, cum), TailsTaken, Fill
  PROVE  [Input!InputNext]_(Input!inputVars)
<1>1. /\ mpc = "fill" /\ mpc # "exited" /\ TypeOK /\ MainOK /\ DInv(d, m, p) /\ SInv(p) /\ MainFileOK /\ CInv(p, cum)
      /\ Using /\ ~Ended
  BY DEF OInv, BInv, SInv, Ended, Using, Fill
<1>2. todo # <<>> /\ Active /\ TakenOK /\ Cur \in Files
  <2>1. todo # <<>>
    BY <1>1 DEF MainOK
  <2> QED
    BY <1>1, <2>1, CurFile DEF Active, CInv
<1>3. PICK t \in Threads : t = T
  BY <1>1, <1>2, CurFile
<1>4. /\ mblock' = insBlock[t][Follow(next16K[t])] /\ got' = got + 1 /\ todo' = todo /\ mpc' = "taken" /\ bufcnt # 1
  BY <1>3 DEF Fill, MainGoto
<1>5. insBlock[t][Follow(next16K[t])] = <<Cur, got + 1>>
  BY <1>1, <1>2, <1>3, BlockTaken
<1>6. Disk[Cur].found /\ Disk[Cur].wanted
  BY <1>1, <1>2 DEF MainFileOK
<1>7. got < WholeRead(Cur)
  <2>1. Disk[Cur].nonres = 0
    BY <1>1, <1>2, <1>6, NoTables
  <2>2. Disk[Cur].full \in Nat /\ got \in Nat
    BY <1>1, <1>2, FileSizes DEF TypeOK
  <2>3. IF Disk[Cur].kind = "OBJ" THEN got <= Disk[Cur].full ELSE got < NeedBlocks(Cur)
    BY <1>1, <1>2, <1>4 DEF TakenOK
  <2>4. WholeRead(Cur) = IF Disk[Cur].kind = "OBJ" THEN Disk[Cur].full + 1 ELSE NeedBlocks(Cur)
    BY <1>2, <2>1, WholeNeed
  <2> QED
    BY <2>2, <2>3, <2>4
<1>8. Input!ReadBlock
  BY <1>1, <1>2, <1>4, <1>5, <1>6, <1>7, InputTakes DEF Ended
<1> QED
  BY <1>8 DEF Input!InputNext

LEMMA InputMore ==
  ASSUME BInv, LinkDefault \/ LibrariesDone
  PROVE  [Input!InputNext]_(Input!inputVars)
<1>1. mpc \in {"parse", "next"} /\ mpc' \in {mpc, "link"} /\ ~Ended /\ ~Ended' /\ TypeOK /\ todo \in Seq(Files)
  <2>1. mpc \in {"parse", "next"} /\ mpc' \in {mpc, "link"}
    BY DEF LinkDefault, LibrariesDone, MainGoto
  <2> QED
    BY <2>1 DEF Ended, BInv, TypeOK
<1>2. CASE LinkDefault
  <2>1. defaults \in Seq(Files) /\ defaults # <<>>
    BY <1>1, <1>2 DEF LinkDefault, TypeOK
  <2>2. PICK f \in Files : f = Head(defaults)
    BY <2>1, ElementsTail
  <2>3. todo' = Append(todo, f) /\ got' = got /\ mblock' = mblock
    BY <1>2, <2>2 DEF LinkDefault, LinkToThread
  <2>4. Append(todo, f) = todo \o <<f>> /\ <<f>> \in Seq(Files) /\ <<f>> # <<>>
    BY <1>1, <2>2, AppendIsConcat
  <2>5. Input!NameFiles
    BY <1>1, <2>3, <2>4, InputGrows
  <2> QED
    BY <2>5 DEF Input!InputNext
<1>3. CASE LibrariesDone
  <2>1. todo = <<>> /\ todo' = Tails /\ got' = got /\ mblock' = mblock
    BY <1>3 DEF LibrariesDone
  <2>2. CASE Tails = <<>>
    BY <1>1, <2>1, <2>2, InputStays
  <2>3. CASE Tails # <<>>
    <3>1. Tails \in Seq(Files)
      <4>1. command \in CommandRecord
        BY <1>1, OpenReadAssumption DEF TypeOK
      <4> QED
        BY <2>3, <4>1 DEF Tails, CommandRecord
    <3>2. Tails = todo \o Tails
      BY <2>1, <3>1, ConcatEmptySeq
    <3>3. PICK s \in Seq(Files) : s = Tails
      BY <3>1
    <3>4. Input!NameFiles
      BY <1>1, <2>1, <2>3, <3>2, <3>3, InputGrows
    <3> QED
      BY <3>4 DEF Input!InputNext
  <2> QED
    BY <2>2, <2>3
<1> QED
  BY <1>2, <1>3

LEMMA InputStep ==
  ASSUME OrderInv, TailsTaken, [Next]_vars
  PROVE  [Input!InputNext]_(Input!inputVars)
<1>1. PICK d, m, p, cum : OInv(d, m, p, cum)
  BY DEF OrderInv
<1>2. BInv /\ TypeOK
  BY DEF OrderInv, BInv
<1>3. CASE UNCHANGED vars
  BY <1>3 DEF vars, mainVars, Ended, Input!inputVars
<1>4. ASSUME NEW t \in Threads, OpRead(t)
      PROVE  [Input!InputNext]_(Input!inputVars)
  <2>1. CASE ThreadSteps(t)
    BY <1>2, <2>1, ThreadFrame DEF SameMain, Ended, Input!inputVars
  <2>2. CASE ReadFails(t)
    <3>1. mpc' = "exited" /\ UNCHANGED <<todo, got, mblock>>
      BY <2>2 DEF ReadFails
    <3>2. CASE Ended
      BY <3>1, <3>2 DEF Ended, Input!inputVars
    <3> QED
      BY <3>1, <3>2, InputStays
  <2> QED
    BY <1>4, <2>1, <2>2 DEF OpRead, ThreadSteps
<1>5. ASSUME Main PROVE [Input!InputNext]_(Input!inputVars)
  <2>1. ~Ended
    BY <1>5 DEF Ended, Main, LinkFile, LinkDefault, Linked, OpenNext, SkipNext, ReadLibHeader, ReadOldTables, FillPastEnd,
         Fill, FillDone, Parse, FileDone, LibrariesDone, Terminate, Bump, Join
  <2>2. CASE LinkFile \/ Linked \/ ReadLibHeader \/ ReadOldTables \/ FillPastEnd \/ FillDone \/ Parse
             \/ Terminate \/ Bump \/ Join
    <3>1. UNCHANGED <<todo, got, mblock>>
      BY <2>2 DEF LinkFile, LinkToThread, Linked, ReadLibHeader, ReadOldTables, FillPastEnd, FillDone, Parse,
           Terminate, Bump, Join
    <3> QED
      BY <2>1, <3>1, InputStays
  <2>3. CASE LinkDefault \/ LibrariesDone
    BY <1>2, <2>3, InputMore
  <2>4. CASE OpenNext \/ SkipNext \/ FileDone
    BY <1>1, <1>2, <2>1, <2>4, InputTurn
  <2>5. CASE Fill
    BY <1>1, <1>2, <2>5, InputFill
  <2> QED
    BY <1>5, <2>2, <2>3, <2>4, <2>5 DEF Main
<1> QED
  BY <1>3, <1>4, <1>5 DEF Next

(* Main sees the files of the command line in order, then those that are   *)
(* named later, of each all that its reader needs, block for block, as if  *)
(* it opened and read them itself: nothing is lost, repeated or reordered  *)
(* on the way through the threads and their rings (_open_reading,          *)
(* _read_16k_threaded, LINK_TO_THREAD).                                    *)
THEOREM InputInOrder ==
  ASSUME TailsTaken
  PROVE  Spec => Input!InputSafety
<1>1. Init => Input!InputInit
  <2> SUFFICES ASSUME Init PROVE Input!InputInit
    OBVIOUS
  <2>1. todo \in {c.obj \o c.lib : c \in Commands}
    BY DEF Init
  <2>2. got = 0 /\ mblock = NoBlock
    BY DEF Init
  <2>3. Ended = FALSE
    BY DEF Init, Ended
  <2> QED
    BY <2>1, <2>2, <2>3 DEF Input!InputInit, NoBlock
<1>2. OrderInv /\ [Next]_vars => [Input!InputNext]_(Input!inputVars)
  BY InputStep
<1> QED
  BY <1>1, <1>2, OrderInvHolds, PTL DEF Spec, Input!InputSafety

-----------------------------------------------------------------------------
(* The handles.  A handle in a structure is that of the file the structure *)
(* is for; those of libraries main takes over when it is done with them.   *)
HolderOK(t) ==
  \A i \in Ring : openStruc[t][i].handle # NoFile =>
    /\ openStruc[t][i].handle \in handles
    /\ \E k \in 1 .. lastOpened[t] : i = SlotOf(k) /\ openStruc[t][i].handle = linked[t][k] /\ Disk[linked[t][k]].found

GivenUp(t, p) ==
  ~libsDone => \A k \in 1 .. lastOpened[t] :
    k <= p[t] /\ IsLibrary(linked[t][k]) => openStruc[t][SlotOf(k)].handle # linked[t][k]

LibsOK(t, p) ==
  ~libsDone => \A k \in 1 .. lastOpened[t] :
    k > p[t] /\ Opened(t, k) /\ IsLibrary(linked[t][k]) /\ Disk[linked[t][k]].found =>
      openStruc[t][SlotOf(k)].handle = linked[t][k]

ReadsOK(t) == Reading(t) /\ Slot(t).flags => Slot(t).handle = ThreadFile(t)

Gone(t) == pc[t] \in {"unborn", "dead"}

NothingOpen(t) == Gone(t) => \A i \in Ring : openStruc[t][i].handle = NoFile /\ insBlock[t][i] = NoBlock

HandlesOK(p) ==
  /\ libHandles \subseteq handles
  /\ ~libsDone => \A f \in libHandles : \E t \in Threads : \E k \in 1 .. Len(linked[t]) :
                    f = linked[t][k] /\ k <= p[t] /\ IsLibrary(f)
  /\ \A f \in handles \ libHandles : \E t \in Threads, i \in Ring : openStruc[t][i].handle = f

JoinOK ==
  /\ mpc = "join" => \A t \in Threads : t < stop => Gone(t)
  /\ mpc = "finished" => \A t \in Threads : Gone(t)

HInv(p) ==
  mpc # "exited" =>
    /\ HandlesOK(p) /\ JoinOK
    /\ \A t \in Threads : HolderOK(t) /\ GivenUp(t, p) /\ LibsOK(t, p) /\ ReadsOK(t) /\ NothingOpen(t)

(* One structure for a handle, ...                                         *)
LEMMA HandlePlace ==
  ASSUME TypeOK, NEW d, NEW m, NEW p, DInv(d, m, p), mpc # "exited",
         NEW t \in Threads, NEW u \in Threads, NEW i \in Ring, NEW j \in Ring,
         ThreadOK(t), ThreadOK(u), HolderOK(t), HolderOK(u),
         openStruc[t][i].handle # NoFile, openStruc[t][i].handle = openStruc[u][j].handle
  PROVE  t = u /\ i = j
<1>1. PICK k \in 1 .. lastOpened[t] : i = SlotOf(k) /\ openStruc[t][i].handle = linked[t][k]
  BY DEF HolderOK
<1>2. PICK l \in 1 .. lastOpened[u] : j = SlotOf(l) /\ openStruc[u][j].handle = linked[u][l]
  BY DEF HolderOK
<1>3. k \in 1 .. Len(linked[t]) /\ l \in 1 .. Len(linked[u])
  <2>1. /\ lastOpened[t] \in Nat /\ lastOpened[t] <= Len(linked[t]) /\ Len(linked[t]) \in Nat
        /\ lastOpened[u] \in Nat /\ lastOpened[u] <= Len(linked[u]) /\ Len(linked[u]) \in Nat
    BY InFiles, UnitTypes DEF ThreadOK
  <2> QED
    BY <2>1
<1>4. t = u /\ k = l
  BY <1>1, <1>2, <1>3, FilePlace
<1> QED
  BY <1>1, <1>2, <1>4

(* ... and none for one that a library has taken over.                     *)
LEMMA HandleApart ==
  ASSUME TypeOK, NEW d, NEW m, NEW p, DInv(d, m, p), mpc # "exited", HandlesOK(p),
         NEW t \in Threads, ThreadOK(t), HolderOK(t), GivenUp(t, p), NEW i \in Ring
  PROVE  openStruc[t][i].handle \notin libHandles
<1> SUFFICES ASSUME openStruc[t][i].handle \in libHandles PROVE FALSE
  OBVIOUS
<1>1. ~libsDone
  BY DEF DInv, KindsOK
<1>2. PICK u \in Threads : \E l \in 1 .. Len(linked[u]) :
        openStruc[t][i].handle = linked[u][l] /\ l <= p[u] /\ IsLibrary(openStruc[t][i].handle)
  BY <1>1 DEF HandlesOK
<1>3. PICK l \in 1 .. Len(linked[u]) : openStruc[t][i].handle = linked[u][l] /\ l <= p[u] /\ IsLibrary(linked[u][l])
  BY <1>2
<1>4. openStruc[t][i].handle # NoFile
  <2>1. libHandles \subseteq handles /\ handles \subseteq Files
    BY DEF HandlesOK, TypeOK
  <2> QED
    BY <2>1, OpenReadAssumption
<1>5. PICK k \in 1 .. lastOpened[t] : i = SlotOf(k) /\ openStruc[t][i].handle = linked[t][k]
  BY <1>4 DEF HolderOK
<1>6. k \in 1 .. Len(linked[t])
  <2>1. lastOpened[t] \in Nat /\ lastOpened[t] <= Len(linked[t]) /\ Len(linked[t]) \in Nat
    BY InFiles, UnitTypes DEF ThreadOK
  <2> QED
    BY <2>1
<1>7. t = u /\ k = l
  BY <1>3, <1>5, <1>6, FilePlace
<1> QED
  BY <1>1, <1>3, <1>5, <1>7 DEF GivenUp

(* A step of a thread that leaves some of its structures empty and closes  *)
(* what was in them.                                                       *)
LEMMA HandlesClosed ==
  ASSUME BInv, NEW d, NEW m, NEW p, DInv(d, m, p), HInv(p), mpc # "exited",
         NEW t \in Threads, NEW E \in SUBSET Ring,
         OnlyAt(t), UNCHANGED <<linked, libHandles, libsDone>>, 
         lastOpened'[t] = lastOpened[t] \/ lastOpened'[t] = lastOpened[t] + 1,
         handles' = handles \ {openStruc[t][i].handle : i \in E},
         \A i \in Ring : openStruc'[t][i].handle = IF i \in E THEN NoFile ELSE openStruc[t][i].handle,
         lastOpened'[t] = lastOpened[t] \/ libsDone \/ p[t] <= lastOpened[t]
  PROVE  HandlesOK(p)' /\ \A u \in Threads : HolderOK(u)' /\ GivenUp(u, p)'
<1>1. /\ TypeOK /\ HandlesOK(p) /\ \A u \in Threads : ThreadOK(u) /\ HolderOK(u) /\ GivenUp(u, p)
      /\ \A u \in Threads \ {t} : Same(u)
  BY DEF BInv, HInv, OnlyAt
<1>2. \A u \in Threads : lastOpened[u] \in Nat /\ \A k \in 1 .. Len(linked[u]) : linked[u][k] \in Files
  BY <1>1, InFiles, UnitTypes
<1>3. ASSUME NEW u \in Threads, NEW i \in Ring, openStruc'[u][i].handle # NoFile
      PROVE  openStruc'[u][i].handle = openStruc[u][i].handle /\ openStruc[u][i].handle \in handles'
  <2>1. openStruc'[u][i].handle = openStruc[u][i].handle /\ (u = t => i \notin E)
    <3>1. CASE u = t
      BY <1>3, <3>1
    <3>2. CASE u # t
      BY <1>1, <3>2 DEF Same
    <3> QED
      BY <3>1, <3>2
  <2>2. openStruc[u][i].handle \in handles
    BY <1>1, <1>3, <2>1 DEF HolderOK
  <2>3. ASSUME NEW j \in E, openStruc[u][i].handle = openStruc[t][j].handle PROVE FALSE
    <3>1. u = t /\ i = j
      BY <1>1, <1>3, <2>1, <2>3, HandlePlace
    <3> QED
      BY <2>1, <2>3, <3>1
  <2> QED
    BY <2>1, <2>2, <2>3
<1>4. ASSUME NEW u \in Threads PROVE HolderOK(u)'
  <2> SUFFICES ASSUME NEW i \in Ring, openStruc'[u][i].handle # NoFile
               PROVE  /\ openStruc'[u][i].handle \in handles'
                      /\ \E k \in 1 .. lastOpened'[u] : i = SlotOf(k) /\ openStruc'[u][i].handle = linked'[u][k] /\ Disk[linked'[u][k]].found
    BY DEF HolderOK
  <2>1. openStruc'[u][i].handle = openStruc[u][i].handle /\ openStruc[u][i].handle \in handles'
    BY <1>3
  <2>2. PICK k \in 1 .. lastOpened[u] : i = SlotOf(k) /\ openStruc[u][i].handle = linked[u][k] /\ Disk[linked[u][k]].found
    BY <1>1, <2>1 DEF HolderOK
  <2>3. lastOpened'[u] = lastOpened[u] \/ lastOpened'[u] = lastOpened[u] + 1
    BY <1>1 DEF Same
  <2>4. k \in 1 .. lastOpened'[u]
    BY <1>2, <2>3
  <2> QED
    BY <2>1, <2>2, <2>4
<1>5. ASSUME NEW u \in Threads PROVE GivenUp(u, p)'
  <2> SUFFICES ASSUME ~libsDone, NEW k \in 1 .. lastOpened'[u], k <= p[u], IsLibrary(linked[u][k])
               PROVE  openStruc'[u][SlotOf(k)].handle # linked[u][k]
    BY DEF GivenUp
  <2>1. k \in 1 .. lastOpened[u]
    <3>1. CASE u = t
      <4>1. p[t] \in Nat
        BY DEF DInv
      <4> QED
        BY <1>2, <3>1, <4>1
    <3>2. CASE u # t
      BY <1>1, <3>2 DEF Same
    <3> QED
      BY <3>1, <3>2
  <2>2. SlotOf(k) \in Ring /\ linked[u][k] # NoFile
    <3>1. k \in 1 .. Len(linked[u])
      <4>1. Len(linked[u]) \in Nat /\ lastOpened[u] <= Len(linked[u])
        BY <1>1, InFiles DEF ThreadOK
      <4> QED
        BY <1>2, <2>1, <4>1
    <3> QED
      <4>1. k \in Nat /\ linked[u][k] \in Files
        BY <1>2, <3>1
      <4> QED
        BY <4>1, SlotRange, OpenReadAssumption
  <2>3. openStruc[u][SlotOf(k)].handle # linked[u][k]
    BY <1>1, <2>1 DEF GivenUp
  <2> QED
    BY <1>3, <2>2, <2>3
<1>6. libHandles' \subseteq handles'
  BY <1>1, HandleApart DEF HandlesOK
<1>7. ASSUME NEW f \in handles' \ libHandles' PROVE \E u \in Threads, i \in Ring : openStruc'[u][i].handle = f
  <2>1. PICK u \in Threads, i \in Ring : openStruc[u][i].handle = f
    BY <1>1, <1>7 DEF HandlesOK
  <2>2. openStruc'[u][i].handle = f
    <3>1. CASE u = t
      BY <1>7, <2>1, <3>1
    <3>2. CASE u # t
      BY <1>1, <2>1, <3>2 DEF Same
    <3> QED
      BY <3>1, <3>2
  <2> QED
    BY <2>2
<1>8. ~libsDone' => \A f \in libHandles' : \E u \in Threads : \E k \in 1 .. Len(linked'[u]) :
                    f = linked'[u][k] /\ k <= p[u] /\ IsLibrary(f)
  BY <1>1 DEF HandlesOK
<1> QED
  BY <1>4, <1>5, <1>6, <1>7, <1>8 DEF HandlesOK

(* What a step of the thread does when it neither opens nor closes.        *)
LEMMA QuietSteps ==
  ASSUME TypeOK, NEW t \in Threads, ThreadOK(t), ThreadSteps(t), ~OpenFile(t), ~CloseFile(t), ~Abort(t)
  PROVE  /\ handles' = handles /\ ~Gone(t) /\ ~Gone(t)' /\ pc[t] # "open"
         /\ \A i \in Ring : openStruc'[t][i].handle = openStruc[t][i].handle
         /\ \/ lastOpened'[t] = lastOpened[t]
            \/ /\ pc[t] = "getname" /\ ~opreadsDone
               /\ pc'[t] = "open" /\ lastOpened'[t] = lastOpened[t] + 1
         /\ Reading(t)' => /\ Reading(t) /\ nextOpenStruc'[t] = nextOpenStruc[t]
                           /\ lastOpened'[t] = lastOpened[t] /\ openStruc' = openStruc
<1>1. /\ DOMAIN pc = Threads /\ DOMAIN lastOpened = Threads /\ DOMAIN nextOpenStruc = Threads
      /\ DOMAIN openStruc = Threads /\ DOMAIN openStruc[t] = Ring
      /\ nextOpenStruc[t] \in Ring /\ Follow(nextOpenStruc[t]) \in Ring
  BY NextInRing DEF TypeOK
<1>2. openStruc[t][Follow(nextOpenStruc[t])] \in [file : Files \union {NoFile}, flags : BOOLEAN, handle : Files \union {NoFile}]
  BY <1>1, SlotType
<1> USE DEF Goto, GotoUnlessDone, Reading, Gone
<1>3. CASE GetNextOpenStruc(t)
  BY <1>1, <1>2, <1>3 DEF GetNextOpenStruc
<1>4. CASE GetNextFileName(t)
  BY <1>1, <1>4 DEF GetNextFileName
<1>5. CASE SignalOpened(t)
  BY <1>1, <1>5 DEF SignalOpened
<1>6. CASE ReadHeader(t) \/ ReadOldLength(t) \/ GetNextBuffer(t) \/ ReadBlock(t) \/ SignalFull(t)
  BY <1>1, <1>6 DEF ReadHeader, ReadOldLength, GetNextBuffer, ReadBlock, SignalFull
<1> QED
  BY <1>3, <1>4, <1>5, <1>6 DEF ThreadSteps

LEMMA HandlesElsewhere ==
  ASSUME NEW p, NEW u \in Threads, Same(u), libsDone' = libsDone, LibsOK(u, p), ReadsOK(u), NothingOpen(u)
  PROVE  LibsOK(u, p)' /\ ReadsOK(u)' /\ NothingOpen(u)'
BY DEF LibsOK, Opened, ReadsOK, Reading, Slot, ThreadFile, NothingOpen, Gone, Same

(* A thread that main has passed on its way out is gone for good.          *)
LEMMA JoinKept ==
  ASSUME JoinOK, NEW t \in Threads, OnlyAt(t), ~Gone(t), UNCHANGED <<mpc, stop>>
  PROVE  JoinOK'
BY DEF JoinOK, OnlyAt, Same, Gone

(* Main is never ahead of what a thread has told it.                       *)
LEMMA MainBehind ==
  ASSUME TypeOK, NEW p \in [Threads -> Nat], NEW t \in Threads, ClaimsOK(t, p), ~libsDone
  PROVE  /\ p[t] <= Announced(t) /\ Announced(t) \in Int /\ Captured(t) \in Nat /\ p[t] \in Nat
         /\ Captured(t) <= 4 + p[t]
<1>1. lastOpened[t] \in Nat /\ sem[t].avail \in Nat /\ sem[t].open \in Nat /\ p[t] \in Nat
  BY UnitTypes
<1>2. Announced(t) \in Int /\ Captured(t) \in Nat
  BY <1>1 DEF Announced, Captured
<1>3. sem[t].avail + Captured(t) <= 4 + p[t] /\ sem[t].open + Claimed(t, p) = Announced(t)
  BY DEF ClaimsOK, Active
<1>4. p[t] <= Claimed(t, p) /\ Claimed(t, p) \in Nat
  BY <1>1 DEF Claimed
<1> QED
  BY <1>1, <1>2, <1>3, <1>4

(* The structures of the files that main has not behind it are different.  *)
LEMMA SlotsDiffer ==
  ASSUME TypeOK, NEW p \in [Threads -> Nat], NEW t \in Threads, ClaimsOK(t, p), ~libsDone,
         NEW k \in Nat, NEW l \in Nat, p[t] < k, k < l, l <= Captured(t)
  PROVE  SlotOf(k) # SlotOf(l)
<1>1. Captured(t) <= 4 + p[t] /\ p[t] \in Nat /\ Captured(t) \in Nat
  BY MainBehind
<1>2. l < k + 4
  BY <1>1
<1> QED
  BY <1>2, RingApart

(* A step that neither opens nor closes.                                   *)
LEMMA QuietHInv ==
  ASSUME BInv, NEW d, NEW m, NEW p, DInv(d, m, p), SInv(p), HInv(p), mpc # "exited",
         NEW t \in Threads, ThreadSteps(t), ~OpenFile(t), ~CloseFile(t), ~Abort(t)
  PROVE  HInv(p)'
<1>1. /\ TypeOK /\ ThreadOK(t) /\ p \in [Threads -> Nat] /\ ClaimsOK(t, p) /\ JoinOK
      /\ \A u \in Threads : LibsOK(u, p) /\ ReadsOK(u) /\ NothingOpen(u)
  BY DEF BInv, DInv, SInv, HInv
<1>2. OnlyAt(t) /\ UNCHANGED <<mpc, stop, linked, libHandles, libsDone>>
  BY <1>1, ThreadFrame DEF SameMain
<1>3. /\ handles' = handles /\ ~Gone(t) /\ ~Gone(t)' /\ pc[t] # "open"
      /\ \A i \in Ring : openStruc'[t][i].handle = openStruc[t][i].handle
      /\ \/ lastOpened'[t] = lastOpened[t]
         \/ pc[t] = "getname" /\ ~opreadsDone /\ pc'[t] = "open" /\ lastOpened'[t] = lastOpened[t] + 1
      /\ Reading(t)' => /\ Reading(t) /\ nextOpenStruc'[t] = nextOpenStruc[t]
                        /\ lastOpened'[t] = lastOpened[t] /\ openStruc' = openStruc
  BY <1>1, QuietSteps
<1>4. lastOpened'[t] = lastOpened[t] \/ libsDone \/ p[t] <= lastOpened[t]
  <2> SUFFICES ASSUME pc[t] = "getname", ~libsDone PROVE p[t] <= lastOpened[t]
    BY <1>3
  <2>1. p[t] <= Announced(t)
    BY <1>1, MainBehind
  <2> QED
    BY <2>1 DEF Announced
<1>5. HandlesOK(p)' /\ \A u \in Threads : HolderOK(u)' /\ GivenUp(u, p)'
  <2>1. /\ handles' = handles \ {openStruc[t][i].handle : i \in {}}
        /\ \A i \in Ring : openStruc'[t][i].handle = IF i \in {} THEN NoFile ELSE openStruc[t][i].handle
    BY <1>3
  <2> QED
    BY <1>2, <1>3, <1>4, <2>1, HandlesClosed
<1>6. \A u \in Threads \ {t} : LibsOK(u, p)' /\ ReadsOK(u)' /\ NothingOpen(u)'
  BY <1>1, <1>2, HandlesElsewhere DEF OnlyAt
<1>7. LibsOK(t, p)'
  <2> SUFFICES ASSUME ~libsDone, NEW k \in 1 .. lastOpened'[t], k > p[t], Opened(t, k)', IsLibrary(linked[t][k]), Disk[linked[t][k]].found
               PROVE  openStruc'[t][SlotOf(k)].handle = linked[t][k]
    BY <1>2 DEF LibsOK
  <2>1. lastOpened[t] \in Nat
    BY <1>1, UnitTypes
  <2>2. k \in 1 .. lastOpened[t] /\ Opened(t, k)
    BY <1>3, <2>1 DEF Opened
  <2>3. SlotOf(k) \in Ring
    BY <2>1, <2>2, SlotRange
  <2> QED
    BY <1>1, <1>3, <2>2, <2>3 DEF LibsOK
<1>8. ReadsOK(t)'
  BY <1>1, <1>2, <1>3 DEF ReadsOK, Slot, ThreadFile
<1>9. NothingOpen(t)'
  BY <1>3 DEF NothingOpen
<1>10. JoinOK'
  BY <1>1, <1>2, <1>3, JoinKept
<1> QED
  BY <1>5, <1>6, <1>7, <1>8, <1>9, <1>10 DEF HInv

(* The thread closes a file it has read.                                   *)
LEMMA CloseHInv ==
  ASSUME BInv, NEW d, NEW m, NEW p, DInv(d, m, p), SInv(p), HInv(p), mpc # "exited",
         NEW t \in Threads, CloseFile(t)
  PROVE  HInv(p)'
<1>1. /\ TypeOK /\ ThreadOK(t) /\ p \in [Threads -> Nat] /\ ClaimsOK(t, p) /\ SlotsOK(t) /\ JoinOK
      /\ \A u \in Threads : LibsOK(u, p) /\ ReadsOK(u) /\ NothingOpen(u)
  BY DEF BInv, DInv, SInv, HInv
<1>2. OnlyAt(t) /\ UNCHANGED <<mpc, stop, linked, libHandles, libsDone, opreadsDone>>
  BY <1>1, ThreadFrame DEF SameMain, ThreadSteps
<1>3. /\ pc[t] = "close" /\ pc'[t] = "getstruc" /\ lastOpened'[t] = lastOpened[t] /\ nextOpenStruc[t] \in Ring
      /\ handles' = handles \ {openStruc[t][nextOpenStruc[t]].handle}
      /\ openStruc' = [openStruc EXCEPT ![t][nextOpenStruc[t]] = Emptied(@)]
  BY <1>1 DEF CloseFile, Goto, TypeOK, Slot
<1>4. \A i \in Ring : openStruc'[t][i].handle = IF i = nextOpenStruc[t] THEN NoFile ELSE openStruc[t][i].handle
  <2>1. openStruc[t][nextOpenStruc[t]] \in [file : Files \union {NoFile}, flags : BOOLEAN, handle : Files \union {NoFile}]
    BY <1>1, <1>3, SlotType
  <2>2. DOMAIN openStruc = Threads /\ DOMAIN openStruc[t] = Ring
    BY <1>1, UnitTypes
  <2> QED
    BY <1>3, <2>1, <2>2 DEF Emptied
<1>5. HandlesOK(p)' /\ \A u \in Threads : HolderOK(u)' /\ GivenUp(u, p)'
  <2>1. /\ handles' = handles \ {openStruc[t][i].handle : i \in {nextOpenStruc[t]}}
        /\ \A i \in Ring : openStruc'[t][i].handle = IF i \in {nextOpenStruc[t]} THEN NoFile ELSE openStruc[t][i].handle
        /\ {nextOpenStruc[t]} \in SUBSET Ring
    BY <1>3, <1>4
  <2> QED
    BY <1>2, <1>3, <2>1, HandlesClosed
<1>6. \A u \in Threads \ {t} : LibsOK(u, p)' /\ ReadsOK(u)' /\ NothingOpen(u)'
  BY <1>1, <1>2, HandlesElsewhere DEF OnlyAt
<1>7. LibsOK(t, p)'
  <2> SUFFICES ASSUME ~libsDone, NEW k \in 1 .. lastOpened[t], k > p[t], IsLibrary(linked[t][k]), Disk[linked[t][k]].found
               PROVE  openStruc'[t][SlotOf(k)].handle = linked[t][k]
    BY <1>2, <1>3 DEF LibsOK
  <2>1. lastOpened[t] \in Nat /\ k \in Nat /\ Captured(t) = lastOpened[t]
    BY <1>1, <1>3, UnitTypes DEF Captured
  <2>2. k # lastOpened[t]
    BY <1>1, <1>3 DEF ThreadOK, ThreadFile
  <2>3. k < lastOpened[t]
    BY <2>1, <2>2
  <2>4. nextOpenStruc[t] = SlotOf(lastOpened[t])
    <3>1. ~opreadsDone
      BY DEF BInv, MainOK
    <3> QED
      BY <1>1, <2>1, <3>1 DEF SlotsOK
  <2>5. SlotOf(k) # nextOpenStruc[t] /\ SlotOf(k) \in Ring
    <3>1. lastOpened[t] <= Captured(t)
      BY <2>1
    <3>2. SlotOf(k) # SlotOf(lastOpened[t])
      BY <1>1, <2>1, <2>3, <3>1, SlotsDiffer
    <3> QED
      BY <2>1, <2>4, <3>2, SlotRange
  <2>6. openStruc[t][SlotOf(k)].handle = linked[t][k]
    BY <1>1, <1>3 DEF LibsOK, Opened
  <2> QED
    BY <1>4, <2>5, <2>6
<1>8. ReadsOK(t)' /\ NothingOpen(t)' /\ ~Gone(t)
  BY <1>3 DEF ReadsOK, Reading, NothingOpen, Gone
<1>9. JoinOK'
  BY <1>1, <1>2, <1>8, JoinKept
<1> QED
  BY <1>5, <1>6, <1>7, <1>8, <1>9 DEF HInv

(* The thread closes all it has, and ends.                                 *)
LEMMA AbortHInv ==
  ASSUME BInv, NEW d, NEW m, NEW p, DInv(d, m, p), HInv(p), mpc # "exited",
         NEW t \in Threads, Abort(t)
  PROVE  HInv(p)'
<1>1. /\ TypeOK /\ ThreadOK(t) /\ JoinOK /\ MainOK
      /\ \A u \in Threads : LibsOK(u, p) /\ ReadsOK(u) /\ NothingOpen(u)
  BY DEF BInv, HInv
<1>2. OnlyAt(t) /\ UNCHANGED <<mpc, stop, linked, libHandles, libsDone>>
  BY <1>1, ThreadFrame DEF SameMain, ThreadSteps
<1>3. /\ pc[t] = "abort" /\ pc'[t] = "dead" /\ lastOpened'[t] = lastOpened[t]
      /\ handles' = handles \ {openStruc[t][i].handle : i \in Ring}
  BY <1>1 DEF Abort, Goto, TypeOK
<1>4. \A i \in Ring : openStruc'[t][i].handle = NoFile /\ insBlock'[t][i] = NoBlock
  <2>1. \A i \in Ring : openStruc[t][i] \in [file : Files \union {NoFile}, flags : BOOLEAN, handle : Files \union {NoFile}]
    BY <1>1, SlotType
  <2>2. DOMAIN openStruc = Threads /\ DOMAIN insBlock = Threads
    BY <1>1, UnitTypes
  <2>3. openStruc'[t] = [i \in Ring |-> Emptied(openStruc[t][i])] /\ insBlock'[t] = [i \in Ring |-> NoBlock]
    BY <2>2 DEF Abort
  <2> QED
    BY <2>1, <2>3 DEF Emptied
<1>5. HandlesOK(p)' /\ \A u \in Threads : HolderOK(u)' /\ GivenUp(u, p)'
  <2>1. \A i \in Ring : openStruc'[t][i].handle = IF i \in Ring THEN NoFile ELSE openStruc[t][i].handle
    BY <1>4
  <2> QED
    BY <1>2, <1>3, <2>1, HandlesClosed
<1>6. \A u \in Threads \ {t} : LibsOK(u, p)' /\ ReadsOK(u)' /\ NothingOpen(u)'
  BY <1>1, <1>2, HandlesElsewhere DEF OnlyAt
<1>7. libsDone'
  BY <1>1, <1>2, <1>3 DEF ThreadOK, MainOK
<1>8. LibsOK(t, p)' /\ ReadsOK(t)' /\ NothingOpen(t)' /\ ~Gone(t)
  BY <1>3, <1>4, <1>7 DEF LibsOK, ReadsOK, Reading, NothingOpen, Gone
<1>9. JoinOK'
  BY <1>1, <1>2, <1>8, JoinKept
<1> QED
  BY <1>5, <1>6, <1>8, <1>9 DEF HInv

(* The thread closes what the structure still holds, and opens its file.   *)
LEMMA OpenHInv ==
  ASSUME BInv, NEW d, NEW m, NEW p, DInv(d, m, p), SInv(p), HInv(p), mpc # "exited",
         NEW t \in Threads, OpenFile(t)
  PROVE  HInv(p)'
<1> DEFINE s == nextOpenStruc[t]
           n == lastOpened[t]
           h == openStruc[t][s].handle
<1>1. /\ TypeOK /\ MainOK /\ ThreadOK(t) /\ p \in [Threads -> Nat] /\ ClaimsOK(t, p) /\ SlotsOK(t) /\ JoinOK /\ HandlesOK(p)
      /\ \A u \in Threads : /\ ThreadOK(u) /\ HolderOK(u) /\ GivenUp(u, p)
                            /\ LibsOK(u, p) /\ ReadsOK(u) /\ NothingOpen(u)
  BY DEF BInv, DInv, SInv, HInv
<1>2. OnlyAt(t) /\ UNCHANGED <<mpc, stop, linked, libHandles, libsDone, opreadsDone>>
  BY <1>1, ThreadFrame DEF SameMain, ThreadSteps
<1>3. /\ pc[t] = "open" /\ lastOpened' = lastOpened /\ nextOpenStruc' = nextOpenStruc
      /\ pc'[t] = IF opreadsDone THEN "abort" ELSE "opened"
  BY <1>1 DEF OpenFile, Goto, GotoUnlessDone, TypeOK
<1>4. s \in Ring /\ n \in 1 .. Len(linked[t]) /\ n \in Nat /\ linked[t][n] \in Files /\ linked[t][n] # NoFile
  <2>1. s \in Ring /\ n \in Nat
    BY <1>1 DEF TypeOK
  <2>2. n \in 1 .. Len(linked[t]) /\ linked[t][n] \in Files
    BY <1>1, <1>3, InFiles DEF AtFile
  <2> QED
    BY <2>1, <2>2, OpenReadAssumption
<1>5. /\ Disk[linked[t][n]].found /\ ~opreadsDone =>
           /\ handles' = (handles \ {h}) \cup {linked[t][n]}
           /\ openStruc'[t][s].handle = linked[t][n]
      /\ ~(Disk[linked[t][n]].found /\ ~opreadsDone) =>
           handles' = handles \ {h} /\ openStruc'[t][s].handle = NoFile
      /\ \A i \in Ring \ {s} : openStruc'[t][i] = openStruc[t][i]
  <2>1. DOMAIN openStruc = Threads /\ DOMAIN openStruc[t] = Ring
    BY <1>1, UnitTypes
  <2> QED
    BY <1>4, <2>1 DEF OpenFile, Slot, ThreadFile
<1>6. ~opreadsDone => s = SlotOf(n)
  BY <1>1, <1>3 DEF SlotsOK, Captured
<1>7. libsDone \/ (~opreadsDone /\ p[t] < n /\ p[t] \in Nat /\ Captured(t) = n)
  <2> SUFFICES ASSUME ~libsDone PROVE ~opreadsDone /\ p[t] < n /\ p[t] \in Nat /\ Captured(t) = n
    OBVIOUS
  <2>1. p[t] <= Announced(t) /\ p[t] \in Nat
    BY <1>1, MainBehind
  <2> QED
    BY <1>1, <1>3, <1>4, <2>1 DEF MainOK, Announced, Captured
\* the handles of the other structures are others, and stay open
<1>8. ASSUME NEW u \in Threads, NEW i \in Ring, u # t \/ i # s, openStruc[u][i].handle # NoFile
      PROVE  openStruc[u][i].handle \in handles'
  <2>1. openStruc[u][i].handle \in handles
    BY <1>1, <1>8 DEF HolderOK
  <2>2. openStruc[u][i].handle # h
    BY <1>1, <1>4, <1>8, HandlePlace
  <2> QED
    BY <1>5, <2>1, <2>2
<1>9. \A u \in Threads, i \in Ring : u # t \/ i # s => openStruc'[u][i] = openStruc[u][i]
  BY <1>2, <1>5 DEF OnlyAt, Same
<1>10. ASSUME NEW u \in Threads PROVE HolderOK(u)'
  <2> SUFFICES ASSUME NEW i \in Ring, openStruc'[u][i].handle # NoFile
               PROVE  /\ openStruc'[u][i].handle \in handles'
                      /\ \E k \in 1 .. lastOpened[u] : /\ i = SlotOf(k) /\ openStruc'[u][i].handle = linked[u][k]
                                                       /\ Disk[linked[u][k]].found
    BY <1>2, <1>3 DEF HolderOK
  <2>1. CASE u = t /\ i = s
    <3>1. Disk[linked[t][n]].found /\ ~opreadsDone
      BY <1>5, <2>1
    <3>2. n \in 1 .. n
      BY <1>4
    <3> QED
      BY <1>5, <1>6, <2>1, <3>1, <3>2
  <2>2. CASE u # t \/ i # s
    <3>1. openStruc'[u][i] = openStruc[u][i]
      BY <1>9, <2>2
    <3> QED
      BY <1>1, <1>8, <2>2, <3>1 DEF HolderOK
  <2> QED
    BY <2>1, <2>2
<1>11. GivenUp(t, p)' /\ LibsOK(t, p)'
  <2> SUFFICES ASSUME ~libsDone, NEW k \in 1 .. n, IsLibrary(linked[t][k])
               PROVE  /\ k <= p[t] => openStruc'[t][SlotOf(k)].handle # linked[t][k]
                      /\ k > p[t] /\ Disk[linked[t][k]].found => openStruc'[t][SlotOf(k)].handle = linked[t][k]
    BY <1>2, <1>3 DEF GivenUp, LibsOK
  <2>1. k \in Nat /\ SlotOf(k) \in Ring /\ k \in 1 .. Len(linked[t])
    <3>1. k \in Nat /\ k <= n /\ Len(linked[t]) \in Nat
      BY <1>1, <1>4, InFiles
    <3>2. k \in 1 .. Len(linked[t])
      BY <1>4, <3>1
    <3> QED
      BY <3>1, <3>2, SlotRange
  <2>2. CASE k = n
    BY <1>5, <1>6, <1>7, <1>4, <2>2
  <2>3. CASE k # n /\ k <= p[t]
    <3>1. ~(k > p[t]) /\ k < n
      BY <1>4, <1>7, <2>1, <2>3
    <3>2. openStruc[t][SlotOf(k)].handle # linked[t][k]
      BY <1>1, <2>3 DEF GivenUp
    <3>3. linked[t][k] # linked[t][n] /\ linked[t][k] # NoFile
      <4>1. linked[t][k] # linked[t][n]
        BY <1>1, <1>4, <2>1, <2>3, FilePlace
      <4>2. linked[t][k] \in Files
        BY <1>1, <2>1, InFiles
      <4> QED
        BY <4>1, <4>2, OpenReadAssumption
    <3>4. openStruc'[t][SlotOf(k)].handle # linked[t][k]
      <4>1. CASE SlotOf(k) = s
        BY <1>5, <3>3, <4>1
      <4>2. CASE SlotOf(k) # s
        BY <1>5, <2>1, <3>2, <4>2
      <4> QED
        BY <4>1, <4>2
    <3> QED
      BY <3>1, <3>4
  <2>4. CASE k # n /\ ~(k <= p[t])
    <3>1. k > p[t] /\ k < n
      BY <1>4, <1>7, <2>1, <2>4
    <3>2. n <= Captured(t)
      BY <1>4, <1>7
    <3>3. SlotOf(k) # SlotOf(n)
      BY <1>1, <1>4, <2>1, <3>1, <3>2, SlotsDiffer
    <3>4. openStruc'[t][SlotOf(k)] = openStruc[t][SlotOf(k)]
      BY <1>5, <1>6, <1>7, <2>1, <3>3
    <3>5. Disk[linked[t][k]].found => openStruc[t][SlotOf(k)].handle = linked[t][k]
      BY <1>1, <3>1 DEF LibsOK, Opened
    <3> QED
      BY <2>4, <3>4, <3>5
  <2> QED
    BY <2>2, <2>3, <2>4
<1>12. \A u \in Threads \ {t} : GivenUp(u, p)' /\ LibsOK(u, p)' /\ ReadsOK(u)' /\ NothingOpen(u)'
  <2>1. \A u \in Threads \ {t} : GivenUp(u, p)'
    BY <1>1, <1>2 DEF OnlyAt, Same, GivenUp
  <2> QED
    BY <1>1, <1>2, <2>1, HandlesElsewhere DEF OnlyAt
<1>13. ReadsOK(t)' /\ NothingOpen(t)' /\ ~Gone(t)
  <2>1. NothingOpen(t)' /\ ~Gone(t)
    BY <1>3 DEF NothingOpen, Gone
  <2>2. ReadsOK(t)'
    <3> SUFFICES ASSUME Reading(t)', openStruc'[t][s].flags PROVE openStruc'[t][s].handle = linked[t][n]
      BY <1>2, <1>3 DEF ReadsOK, Slot, ThreadFile
    <3>1. ~opreadsDone
      BY <1>3 DEF Reading
    <3>2. openStruc'[t][s].flags = (Disk[linked[t][n]].found /\ ~opreadsDone)
      <4>1. DOMAIN openStruc = Threads /\ DOMAIN openStruc[t] = Ring
        BY <1>1, UnitTypes
      <4> QED
        BY <1>4, <4>1 DEF OpenFile, ThreadFile
    <3> QED
      BY <1>5, <3>1, <3>2
  <2> QED
    BY <2>1, <2>2
<1>14. JoinOK'
  BY <1>1, <1>2, <1>13, JoinKept
<1>15. HandlesOK(p)'
  <2>1. libHandles' \subseteq handles'
    <3>1. h \notin libHandles
      BY <1>1, <1>4, HandleApart
    <3> QED
      BY <1>1, <1>2, <1>5, <3>1 DEF HandlesOK
  <2>2. ASSUME NEW f \in handles' \ libHandles' PROVE \E u \in Threads, i \in Ring : openStruc'[u][i].handle = f
    <3>1. CASE f = openStruc'[t][s].handle
      BY <1>4, <3>1
    <3>2. CASE f # openStruc'[t][s].handle
      <4>1. f \in handles \ libHandles /\ f # h
        BY <1>2, <1>5, <2>2, <3>2
      <4>2. PICK u \in Threads, i \in Ring : openStruc[u][i].handle = f
        BY <1>1, <4>1 DEF HandlesOK
      <4>3. openStruc'[u][i] = openStruc[u][i]
        BY <1>9, <4>1, <4>2
      <4> QED
        BY <4>2, <4>3
    <3> QED
      BY <3>1, <3>2
  <2>3. ~libsDone' => \A f \in libHandles' : \E u \in Threads : \E k \in 1 .. Len(linked'[u]) :
                        f = linked'[u][k] /\ k <= p[u] /\ IsLibrary(f)
    BY <1>1, <1>2 DEF HandlesOK
  <2> QED
    BY <2>1, <2>2, <2>3 DEF HandlesOK
<1> QED
  BY <1>10, <1>11, <1>12, <1>13, <1>14, <1>15 DEF HInv

LEMMA ThreadHInv ==
  ASSUME BInv, NEW d, NEW m, NEW p, DInv(d, m, p), SInv(p), HInv(p), NEW t \in Threads, OpRead(t)
  PROVE  HInv(p)'
<1>1. mpc # "exited"
  BY DEF OpRead
<1>2. CASE ReadFails(t)
  BY <1>2 DEF ReadFails, HInv
<1>3. CASE ThreadSteps(t)
  BY <1>1, <1>3, QuietHInv, OpenHInv, CloseHInv, AbortHInv
<1> QED
  BY <1>2, <1>3 DEF OpRead, ThreadSteps

-----------------------------------------------------------------------------
(* Main's steps that leave the handles alone; q counts at least as many    *)
(* files behind main as p, and no library it still has open.               *)
LEMMA HandlesUnmoved ==
  ASSUME TypeOK, NEW p \in [Threads -> Nat], NEW q \in [Threads -> Nat], HInv(p), mpc # "exited",
         UNCHANGED <<openStruc, handles, libHandles, libsDone>>,
         \A u \in Threads : Unmoved(u) /\ p[u] <= q[u],
         \A u \in Threads, i \in Ring : insBlock'[u][i] \in {insBlock[u][i], NoBlock},
         ~libsDone => \A u \in Threads : \A k \in 1 .. lastOpened[u] :
           p[u] < k /\ k <= q[u] /\ IsLibrary(linked[u][k]) => openStruc[u][SlotOf(k)].handle # linked[u][k]
  PROVE  HandlesOK(q)' /\ \A u \in Threads : HolderOK(u)' /\ GivenUp(u, q)' /\ LibsOK(u, q)' /\ ReadsOK(u)' /\ NothingOpen(u)'
<1>1. /\ HandlesOK(p) /\ \A u \in Threads : HolderOK(u) /\ GivenUp(u, p) /\ LibsOK(u, p) /\ ReadsOK(u) /\ NothingOpen(u)
      /\ \A u \in Threads : p[u] \in Nat /\ q[u] \in Nat /\ lastOpened[u] \in Nat
  BY UnitTypes DEF HInv
<1>2. HandlesOK(q)'
  <2>1. ASSUME ~libsDone, NEW f \in libHandles
        PROVE  \E u \in Threads : \E k \in 1 .. Len(linked'[u]) : f = linked'[u][k] /\ k <= q[u] /\ IsLibrary(f)
    <3>1. PICK u \in Threads : \E k \in 1 .. Len(linked[u]) : f = linked[u][k] /\ k <= p[u] /\ IsLibrary(f)
      BY <1>1, <2>1 DEF HandlesOK
    <3>2. PICK k \in 1 .. Len(linked[u]) : f = linked[u][k] /\ k <= p[u] /\ IsLibrary(f)
      BY <3>1
    <3>3. k <= q[u]
      <4>1. p[u] <= q[u] /\ p[u] \in Nat /\ q[u] \in Nat /\ k <= p[u]
        BY <1>1, <3>2
      <4>2. k \in Nat
        BY <3>2
      <4> QED
        BY <4>1, <4>2
    <3>4. linked'[u] = linked[u]
      BY DEF Unmoved
    <3> QED
      BY <3>2, <3>3, <3>4
  <2> QED
    BY <1>1, <2>1 DEF HandlesOK
<1>3. ASSUME NEW u \in Threads PROVE HolderOK(u)' /\ ReadsOK(u)'
  BY <1>1 DEF HolderOK, ReadsOK, Reading, Slot, ThreadFile, Unmoved
<1>4. ASSUME NEW u \in Threads PROVE NothingOpen(u)'
  BY <1>1 DEF NothingOpen, Gone, Unmoved
<1>5. ASSUME NEW u \in Threads PROVE GivenUp(u, q)'
  <2> SUFFICES ASSUME ~libsDone, NEW k \in 1 .. lastOpened[u], k <= q[u], IsLibrary(linked[u][k])
               PROVE  openStruc[u][SlotOf(k)].handle # linked[u][k]
    BY DEF GivenUp, Unmoved
  <2>1. CASE k <= p[u]
    BY <1>1, <2>1 DEF GivenUp
  <2>2. CASE ~(k <= p[u])
    <3>1. p[u] < k
      BY <1>1, <2>2
    <3> QED
      BY <3>1
  <2> QED
    BY <2>1, <2>2
<1>6. ASSUME NEW u \in Threads PROVE LibsOK(u, q)'
  <2> SUFFICES ASSUME ~libsDone, NEW k \in 1 .. lastOpened[u], k > q[u], Opened(u, k), IsLibrary(linked[u][k]), Disk[linked[u][k]].found
               PROVE  openStruc[u][SlotOf(k)].handle = linked[u][k]
    BY DEF LibsOK, Unmoved, Opened
  <2>1. k > p[u]
    <3>1. p[u] <= q[u] /\ p[u] \in Nat /\ q[u] \in Nat /\ k \in Nat
      BY <1>1
    <3> QED
      BY <3>1
  <2> QED
    BY <1>1, <2>1 DEF LibsOK
<1> QED
  BY <1>2, <1>3, <1>4, <1>5, <1>6

(* Dealing a file.                                                         *)
LEMMA DealHInv ==
  ASSUME BInv, NEW p \in [Threads -> Nat], HInv(p), mpc # "exited", LinkFile \/ LinkDefault
  PROVE  HInv(p)'
<1>1. /\ TypeOK /\ HandlesOK(p) /\ \A u \in Threads : HolderOK(u) /\ GivenUp(u, p) /\ LibsOK(u, p) /\ ReadsOK(u) /\ NothingOpen(u)
      /\ \A u \in Threads : ThreadOK(u)
  BY DEF BInv, HInv
<1>2. PICK f \in Files : LinkToThread(f)
  <2>1. CASE LinkFile
    <3>1. toLink \in Seq(Files) /\ toLink # <<>>
      BY <1>1, <2>1 DEF LinkFile, TypeOK
    <3> QED
      BY <2>1, <3>1, ElementsTail DEF LinkFile
  <2>2. CASE LinkDefault
    <3>1. defaults \in Seq(Files) /\ defaults # <<>>
      BY <1>1, <2>2 DEF LinkDefault, TypeOK
    <3> QED
      BY <2>2, <3>1, ElementsTail DEF LinkDefault
  <2> QED
    BY <2>1, <2>2
<1>3. mpc' = mpc /\ mpc \notin {"join", "finished"}
  BY DEF LinkFile, LinkDefault
<1>4. PICK t \in Threads : t = Dealer
  BY <1>1, <1>2, DealtTo
<1>5. /\ OnlyAt(t) /\ linked'[t] = Append(linked[t], f)
      /\ pc'[t] = (IF pc[t] = "unborn" THEN "getstruc" ELSE pc[t])
      /\ UNCHANGED <<lastOpened, nextOpenStruc, openStruc, insBlock, handles, libHandles>>
  BY <1>1, <1>2, <1>4, DealtTo
<1>6. libsDone' = libsDone
  BY <1>2 DEF LinkToThread
<1>7. \A u \in Threads : \A k \in 1 .. Len(linked[u]) : linked'[u][k] = linked[u][k] /\ k \in 1 .. Len(linked'[u])
  <2> SUFFICES ASSUME NEW u \in Threads, NEW k \in 1 .. Len(linked[u]) PROVE linked'[u][k] = linked[u][k] /\ k \in 1 .. Len(linked'[u])
    OBVIOUS
  <2>1. CASE u = t
    <3>1. linked[t] \in Seq(Files)
      BY <1>1 DEF TypeOK
    <3>2. /\ Len(Append(linked[t], f)) = Len(linked[t]) + 1 /\ Len(linked[t]) \in Nat
          /\ \A i \in 1 .. Len(linked[t]) : Append(linked[t], f)[i] = linked[t][i]
      BY <3>1, ElementsAppend
    <3> QED
      BY <1>5, <2>1, <3>2
  <2>2. CASE u # t
    BY <1>5, <2>2 DEF OnlyAt, Same
  <2> QED
    BY <2>1, <2>2
<1>8. \A u \in Threads : \A k \in 1 .. lastOpened[u] : linked'[u][k] = linked[u][k]
  <2> SUFFICES ASSUME NEW u \in Threads, NEW k \in 1 .. lastOpened[u] PROVE k \in 1 .. Len(linked[u])
    BY <1>7
  <2>1. lastOpened[u] <= Len(linked[u]) /\ lastOpened[u] \in Nat /\ Len(linked[u]) \in Nat
    BY <1>1, InFiles, UnitTypes DEF ThreadOK
  <2> QED
    BY <2>1
<1>9. \A u \in Threads : \/ pc'[u] = pc[u]
                         \/ pc[u] = "unborn" /\ pc'[u] = "getstruc"
  BY <1>5 DEF OnlyAt, Same
<1>10. ASSUME NEW u \in Threads PROVE HolderOK(u)' /\ GivenUp(u, p)'
  BY <1>1, <1>5, <1>6, <1>8 DEF HolderOK, GivenUp
<1>11. ASSUME NEW u \in Threads PROVE LibsOK(u, p)'
  BY <1>1, <1>5, <1>6, <1>8, <1>9 DEF LibsOK, Opened
<1>12. ASSUME NEW u \in Threads PROVE ReadsOK(u)'
  <2> SUFFICES ASSUME Reading(u)', Slot(u).flags PROVE Slot(u).handle = linked'[u][lastOpened[u]]
    BY <1>5 DEF ReadsOK, Slot, ThreadFile
  <2>1. Reading(u)
    BY <1>9 DEF Reading
  <2>2. lastOpened[u] \in 1 .. lastOpened[u]
    <3>1. lastOpened[u] \in 1 .. Len(linked[u])
      BY <1>1, <2>1, InFiles DEF Reading, AtFile, InFile
    <3>2. lastOpened[u] \in Nat
      BY <1>1, UnitTypes
    <3> QED
      BY <3>1, <3>2
  <2> QED
    BY <1>1, <1>8, <2>1, <2>2 DEF ReadsOK, ThreadFile
<1>13. ASSUME NEW u \in Threads PROVE NothingOpen(u)'
  BY <1>1, <1>5, <1>9 DEF NothingOpen, Gone
<1>14. HandlesOK(p)'
  BY <1>1, <1>5, <1>6, <1>7 DEF HandlesOK
<1>15. JoinOK'
  BY <1>3 DEF JoinOK
<1> QED
  BY <1>10, <1>11, <1>12, <1>13, <1>14, <1>15 DEF HInv

(* Main's steps within a file, and at the end.                             *)
LEMMA RestHInv ==
  ASSUME BInv, NEW p \in [Threads -> Nat], HInv(p), mpc' # "exited",
         \/ Linked \/ ReadLibHeader \/ ReadOldTables \/ FillPastEnd \/ Fill \/ FillDone \/ Parse
         \/ Terminate \/ Bump \/ Join
  PROVE  HInv(p)'
<1>1. TypeOK /\ mpc # "exited" /\ MainOK /\ JoinOK /\ \A u \in Threads : p[u] \in Nat
  BY MainRuns DEF BInv, Main, HInv
<1>2. /\ UNCHANGED <<openStruc, handles, libHandles, libsDone>>
      /\ \A u \in Threads : Unmoved(u)
      /\ insBlock' = insBlock \/ Fill
  <2>1. CASE Linked \/ ReadLibHeader \/ ReadOldTables \/ FillPastEnd
    BY <2>1 DEF Linked, ReadLibHeader, ReadOldTables, FillPastEnd, ringVars, threadVars, Unmoved
  <2>2. CASE Fill \/ FillDone \/ Parse
    BY <2>2 DEF Fill, FillDone, Parse, ringVars, threadVars, Unmoved
  <2>3. CASE Terminate \/ Bump \/ Join
    BY <2>3 DEF Terminate, Bump, Join, ringVars, threadVars, Unmoved
  <2> QED
    BY <2>1, <2>2, <2>3
<1>3. \A u \in Threads, i \in Ring : insBlock'[u][i] \in {insBlock[u][i], NoBlock}
  <2>1. CASE Fill
    <3>1. insBlock' = [insBlock EXCEPT ![T][Follow(next16K[T])] = NoBlock]
      BY <2>1 DEF Fill
    <3>2. DOMAIN insBlock = Threads /\ \A u \in Threads : DOMAIN insBlock[u] = Ring
      BY <1>1 DEF TypeOK
    <3> QED
      BY <3>1, <3>2
  <2>2. CASE insBlock' = insBlock
    BY <2>2
  <2> QED
    BY <1>2, <2>1, <2>2
<1>4. HandlesOK(p)' /\ \A u \in Threads : HolderOK(u)' /\ GivenUp(u, p)' /\ LibsOK(u, p)' /\ ReadsOK(u)' /\ NothingOpen(u)'
  <2>1. \A u \in Threads : Unmoved(u) /\ p[u] <= p[u] /\ (\A k \in 1 .. lastOpened[u] : ~(p[u] < k /\ k <= p[u]))
    BY <1>1, <1>2, UnitTypes
  <2> QED
    BY <1>1, <1>2, <1>3, <2>1, HandlesUnmoved
<1>5. JoinOK'
  <2>1. CASE Linked \/ ReadLibHeader \/ ReadOldTables \/ FillPastEnd \/ Fill \/ FillDone \/ Parse \/ Terminate
    <3>1. mpc' \notin {"join", "finished"}
      BY <2>1 DEF Linked, ReadLibHeader, ReadOldTables, FillPastEnd, Fill, FillDone, Parse, Terminate, MainGoto
    <3> QED
      BY <3>1 DEF JoinOK
  <2>2. CASE Bump
    <3>1. mpc' = "join" => stop' = 0
      <4>1. CASE stop = N_R_THREADS - 1
        <5>1. N_R_THREADS \in {1, 2, 4} /\ stop' = (stop + 1) % N_R_THREADS
          BY <2>2, OpenReadAssumption DEF Bump
        <5> QED
          BY <4>1, <5>1
      <4>2. CASE stop # N_R_THREADS - 1
        BY <2>2, <4>2 DEF Bump, MainGoto
      <4> QED
        BY <4>1, <4>2
    <3>2. mpc' # "finished"
      BY <2>2 DEF Bump, MainGoto
    <3>3. \A t \in Threads : ~(t < 0)
      BY OpenReadAssumption DEF Threads
    <3> QED
      BY <3>1, <3>2, <3>3 DEF JoinOK
  <2>3. CASE Join
    <3>1. /\ mpc = "join" /\ pc' = pc /\ Gone(stop) /\ \A t \in Threads : t < stop => Gone(t)
      BY <1>1, <2>3 DEF Join, JoinOK, threadVars, Gone
    <3>2. N_R_THREADS \in {1, 2, 4} /\ Threads = 0 .. N_R_THREADS - 1 /\ stop \in Threads
      BY <1>1, OpenReadAssumption DEF TypeOK, Threads
    <3>3. CASE stop = N_R_THREADS - 1
      <4>1. \A t \in Threads : t < stop \/ t = stop
        BY <3>2, <3>3
      <4>2. mpc' = "finished" /\ \A t \in Threads : Gone(t)'
        BY <2>3, <3>1, <3>3, <4>1 DEF Join, MainGoto, Gone
      <4> QED
        BY <4>2 DEF JoinOK
    <3>4. CASE stop # N_R_THREADS - 1
      <4>1. stop' = stop + 1
        BY <2>3, <3>2, <3>4 DEF Join
      <4>2. \A t \in Threads : t < stop + 1 => t < stop \/ t = stop
        BY <3>2
      <4>3. mpc' = "join" /\ \A t \in Threads : t < stop' => Gone(t)'
        BY <2>3, <3>1, <3>4, <4>1, <4>2 DEF Join, MainGoto, Gone
      <4> QED
        BY <4>3 DEF JoinOK
    <3> QED
      BY <3>3, <3>4
  <2> QED
    BY <2>1, <2>2, <2>3
<1> QED
  BY <1>4, <1>5 DEF HInv

(* Main closes the libraries.                                              *)
LEMMA EndHInv ==
  ASSUME BInv, NEW d, NEW m, NEW p, DInv(d, m, p), HInv(p), LibrariesDone
  PROVE  HInv(p)'
<1>1. TypeOK /\ mpc = "next" /\ HandlesOK(p)
      /\ \A u \in Threads : ThreadOK(u) /\ HolderOK(u) /\ GivenUp(u, p) /\ ReadsOK(u) /\ NothingOpen(u)
  BY DEF BInv, HInv, LibrariesDone
<1>2. /\ handles' = handles \ libHandles /\ libHandles' = {} /\ libsDone' = TRUE /\ mpc' = "link"
      /\ UNCHANGED <<pc, lastOpened, nextOpenStruc, linked, openStruc, insBlock>>
  BY DEF LibrariesDone, MainGoto, threadVars
<1>3. \A u \in Threads, i \in Ring : openStruc[u][i].handle \notin libHandles
  BY <1>1, HandleApart
<1>4. \A u \in Threads : HolderOK(u)'
  BY <1>1, <1>2, <1>3 DEF HolderOK
<1>5. \A u \in Threads : GivenUp(u, p)' /\ LibsOK(u, p)' /\ ReadsOK(u)' /\ NothingOpen(u)'
  BY <1>1, <1>2 DEF GivenUp, LibsOK, ReadsOK, Reading, Slot, ThreadFile, NothingOpen, Gone
<1>6. HandlesOK(p)'
  BY <1>1, <1>2 DEF HandlesOK
<1>7. JoinOK'
  BY <1>2 DEF JoinOK
<1> QED
  BY <1>4, <1>5, <1>6, <1>7 DEF HInv

(* Main goes on to the next file, or stays, and has no library to keep.    *)
LEMMA TurnHInv ==
  ASSUME BInv, NEW d, NEW m, NEW p, DInv(d, m, p), SInv(p), HInv(p), mpc' # "exited",
         \/ OpenNext \/ SkipNext
         \/ FileDone /\ Disk[Cur].kind # "LIB",
         NEW t \in Threads, t = T
  PROVE  IF todo' = Tail(todo) THEN HInv([p EXCEPT ![t] = @ + 1])' ELSE HInv(p)'
<1> PICK q : q = IF todo' = Tail(todo) THEN [p EXCEPT ![t] = @ + 1] ELSE p
  OBVIOUS
<1> SUFFICES HInv(q)'
  OBVIOUS
<1>1. /\ TypeOK /\ mpc # "exited" /\ MainOK /\ JoinOK /\ p \in [Threads -> Nat] /\ KindsOK
      /\ \A u \in Threads : HolderOK(u)
  BY MainRuns DEF BInv, Main, HInv, DInv
<1>2. todo # <<>> /\ toLink = <<>>
  BY <1>1 DEF MainOK, OpenNext, SkipNext, FileDone, Using
<1>3. /\ UNCHANGED <<openStruc, handles, libHandles, libsDone, insBlock>>
      /\ \A u \in Threads : Unmoved(u)
      /\ mpc' \notin {"join", "finished"}
  <2>1. CASE OpenNext
    BY <2>1 DEF OpenNext, threadVars, Unmoved, MainGoto
  <2>2. CASE SkipNext
    BY <2>2 DEF SkipNext, threadVars, ringVars, Unmoved
  <2>3. CASE FileDone /\ Disk[Cur].kind # "LIB"
    BY <2>3 DEF FileDone, threadVars, Unmoved, MainGoto
  <2> QED
    BY <2>1, <2>2, <2>3
<1>4. q \in [Threads -> Nat] /\ \A u \in Threads : p[u] <= q[u] /\ (q[u] = p[u] \/ (u = t /\ todo' = Tail(todo) /\ q[u] = p[u] + 1))
  BY <1>1
<1>5. ASSUME todo' = Tail(todo), ~libsDone, p[t] + 1 \in 1 .. lastOpened[t], IsLibrary(linked[t][p[t] + 1])
      PROVE  openStruc[t][SlotOf(p[t] + 1)].handle # linked[t][p[t] + 1]
  <2>1. Cur \in Files /\ linked[t][p[t] + 1] = Cur /\ p[t] + 1 \in Nat
    BY <1>1, <1>2, CurrentFile
  <2>2. Disk[Cur].kind = "LIB" /\ Disk[Cur].wanted
    <3>1. Cur \in Elements(todo)
      <4>1. todo \in Seq(Files)
        BY <1>1 DEF TypeOK
      <4>2. Elements(todo) = {Head(todo)} \cup Elements(Tail(todo))
        BY <1>2, <4>1, ElementsTail
      <4> QED
        BY <4>2 DEF Cur
    <3> QED
      BY <1>1, <1>5, <2>1, <3>1 DEF KindsOK, InputFile, IsLibrary
  <2>3. OpenNext
    BY <2>2 DEF SkipNext
  <2>4. openStruc[t][SlotOf(p[t] + 1)].flags = Disk[Cur].found /\ Follow(nextOpenFile[t]) = SlotOf(p[t] + 1)
        /\ SlotOf(p[t] + 1) \in Ring
    BY <1>5, <2>3, OpenTurn DEF Active
  <2>5. ~openStruc[t][SlotOf(p[t] + 1)].flags
    <3>1. todo # Tail(todo)
      <4>1. Len(Tail(todo)) = Len(todo) - 1 /\ Len(todo) \in Nat
        BY <1>1, <1>2, CurFile
      <4>2. Len(Tail(todo)) # Len(todo)
        BY <4>1
      <4> QED
        BY <4>2
    <3> QED
      BY <1>5, <2>3, <2>4, <3>1 DEF OpenNext
  <2> SUFFICES ASSUME openStruc[t][SlotOf(p[t] + 1)].handle = Cur PROVE FALSE
    BY <2>1
  <2>6. Cur # NoFile
    BY <2>1, OpenReadAssumption
  <2>7. \E k \in 1 .. lastOpened[t] : Cur = linked[t][k] /\ Disk[linked[t][k]].found
    BY <1>1, <2>4, <2>6 DEF HolderOK
  <2> QED
    BY <2>4, <2>5, <2>7
<1>6. ASSUME ~libsDone, NEW u \in Threads, NEW k \in 1 .. lastOpened[u], p[u] < k, k <= q[u], IsLibrary(linked[u][k])
      PROVE  openStruc[u][SlotOf(k)].handle # linked[u][k]
  <2>1. p[u] \in Nat /\ k \in Nat /\ q[u] \in Nat
    BY <1>1, <1>4
  <2>2. q[u] # p[u]
    BY <1>6, <2>1
  <2>3. u = t /\ todo' = Tail(todo) /\ k = p[t] + 1
    BY <1>4, <1>6, <2>1, <2>2
  <2> QED
    BY <1>5, <1>6, <2>3
<1>7. HandlesOK(q)' /\ \A u \in Threads : HolderOK(u)' /\ GivenUp(u, q)' /\ LibsOK(u, q)' /\ ReadsOK(u)' /\ NothingOpen(u)'
  <2>1. \A u \in Threads : Unmoved(u) /\ p[u] <= q[u]
    BY <1>3, <1>4
  <2>2. \A u \in Threads, i \in Ring : insBlock'[u][i] \in {insBlock[u][i], NoBlock}
    BY <1>3
  <2>3. ~libsDone => \A u \in Threads : \A k \in 1 .. lastOpened[u] :
          p[u] < k /\ k <= q[u] /\ IsLibrary(linked[u][k]) => openStruc[u][SlotOf(k)].handle # linked[u][k]
    BY <1>6
  <2>4. q \in [Threads -> Nat]
    BY <1>4
  <2>5. UNCHANGED <<openStruc, handles, libHandles, libsDone>>
    BY <1>3
  <2> QED
    BY <1>1, <2>1, <2>2, <2>3, <2>4, <2>5, HandlesUnmoved
<1>8. JoinOK'
  BY <1>3 DEF JoinOK
<1> QED
  BY <1>7, <1>8 DEF HInv

(* When main is done with a library its thread has told it all of it, and  *)
(* is not at it any more.                                                  *)
LEMMA LibraryLeft ==
  ASSUME BInv, NEW d, NEW m, NEW p, NEW cum, OInv(d, m, p, cum), FileDone, Disk[Cur].kind = "LIB",
         NEW t \in Threads, t = T
  PROVE  /\ ~libsDone /\ ~opreadsDone /\ p[t] + 1 \in 1 .. lastOpened[t] /\ Opened(t, p[t] + 1)
         /\ linked[t][p[t] + 1] = Cur /\ Cur \in Files /\ IsLibrary(Cur) /\ Disk[Cur].found
         /\ nextOpenFile[t] = SlotOf(p[t] + 1)
         /\ Reading(t) => p[t] + 1 < lastOpened[t]
<1>1. /\ TypeOK /\ mpc = "done" /\ MainOK /\ Using /\ todo # <<>> /\ toLink = <<>> /\ ~opreadsDone /\ ThreadOK(t)
      /\ DInv(d, m, p) /\ SInv(p) /\ CInv(p, cum) /\ p \in [Threads -> Nat]
  BY DEF BInv, MainOK, FileDone, Using, OInv, DInv
<1>2. p[t] + 1 \in 1 .. Len(linked[t]) /\ linked[t][p[t] + 1] = Cur /\ Cur \in Files
  BY <1>1, CurrentFile
<1>3. ~libsDone
  <2> SUFFICES ASSUME libsDone PROVE FALSE
    OBVIOUS
  <2>1. 1 \in DOMAIN todo /\ Cur = todo[1]
    <3>1. todo \in Seq(Files) /\ Cur = todo[1] /\ Len(todo) \in Nat \ {0}
      BY <1>1, CurFile DEF TypeOK
    <3> QED
      BY <3>1
  <2>2. TailFile(todo[1])
    BY <1>1, <2>1 DEF DInv, KindsOK
  <2> QED
    BY <2>1, <2>2 DEF TailFile
<1>4. /\ MainAt(t) /\ Active /\ ClaimsOK(t, p) /\ SlotsOK(t) /\ MainFileOK /\ TakenOK
      /\ ContentOK(t, p[t], cum[t]) /\ Sums(linked[t], cum[t])
  BY <1>1, <1>3 DEF MainAt, Active, SInv, CInv
<1>5. /\ p[t] \in Nat /\ lastOpened[t] \in Nat /\ sem[t].open \in Nat /\ sem[t].full \in Nat /\ blk[t] \in Nat
      /\ cum[t][p[t]] \in Nat
  <2>1. p[t] \in Nat
    BY <1>1
  <2> QED
    BY <1>1, <1>4, <2>1, UnitTypes, SumAt
<1>6. Disk[Cur].found /\ IsLibrary(Cur) /\ got = NeedBlocks(Cur)
  BY <1>1, <1>4 DEF MainFileOK, TakenOK, IsLibrary
<1>7. nextOpenFile[t] = SlotOf(p[t] + 1) /\ sem[t].open + (p[t] + 1) = Announced(t)
  BY <1>4 DEF ClaimsOK, Claimed
<1>8. p[t] + 1 \in 1 .. lastOpened[t] /\ Opened(t, p[t] + 1)
  BY <1>5, <1>7 DEF Announced, Opened
<1>9. ASSUME Reading(t), ~(p[t] + 1 < lastOpened[t]) PROVE FALSE
  <2>1. lastOpened[t] = p[t] + 1 /\ lastOpened[t] - 1 = p[t] /\ ThreadFile(t) = Cur
    BY <1>2, <1>5, <1>8, <1>9 DEF ThreadFile
  <2>2. sem[t].full + Unsent(t) + (cum[t][p[t]] + got) = cum[t][p[t]] + blk[t]
    BY <1>4, <1>9, <2>1 DEF ContentOK, TakenPos, ReadPos, Reading, AtFile, InFile
  <2>3. NeedBlocks(Cur) = ReadBlocks(Cur) /\ ReadBlocks(Cur) \in Nat /\ ReadBlocks(Cur) > 0
    <3>1. Pages(Cur) > 0 /\ Pages(Cur) \in Nat
      BY <1>1, <1>2, FileSizes DEF ThreadOK, HasBlocks
    <3> QED
      BY <1>6, <3>1 DEF NeedBlocks, ReadBlocks, IsLibrary
  <2>4. sem[t].full + Unsent(t) + ReadBlocks(Cur) = blk[t] /\ Unsent(t) \in 0 .. 1
    <3>1. Unsent(t) \in 0 .. 1 /\ got \in Nat
      BY <1>1 DEF Unsent, TypeOK
    <3> QED
      BY <1>5, <1>6, <2>2, <2>3, <3>1
  <2>5. CASE pc[t] \in {"opened", "header", "oldlength"}
    BY <1>1, <1>5, <2>3, <2>4, <2>5 DEF ThreadOK
  <2>6. CASE pc[t] \in {"getbuffer", "read"}
    BY <1>1, <1>5, <2>1, <2>3, <2>4, <2>6 DEF ThreadOK
  <2>7. CASE pc[t] = "full"
    BY <1>1, <1>5, <2>1, <2>3, <2>4, <2>7 DEF ThreadOK, Unsent
  <2>8. CASE pc[t] = "close"
    BY <1>1, <1>6, <2>1, <2>8 DEF ThreadOK
  <2> QED
    BY <1>9, <2>5, <2>6, <2>7, <2>8 DEF Reading
<1> QED
  BY <1>1, <1>2, <1>3, <1>6, <1>7, <1>8, <1>9

(* Main takes a library's handle over.                                     *)
LEMMA LibHInv ==
  ASSUME BInv, NEW d, NEW m, NEW p, NEW cum, OInv(d, m, p, cum), HInv(p), FileDone, Disk[Cur].kind = "LIB",
         NEW t \in Threads, t = T
  PROVE  HInv([p EXCEPT ![t] = @ + 1])'
<1> PICK q : q = [p EXCEPT ![t] = @ + 1]
  OBVIOUS
<1> SUFFICES HInv(q)'
  OBVIOUS
<1> DEFINE n == p[t] + 1
           s == SlotOf(n)
<1>1. /\ TypeOK /\ mpc = "done" /\ DInv(d, m, p) /\ SInv(p) /\ p \in [Threads -> Nat] /\ HandlesOK(p)
      /\ \A u \in Threads : /\ ThreadOK(u) /\ HolderOK(u) /\ GivenUp(u, p) /\ LibsOK(u, p)
                            /\ ReadsOK(u) /\ NothingOpen(u) /\ ClaimsOK(u, p) /\ SlotsOK(u)
  BY DEF BInv, FileDone, OInv, DInv, HInv, SInv
<1>2. /\ ~libsDone /\ ~opreadsDone /\ n \in 1 .. lastOpened[t] /\ Opened(t, n)
      /\ linked[t][n] = Cur /\ Cur \in Files /\ IsLibrary(Cur) /\ Disk[Cur].found
      /\ nextOpenFile[t] = s
      /\ Reading(t) => n < lastOpened[t]
  BY LibraryLeft
<1>3. /\ p[t] \in Nat /\ n \in Nat /\ s \in Ring /\ p[t] < n /\ lastOpened[t] \in Nat /\ Cur # NoFile
      /\ q[t] = n /\ \A u \in Threads \ {t} : q[u] = p[u]
  <2>1. p[t] \in Nat /\ lastOpened[t] \in Nat
    BY <1>1, UnitTypes
  <2> QED
    BY <1>1, <1>2, <2>1, SlotRange, OpenReadAssumption
<1>4. openStruc[t][s].handle = Cur
  BY <1>1, <1>2, <1>3 DEF LibsOK
<1>5. /\ openStruc' = [openStruc EXCEPT ![t][s] = Emptied(@)] /\ libHandles' = libHandles \cup {Cur}
      /\ UNCHANGED <<pc, lastOpened, nextOpenStruc, linked, insBlock, handles, libsDone>> /\ mpc' = "next"
  BY <1>2, <1>4 DEF FileDone, MainSlot, MainGoto, threadVars
<1>6. /\ openStruc'[t][s].handle = NoFile
      /\ \A u \in Threads, i \in Ring : u # t \/ i # s => openStruc'[u][i] = openStruc[u][i]
  <2>1. openStruc[t][s] \in [file : Files \union {NoFile}, flags : BOOLEAN, handle : Files \union {NoFile}]
    BY <1>1, <1>3, SlotType
  <2>2. DOMAIN openStruc = Threads /\ \A u \in Threads : DOMAIN openStruc[u] = Ring
    BY <1>1, UnitTypes
  <2> QED
    BY <1>3, <1>5, <2>1, <2>2 DEF Emptied
<1>7. ASSUME NEW u \in Threads PROVE HolderOK(u)' /\ NothingOpen(u)'
  <2>1. \A i \in Ring : openStruc'[u][i].handle \in {openStruc[u][i].handle, NoFile}
    BY <1>6
  <2> QED
    BY <1>1, <1>5, <2>1 DEF HolderOK, NothingOpen, Gone
<1>8. ASSUME NEW u \in Threads \ {t} PROVE GivenUp(u, q)' /\ LibsOK(u, q)' /\ ReadsOK(u)'
  <2>1. openStruc'[u] = openStruc[u]
    <3>1. openStruc' = [openStruc EXCEPT ![t][s] = Emptied(@)] /\ DOMAIN openStruc = Threads
      BY <1>1, <1>5, UnitTypes
    <3> QED
      BY <3>1
  <2> QED
    BY <1>1, <1>3, <1>5, <2>1 DEF GivenUp, LibsOK, Opened, ReadsOK, Reading, Slot, ThreadFile
<1>9. \A k \in 1 .. lastOpened[t] : k > n => SlotOf(k) # s /\ SlotOf(k) \in Ring
  <2> SUFFICES ASSUME NEW k \in 1 .. lastOpened[t], k > n PROVE SlotOf(k) # s /\ SlotOf(k) \in Ring
    OBVIOUS
  <2>1. k \in Nat /\ n < k /\ k <= Captured(t)
    BY <1>3 DEF Captured
  <2>2. SlotOf(n) # SlotOf(k)
    BY <1>1, <1>2, <1>3, <2>1, SlotsDiffer
  <2> QED
    BY <2>1, <2>2, SlotRange
<1>10. GivenUp(t, q)'
  <2> SUFFICES ASSUME NEW k \in 1 .. lastOpened[t], k <= n, IsLibrary(linked[t][k])
               PROVE  openStruc'[t][SlotOf(k)].handle # linked[t][k]
    BY <1>3, <1>5 DEF GivenUp
  <2>1. k \in Nat /\ SlotOf(k) \in Ring /\ linked[t][k] # NoFile
    <3>1. k \in Nat /\ k \in 1 .. Len(linked[t])
      <4>1. lastOpened[t] <= Len(linked[t]) /\ Len(linked[t]) \in Nat
        BY <1>1, InFiles DEF ThreadOK
      <4> QED
        BY <1>3, <4>1
    <3>2. linked[t][k] \in Files
      BY <1>1, <3>1, InFiles
    <3> QED
      BY <3>1, <3>2, SlotRange, OpenReadAssumption
  <2>2. CASE SlotOf(k) = s
    BY <1>6, <2>1, <2>2
  <2>3. CASE SlotOf(k) # s
    <3>1. openStruc'[t][SlotOf(k)] = openStruc[t][SlotOf(k)]
      BY <1>6, <2>1, <2>3
    <3>2. k # n /\ k <= p[t]
      BY <1>3, <2>1, <2>3
    <3> QED
      BY <1>1, <1>2, <3>1, <3>2 DEF GivenUp
  <2> QED
    BY <2>2, <2>3
<1>11. LibsOK(t, q)'
  <2> SUFFICES ASSUME NEW k \in 1 .. lastOpened[t], k > n, Opened(t, k), IsLibrary(linked[t][k]), Disk[linked[t][k]].found
               PROVE  openStruc'[t][SlotOf(k)].handle = linked[t][k]
    BY <1>3, <1>5 DEF LibsOK, Opened
  <2>1. k > p[t]
    BY <1>3
  <2>2. openStruc'[t][SlotOf(k)] = openStruc[t][SlotOf(k)]
    BY <1>6, <1>9
  <2> QED
    BY <1>1, <1>2, <2>1, <2>2 DEF LibsOK
<1>12. ReadsOK(t)'
  <2> SUFFICES ASSUME Reading(t) PROVE openStruc'[t][nextOpenStruc[t]] = openStruc[t][nextOpenStruc[t]]
    BY <1>1, <1>5 DEF ReadsOK, Reading, Slot, ThreadFile
  <2>1. nextOpenStruc[t] = SlotOf(lastOpened[t])
    BY <1>1, <1>2 DEF SlotsOK, Captured, Reading
  <2>2. lastOpened[t] \in 1 .. lastOpened[t] /\ lastOpened[t] > n
    BY <1>2, <1>3
  <2> QED
    BY <1>6, <1>9, <2>1, <2>2
<1>13. HandlesOK(q)'
  <2>1. Cur \in handles
    BY <1>1, <1>3, <1>4 DEF HolderOK
  <2>2. libHandles' \subseteq handles'
    BY <1>1, <1>5, <2>1 DEF HandlesOK
  <2>3. ASSUME NEW f \in libHandles'
        PROVE  \E u \in Threads : \E k \in 1 .. Len(linked'[u]) : f = linked'[u][k] /\ k <= q[u] /\ IsLibrary(f)
    <3>1. CASE f = Cur
      <4>1. n \in 1 .. Len(linked[t])
        <5>1. lastOpened[t] <= Len(linked[t]) /\ Len(linked[t]) \in Nat
          BY <1>1, InFiles DEF ThreadOK
        <5> QED
          BY <1>2, <1>3, <5>1
      <4>2. f = linked[t][n] /\ n <= q[t] /\ IsLibrary(f)
        BY <1>2, <1>3, <3>1
      <4> QED
        BY <1>5, <4>1, <4>2
    <3>2. CASE f \in libHandles
      <4>1. PICK u \in Threads : \E k \in 1 .. Len(linked[u]) : f = linked[u][k] /\ k <= p[u] /\ IsLibrary(f)
        BY <1>1, <1>2, <3>2 DEF HandlesOK
      <4>2. PICK k \in 1 .. Len(linked[u]) : f = linked[u][k] /\ k <= p[u] /\ IsLibrary(f)
        BY <4>1
      <4>3. k <= q[u]
        <5>1. p[u] \in Nat /\ k \in Nat /\ (q[u] = p[u] \/ q[u] = p[u] + 1)
          BY <1>1, <1>3
        <5> QED
          BY <4>2, <5>1
      <4> QED
        BY <1>5, <4>2, <4>3
    <3> QED
      BY <1>5, <3>1, <3>2
  <2>4. ASSUME NEW f \in handles' \ libHandles' PROVE \E u \in Threads, i \in Ring : openStruc'[u][i].handle = f
    <3>1. f \in handles \ libHandles /\ f # Cur
      BY <1>5
    <3>2. PICK u \in Threads, i \in Ring : openStruc[u][i].handle = f
      BY <1>1, <3>1 DEF HandlesOK
    <3>3. openStruc'[u][i] = openStruc[u][i]
      BY <1>4, <1>6, <3>1, <3>2
    <3> QED
      BY <3>2, <3>3
  <2> QED
    BY <2>2, <2>3, <2>4 DEF HandlesOK
<1>14. JoinOK'
  BY <1>5 DEF JoinOK
<1> QED
  BY <1>7, <1>8, <1>10, <1>11, <1>12, <1>13, <1>14 DEF HInv

HandleInv == BInv /\ \E d, m, p, cum : OInv(d, m, p, cum) /\ HInv(p)

LEMMA MainHandles ==
  ASSUME BInv, NEW d, NEW m, NEW p, NEW cum, OInv(d, m, p, cum), HInv(p), Main
  PROVE  \E d1, m1, p1, cum1 : OInv(d1, m1, p1, cum1)' /\ HInv(p1)'
<1>1. mpc # "exited" /\ DInv(d, m, p) /\ SInv(p) /\ p \in [Threads -> Nat]
  BY MainRuns DEF OInv, DInv
<1>2. CASE mpc' = "exited"
  <2>1. HInv(p)'
    BY <1>2 DEF HInv
  <2> QED
    BY <1>2, <2>1, ExitOInv
<1>3. CASE LinkFile \/ LinkDefault
  <2>1. PICK d1, e : OInv(d1, m, p, e)'
    BY <1>3, DealOInv
  <2>2. HInv(p)'
    BY <1>1, <1>3, DealHInv
  <2> QED
    BY <2>1, <2>2
<1>4. CASE mpc' # "exited" /\ (OpenNext \/ SkipNext \/ FileDone)
  <2>1. TypeOK /\ todo # <<>>
    BY <1>1, <1>4 DEF BInv, MainOK, OpenNext, SkipNext, FileDone, Using
  <2>2. PICK t \in Threads : t = T
    BY <2>1, CurFile
  <2>3. PICK q : q = IF todo' = Tail(todo) THEN [p EXCEPT ![t] = @ + 1] ELSE p
    OBVIOUS
  <2>4. PICK m1 : OInv(d, m1, q, cum)'
    <3>1. CASE todo' = Tail(todo)
      BY <1>4, <2>2, <2>3, <3>1, TurnOInv
    <3>2. CASE todo' # Tail(todo)
      BY <1>4, <2>2, <2>3, <3>2, TurnOInv
    <3> QED
      BY <3>1, <3>2
  <2>5. HInv(q)'
    <3>1. CASE FileDone /\ Disk[Cur].kind = "LIB"
      <4>1. todo' = Tail(todo)
        BY <3>1 DEF FileDone
      <4> QED
        BY <2>2, <2>3, <3>1, <4>1, LibHInv
    <3>2. CASE ~(FileDone /\ Disk[Cur].kind = "LIB")
      <4>1. IF todo' = Tail(todo) THEN HInv([p EXCEPT ![t] = @ + 1])' ELSE HInv(p)'
        BY <1>1, <1>4, <2>2, <3>2, TurnHInv
      <4> QED
        BY <2>3, <4>1
    <3> QED
      BY <3>1, <3>2
  <2> QED
    BY <2>4, <2>5
<1>5. CASE mpc' # "exited" /\ ~(LinkFile \/ LinkDefault) /\ ~(OpenNext \/ SkipNext \/ FileDone)
  <2>1. OInv(d, m, p, cum)'
    BY <1>5, RestOInv DEF Main
  <2>2. HInv(p)'
    BY <1>1, <1>5, RestHInv, EndHInv DEF Main
  <2> QED
    BY <2>1, <2>2
<1> QED
  BY <1>2, <1>3, <1>4, <1>5

LEMMA InitHInv == ASSUME Init PROVE HInv([t \in Threads |-> 0])
BY DEF Init, HInv, HandlesOK, JoinOK, HolderOK, GivenUp, LibsOK, ReadsOK, Reading, NothingOpen, FreeOpen

LEMMA HandleInvHolds == Spec => []HandleInv
<1>1. Init => HandleInv
  BY InitBInv, InitOInv, InitHInv DEF HandleInv
<1>2. HandleInv /\ [Next]_vars => HandleInv'
  <2> SUFFICES ASSUME HandleInv, [Next]_vars PROVE HandleInv'
    OBVIOUS
  <2>1. PICK d, m, p, cum : OInv(d, m, p, cum) /\ HInv(p)
    BY DEF HandleInv
  <2>2. BInv
    BY DEF HandleInv
  <2>3. CASE Main
    BY <2>1, <2>2, <2>3, MainBInv, MainHandles DEF HandleInv
  <2>4. ASSUME NEW t \in Threads, OpRead(t) PROVE HandleInv'
    <3>1. OInv(d, m, p, cum)'
      BY <2>1, <2>2, <2>4, ThreadOInv
    <3>2. HInv(p)'
      BY <2>1, <2>2, <2>4, ThreadHInv DEF OInv
    <3> QED
      BY <2>2, <2>4, <3>1, <3>2, ThreadBInv DEF HandleInv
  <2>5. CASE UNCHANGED vars
    <3>1. BInv'
      BY <2>2, <2>5, StutterBInv
    <3>2. OInv(d, m, p, cum)'
      BY <2>1, <2>5 DEF OInv, DInv, OnceOK, DealtOK, BehindOK, TodoOK, KindsOK, Coming, Dealer,
         SInv, MainFileOK, SlotsOK, ClaimsOK, Active, MainAt, Captured, Announced, Claimed, Opened, Using, ThreadFile,
         CInv, TakenOK, ContentOK, ReadPos, TakenPos, Unsent, WInv, WaitsOK, Closing, T, Cur,
         vars, threadVars, ringVars, mainRing, mainVars
    <3>3. HInv(p)'
      BY <2>1, <2>5 DEF HInv, HandlesOK, JoinOK, HolderOK, GivenUp, LibsOK, Opened, ReadsOK, Reading, Slot, ThreadFile,
         NothingOpen, Gone, vars, threadVars, ringVars, mainRing, mainVars
    <3> QED
      BY <3>1, <3>2, <3>3 DEF HandleInv
  <2> QED
    BY <2>3, <2>4, <2>5 DEF Next
<1> QED
  BY <1>1, <1>2, PTL DEF Spec

LEMMA OneHolder ==
  ASSUME HandleInv, mpc # "exited"
  PROVE  HandlesKept
<1>1. PICK d, m, p, cum : OInv(d, m, p, cum) /\ HInv(p)
  BY DEF HandleInv
<1>2. /\ TypeOK /\ MainOK /\ DInv(d, m, p) /\ HandlesOK(p) /\ JoinOK
      /\ \A t \in Threads : ThreadOK(t) /\ HolderOK(t) /\ GivenUp(t, p) /\ ReadsOK(t) /\ NothingOpen(t)
  BY <1>1 DEF HandleInv, BInv, OInv, HInv
<1>3. ASSUME NEW t \in Threads, Reading(t), Slot(t).flags
      PROVE  Slot(t).handle = ThreadFile(t) /\ ThreadFile(t) \in handles
  <2>1. Slot(t).handle = ThreadFile(t)
    BY <1>2, <1>3 DEF ReadsOK
  <2>2. ThreadFile(t) # NoFile
    <3>1. ThreadFile(t) \in Files
      BY <1>2, <1>3, InFiles DEF Reading, AtFile, InFile
    <3> QED
      BY <3>1, OpenReadAssumption
  <2>3. nextOpenStruc[t] \in Ring
    BY <1>2 DEF TypeOK
  <2> QED
    BY <1>2, <2>1, <2>2, <2>3 DEF HolderOK, Slot
<1>4. \A t \in Threads, i \in Ring : openStruc[t][i].handle \notin libHandles
  BY <1>2, HandleApart
<1>5. HandleOwned
  BY <1>2, <1>3, <1>4 DEF HandleOwned, HandlesOK
<1>6. ASSUME mpc = "finished" PROVE handles = {} /\ \A t \in Threads, i \in Ring : insBlock[t][i] = NoBlock
  <2>1. \A t \in Threads, i \in Ring : openStruc[t][i].handle = NoFile /\ insBlock[t][i] = NoBlock
    BY <1>2, <1>6 DEF JoinOK, NothingOpen
  <2>2. libHandles = {}
    BY <1>2, <1>6 DEF MainOK, DInv, KindsOK
  <2>3. \A f \in handles : f = NoFile
    BY <1>2, <2>1, <2>2 DEF HandlesOK
  <2>4. handles \subseteq Files
    BY <1>2 DEF TypeOK
  <2> QED
    BY <2>1, <2>3, <2>4, OpenReadAssumption
<1> QED
  BY <1>5, <1>6 DEF HandlesKept, CleanFinish

LEMMA ExitHandles ==
  ASSUME TypeOK, HandlesKept, [Next]_vars, mpc' = "exited"
  PROVE  HandlesKept'
<1>1. UNCHANGED <<pc, lastOpened, nextOpenStruc, linked, openStruc, handles, libHandles>>
  <2>1. ASSUME NEW u \in Threads, OpRead(u) PROVE ReadFails(u)
    <3> SUFFICES ASSUME ThreadSteps(u) PROVE FALSE
      BY <2>1 DEF OpRead, ThreadSteps
    <3>1. mpc' = mpc
      BY ThreadFrame DEF SameMain
    <3> QED
      BY <2>1, <3>1 DEF OpRead
  <2>2. CASE \E u \in Threads : ReadFails(u)
    BY <2>2 DEF ReadFails, threadVars, ringVars
  <2>3. CASE OpenNext \/ ReadLibHeader \/ FillPastEnd \/ Terminate
    BY <2>3 DEF OpenNext, ReadLibHeader, FillPastEnd, Terminate, threadVars, ringVars
  <2>4. CASE Linked \/ SkipNext \/ Parse \/ Join \/ FillDone \/ ReadOldTables \/ Bump \/ Fill
    BY <2>4 DEF Linked, SkipNext, Parse, Join, FillDone, ReadOldTables, Bump, Fill, threadVars, ringVars
  <2>5. CASE LinkFile \/ LinkDefault \/ FileDone \/ LibrariesDone
    <3>1. mpc' # "exited"
      BY <2>5 DEF LinkFile, LinkDefault, FileDone, LibrariesDone, MainGoto
    <3> QED
      BY <3>1
  <2>6. CASE UNCHANGED vars
    BY <2>6 DEF vars, threadVars, ringVars, mainVars
  <2> QED
    BY <2>1, <2>2, <2>3, <2>4, <2>5, <2>6 DEF Next, Main
<1> QED
  BY <1>1 DEF HandlesKept, HandleOwned, CleanFinish, Reading, Slot, ThreadFile

(* From the first open to the last close every handle has one holder, the  *)
(* structure it was opened for or the library that took it over; a thread  *)
(* reads with the handle of its own file; and when the threads have been   *)
(* joined none is open, and no block is left (_open_file, _close_handle,   *)
(* _define_lib_symbols, CLOSE_LIB_FILES, _readt_abort).                    *)
THEOREM HandlesHeld == Spec => []HandlesKept
<1>1. Init => ~Exited
  BY DEF Init, Exited
<1>2. HandleInv /\ ~Exited => HandlesKept
  BY OneHolder DEF Exited
<1>3. HandleInv /\ HandlesKept /\ [Next]_vars => (Exited' => HandlesKept')
  BY ExitHandles DEF HandleInv, BInv, Exited
<1> QED
  BY <1>1, <1>2, <1>3, HandleInvHolds, PTL DEF Spec
=============================================================================
