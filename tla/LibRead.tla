------------------------------- MODULE LibRead --------------------------------
(***************************************************************************)
(* Demand-driven library input.  Main puts the symbols it references on a  *)
(* library's list and asks for the 16K blocks of the modules that define   *)
(* them (newlibc.c); the LIBREAD threads (ntio/libreadtc.c) read the       *)
(* blocks while main parses others, takes one library after the other, and *)
(* frees a block when every module in it has been parsed.                  *)
(*                                                                         *)
(* A library with selected modules is in main's request list and in the    *)
(* list of one thread, both guarded by LIB_REQUEST_ORDER_SEM.  The count   *)
(* of outstanding blocks, the array of requested block numbers and the     *)
(* block table of a library are shared without a lock.                     *)
(*                                                                         *)
(* LIB_REQUEST_ORDER_SEM is modelled down to its counter (GlobalSem); the  *)
(* other semaphores, private to a thread and main, are counters of units   *)
(* (StreamSem).                                                            *)
(***************************************************************************)
EXTENDS Integers, Sequences, FiniteSets

CONSTANTS
  N_R_THREADS,   \* LIBREAD threads
  SMP,           \* more than one processor: INC and DEC are a read and a write
  Libs, Modules, Symbols,
  LibOf,         \* library of each module
  BlocksOf,      \* blocks of each module, ascending
  ModuleOf,      \* module that the dictionary names for each symbol
  Needs,         \* symbols each module references
  Defines,       \* symbols each module defines
  RootSets,      \* symbols the object files may reference together
  None           \* no library, no module

Threads == 0 .. 3                    \* LIB_THREAD_LOCALS
Main    == -1
Procs   == Threads \union {Main}

NoThread == -2
NoBlock  == 0                        \* blocks are numbered from 1 here
Garbage  == -1                       \* memory of the request array not yet written

Elements(s) == {s[i] : i \in DOMAIN s}
LibOfSymbol(s) == LibOf[ModuleOf[s]]
ModulesIn(l, b) == {m \in Modules : LibOf[m] = l /\ b \in Elements(BlocksOf[m])}
LibBlocks(l) == UNION {Elements(BlocksOf[m]) : m \in {n \in Modules : LibOf[n] = l}}
AllBlocks == UNION {LibBlocks(l) : l \in Libs}

ASSUME LibReadAssumption ==
  /\ N_R_THREADS \in {1, 2, 4}
  /\ SMP \in BOOLEAN
  /\ IsFiniteSet(Libs) /\ IsFiniteSet(Modules) /\ IsFiniteSet(Symbols)
  /\ LibOf \in [Modules -> Libs]
  /\ BlocksOf \in [Modules -> Seq(Nat \ {0})]
  /\ \A m \in Modules :
       /\ BlocksOf[m] # <<>>
       /\ \A i, j \in DOMAIN BlocksOf[m] : i < j => BlocksOf[m][i] < BlocksOf[m][j]
  /\ ModuleOf \in [Symbols -> Modules]
  /\ Needs \in [Modules -> SUBSET Symbols]
  /\ Defines \in [Modules -> SUBSET Symbols]
  /\ \A s \in Symbols : s \in Defines[ModuleOf[s]]
  /\ RootSets \subseteq SUBSET Symbols
  /\ None \notin Libs \union Modules

VARIABLES
  \* LIBRARY_STRUCT
  wanted,      \* _LS_FIRST_EXTRN .. _LS_LAST_EXTRN, referenced symbols in order
  selected,    \* _LS_SELECTED_MODULES
  requested,   \* _LS_OS2_BLOCKS_REQUESTED
  reqArray,    \* block numbers stored below _LS_NEXT_REQUEST_BLOCK
  nextTr,      \* numbers consumed through _LS_NEXT_TRLIB_BLOCK
  flagged,     \* blocks whose requested bit is set
  table,       \* _LS_BLOCK_TABLE: what has been read, by block number
  modsLeft,    \* modules of each block still to come
  lsThread,    \* _LS_THREAD_LOCALS
  handleOpen,  \* _LS_HANDLE # 0
  filePos,     \* _LS_FILE_POSITION, the block the handle stands at
  \* MYL2_STRUCT
  trList,      \* MYL2_FIRST_REQUEST_LIB .. through _LS_NEXT_TRLIB
  libSem,      \* units of MYL2_LIB_BLOCK_SEM
  readSem,     \* units of MYL2_BLOCK_READ_SEM
  tpc, tlib, tblk, tbuf, treg,   \* the thread's place, library, block, buffer, register
  \* LIB_REQUEST_ORDER_SEM
  orderCounter, orderKernel, orderPc,
  \* main
  mpc, ctx,    \* where main is, and where it returns to after a request
  roots, pend, \* symbols to reference: object files, module being parsed
  defined,     \* symbols that are defined
  marked,      \* modules with the selected bit
  reqLibs,     \* FIRST_REQUEST_LIB .. LAST_REQUEST_LIB
  nextThread,  \* NEXT_READLIB_THREAD
  cur, mod,    \* CURNLIB_GINDEX, CURN_LIB_MODULE
  toRead,      \* blocks of mod still to be parsed
  rlib, toRequest, mreg,         \* the library and the blocks being requested, the register
  libsDone,    \* LIBS_DONE
  stop         \* the thread TERM_LIB_THREADS has got to

libVars    == <<wanted, selected, requested, reqArray, nextTr, flagged, table, modsLeft,
               lsThread, handleOpen, filePos>>
threadVars == <<tpc, tlib, tblk, tbuf, treg>>
semVars    == <<libSem, readSem>>
orderVars  == <<orderCounter, orderKernel, orderPc>>
mainVars   == <<mpc, ctx, roots, pend, defined, marked, reqLibs, nextThread, cur, mod, toRead,
               rlib, toRequest, mreg, libsDone, stop>>
vars       == <<libVars, trList, threadVars, semVars, orderVars, mainVars>>

Order == INSTANCE GlobalSem WITH
           Threads <- Procs, counter <- orderCounter, kernel <- orderKernel, pc <- orderPc

Init ==
  /\ wanted = [l \in Libs |-> <<>>]
  /\ selected = [l \in Libs |-> 0]
  /\ requested = [l \in Libs |-> 0]
  /\ reqArray = [l \in Libs |-> <<>>]
  /\ nextTr = [l \in Libs |-> 0]
  /\ flagged = [l \in Libs |-> {}]
  /\ table = [l \in Libs |-> [b \in AllBlocks |-> NoBlock]]
  /\ modsLeft = [l \in Libs |-> [b \in AllBlocks |-> Cardinality(ModulesIn(l, b))]]
  /\ lsThread = [l \in Libs |-> NoThread]
  /\ handleOpen = [l \in Libs |-> TRUE]
  /\ filePos = [l \in Libs |-> 0]
  /\ trList = [t \in Threads |-> <<>>]
  /\ libSem = [t \in Threads |-> 0]
  /\ readSem = [t \in Threads |-> 0]
  /\ tpc = [t \in Threads |-> "unborn"]
  /\ tlib = [t \in Threads |-> None]
  /\ tblk = [t \in Threads |-> NoBlock]
  /\ tbuf = [t \in Threads |-> NoBlock]
  /\ treg = [t \in Threads |-> 0]
  /\ Order!InitSem
  /\ mpc = "top" /\ ctx = "top"
  /\ roots \in RootSets /\ pend = {}
  /\ defined = {}
  /\ marked = {}
  /\ reqLibs = <<>>
  /\ nextThread = N_R_THREADS - 1
  /\ cur = None /\ mod = None /\ toRead = <<>>
  /\ rlib = None /\ toRequest = <<>> /\ mreg = 0
  /\ libsDone = FALSE
  /\ stop = 0

------------------------------------------------------------------------------
(* The LIBREAD thread t, libread2.                                         *)

At(t, l) == tpc[t] = l /\ mpc # "aborted"    \* ExitProcess ends every thread
Goto(t, l) == tpc' = [tpc EXCEPT ![t] = l]

(* Wait till a block is requested. *)
TakeUnit(t) ==
  /\ At(t, "wait")
  /\ libSem[t] > 0
  /\ libSem' = [libSem EXCEPT ![t] = @ - 1]
  /\ Goto(t, IF libsDone THEN "dead" ELSE "scan")
  /\ UNCHANGED <<libVars, trList, tlib, tblk, tbuf, treg, readSem, orderVars, mainVars>>

(* CAPTURE LIB_REQUEST_ORDER_SEM by p, in _read_a_block or by main. *)
Capture(p) ==
  /\ Order!CaptureFast(p) \/ Order!CaptureSlow(p) \/ Order!CaptureWait(p)
  /\ UNCHANGED <<libVars, trList, threadVars, semVars, mainVars>>

(* The release, and the ReleaseSemaphore that may have to follow. *)
Release(p) == Order!ReleaseFast(p) \/ Order!ReleaseSlow(p)

ReleasePost(p) ==
  /\ mpc # "aborted"
  /\ Order!ReleasePost(p)
  /\ UNCHANGED <<libVars, trList, threadVars, semVars, mainVars>>

(* The first library of t's list with a block to read. *)
RequestingLib(t) ==
  LET busy == {i \in DOMAIN trList[t] : requested[trList[t][i]] # 0}
  IN  IF busy = {} THEN None
      ELSE trList[t][CHOOSE i \in busy : \A j \in busy : i <= j]

(* _read_a_block, inside the semaphore. *)
Scan(t) ==
  /\ At(t, "scan") /\ orderPc[t] = "owner"
  /\ tlib' = [tlib EXCEPT ![t] = RequestingLib(t)]
  /\ Release(t)
  /\ Goto(t, "scanned")
  /\ UNCHANGED <<libVars, trList, tblk, tbuf, treg, semVars, mainVars>>

Scanned(t) ==
  /\ At(t, "scanned") /\ orderPc[t] = "idle"
  /\ Goto(t, IF libsDone THEN "dead" ELSE IF tlib[t] = None THEN "wait" ELSE "pick")
  /\ UNCHANGED <<libVars, trList, tlib, tblk, tbuf, treg, semVars, orderVars, mainVars>>

(* _lerr_abort: the handle was closed, or the block is not in the file. *)
Fail(t) ==
  /\ IF libsDone THEN Goto(t, "dead") /\ UNCHANGED mpc
                 ELSE mpc' = "aborted" /\ UNCHANGED tpc
  /\ UNCHANGED <<libVars, trList, tlib, tblk, tbuf, treg, semVars, orderVars, ctx, roots, pend,
                 defined, marked, reqLibs, nextThread, cur, mod, toRead, rlib, toRequest, mreg,
                 libsDone, stop>>

(* Fault: the pointer into the request array is not advanced. *)
Advance0(l) == UNCHANGED nextTr
(* _LS_NEXT_TRLIB_BLOCK++ *)
Advance(l) == nextTr' = [nextTr EXCEPT ![l] = @ + 1]

(* The next number of the request array; what lies behind the numbers      *)
(* stored so far is whatever the pool's memory holds.                      *)
Pick(t) ==
  /\ At(t, "pick")
  /\ LET l == tlib[t]
         i == nextTr[l] + 1
     IN  IF ~handleOpen[l] THEN Fail(t)
         ELSE /\ IF i \in DOMAIN reqArray[l]
                   THEN tblk' = [tblk EXCEPT ![t] = reqArray[l][i]]
                   ELSE \E b \in LibBlocks(l) \union {Garbage} : tblk' = [tblk EXCEPT ![t] = b]
              /\ Advance(l)
              /\ Goto(t, "seek")
              /\ UNCHANGED <<wanted, selected, requested, reqArray, flagged, table, modsLeft,
                             lsThread, handleOpen, filePos, trList, tlib, tbuf, treg, semVars,
                             orderVars, mainVars>>

(* SetFilePointer, unless _LS_FILE_POSITION already says so. *)
Seek(t) ==
  /\ At(t, "seek")
  /\ IF ~handleOpen[tlib[t]] /\ filePos[tlib[t]] # tblk[t] THEN Fail(t)
     ELSE /\ filePos' = [filePos EXCEPT ![tlib[t]] = tblk[t]]
          /\ Goto(t, "read")
          /\ UNCHANGED <<wanted, selected, requested, reqArray, nextTr, flagged, table, modsLeft,
                         lsThread, handleOpen, trList, tlib, tblk, tbuf, treg, semVars,
                         orderVars, mainVars>>

(* ReadFile takes what stands at the file pointer, and moves it. *)
Read(t) ==
  /\ At(t, "read")
  /\ IF libsDone \/ ~handleOpen[tlib[t]] \/ filePos[tlib[t]] \notin LibBlocks(tlib[t])
       THEN Fail(t)
       ELSE /\ tbuf' = [tbuf EXCEPT ![t] = filePos[tlib[t]]]
            /\ filePos' = [filePos EXCEPT ![tlib[t]] = @ + 1]
            /\ Goto(t, "count")
            /\ UNCHANGED <<wanted, selected, requested, reqArray, nextTr, flagged, table, modsLeft,
                           lsThread, handleOpen, trList, tlib, tblk, treg, semVars, orderVars,
                           mainVars>>

(* --_LS_OS2_BLOCKS_REQUESTED: one instruction, but not a locked one. *)
Uncount(t) ==
  /\ At(t, "count")
  /\ IF SMP THEN treg' = [treg EXCEPT ![t] = requested[tlib[t]]] /\ UNCHANGED requested
            ELSE requested' = [requested EXCEPT ![tlib[t]] = @ - 1] /\ UNCHANGED treg
  /\ Goto(t, IF SMP THEN "countwrite" ELSE "store")
  /\ UNCHANGED <<wanted, selected, reqArray, nextTr, flagged, table, modsLeft, lsThread,
                 handleOpen, filePos, trList, tlib, tblk, tbuf, semVars, orderVars, mainVars>>

UncountWrite(t) ==
  /\ At(t, "countwrite")
  /\ requested' = [requested EXCEPT ![tlib[t]] = treg[t] - 1]
  /\ Goto(t, "store")
  /\ UNCHANGED <<wanted, selected, reqArray, nextTr, flagged, table, modsLeft, lsThread,
                 handleOpen, filePos, trList, tlib, tblk, tbuf, treg, semVars, orderVars, mainVars>>

(* Store block address. *)
Store(t) ==
  /\ At(t, "store")
  /\ table' = [table EXCEPT ![tlib[t]][tblk[t]] = tbuf[t]]
  /\ Goto(t, "signal")
  /\ UNCHANGED <<wanted, selected, requested, reqArray, nextTr, flagged, modsLeft, lsThread,
                 handleOpen, filePos, trList, tlib, tblk, tbuf, treg, semVars, orderVars, mainVars>>

(* Signal another completion. *)
Signal(t) ==
  /\ At(t, "signal")
  /\ readSem' = [readSem EXCEPT ![t] = @ + 1]
  /\ Goto(t, "wait")
  /\ UNCHANGED <<libVars, trList, tlib, tblk, tbuf, treg, libSem, orderVars, mainVars>>

LibReadT(t) ==
  \/ TakeUnit(t) \/ (At(t, "scan") /\ Capture(t)) \/ Scan(t) \/ ReleasePost(t) \/ Scanned(t)
  \/ Pick(t) \/ Seek(t) \/ Read(t) \/ Uncount(t) \/ UncountWrite(t) \/ Store(t) \/ Signal(t)

------------------------------------------------------------------------------
(* Main.                                                                   *)

MainGoto(l) == mpc' = l

AppendNew(seq, e) == IF e \in Elements(seq) THEN seq ELSE Append(seq, e)

(* "If this is first requested module, add this library to tail of request list" *)
FirstModule(l) == selected[l] = 0

(* EXTDEF and _reference_libsym: symbol s is needed.  It goes to the end of *)
(* its library's list; the first symbol of a module selects the module, and *)
(* the first module of a library puts it at the end of the request list.    *)
Reference(s) ==
  /\ orderPc[Main] = "idle"
  /\ \/ mpc = "top" /\ s \in roots
     \/ mpc = "parse" /\ s \in pend
  /\ roots' = roots \ {s} /\ pend' = pend \ {s}
  /\ LET m == ModuleOf[s]
         l == LibOf[m]
     IN  IF s \in defined
           THEN UNCHANGED <<wanted, marked, selected, rlib, toRequest, ctx, mpc>>
           ELSE /\ wanted' = [wanted EXCEPT ![l] = AppendNew(@, s)]
                /\ IF m \in marked         \* module already requested
                     THEN UNCHANGED <<marked, selected, rlib, toRequest, ctx, mpc>>
                     ELSE /\ marked' = marked \union {m}
                          /\ selected' = [selected EXCEPT ![l] = @ + 1]
                          /\ rlib' = l
                          /\ toRequest' = BlocksOf[m]
                          /\ ctx' = mpc
                          /\ MainGoto(IF FirstModule(l) THEN "add" ELSE "request")
  /\ UNCHANGED <<requested, reqArray, nextTr, flagged, table, modsLeft, lsThread, handleOpen,
                 filePos, trList, threadVars, semVars, orderVars, defined, reqLibs, nextThread,
                 cur, mod, toRead, mreg, libsDone, stop>>

(* _get_next_readlib_thread *)
NextReadlibThread(t) == (t + 1) % N_R_THREADS

(* Units the thread needs for what is outstanding already. *)
OutstandingUnits(l) == requested[l]

(* _add_to_request_list, inside the semaphore; the thread is started if it *)
(* does not exist.                                                         *)
AddToRequestList ==
  /\ mpc = "add" /\ orderPc[Main] = "owner"
  /\ LET t == NextReadlibThread(nextThread)
     IN  /\ nextThread' = t
         /\ tpc' = IF tpc[t] = "unborn" THEN [tpc EXCEPT ![t] = "wait"] ELSE tpc
         /\ trList' = [trList EXCEPT ![t] = Append(@, rlib)]
         /\ lsThread' = [lsThread EXCEPT ![rlib] = t]
         /\ libSem' = [libSem EXCEPT ![t] = @ + OutstandingUnits(rlib)]
  /\ reqLibs' = Append(reqLibs, rlib)
  /\ Release(Main)
  /\ MainGoto("request")
  /\ UNCHANGED <<wanted, selected, requested, reqArray, nextTr, flagged, table, modsLeft,
                 handleOpen, filePos, tlib, tblk, tbuf, treg, readSem, ctx, roots, pend, defined,
                 marked, cur, mod, toRead, rlib, toRequest, mreg, libsDone, stop>>

RequestRest == /\ toRequest' = Tail(toRequest)
               /\ MainGoto(IF Tail(toRequest) = <<>> THEN ctx ELSE "request")

(* Fault: the requested bit is not looked at. *)
NeverFlagged(l, b) == FALSE
Flagged(l, b) == b \in flagged[l]

(* _request_block: a block whose bit is set has been requested before.     *)
RequestBlock ==
  /\ mpc = "request" /\ orderPc[Main] = "idle"
  /\ LET b == Head(toRequest)
     IN  IF Flagged(rlib, b)
           THEN /\ RequestRest
                /\ UNCHANGED <<flagged, requested, mreg>>
           ELSE /\ flagged' = [flagged EXCEPT ![rlib] = @ \union {b}]
                /\ IF SMP THEN mreg' = requested[rlib] /\ UNCHANGED requested
                          ELSE requested' = [requested EXCEPT ![rlib] = @ + 1] /\ UNCHANGED mreg
                /\ MainGoto(IF SMP THEN "countwrite" ELSE "number")
                /\ UNCHANGED toRequest
  /\ UNCHANGED <<wanted, selected, reqArray, nextTr, table, modsLeft, lsThread, handleOpen,
                 filePos, trList, threadVars, semVars, orderVars, ctx, roots, pend, defined,
                 marked, reqLibs, nextThread, cur, mod, toRead, rlib, libsDone, stop>>

CountWrite ==
  /\ mpc = "countwrite"
  /\ requested' = [requested EXCEPT ![rlib] = mreg + 1]
  /\ MainGoto("number")
  /\ UNCHANGED <<wanted, selected, reqArray, nextTr, flagged, table, modsLeft, lsThread,
                 handleOpen, filePos, trList, threadVars, semVars, orderVars, ctx, roots, pend,
                 defined, marked, reqLibs, nextThread, cur, mod, toRead, rlib, toRequest, mreg,
                 libsDone, stop>>

(* The number is stored after the count was raised. *)
StoreNumber ==
  /\ mpc = "number"
  /\ reqArray' = [reqArray EXCEPT ![rlib] = Append(@, Head(toRequest))]
  /\ MainGoto("bumplib")
  /\ UNCHANGED <<wanted, selected, requested, nextTr, flagged, table, modsLeft, lsThread,
                 handleOpen, filePos, trList, threadVars, semVars, orderVars, ctx, roots, pend,
                 defined, marked, reqLibs, nextThread, cur, mod, toRead, rlib, toRequest, mreg,
                 libsDone, stop>>

(* _LS_THREAD_LOCALS *)
ReaderOf(l) == lsThread[l]

BumpLib ==
  /\ mpc = "bumplib"
  /\ libSem' = [libSem EXCEPT ![ReaderOf(rlib)] = @ + 1]
  /\ RequestRest
  /\ UNCHANGED <<libVars, trList, threadVars, readSem, orderVars, ctx, roots, pend, defined,
                 marked, reqLibs, nextThread, cur, mod, toRead, rlib, mreg, libsDone, stop>>

(* _process_libraries takes the first library while more than one waits,   *)
(* and when every library file has been looked at, until none waits.       *)
SelectLibrary ==
  /\ mpc = "top" /\ orderPc[Main] = "idle"
  /\ IF roots = {} THEN reqLibs # <<>> ELSE Len(reqLibs) > 1
  /\ cur' = Head(reqLibs)
  /\ MainGoto("find")
  /\ UNCHANGED <<libVars, trList, threadVars, semVars, orderVars, ctx, roots, pend, defined,
                 marked, reqLibs, nextThread, mod, toRead, rlib, toRequest, mreg, libsDone, stop>>

(* _find_earliest_selected_module: the module of the first listed symbol. *)
FindModule ==
  /\ mpc = "find"
  /\ IF wanted[cur] = <<>>
       THEN MainGoto("deselect") /\ UNCHANGED <<mod, toRead>>
       ELSE /\ mod' = ModuleOf[Head(wanted[cur])]
            /\ toRead' = BlocksOf[mod']
            /\ MainGoto("verify")
  /\ UNCHANGED <<libVars, trList, threadVars, semVars, orderVars, ctx, roots, pend, defined,
                 marked, reqLibs, nextThread, cur, rlib, toRequest, mreg, libsDone, stop>>

(* The entries of seq that are not in D. *)
Without(seq, D) ==
  LET rest[n \in 0 .. Len(seq)] ==
        IF n = 0 THEN <<>> ELSE IF seq[n] \in D THEN rest[n - 1] ELSE Append(rest[n - 1], seq[n])
  IN  rest[Len(seq)]

(* _verify_block_loaded, and _obj_mod as it starts: symbols the module     *)
(* defines leave the lists of whatever library they are wanted from.       *)
VerifyBlock ==
  /\ mpc = "verify"
  /\ IF table[cur][Head(toRead)] = NoBlock
       THEN MainGoto("waitread") /\ UNCHANGED <<defined, wanted, pend>>
       ELSE /\ MainGoto("parse")
            /\ IF toRead = BlocksOf[mod]
                 THEN /\ defined' = defined \union Defines[mod]
                      /\ wanted' = [l \in Libs |-> Without(wanted[l], defined')]
                      /\ pend' = Needs[mod]
                 ELSE UNCHANGED <<defined, wanted, pend>>
  /\ UNCHANGED <<selected, requested, reqArray, nextTr, flagged, table, modsLeft, lsThread,
                 handleOpen, filePos, trList, threadVars, semVars, orderVars, ctx, roots, marked,
                 reqLibs, nextThread, cur, mod, toRead, rlib, toRequest, mreg, libsDone, stop>>

(* Fault: the block that was read is taken to be the right one. *)
AnyBlock == "parse"
(* "Has it been read?  Loop till this block read." *)
AfterWait == "verify"

(* _read_library_block: wait till the thread of this library reads one. *)
WaitRead ==
  /\ mpc = "waitread"
  /\ readSem[lsThread[cur]] > 0
  /\ readSem' = [readSem EXCEPT ![lsThread[cur]] = @ - 1]
  /\ MainGoto(AfterWait)
  /\ UNCHANGED <<libVars, trList, threadVars, libSem, orderVars, ctx, roots, pend, defined,
                 marked, reqLibs, nextThread, cur, mod, toRead, rlib, toRequest, mreg, libsDone,
                 stop>>

(* Fault: freed with the first module, the others have to read it again. *)
FreeAtOnce(left) == TRUE
LastModule(left) == left = 1

(* _dec_lib_block: main is done with the first block of toRead.  The last  *)
(* module of a block frees it, the last block of a library closes it.      *)
DecLibBlock ==
  /\ mpc = "parse" /\ orderPc[Main] = "idle"
  /\ Len(toRead) = 1 => pend = {}
  /\ LET b == Head(toRead)
     IN  /\ modsLeft' = [modsLeft EXCEPT ![cur][b] = @ - 1]
         /\ IF LastModule(modsLeft[cur][b])
              THEN /\ table' = [table EXCEPT ![cur][b] = NoBlock]
                   /\ flagged' = [flagged EXCEPT ![cur] = @ \ {b}]
                   /\ handleOpen' = [handleOpen EXCEPT ![cur] =
                        @ /\ \E c \in LibBlocks(cur) : modsLeft'[cur][c] > 0]
              ELSE UNCHANGED <<table, flagged, handleOpen>>
  /\ toRead' = Tail(toRead)
  /\ MainGoto(IF Len(toRead) = 1 THEN "deselect" ELSE "verify")
  /\ UNCHANGED <<wanted, selected, requested, reqArray, nextTr, lsThread, filePos, trList,
                 threadVars, semVars, orderVars, ctx, roots, pend, defined, marked, reqLibs,
                 nextThread, cur, mod, rlib, toRequest, mreg, libsDone, stop>>

(* --_LS_SELECTED_MODULES gives zero. *)
LastSelected(n) == n = 1

(* One selected module less; the last one ends the library's turn. *)
Deselect ==
  /\ mpc = "deselect"
  /\ selected' = [selected EXCEPT ![cur] = @ - 1]
  /\ MainGoto(IF LastSelected(selected[cur]) THEN "remove" ELSE "find")
  /\ UNCHANGED <<wanted, requested, reqArray, nextTr, flagged, table, modsLeft, lsThread,
                 handleOpen, filePos, trList, threadVars, semVars, orderVars, ctx, roots, pend,
                 defined, marked, reqLibs, nextThread, cur, mod, toRead, rlib, toRequest, mreg,
                 libsDone, stop>>

(* Fault: the library stays linked. *)
StaysLinked(list, l) == list
(* What follows l in a list. *)
Behind(list, l) ==
  LET i == CHOOSE k \in DOMAIN list : list[k] = l IN SubSeq(list, i + 1, Len(list))

(* _remove_from_request_list, inside the semaphore: both lists go on with  *)
(* what is linked behind the library.                                      *)
RemoveFromRequestList ==
  /\ mpc = "remove" /\ orderPc[Main] = "owner"
  /\ reqLibs' = Behind(reqLibs, cur)
  /\ trList' = [trList EXCEPT ![lsThread[cur]] = Behind(@, cur)]
  /\ lsThread' = [lsThread EXCEPT ![cur] = NoThread]
  /\ cur' = None
  /\ Release(Main)
  /\ MainGoto("top")
  /\ UNCHANGED <<wanted, selected, requested, reqArray, nextTr, flagged, table, modsLeft,
                 handleOpen, filePos, threadVars, semVars, ctx, roots, pend, defined, marked,
                 nextThread, mod, toRead, rlib, toRequest, mreg, libsDone, stop>>

(* PASS1_STUFF behind the libraries, TERM_LIB_THREADS: raise the flag, ... *)
LibrariesDone ==
  /\ mpc = "top" /\ orderPc[Main] = "idle"
  /\ roots = {} /\ reqLibs = <<>>
  /\ libsDone' = TRUE
  /\ MainGoto("bump")
  /\ UNCHANGED <<libVars, trList, threadVars, semVars, orderVars, ctx, roots, pend, defined,
                 marked, reqLibs, nextThread, cur, mod, toRead, rlib, toRequest, mreg, stop>>

(* Fault: no unit for the thread that waits for a request. *)
OrderOnly == UNCHANGED libSem
(* LET HIM GO *)
GiveUnit == libSem' = [libSem EXCEPT ![stop] = @ + 1]

(* ... give every thread that exists a unit, and the order semaphore, which *)
(* main does not own, a unit for each of them, ...                          *)
Bump ==
  /\ mpc = "bump" /\ orderPc[Main] = "idle"
  /\ IF tpc[stop] = "unborn" THEN UNCHANGED <<libSem, orderVars>>
                             ELSE GiveUnit /\ Release(Main)
  /\ stop' = (stop + 1) % N_R_THREADS
  /\ MainGoto(IF stop = N_R_THREADS - 1 THEN "close" ELSE "bump")
  /\ UNCHANGED <<libVars, trList, threadVars, readSem, ctx, roots, pend, defined, marked,
                 reqLibs, nextThread, cur, mod, toRead, rlib, toRequest, mreg, libsDone>>

(* ... CLOSE_LIB_FILES while they may still read, ... *)
CloseLibFiles ==
  /\ mpc = "close" /\ orderPc[Main] = "idle"
  /\ handleOpen' = [l \in Libs |-> FALSE]
  /\ table' = [l \in Libs |-> [b \in AllBlocks |-> NoBlock]]
  /\ MainGoto("join")
  /\ UNCHANGED <<wanted, selected, requested, reqArray, nextTr, flagged, modsLeft, lsThread,
                 filePos, trList, threadVars, semVars, orderVars, ctx, roots, pend, defined,
                 marked, reqLibs, nextThread, cur, mod, toRead, rlib, toRequest, mreg, libsDone,
                 stop>>

(* ... and wait for one after the other. *)
Join ==
  /\ mpc = "join"
  /\ tpc[stop] \in {"unborn", "dead"}
  /\ stop' = (stop + 1) % N_R_THREADS
  /\ MainGoto(IF stop = N_R_THREADS - 1 THEN "finished" ELSE "join")
  /\ UNCHANGED <<libVars, trList, threadVars, semVars, orderVars, ctx, roots, pend, defined,
                 marked, reqLibs, nextThread, cur, mod, toRead, rlib, toRequest, mreg, libsDone>>

MainStep ==
  \/ \E s \in Symbols : Reference(s)
  \/ (mpc \in {"add", "remove"} /\ Capture(Main)) \/ ReleasePost(Main)
  \/ AddToRequestList \/ RequestBlock \/ CountWrite \/ StoreNumber \/ BumpLib
  \/ SelectLibrary \/ FindModule \/ VerifyBlock \/ WaitRead \/ DecLibBlock
  \/ Deselect \/ RemoveFromRequestList
  \/ LibrariesDone \/ Bump \/ CloseLibFiles \/ Join

Next == MainStep \/ \E t \in Threads : LibReadT(t)

(* Windows runs what can run and does not pass over a waiter for ever. *)
Fairness ==
  /\ WF_vars(MainStep)
  /\ \A t \in Threads : WF_vars(LibReadT(t))
  /\ \A p \in Procs : SF_vars(mpc # "aborted" /\ Order!CaptureWait(p) /\ Capture(p))

Spec == Init /\ [][Next]_vars /\ Fairness

------------------------------------------------------------------------------
(* t reads for tlib[t], from the choice of a number to the stored address. *)
Working(t) == tpc[t] \in {"pick", "seek", "read", "count", "countwrite", "store"}
Chosen(t)  == tpc[t] \in {"seek", "read", "count", "countwrite", "store"}

TypeOK ==
  /\ wanted \in [Libs -> Seq(Symbols)]
  /\ selected \in [Libs -> Nat] /\ requested \in [Libs -> Int]
  /\ reqArray \in [Libs -> Seq(AllBlocks)] /\ nextTr \in [Libs -> Nat]
  /\ flagged \in [Libs -> SUBSET AllBlocks]
  /\ table \in [Libs -> [AllBlocks -> AllBlocks \union {NoBlock}]]
  /\ modsLeft \in [Libs -> [AllBlocks -> Nat]]
  /\ lsThread \in [Libs -> Threads \union {NoThread}]
  /\ handleOpen \in [Libs -> BOOLEAN] /\ filePos \in [Libs -> Int]
  /\ trList \in [Threads -> Seq(Libs)]
  /\ libSem \in [Threads -> Nat] /\ readSem \in [Threads -> Nat]
  /\ tpc \in [Threads -> {"unborn", "wait", "scan", "scanned", "pick", "seek", "read", "count",
                          "countwrite", "store", "signal", "dead"}]
  /\ tlib \in [Threads -> Libs \union {None}] /\ tblk \in [Threads -> Int]
  /\ tbuf \in [Threads -> Nat] /\ treg \in [Threads -> Int]
  /\ Order!SemTypeOK
  /\ mpc \in {"top", "add", "request", "countwrite", "number", "bumplib", "find", "verify",
              "waitread", "parse", "deselect", "remove", "bump", "close", "join", "finished",
              "aborted"}
  /\ ctx \in {"top", "parse"}
  /\ roots \subseteq Symbols /\ pend \subseteq Symbols /\ defined \subseteq Symbols
  /\ marked \subseteq Modules
  /\ reqLibs \in Seq(Libs) /\ nextThread \in 0 .. N_R_THREADS - 1
  /\ cur \in Libs \union {None} /\ mod \in Modules \union {None}
  /\ toRead \in Seq(AllBlocks) /\ toRequest \in Seq(AllBlocks)
  /\ rlib \in Libs \union {None} /\ mreg \in Int
  /\ libsDone \in BOOLEAN /\ stop \in 0 .. N_R_THREADS - 1

(* A slot of the block table holds that block or none, and main parses     *)
(* what it looked for, whichever thread read it and in whatever order.     *)
RightBlock ==
  /\ \A l \in Libs, b \in AllBlocks : table[l][b] \in {NoBlock, b}
  /\ mpc = "parse" => table[cur][Head(toRead)] = Head(toRead)

(* "Read the first one": the number that a thread takes from the request   *)
(* array is one that main has stored, of a block that nobody else reads or *)
(* has read.                                                               *)
ReadsRequested ==
  \A t \in Threads : Chosen(t) /\ ~libsDone =>
    /\ nextTr[tlib[t]] <= Len(reqArray[tlib[t]])
    /\ tblk[t] \in flagged[tlib[t]]
    /\ table[tlib[t]][tblk[t]] = NoBlock
    /\ \A u \in Threads \ {t} : Chosen(u) /\ tlib[u] = tlib[t] => tblk[u] # tblk[t]

(* "Must be done in one instruction": the count of outstanding blocks is   *)
(* the number of blocks requested and neither in the table nor in a        *)
(* thread's hands behind the decrement.                                    *)
CountExact ==
  ~libsDone => \A l \in Libs :
    requested[l] =
      Cardinality({b \in flagged[l] : table[l][b] = NoBlock})
      - Cardinality({t \in Threads : tpc[t] = "store" /\ tlib[t] = l})
      - (IF mpc = "countwrite" /\ rlib = l THEN 1 ELSE 0)

(* A thread does not go to sleep over a block of its libraries that main   *)
(* has asked for; main is at most about to wake it.                        *)
NoneForgotten ==
  \A t \in Threads : tpc[t] = "wait" /\ libSem[t] = 0 /\ ~libsDone =>
    \A l \in Elements(trList[t]) :
      requested[l] <= IF mpc \in {"number", "bumplib"} /\ rlib = l THEN 1 ELSE 0

(* A request reaches the thread: counted, and the thread awake for it.     *)
RequestsKept == CountExact /\ NoneForgotten

(* "Assure exclusive access to handle": one thread at a time seeks and     *)
(* reads with the handle of a library.                                     *)
OneReader ==
  \A t, u \in Threads : t # u /\ Working(t) /\ Working(u) => tlib[t] # tlib[u]

(* The lists of the threads are the request list dealt out: a library that *)
(* main works on is the first of its thread's list, where removal expects  *)
(* it.                                                                     *)
ListsAgree ==
  /\ \A t \in Threads : trList[t] = Without(reqLibs, {l \in Libs : lsThread[l] # t})
  /\ \A l \in Libs : lsThread[l] # NoThread <=> l \in Elements(reqLibs)
  /\ cur # None => cur = Head(reqLibs)

(* A library is with one thread from its first request to its removal.     *)
ListsKept == TypeOK /\ OneReader /\ ListsAgree

(* A symbol on a library's list will have its turn: the library is, or is  *)
(* about to be, in the request list as long as anything is wanted from it. *)
WantedIsListed ==
  \A l \in Libs : wanted[l] # <<>> =>
    l \in Elements(reqLibs) \/ (mpc = "add" /\ rlib = l)

(* Nobody is left behind in LIB_REQUEST_ORDER_SEM: whoever sleeps there is *)
(* owed a signal, by its owner or by the kernel object.                    *)
OrderServed ==
  \A p \in Procs : orderPc[p] = "waiting" =>
    orderKernel = 1 \/ \E q \in Procs : orderPc[q] \in {"owner", "posting"}

(* The library phase comes to an end, with every thread gone. *)
Termination == <>(mpc = "finished")

(* All of this amounts to fetching the blocks that are asked for, each     *)
(* once.                                                                   *)
Fetcher == INSTANCE AbstractFetch WITH
             Blocks <- Libs \X AllBlocks,
             asked <- IF libsDone THEN {}
                      ELSE {p \in Libs \X AllBlocks :
                              p[2] \in flagged[p[1]] /\ table[p[1]][p[2]] = NoBlock},
             fetched <- IF libsDone THEN {}
                        ELSE {p \in Libs \X AllBlocks : table[p[1]][p[2]] = p[2]},
             ended <- libsDone

ImplementsFetch == Fetcher!FetchSpec
==============================================================================
