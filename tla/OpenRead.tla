------------------------------ MODULE OpenRead -------------------------------
(***************************************************************************)
(* Threaded file input: the OPREAD threads (ntio/opreadtc.c) open and read *)
(* ahead the files that the main thread will want, and main takes them in  *)
(* link order (PASS1_STUFF, openreadc.c, dosioc.c, newlibc.c, the OLD,     *)
(* STUB and RES readers).                                                  *)
(*                                                                         *)
(* Main deals the files round robin to the threads.  Main and a thread     *)
(* share, for that thread only, a ring of four OPEN_STRUCTs and a ring of  *)
(* four INPUT_STRUCTs, with an index on either side, and six semaphores,   *)
(* each captured by one side and released by the other.  Their units are   *)
(* plain counters here: StreamSem shows that a GLOBALSEM used so is one.   *)
(*                                                                         *)
(* A file is abstracted to its length in pages, its kind and whether it is *)
(* found; a block to the pair <<file, position>>.                          *)
(***************************************************************************)
EXTENDS Integers, Sequences, FiniteSets

CONSTANTS
  N_R_THREADS,   \* OPREAD threads
  Commands,      \* what the command line and the definition file may ask for
  Disk,          \* what each file turns out to be
  NoFile

Threads == 0 .. N_R_THREADS - 1
Ring    == 0 .. 3              \* four structures of each kind per thread
Follow(i) == (i + 1) % 4       \* (i + 1) & 3

Elements(s) == {s[i] : i \in DOMAIN s}
Files == DOMAIN Disk

(***************************************************************************)
(* kind    OBJ, LIB, OLD, STUB or RES (NFN_TYPE)                           *)
(* found   the file, or one of that name along the search path, opens      *)
(* full    whole pages in what is read of it: the file, a library's        *)
(*         dictionary, the resident name table of an OLD file              *)
(* rest    whether a part of a page follows                                *)
(* modend  OBJ: the page in which the module ends, beyond the file if it   *)
(*         does not                                                        *)
(* isLib   LIB: the header is a library header                             *)
(* nonres  OLD: pages of the non-resident name table                       *)
(* wanted  main opens it; false for an OLD file when there are no exports  *)
(*         to look up or the output is PE, and for all but the first OLD   *)
(*         and STUB file                                                   *)
(***************************************************************************)
FileRecord ==
  [kind : {"OBJ", "LIB", "OLD", "STUB", "RES"}, found : BOOLEAN,
   full : Nat, rest : BOOLEAN, modend : Nat, isLib : BOOLEAN,
   nonres : Nat, wanted : BOOLEAN]

Pages(f) == Disk[f].full + (IF Disk[f].rest THEN 1 ELSE 0)

IsLibrary(f) == Disk[f].kind = "LIB" /\ Disk[f].isLib

NoBlock == <<NoFile, 0>>

(* Blocks a thread delivers: a file read to its end ends with a short      *)
(* block, an empty one when its length is a multiple of the page.          *)
ReadBlocks(f) ==
  IF Disk[f].kind = "OLD" THEN Pages(f) + Disk[f].nonres
  ELSE IF IsLibrary(f)    THEN Pages(f)
  ELSE Disk[f].full + 1

(* Blocks main asks for, other than the OBJ reader that drains the file.   *)
NeedBlocks(f) ==
  IF Disk[f].kind = "STUB" /\ Pages(f) = 0 THEN 1 ELSE Pages(f)

WholeTooSoon(b) ==                     \* fault: the last whole page taken for a short one
  b # NoBlock /\ b[2] < Disk[b[1]].full

(* A block that fills its page, INS_BYTES = PAGE_SIZE. *)
WholePage(b) ==
  b # NoBlock /\ LET d == Disk[b[1]]
                 IN  b[2] <= d.full \/ b[2] \in Pages(b[1]) + 1 .. Pages(b[1]) + d.nonres - 1

Blocks  == (Files \union {NoFile}) \X Nat
FreeOpen == [file |-> NoFile, flags |-> FALSE, handle |-> NoFile]

(***************************************************************************)
(* obj, lib   OBJ_LIST and LIB_LIST after the command line, in order       *)
(* defaults   libraries that object files may still name, in order         *)
(* tail       OLD_LIST, STUB_LIST and RC_LIST, in order                    *)
(* output     OUTPUT_PE, OUTPUT_SEGMENTED or neither                       *)
(* fatal      LIB_NOT_FOUND_FATAL                                          *)
(***************************************************************************)
CommandRecord ==
  [obj : Seq(Files), lib : Seq(Files), defaults : Seq(Files), tail : Seq(Files),
   output : {"PE", "SEGMENTED", "OTHER"}, fatal : BOOLEAN]

Named(c) == c.obj \o c.lib \o c.defaults \o c.tail

ASSUME OpenReadAssumption ==
  /\ N_R_THREADS \in {1, 2, 4}                  \* AND EBX,N_R_THREADS-1
  /\ Disk \in [Files -> FileRecord]
  /\ \A f \in Files : Disk[f].kind # "OLD" => Disk[f].nonres = 0
  /\ NoFile \notin Files
  /\ \A c \in Commands :
       /\ c \in CommandRecord
       /\ \A f \in Elements(c.obj) : Disk[f].kind = "OBJ" /\ Disk[f].wanted /\ Disk[f].modend > 0
       /\ \A f \in Elements(c.lib) \union Elements(c.defaults) :
            Disk[f].kind = "LIB" /\ Disk[f].wanted /\ Pages(f) > 0
       /\ \A f \in Elements(c.tail) : Disk[f].kind \in {"OLD", "STUB", "RES"}
       \* every entry of the lists is a FILE_LIST_STRUCT of its own
       /\ \A i, j \in DOMAIN Named(c) : Named(c)[i] = Named(c)[j] => i = j

VARIABLES
  \* one OPREAD thread's half of its MYI2_STRUCT
  pc,             \* where the thread is
  lastOpened,     \* MYI2_LAST_FILENAME_OPENED, as a position in linked
  nextOpenStruc,  \* MYI2_NEXT_OPEN_STRUC
  nextBuffer,     \* MYI2_NEXT_FILE_BUFFER
  blk,            \* blocks read of the current file (OPENFILE_ADDR)
  \* main's half
  nextOpenFile,   \* MYI2_NEXT_OPEN_FILE
  next16K,        \* MYI2_NEXT_16K_BLOCK
  \* what they share
  linked,         \* the FILE_LIST_MY_NEXT chain
  openStruc,      \* MYI2_OPEN_STRUC
  insBlock,       \* INS_BLOCK of MYI2_INPUT_STRUC
  sem,            \* units of the thread's five private semaphores
  nonresSem,      \* units of _NONRES_LENGTH_SEM
  opreadsDone,    \* OPREADS_DONE
  handles,        \* files with an open handle
  \* main
  command,        \* what this link is asked to do
  mpc,            \* where main is
  toLink,         \* files this phase still has to deal out
  todo,           \* files main still has to process, the current one first
  defaults,       \* default libraries not named yet
  thread,         \* FILE_LIST_THREAD
  nextRead,       \* NEXT_READ_THREAD
  bufcnt,         \* MYI_BUFCNT
  mblock,         \* MYI_BLOCK
  got,            \* blocks main has taken for the current file
  libHandles,     \* handles handed over to the LIBRARY_STRUCTs
  libsDone,       \* LIBS_DONE
  stop            \* the thread TERMINATE_OPREADS has got to

threadVars == <<pc, lastOpened, nextOpenStruc, nextBuffer, blk>>
ringVars   == <<linked, openStruc, insBlock, sem, nonresSem, opreadsDone, handles>>
mainRing   == <<nextOpenFile, next16K>>
mainVars   == <<command, mpc, toLink, todo, defaults, thread, nextRead, bufcnt, mblock, got,
              libHandles, libsDone, stop>>
vars       == <<threadVars, ringVars, mainRing, mainVars>>

SemNames == {"name", "avail", "open", "header", "full", "ins"}

(* _release_eax and the part of _capture_eax that takes a unit. *)
Post(t, s) == sem' = [sem EXCEPT ![t][s] = @ + 1]
Take(t, s) == sem[t][s] > 0 /\ sem' = [sem EXCEPT ![t][s] = @ - 1]

(* INIT_THREAD: nothing in the list, nothing open, four of each free. *)
NewSems == [s \in SemNames |-> IF s \in {"avail", "ins"} THEN 4 ELSE 0]

Init ==
  /\ pc = [t \in Threads |-> "unborn"]
  /\ lastOpened = [t \in Threads |-> 0]
  /\ nextOpenStruc = [t \in Threads |-> 3]      \* -1 AND 3
  /\ nextBuffer = [t \in Threads |-> 3]
  /\ blk = [t \in Threads |-> 0]
  /\ nextOpenFile = [t \in Threads |-> 3]
  /\ next16K = [t \in Threads |-> 3]
  /\ linked = [t \in Threads |-> <<>>]
  /\ openStruc = [t \in Threads |-> [i \in Ring |-> FreeOpen]]
  /\ insBlock = [t \in Threads |-> [i \in Ring |-> NoBlock]]
  /\ sem = [t \in Threads |-> NewSems]
  /\ nonresSem = 0
  /\ opreadsDone = FALSE
  /\ handles = {}
  /\ mpc = "link"
  /\ command \in Commands
  /\ toLink = command.obj \o command.lib
  /\ todo = command.obj \o command.lib
  /\ defaults = command.defaults
  /\ thread = [f \in Files |-> 0]
  /\ nextRead = N_R_THREADS - 1
  /\ bufcnt = 0
  /\ mblock = NoBlock
  /\ got = 0
  /\ libHandles = {}
  /\ libsDone = FALSE
  /\ stop = 0

------------------------------------------------------------------------------
(* The OPREAD thread t, opreadt2.                                          *)

Slot(t)     == openStruc[t][nextOpenStruc[t]]
ThreadFile(t) == linked[t][lastOpened[t]]
Goto(t, l)  == pc' = [pc EXCEPT ![t] = l]

(* Every capture and every open attempt looks at OPREADS_DONE. *)
GotoUnlessDone(t, l) == Goto(t, IF opreadsDone THEN "abort" ELSE l)

(* _get_next_open_struc: wait until main is done with this OPEN_STRUCT. *)
GetNextOpenStruc(t) ==
  /\ pc[t] = "getstruc"
  /\ Take(t, "avail")
  /\ nextOpenStruc' = [nextOpenStruc EXCEPT ![t] = Follow(@)]
  /\ GotoUnlessDone(t, "getname")
  /\ openStruc' = IF opreadsDone THEN openStruc
                  ELSE [openStruc EXCEPT ![t][Follow(nextOpenStruc[t])].flags = FALSE]
  /\ UNCHANGED <<lastOpened, nextBuffer, blk, linked, insBlock, nonresSem,
                 opreadsDone, handles, mainRing, mainVars>>

(* _get_next_file_name: wait for a file, follow its MY_NEXT link. *)
GetNextFileName(t) ==
  /\ pc[t] = "getname"
  /\ Take(t, "name")
  /\ GotoUnlessDone(t, "open")
  /\ lastOpened' = IF opreadsDone THEN lastOpened ELSE [lastOpened EXCEPT ![t] = @ + 1]
  /\ UNCHANGED <<nextOpenStruc, nextBuffer, blk, linked, openStruc, insBlock,
                 nonresSem, opreadsDone, handles, mainRing, mainVars>>

(* _open_file, up to the signal: close what the structure still holds, then *)
(* try the name and the search path.                                        *)
OpenFile(t) ==
  /\ pc[t] = "open"
  /\ LET f     == ThreadFile(t)
         found == Disk[f].found /\ ~opreadsDone
     IN  /\ openStruc' = [openStruc EXCEPT ![t][nextOpenStruc[t]] =
                            [file   |-> f,
                             flags  |-> found,
                             handle |-> IF found THEN f ELSE NoFile]]
         /\ handles' = (handles \ {Slot(t).handle}) \union (IF found THEN {f} ELSE {})
  /\ blk' = [blk EXCEPT ![t] = 0]
  /\ GotoUnlessDone(t, "opened")
  /\ UNCHANGED <<lastOpened, nextOpenStruc, nextBuffer, linked, insBlock, sem,
                 nonresSem, opreadsDone, mainRing, mainVars>>

(* _open_file tells main; a library goes on with its header, an OLD file   *)
(* with the length of its tables, the others with their blocks.            *)
SignalOpened(t) ==
  /\ pc[t] = "opened"
  /\ Post(t, "open")
  /\ Goto(t, IF ~Slot(t).flags THEN "getstruc"
             ELSE IF Disk[ThreadFile(t)].kind = "LIB" THEN "header"
             ELSE IF Disk[ThreadFile(t)].kind = "OLD" THEN "oldlength"
             ELSE "getbuffer")
  /\ UNCHANGED <<lastOpened, nextOpenStruc, nextBuffer, blk, linked, openStruc,
                 insBlock, nonresSem, opreadsDone, handles, mainRing, mainVars>>

(* _read_16: the header is there for main to see.  A file that is not a    *)
(* library is read on behind the 16 bytes, like an object file.            *)
ReadHeader(t) ==
  /\ pc[t] = "header"
  /\ Post(t, "header")
  /\ Goto(t, "getbuffer")
  /\ UNCHANGED <<lastOpened, nextOpenStruc, nextBuffer, blk, linked, openStruc,
                 insBlock, nonresSem, opreadsDone, handles, mainRing, mainVars>>

(* _read_old_proc: RES_LENGTH is valid, the tables follow if there are any. *)
ReadOldLength(t) ==
  /\ pc[t] = "oldlength"
  /\ nonresSem' = nonresSem + 1
  /\ Goto(t, IF ReadBlocks(ThreadFile(t)) = 0 THEN "close" ELSE "getbuffer")
  /\ UNCHANGED <<lastOpened, nextOpenStruc, nextBuffer, blk, linked, openStruc,
                 insBlock, sem, opreadsDone, handles, mainRing, mainVars>>

(* _get_next_buffer *)
GetNextBuffer(t) ==
  /\ pc[t] = "getbuffer"
  /\ Take(t, "ins")
  /\ nextBuffer' = [nextBuffer EXCEPT ![t] = Follow(@)]
  /\ GotoUnlessDone(t, "read")
  /\ UNCHANGED <<lastOpened, nextOpenStruc, blk, linked, openStruc, insBlock,
                 nonresSem, opreadsDone, handles, mainRing, mainVars>>

(* _read_block *)
ReadBlock(t) ==
  /\ pc[t] = "read"
  /\ insBlock' = [insBlock EXCEPT ![t][nextBuffer[t]] = <<ThreadFile(t), blk[t] + 1>>]
  /\ blk' = [blk EXCEPT ![t] = @ + 1]
  /\ Goto(t, "full")
  /\ UNCHANGED <<lastOpened, nextOpenStruc, nextBuffer, linked, openStruc, sem,
                 nonresSem, opreadsDone, handles, mainRing, mainVars>>

(* INS_FULL_SEM; a library's handle stays open, main takes it over. *)
SignalFull(t) ==
  /\ pc[t] = "full"
  /\ Post(t, "full")
  /\ Goto(t, IF blk[t] < ReadBlocks(ThreadFile(t)) THEN "getbuffer"
             ELSE IF IsLibrary(ThreadFile(t)) THEN "getstruc"
             ELSE "close")
  /\ UNCHANGED <<lastOpened, nextOpenStruc, nextBuffer, blk, linked, openStruc,
                 insBlock, nonresSem, opreadsDone, handles, mainRing, mainVars>>

StillHeld(slot) == slot                \* fault: OPENFILE_HANDLE not zeroed
Emptied(slot)   == [slot EXCEPT !.handle = NoFile]

(* The XCHG of OPENFILE_HANDLE with zero, then _close_handle. *)
CloseFile(t) ==
  /\ pc[t] = "close"
  /\ handles' = handles \ {Slot(t).handle}
  /\ openStruc' = [openStruc EXCEPT ![t][nextOpenStruc[t]] = Emptied(@)]
  /\ Goto(t, "getstruc")
  /\ UNCHANGED <<lastOpened, nextOpenStruc, nextBuffer, blk, linked, insBlock,
                 sem, nonresSem, opreadsDone, mainRing, mainVars>>

(* _readt_abort: close what is open, give the blocks back, ExitThread. *)
Abort(t) ==
  /\ pc[t] = "abort"
  /\ handles' = handles \ {openStruc[t][i].handle : i \in Ring}
  /\ openStruc' = [openStruc EXCEPT ![t] = [i \in Ring |-> Emptied(@[i])]]
  /\ insBlock' = [insBlock EXCEPT ![t] = [i \in Ring |-> NoBlock]]
  /\ Goto(t, "dead")
  /\ UNCHANGED <<lastOpened, nextOpenStruc, nextBuffer, blk, linked, sem,
                 nonresSem, opreadsDone, mainRing, mainVars>>

(* ReadFile fails or returns less than was asked for: _oerr_abort, and the *)
(* process ends.                                                           *)
ReadFails(t) ==
  /\ pc[t] \in {"header", "read"}
  /\ mpc' = "exited"
  /\ UNCHANGED <<command, threadVars, ringVars, mainRing, toLink, todo, defaults, thread, nextRead,
                 bufcnt, mblock, got, libHandles, libsDone, stop>>

OpRead(t) ==
  /\ mpc # "exited"                             \* ExitProcess takes the threads along
  /\ \/ GetNextOpenStruc(t) \/ GetNextFileName(t) \/ OpenFile(t) \/ SignalOpened(t)
     \/ ReadHeader(t) \/ ReadOldLength(t)
     \/ GetNextBuffer(t) \/ ReadBlock(t) \/ SignalFull(t) \/ CloseFile(t) \/ Abort(t)
     \/ ReadFails(t)

------------------------------------------------------------------------------
(* Main.                                                                   *)

Cur      == Head(todo)                    \* CURN_FILE_LIST_GINDEX
T        == thread[Cur]
MainSlot == openStruc[T][nextOpenFile[T]] \* MYI2_LAST_OPENFILE

MarkOwner(f, t) == thread' = [thread EXCEPT ![f] = t]    \* FILE_LIST_THREAD

(* LINK_TO_THREAD: deal f to the next thread, started by INIT_THREAD if it *)
(* is the first file it gets, and tell the thread.                         *)
LinkToThread(f) ==
  LET t == (nextRead + 1) % N_R_THREADS
  IN  /\ nextRead' = t
      /\ pc' = IF pc[t] = "unborn" THEN [pc EXCEPT ![t] = "getstruc"] ELSE pc
      /\ linked' = [linked EXCEPT ![t] = Append(@, f)]
      /\ MarkOwner(f, t)
      /\ Post(t, "name")
      /\ UNCHANGED <<command, lastOpened, nextOpenStruc, nextBuffer, blk, openStruc, insBlock,
                     nonresSem, opreadsDone, handles, mainRing, bufcnt, mblock, got,
                     libHandles, libsDone, stop>>

(* OS2_FIXER, and PASS1_STUFF for the tail: STICK_IN_THREAD_LIST. *)
LinkFile ==
  /\ mpc = "link" /\ toLink # <<>>
  /\ LinkToThread(Head(toLink))
  /\ toLink' = Tail(toLink)
  /\ UNCHANGED <<command, mpc, todo, defaults>>

(* PUT_IN_ADD_LIST: an object module names a default library not yet in    *)
(* LIB_LIST.  The module is of an OBJ file, or out of a library.           *)
LinkDefault ==
  /\ defaults # <<>> /\ ~libsDone
  /\ \/ (mpc = "parse" /\ Disk[Cur].kind = "OBJ")
     \/ (mpc = "next" /\ libHandles # {})
  /\ LinkToThread(Head(defaults))
  /\ defaults' = Tail(defaults)
  /\ todo' = Append(todo, Head(defaults))
  /\ UNCHANGED <<command, mpc, toLink>>

MainGoto(l) == mpc' = l

Linked ==
  /\ mpc = "link" /\ toLink = <<>>
  /\ MainGoto("next")
  /\ UNCHANGED <<command, threadVars, ringVars, mainRing, toLink, todo, defaults, thread, nextRead,
                 bufcnt, mblock, got, libHandles, libsDone, stop>>

(* _open_reading, _find_library_file: wait for the next OPEN_STRUCT of the *)
(* file's thread.  A missing OBJ file is fatal, a library if so selected;  *)
(* main moves on behind the others, having released only a library's slot. *)
OpenNext ==
  /\ mpc = "next" /\ todo # <<>> /\ Disk[Cur].wanted
  /\ sem[T].open > 0
  /\ nextOpenFile' = [nextOpenFile EXCEPT ![T] = Follow(@)]
  /\ bufcnt' = 0
  /\ LET kind  == Disk[Cur].kind
         flags == openStruc[T][Follow(nextOpenFile[T])].flags
         fatal == kind = "OBJ" \/ (kind = "LIB" /\ command.fatal)
     IN  /\ sem' = [sem EXCEPT ![T].open  = @ - 1,
                               ![T].avail = IF ~flags /\ kind = "LIB" THEN @ + 1 ELSE @]
         /\ todo' = IF flags \/ fatal THEN todo ELSE Tail(todo)
         /\ MainGoto(IF ~flags THEN IF fatal THEN "exited" ELSE "next"
                     ELSE IF kind = "LIB" THEN "header"
                     ELSE IF kind = "OLD" THEN "tables"
                     ELSE IF kind # "OBJ" /\ NeedBlocks(Cur) = 0 THEN "done" ELSE "fill")
  /\ UNCHANGED <<command, threadVars, linked, openStruc, insBlock, nonresSem, opreadsDone, handles,
                 next16K, toLink, defaults, thread, nextRead, mblock, got, libHandles,
                 libsDone, stop>>

(* A file that was dealt out and is never opened by main. *)
SkipNext ==
  /\ mpc = "next" /\ todo # <<>> /\ ~Disk[Cur].wanted
  /\ todo' = Tail(todo)
  /\ UNCHANGED <<command, threadVars, ringVars, mainRing, mpc, toLink, defaults, thread, nextRead,
                 bufcnt, mblock, got, libHandles, libsDone, stop>>

(* GET_FIRST_SECTOR and the checks of _define_lib_symbols. *)
ReadLibHeader ==
  /\ mpc = "header"
  /\ Take(T, "header")
  /\ MainGoto(IF Disk[Cur].isLib THEN "fill" ELSE "exited")
  /\ UNCHANGED <<command, threadVars, linked, openStruc, insBlock, nonresSem, opreadsDone, handles,
                 mainRing, toLink, todo, defaults, thread, nextRead, bufcnt, mblock, got,
                 libHandles, libsDone, stop>>

(* _n_res_table *)
ReadOldTables ==
  /\ mpc = "tables"
  /\ nonresSem > 0
  /\ nonresSem' = nonresSem - 1
  /\ MainGoto(IF NeedBlocks(Cur) = 0 THEN "done" ELSE "fill")
  /\ UNCHANGED <<command, threadVars, linked, openStruc, insBlock, sem, opreadsDone, handles,
                 mainRing, toLink, todo, defaults, thread, nextRead, bufcnt, mblock, got,
                 libHandles, libsDone, stop>>

(* _read_16k_threaded: a short block was the last one. *)
FillPastEnd ==
  /\ mpc = "fill" /\ bufcnt = 1
  /\ MainGoto("exited")                       \* UNEXP_EOF_ERR
  /\ UNCHANGED <<command, threadVars, ringVars, mainRing, toLink, todo, defaults, thread, nextRead,
                 bufcnt, mblock, got, libHandles, libsDone, stop>>

(* Otherwise wait for the next block of the ring and take it out. *)
Fill ==
  /\ mpc = "fill" /\ bufcnt # 1
  /\ Take(T, "full")
  /\ LET i == Follow(next16K[T])
         b == insBlock[T][i]
     IN  /\ next16K' = [next16K EXCEPT ![T] = i]
         /\ insBlock' = [insBlock EXCEPT ![T][i] = NoBlock]
         /\ mblock' = b
         /\ bufcnt' = IF WholePage(b) THEN -1 ELSE 1
  /\ got' = got + 1
  /\ MainGoto("taken")
  /\ UNCHANGED <<command, threadVars, linked, openStruc, nonresSem, opreadsDone, handles, nextOpenFile,
                 toLink, todo, defaults, thread, nextRead, libHandles, libsDone, stop>>

(* ... then INS_AVAIL_SEM; PROCESS_THIS_SET and GNN clear MYI_BUFCNT. *)
FillDone ==
  /\ mpc = "taken"
  /\ Post(T, "ins")
  /\ bufcnt' = IF Disk[Cur].kind = "OLD" THEN 0 ELSE bufcnt
  /\ MainGoto("parse")
  /\ UNCHANGED <<command, threadVars, linked, openStruc, insBlock, nonresSem, opreadsDone, handles,
                 mainRing, toLink, todo, defaults, thread, nextRead, mblock, got,
                 libHandles, libsDone, stop>>

(* The consumers of the blocks.  OBJ_MOD reads until the module ends, then *)
(* PASS1_STUFF drains the file: DEC MYI_BUFCNT, read on unless it was 1.   *)
(* The others count the bytes or blocks they expect.                       *)
Parse ==
  /\ mpc = "parse"
  /\ IF Disk[Cur].kind = "OBJ" /\ got >= Disk[Cur].modend
       THEN /\ bufcnt' = bufcnt - 1
            /\ MainGoto(IF bufcnt = 1 THEN "done" ELSE "fill")
       ELSE /\ MainGoto(IF Disk[Cur].kind = "OBJ" \/ got < NeedBlocks(Cur) THEN "fill" ELSE "done")
            /\ UNCHANGED bufcnt
  /\ UNCHANGED <<command, threadVars, ringVars, mainRing, toLink, todo, defaults, thread, nextRead,
                 mblock, got, libHandles, libsDone, stop>>

GivesBackLibOnly(kind) == kind = "LIB" \* fault: OPENFILE_AVAIL_SEM not released for OBJ

(* OBJ and LIB files give their OPEN_STRUCT back; nothing in the readers   *)
(* of the tail files does.                                                 *)
GivesBack(kind) == kind \in {"OBJ", "LIB"}

(* Done with the file.  A library keeps its handle, in its LIBRARY_STRUCT. *)
FileDone ==
  /\ mpc = "done"
  /\ mblock' = NoBlock
  /\ got' = 0
  /\ todo' = Tail(todo)
  /\ IF Disk[Cur].kind = "LIB"
       THEN /\ openStruc' = [openStruc EXCEPT ![T][nextOpenFile[T]] = Emptied(@)]
            /\ libHandles' = libHandles \union {MainSlot.handle}
       ELSE UNCHANGED <<openStruc, libHandles>>
  /\ IF GivesBack(Disk[Cur].kind) THEN Post(T, "avail") ELSE UNCHANGED sem
  /\ MainGoto("next")
  /\ UNCHANGED <<command, threadVars, linked, insBlock, nonresSem, opreadsDone, handles, mainRing,
                 toLink, defaults, thread, nextRead, bufcnt, libsDone, stop>>

(* An output that is neither segmented nor PE has no tail. *)
Tails == IF command.output = "OTHER" THEN <<>> ELSE command.tail

(* TERM_LIB_THREADS: the libraries are closed, the tail is dealt out. *)
LibrariesDone ==
  /\ mpc = "next" /\ todo = <<>> /\ ~libsDone
  /\ libsDone' = TRUE
  /\ handles' = handles \ libHandles             \* CLOSE_LIB_FILES
  /\ libHandles' = {}
  /\ toLink' = Tails
  /\ todo' = Tails
  /\ MainGoto("link")
  /\ UNCHANGED <<command, threadVars, linked, openStruc, insBlock, sem, nonresSem, opreadsDone,
                 mainRing, defaults, thread, nextRead, bufcnt, mblock, got, stop>>

(* PE_OUTPUT_RESOURCES returns early without resources: then nobody calls  *)
(* TERMINATE_OPREADS, and the threads live until the process ends.         *)
LeavesThreads ==
  command.output = "PE" /\ \A f \in Elements(command.tail) : Disk[f].kind # "RES"

(* TERMINATE_OPREADS: raise the flag, ... *)
Terminate ==
  /\ mpc = "next" /\ todo = <<>> /\ libsDone
  /\ opreadsDone' = ~LeavesThreads
  /\ MainGoto(IF LeavesThreads THEN "exited" ELSE "bump")
  /\ UNCHANGED <<command, threadVars, linked, openStruc, insBlock, sem, nonresSem, handles, mainRing,
                 toLink, todo, defaults, thread, nextRead, bufcnt, mblock, got,
                 libHandles, libsDone, stop>>

NamelessBump(u) == [u EXCEPT !.avail = @ + 1, !.ins = @ + 1]  \* fault: a thread without files sleeps on
Bumped(u) == [u EXCEPT !.name = @ + 1, !.avail = @ + 1, !.ins = @ + 1]

(* ... give every thread that exists a unit of all it can be waiting for,  *)
Bump ==
  /\ mpc = "bump"
  /\ sem' = IF pc[stop] = "unborn" THEN sem
            ELSE [sem EXCEPT ![stop] = Bumped(@)]
  /\ stop' = (stop + 1) % N_R_THREADS
  /\ MainGoto(IF stop = N_R_THREADS - 1 THEN "join" ELSE "bump")
  /\ UNCHANGED <<command, threadVars, linked, openStruc, insBlock, nonresSem, opreadsDone, handles,
                 mainRing, toLink, todo, defaults, thread, nextRead, bufcnt, mblock, got,
                 libHandles, libsDone>>

(* ... and wait for one after the other. *)
Join ==
  /\ mpc = "join"
  /\ pc[stop] \in {"unborn", "dead"}
  /\ stop' = (stop + 1) % N_R_THREADS
  /\ MainGoto(IF stop = N_R_THREADS - 1 THEN "finished" ELSE "join")
  /\ UNCHANGED <<command, threadVars, ringVars, mainRing, toLink, todo, defaults, thread, nextRead,
                 bufcnt, mblock, got, libHandles, libsDone>>

Main ==
  \/ LinkFile \/ LinkDefault \/ Linked \/ OpenNext \/ SkipNext
  \/ ReadLibHeader \/ ReadOldTables \/ FillPastEnd \/ Fill \/ FillDone \/ Parse \/ FileDone
  \/ LibrariesDone \/ Terminate \/ Bump \/ Join

Ended == mpc \in {"finished", "exited"}

Next == Main \/ \E t \in Threads : OpRead(t)

(* Windows runs every thread that can run; a semaphore has one consumer. *)
Fairness == WF_vars(Main) /\ \A t \in Threads : WF_vars(OpRead(t))

Spec == Init /\ [][Next]_vars /\ Fairness

------------------------------------------------------------------------------
(* Main has the current file open. *)
Using == mpc \in {"header", "tables", "fill", "taken", "parse", "done"}

(* The thread has a file open and reads, or is about to, from it. *)
Reading(t) == pc[t] \in {"opened", "header", "oldlength", "getbuffer", "read", "full", "close"}

TypeOK ==
  /\ pc \in [Threads -> {"unborn", "getstruc", "getname", "open", "opened", "header",
                         "oldlength", "getbuffer", "read", "full", "close", "abort", "dead"}]
  /\ lastOpened \in [Threads -> Nat]
  /\ nextOpenStruc \in [Threads -> Ring] /\ nextBuffer \in [Threads -> Ring]
  /\ nextOpenFile \in [Threads -> Ring] /\ next16K \in [Threads -> Ring]
  /\ blk \in [Threads -> Nat]
  /\ linked \in [Threads -> Seq(Files)]
  /\ openStruc \in [Threads -> [Ring ->
       [file : Files \union {NoFile}, flags : BOOLEAN, handle : Files \union {NoFile}]]]
  /\ insBlock \in [Threads -> [Ring -> Blocks]]
  /\ sem \in [Threads -> [SemNames -> Nat]]
  /\ nonresSem \in Nat
  /\ opreadsDone \in BOOLEAN
  /\ handles \subseteq Files /\ libHandles \subseteq Files \union {NoFile}
  /\ command \in Commands
  /\ mpc \in {"link", "next", "header", "tables", "fill", "taken", "parse", "done",
              "bump", "join", "finished", "exited"}
  /\ toLink \in Seq(Files) /\ todo \in Seq(Files) /\ defaults \in Seq(Files)
  /\ thread \in [Files -> Threads] /\ nextRead \in Threads
  /\ bufcnt \in Int /\ got \in Nat /\ mblock \in Blocks
  /\ libsDone \in BOOLEAN
  /\ stop \in Threads

(* "OK, it's open, and I own it": from the capture of OPENFILE_OPEN_SEM    *)
(* until main gives the OPEN_STRUCT back, the thread does not put another  *)
(* file into it, however far ahead it reads.                               *)
OwnSlot == Using => MainSlot.file = Cur /\ MainSlot.flags

(* "Make sure main thread is done with this": a thread is kept from its    *)
(* next OPEN_STRUCT only by main, which still has a use for the file in it.*)
KeptByMain ==
  \A t \in Threads :
    pc[t] = "getstruc" /\ sem[t].avail = 0 =>
      openStruc[t][Follow(nextOpenStruc[t])].file \in Elements(todo)

(* The blocks of a thread's four buffers are accounted for: full, taken by *)
(* main and not yet returned, being filled, or free.  So a thread never    *)
(* reads into a block that main has not taken.                             *)
Filling(t)   == IF pc[t] \in {"read", "full"} THEN 1 ELSE 0
Returning(t) == IF mpc = "taken" /\ T = t THEN 1 ELSE 0

BufferAccount ==
  ~opreadsDone /\ mpc # "exited" =>
    \A t \in Threads :
      /\ sem[t].full + sem[t].ins + Filling(t) + Returning(t) = 4
      /\ \A i \in Ring :
           insBlock[t][i] # NoBlock <=>
             \/ \E k \in 1 .. sem[t].full : i = (next16K[t] + k) % 4
             \/ pc[t] = "full" /\ i = nextBuffer[t]

(* What keeps the two rings of a thread sound.                             *)
RingsKept == TypeOK /\ OwnSlot /\ KeptByMain /\ BufferAccount

(* A thread reads with the handle of its own file, a library's handle is   *)
(* valid as long as LIBRARY_STRUCTs hold it, and every handle has exactly  *)
(* one holder.                                                             *)
HandleOwned ==
  /\ \A t \in Threads : Reading(t) /\ Slot(t).flags =>
       Slot(t).handle = ThreadFile(t) /\ ThreadFile(t) \in handles
  /\ libHandles \subseteq handles
  /\ \A f \in handles \ libHandles :
       \E t \in Threads, i \in Ring : openStruc[t][i].handle = f
  /\ \A t \in Threads, i \in Ring : openStruc[t][i].handle \notin libHandles

(* When the threads are gone nothing is left open and no block is lost.    *)
CleanFinish ==
  mpc = "finished" =>
    /\ handles = {}
    /\ \A t \in Threads, i \in Ring : insBlock[t][i] = NoBlock

(* From the first open to the last close.                                  *)
HandlesKept == HandleOwned /\ CleanFinish

(* The link comes to an end: nobody waits for a unit that nobody releases, *)
(* and every thread notices that it is to stop.                            *)
Termination == <>Ended

(* All the threads, rings and semaphores amount to reading the files one   *)
(* after the other.                                                        *)
WholeRead(f) ==
  LET d == Disk[f]
      part == IF d.rest \/ d.kind = "OBJ" \/ (d.kind = "STUB" /\ d.full = 0) THEN 1 ELSE 0
  IN  d.full + part + (IF d.kind = "OLD" THEN d.nonres ELSE 0)

Input == INSTANCE SequentialInput WITH
           FirstFiles <- {c.obj \o c.lib : c \in Commands},
           Missing <- LAMBDA f : ~Disk[f].found \/ ~Disk[f].wanted,
           Whole <- WholeRead,
           files <- todo, count <- got, block <- mblock, ended <- Ended

ReadsInOrder == Input!InputSpec
==============================================================================
