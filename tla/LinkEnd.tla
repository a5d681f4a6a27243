-------------------------------- MODULE LinkEnd --------------------------------
(***************************************************************************)
(* How a link ends.  Three kinds of threads run: main, which goes through  *)
(* the passes, the reader threads of pass 1 and the thread that writes the *)
(* map file.  Any of them can fail, report an error and end the process:   *)
(* _err_abort, _cerr_abort and _abort (ntio/dosioc.c), the error messages  *)
(* (common/errors.asm), _terr_abort (ntio/terrorsc.c) and the handler of   *)
(* exceptions (ntio/xcnotifyc.c).  Main also keeps the map thread from     *)
(* running ahead, by semaphores it captures before the thread starts, and  *)
(* shares the symbol table with it by a count of users.                    *)
(*                                                                         *)
(* A thread's calls are a stack of labels, the routine it is in on top.    *)
(* The locks are as in AbstractLock, which MutexSem implements; the gates  *)
(* are sets of what has been allowed.  The lock around one console write   *)
(* (_SAY_VERBOSE_SEM) is held over nothing that blocks: the write is one   *)
(* step.  What the readers read is OpenRead and LibRead, what goes to the  *)
(* executable is FinalImage.                                               *)
(***************************************************************************)
EXTENDS Integers, Sequences, FiniteSets, SequencesExt

CONSTANTS
  Readers,     \* threads of pass 1 that read object files and libraries
  Scenarios,   \* the links to look at, see Scenario
  None         \* nobody holds a lock

Threads == {"main", "map"} \cup Readers
Parts == {"segments", "exports", "symbols", "lines", "xref", "start"}     \* of the map
Writing == {"exe", "publics", "codeview"}     \* main's steps that write the executable

\* What the map shows, whether there is CodeView output, what may fail, and how
\* many messages main has that do not end the link.  A write of the executable
\* or of the map file fails because the disk is full or for another reason.
Scenario ==
  [map : SUBSET (Parts \cup {"detail"}), codeview : BOOLEAN, messages : Nat,
   fails : SUBSET {"reader", "object", "thread", "fault", "console", "exe", "exe full", "map", "map full"}]
Running == {}     \* of the set of exit statuses, which never has more than one

ASSUME EndAssumption ==
  /\ {"main", "map"} \cap Readers = {} /\ None \notin Threads
  /\ \A s \in Scenarios : s \in Scenario

VARIABLES
  opt,        \* the scenario
  stack,      \* of each thread, the labels of the calls it is in; empty when it is not running
  plan,       \* what main has still to do, in order
  stages,     \* what the map thread has still to write, in order
  allowed,    \* the stages whose semaphore main has released
  lock,       \* who holds ERROR_SEM, PUT_DATA_SEM and _ABORTER_SEM
  err,        \* _ERR_COUNT, ABORTING, _CRITI_IN_PROGRESS, TERR_FLAG, _NO_CANCEL_FLAG
  map,        \* LOUTALL, MAP_FLUSHED and the state of MAP_DEVICE
  table,      \* SYMBOL_TABLE_USE and whether the table is still there
  exe,        \* _DELETE_EXE_ON_ERROR and the executable
  status,     \* of each thread, the argument of its __exit
  exit,       \* the status given to ExitProcess, none while the process runs
  said,       \* messages given so far that did not end the link
  failed      \* history: what has failed

vars == <<opt, stack, plan, stages, allowed, lock, err, map, table, exe, status, exit, said, failed>>
kept == <<opt, plan, stages, allowed, exit, said>>  \* what no routine of the error path changes

At(t, label) == exit = Running /\ stack[t] # << >> /\ Head(stack[t]) = label
Goto(t, label) == stack' = [stack EXCEPT ![t] = <<label>> \o Tail(@)]
Call(t, label, after) == stack' = [stack EXCEPT ![t] = <<label, after>> \o Tail(@)]
Return(t) == stack' = [stack EXCEPT ![t] = Tail(@)]
ExitThread(t) == stack' = [stack EXCEPT ![t] = << >>]
Take(l, t) == lock[l] = None /\ lock' = [lock EXCEPT ![l] = t]
Release(l) == lock' = [lock EXCEPT ![l] = None]
Fails(what) == what \in opt.fails /\ failed' = failed \cup {what}

MapWanted == opt.map \cap Parts # {}     \* MAPFILE_GINDEX
UsesTable(s) == s \in {"symbols", "xref"} \/ (s = "segments" /\ "detail" \in opt.map)

\* DO_MAP_OS2: the parts in their order, each if it is wanted.
IfWanted(s) == IF s \in opt.map THEN <<s>> ELSE << >>
WantedParts == IfWanted("segments") \o IfWanted("exports") \o IfWanted("symbols") \o
               IfWanted("lines") \o IfWanted("xref") \o IfWanted("start")

\* What main does from pass 1 on.  Each name of a stage releases its semaphore.
\* Of CodeView's sections only the modules and the publics come before UNUSE_SYMBOLS.
Plan(codeview) ==
  <<"pass1", "create", "adjust", "segments", "exports", "symbols">> \o
  (IF codeview THEN <<"exe", "lines", "xref", "publics", "unuse", "codeview">> ELSE <<"lines", "exe", "xref">>) \o
  <<"start", "join", "flush", "leave">>

Init ==
  /\ opt \in Scenarios
  /\ stack = [t \in Threads |-> IF t = "main" THEN <<"main">> ELSE IF t = "map" THEN << >> ELSE <<"read">>]
  /\ plan = Plan(opt.codeview)
  /\ stages = WantedParts
  /\ allowed = {}
  /\ lock = [l \in {"error", "put", "aborter"} |-> None]
  /\ err = [count |-> 0, aborting |-> FALSE, critical |-> FALSE, terr |-> FALSE, noCancel |-> FALSE]
  /\ map = [out |-> MapWanted, flushed |-> FALSE, file |-> IF MapWanted THEN "open" ELSE "none"]
  /\ table = [uses |-> 1, state |-> "kept"]
  /\ exe \in [delete : BOOLEAN, file : {"there"}]
  /\ status = [t \in Threads |-> 0]
  /\ exit = Running
  /\ said = 0
  /\ failed = {}

-------------------------------------------------------------------------------
(* Ending the process.                                                       *)

\* _abort tests the count and takes the flag; __exit gets the count by value, before the lock.
Abort(t) ==
  /\ At(t, "abort")
  /\ IF err.count > 0 /\ exe.delete
     THEN Goto(t, "delete") /\ exe' = [exe EXCEPT !.delete = FALSE] /\ UNCHANGED status
     ELSE Goto(t, "exit") /\ status' = [status EXCEPT ![t] = err.count] /\ UNCHANGED exe
  /\ UNCHANGED <<kept, lock, err, map, table, failed>>

\* _delete_exe: the close of the executable may fail.
DeleteExe(t) ==
  /\ At(t, "delete")
  /\ \/ /\ exe' = [exe EXCEPT !.file = "deleted"]
        /\ status' = [status EXCEPT ![t] = err.count]
        /\ Goto(t, "exit") /\ UNCHANGED failed
     \/ Fails("exe") /\ Goto(t, "lost") /\ UNCHANGED <<exe, status>>
  /\ UNCHANGED <<kept, lock, err, map, table>>

Exit(t) ==
  /\ At(t, "exit")
  /\ Take("aborter", t)
  /\ exit' = {status[t]}
  /\ UNCHANGED <<opt, stack, plan, stages, allowed, err, map, table, exe, status, said, failed>>

\* A console that cannot be written to ends the link, with the 0 WriteFile returned.
ConsoleFails(t) == Fails("console") /\ Goto(t, "exit") /\ status' = [status EXCEPT ![t] = 0]

\* Any thread may be at fault where it works on its data.
Fault(t) ==
  /\ At(t, "main") \/ At(t, "read") \/ At(t, "print")
  /\ Fails("fault")
  /\ Goto(t, "fault")
  /\ UNCHANGED <<kept, lock, err, map, table, exe, status>>

\* XCNOTIFY: the lock keeps a second thread out, and a thread in __exit.
Notify(t) ==
  /\ At(t, "fault")
  /\ Take("aborter", t)
  /\ Goto(t, "faulted")
  /\ UNCHANGED <<kept, err, map, table, exe, status, failed>>

Faulted(t) ==
  /\ At(t, "faulted")
  /\ \/ exit' = {1} /\ UNCHANGED <<stack, status, failed>>
     \/ ConsoleFails(t) /\ UNCHANGED exit
  /\ UNCHANGED <<opt, plan, stages, allowed, said, lock, err, map, table, exe>>

-------------------------------------------------------------------------------
(* Messages.                                                                 *)

\* ERROR_START and WARN_START: only an error counts.
ErrorStart(t) ==
  \E kind \in {"error", "warning"} :
     /\ At(t, kind)
     /\ Take("error", t)
     /\ err' = [err EXCEPT !.count = IF kind = "error" THEN @ + 1 ELSE @]
     /\ Goto(t, "phase3")
  /\ UNCHANGED <<kept, map, table, exe, status, failed>>

\* The message goes to the console and then through LOUTALL, to the map file while there is one.
ErrorPhase3(t) ==
  /\ At(t, "phase3")
  /\ \/ /\ IF map.out THEN Call(t, "put", "told") ELSE Goto(t, "told")
        /\ UNCHANGED <<status, failed>>
     \/ ConsoleFails(t)
  /\ UNCHANGED <<kept, lock, err, map, table, exe>>

(* Fault: ERROR_SEM is not released. *)
KeepsErrorSem(t) ==
  /\ At(t, "told")
  /\ IF err.aborting THEN Goto(t, "abort") ELSE Return(t)
  /\ UNCHANGED <<kept, lock, err, map, table, exe, status, failed>>

ErrorEnds(t) ==
  /\ At(t, "told")
  /\ Release("error")
  /\ IF err.aborting THEN Goto(t, "abort") ELSE Return(t)
  /\ UNCHANGED <<kept, err, map, table, exe, status, failed>>

ErrAbort(t) ==
  /\ At(t, "errabort")
  /\ IF err.noCancel THEN Goto(t, "abort") ELSE Call(t, "error", "abort")
  /\ UNCHANGED <<kept, lock, err, map, table, exe, status, failed>>

(* Fault: the others end the process too. *)
LosersAbort(t) ==
  /\ At(t, "terr")
  /\ err' = [err EXCEPT !.terr = TRUE]
  /\ Goto(t, IF err.terr THEN "abort" ELSE "report")
  /\ UNCHANGED <<kept, lock, map, table, exe, status, failed>>

\* _terr_abort: the first thread to come reports, any other just stops.
TerrAbort(t) ==
  /\ At(t, "terr")
  /\ err' = [err EXCEPT !.terr = TRUE]
  /\ IF err.terr THEN ExitThread(t) ELSE Goto(t, "report")
  /\ UNCHANGED <<kept, lock, map, table, exe, status, failed>>

\* Under ERROR_SEM, which is free again when the message is out.
TerrReport(t) ==
  /\ At(t, "report")
  /\ lock["error"] = None
  /\ err' = [err EXCEPT !.count = @ + 1]
  /\ Goto(t, "abort")
  /\ UNCHANGED <<kept, lock, map, table, exe, status, failed>>

-------------------------------------------------------------------------------
(* The map file.                                                             *)

Full(device) == IF device = "exe" THEN "exe full" ELSE "map full"

WriteFails(t, device) ==
  \/ Fails(device) /\ Goto(t, "lost")
  \/ Fails(Full(device)) /\ Goto(t, "full")

LstOut(t) ==
  /\ At(t, "put")
  /\ Take("put", t)
  /\ Goto(t, "fill")
  /\ UNCHANGED <<kept, err, map, table, exe, status, failed>>

\* _put_data: into the page, or a write of the full page, which may fail.  On a
\* device that another thread has flushed the buffer is gone: the copy may
\* fault, land in a new page, or go to a handle that is closed.
PutData(t) ==
  /\ At(t, "fill")
  /\ \/ Release("put") /\ Return(t) /\ UNCHANGED failed
     \/ map.file = "open" /\ WriteFails(t, "map") /\ UNCHANGED lock
     \/ map.file # "open" /\ failed' = failed \cup {"map"} /\ Goto(t, "lost") /\ UNCHANGED lock
     \/ map.file # "open" /\ failed' = failed \cup {"fault"} /\ Goto(t, "fault") /\ UNCHANGED lock
  /\ UNCHANGED <<kept, err, map, table, exe, status>>

\* The _dos_fail routines save what there is of the map before they report.
DosFail(t) ==
  /\ At(t, "lost")
  /\ Goto(t, IF map.flushed THEN "mapoff" ELSE "flush")
  /\ UNCHANGED <<kept, lock, err, map, table, exe, status, failed>>

\* _disk_full gives up some memory, the symbols' too, and reports for good.
DiskFull(t) ==
  /\ At(t, "full")
  /\ table' = [table EXCEPT !.state = IF @ = "kept" THEN "given up" ELSE @]
  /\ map' = [map EXCEPT !.out = FALSE]
  /\ err' = [err EXCEPT !.aborting = TRUE]
  /\ Goto(t, "error")
  /\ UNCHANGED <<kept, lock, exe, status, failed>>

\* _flush_trunc_close(MAP_DEVICE), without PUT_DATA_SEM.
FlushDisable(t) ==
  /\ At(t, "flush")
  /\ \/ map' = [map EXCEPT !.flushed = TRUE, !.file = IF @ = "open" THEN "closed" ELSE @]
        /\ Goto(t, "mapoff") /\ UNCHANGED failed
     \/ map.file = "open" /\ WriteFails(t, "map") /\ map' = [map EXCEPT !.flushed = TRUE]
  /\ UNCHANGED <<kept, lock, err, table, exe, status>>

\* LOUTALL becomes a RET; then the test of _cerr_abort.
MapOff(t) ==
  /\ At(t, "mapoff")
  /\ map' = [map EXCEPT !.out = FALSE]
  /\ Goto(t, IF err.critical THEN "abort" ELSE "critical")
  /\ UNCHANGED <<kept, lock, err, table, exe, status, failed>>

Critical(t) ==
  /\ At(t, "critical")
  /\ err' = [err EXCEPT !.critical = TRUE]
  /\ Goto(t, "errabort")
  /\ UNCHANGED <<kept, lock, map, table, exe, status, failed>>

-------------------------------------------------------------------------------
(* The symbol table.                                                         *)

Decremented ==
  table' = [uses |-> table.uses - 1, state |-> IF table.uses = 1 /\ table.state = "kept" THEN "freed" ELSE table.state]

Unusing(t) == IF t = "main" THEN stack[t] = <<"main">> /\ Head(plan) = "unuse"
              ELSE stack[t] = <<"printed">> /\ UsesTable(Head(stages))

\* UNUSE_SYMBOLS: a decrement of a byte without LOCK.  One of two at a time may be lost.
UnuseSymbols(t) ==
  \/ Decremented
  \/ (\E u \in {"main", "map"} \ {t} : Unusing(u)) /\ UNCHANGED table

-------------------------------------------------------------------------------
(* The reader threads, as far as they can end the link.                      *)

Read(t) ==
  /\ At(t, "read")
  /\ \/ ExitThread(t) /\ UNCHANGED failed
     \/ Fails("reader") /\ Goto(t, "terr")
  /\ UNCHANGED <<kept, lock, err, map, table, exe, status>>

Ended(t) == stack[t] = << >>

-------------------------------------------------------------------------------
(* The map thread.                                                           *)

\* Waits at the semaphore of its next stage, or stops.
Gate ==
  /\ At("map", "gate")
  /\ IF stages = << >> THEN ExitThread("map")
     ELSE Head(stages) \in allowed /\ Goto("map", "print")
  /\ UNCHANGED <<kept, lock, err, map, table, exe, status, failed>>

PrintStage ==
  /\ At("map", "print")
  /\ \/ /\ IF map.out THEN Call("map", "put", "printed") ELSE Goto("map", "printed")
        /\ UNCHANGED failed
     \/ UsesTable(Head(stages)) /\ table.state # "kept" /\ Goto("map", "fault")
        /\ failed' = failed \cup {"fault"}
  /\ UNCHANGED <<kept, lock, err, map, table, exe, status>>

Printed ==
  /\ At("map", "printed")
  /\ IF UsesTable(Head(stages)) THEN UnuseSymbols("map") ELSE UNCHANGED table
  /\ stages' = Tail(stages)
  /\ Goto("map", "gate")
  /\ UNCHANGED <<opt, plan, allowed, lock, err, map, exe, status, exit, said, failed>>

-------------------------------------------------------------------------------
(* Main.                                                                     *)

Main(step) == At("main", "main") /\ plan # << >> /\ Head(plan) = step
Done == plan' = Tail(plan)
rest == <<opt, allowed, lock, exe, status, exit, said, failed, stages>>

\* Pass 1 needs what every reader reads.
Pass1 ==
  /\ Main("pass1")
  /\ ~err.terr /\ \A r \in Readers : Ended(r)
  /\ Done
  /\ UNCHANGED <<rest, stack, err, map, table>>

\* An error or a warning that does not end the link, in pass 1 or in what is
\* written: REPORT_UNDEFINEDS_2 follows the publics, and CodeView's types come last.
Message ==
  /\ \E step \in {"pass1"} \cup Writing : Main(step)
  /\ said < opt.messages
  /\ said' = said + 1
  /\ \E kind \in {"error", "warning"} : Call("main", kind, "main")
  /\ UNCHANGED <<opt, plan, stages, allowed, lock, err, map, table, exe, status, exit, failed>>

\* A record that makes no sense, as INDEX_RANGE: _err_abort.
BadObject ==
  /\ Main("pass1")
  /\ Fails("object")
  /\ Goto("main", "errabort")
  /\ UNCHANGED <<kept, lock, err, map, table, exe, status>>

\* INITIALIZE_WRITEMAP has taken every semaphore before the thread starts.
CreateMapThread ==
  /\ Main("create")
  /\ \/ Done /\ stack' = [stack EXCEPT !["map"] = IF MapWanted THEN <<"gate">> ELSE @] /\ UNCHANGED failed
     \/ MapWanted /\ Fails("thread") /\ Goto("main", "errabort") /\ UNCHANGED plan
  /\ UNCHANGED <<opt, stages, allowed, lock, err, map, table, exe, status, exit, said>>

(* Fault: the use for the cross-reference is forgotten. *)
AdjustsLess ==
  /\ Main("adjust")
  /\ table' = [table EXCEPT !.uses = @ + Cardinality({s \in opt.map \ {"xref"} : UsesTable(s)})]
  /\ Done
  /\ UNCHANGED <<rest, stack, err, map>>

\* ADJUST_FLAGS: the map's uses of the symbol table, when the thread runs already.
AdjustFlags ==
  /\ Main("adjust")
  /\ table' = [table EXCEPT !.uses = @ + Cardinality({s \in opt.map : UsesTable(s)})]
  /\ Done
  /\ UNCHANGED <<rest, stack, err, map>>

Allow ==
  \E s \in Parts :
     /\ Main(s)
     /\ allowed' = allowed \cup {s}
  /\ Done
  /\ UNCHANGED <<opt, stack, lock, err, map, table, exe, status, exit, said, failed, stages>>

\* The executable is written, in the last of these steps to its end; any write of
\* it may fail, also when the symbol table is freed already.
WriteExe ==
  /\ \E step \in Writing : Main(step)
  /\ \/ Done /\ UNCHANGED <<stack, failed>>
     \/ WriteFails("main", "exe") /\ UNCHANGED plan
  /\ UNCHANGED <<opt, stages, allowed, lock, err, map, table, exe, status, exit, said>>

\* CodeView's publics are written and the undefined symbols told: main needs the
\* symbols no more.  Without CodeView it never says so.
Unuse ==
  /\ Main("unuse")
  /\ UnuseSymbols("main")
  /\ Done
  /\ UNCHANGED <<rest, stack, err, map>>

JoinMap ==
  /\ Main("join")
  /\ Ended("map")
  /\ Done
  /\ UNCHANGED <<rest, stack, err, map, table>>

FlushMap ==
  /\ Main("flush")
  /\ IF ~MapWanted THEN Done /\ UNCHANGED <<map, stack, failed>>
     ELSE \/ /\ map' = [map EXCEPT !.flushed = TRUE, !.file = "closed"]
             /\ Done /\ UNCHANGED <<stack, failed>>
          \/ /\ map' = [map EXCEPT !.flushed = TRUE]
             /\ WriteFails("main", "map") /\ UNCHANGED plan
  /\ UNCHANGED <<opt, stages, allowed, lock, err, table, exe, status, exit, said>>

Leave ==
  /\ Main("leave")
  /\ err' = [err EXCEPT !.noCancel = TRUE]
  /\ Goto("main", "abort")
  /\ UNCHANGED <<kept, lock, map, table, exe, status, failed>>

-------------------------------------------------------------------------------
Routines(t) ==
  \/ Abort(t) \/ DeleteExe(t) \/ Exit(t) \/ Fault(t) \/ Notify(t) \/ Faulted(t)
  \/ ErrorStart(t) \/ ErrorPhase3(t) \/ ErrorEnds(t) \/ ErrAbort(t) \/ TerrAbort(t) \/ TerrReport(t)
  \/ LstOut(t) \/ PutData(t) \/ DosFail(t) \/ DiskFull(t) \/ FlushDisable(t) \/ MapOff(t) \/ Critical(t)
MainStep ==
  \/ Pass1 \/ Message \/ BadObject \/ CreateMapThread \/ AdjustFlags \/ Allow \/ WriteExe
  \/ Unuse \/ JoinMap \/ FlushMap \/ Leave
MapStep == Gate \/ PrintStage \/ Printed

ThreadStep(t) == \/ Routines(t)
                 \/ t \in Readers /\ Read(t)
                 \/ t = "map" /\ MapStep
                 \/ t = "main" /\ MainStep

Next == \E t \in Threads : ThreadStep(t)

\* Windows schedules every thread.
Spec == Init /\ [][Next]_vars /\ \A t \in Threads : WF_vars(ThreadStep(t))
=============================================================================
