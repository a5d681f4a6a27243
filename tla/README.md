# OPTLINK in TLA+

OPTLINK is the DigitalMars linker for Win32: a program of 32-bit assembly and C that links OMF
object files and libraries into PE and segmented executables.  What makes it hard to test is, first,
the part that made it fast: up to four threads open and read the input files ahead of the main
thread, up to four more fetch library modules on demand, another one writes the map, and all of them
share rings, lists, counters, an error path and a block allocator through a home-made semaphore;
and, second, sequential state that is spread over many files: the lists a symbol moves between, the
intervals of the executable that are there, offsets that are worked out before what they point to
is written.  This directory specifies these parts, checks them with TLC and proves some of it with
TLAPS.

The code is under `src/` of the repository.  Names in the modules are the code's names where TLA+
allows; `PROJECT.json` maps every definition to the lines it stands for.  Where the tree holds a
routine both in assembly and in C (`common/lnkinit.asm`, `common/lnkinitc.c`), the modules follow
the one the makefiles build.

## 1. Inventory

Status: **M** modelled, **P** partly, **-** not modelled (reasons in section 9).

| Component | Code | State it keeps | Operations | Interacts with | |
|---|---|---|---|---|---|
| Global semaphores | `ntio/capturec.c` | a counter and a Win32 semaphore each | `_init_eax`, `_capture_eax`, `_release_eax`, `_release_eax_bump` | everything below | M |
| Block cache | `alloc/allocc.c` | `PHYS_TABLE`, `PHYS_TABLE_ENTRIES` | `_get_new_phys_blk`, `_release_block`, `_sbrk`, `_oom_error` | called by main and by every reader, under `GLOBALALLOC_SEM` | M |
| Memory pools | `alloc/allopoolc.c`, `alloc/minidatac.c`, `install/instcommc.c` | an `ALLOCS_STRUCT` each | `_allo_pool_get1`, `_ap_fix`, `_release_minidata`, `_common_inst_init` | built on the block cache; main only | P |
| Threaded file input | `ntio/opreadtc.c`, `ntio/openreadc.c`, `ntio/dosioc.c`, `common/lnkinit.asm`, `common/pass1.asm` | per thread: four `OPEN_STRUCT`s, four `INPUT_STRUCT`s, two indices on either side, six semaphores, a chain of files | link, open, read ahead, take, return, close, terminate | main deals the files and consumes the blocks; a library's handle goes on to the next component | P |
| Demand-driven library input | `common/newlibc.c`, `ntio/libreadtc.c`, `ntio/libstuffc.c` | `LIBRARY_STRUCT`s, main's request list, one list and two semaphores per thread | request symbol, add library, request block, read, select, verify, free, remove, terminate | symbol table on one side, `LIBREAD` threads on the other | P |
| Library search | `common/newlibc.c`, `install/modpagec.c` | symbols wanted by library, the tables of modules and blocks, unused dictionary symbols | open a library, build its tables, scan what is undefined, fall back on stand-ins, select and read a module | symbol table; the reading itself is the component above | P |
| Symbol table, OMF semantics | `common/extdef.asm`, `common/comdef.asm`, `common/coment.asm`, `common/alias.asm`, `moves/dopublic.asm`, `install/addtoext.asm` | a type and a list for each symbol | reference, define, make weak, lazy, communal or an alias | library search | P |
| Output of the executable | `exe/movefina.asm`, `exe/flusfina.asm`, `ntio/openoutc.c`, `ntio/doswritec.c`, `ntio/dosioc.c` | blocks by page, intervals moved, file position as believed, high water | open, move, flush a page, flush the rest, cut, close, delete | pass 2 gives the bytes, errors take the file away | P |
| Map file and its thread | `common/initmap.asm`, `common/segmap.asm`, `common/mapsubs.asm`, `subs/dismap.asm`, `moves/putdatac.c` | gates, table use counts, the map's buffer under `PUT_DATA_SEM` | create, wait at a gate, print a stage, switch off | main opens the gates and shares the symbol table | P |
| Abort and exit | `ntio/terrorsc.c`, `ntio/xcnotifyc.c`, `ntio/dosioc.c`, `common/errors.asm`, `common/optlnkc.c` | `_ERR_COUNT`, `ABORTING`, `TERR_FLAG`, `ERROR_SEM`, `_ABORTER_SEM` | report, go on or end the process | every thread | P |
| CodeView | `cv/cvhashesc.c`, `cv/cvindexc.c`, `cv/instgsymc.c`, `cv/xdebugc.c` and their drivers | buffer, page bytes, one hash structure a symbol, directory blocks | put a symbol, pad a page, hash by name and by address, install a global symbol, write the directory | end of the executable | P |
| Record reader | `common/obj_mod.asm` | buffer pointer and length | read record, refill | the two inputs | - |
| Segments, groups, ordering | `common/segdef.asm`, `common/packsegs.asm`, `common/order.asm` | segment tables | define, combine, order | output | - |
| Fixups | `common/fixupp.asm`, `common/fixupp2.asm`, `common/forref.asm` | none beyond a record | translate | output | - |
| Executable formats | `exe/`, `common/pe_sect.asm`, `os2link/` | headers, tables | lay out | OLD, STUB and RES files from the input threads | - |
| Definition files, command line | `os2link/src/def.asm`, `common/mscmdlinc.c` | file lists | parse | input: the lists | - |
| Handle recovery | `ntio/recohndlc.c`, `ntio/reopenc.c` | library handles in order of use | close, reopen | library input | - |
| Hash tables of names | `install/` | chains | install | pools | - |
| Overlays, loader, DLL glue, demangler, build files | `overlays/`, `appload/`, `dllstuff/`, `sc/`, makefiles | | | | - |

Behaviours that are hard, and what makes each component correct:

* **Semaphores.**  The interlocked instruction and the kernel call are two steps, and the kernel
  object has a maximum count of one, so that `ReleaseSemaphore` may fail silently.  Correct: as a
  lock, exclusive and without a forgotten waiter; as a counter between two threads, no unit lost
  or made up.
* **Block cache.**  Many callers, one table, a count that is read, tested and written.  Correct: a
  block is in one place at any time, and a caller is not stuck in the lock.
* **Pools.**  The lists of the blocks to free are kept in those blocks.  Correct: pieces do not
  overlap, and every block is released once, none before the list in it has been read.
* **File input.**  Main and a thread each advance an index of their own around shared rings; one
  file or block counted on one side only shifts every later one.  Ends of files are told by short
  blocks.  Handles change hands.  Libraries are named while threads run.  Shutdown must wake every
  thread wherever it waits.  Correct: main sees every file whole, in link order, as if it read it
  itself; nothing is overwritten early; everything ends.
* **Library input.**  A count, an array and a table per library shared without a lock; a thread
  picks a library under a lock and reads from it outside; completions are counted, not named;
  libraries enter, leave and enter the lists again.  Correct: each block requested is read once,
  by one thread, into its slot, stays until its last module is parsed; each wanted symbol has its
  turn; everything ends.
* **Library search and symbols.**  A symbol has one of some twenty types, eight of them with a list
  that is linked through the symbols, and is at first wanted by the page of a dictionary and later
  by the number of a module.  Whether a library is searched depends on what the modules read so far
  said, in which order.  Correct: the type tells the list; what is wanted is wanted from the module
  that has it; nothing that a library has stays undefined, no module is read for nothing.
* **The executable.**  Bytes arrive in any order; a page is written when it is whole; seeks are
  left out when the position is believed to be right, and that belief is kept wrongly.  Correct:
  each byte is once in a block or in the file, and what is on the disk at the end is the image.
* **The end of a link.**  Any thread may fail, be at fault or find the disk full while others
  report, print or leave, under three locks and behind gates that only main opens.  Correct: the
  process ends, with a status that tells, and nothing is freed under a thread that uses it.
* **CodeView.**  No symbol may cross a page; the places of symbols are recorded before the buffer
  is written; two tables are built from them.  Correct: every table leads to every symbol where it
  stands, and buffers hold.

## 2. Modules

```
GlobalSem ---- MutexSem ---- BlockCache ---- MCBlockCache     AbstractLock, AbstractHeap
   |                              \
   |                               SemaphoreProofs  (of all four)
   |                              /
   |\--- StreamSem -- MCStreamSem                             AbstractCredit
    \
     LibRead ---- MCLibRead, LibReadProofs                    AbstractFetch
OpenRead ---- MCOpenRead, OpenReadProofs                      SequentialInput
PoolAlloc --- MCPoolAlloc, PoolAllocProofs
LibTables --- LibSearch --- MCLibSearch, LibSearchProofs
FinalImage -- MCFinalImage, FinalImageProofs
LinkEnd ----- MCLinkEnd --- LinkEndProofs     (its locks are AbstractLock's)
CvTables ---- CvSymbols --- MCCvSymbols, CvSymbolsProofs
```

The abstract specifications (on the right) say what a component promises; each detailed one has
an `INSTANCE ... WITH` of its own and the abstract specification among its checked properties.
The composition is layered: `StreamSem` shows that a `GLOBALSEM` between two threads is a counter
of units, and `OpenRead` and `LibRead` then use plain counters for those; `MutexSem` shows that it
is a lock, and `BlockCache` uses its instructions while `LibRead`, where main breaks the
discipline at shutdown, instantiates `GlobalSem` itself.  `PoolAlloc` uses of the cache only
that a block got is nobody else's, which is `AbstractHeap`.  `LibSearch` and `LibRead` divide the
library code between them: in the first a module is read in one step and the question is which
modules, in the second the modules are given and the question is how their blocks come in.
`LibTables` and `CvTables` hold what is a function of its input, without variables.

Definitions marked `fault:` belong to no next-state relation.  They are the mutants named in
`PROJECT.json`: putting one in the place of the definition after it must break a property.

### GlobalSem, MutexSem, StreamSem

`counter` is `_SEM_COUNTER`, `kernel` the count of the Win32 semaphore, `pc` where each thread is.
`CaptureFast`/`CaptureSlow` are `LOCK INC` and its test, `CaptureWait` is `WaitForSingleObject`,
`ReleaseFast`/`ReleaseSlow` are `LOCK DEC` and its test, `ReleasePost` is `ReleaseSemaphore` with
its maximum of one.

### BlockCache

The two functions step by step: capture, read of `PHYS_TABLE_ENTRIES`, change of the table,
release, and what follows outside of the lock (`VirtualAlloc`, `VirtualFree`, the return).  `at`
is the place in the function, `reg` and `blk` its locals.  The `memcpy` to a lower address in
`_get_new_phys_blk` is modelled as the forward copy that it is in this build.  A released block
is one that some thread got; not necessarily the releasing one, for main releases what readers
filled.  `_oom_error` ends the process; `_sbrk` returning null while the link is being aborted is
in `LinkEnd`.

### PoolAlloc

One `ALLOCS_STRUCT`.  Sizes are in double words, which is what `_allo_pool_get1` rounds to.  The
recursion of `_ap_fix` into `_allo_pool_get1` is the stack `want`: a caller's size, and on top of
it the size of a list.  `nodes` is what lies in memory at the addresses where lists were stored;
a node disappears with the release of the block it is in, because another thread may get the
block and write to it at once.

### OpenRead

All `OPREAD` threads and main.  A file is its number of pages, whether a part of a page follows,
its kind and whether it is found (`Disk`); a block is `<<file, position>>`.  Thread actions follow
`opreadt2` (`GetNextOpenStruc`, `GetNextFileName`, `OpenFile`, `SignalOpened`, `ReadHeader`,
`ReadOldLength`, `GetNextBuffer`, `ReadBlock`, `SignalFull`, `CloseFile`, `Abort`, `ReadFails`), main's
follow `PASS1_STUFF`, `_open_reading`, `_find_library_file`, `_read_16k_threaded`, the readers of
OLD, STUB and RES files, and `TERMINATE_OPREADS`.

### LibRead

Main and the `LIBREAD` threads.  Symbols, modules and blocks are constants: which module the
dictionary names for a symbol, what each module defines and needs, which blocks it lies in.  Main
may reference the symbols in any order.  The decrement and increment of
`_LS_OS2_BLOCKS_REQUESTED` are a read and a write when `SMP`, one step otherwise.  An entry of the
request array that main has not yet stored reads as any block number or garbage.

### LibTables, LibSearch

`LibTables` has the tables of one library: the bit map of pages at which modules begin
(`InstallModulePage`), the ascending list made of it (`ScanBits`), the modules in each block
(`CountModsPerBlock`), their offsets (`DoModulePtrs`) and the search by page (`BinserModule`), flat
or in blocks.  `LibSearch` is `_process_libraries`.  `tab` is the symbol table: `type`, the lists by
type, `wanted` by library, `number` (a page of the dictionary until `DefineLibSymbols` makes it a
module), `for` (the default of a weak symbol, the substitute of an alias).  What a record of an
object file does to it is an operator each (`ProcessExtrn`, `DoPublic`, `Comdef`, `Wkext`, `Lzext`,
`Alias`); `data` are the symbols that some module read has as a communal, which `DoPublic` does not
let become code; `Unwant` takes a symbol off a library's list, with what the code does to a list the symbol
is off already.  What the linker does next is an action each: `OpenLib`, `NumberModules`, `SelectLibrary`,
`ProcessModule`, then the scans (`ScanExports`, `ScanTurn` over aliased, weak and lazy symbols), of
which each may send it back to the libraries.

### FinalImage

`Move` is a call of `MOVE_EAX_TO_EDX_FINAL`, which puts its bytes to the blocks of their pages
(`Place`), one page at a time (`rest` is what `MOVE_FINAL_TWO` has put off), joins the interval to
`ranges` and, when a page is whole, has `FlushPage` write it.  `FlushAlmostFinal` and `FlushFinal`
are the end of the file, `ReportError` an error found meanwhile, `DeleteExe` and `Abort` what
follows from it.  `phys` is `MYO_PHYS_ADDR`, `position` where Windows has the file.  A write may be
short; `SetFilePointer` (`SeekFails`), `SetEndOfFile`, `CloseHandle` and `DeleteFile` may fail, the last
one unnoticed (phase `kept`).

### LinkEnd

Main, two readers of pass 1 and the map thread.  A thread has a stack of labels, the routine it is
in on top; the actions are the routines of the error path, between the points where another thread
can be seen: the locks, the console, the file, `ExitProcess`.  `plan` is what main has still to do,
`stages` what the map thread has still to print (`Parts` is what a map can have, `WantedParts` what
this one has), `allowed` the gates that are open, `table` the count of users of the symbol table.
With CodeView main gives up its use of that table after the publics and the undefined symbols
(`publics`, `unuse`), before the rest of CodeView's sections (`codeview`), as `EO_CV_ROUTINE` does
(`endsect.asm:359-419`); each of the steps `Writing` may fail, find the disk full or have something to
report.  `_disk_full` then releases the symbols once more, which finds nothing (`minidatac.c:7`).
A `Scenario` says what the map shows and what may fail.

### CvTables, CvSymbols

`CvTables` has `DoSymbolHash`, `SortHashes` and `DoAddressHash` as functions from the symbols of a
section to the words written.  In `CvSymbols`, `OutputSymbol` is `_output_cv_symbol_align` and
`_output_cv_symbol`: the padding (`Padded`), the flushes before and after (`Fitting`, `Spilled`) and
the place that is stored (`OffsetOf`).  `InstallGlobalsym` is the hash of global symbols, `PutPublic`,
`PutGlobal`, `PutStatic` the drivers, `EndSection` the two tables, `HandleIndex` and `FlushIndexes`
the directory.

## 3. Runs

| Run | Question | Result |
|---|---|---|
| `mutex_sem` | Is a `GLOBALSEM` a lock, for five threads? | yes; exclusive, and never forgotten while somebody waits |
| `stream_sem` | Is it a counter between one consumer and three producers? | yes; no unit lost |
| `block_cache` | Do two threads get and release blocks without losing or sharing one? | yes |
| `pool_alloc` | Does a pool with full lists overlap, lose or release anything twice? | no |
| `open_read` | Does main see the files as if it read them itself, and does everything end? | yes, for four links |
| `lib_read` | Is each block of a library that is asked for read once, and each wanted symbol served? | yes, with a thread for each library |
| `lib_smp` | The same on two processors, as far as it holds | each block is read once, into its slot |
| `lib_search` | Does every symbol get what some library has for it, and nothing that nobody asked for? | yes, apart from section 6 |
| `final_image` | Is the file the image, in whatever order it is moved, over whatever was there? | yes, and with `/DELEXECUTABLE` it is gone after an error, unless Windows refuses |
| `link_end` | Does every link end, and tell by its status whether it went well? | it ends; the status tells, apart from section 6 |
| `cv_symbols` | Do the tables lead to every symbol, where it stands? | yes; a symbol longer than a page ends the link, section 6 |
| `lib_lost` | Is a symbol that a library has been asked for looked for there? | no: a finding, section 6 |

The properties:

* `MutexSem`: the inductive invariant `IInv` (the counter counts, there is one token, hence mutual
  exclusion), `NoLostPost` and the refinement `ImplementsLock`.
* `StreamSem`: the refinement `ImplementsCredit`.
* `BlockCache`: `CacheTypeOK` (the table never overflows), `BlocksAccounted` (every block mapped is
  used, cached once or carried by one call), `CallsReturn`, `ImplementsHeap`.
* `PoolAlloc`: `PiecesDisjoint`; `BlocksKept` (a block is in exactly one list while the pool has it,
  and in the end the pool has none); `ListAlive` (the list that the release reads next is not in a
  block released before).
* `OpenRead`: `RingsKept` (the thread does not reuse the `OPEN_STRUCT` main reads from, `OwnSlot`;
  it waits for one only while main has use for it, `KeptByMain`; each buffer is full, being filled,
  being returned or free, `BufferAccount`), `HandlesKept` (each handle has one holder, and none is
  left), `Termination`, and `ReadsInOrder`, the refinement of `SequentialInput`.
* `LibRead`: `RightBlock`, `ReadsRequested` (a thread takes only stored numbers, of blocks nobody
  else reads), `RequestsKept` (the count is exact and no thread sleeps over a request), `ListsKept`
  (one thread at a time on a handle; main's list and the threads' lists agree), `Termination`, and
  `ImplementsFetch`, the refinement of `AbstractFetch`.
* `LibSearch`: `TypeTellsList` (each list has exactly the symbols of its type, once),
  `WantedFromRightModule`, `NothingOverlooked`, `NothingUnneeded` (every module read was read once,
  for a symbol referred to other than weakly, or a stand-in), `StandInsSeenTo`, `TablesRight` (the
  tables of a library against its modules), `SearchEnds`.
* `FinalImage`: `RangesExact`, `PagesKept` (each byte moved is in the block of its page or, rightly
  placed, in the file, and only the last page is kept to the end), `DiskIsRight` (a link without an
  error leaves the image and nothing else).
* `LinkEnd`: `ExitTellsMostFailures` (a status of 0 says that nothing has failed and the map is
  whole), `TableKept` (the count of users does not free the symbol table while main has the image or
  CodeView's publics to write or the map thread symbols to print), `LinkEnds`.
* `CvSymbols`: `PagesHold`, `BufferKept`, `SymbolsFound` (a symbol stands where the tables say, though
  that was worked out before), `TablesLead`, `GlobalsKept`, `DirectoryRight`.

Types are in the named invariants of the modules that check them; every one of these properties is
broken by a mutant of the code's definitions, listed in `PROJECT.json`.

The initial states of `OpenRead` and `LibRead` choose what the link is asked to do: `Commands` is
a set of command lines, `RootSets` a set of sets of symbols.  The four links of `open_read` are
`Wide` (nine files, five of them for one thread, two longer than the ring of buffers), `Late` (a
missing library, one named late, an OLD file that nobody looks into), `Truncated` (an object
file that ends at the end of a page before its module does) and `Tails3` (OLD, STUB and RES files
behind the libraries).  In `lib_read`, libraries A and B need one another; C and D are the pair of
which one has had its turn when it is wanted again.  `LibSearch` chooses a program of `Sound`:
`Usual` (two things that object files say of three symbols, two libraries), `Late` (the second library
is named by a module of the first), `Exports`, `Communal`, `Code` (publics in code of what may be data
elsewhere) and `Shapes` (one library of every small shape, for the tables).  `LinkEnd` chooses a scenario, `CvSymbols` a number of modules and symbols.

## 4. Bounds

* Threads.  The build has `N_R_THREADS = 4`.  A file thread shares nothing with another one, so
  two threads show the dealing, and one of them gets the five files that wrap its rings.  In
  `LibRead` threads share the order semaphore and, when there are more libraries than threads, a
  thread has several libraries: `MCLibReadShared.cfg` has fewer threads than libraries, as four
  threads and five libraries have.
* The proofs of section 7 have none of these bounds: any threads, blocks, sizes of pages and tables,
  any symbols, any order of moves.
* Rings have the real size, four.  Files have up to five whole pages, one more than the ring.
* `mutex_sem` runs with main and the four readers, so up to four sleep at once; `stream_sem` with
  three producers and `MaxGiven = 6` releases, more than can be outstanding at the kernel.
* `PHYS_TABLE_MAX` is 2 in place of 8 and there are three blocks, so the table gets full, and
  empty, with a block in hand.
* `LIST_MAX` is 2 in place of 8 and a pool has at most five blocks: two full lists are stored and a
  third one is begun; with one entry more than the list, a node takes 3 of a page's 6 double
  words, so lists and requests compete for a page.  `SYMMETRY` permutes the blocks; the run has
  invariants only.
* Libraries have two blocks each, with a module that spans both and modules that share one.
* `lib_search` has blocks of four bytes and entries of one, so that tables of one to six modules are
  flat, one block and two.  Three symbols are enough for a weak symbol, its default and a module
  that needs one of them; a library offers one symbol a module.
* `final_image` has pages of four bytes and an image of two pages and a byte: intervals that touch
  at, before and after a page's end, a last page that is partial, files shorter and longer than it.
* `link_end`: main, two readers (one that fails while another reports) and the map thread, with at
  most one message that does not end the link.  The gates of the map are all there.
* `cv_symbols` has pages of 32 bytes and buffers of 80, which come out of step as 4096 and 16384 do
  once a flush is not at the end of a page; symbols of 12, 16, 20, 28 and 44 bytes leave room, eight
  bytes, four, none, or are longer than a page.  The number of hash buckets is that of the code
  (`CV_PRIMES`), and `BucketsFit` evaluates it at the real sizes for up to 100,000 symbols.

`CHECK_DEADLOCK FALSE` stands where the program stops: the link is over or given up (`OpenRead`,
`LibRead`, `LibSearch`, `FinalImage`, `LinkEnd`, `CvSymbols`, `BlockCache`, `PoolAlloc`), or the
bound on releases is reached (`StreamSem`).

## 5. Fairness

A thread that can take a step takes one (weak fairness per thread, and of main): Windows
schedules every ready thread, and between the semaphores both kinds of readers are straight code
and calls that return.  A thread that sleeps on a kernel semaphore which is signalled again and
again is served (strong fairness of `CaptureWait`): the kernel queues waiters.  In `MutexSem` and
`BlockCache` nobody need ever call; only who is inside goes on.  In `StreamSem` and `OpenRead` a
semaphore has one consumer and weak fairness does.  In `LinkEnd` each thread is weakly fair; a lock
once free is not taken for ever by others, because each thread reports finitely often.  `LibSearch`
is sequential: it goes on while it can.  Time is not modelled: `_capture_eax` waits
with an infinite timeout.

## 6. Where the code and its comments differ

One run of the project, `lib_lost`, is expected to find a violation: a module selected for a symbol
that another library then defined keeps its selected bit (`newlibc.c:1728` says "Clear
module-selected bit, count" and clears the count), and a later reference to another symbol of it
returns at `newlibc.c:1599` without listing its library.  The quotes are in `PROJECT.json`.

Others were met in the same modules.  Each has a configuration in this directory with one property,
which `tlc -config <cfg> <module>` finds violated:

| Configuration | Property | What happens |
|---|---|---|
| `MCOpenReadPage.cfg` | `ReadsInOrder` | A resource file of whole pages leaves its empty last block in the ring for the next resource file on the thread (`resource.asm:175` counts blocks from the length and does not drain the file). |
| `MCLibReadSmpCount.cfg` | `CountExact` | The count of outstanding blocks, changed "in one instruction - multithreading" (`newlibc.c:1680`) but without a lock, loses an update on two processors. |
| `MCLibReadShared.cfg` | `ReadsRequested` | With two libraries on a thread, it may take a block number that main has counted and not stored (`newlibc.c:1680-1682`). |
| `MCLibReadStop.cfg` | `OrderServed` | Main releases `LIB_REQUEST_ORDER_SEM`, which it does not own (`pass1.asm:287`); with two threads asleep in it a signal is lost, and the join waits for ever. |
| `MCLibSearchWeak.cfg` | `NothingOverlooked` | A symbol that is weak and not referred to when a library defines it, and referred to later, is not looked for again, though "Weak extrn, can still be linked to a library in case of hard extrn later" (`newlibc.c:1384`). |
| `MCLibSearchCode.cfg` | `TypeTellsList` | A module read for a symbol that a library was asked for has it as a public in a code segment, and another module had it as a communal: `DO_PUBLIC` takes it off the library's list (`dopublic.asm:112`) before it looks at the segment (`dopublic.asm:309-330`), and then gives up.  "ALWAYS AN ERROR IF NOT IN A LIBRARY" (`dopublic.asm:452-453`): in a library it is a warning, and the symbol keeps the type of a list it is not in.  The next time it is taken off, the whole list is cut (`addtoext.asm:622-637`). |
| `MCLibSearchPage.cfg` | `WantedFromRightModule` | `_lib_symbol` gives a weak symbol that is not in use, or on its stand-in, the page of its module (`newlibc.c:1367`); what then makes it a number goes through the external and weak lists, "THESE JUST GET LIB_MODULE UPDATED" (`newlibc.c:848`), and it is on neither. Called weak again, then referred to strongly, it asks for the module whose number is the page. |
| `MCLinkEndStatus.cfg` | `ExitTellsFailure` | A write of the executable fails; main closes the map without `PUT_DATA_SEM`, the map thread's write then fails too, and as the second to abort it ends the process with an `_ERR_COUNT` of 0. A console that fails ends it by `__exit(0)` (`dosioc.c:117`). `os2link/launch.bat:4` tests the status. |
| `MCLinkEndReenter.cfg` | `ErrorsNonReentrant` | "ERRORS ARE NON-REENTRANT": a thread that writes a message to the map, whose write fails, reports again while it holds `ERROR_SEM`, and waits for itself; another thread may hold `PUT_DATA_SEM` and wait for `ERROR_SEM`. |
| `MCCvSymbolsLong.cfg` | `NeverFaults` | A symbol as long as a page, or longer, asks `memset` for a negative number of bytes (`cvhashesc.c:171`), which line 175 says is fixed. |

The passing runs of the same modules are set where these do not bite (tail files that do not share a
thread in that way, a thread for each library, one processor, weak symbols that are referred to, no
code for what is a communal elsewhere where libraries are searched for communals,
`ExitTellsMostFailures` and `LinkEnds` with the exceptions their comments name, `LinkEnds` in
scenarios where the map's disk fails only while main has nothing to report; `cv_symbols` has symbols
longer than a page and ends at the fault), so that the rest is checked in full.

Other things seen while reading, without a run:

* `OpenRead`: nothing releases `OPENFILE_AVAIL_SEM` for RES, STUB and OLD files, so a fifth such file
  on one thread waits for ever (`GivesBack`); an OLD file that a PE link never opens keeps the first
  place in its thread's rings; the non-resident names that a thread delivers are not taken,
  because `_n_nonres_table` returns a variable that nothing sets.
* `LibRead`: a library dropped with a block outstanding and listed again may be dealt to a second
  thread while the first still reads with its handle (`OneReader`, with three libraries).
* `FinalImage`: `_doswrite` adds the `BOOL` of `WriteFile` to `MYO_PHYS_ADDR` (`dosioc.c:167`); with
  pages longer than a byte this never makes the position believed equal to one that is wanted and
  wrong, which `DiskIsRight` shows.  `_delete_exe` does not look at the result of `DeleteFile`
  (`dosioc.c:154`), so that an executable that is in use or read-only stays, and nobody is told.  The arguments of the `memset` in `GET_OUTPUT_DEVICE` are swapped
  (`StalePhys`).  `_delete_exe` after an error that comes before the file is opened deletes the
  previous executable.
* `LinkEnd`: `XCNOTIFY` holds `_ABORTER_SEM` while it writes to the console, whose failure wants
  it; a decrement of a use count that is lost only keeps the table; the map thread is created
  before `ADJUST_FLAGS` raises the counts (`initmap.asm:112`), and waits at a gate in time.  The map
  thread's `_disk_full` sets `ABORTING` before it reports; a warning of main that comes between the
  two ends the process by `_abort`, with an `_ERR_COUNT` that is still 0, and so a status of 0.  TLC
  shows it in `Links({"map", "map full"}, 1)`, which is why `StatusTellsFailure` has a hypothesis.
* `CvSymbols`: "MUST LEAVE 0 OR AT LEAST 8 BYTES" stands above a test for more than eight; the lengths
  of both names are read through the same pointer (`instgsymc.c:57`), so that names hardly ever match
  (`OddNames`) and constants and types are kept twice; two symbols of one such name but of different
  kinds or places are taken for one, and the second is missing from the global list; an entry of the directory is declared as 10
  bytes and written as 12; the last block of `_do_address_hash` is not released; the directory's place
  is put in the header before the alignment, which by then changes nothing.

## 7. Proofs

| Theorem | Module | States |
|---|---|---|
| `TokenKept`, `Exclusion`, `PostsKept`, `ImplementsLockSafety` | `SemaphoreProofs` | `IInv`, mutual exclusion, `NoLostPost`, the safety part of `ImplementsLock` |
| `CacheTypeCorrect`, `CacheSound`, `CacheIsHeap` | `SemaphoreProofs` | `CacheTypeOK`, `BlocksAccounted`, `ImplementsHeap` |
| `RingsHold`, `BuffersAccounted`, `SlotsOwned`, `InputInOrder`, `HandlesHeld` | `OpenReadProofs` | `RingsKept`, its conjuncts `BufferAccount` and `OwnSlot` under weaker hypotheses, the safety part of `ReadsInOrder`, `HandlesKept` |
| `StreamPostsKept`, `ImplementsCreditSafety` | `SemaphoreProofs` | no signal is lost; the safety part of `ImplementsCredit` |
| `NoOverlap`, `NextListAlive`, `EveryBlockKept` | `PoolAllocProofs` | `PiecesDisjoint`, `ListAlive`, `BlocksKept` |
| `RangesAlwaysExact`, `EveryByteKept`, `DiskAlwaysRight` | `FinalImageProofs` | `RangesExact`, `PagesKept`, `DiskIsRight` |
| `BufferNeverOverrun`, `PagesAlwaysHold`, `SymbolsAlwaysFound`, `GlobalsAlwaysKept`, `DirectoryAlwaysRight` | `CvSymbolsProofs` | `BufferKept`, `PagesHold`, `SymbolsFound`, `GlobalsKept`, `DirectoryRight` |
| `ListsAlwaysAgree`, `EnoughThreads`, `NumbersTakenRight`, `BlocksFoundRight`, `OneReaderEach`, `RequestsReach`, `FewLibraries`, `ImplementsFetchSafety`, `FewLibrariesFetch` | `LibReadProofs` | `ListsAgree`, `ReadsRequested`, `RightBlock`, `ListsKept`, `RequestsKept`, the safety part of `ImplementsFetch` |
| `AlwaysSound`, `AlwaysTypeTellsList`, `AlwaysStandInsSeenTo` | `LibSearchProofs` | the inductive invariant `Inv`, `TypeTellsList`, `StandInsSeenTo` |
| `AlwaysTablesRight` | `LibSearchProofs` | `TablesRight` |
| `AlwaysWantedFromRightModule`, `AlwaysNothingOverlooked` | `LibSearchProofs` | `WantedFromRightModule`, `NothingOverlooked` |
| `TableOutlivesUsers`, `StatusTellsFailure` | `LinkEndProofs` | `TableKept`, `ExitTellsMostFailures` |

*The lock.*  `MutualExclusion` is not inductive: nothing in it keeps a second signal from the
kernel object.  `IInv` adds that the counter is one less than the number of threads inside
(`CounterCounts`) and that there is one token, in the counter, with a thread or at the kernel
(`OneToken`).  The counting needs that the threads are finitely many (`ThreadsAssumption`) and
the library's facts on cardinality.  `ImplementsLockSafety` maps each instruction to a step of
`AbstractLock` or to none; that the `CHOOSE` of the mapping names the owner rests on `OneToken`.

*The cache.*  `CInv` is built on the lock: `StepsOfLock` shows that every step of the cache is a
step of `MutexSem` or leaves it alone, so `IInv` is preserved without being proved again.  On top
of it `Control` ties the place in the function to the place in the lock, `Fresh` says that the
count a thread has read is still the count when it writes, which is what the lock is for, and
`Hands` says when a call carries a block.  With them `BlocksAccounted` is inductive, and each step
maps to a get, a put or nothing of `AbstractHeap`.  Assumed: `None` is no thread and no block, and
the table has at least one place.

*The counter.*  A stream semaphore has many producers and one consumer, so a maximum of one at the
kernel is enough only if no two signals are on their way.  `SInv` says that a signal, sent or owed
by a producer between its `LOCK DEC` and its call, is there only for a consumer that sleeps or is
about to, and then there is just one; the units of `AbstractCredit` are the counter's and that one.
Every instruction maps to a give, a take or nothing.

*The input threads.*  None of the properties of `OpenRead` is inductive, as they speak of one moment
and the threads run ahead by up to four files and four blocks.  The invariant has parts, each
inductive with those before it.

* `BInv` counts: the units in the semaphores of a thread against its program counter, main's, and
  the places of its four buffers.  `BufferAccount` follows, for all files and commands.
* `DInv` says in which order things were dealt.  It speaks of four values that the code does not
  keep and that the invariant quantifies over: `d`, the files in the order in which `LINK_TO_THREAD`
  dealt them, so that the k-th file of thread t is `d[At(t, k)]`; `m`, how many of them main has
  behind it; `p[t]`, how many of those are thread t's; `cum[t][k]`, how many blocks the
  first k files of t deliver.
* `SInv` puts every file that a thread has opened and main has not released in the `OPEN_STRUCT` of its
  number modulo four, and the units of the semaphores in step with that; `OwnSlot` follows.
* `CInv` puts block n of the k-th file in the buffer of its number modulo four; the block that main
  finds is then the one it is to see next.
* `WInv` counts the units of `OPENFILE_AVAIL_SEM` that the tail uses up, since nothing gives them back.
* `HInv` says who holds each handle, and, once main has raised the flag, that a thread
  which is gone has closed its own.

`InputInOrder` is the refinement: with the block main has taken and the list of files it has before
it, each step of main is a step of `SequentialInput` or none, and those of the
threads are none, but for the failing read that ends the process.  Two hypotheses stand
in the theorems where the code has none.  `TailsTaken`: main reads all that the thread
delivers of each tail file but the last, and of an OLD file that it reads no non-resident names are delivered.  Without
it `InputInOrder` is false, as the run `MCOpenReadPage.cfg` shows, and section 6 tells of the two
other ways in which a tail file is left in the rings.  For object files and libraries nothing is
asked: `SlotsOwned` has them without a hypothesis, and the tail under `TailsTaken`.  `TailsFew`, for `KeptByMain`
alone: a thread has at most three tail files, since with a fourth it has used up the units of
`OPENFILE_AVAIL_SEM` and waits for a structure that nobody gives back (section 6).  The commands of `MCOpenRead.cfg` meet both.  `HandlesHeld` needs neither: even a
file that main never asks for is closed by its thread or by the end of the link.  The module's
`OpenReadAssumption` gives what the command line and the files provide: the kinds of the files of each
list, that a file named twice has two entries, that a library has a dictionary, and a number of
threads of which the code takes the remainder with a mask.

*The library readers.*  None of the properties of `LibRead` is inductive.  The invariant has six
parts, each inductive with those before it.

* `LInv`: where main is tells which library it works on, which libraries are listed and which have
  modules selected; the lists of the threads are the request list dealt out (`Without`).  It needs no
  hypothesis, so neither does `ListsAlwaysAgree`.  `DInv` says to which thread the i-th library of
  the list was dealt, and gives `EnoughThreads`.
* `WInv` counts modules: `_LS_SELECTED_MODULES` is the number of selected modules not parsed yet, and
  the one in its turn; each of those has a symbol on its library's list.
* `BInv` counts blocks: a block has as many modules left as are not parsed or in work; what was
  requested is still of use to a selected module; its file is open.
* `QInv` is what threads and main share without a lock: the numbers between the thread's pointer into
  the request array and main's are of different blocks that are outstanding, none of them in a
  thread's hands, and a thread has no more units than there are such numbers.  It leaves no
  thread a closed handle or memory not written yet, so `_lerr_abort` is never reached.
* `CInv`, for one processor, makes the inequalities equalities: the count of outstanding
  blocks is the numbers in the array, the one being read and the one about to be stored; the
  thread of a listed library has, or is about to get, a unit for each; no block is lost.

Three hypotheses stand in the theorems where the code has none, and section 6 shows what happens
without each.  `OwnThread`, no thread has two listed libraries: with two, a thread takes a number
that main has not stored (`MCLibReadShared.cfg`).  `OneDefiner`, no symbol is defined by two
selected modules: otherwise a library leaves the list with blocks outstanding, is listed again and
may be dealt to a second thread while the first one still reads.  `ListedEmpty`, nothing is counted
outstanding of a library that is listed: on two processors a decrement may be lost
(`MCLibReadSmpCount.cfg`); with one, `RequestsReach` proves it instead of asking for it.
The two libraries of `lib_smp`, and A and B of `lib_read`, meet all three; C and D of `lib_read` do
not meet `OneDefiner`, and TLC alone speaks of them.  `FewLibraries` and `FewLibrariesFetch` have
hypotheses on the constants only.  `ImplementsFetchSafety` maps `_request_block` on a block whose
bit is not set to an `Ask`, the store of a block's address to its `Fetch`, the release of a block
with its last module to a `Free`, `LIBS_DONE` to the end, and everything else to no step.

The proof that the lists agree found that `Scanned` had been written as a `CASE` whose arms
overlap once the libraries are done; the code tests `LIBS_DONE` first, and now so does the module.

*The search in libraries.*  What a module does to the symbol table is a fold over its records, what
a dictionary does a fold over its entries.  `Recursion` proves once, from the library's induction over
the naturals and with a set in the place of a predicate, that a function defined by recursion takes the values its steps
give; the lemmas after it bring that to `InOrder`, operator by operator.  Each operator on the table has a
lemma `...Moves`: which symbol it changes, from what types to what types, and that the table stays
`Sound`.  `Sound` is `TypeTellsList` and what it needs to be kept: the request list has each library
with modules selected, once; a symbol of a library has one; the symbol a stand-in stands for
is a symbol.  It is stated with a set of symbols that are out of the lists for the moment, for the code
takes a symbol off one list before it puts it on another.  `Inv` adds what the passes over the request list count on,
and `Recorded`: where libraries are not searched for communals, every symbol of `data` is defined or a
communal, so that code for it is refused before any list is touched.  Where they are, a symbol that was a
communal may be on a library's list, and the six theorems of this module have the hypothesis
`NoClash`: no module of the program has as a public in code what another one has as a communal.
Without it `AlwaysTypeTellsList` is false (`MCLibSearchCode.cfg`).

`StandInv` adds `Seen`: what is referenced has no type of what is not, what stands for another is
referenced.  Neither holds inside a module, where a symbol may be weak only possibly; `Midway` is what holds
there.  `Gone` says which types are used up where main is: the scans over aliased, weak and lazy symbols come in
that order, and what a later one does brings nothing back that an earlier one saw to, unless it
goes back to the libraries.  `AlwaysStandInsSeenTo` has the hypothesis `WellSaid` about the records: a
WKEXT or LZEXT is about an external of its own module, as the format has it; one called lazy is not referred to
softly; and an alias in a library's module is the same wherever it is made.  Without the first,
a symbol that no EXTDEF named would be left possibly weak; without the last, an alias may come
back when the scan has passed.  Every program of `MCLibSearch` is `WellSaid`.

`AlwaysTablesRight` is about what the functions of `LibTables` compute, for a library of any size.
`ModulesAre` proves that the map of bits gives back the pages it was given, in order.  `FlatFinds` and
`ChoppedFinds` take the two shapes of the table of offsets: the halving finds the page in the block the search over
blocks chooses, and a number splits into the block and the place in it that it was made of.  For the counts,
`EndsCounted` goes through the ends of modules in order: each adds one to the blocks between the end
before it and itself, so that block `b` has counted the modules up to that end that touch it
(`Touching`, `OneMoreTouching`); a bijection brings those to the pages of the property.  The
hypothesis `WellLaid` is about the file: modules come before the dictionary, and the header ends in
the first block, for the code takes the end of the header off the count of that block alone.
`Tabled` says that every library opened keeps the table it was given.

`AlwaysWantedFromRightModule` rests on those tables.  `Placed` follows a symbol of a library: while the
dictionary of that library is gone through, its `number` is the page the dictionary gives it, and
ever after the number of that page, which by `PageFound` leads back to it.  `DefineFinds` says what a
dictionary leaves a symbol: as it was, or of this library and of a type that can be made a number.
`Apart` says that no library is opened twice, without which a page could be made a number twice; it needs
`OneEach`, a list of libraries names each once, as `LIB_LIST` does (`hndllibs.asm:194`).  The second hypothesis is about
the run, `[]NoWeakPassedOver`: no symbol of the library being opened is weak and on its stand-in or not in
use.  The code leaves the page of such a symbol as it is, and `MCLibSearchPage.cfg` shows what comes
of it.  In every program of the run `lib_search` both hold.

`AlwaysNothingOverlooked` follows what a dictionary says.  `Told` is what a symbol of a dictionary gone
through is ever after: not undefined or an external that waits for no library, and, while weak or
lazy, with the library it can be had from.  `EntryTells` and `DefineTells` show that a dictionary tells
each of its symbols, `ReadModuleFirmed` that no record of a module makes one forget it, `TurnTells`
that no fallback on a stand-in does.  `OverInv` has three parts: every symbol of the dictionaries gone through
is `Told`, or is an external of the library whose modules are just being numbered; between modules no type is
`Adrift` or only possibly weak; and nothing is on the request list once the scans for stand-ins
have begun.  So at the end an external of an opened library could only be one wanted from a library
that is not on the list.  The theorem has two hypotheses; section 6 shows what the code does without each.  `Firm`:
a module's fixups refer to each symbol it calls weak or lazy, other than softly or not at all;
otherwise the symbol is defined while `Adrift` and its library forgotten (`MCLibSearchWeak.cfg`).
`[]WantedListed`: a library with something wanted from it is on the request list; otherwise it is
never read (the finding of `lib_lost`).  Both hold in every program of `lib_search`.

*The pool.*  `PInv` adds to `PiecesDisjoint` that what the structure takes to be free, the rest of
the block and the left-over piece, lies behind the pieces of its block, and that the two are in
different blocks.  During a release these are out of date; nothing is requested until the
structure has been cleared.  `PoolAssumption` asks that requests fit a block.  For the other two
theorems `KInv` puts the chain of lists, which the code has only as pointers in the blocks
themselves, into a sequence: the lists stored, newest first, then the one in the structure.  Each
block owned is in one list, counted once; a list lies in a block that no list before it holds, so
that giving back the blocks of a list takes none away that the release has still to read.

*The executable.*  `RangesExact` does not keep a byte from being moved twice.  `IInv` adds that what
is left to be moved, the part of a move that is put off and the ranges are apart (`PlacesOK`), that
range ends are integers (`RangesInt`), and that the ranges are empty before the first move
(`NotBegun`).  The lemma `JoinedExact` carries the argument: an interval that overlaps no range has
at most one neighbour on each side, and joining it to those keeps the ranges apart and covers just
what they covered and the interval.  `PageSize`, `Size` and the order of moves are arbitrary.  That
pass 2 moves each byte once, and leaves no hole, is assumed by the module (`left`).  `FInv` adds
where the bytes of each page are, with `PagesKept` and `DiskIsRight` as its outcome: a page without
a block was not begun or is in the file up to what was moved, a page with one has every byte moved
in it, and what is believed of the file position is right whenever a seek is left out.

*The buffer of symbols.*  `BufferKept` is inductive with types alone (`BInv`), because each copy
tests the room that is left: the proof shows that a flush leaves room for any symbol that fits, so
the `Slack` between limit and end is never needed.  `SymbolsFit` assumes that a symbol fits a block,
which the lengths of records see to.

*The places of symbols.*  The lemma `StoredPlaces` says all there is to say of the buffer from
outside: storing a record adds it to the records of the section (`Recs`, in the file and in the buffer) at the section's end
(`End`), and a flush changes neither.  `SInv` adds to `BInv` that records follow each other without a gap, that
`CV_PAGE_BYTES` is the remainder of `End`, except after a symbol as long as a page, when no other can
follow, and that what the tables were told is among the records.  `DInv` ties `BYTES_SO_FAR`,
`CV_SECTION_OFFSET` and `FINAL_HIGH_WATER` to the end of the last entry, and `WInv` says that the words in
the blocks of the directory are its header and those of the entries (`AppendedWords`: whether or not an
entry is divided).  These theorems have the
hypothesis `TablesSized`, that the tables of a list of symbols have a natural number of bytes: their size is computed by
folds, which the provers cannot evaluate, and a place in the second section is a sum with the size of
the first one's tables.  `GInv`, for the global list, stands alone; the hypothesis `OddNamesOnce` of
`GlobalsAlwaysKept` is the case in which the code leaves a symbol out (section 6).

*The end of a link.*  For `TableKept`, `TInv` counts: the uses are at least one for main, until it has
written CodeView's publics (for ever without CodeView), and one for each part to come that shows symbols.  What makes it
inductive is the order of main's plan, where the adjustment of the counts comes before any gate is
opened.  For `ExitTellsMostFailures`, `EInv` says what holds as long as `_ERR_COUNT` is 0: no thread
is in `__exit`, or in `_abort` past its test, unless it is main that leaves; the one thread that
has found the map lost keeps `PUT_DATA_SEM` until it has counted an error; a thread that failed does
not come back.  Status 0 then comes from `Leave` alone, where main has no reader and no map thread
beside it.  The theorem has one hypothesis, `"map full" \in s.fails => s.messages = 0`; section 6
says what happens without it.

Only model-checked: of `LibSearch`, `NothingUnneeded`; of `CvSymbols`, `TablesLead`; and all liveness (`CallsReturn`, `Termination`, the fairness in `ReadsInOrder`,
`SearchEnds`, `LinkEnds`, and the fairness of the abstract specifications), which is outside what TLAPS
does here.  What the functions of `CvTables` compute is checked over bounded inputs (`TablesLead`).

## 8. Plan

The state machines of the concurrent core, of symbol resolution, of output, of the end of a link and
of the CodeView sections are here.  What is left, in this order:

1. `LdataAlloc` (`alloc/ldatac.c`) and the record reader (`obj_mod.asm`): a record assembled over
   block boundaries equals the bytes of the file, composed with `SequentialInput`.
2. COMDATs and imports in `LibSearch`.

## 9. Not modelled

The repository is in the middle of a move from assembly to C.  Of the 36,900 lines of its C files
some 10,600 are code; most of the largest (`cmdsubsc.c`, `fixupp2c.c`, `lnkinitc.c`, `mscmdlinc.c`,
`macrosc.c`, `recordsc.c`, `cvsymbolc.c`, `cvlin4c.c`, `farinstc.c`) are the text of the assembly in
a comment or under `#if 0`, or tables of constants, and what is built is the assembly next to them.
The modules follow what is built, so that of many of them the lines are in `.asm` files.

* Record reader: in assembly, without state that outlives a record.
* Fixups, segment combination, executable layout, compaction of CodeView types: long sequential
  transformations of data by value; their errors are of formats, which a state machine over abstract
  blocks does not see.
* Command line, definition files, unmangler: parsers.
* Handle recovery: reached only when Windows reports that a process has too many files open, which
  32-bit Windows does not.  `REOPEN_OUTPUT` is for overlays.
* Overlays are conditioned out of this build; the application loader runs in the linked program; DLL
  glue and build files have no state.
* Inside the modelled components: the 4K segments and large segments (single Windows calls), the
  oversize path of the two CodeView type pools, `_close_semaphore`, the search path (a file is found
  or not), file times, the hash of a dictionary, COMDATs, imports, warnings about ambiguous symbols,
  Ctrl-C, what the map says, the use counts of tables other than the symbol table, and the unthreaded
  build of library input.
