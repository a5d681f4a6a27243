----------------------------- MODULE FinalImage ------------------------------
(***************************************************************************)
(* The executable on its way to the disk: exe/movefina.asm, flusfina.asm   *)
(* and initrang.asm on top of ntio/openoutc.c, doswritec.c and dosioc.c.   *)
(*                                                                         *)
(* Pass 2 moves the bytes of the image to their places in any order.  A    *)
(* page under construction has a block in FINAL_TABLE; FINAL_RANGES keeps  *)
(* the intervals moved so far, joined where they touch, and a page is      *)
(* written as soon as one interval holds all of it.  The file is written   *)
(* at positions: a seek is left out when MYO_PHYS_ADDR says that the file  *)
(* pointer is there, and _doswrite keeps MYO_PHYS_ADDR wrongly: it adds    *)
(* what WriteFile RETURNED, 1, and not what it has written.                *)
(*                                                                         *)
(* A byte of the image is named by its address, so that the file is right  *)
(* when each address holds itself.  Both tables are sorted arrays in the   *)
(* code and are kept here as a function and a set.                         *)
(***************************************************************************)
EXTENDS Integers, FiniteSets

CONSTANTS
  PageSize,        \* PAGE_SIZE, 16K
  Size,            \* length of the image
  OldSizes,        \* lengths that the file to be overwritten may have
  StalePhys,       \* what an earlier use may have left in MYO_PHYS_ADDR
  DeleteOnError    \* _DELETE_EXE_ON_ERROR as the command line has set it

(* GET_OUTPUT_DEVICE has the arguments of memset swapped and clears nothing. *)
(* The earlier uses of a slot wrote in sequence and counted 1 for a write.   *)
ASSUME FinalAssumption ==
  /\ PageSize \in Nat \ {0, 1}
  /\ Size \in Nat \ {0}
  /\ OldSizes \subseteq Nat
  /\ StalePhys \subseteq 0 .. PageSize - 1
  /\ DeleteOnError \in BOOLEAN

Old  == -1      \* a byte of the file that was there before
Junk == -2      \* a byte of a block, or of the disk, that nobody has set

Interval(from, to) == from .. to - 1
Page(a) == a \div PageSize

VARIABLES
  left,         \* addresses whose bytes pass 2 has yet to move
  rest,         \* the part of a move that MOVE_FINAL_TWO has put off
  table,        \* FINAL_TABLE: page -> contents of its block
  ranges,       \* FINAL_RANGES: pairs <<from, to>>
  highWater,    \* FINAL_HIGH_WATER
  due,          \* the page that FLUSH_EDX is to write, if any
  phys,         \* MYO_PHYS_ADDR
  position,     \* where the file pointer is
  handle,       \* "none", "open", "closed", or "lost": CloseHandle failed
  file,         \* contents of the file; NoFile once deleted
  reported,     \* _ERR_COUNT # 0
  phase         \* "kept": the process has ended, and DeleteFile has failed

placing == <<left, rest, ranges, highWater>>
device  == <<phys, position, handle, file>>
vars    == <<left, rest, table, ranges, highWater, due,
             phys, position, handle, file, reported, phase>>

NoFile == [a \in {-1} |-> Junk]
NoPage == -1
Nothing == <<0, 0>>

TypeOK ==
  /\ left \subseteq 0 .. Size - 1
  /\ rest \in (0 .. Size) \X (0 .. Size)
  /\ DOMAIN table \subseteq Nat
  /\ ranges \subseteq (0 .. Size) \X (0 .. Size)
  /\ highWater \in 0 .. Size
  /\ due \in DOMAIN table \cup {NoPage}
  /\ {phys, position} \subseteq Nat
  /\ handle \in {"none", "open", "closed", "lost"}
  /\ phase \in {"pass1", "build", "last", "seek", "failed", "done", "exited", "kept"}
  /\ reported \in BOOLEAN

Init ==
  /\ left = 0 .. Size - 1 /\ rest = Nothing
  /\ table = <<>> /\ ranges = {} /\ highWater = 0 /\ due = NoPage
  /\ phys \in StalePhys /\ position = 0 /\ handle = "none"
  /\ file \in {[a \in Interval(0, n) |-> Old] : n \in OldSizes}
  /\ reported = FALSE
  /\ phase = "pass1"

---------------------------------------------------------------------------
(* Opening and placing *)

(* _open_output: OPEN_ALWAYS, what was in the file stays.  Also             *)
(* INIT_FINAL_RANGES, which makes both tables empty.                        *)
OpenOutput ==
  /\ phase = "pass1"
  /\ phase' = "build" /\ handle' = "open" /\ position' = 0
  /\ table' = <<>> /\ ranges' = {} /\ highWater' = 0
  /\ UNCHANGED <<left, rest, due, phys, file, reported>>

(* CANT_CREATE: the message, and _abort. *)
CantCreate ==
  /\ phase = "pass1"
  /\ phase' = "failed" /\ reported' = TRUE
  /\ UNCHANGED <<left, rest, table, ranges, highWater, due, device>>

(* An error that does not stop the link, an undefined symbol say. *)
ReportError ==
  /\ phase \in {"pass1", "build"}
  /\ ~reported
  /\ reported' = TRUE
  /\ UNCHANGED <<left, rest, table, ranges, highWater, due, device, phase>>

(* Pass 2 hands over the bytes at an interval of addresses, each once. *)
Move ==
  /\ phase = "build" /\ rest = Nothing /\ due = NoPage
  /\ \E from \in left, n \in 1 .. Size :
       /\ Interval(from, from + n) \subseteq left
       /\ left' = left \ Interval(from, from + n)
       /\ rest' = <<from, from + n>>
       /\ highWater' = IF from + n > highWater THEN from + n ELSE highWater
  /\ UNCHANGED <<table, ranges, due, device, reported, phase>>

(* Fault: the interval is only joined to the one before it. *)
JoinedBefore(from, to) ==
  LET before == {r \in ranges : r[2] = from}
  IN  (ranges \ before) \cup
        {<<IF before = {} THEN from ELSE (CHOOSE r \in before : TRUE)[1], to>>}

(* The interval put among the ranges, joined with those that it touches. *)
Joined(from, to) ==
  LET before == {r \in ranges : r[2] = from}
      after  == {r \in ranges : r[1] = to}
  IN  (ranges \ (before \cup after)) \cup
        {<<IF before = {} THEN from ELSE (CHOOSE r \in before : TRUE)[1],
           IF after = {} THEN to ELSE (CHOOSE r \in after : TRUE)[2]>>}

(* Fault: the end alone decides, the range may begin inside the page. *)
EndReached(page, r) == r[2] \div PageSize > page

(* "OK, DID WE COMPLETE A PAGE?"  The range goes beyond the page, and does  *)
(* not begin inside it: the byte before its beginning is not of the page.   *)
Completes(page, r) ==
  /\ r[2] \div PageSize > page
  /\ r[1] = 0 \/ (r[1] - 1) \div PageSize # page

(* The contents of the block of a page; a new block is not cleared. *)
Block(page) ==
  IF page \in DOMAIN table THEN table[page]
  ELSE [i \in 0 .. PageSize - 1 |-> Junk]

(* One pass of MOVE_EAX_TO_EDX_FINAL: what fits the page of the first       *)
(* address goes to its block, the interval among the ranges, and the page   *)
(* is due if that completes it.  MOVE_FINAL_TWO keeps the rest.             *)
Place ==
  /\ phase = "build" /\ rest # Nothing /\ due = NoPage
  /\ LET from == rest[1]
         page == Page(from)
         end  == (page + 1) * PageSize
         to   == IF rest[2] > end THEN end ELSE rest[2]
         now  == Joined(from, to)
     IN  /\ rest' = IF to = rest[2] THEN Nothing ELSE <<to, rest[2]>>
         /\ table' = [p \in DOMAIN table \cup {page} |->
              IF p = page
              THEN [i \in 0 .. PageSize - 1 |->
                      IF page * PageSize + i \in Interval(from, to)
                      THEN page * PageSize + i ELSE Block(page)[i]]
              ELSE table[p]]
         /\ ranges' = now
         /\ due' = IF \E r \in now : from \in Interval(r[1], r[2]) /\ Completes(page, r)
                   THEN page ELSE NoPage
  /\ UNCHANGED <<left, highWater, device, reported, phase>>

---------------------------------------------------------------------------
(* Writing at a position *)

(* F_SEEK_FIRST: SetFilePointer, unless MYO_PHYS_ADDR says we are there. *)
Seek(despot) == IF despot # phys THEN despot ELSE position

(* SetFilePointer fails, when MYO_PHYS_ADDR has the new place already:       *)
(* _dos_fail_move gives the link up, and nothing is written.                 *)
SeekFails(despot) ==
  /\ despot # phys
  /\ phys' = despot
  /\ phase' = "failed" /\ reported' = TRUE
  /\ UNCHANGED <<placing, position, handle, file>>

(* The file after n bytes written at the file pointer. *)
Written(at, contents, n) ==
  [a \in DOMAIN file \cup (IF n = 0 THEN {} ELSE Interval(0, at + n)) |->
     IF a \in Interval(at, at + n) THEN contents[a - at]
     ELSE IF a \in DOMAIN file THEN file[a] ELSE Junk]

(* Fault: the count of what was asked for is not looked at. *)
WriteIsAccepted(asked, n) == n > 0 \/ asked = 0

(* WriteFile succeeds and the count is right; else it is _dos_fail_write, or *)
(* _disk_full, and either gives the link up.                                 *)
WriteIsGood(asked, n) == asked = n

(* _do_doswrite_release: seek, write, and the block goes back.  MYO_PHYS_ADDR *)
(* is the position sought plus the TRUE that WriteFile returned.              *)
WriteAt(page, bytes, next) ==
  /\ table' = [p \in DOMAIN table \ {page} |-> table[p]]
  /\ \/ SeekFails(page * PageSize)
     \/ \E n \in 0 .. bytes :
          LET at == Seek(page * PageSize) IN
          /\ file' = Written(at, table[page], n)
          /\ position' = at + n
          /\ phys' = page * PageSize + (IF n = 0 THEN 0 ELSE 1)
          /\ IF WriteIsGood(bytes, n)
             THEN phase' = next /\ UNCHANGED reported
             ELSE phase' = "failed" /\ reported' = TRUE
          /\ UNCHANGED <<placing, handle>>

(* FLUSH_EDX: a page that is complete is written and leaves the table. *)
FlushPage ==
  /\ phase = "build" /\ due # NoPage
  /\ due' = NoPage
  /\ WriteAt(due, PageSize, "build")

(* FLUSH_ALMOST_FINAL: the last page, as far as the first range goes. *)
FlushAlmostFinal ==
  /\ phase = "build" /\ left = {} /\ rest = Nothing /\ due = NoPage
  /\ LET first == CHOOSE r \in ranges : \A s \in ranges : r[1] <= s[1]
         bytes == first[2] % PageSize
     IN  IF ranges = {} \/ bytes = 0
         THEN phase' = "last" /\ UNCHANGED <<placing, table, device, reported>>
         ELSE WriteAt(CHOOSE p \in DOMAIN table : \A q \in DOMAIN table : p <= q,
                      bytes, "last")
  /\ UNCHANGED due

(* FLUSH_FINAL: seek to the high water mark, cut the file there and close.  *)
(* The handle is forgotten before it is closed.                             *)
FlushFinal ==
  /\ phase = "last"
  /\ \/ SeekFails(highWater)
     \/ LET at == Seek(highWater) IN
        /\ position' = at /\ phys' = highWater
        /\ \/ /\ file' = [a \in Interval(0, at) |-> IF a \in DOMAIN file THEN file[a] ELSE Junk]
              /\ \/ handle' = "closed" /\ phase' = "done" /\ UNCHANGED reported
                 \/ handle' = "lost" /\ phase' = "failed" /\ reported' = TRUE
           \/ /\ phase' = "failed" /\ reported' = TRUE
              /\ UNCHANGED <<file, handle>>
        /\ UNCHANGED placing
  /\ UNCHANGED <<table, due>>

---------------------------------------------------------------------------
(* The end *)

(* _delete_exe: close the handle if there is one, then DeleteFile, whose     *)
(* result nobody looks at: the file may be in use or read-only.  A close     *)
(* that fails comes back to _abort with the flag cleared.                    *)
DeleteExe ==
  \/ handle = "open" /\ handle' = "lost" /\ phase' = "exited" /\ UNCHANGED file
  \/ /\ handle' = IF handle = "open" THEN "closed" ELSE handle
     /\ \/ file' = NoFile /\ phase' = "exited"
        \/ phase' = "kept" /\ UNCHANGED file

(* _abort: the end of every link, good or bad. *)
Abort ==
  /\ phase \in {"failed", "done"}
  /\ IF reported /\ DeleteOnError
     THEN DeleteExe
     ELSE phase' = "exited" /\ UNCHANGED <<handle, file>>
  /\ UNCHANGED <<placing, table, due, phys, position, reported>>

Next ==
  \/ OpenOutput \/ CantCreate \/ ReportError
  \/ Move \/ Place \/ FlushPage \/ FlushAlmostFinal \/ FlushFinal
  \/ Abort

Spec == Init /\ [][Next]_vars

---------------------------------------------------------------------------
(* Properties *)

Moved == (0 .. Size - 1) \ (left \cup Interval(rest[1], rest[2]))

(* The ranges are what has been moved: no address twice, none missing, and  *)
(* no two ranges that touch, or a page between them would never be due.     *)
RangesExact ==
  /\ UNION {Interval(r[1], r[2]) : r \in ranges} = Moved
  /\ \A r \in ranges : r[1] < r[2]
  /\ \A r, s \in ranges : r # s => r[2] < s[1] \/ s[2] < r[1]

(* While the image is built each byte moved is in one place: in the block   *)
(* of its page or, the page being written, at its address in the file; so   *)
(* no seek was left out wrongly and no page written before it was whole.    *)
NoByteLost ==
  phase \in {"build", "last"} =>
    \A a \in Moved :
      IF Page(a) \in DOMAIN table
      THEN phase = "build" /\ table[Page(a)][a % PageSize] = a
      ELSE a \in DOMAIN file /\ file[a] = a

(* A page that is whole is written at once, so at most one block stays for  *)
(* FLUSH_ALMOST_FINAL, and it is the last page of the image.                *)
OnlyTheLastIsKept ==
  /\ phase = "build" /\ due = NoPage =>
       \A p \in DOMAIN table : ~(Interval(p * PageSize, (p + 1) * PageSize) \subseteq Moved)
  /\ phase = "last" => table = <<>>

(* The pages between the first byte moved and the last page written.        *)
PagesKept == NoByteLost /\ OnlyTheLastIsKept

WholeImage == file = [a \in Interval(0, Size) |-> a]

(* What is on the disk after a link without errors is the image to the last *)
(* byte, whatever the file held before; after one with errors, and          *)
(* /DELEXECUTABLE, nothing is, unless Windows has refused to close the file *)
(* or, which the link does not notice, to delete it.                        *)
DiskIsRight ==
  phase \in {"exited", "kept"} =>
    \/ ~reported /\ WholeImage /\ phase = "exited"
    \/ reported /\ (DeleteOnError => file = NoFile \/ handle = "lost" \/ phase = "kept")

=============================================================================
