----------------------------- MODULE MCOpenRead -------------------------------
(* Commands and files for the runs of OpenRead, which has two threads. *)
EXTENDS OpenRead, TLC

CONSTANTS o1, o2, o3, o4, p1, p2, p3, q1, q2, s1, l1, l2, l3, l4, l5, k1, k2, k3, m1, old1, old2, stub,
          r1, r2, r3, r4

Obj(full, rest, modend) ==
  [kind |-> "OBJ", found |-> TRUE, full |-> full, rest |-> rest, modend |-> modend,
   isLib |-> FALSE, nonres |-> 0, wanted |-> TRUE]
Lib(full, rest) ==
  [kind |-> "LIB", found |-> TRUE, full |-> full, rest |-> rest, modend |-> 1,
   isLib |-> TRUE, nonres |-> 0, wanted |-> TRUE]
TailFile(kind, full, rest) ==
  [kind |-> kind, found |-> TRUE, full |-> full, rest |-> rest, modend |-> 1,
   isLib |-> FALSE, nonres |-> 0, wanted |-> TRUE]
Gone(file) == [file EXCEPT !.found = FALSE]
Unwanted(file) == [file EXCEPT !.wanted = FALSE]

(* Five of nine files for the first thread: its four OPEN_STRUCTs wrap,    *)
(* and two of the files are longer than the ring of buffers.               *)
Wide == [obj |-> <<o1, o2, o3, o4>>, lib |-> <<l1, l2, l3, l4, l5>>, defaults |-> <<>>, tail |-> <<>>,
         output |-> "OTHER", fatal |-> FALSE]
WideDisk ==
  o1 :> Obj(1, TRUE, 1) @@ o2 :> Obj(0, TRUE, 1) @@ o3 :> Obj(5, FALSE, 6) @@ o4 :> Obj(0, TRUE, 1)
  @@ l1 :> Lib(1, FALSE) @@ l2 :> Gone(Lib(1, TRUE)) @@ l3 :> Lib(4, TRUE) @@ l4 :> Gone(Lib(1, TRUE))
  @@ l5 :> Lib(0, TRUE)

(* A missing library, one named late, and an OLD file nobody looks into. *)
Late == [obj |-> <<p1, p2, p3>>, lib |-> <<k1, k2>>, defaults |-> <<k3>>, tail |-> <<old1>>,
         output |-> "SEGMENTED", fatal |-> FALSE]
LateDisk ==
  p1 :> Obj(1, TRUE, 1) @@ p2 :> Obj(4, FALSE, 5) @@ p3 :> Obj(0, TRUE, 1)
  @@ k1 :> Lib(1, FALSE) @@ k2 :> Gone(Lib(1, TRUE)) @@ k3 :> Lib(0, TRUE)
  @@ old1 :> Unwanted(TailFile("OLD", 1, TRUE))

(* An object file that ends, at the end of a page, before its module does. *)
Truncated == [obj |-> <<q1, q2>>, lib |-> <<>>, defaults |-> <<>>, tail |-> <<>>,
              output |-> "PE", fatal |-> TRUE]
TruncatedDisk == q1 :> Obj(1, TRUE, 2) @@ q2 :> Obj(2, FALSE, 4)

(* OLD, STUB and RES files behind an object file and a library. *)
Tails3 == [obj |-> <<s1>>, lib |-> <<m1>>, defaults |-> <<>>, tail |-> <<old2, stub, r1>>,
           output |-> "SEGMENTED", fatal |-> FALSE]
TailsDisk ==
  s1 :> Obj(0, TRUE, 1) @@ m1 :> Lib(0, TRUE)
  @@ old2 :> TailFile("OLD", 1, TRUE) @@ stub :> TailFile("STUB", 1, TRUE)
  @@ r1 :> TailFile("RES", 1, TRUE)

(* Three resource files, two of them for one thread and the first of these *)
(* one whole page.                                                         *)
Resources == [obj |-> <<>>, lib |-> <<>>, defaults |-> <<>>, tail |-> <<r2, r3, r4>>,
              output |-> "PE", fatal |-> FALSE]
ResourceDisk ==
  r2 :> TailFile("RES", 1, FALSE) @@ r3 :> TailFile("RES", 0, TRUE) @@ r4 :> TailFile("RES", 0, TRUE)

AllCommands == {Wide, Late, Truncated, Tails3}
PageCommand == {Resources}
AllFiles == WideDisk @@ LateDisk @@ TruncatedDisk @@ TailsDisk @@ ResourceDisk
==============================================================================
