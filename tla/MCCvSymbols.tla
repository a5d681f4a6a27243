---------------------------- MODULE MCCvSymbols -----------------------------
(***************************************************************************)
(* Instances of CvSymbols.  Pages of 32 bytes and blocks of 80, of which 8 *)
(* are meant to be kept free.  A block of the code is four pages; here the *)
(* two are out of step at once, as they come to be there after a while.    *)
(***************************************************************************)
EXTENDS CvSymbols

Sym(kind, name, hash, len, seg, off) ==
  [kind |-> kind, name |-> name, hash |-> hash, len |-> len, seg |-> seg, off |-> off]

(* After alignment: 12, 16, 20 and 28 bytes, which leave a page of 32 with *)
(* room, with eight bytes, with four and with none; and 44, longer than a  *)
(* page.  Segment 21 begins the second block of counts.                    *)
MCPublics == {Sym("pub", "a", 1, 9, 1, 4), Sym("pub", "b", 2, 14, 2, 0), Sym("pub", "c", 4, 17, 21, 8),
              Sym("pub", "e", 1, 26, 2, 4), Sym("pub", "l", 2, 42, 1, 0)}

MCGlobals == {Sym("ref", "f", 1, 14, 1, 0), Sym("ref", "f", 1, 14, 2, 0), Sym("const", "g", 2, 11, 0, 0),
              Sym("data", "h", 1, 18, 1, 0)}

(* Of 16 and of 20 bytes: four of one and one of the other pass a block.   *)
MCStatics == {Sym("ref", "f", 1, 14, 1, 0), Sym("ref", "i", 5, 17, 3, 8)}

Load(m, p, o, s) == [modules |-> m, publics |-> p, offered |-> o, statics |-> s]

(* A long public section; each kind of section after another; directories  *)
(* whose blocks fill, divide an entry and divide the trailer.              *)
MCLoads == {Load(1, 6, 0, 0), Load(1, 1, 4, 0), Load(2, 0, 3, 2), Load(1, 0, 0, 9),
            Load(4, 0, 0, 0), Load(5, 1, 1, 1), Load(10, 0, 0, 0)}

(* Of the real sizes: the buckets of any number of symbols up to 100,000   *)
(* fit a block, and are as many as the depth they are given asks for until *)
(* the block is full.                                                      *)
ASSUME BucketsFit == \A n \in {1 + 37 * i : i \in 0..2700} :
  /\ 8 * Buckets(n) <= 16384
  /\ Buckets(n) * (Max({10, BitLength(n)}) - 6) >= n \/ Buckets(n) = MaxBuckets
=============================================================================
