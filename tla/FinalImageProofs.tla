-------------------------- MODULE FinalImageProofs ----------------------------
(***************************************************************************)
(* Proofs about FinalImage.tla, for every page size, every length of image *)
(* and every order of moves.  FINAL_RANGES is exact (RangesAlwaysExact):   *)
(* the invariant has to say more than that, namely that what is being      *)
(* moved is neither left nor moved already, so that the interval to be     *)
(* joined overlaps no range.  On top of it FInv says where the bytes of    *)
(* each page are, from which no byte is lost (EveryByteKept) and the file  *)
(* is right in the end (DiskAlwaysRight).                                  *)
(***************************************************************************)
EXTENDS FinalImage, TLAPS

(* What pass 2 has not placed: the moves to come and the rest of this one. *)
PlacesOK ==
  /\ left \subseteq 0 .. Size - 1
  /\ rest \in (0 .. Size) \X (0 .. Size)
  /\ rest = Nothing \/ rest[1] < rest[2]
  /\ Interval(rest[1], rest[2]) \cap left = {}

RangesInt == ranges \subseteq Int \X Int

(* INIT_FINAL_RANGES empties tables that are empty. *)
NotBegun == phase = "pass1" => ranges = {}

IInv == PlacesOK /\ RangesInt /\ NotBegun /\ RangesExact

(***************************************************************************)
(* Joining an interval that overlaps no range keeps the ranges apart and   *)
(* covers what they covered and the interval.                              *)
(***************************************************************************)
LEMMA JoinedExact ==
  ASSUME ranges \subseteq Int \X Int,
         \A r \in ranges : r[1] < r[2],
         \A r, s \in ranges : r # s => r[2] < s[1] \/ s[2] < r[1],
         NEW from \in Int, NEW to \in Int, from < to,
         \A r \in ranges : r[2] <= from \/ to <= r[1]
  PROVE  /\ Joined(from, to) \subseteq Int \X Int
         /\ \A r \in Joined(from, to) : r[1] < r[2]
         /\ \A r, s \in Joined(from, to) : r # s => r[2] < s[1] \/ s[2] < r[1]
         /\ UNION {Interval(r[1], r[2]) : r \in Joined(from, to)}
              = (UNION {Interval(r[1], r[2]) : r \in ranges}) \cup Interval(from, to)
<1> DEFINE before == {r \in ranges : r[2] = from}
           after  == {r \in ranges : r[1] = to}
           low    == IF before = {} THEN from ELSE (CHOOSE r \in before : TRUE)[1]
           high   == IF after = {} THEN to ELSE (CHOOSE r \in after : TRUE)[2]
           kept   == ranges \ (before \cup after)
<1>1. Joined(from, to) = kept \cup {<<low, high>>}
  BY DEF Joined
<1>2. \A r \in ranges : r[1] \in Int /\ r[2] \in Int /\ r = <<r[1], r[2]>>
  OBVIOUS
<1>3. \A r, s \in before : r = s
  BY <1>2
<1>4. \A r, s \in after : r = s
  BY <1>2
<1>5. /\ low \in Int /\ low <= from
      /\ before # {} => \E r \in before : low = r[1]
      /\ before = {} => low = from
  <2>1. CASE before = {}
    BY <2>1
  <2>2. CASE before # {}
    <3>1. (CHOOSE r \in before : TRUE) \in before
      BY <2>2
    <3> QED
      BY <2>2, <3>1, <1>2
  <2> QED
    BY <2>1, <2>2
<1>6. /\ high \in Int /\ to <= high
      /\ after # {} => \E r \in after : high = r[2]
      /\ after = {} => high = to
  <2>1. CASE after = {}
    BY <2>1
  <2>2. CASE after # {}
    <3>1. (CHOOSE r \in after : TRUE) \in after
      BY <2>2
    <3> QED
      BY <2>2, <3>1, <1>2
  <2> QED
    BY <2>1, <2>2
<1> HIDE DEF low, high
<1>7. \A r \in kept : r[2] < low \/ high < r[1]
  <2> SUFFICES ASSUME NEW r \in kept PROVE r[2] < low \/ high < r[1]
    OBVIOUS
  <2>1. r \in ranges /\ r[2] # from /\ r[1] # to
    OBVIOUS
  <2>2. CASE r[2] < from
    <3>1. CASE before = {}
      BY <2>2, <3>1, <1>5
    <3>2. CASE before # {}
      <4>1. PICK b \in before : low = b[1]
        BY <3>2, <1>5
      <4>2. r # b /\ b \in ranges /\ b[2] = from
        BY <4>1, <2>1
      <4>3. r[2] < b[1] \/ b[2] < r[1]
        BY <4>2, <2>1
      <4> QED
        BY <4>1, <4>2, <4>3, <2>1, <2>2, <1>2
    <3> QED
      BY <3>1, <3>2
  <2>3. CASE to < r[1]
    <3>1. CASE after = {}
      BY <2>3, <3>1, <1>6
    <3>2. CASE after # {}
      <4>1. PICK a \in after : high = a[2]
        BY <3>2, <1>6
      <4>2. r # a /\ a \in ranges /\ a[1] = to
        BY <4>1, <2>1
      <4>3. r[2] < a[1] \/ a[2] < r[1]
        BY <4>2, <2>1
      <4> QED
        BY <4>1, <4>2, <4>3, <2>1, <2>3, <1>2
    <3> QED
      BY <3>1, <3>2
  <2> QED
    BY <2>1, <2>2, <2>3, <1>2
<1>8. UNION {Interval(r[1], r[2]) : r \in kept \cup {<<low, high>>}}
        = (UNION {Interval(r[1], r[2]) : r \in ranges}) \cup Interval(from, to)
  <2>1. ASSUME NEW x, NEW r \in kept \cup {<<low, high>>}, x \in Interval(r[1], r[2])
        PROVE  x \in (UNION {Interval(s[1], s[2]) : s \in ranges}) \cup Interval(from, to)
    <3>1. CASE r \in kept
      BY <2>1, <3>1
    <3>2. CASE r = <<low, high>>
      <4>0. x \in Int /\ low <= x /\ x < high
        BY <2>1, <3>2, <1>5, <1>6 DEF Interval
      <4>1. CASE x < from
        <5>1. PICK b \in before : low = b[1]
          BY <4>0, <4>1, <1>5
        <5>2. x \in Interval(b[1], b[2]) /\ b \in ranges
          BY <4>0, <4>1, <5>1, <1>2 DEF Interval
        <5> QED
          BY <5>2
      <4>2. CASE to <= x
        <5>1. PICK a \in after : high = a[2]
          BY <4>0, <4>2, <1>6
        <5>2. x \in Interval(a[1], a[2]) /\ a \in ranges
          BY <4>0, <4>2, <5>1, <1>2 DEF Interval
        <5> QED
          BY <5>2
      <4>3. CASE from <= x /\ x < to
        BY <4>0, <4>3 DEF Interval
      <4> QED
        BY <4>0, <4>1, <4>2, <4>3
    <3> QED
      BY <3>1, <3>2
  <2>0. ASSUME NEW x \in Interval(low, high)
        PROVE  x \in UNION {Interval(s[1], s[2]) : s \in kept \cup {<<low, high>>}}
    <3>1. \E s \in kept \cup {<<low, high>>} : x \in Interval(s[1], s[2])
      <4> WITNESS <<low, high>> \in kept \cup {<<low, high>>}
      <4> QED
        OBVIOUS
    <3> HIDE DEF kept
    <3> QED
      BY <3>1
  <2>2. ASSUME NEW x, NEW r \in ranges, x \in Interval(r[1], r[2])
        PROVE  x \in UNION {Interval(s[1], s[2]) : s \in kept \cup {<<low, high>>}}
    <3>1. CASE r \in kept
      BY <2>2, <3>1
    <3>2. CASE r \in before
      <4>1. low = r[1]
        BY <3>2, <1>3, <1>5
      <4>2. x \in Interval(low, high)
        BY <2>2, <3>2, <4>1, <1>2, <1>6 DEF Interval
      <4> QED
        BY <4>2, <2>0
    <3>3. CASE r \in after
      <4>1. high = r[2]
        BY <3>3, <1>4, <1>6
      <4>2. x \in Interval(low, high)
        BY <2>2, <3>3, <4>1, <1>2, <1>5 DEF Interval
      <4> QED
        BY <4>2, <2>0
    <3> QED
      BY <3>1, <3>2, <3>3
  <2>3. ASSUME NEW x \in Interval(from, to)
        PROVE  x \in UNION {Interval(s[1], s[2]) : s \in kept \cup {<<low, high>>}}
    <3>1. x \in Interval(low, high)
      BY <1>5, <1>6 DEF Interval
    <3> QED
      BY <3>1, <2>0
  <2> HIDE DEF kept
  <2> QED
    BY <2>1, <2>2, <2>3
<1>9. \A r \in kept \cup {<<low, high>>} : r[1] < r[2]
  BY <1>5, <1>6
<1>10. kept \cup {<<low, high>>} \subseteq Int \X Int
  BY <1>5, <1>6
<1>11. \A r, s \in kept \cup {<<low, high>>} : r # s => r[2] < s[1] \/ s[2] < r[1]
  BY <1>7
<1> QED
  BY <1>1, <1>8, <1>9, <1>10, <1>11

(* The page of an address ends behind the address. *)
LEMMA PageEnds ==
  ASSUME NEW a \in Nat
  PROVE  (Page(a) + 1) * PageSize \in Int /\ a < (Page(a) + 1) * PageSize
<1>1. PageSize \in Nat \ {0}
  BY FinalAssumption
<1>2. a = PageSize * (a \div PageSize) + (a % PageSize)
  BY <1>1
<1>3. a % PageSize \in 0 .. PageSize - 1 /\ a \div PageSize \in Int
  BY <1>1
<1>4. \A q \in Int : (q + 1) * PageSize = PageSize * q + PageSize
  BY <1>1
<1> QED
  BY <1>1, <1>2, <1>3, <1>4 DEF Page

---------------------------------------------------------------------------

THEOREM InitIInv == Init => IInv
<1> SUFFICES ASSUME Init PROVE IInv
  OBVIOUS
<1>1. PlacesOK
  BY FinalAssumption DEF Init, PlacesOK, Nothing, Interval
<1>2. RangesExact
  <2>1. UNION {Interval(r[1], r[2]) : r \in ranges} = {}
    BY DEF Init
  <2>2. Moved = {}
    BY DEF Init, Moved
  <2> QED
    BY <2>1, <2>2 DEF Init, RangesExact
<1> QED
  BY <1>1, <1>2 DEF IInv, RangesInt, NotBegun, Init

(* A step that leaves the places and the ranges alone. *)
LEMMA Undisturbed ==
  ASSUME IInv, UNCHANGED <<left, rest, ranges>>, phase' # "pass1" \/ ranges = {}
  PROVE  IInv'
<1>1. Moved' = Moved
  BY DEF Moved
<1> QED
  BY <1>1 DEF IInv, PlacesOK, RangesInt, NotBegun, RangesExact

(* What a move takes from what is left it adds to the rest. *)
LEMMA MoveKeepsMoved == ASSUME Move PROVE Moved' = Moved
<1>1. PICK from \in left, n \in 1 .. Size :
        /\ Interval(from, from + n) \subseteq left
        /\ left' = left \ Interval(from, from + n)
        /\ rest' = <<from, from + n>>
  BY DEF Move
<1>2. Interval(rest[1], rest[2]) = {}
  BY DEF Move, Nothing, Interval
<1>3. Interval(rest'[1], rest'[2]) = Interval(from, from + n)
  BY <1>1
<1> QED
  BY <1>1, <1>2, <1>3 DEF Moved

(* Taking up an interval: what was left is now the rest. *)
LEMMA MoveIInv == IInv /\ Move => IInv'
<1> SUFFICES ASSUME IInv, Move PROVE IInv'
  OBVIOUS
<1>1. PICK from \in left, n \in 1 .. Size :
        /\ Interval(from, from + n) \subseteq left
        /\ left' = left \ Interval(from, from + n)
        /\ rest' = <<from, from + n>>
  BY DEF Move
<1>2. from \in 0 .. Size - 1 /\ n \in 1 .. Size /\ Size \in Nat
  BY FinalAssumption DEF IInv, PlacesOK
<1>3. from + n - 1 \in Interval(from, from + n)
  BY <1>2 DEF Interval
<1>4. from + n \in 0 .. Size
  BY <1>1, <1>2, <1>3 DEF IInv, PlacesOK
<1>5. PlacesOK'
  BY <1>1, <1>2, <1>4 DEF IInv, PlacesOK, Interval
<1>6. Moved' = Moved
  BY MoveKeepsMoved
<1>7. ranges' = ranges /\ phase' # "pass1"
  BY DEF Move
<1> QED
  BY <1>5, <1>6, <1>7 DEF IInv, RangesInt, NotBegun, RangesExact

(* One pass of the placing moves the first part of the rest, up to PlacedTo. *)
PlacedTo ==
  LET end == (Page(rest[1]) + 1) * PageSize
  IN  IF rest[2] > end THEN end ELSE rest[2]

LEMMA PlacedPart ==
  ASSUME IInv, Place
  PROVE  /\ rest[1] \in Nat /\ rest[2] \in 0 .. Size /\ PlacedTo \in Int
         /\ rest[1] < PlacedTo /\ PlacedTo <= rest[2]
         /\ PlacedTo <= (Page(rest[1]) + 1) * PageSize
         /\ ranges' = Joined(rest[1], PlacedTo)
         /\ rest' = IF PlacedTo = rest[2] THEN Nothing ELSE <<PlacedTo, rest[2]>>
         /\ left' = left
         /\ Interval(rest[1], rest[2]) = Interval(rest[1], PlacedTo) \cup Interval(PlacedTo, rest[2])
         /\ Interval(rest'[1], rest'[2]) = Interval(PlacedTo, rest[2])
         /\ Interval(rest[1], PlacedTo) \cap Moved = {}
         /\ Moved' = Moved \cup Interval(rest[1], PlacedTo)
<1> DEFINE from == rest[1]
           end  == (Page(from) + 1) * PageSize
<1>1. /\ rest' = IF PlacedTo = rest[2] THEN Nothing ELSE <<PlacedTo, rest[2]>>
      /\ ranges' = Joined(from, PlacedTo)
      /\ left' = left
  BY DEF Place, PlacedTo
<1>2. /\ rest \in (0 .. Size) \X (0 .. Size) /\ from < rest[2]
      /\ from \in Nat /\ rest[2] \in Nat /\ Size \in Nat
      /\ rest[2] \in 0 .. Size
  BY FinalAssumption DEF Place, IInv, PlacesOK
<1>3. end \in Int /\ from < end
  BY <1>2, PageEnds
<1>4. PlacedTo = IF rest[2] > end THEN end ELSE rest[2]
  BY DEF PlacedTo
<1> HIDE DEF end
<1>5. PlacedTo \in Int /\ from < PlacedTo /\ PlacedTo <= rest[2] /\ PlacedTo <= end
  BY <1>2, <1>3, <1>4
<1>6. Interval(rest[1], rest[2]) = Interval(from, PlacedTo) \cup Interval(PlacedTo, rest[2])
  BY <1>2, <1>5 DEF Interval
<1>7. Interval(rest'[1], rest'[2]) = Interval(PlacedTo, rest[2])
  <2>1. CASE PlacedTo = rest[2]
    BY <1>1, <1>5, <2>1 DEF Nothing, Interval
  <2>2. CASE PlacedTo # rest[2]
    BY <1>1, <2>2
  <2> QED
    BY <2>1, <2>2
<1>8. Interval(from, PlacedTo) \cap Moved = {}
  BY <1>6 DEF Moved
<1>9. Moved' = Moved \cup Interval(from, PlacedTo)
  <2>1. Interval(from, PlacedTo) \subseteq 0 .. Size - 1
    BY <1>2, <1>5 DEF Interval
  <2>2. Interval(from, PlacedTo) \cap left = {}
    BY <1>6 DEF IInv, PlacesOK
  <2>3. Interval(from, PlacedTo) \cap Interval(PlacedTo, rest[2]) = {}
    BY <1>2, <1>5 DEF Interval
  <2> QED
    BY <1>1, <1>6, <1>7, <2>1, <2>2, <2>3 DEF Moved
<1> QED
  BY <1>1, <1>2, <1>5, <1>6, <1>7, <1>8, <1>9 DEF end

(* Placing: the interval joined is part of the rest, which no range meets. *)
LEMMA PlaceIInv == IInv /\ Place => IInv'
<1> SUFFICES ASSUME IInv, Place PROVE IInv'
  OBVIOUS
<1> DEFINE from == rest[1]
           to   == PlacedTo
<1>1. /\ from \in Nat /\ rest[2] \in 0 .. Size /\ to \in Int
      /\ from < to /\ to <= rest[2]
      /\ ranges' = Joined(from, to)
      /\ rest' = IF to = rest[2] THEN Nothing ELSE <<to, rest[2]>>
      /\ left' = left
      /\ Interval(rest[1], rest[2]) = Interval(from, to) \cup Interval(to, rest[2])
      /\ Interval(rest'[1], rest'[2]) = Interval(to, rest[2])
      /\ Interval(from, to) \cap Moved = {}
      /\ Moved' = Moved \cup Interval(from, to)
  BY PlacedPart
<1>2. phase' = phase /\ phase = "build"
  BY DEF Place
<1> HIDE DEF to
<1>3. PlacesOK'
  <2>0. Size \in Nat
    BY FinalAssumption
  <2>1. rest' \in (0 .. Size) \X (0 .. Size)
    BY <1>1, <2>0 DEF Nothing
  <2>2. rest' = Nothing \/ rest'[1] < rest'[2]
    BY <1>1
  <2> QED
    BY <1>1, <2>1, <2>2 DEF IInv, PlacesOK
<1>4. \A r \in ranges : r[2] <= from \/ to <= r[1]
  <2> SUFFICES ASSUME NEW r \in ranges, from < r[2], r[1] < to PROVE FALSE
    BY <1>1 DEF IInv, RangesInt
  <2>1. r[1] \in Int /\ r[2] \in Int /\ r[1] < r[2]
    BY DEF IInv, RangesInt, RangesExact
  <2> DEFINE x == IF r[1] < from THEN from ELSE r[1]
  <2>2. x \in Interval(r[1], r[2]) /\ x \in Interval(from, to)
    BY <1>1, <2>1 DEF Interval
  <2> HIDE DEF x
  <2>3. x \in UNION {Interval(s[1], s[2]) : s \in ranges}
    BY <2>2
  <2>4. x \in Moved
    BY <2>3 DEF IInv, RangesExact
  <2> QED
    BY <2>2, <2>4, <1>1
<1>5. /\ Joined(from, to) \subseteq Int \X Int
      /\ \A r \in Joined(from, to) : r[1] < r[2]
      /\ \A r, s \in Joined(from, to) : r # s => r[2] < s[1] \/ s[2] < r[1]
      /\ UNION {Interval(r[1], r[2]) : r \in Joined(from, to)}
           = (UNION {Interval(r[1], r[2]) : r \in ranges}) \cup Interval(from, to)
  <2>1. ranges \subseteq Int \X Int
    BY DEF IInv, RangesInt
  <2>2. \A r \in ranges : r[1] < r[2]
    BY DEF IInv, RangesExact
  <2>3. \A r, s \in ranges : r # s => r[2] < s[1] \/ s[2] < r[1]
    BY DEF IInv, RangesExact
  <2>4. from \in Int
    BY <1>1
  <2> HIDE DEF from
  <2> QED
    BY <1>1, <1>4, <2>1, <2>2, <2>3, <2>4, JoinedExact
<1>6. UNION {Interval(r[1], r[2]) : r \in ranges} = Moved
  BY DEF IInv, RangesExact
<1>7. RangesExact'
  BY <1>1, <1>5, <1>6 DEF RangesExact
<1> QED
  BY <1>1, <1>2, <1>3, <1>5, <1>7 DEF IInv, RangesInt, NotBegun

LEMMA NextIInv == IInv /\ [Next]_vars => IInv'
<1> SUFFICES ASSUME IInv, [Next]_vars PROVE IInv'
  OBVIOUS
<1>1. CASE OpenOutput
  BY <1>1, Undisturbed DEF OpenOutput, IInv, NotBegun
<1>2. CASE CantCreate
  BY <1>2, Undisturbed DEF CantCreate
<1>3. CASE ReportError
  BY <1>3, Undisturbed DEF ReportError, IInv, NotBegun
<1>4. CASE Move
  BY <1>4, MoveIInv
<1>5. CASE Place
  BY <1>5, PlaceIInv
<1>6. CASE FlushPage
  BY <1>6, Undisturbed DEF FlushPage, WriteAt, SeekFails, placing
<1>7. CASE FlushAlmostFinal
  BY <1>7, Undisturbed DEF FlushAlmostFinal, WriteAt, SeekFails, placing
<1>8. CASE FlushFinal
  BY <1>8, Undisturbed DEF FlushFinal, SeekFails, placing
<1>9. CASE Abort
  BY <1>9, Undisturbed DEF Abort, DeleteExe, placing
<1>10. CASE UNCHANGED vars
  BY <1>10, Undisturbed DEF vars, IInv, NotBegun
<1> QED
  BY <1>1, <1>2, <1>3, <1>4, <1>5, <1>6, <1>7, <1>8, <1>9, <1>10 DEF Next

(***************************************************************************)
(* FINAL_RANGES is what has been moved, without gaps, overlaps or ranges   *)
(* that touch, at every moment of every link.                              *)
(***************************************************************************)
THEOREM RangesAlwaysExact == Spec => []RangesExact
<1>1. IInv => RangesExact
  BY DEF IInv
<1> QED
  BY InitIInv, NextIInv, <1>1, PTL DEF Spec

---------------------------------------------------------------------------
(***************************************************************************)
(* No byte is lost between the blocks and the file, and the file is right. *)
(***************************************************************************)
PageBytes(p) == Interval(p * PageSize, (p + 1) * PageSize)

LEMMA PageOf ==
  ASSUME NEW a \in Int, NEW p \in Int
  PROVE  Page(a) = p <=> a \in PageBytes(p)
<1> DEFINE q == a \div PageSize
<1>1. PageSize \in Nat \ {0}
  BY FinalAssumption
<1>2. a = PageSize * q + (a % PageSize) /\ a % PageSize \in 0 .. PageSize - 1 /\ q \in Int
  BY <1>1
<1>3. (q + 1) * PageSize = PageSize * q + PageSize /\ q * PageSize = PageSize * q
  BY <1>1, <1>2
<1>4. a \in PageBytes(q)
  BY <1>1, <1>2, <1>3 DEF PageBytes, Interval
<1> HIDE DEF q
<1>5. ASSUME a \in PageBytes(p) PROVE p = q
  <2>1. p * PageSize <= a /\ a < (p + 1) * PageSize
    BY <1>5, <1>1 DEF PageBytes, Interval
  <2>2. q * PageSize <= a /\ a < (q + 1) * PageSize
    BY <1>4, <1>1, <1>2 DEF PageBytes, Interval
  <2>3. ~ (p + 1 <= q)
    <3> SUFFICES ASSUME p + 1 <= q PROVE FALSE
      OBVIOUS
    <3>1. (p + 1) * PageSize <= q * PageSize
      BY <1>1, <1>2
    <3> QED
      BY <3>1, <2>1, <2>2, <1>1, <1>2
  <2>4. ~ (q + 1 <= p)
    <3> SUFFICES ASSUME q + 1 <= p PROVE FALSE
      OBVIOUS
    <3>1. (q + 1) * PageSize <= p * PageSize
      BY <1>1, <1>2
    <3> QED
      BY <3>1, <2>1, <2>2, <1>1, <1>2
  <2> QED
    BY <2>3, <2>4, <1>2
<1> QED
  BY <1>4, <1>5 DEF Page, q

LEMMA OffsetOf ==
  ASSUME NEW a \in Int, NEW p \in Int, a \in PageBytes(p)
  PROVE  /\ a % PageSize = a - p * PageSize
         /\ a % PageSize \in 0 .. PageSize - 1
<1>1. PageSize \in Nat \ {0}
  BY FinalAssumption
<1>2. a \div PageSize = p
  BY PageOf DEF Page
<1>3. a = PageSize * (a \div PageSize) + (a % PageSize) /\ a % PageSize \in 0 .. PageSize - 1
  BY <1>1
<1> QED
  BY <1>1, <1>2, <1>3

LEMMA PageBounds ==
  ASSUME NEW p \in Nat
  PROVE  /\ p * PageSize \in Nat /\ (p + 1) * PageSize = p * PageSize + PageSize
         /\ p * PageSize \in PageBytes(p)
         /\ p * PageSize + (PageSize - 1) \in PageBytes(p)
         /\ \A a \in Int : a \in PageBytes(p) <=> p * PageSize <= a /\ a < p * PageSize + PageSize
<1>1. PageSize \in Nat \ {0}
  BY FinalAssumption
<1>2. p * PageSize \in Nat /\ (p + 1) * PageSize = p * PageSize + PageSize
  BY <1>1
<1> QED
  BY <1>1, <1>2 DEF PageBytes, Interval

LEMMA PageNat == ASSUME NEW a \in Nat PROVE Page(a) \in Nat /\ a \in PageBytes(Page(a))
<1>1. PageSize \in Nat \ {0}
  BY FinalAssumption
<1>2. a = PageSize * (a \div PageSize) + (a % PageSize)
      /\ a % PageSize \in 0 .. PageSize - 1 /\ a \div PageSize \in Int
  BY <1>1
<1>3. ~ (a \div PageSize <= -1)
  BY <1>1, <1>2
<1>4. Page(a) \in Nat
  BY <1>2, <1>3 DEF Page
<1> QED
  BY <1>4, PageOf

LEMMA PageAtLeast ==
  ASSUME NEW a \in Nat, NEW p \in Nat
  PROVE  Page(a) > p <=> a >= (p + 1) * PageSize
<1>1. PageSize \in Nat \ {0}
  BY FinalAssumption
<1>2. Page(a) \in Nat /\ Page(a) * PageSize <= a /\ a < Page(a) * PageSize + PageSize
  BY PageNat, PageBounds
<1> DEFINE q == Page(a)
<1> HIDE DEF q
<1>3. q \in Nat /\ q * PageSize <= a /\ a < q * PageSize + PageSize
  BY <1>2 DEF q
<1>4. ASSUME q > p PROVE a >= (p + 1) * PageSize
  <2>1. q >= p + 1
    BY <1>3, <1>4
  <2>2. q * PageSize >= (p + 1) * PageSize
    BY <1>1, <1>3, <2>1
  <2> QED
    BY <1>1, <1>3, <2>2
<1>5. ASSUME a >= (p + 1) * PageSize PROVE q > p
  <2> SUFFICES ASSUME q <= p PROVE FALSE
    BY <1>3
  <2>1. q * PageSize <= p * PageSize
    BY <1>1, <1>3
  <2>2. (p + 1) * PageSize = p * PageSize + PageSize
    BY <1>1
  <2> QED
    BY <1>1, <1>3, <1>5, <2>1, <2>2
<1> QED
  BY <1>4, <1>5 DEF q

(* The test of MOVE_EAX_TO_EDX_FINAL on a range that has a byte of the page. *)
LEMMA CompletesCovers ==
  ASSUME NEW p \in Nat, NEW x \in Int, x \in PageBytes(p),
         NEW r, r[1] \in Nat, r[2] \in Nat, x \in Interval(r[1], r[2])
  PROVE  Completes(p, r) <=> PageBytes(p) \subseteq Interval(r[1], r[2])
<1>1. PageSize \in Nat \ {0}
  BY FinalAssumption
<1>2. p * PageSize \in Nat /\ p * PageSize <= x /\ x < p * PageSize + PageSize
  BY PageBounds
<1>3. r[1] <= x /\ x < r[2]
  BY DEF Interval
<1>4. r[2] \div PageSize > p <=> r[2] >= p * PageSize + PageSize
  BY PageAtLeast, PageBounds DEF Page
<1>5. (r[1] = 0 \/ (r[1] - 1) \div PageSize # p) <=> r[1] <= p * PageSize
  <2>1. CASE r[1] = 0
    BY <2>1, <1>2
  <2>2. CASE r[1] # 0
    <3>1. r[1] - 1 \in Nat
      BY <2>2
    <3>2. (r[1] - 1) \div PageSize = p <=> r[1] - 1 \in PageBytes(p)
      <4>1. Page(r[1] - 1) = p <=> r[1] - 1 \in PageBytes(p)
        BY <3>1, PageOf
      <4> QED
        BY <4>1 DEF Page
    <3>3. r[1] - 1 \in PageBytes(p) <=> p * PageSize <= r[1] - 1 /\ r[1] - 1 < p * PageSize + PageSize
      <4>1. \A a \in Int : a \in PageBytes(p) <=> p * PageSize <= a /\ a < p * PageSize + PageSize
        BY PageBounds
      <4> QED
        BY <3>1, <4>1
    <3> QED
      BY <1>1, <1>2, <1>3, <2>2, <3>2, <3>3
  <2> QED
    BY <2>1, <2>2
<1>6. Completes(p, r) <=> r[2] >= p * PageSize + PageSize /\ r[1] <= p * PageSize
  BY <1>4, <1>5 DEF Completes
<1>7. ASSUME r[2] >= p * PageSize + PageSize, r[1] <= p * PageSize
      PROVE  PageBytes(p) \subseteq Interval(r[1], r[2])
  BY <1>1, <1>2, <1>7, PageBounds DEF PageBytes, Interval
<1>8. ASSUME PageBytes(p) \subseteq Interval(r[1], r[2])
      PROVE  r[2] >= p * PageSize + PageSize /\ r[1] <= p * PageSize
  <2>1. p * PageSize \in Interval(r[1], r[2]) /\ p * PageSize + (PageSize - 1) \in Interval(r[1], r[2])
    BY <1>8, PageBounds
  <2> QED
    BY <1>1, <1>2, <2>1 DEF Interval
<1> QED
  BY <1>6, <1>7, <1>8

(* FINAL_TABLE holds whole blocks. *)
TableOK ==
  /\ DOMAIN table \subseteq Nat
  /\ table = [p \in DOMAIN table |-> table[p]]
  /\ \A p \in DOMAIN table : DOMAIN table[p] = 0 .. PageSize - 1

NumbersOK ==
  /\ highWater \in 0 .. Size /\ phys \in Int /\ position \in Int
  /\ due \in Nat \cup {NoPage}

(* INIT_FINAL_RANGES and _open_output find nothing moved and no seek made. *)
AtStart ==
  phase = "pass1" =>
    /\ left = 0 .. Size - 1 /\ rest = Nothing
    /\ table = <<>> /\ due = NoPage /\ phys \in 0 .. PageSize - 1

(* A page has a block when some of its bytes are moved; the page that has   *)
(* them all is the one that is due.                                         *)
TablePages ==
  phase = "build" =>
    /\ due # NoPage => due \in DOMAIN table
    /\ \A p \in DOMAIN table :
         /\ \E a \in Moved : Page(a) = p
         /\ PageBytes(p) \subseteq Moved <=> p = due

(* A page without a block has all its bytes moved or none. *)
OutsideTable ==
  phase = "build" =>
    \A a \in Moved : Page(a) \notin DOMAIN table => PageBytes(Page(a)) \subseteq Moved

HighWaterIsHigh ==
  phase \in {"build", "last"} => \A a \in (0 .. Size - 1) \ left : a < highWater

(* Where MYO_PHYS_ADDR is the address of a page, the file pointer is there; *)
(* where it is the end of the image, too.                                   *)
PointerKnown ==
  /\ phase = "build" => \A k \in Int : phys = k * PageSize => position = phys
  /\ phase = "last" => (phys = highWater => position = phys)

AllPlaced == phase = "last" => left = {} /\ rest = Nothing

(* How the link stands when _abort is entered. *)
Outcome ==
  /\ phase = "done" => WholeImage
  /\ phase = "failed" => reported

FInv ==
  /\ TableOK /\ NumbersOK /\ AtStart /\ TablePages /\ OutsideTable
  /\ HighWaterIsHigh /\ PointerKnown /\ AllPlaced
  /\ NoByteLost /\ OnlyTheLastIsKept /\ Outcome /\ DiskIsRight

LEMMA InitFInv == Init => FInv
<1> SUFFICES ASSUME Init PROVE FInv
  OBVIOUS
<1>1. phase = "pass1" /\ table = <<>>
  BY DEF Init
<1>2. TableOK
  BY DEF Init, TableOK
<1>3. NumbersOK
  BY FinalAssumption DEF Init, NumbersOK
<1>4. AtStart
  BY FinalAssumption DEF Init, AtStart
<1> QED
  BY <1>1, <1>2, <1>3, <1>4
     DEF FInv, TablePages, OutsideTable, HighWaterIsHigh, PointerKnown, AllPlaced,
         NoByteLost, OnlyTheLastIsKept, Outcome, DiskIsRight

LEMMA OpenFInv == ASSUME IInv, FInv, OpenOutput PROVE FInv'
<1>0. PageSize \in Nat \ {0, 1} /\ Size \in Nat \ {0}
  BY FinalAssumption
<1>1. /\ left = 0 .. Size - 1 /\ rest = Nothing /\ due = NoPage /\ phys \in 0 .. PageSize - 1
      /\ left' = left /\ rest' = rest /\ due' = due /\ phys' = phys
      /\ phase' = "build" /\ table' = <<>> /\ position' = 0 /\ highWater' = 0
  BY DEF OpenOutput, FInv, AtStart
<1>2. Moved' = {}
  BY <1>1 DEF Moved
<1>3. TableOK' /\ NumbersOK'
  BY <1>0, <1>1 DEF TableOK, NumbersOK, NoPage
<1>4. TablePages' /\ OutsideTable' /\ NoByteLost' /\ OnlyTheLastIsKept'
  BY <1>1, <1>2 DEF TablePages, OutsideTable, NoByteLost, OnlyTheLastIsKept
<1>5. HighWaterIsHigh'
  BY <1>1 DEF HighWaterIsHigh
<1>6. PointerKnown'
  <2> SUFFICES ASSUME NEW k \in Int, phys = k * PageSize PROVE phys = 0
    BY <1>1 DEF PointerKnown
  <2>1. ~ (k >= 1)
    BY <1>0, <1>1
  <2>2. ~ (k <= -1)
    BY <1>0, <1>1
  <2>3. k = 0
    BY <2>1, <2>2
  <2> QED
    BY <1>0, <2>3
<1> QED
  BY <1>1, <1>3, <1>4, <1>5, <1>6 DEF FInv, AtStart, AllPlaced, Outcome, DiskIsRight

LEMMA ReportFInv ==
  ASSUME IInv, FInv, CantCreate \/ ReportError
  PROVE  FInv'
<1>1. CASE CantCreate
  <2>1. TableOK' /\ NumbersOK'
    BY <1>1 DEF CantCreate, FInv, TableOK, NumbersOK, device
  <2> QED
    BY <1>1, <2>1
       DEF CantCreate, FInv, AtStart, TablePages, OutsideTable, HighWaterIsHigh, PointerKnown,
           AllPlaced, NoByteLost, OnlyTheLastIsKept, Outcome, DiskIsRight
<1>2. CASE ReportError
  <2>1. Moved' = Moved
    BY <1>2 DEF ReportError, Moved
  <2>2. TableOK' /\ NumbersOK' /\ AtStart' /\ TablePages' /\ OutsideTable' /\ HighWaterIsHigh'
    BY <1>2, <2>1 DEF ReportError, device, FInv, TableOK, NumbersOK, AtStart, TablePages,
                      OutsideTable, HighWaterIsHigh
  <2>3. PointerKnown' /\ AllPlaced' /\ NoByteLost' /\ OnlyTheLastIsKept' /\ Outcome'
    BY <1>2, <2>1 DEF ReportError, device, FInv, PointerKnown, AllPlaced, NoByteLost,
                      OnlyTheLastIsKept, Outcome
  <2>4. DiskIsRight'
    BY <1>2 DEF ReportError, DiskIsRight
  <2> QED
    BY <2>2, <2>3, <2>4 DEF FInv
<1> QED
  BY <1>1, <1>2

LEMMA MoveFInv == ASSUME IInv, FInv, Move PROVE FInv'
<1>1. /\ phase = "build" /\ phase' = phase
      /\ table' = table /\ due' = due /\ phys' = phys /\ position' = position /\ file' = file
  BY DEF Move, device
<1>2. Moved' = Moved
  BY MoveKeepsMoved
<1>3. PICK from \in left, n \in 1 .. Size :
        /\ Interval(from, from + n) \subseteq left
        /\ left' = left \ Interval(from, from + n)
        /\ highWater' = IF from + n > highWater THEN from + n ELSE highWater
  BY DEF Move
<1>4. /\ from \in 0 .. Size - 1 /\ n \in 1 .. Size /\ Size \in Nat
      /\ left \subseteq 0 .. Size - 1 /\ highWater \in 0 .. Size
  BY FinalAssumption DEF IInv, PlacesOK, FInv, NumbersOK
<1>5. from + n - 1 \in Interval(from, from + n)
  BY <1>4 DEF Interval
<1>6. from + n \in 0 .. Size
  BY <1>3, <1>4, <1>5
<1>7. highWater' \in 0 .. Size /\ highWater <= highWater' /\ from + n <= highWater'
  BY <1>3, <1>4, <1>6
<1>8. TableOK' /\ NumbersOK'
  BY <1>1, <1>7 DEF FInv, TableOK, NumbersOK
<1>9. HighWaterIsHigh'
  <2> SUFFICES ASSUME NEW a \in (0 .. Size - 1) \ left' PROVE a < highWater'
    BY DEF HighWaterIsHigh
  <2>1. CASE a \in left
    BY <2>1, <1>3, <1>4, <1>7 DEF Interval
  <2>2. CASE a \notin left
    <3>1. a < highWater
      BY <1>1, <2>2 DEF FInv, HighWaterIsHigh
    <3> QED
      BY <3>1, <1>4, <1>7
  <2> QED
    BY <2>1, <2>2
<1>10. TablePages' /\ OutsideTable' /\ NoByteLost' /\ OnlyTheLastIsKept'
  BY <1>1, <1>2 DEF FInv, TablePages, OutsideTable, NoByteLost, OnlyTheLastIsKept
<1> QED
  BY <1>1, <1>8, <1>9, <1>10
     DEF FInv, AtStart, PointerKnown, AllPlaced, Outcome, DiskIsRight

(* The page of a move is due exactly when it is whole: ranges that do not   *)
(* touch cannot share a page that is moved altogether.                      *)
LEMMA DueWhenWhole ==
  ASSUME NEW R, R \subseteq Nat \X Nat,
         \A r, s \in R : r # s => r[2] < s[1] \/ s[2] < r[1],
         \A r \in R : r[1] < r[2],
         NEW p \in Nat, NEW x \in Int, x \in PageBytes(p),
         \E r \in R : x \in Interval(r[1], r[2])
  PROVE  (\E r \in R : x \in Interval(r[1], r[2]) /\ Completes(p, r))
           <=> PageBytes(p) \subseteq UNION {Interval(r[1], r[2]) : r \in R}
<1>1. \A r \in R : r[1] \in Nat /\ r[2] \in Nat
  OBVIOUS
<1>2. PICK r \in R : x \in Interval(r[1], r[2])
  OBVIOUS
<1>3. \A s \in R : x \in Interval(s[1], s[2]) => s = r
  BY <1>1, <1>2 DEF Interval
<1>4. (\E s \in R : x \in Interval(s[1], s[2]) /\ Completes(p, s)) <=> Completes(p, r)
  BY <1>2, <1>3
<1>5. Completes(p, r) <=> PageBytes(p) \subseteq Interval(r[1], r[2])
  BY <1>1, <1>2, CompletesCovers
<1>6. ASSUME PageBytes(p) \subseteq UNION {Interval(s[1], s[2]) : s \in R}
      PROVE  PageBytes(p) \subseteq Interval(r[1], r[2])
  <2>1. \A a \in PageBytes(p) : \E s \in R : a \in Interval(s[1], s[2])
    BY <1>6
  <2>2. /\ p * PageSize \in Nat /\ PageSize \in Nat
        /\ \A a \in Int : a \in PageBytes(p) <=> p * PageSize <= a /\ a < p * PageSize + PageSize
    BY PageBounds, FinalAssumption
  <2>3. r[1] <= x /\ x < r[2]
    BY <1>1, <1>2 DEF Interval
  <2>4. ~ (r[1] > p * PageSize)
    <3> SUFFICES ASSUME r[1] > p * PageSize PROVE FALSE
      OBVIOUS
    <3>1. r[1] - 1 \in Int /\ p * PageSize <= r[1] - 1 /\ r[1] - 1 < p * PageSize + PageSize
      BY <1>1, <2>2, <2>3
    <3>2. r[1] - 1 \in PageBytes(p)
      BY <2>2, <3>1
    <3>3. PICK s \in R : r[1] - 1 \in Interval(s[1], s[2])
      BY <2>1, <3>2
    <3>4. s[1] <= r[1] - 1 /\ r[1] - 1 < s[2]
      BY <1>1, <3>3 DEF Interval
    <3>5. r # s
      BY <1>1, <3>4
    <3>6. r[2] < s[1] \/ s[2] < r[1]
      BY <3>5
    <3> QED
      BY <1>1, <2>3, <3>4, <3>6
  <2>5. ~ (r[2] < p * PageSize + PageSize)
    <3> SUFFICES ASSUME r[2] < p * PageSize + PageSize PROVE FALSE
      OBVIOUS
    <3>1. p * PageSize <= r[2]
      BY <1>1, <2>2, <2>3
    <3>2. r[2] \in PageBytes(p)
      BY <1>1, <2>2, <3>1
    <3>3. PICK s \in R : r[2] \in Interval(s[1], s[2])
      BY <2>1, <3>2
    <3>4. s[1] <= r[2] /\ r[2] < s[2]
      BY <1>1, <3>3 DEF Interval
    <3>5. r # s
      BY <1>1, <3>4
    <3>6. r[2] < s[1] \/ s[2] < r[1]
      BY <3>5
    <3> QED
      BY <1>1, <2>3, <3>4, <3>6
  <2> SUFFICES ASSUME NEW a \in PageBytes(p) PROVE a \in Interval(r[1], r[2])
    OBVIOUS
  <2>6. a \in Int
    BY <2>2 DEF PageBytes, Interval
  <2>7. p * PageSize <= a /\ a < p * PageSize + PageSize
    BY <2>2, <2>6
  <2>8. r[1] <= a /\ a < r[2]
    BY <1>1, <2>2, <2>4, <2>5, <2>6, <2>7
  <2> QED
    BY <1>1, <2>6, <2>8 DEF Interval
<1>7. Interval(r[1], r[2]) \subseteq UNION {Interval(s[1], s[2]) : s \in R}
  OBVIOUS
<1> QED
  BY <1>4, <1>5, <1>6, <1>7

LEMMA PlaceFInv == ASSUME IInv, IInv', FInv, Place PROVE FInv'
<1> DEFINE from == rest[1]
           page == Page(from)
           part == Interval(from, PlacedTo)
<1>1. /\ from \in Nat /\ rest[2] \in 0 .. Size /\ PlacedTo \in Int
      /\ from < PlacedTo /\ PlacedTo <= rest[2]
      /\ PlacedTo <= (page + 1) * PageSize
      /\ left' = left
      /\ part \cap Moved = {}
      /\ Moved' = Moved \cup part
  BY PlacedPart
<1>2. /\ table' = [p \in DOMAIN table \cup {page} |->
              IF p = page
              THEN [i \in 0 .. PageSize - 1 |->
                      IF page * PageSize + i \in part THEN page * PageSize + i ELSE Block(page)[i]]
              ELSE table[p]]
      /\ due' = IF \E r \in ranges' : from \in Interval(r[1], r[2]) /\ Completes(page, r)
                THEN page ELSE NoPage
      /\ phase = "build" /\ phase' = phase /\ due = NoPage
      /\ highWater' = highWater /\ phys' = phys /\ position' = position /\ file' = file
      /\ reported' = reported
  BY DEF Place, PlacedTo, device
<1>3. page \in Nat /\ from \in PageBytes(page) /\ NoPage \notin Nat
  BY <1>1, PageNat DEF NoPage
<1>4. /\ PageSize \in Nat \ {0, 1} /\ Size \in Nat
      /\ page * PageSize \in Nat /\ (page + 1) * PageSize = page * PageSize + PageSize
      /\ \A a \in Int : a \in PageBytes(page) <=> page * PageSize <= a /\ a < page * PageSize + PageSize
  BY <1>3, PageBounds, FinalAssumption
<1> HIDE DEF page
<1>5. from \in part /\ part \subseteq Int
  BY <1>1 DEF Interval
<1>6. part \subseteq PageBytes(page)
  <2> SUFFICES ASSUME NEW a \in part PROVE a \in PageBytes(page)
    OBVIOUS
  <2>1. a \in Int /\ from <= a /\ a < PlacedTo
    BY <1>1 DEF Interval
  <2>2. page * PageSize <= from
    BY <1>1, <1>3, <1>4
  <2> QED
    BY <1>1, <1>4, <2>1, <2>2
<1> HIDE DEF part
<1>7. Moved \subseteq Nat /\ Moved' \subseteq Nat
  BY DEF Moved
<1>8. due' = IF PageBytes(page) \subseteq Moved' THEN page ELSE NoPage
  <2>1. UNION {Interval(r[1], r[2]) : r \in ranges'} = Moved'
    BY DEF IInv, RangesExact
  <2>2. \E r \in ranges' : from \in Interval(r[1], r[2])
    BY <1>1, <1>5, <2>1
  <2>3. ranges' \subseteq Nat \X Nat
    <3> SUFFICES ASSUME NEW r \in ranges' PROVE r \in Nat \X Nat
      OBVIOUS
    <3>1. r \in Int \X Int /\ r[1] < r[2]
      BY DEF IInv, RangesInt, RangesExact
    <3>2. r[1] \in Interval(r[1], r[2])
      BY <3>1 DEF Interval
    <3>3. r[1] \in Nat
      BY <2>1, <3>2, <1>7
    <3> QED
      BY <3>1, <3>3
  <2>4. /\ \A r, s \in ranges' : r # s => r[2] < s[1] \/ s[2] < r[1]
        /\ \A r \in ranges' : r[1] < r[2]
    BY DEF IInv, RangesExact
  <2>5. from \in Int
    BY <1>1
  <2> HIDE DEF from
  <2>6. (\E r \in ranges' : from \in Interval(r[1], r[2]) /\ Completes(page, r))
          <=> PageBytes(page) \subseteq UNION {Interval(r[1], r[2]) : r \in ranges'}
    BY <1>3, <2>2, <2>3, <2>4, <2>5, DueWhenWhole
  <2> QED
    BY <1>2, <2>1, <2>6
<1>9. DOMAIN table' = DOMAIN table \cup {page} /\ DOMAIN table \subseteq Nat
  BY <1>2 DEF FInv, TableOK
<1>10. TableOK'
  <2>1. table' = [p \in DOMAIN table' |-> table'[p]]
    BY <1>2
  <2>2. \A p \in DOMAIN table' : DOMAIN table'[p] = 0 .. PageSize - 1
    BY <1>2 DEF FInv, TableOK
  <2> QED
    BY <1>3, <1>9, <2>1, <2>2 DEF TableOK
<1>11. NumbersOK'
  BY <1>2, <1>3, <1>8 DEF FInv, NumbersOK
<1>12. \A a \in part : Page(a) = page
  BY <1>3, <1>5, <1>6, PageOf
<1>13. \A p \in Nat : p # page => PageBytes(p) \cap part = {}
  <2> SUFFICES ASSUME NEW p \in Nat, p # page, NEW a \in part, a \in PageBytes(p) PROVE FALSE
    OBVIOUS
  <2>1. Page(a) = p
    BY <1>5, PageOf
  <2> QED
    BY <1>12, <2>1
<1>14. TablePages'
  <2>1. due' # NoPage => due' \in DOMAIN table'
    BY <1>8, <1>9
  <2>2. ASSUME NEW p \in DOMAIN table'
        PROVE  /\ \E a \in Moved' : Page(a) = p
               /\ PageBytes(p) \subseteq Moved' <=> p = due'
    <3>1. CASE p = page
      <4>1. Page(from) = page /\ from \in Moved'
        BY <1>1, <1>5 DEF page
      <4> QED
        BY <3>1, <4>1, <1>3, <1>8
    <3>2. CASE p # page
      <4>1. p \in DOMAIN table /\ p \in Nat
        BY <3>2, <1>9
      <4>2. (\E a \in Moved : Page(a) = p) /\ (PageBytes(p) \subseteq Moved <=> p = due)
        BY <1>2, <4>1 DEF FInv, TablePages
      <4>3. ~ (PageBytes(p) \subseteq Moved)
        BY <4>1, <4>2, <1>2, <1>3
      <4>4. ~ (PageBytes(p) \subseteq Moved')
        BY <4>1, <4>3, <3>2, <1>1, <1>13
      <4>5. p # due'
        BY <1>8, <3>2, <4>1, <1>3
      <4> QED
        BY <1>1, <4>2, <4>4, <4>5
    <3> QED
      BY <3>1, <3>2
  <2> QED
    BY <2>1, <2>2 DEF TablePages
<1>15. page \in DOMAIN table \/ PageBytes(page) \cap Moved = {}
  <2> SUFFICES ASSUME page \notin DOMAIN table, NEW a \in PageBytes(page), a \in Moved PROVE FALSE
    OBVIOUS
  <2>1. Page(a) = page
    BY <1>3, <1>7, PageOf
  <2>2. PageBytes(page) \subseteq Moved
    BY <1>2, <2>1 DEF FInv, OutsideTable
  <2> QED
    BY <1>1, <1>3, <1>5, <2>2
<1>16. OutsideTable'
  <2> SUFFICES ASSUME NEW a \in Moved', Page(a) \notin DOMAIN table'
               PROVE  PageBytes(Page(a)) \subseteq Moved'
    BY DEF OutsideTable
  <2>1. Page(a) # page /\ Page(a) \notin DOMAIN table
    BY <1>9
  <2>2. a \in Moved
    BY <1>1, <1>12, <2>1
  <2> QED
    BY <1>1, <1>2, <2>1, <2>2 DEF FInv, OutsideTable
<1>17. NoByteLost'
  <2> SUFFICES ASSUME NEW a \in Moved'
               PROVE  IF Page(a) \in DOMAIN table'
                      THEN table'[Page(a)][a % PageSize] = a
                      ELSE a \in DOMAIN file' /\ file'[a] = a
    BY <1>2 DEF NoByteLost
  <2>1. CASE Page(a) = page
    <3>1. a \in Nat /\ a \in PageBytes(page)
      BY <1>3, <1>7, <2>1, PageOf
    <3>2. a % PageSize = a - page * PageSize /\ a % PageSize \in 0 .. PageSize - 1
      BY <1>3, <3>1, OffsetOf
    <3>3. page * PageSize + (a % PageSize) = a
      BY <1>4, <3>1, <3>2
    <3>4. table'[page][a % PageSize] = IF a \in part THEN a ELSE Block(page)[a % PageSize]
      BY <1>2, <3>2, <3>3
    <3>5. CASE a \in part
      BY <1>9, <2>1, <3>4, <3>5
    <3>6. CASE a \notin part
      <4>1. a \in Moved
        BY <1>1, <3>6
      <4>2. page \in DOMAIN table
        BY <1>15, <3>1, <4>1
      <4>3. table[page][a % PageSize] = a
        BY <1>2, <2>1, <4>1, <4>2 DEF FInv, NoByteLost
      <4> QED
        BY <1>9, <2>1, <3>4, <3>6, <4>2, <4>3 DEF Block
    <3> QED
      BY <3>5, <3>6
  <2>2. CASE Page(a) # page
    <3>1. a \in Moved
      BY <1>1, <1>12, <2>2
    <3>2. IF Page(a) \in DOMAIN table
          THEN table[Page(a)][a % PageSize] = a
          ELSE a \in DOMAIN file /\ file[a] = a
      BY <1>2, <3>1 DEF FInv, NoByteLost
    <3>3. Page(a) \in DOMAIN table => table'[Page(a)] = table[Page(a)]
      BY <1>2, <2>2
    <3> QED
      BY <1>2, <1>9, <2>2, <3>2, <3>3
  <2> QED
    BY <2>1, <2>2
<1>18. OnlyTheLastIsKept'
  <2> SUFFICES ASSUME due' = NoPage, NEW p \in DOMAIN table'
               PROVE  ~ (Interval(p * PageSize, (p + 1) * PageSize) \subseteq Moved')
    BY <1>2 DEF OnlyTheLastIsKept
  <2>1. p \in Nat
    BY <1>10 DEF TableOK
  <2>2. ~ (PageBytes(p) \subseteq Moved')
    BY <1>2, <1>3, <1>14, <2>1 DEF TablePages
  <2> QED
    BY <2>2 DEF PageBytes
<1>19. HighWaterIsHigh'
  BY <1>1, <1>2 DEF FInv, HighWaterIsHigh
<1>20. PointerKnown' /\ AtStart' /\ AllPlaced' /\ Outcome' /\ DiskIsRight'
  BY <1>2 DEF FInv, PointerKnown, AtStart, AllPlaced, Outcome, DiskIsRight
<1> QED
  BY <1>10, <1>11, <1>14, <1>16, <1>17, <1>18, <1>19, <1>20 DEF FInv

(* A write of a page whose place the file pointer or MYO_PHYS_ADDR tells    *)
(* rightly: the link is given up, or the bytes are where they belong.       *)
LEMMA WritePage ==
  ASSUME TableOK, NumbersOK, NEW p \in DOMAIN table, NEW bytes \in 1 .. PageSize, NEW next,
         p * PageSize = phys => position = phys,
         WriteAt(p, bytes, next)
  PROVE  /\ left' = left /\ rest' = rest /\ highWater' = highWater /\ handle' = handle
         /\ table' = [q \in DOMAIN table \ {p} |-> table[q]]
         /\ TableOK'
         /\ phys' \in Int /\ position' \in Int
         /\ \/ phase' = "failed" /\ reported'
            \/ /\ phase' = next /\ reported' = reported
               /\ phys' = p * PageSize + 1 /\ position' = p * PageSize + bytes
               /\ \A a \in Interval(p * PageSize, p * PageSize + bytes) :
                    a \in DOMAIN file' /\ file'[a] = table[p][a - p * PageSize]
               /\ \A a \in DOMAIN file \ Interval(p * PageSize, p * PageSize + bytes) :
                    a \in DOMAIN file' /\ file'[a] = file[a]
<1>1. p \in Nat /\ PageSize \in Nat \ {0}
  BY FinalAssumption DEF TableOK
<1> DEFINE at == Seek(p * PageSize)
<1>2. at = p * PageSize
  BY DEF Seek
<1>3. at \in Nat
  BY <1>1, <1>2, PageBounds
<1> HIDE DEF at
<1>0. table' = [q \in DOMAIN table \ {p} |-> table[q]]
  BY DEF WriteAt
<1>6. TableOK'
  <2>1. DOMAIN table' = DOMAIN table \ {p}
    BY <1>0
  <2> QED
    BY <1>0, <2>1 DEF TableOK
<1>10. CASE SeekFails(p * PageSize)
  <2>1. p * PageSize \in Int /\ position \in Int
    BY <1>2, <1>3 DEF NumbersOK
  <2> QED
    BY <1>0, <1>6, <1>10, <2>1 DEF SeekFails, placing
<1> SUFFICES ASSUME ~SeekFails(p * PageSize)
             PROVE  /\ left' = left /\ rest' = rest /\ highWater' = highWater /\ handle' = handle
                    /\ phys' \in Int /\ position' \in Int
                    /\ \/ phase' = "failed" /\ reported'
                       \/ /\ phase' = next /\ reported' = reported
                          /\ phys' = p * PageSize + 1 /\ position' = p * PageSize + bytes
                          /\ \A a \in Interval(p * PageSize, p * PageSize + bytes) :
                               a \in DOMAIN file' /\ file'[a] = table[p][a - p * PageSize]
                          /\ \A a \in DOMAIN file \ Interval(p * PageSize, p * PageSize + bytes) :
                               a \in DOMAIN file' /\ file'[a] = file[a]
  BY <1>0, <1>6, <1>10
<1>4. PICK n \in 0 .. bytes :
        /\ file' = Written(at, table[p], n)
        /\ position' = at + n
        /\ phys' = p * PageSize + (IF n = 0 THEN 0 ELSE 1)
        /\ IF WriteIsGood(bytes, n)
           THEN phase' = next /\ UNCHANGED reported
           ELSE phase' = "failed" /\ reported' = TRUE
        /\ UNCHANGED <<placing, handle>>
  BY DEF WriteAt, at
<1>5. bytes \in Nat /\ n \in Nat
  OBVIOUS
<1>7. phys' \in Int /\ position' \in Int
  BY <1>2, <1>3, <1>4, <1>5
<1>8. CASE ~ WriteIsGood(bytes, n)
  BY <1>4, <1>7, <1>8 DEF placing
<1>9. CASE WriteIsGood(bytes, n)
  <2>1. n = bytes /\ n # 0
    BY <1>9 DEF WriteIsGood
  <2>2. file' = [a \in DOMAIN file \cup Interval(0, at + n) |->
                   IF a \in Interval(at, at + n) THEN table[p][a - at]
                   ELSE IF a \in DOMAIN file THEN file[a] ELSE Junk]
    BY <1>4, <2>1 DEF Written
  <2>3. Interval(at, at + n) \subseteq Interval(0, at + n)
    BY <1>3, <1>5 DEF Interval
  <2>4. \A a \in Interval(at, at + n) : a \in DOMAIN file' /\ file'[a] = table[p][a - at]
    BY <2>2, <2>3
  <2>5. \A a \in DOMAIN file \ Interval(at, at + n) : a \in DOMAIN file' /\ file'[a] = file[a]
    BY <2>2
  <2>6. phys' = p * PageSize + 1 /\ position' = p * PageSize + bytes
    BY <1>2, <1>4, <2>1
  <2> QED
    BY <1>2, <1>4, <1>7, <1>9, <2>1, <2>4, <2>5, <2>6 DEF placing
<1> QED
  BY <1>8, <1>9

LEMMA FlushPageFInv == ASSUME IInv, FInv, FlushPage PROVE FInv'
<1>1. /\ phase = "build" /\ due # NoPage /\ due' = NoPage /\ due \in DOMAIN table
      /\ TableOK /\ NumbersOK /\ NoPage \notin Nat
  BY DEF FlushPage, FInv, TablePages, NoPage
<1>2. PageSize \in Nat \ {0, 1} /\ due \in Nat /\ PageSize \in 1 .. PageSize
  BY <1>1, FinalAssumption DEF TableOK
<1>3. due * PageSize = phys => position = phys
  BY <1>1, <1>2 DEF FInv, PointerKnown
<1>4. /\ left' = left /\ rest' = rest /\ highWater' = highWater
      /\ table' = [q \in DOMAIN table \ {due} |-> table[q]]
      /\ TableOK'
      /\ phys' \in Int /\ position' \in Int
      /\ \/ phase' = "failed" /\ reported'
         \/ /\ phase' = "build" /\ reported' = reported
            /\ phys' = due * PageSize + 1
            /\ \A a \in Interval(due * PageSize, due * PageSize + PageSize) :
                 a \in DOMAIN file' /\ file'[a] = table[due][a - due * PageSize]
            /\ \A a \in DOMAIN file \ Interval(due * PageSize, due * PageSize + PageSize) :
                 a \in DOMAIN file' /\ file'[a] = file[a]
  BY <1>1, <1>2, <1>3, WritePage DEF FlushPage
<1>5. NumbersOK'
  BY <1>1, <1>4 DEF NumbersOK
<1>6. Moved' = Moved
  BY <1>4 DEF Moved
<1>7. CASE phase' = "failed" /\ reported'
  BY <1>4, <1>5, <1>7
     DEF FInv, AtStart, TablePages, OutsideTable, HighWaterIsHigh, PointerKnown,
         AllPlaced, NoByteLost, OnlyTheLastIsKept, Outcome, DiskIsRight
<1>8. CASE phase' # "failed"
  <2>1. PageBytes(due) = Interval(due * PageSize, due * PageSize + PageSize)
    BY <1>2, PageBounds DEF PageBytes
  <2>2. /\ phase' = "build" /\ phys' = due * PageSize + 1
        /\ \A a \in PageBytes(due) : a \in DOMAIN file' /\ file'[a] = table[due][a - due * PageSize]
        /\ \A a \in DOMAIN file \ PageBytes(due) : a \in DOMAIN file' /\ file'[a] = file[a]
    BY <1>4, <1>8, <2>1
  <2>3. DOMAIN table' = DOMAIN table \ {due} /\ \A p \in DOMAIN table' : table'[p] = table[p]
    BY <1>4
  <2>4. Moved \subseteq Int
    BY DEF Moved
  <2>5. TablePages'
    BY <1>1, <1>6, <2>2, <2>3 DEF FInv, TableOK, TablePages
  <2>6. OutsideTable'
    <3> SUFFICES ASSUME NEW a \in Moved, Page(a) \notin DOMAIN table'
                 PROVE  PageBytes(Page(a)) \subseteq Moved
      BY <1>6 DEF OutsideTable
    <3>1. CASE Page(a) = due
      BY <1>1, <3>1 DEF FInv, TablePages
    <3>2. CASE Page(a) # due
      BY <1>1, <2>3, <3>2 DEF FInv, OutsideTable
    <3> QED
      BY <3>1, <3>2
  <2>7. NoByteLost'
    <3> SUFFICES ASSUME NEW a \in Moved
                 PROVE  IF Page(a) \in DOMAIN table'
                        THEN table'[Page(a)][a % PageSize] = a
                        ELSE a \in DOMAIN file' /\ file'[a] = a
      BY <1>6, <2>2 DEF NoByteLost
    <3>0. a \in Int
      BY <2>4
    <3>1. IF Page(a) \in DOMAIN table
          THEN table[Page(a)][a % PageSize] = a
          ELSE a \in DOMAIN file /\ file[a] = a
      BY <1>1 DEF FInv, NoByteLost
    <3>2. CASE Page(a) = due
      <4>1. a \in PageBytes(due) /\ a % PageSize = a - due * PageSize
        BY <1>2, <3>0, <3>2, PageOf, OffsetOf
      <4>2. table[due][a - due * PageSize] = a
        BY <1>1, <3>1, <3>2, <4>1
      <4> QED
        BY <2>2, <2>3, <3>2, <4>1, <4>2
    <3>3. CASE Page(a) # due
      <4>1. a \notin PageBytes(due)
        BY <1>2, <3>0, <3>3, PageOf
      <4> QED
        BY <2>2, <2>3, <3>1, <3>3, <4>1
    <3> QED
      BY <3>2, <3>3
  <2>8. OnlyTheLastIsKept'
    <3> SUFFICES ASSUME NEW p \in DOMAIN table'
                 PROVE  ~ (Interval(p * PageSize, (p + 1) * PageSize) \subseteq Moved)
      BY <1>6, <2>2 DEF OnlyTheLastIsKept
    <3>1. ~ (PageBytes(p) \subseteq Moved)
      BY <1>1, <2>3 DEF FInv, TablePages
    <3> QED
      BY <3>1 DEF PageBytes
  <2>9. PointerKnown'
    <3> SUFFICES ASSUME NEW k \in Int, due * PageSize + 1 = k * PageSize PROVE FALSE
      BY <2>2 DEF PointerKnown
    <3>1. CASE k <= due
      <4>1. k * PageSize <= due * PageSize
        BY <1>2, <3>1
      <4> QED
        BY <1>2, <4>1
    <3>2. CASE k >= due + 1
      <4>1. k * PageSize >= (due + 1) * PageSize
        BY <1>2, <3>2
      <4>2. (due + 1) * PageSize = due * PageSize + PageSize
        BY <1>2
      <4> QED
        BY <1>2, <4>1, <4>2
    <3> QED
      BY <1>2, <3>1, <3>2
  <2>10. HighWaterIsHigh'
    BY <1>1, <1>4 DEF FInv, HighWaterIsHigh
  <2> QED
    BY <1>4, <1>5, <2>2, <2>5, <2>6, <2>7, <2>8, <2>9, <2>10
       DEF FInv, AtStart, AllPlaced, Outcome, DiskIsRight
<1> QED
  BY <1>4, <1>7, <1>8

(* When everything is placed there is one range, the image. *)
LEMMA OneRange ==
  ASSUME IInv, left = {}, rest = Nothing
  PROVE  Moved = 0 .. Size - 1 /\ ranges = {<<0, Size>>}
<1>0. Size \in Nat \ {0}
  BY FinalAssumption
<1>1. Moved = 0 .. Size - 1
  BY DEF Moved, Nothing, Interval
<1>2. /\ \A a \in 0 .. Size - 1 : \E r \in ranges : a \in Interval(r[1], r[2])
      /\ \A r \in ranges : \A a \in Interval(r[1], r[2]) : a \in 0 .. Size - 1
  BY <1>1 DEF IInv, RangesExact
<1>3. \A r \in ranges : r = <<r[1], r[2]>> /\ r[1] \in Int /\ r[2] \in Int /\ r[1] < r[2]
  BY DEF IInv, RangesInt, RangesExact
<1>4. \A r, s \in ranges : r # s => r[2] < s[1] \/ s[2] < r[1]
  BY DEF IInv, RangesExact
<1>5. \A r \in ranges : 0 <= r[1] /\ r[2] <= Size
  <2> SUFFICES ASSUME NEW r \in ranges PROVE 0 <= r[1] /\ r[2] <= Size
    OBVIOUS
  <2>1. r[1] \in Interval(r[1], r[2]) /\ r[2] - 1 \in Interval(r[1], r[2])
    BY <1>3 DEF Interval
  <2>2. r[1] \in 0 .. Size - 1 /\ r[2] - 1 \in 0 .. Size - 1
    BY <1>2, <2>1
  <2> QED
    BY <1>0, <1>3, <2>2
<1>6. PICK r \in ranges : 0 \in Interval(r[1], r[2])
  BY <1>0, <1>2
<1>7. r[1] = 0
  BY <1>3, <1>5, <1>6 DEF Interval
<1>8. r[2] = Size
  <2> SUFFICES ASSUME r[2] # Size PROVE FALSE
    OBVIOUS
  <2>1. r[2] \in 0 .. Size - 1
    BY <1>0, <1>3, <1>5, <1>7
  <2>2. PICK s \in ranges : r[2] \in Interval(s[1], s[2])
    BY <1>2, <2>1
  <2>3. s[1] <= r[2] /\ r[2] < s[2]
    BY <1>3, <2>2 DEF Interval
  <2>4. r # s
    BY <1>3, <2>3
  <2>5. r[2] < s[1] \/ s[2] < r[1]
    BY <1>4, <2>4
  <2> QED
    BY <1>3, <2>3, <2>5
<1>9. \A s \in ranges : s = r
  <2> SUFFICES ASSUME NEW s \in ranges, s # r PROVE FALSE
    OBVIOUS
  <2>1. r[2] < s[1] \/ s[2] < r[1]
    BY <1>4
  <2> QED
    BY <1>0, <1>3, <1>5, <1>7, <1>8, <2>1
<1>10. r = <<0, Size>>
  BY <1>3, <1>7, <1>8
<1> QED
  BY <1>1, <1>9, <1>10

(* The only page that may still have a block is the one the image ends in. *)
LEMMA LastPage ==
  ASSUME IInv, FInv, phase = "build", left = {}, rest = Nothing, due = NoPage
  PROVE  /\ Page(Size) \in Nat /\ Size = Page(Size) * PageSize + (Size % PageSize)
         /\ Size % PageSize \in 0 .. PageSize - 1
         /\ DOMAIN table = IF Size % PageSize = 0 THEN {} ELSE {Page(Size)}
<1> DEFINE last  == Page(Size)
           bytes == Size % PageSize
<1>0. Size \in Nat \ {0} /\ PageSize \in Nat \ {0, 1} /\ NoPage \notin Nat
  BY FinalAssumption DEF NoPage
<1>1. last \in Nat /\ Size \in PageBytes(last)
  BY <1>0, PageNat
<1>2. bytes = Size - last * PageSize /\ bytes \in 0 .. PageSize - 1
  BY <1>0, <1>1, OffsetOf
<1>3. last * PageSize \in Nat
  BY <1>1, PageBounds
<1> HIDE DEF last, bytes
<1>4. Size = last * PageSize + bytes
  BY <1>0, <1>2, <1>3
<1>5. Moved = 0 .. Size - 1
  BY OneRange
<1>6. ASSUME NEW p \in DOMAIN table PROVE p = last /\ bytes # 0
  <2>1. p \in Nat
    BY DEF FInv, TableOK
  <2>2. /\ p * PageSize \in Nat
        /\ \A a \in Int : a \in PageBytes(p) <=> p * PageSize <= a /\ a < p * PageSize + PageSize
    BY <2>1, PageBounds
  <2>3. PICK a \in Moved : Page(a) = p
    BY DEF FInv, TablePages
  <2>4. a \in Nat /\ a < Size
    BY <1>0, <1>5
  <2>5. a \in PageBytes(p)
    BY <2>1, <2>3, <2>4, PageOf
  <2>6. p * PageSize < Size
    BY <1>0, <2>2, <2>4, <2>5
  <2>7. ~ (PageBytes(p) \subseteq Moved)
    BY <1>0, <2>1 DEF FInv, TablePages
  <2>8. PICK b \in PageBytes(p) : b \notin Moved
    BY <2>7
  <2>9. b \in Int
    BY <1>0, <2>1 DEF PageBytes, Interval
  <2>10. Size <= b /\ b < p * PageSize + PageSize
    BY <1>0, <1>5, <2>2, <2>8, <2>9
  <2>11. Size \in PageBytes(p)
    BY <1>0, <2>2, <2>6, <2>9, <2>10
  <2>12. p = last
    BY <1>0, <2>1, <2>11, PageOf DEF last
  <2>13. last * PageSize < Size
    BY <2>6, <2>12
  <2> QED
    BY <1>0, <1>2, <1>3, <2>12, <2>13
<1>7. ASSUME bytes # 0 PROVE last \in DOMAIN table
  <2> SUFFICES ASSUME last \notin DOMAIN table PROVE FALSE
    OBVIOUS
  <2>1. Size - 1 \in Moved /\ Size - 1 \in Int
    BY <1>0, <1>5
  <2>2. \A a \in Int : a \in PageBytes(last) <=> last * PageSize <= a /\ a < last * PageSize + PageSize
    BY <1>1, PageBounds
  <2>3. Size - 1 \in PageBytes(last)
    BY <1>0, <1>2, <1>3, <1>7, <2>1, <2>2
  <2>4. Page(Size - 1) = last
    BY <1>1, <2>1, <2>3, PageOf
  <2>5. PageBytes(last) \subseteq Moved
    BY <2>1, <2>4 DEF FInv, OutsideTable
  <2>6. last * PageSize + (PageSize - 1) \in PageBytes(last)
    BY <1>1, PageBounds
  <2>7. last * PageSize + (PageSize - 1) \in 0 .. Size - 1
    BY <1>5, <2>5, <2>6
  <2> QED
    BY <1>0, <1>2, <1>3, <2>7
<1>8. DOMAIN table = IF bytes = 0 THEN {} ELSE {last}
  BY <1>6, <1>7
<1> QED
  BY <1>1, <1>2, <1>4, <1>8 DEF last, bytes

LEMMA AlmostFinalFInv == ASSUME IInv, FInv, FlushAlmostFinal PROVE FInv'
<1> DEFINE last  == Page(Size)
           bytes == Size % PageSize
<1>0. Size \in Nat \ {0} /\ PageSize \in Nat \ {0, 1}
  BY FinalAssumption
<1>1. /\ phase = "build" /\ left = {} /\ rest = Nothing /\ due = NoPage /\ due' = due
  BY DEF FlushAlmostFinal
<1>2. /\ last \in Nat /\ Size = last * PageSize + bytes
      /\ bytes \in 0 .. PageSize - 1
      /\ DOMAIN table = IF bytes = 0 THEN {} ELSE {last}
  BY <1>1, LastPage
<1>3. Moved = 0 .. Size - 1 /\ ranges = {<<0, Size>>}
  BY <1>1, OneRange
<1>4. (CHOOSE r \in ranges : \A s \in ranges : r[1] <= s[1]) = <<0, Size>>
  BY <1>3
<1>5. IF bytes = 0
      THEN phase' = "last" /\ UNCHANGED <<placing, table, device, reported>>
      ELSE WriteAt(CHOOSE p \in DOMAIN table : \A q \in DOMAIN table : p <= q, bytes, "last")
  BY <1>3, <1>4 DEF FlushAlmostFinal
<1> HIDE DEF last, bytes
<1>6. last * PageSize \in Nat
  BY <1>2, PageBounds
<1>7. highWater = Size
  <2>1. Size - 1 \in (0 .. Size - 1) \ left
    BY <1>0, <1>1
  <2>2. Size - 1 < highWater /\ highWater \in 0 .. Size
    BY <1>1, <2>1 DEF FInv, HighWaterIsHigh, NumbersOK
  <2> QED
    BY <1>0, <2>2
<1>8. TableOK /\ NumbersOK
  BY DEF FInv
<1>9. CASE bytes = 0
  <2>1. /\ phase' = "last" /\ left' = left /\ rest' = rest /\ highWater' = highWater
        /\ table' = table /\ phys' = phys /\ position' = position /\ file' = file
    BY <1>5, <1>9 DEF placing, device
  <2>2. DOMAIN table = {} /\ table = <<>>
    BY <1>2, <1>8, <1>9 DEF TableOK
  <2>3. Moved' = Moved
    BY <2>1 DEF Moved
  <2>4. TableOK' /\ NumbersOK'
    BY <1>1, <1>8, <2>1 DEF TableOK, NumbersOK
  <2>5. NoByteLost'
    BY <1>1, <2>1, <2>2, <2>3 DEF FInv, NoByteLost
  <2>6. PointerKnown'
    <3>1. phys = last * PageSize => position = phys
      BY <1>1, <1>2 DEF FInv, PointerKnown
    <3>2. last * PageSize = highWater
      BY <1>2, <1>6, <1>7, <1>9
    <3> QED
      BY <2>1, <3>1, <3>2 DEF PointerKnown
  <2>7. HighWaterIsHigh'
    BY <1>1, <2>1 DEF FInv, HighWaterIsHigh
  <2> QED
    BY <1>1, <2>1, <2>2, <2>4, <2>5, <2>6, <2>7
       DEF FInv, AtStart, TablePages, OutsideTable, AllPlaced, OnlyTheLastIsKept,
           Outcome, DiskIsRight
<1>10. CASE bytes # 0
  <2>1. DOMAIN table = {last}
    BY <1>2, <1>10
  <2>2. (CHOOSE p \in DOMAIN table : \A q \in DOMAIN table : p <= q) = last
    BY <1>2, <2>1
  <2>3. WriteAt(last, bytes, "last")
    BY <1>5, <1>10, <2>2
  <2>4. bytes \in 1 .. PageSize /\ last \in DOMAIN table
    BY <1>0, <1>2, <1>10, <2>1
  <2>5. last * PageSize = phys => position = phys
    BY <1>1, <1>2 DEF FInv, PointerKnown
  <2>6. /\ left' = left /\ rest' = rest /\ highWater' = highWater
        /\ table' = [q \in DOMAIN table \ {last} |-> table[q]]
        /\ TableOK'
        /\ phys' \in Int /\ position' \in Int
        /\ \/ phase' = "failed" /\ reported'
           \/ /\ phase' = "last" /\ reported' = reported
              /\ phys' = last * PageSize + 1 /\ position' = last * PageSize + bytes
              /\ \A a \in Interval(last * PageSize, last * PageSize + bytes) :
                   a \in DOMAIN file' /\ file'[a] = table[last][a - last * PageSize]
              /\ \A a \in DOMAIN file \ Interval(last * PageSize, last * PageSize + bytes) :
                   a \in DOMAIN file' /\ file'[a] = file[a]
    BY <1>8, <2>3, <2>4, <2>5, WritePage
  <2>7. NumbersOK'
    BY <1>1, <1>8, <2>6 DEF NumbersOK
  <2>8. Moved' = Moved
    BY <2>6 DEF Moved
  <2>9. CASE phase' = "failed" /\ reported'
    BY <2>6, <2>7, <2>9
       DEF FInv, AtStart, TablePages, OutsideTable, HighWaterIsHigh, PointerKnown,
           AllPlaced, NoByteLost, OnlyTheLastIsKept, Outcome, DiskIsRight
  <2>10. CASE phase' # "failed"
    <3>1. table' = <<>> /\ DOMAIN table' = {}
      BY <2>1, <2>6
    <3>2. NoByteLost'
      <4> SUFFICES ASSUME NEW a \in Moved PROVE a \in DOMAIN file' /\ file'[a] = a
        BY <2>6, <2>8, <2>10, <3>1 DEF NoByteLost
      <4>1. a \in Nat /\ a < Size
        BY <1>0, <1>3
      <4>2. IF Page(a) \in DOMAIN table
            THEN table[Page(a)][a % PageSize] = a
            ELSE a \in DOMAIN file /\ file[a] = a
        BY <1>1 DEF FInv, NoByteLost
      <4>3. /\ \A b \in Int : b \in PageBytes(last) <=> last * PageSize <= b /\ b < last * PageSize + PageSize
        BY <1>2, PageBounds
      <4>4. CASE Page(a) = last
        <5>1. a \in PageBytes(last) /\ a % PageSize = a - last * PageSize
          BY <1>2, <4>1, <4>4, PageOf, OffsetOf
        <5>2. a \in Interval(last * PageSize, last * PageSize + bytes)
          BY <1>2, <1>6, <4>1, <4>3, <5>1 DEF Interval
        <5>3. table[last][a - last * PageSize] = a
          BY <2>1, <4>2, <4>4, <5>1
        <5> QED
          BY <2>6, <2>10, <5>2, <5>3
      <4>5. CASE Page(a) # last
        <5>1. a \notin PageBytes(last)
          BY <1>2, <4>1, <4>5, PageOf
        <5>2. a \notin Interval(last * PageSize, last * PageSize + bytes)
          BY <1>0, <1>2, <1>6, <4>1, <4>3, <5>1 DEF Interval
        <5> QED
          BY <2>1, <2>6, <2>10, <4>2, <4>5, <5>2
      <4> QED
        BY <4>4, <4>5
    <3>3. PointerKnown'
      <4>1. phase' = "last" /\ phys' = last * PageSize + 1 /\ position' = last * PageSize + bytes
        BY <2>6, <2>10
      <4> QED
        BY <1>2, <1>6, <1>7, <2>6, <4>1 DEF PointerKnown
    <3>4. HighWaterIsHigh'
      BY <1>1, <2>6 DEF FInv, HighWaterIsHigh
    <3> QED
      BY <1>1, <2>6, <2>7, <2>10, <3>1, <3>2, <3>3, <3>4
         DEF FInv, AtStart, TablePages, OutsideTable, AllPlaced, OnlyTheLastIsKept,
             Outcome, DiskIsRight
  <2> QED
    BY <2>6, <2>9, <2>10
<1> QED
  BY <1>9, <1>10

LEMMA FlushFinalFInv == ASSUME IInv, FInv, FlushFinal PROVE FInv'
<1>0. Size \in Nat \ {0}
  BY FinalAssumption
<1>1. /\ phase = "last" /\ left = {} /\ rest = Nothing /\ table = <<>>
      /\ left' = left /\ rest' = rest /\ highWater' = highWater /\ table' = table /\ due' = due
      /\ TableOK /\ NumbersOK
  BY DEF FlushFinal, SeekFails, placing, FInv, AllPlaced, OnlyTheLastIsKept
<1>2. highWater = Size
  <2>1. Size - 1 \in (0 .. Size - 1) \ left
    BY <1>0, <1>1
  <2>2. Size - 1 < highWater /\ highWater \in 0 .. Size
    BY <1>1, <2>1 DEF FInv, HighWaterIsHigh, NumbersOK
  <2> QED
    BY <1>0, <2>2
<1>3. Seek(highWater) = Size
  BY <1>1, <1>2 DEF Seek, FInv, PointerKnown
<1>4. phys' = Size /\ position' \in {position, Size}
  BY <1>2, <1>3 DEF FlushFinal, SeekFails
<1>5. \/ phase' = "failed" /\ reported'
      \/ /\ phase' = "done"
         /\ file' = [a \in Interval(0, Size) |-> IF a \in DOMAIN file THEN file[a] ELSE Junk]
  BY <1>3 DEF FlushFinal, SeekFails
<1>6. \A a \in Interval(0, Size) : a \in DOMAIN file /\ file[a] = a
  <2>1. Moved = Interval(0, Size)
    BY <1>1, OneRange DEF Interval
  <2> QED
    BY <1>1, <2>1 DEF FInv, NoByteLost
<1>7. phase' = "done" => WholeImage'
  BY <1>5, <1>6 DEF WholeImage
<1>8. TableOK' /\ NumbersOK'
  BY <1>0, <1>1, <1>4 DEF TableOK, NumbersOK
<1> QED
  BY <1>5, <1>7, <1>8
     DEF FInv, AtStart, TablePages, OutsideTable, HighWaterIsHigh, PointerKnown, AllPlaced,
         NoByteLost, OnlyTheLastIsKept, Outcome, DiskIsRight

LEMMA AbortFInv == ASSUME IInv, FInv, Abort PROVE FInv'
<1>1. /\ phase \in {"failed", "done"} /\ phase' \in {"exited", "kept"}
      /\ highWater' = highWater /\ table' = table /\ due' = due
      /\ phys' = phys /\ position' = position /\ reported' = reported
  BY DEF Abort, DeleteExe, placing
<1>2. TableOK' /\ NumbersOK'
  BY <1>1 DEF FInv, TableOK, NumbersOK
<1>3. DiskIsRight'
  <2>1. CASE reported /\ DeleteOnError
    <3>1. DeleteExe
      BY <2>1 DEF Abort
    <3>2. file' = NoFile \/ handle' = "lost" \/ phase' = "kept"
      BY <3>1 DEF DeleteExe
    <3>3. NoFile' = NoFile
      BY DEF NoFile
    <3> QED
      BY <1>1, <2>1, <3>2, <3>3 DEF DiskIsRight
  <2>2. CASE ~ (reported /\ DeleteOnError)
    <3>1. file' = file /\ phase' = "exited"
      BY <2>2 DEF Abort
    <3>2. reported \/ WholeImage
      BY <1>1 DEF FInv, Outcome
    <3>3. WholeImage' <=> WholeImage
      BY <3>1 DEF WholeImage
    <3> QED
      BY <1>1, <2>2, <3>1, <3>2, <3>3 DEF DiskIsRight, FInv
  <2> QED
    BY <2>1, <2>2
<1> QED
  BY <1>1, <1>2, <1>3
     DEF FInv, AtStart, TablePages, OutsideTable, HighWaterIsHigh, PointerKnown, AllPlaced,
         NoByteLost, OnlyTheLastIsKept, Outcome

LEMMA NextFInv == IInv /\ IInv' /\ FInv /\ [Next]_vars => FInv'
<1> SUFFICES ASSUME IInv, IInv', FInv, [Next]_vars PROVE FInv'
  OBVIOUS
<1>1. CASE UNCHANGED vars
  <2>1. Moved' = Moved
    BY <1>1 DEF vars, Moved
  <2>2. WholeImage' = WholeImage
    BY <1>1 DEF vars, WholeImage
  <2>3. TableOK' /\ NumbersOK' /\ AtStart' /\ TablePages' /\ OutsideTable' /\ HighWaterIsHigh'
    BY <1>1, <2>1 DEF vars, FInv, TableOK, NumbersOK, AtStart, TablePages, OutsideTable,
                      HighWaterIsHigh
  <2>4. PointerKnown' /\ AllPlaced' /\ NoByteLost' /\ OnlyTheLastIsKept' /\ Outcome' /\ DiskIsRight'
    BY <1>1, <2>1, <2>2 DEF vars, FInv, PointerKnown, AllPlaced, NoByteLost, OnlyTheLastIsKept,
                            Outcome, DiskIsRight
  <2> QED
    BY <2>3, <2>4 DEF FInv
<1> QED
  BY <1>1, OpenFInv, ReportFInv, MoveFInv, PlaceFInv, FlushPageFInv, AlmostFinalFInv,
     FlushFinalFInv, AbortFInv DEF Next

LEMMA ImageInvariant == Spec => [](IInv /\ FInv)
<1> QED
  BY InitIInv, NextIInv, InitFInv, NextFInv, PTL DEF Spec

(***************************************************************************)
(* Every byte moved is in its block or in its place in the file, and only  *)
(* the last page waits for the end: no seek is left out wrongly although   *)
(* MYO_PHYS_ADDR counts one for a write.                                   *)
(***************************************************************************)
THEOREM EveryByteKept == Spec => []PagesKept
<1>1. FInv => PagesKept
  BY DEF FInv, PagesKept
<1> QED
  BY ImageInvariant, <1>1, PTL

(***************************************************************************)
(* After a link without errors the file is the image, whatever it held;    *)
(* after one with errors it is deleted when that was asked for, unless     *)
(* CloseHandle or DeleteFile fails.                                        *)
(***************************************************************************)
THEOREM DiskAlwaysRight == Spec => []DiskIsRight
<1>1. FInv => DiskIsRight
  BY DEF FInv
<1> QED
  BY ImageInvariant, <1>1, PTL
=============================================================================
