---------------------------- MODULE LibReadProofs -----------------------------
(***************************************************************************)
(* That every block of a library is read once, by one thread, and found by *)
(* main.  First what Without does, which deals the request list to the     *)
(* threads and takes defined symbols from the lists of the libraries; then *)
(* the parts of the invariant, each inductive with those before it, action *)
(* by action; then what follows of them, and the theorems.                 *)
(***************************************************************************)
EXTENDS LibRead, WellFoundedInduction, FiniteSetTheorems, SequenceTheorems, TLAPS

NoDup(s) == \A i, j \in DOMAIN s : s[i] = s[j] => i = j

(* A set of numbers that is not empty has a least.                         *)
LEMMA LeastNumber ==
  ASSUME NEW S, S \subseteq Nat, S # {}
  PROVE  \E n \in S : \A m \in S : n <= m
<1> DEFINE R == {p \in Nat \X Nat : p[1] < p[2]}
<1>1. IsWellFoundedOn(R, Nat)
  BY NatLessThanWellFounded DEF OpToRel
<1>2. \E n \in S : \A m \in S : <<m, n>> \notin R
  <2> HIDE DEF R
  <2> QED
    BY <1>1, WFMin
<1>3. PICK n \in S : \A m \in S : <<m, n>> \notin R
  BY <1>2
<1>4. ASSUME NEW m \in S PROVE n <= m
  <2>1. m \in Nat /\ n \in Nat /\ ~(m < n)
    BY <1>3
  <2> QED
    BY <2>1
<1> QED
  BY <1>4

(* Induction up to n, for a set instead of a predicate.                    *)
LEMMA UpTo ==
  ASSUME NEW n \in Nat, NEW S, 0 \in S, \A i \in 0 .. n - 1 : i \in S => i + 1 \in S
  PROVE  0 .. n \subseteq S
<1> DEFINE T == (0 .. n) \ S
<1> SUFFICES ASSUME T # {} PROVE FALSE
  OBVIOUS
<1>1. T \subseteq Nat
  OBVIOUS
<1>2. PICK k \in T : \A m \in T : k <= m
  <2> HIDE DEF T
  <2> QED
    BY <1>1, LeastNumber
<1>3. k - 1 \in 0 .. n - 1 /\ k - 1 \in S
  BY <1>2
<1> QED
  BY <1>3

Step(seq, D, p, n) == IF seq[n] \in D THEN p ELSE Append(p, seq[n])
Rest(f, k, seq, D) ==
  f = [n \in 0 .. k |-> IF n = 0 THEN <<>> ELSE Step(seq, D, f[n - 1], n)]

(* The recursion of Without has a solution. *)
LEMMA RestExists ==
  ASSUME NEW A, NEW seq \in Seq(A), NEW D
  PROVE  \E f \in [0 .. Len(seq) -> Seq(A)] : Rest(f, Len(seq), seq, D)
<1> DEFINE S == {k \in 0 .. Len(seq) : \E f \in [0 .. k -> Seq(A)] : Rest(f, k, seq, D)}
<1>1. 0 \in S
  <2> DEFINE f == [n \in 0 .. 0 |-> <<>>]
  <2>1. f \in [0 .. 0 -> Seq(A)] /\ Rest(f, 0, seq, D)
    BY DEF Rest
  <2>2. 0 \in 0 .. Len(seq)
    OBVIOUS
  <2> QED
    BY <2>1, <2>2
<1>2. ASSUME NEW k \in 0 .. Len(seq) - 1, k \in S PROVE k + 1 \in S
  <2>1. PICK f \in [0 .. k -> Seq(A)] : Rest(f, k, seq, D)
    BY <1>2
  <2> DEFINE e == Step(seq, D, f[k], k + 1)
             g == [n \in 0 .. k + 1 |-> IF n = k + 1 THEN e ELSE f[n]]
  <2>2. e \in Seq(A)
    BY DEF Step
  <2>3. g \in [0 .. k + 1 -> Seq(A)]
    <3> HIDE DEF e
    <3> QED
      BY <2>2
  <2>4. \A n \in 0 .. k : f[n] = IF n = 0 THEN <<>> ELSE Step(seq, D, f[n - 1], n)
    BY <2>1 DEF Rest
  <2>5. ASSUME NEW n \in 0 .. k + 1
        PROVE g[n] = IF n = 0 THEN <<>> ELSE Step(seq, D, g[n - 1], n)
    <3> HIDE DEF e
    <3>1. CASE n = k + 1
      <4>1. g[n] = e /\ g[n - 1] = f[k]
        BY <3>1
      <4> QED
        BY <4>1, <3>1 DEF e
    <3>2. CASE n # k + 1
      <4>1. n \in 0 .. k /\ g[n] = f[n] /\ (n # 0 => g[n - 1] = f[n - 1])
        BY <3>2
      <4> QED
        BY <4>1, <2>4
    <3> QED
      BY <3>1, <3>2
  <2>6. Rest(g, k + 1, seq, D)
    <3> HIDE DEF g
    <3> QED
      BY <2>3, <2>5 DEF Rest
  <2>7. k + 1 \in 0 .. Len(seq)
    OBVIOUS
  <2> QED
    <3> HIDE DEF g
    <3> QED
      BY <2>3, <2>6, <2>7
<1>3. Len(seq) \in 0 .. Len(seq) /\ Len(seq) \in Nat
  OBVIOUS
<1>4. 0 .. Len(seq) \subseteq S
  <2> HIDE DEF S
  <2> QED
    BY <1>1, <1>2, <1>3, UpTo
<1>5. Len(seq) \in S
  BY <1>3, <1>4
<1> QED
  BY <1>5

(* What Without computes, entry by entry. *)
Computes(f, A, seq, D) ==
  /\ f \in [0 .. Len(seq) -> Seq(A)]
  /\ f[0] = <<>>
  /\ \A n \in 1 .. Len(seq) : f[n] = Step(seq, D, f[n - 1], n)
  /\ Without(seq, D) = f[Len(seq)]

LEMMA WithoutDef ==
  ASSUME NEW A, NEW seq \in Seq(A), NEW D
  PROVE  \E f : Computes(f, A, seq, D)
<1> DEFINE g == CHOOSE f : Rest(f, Len(seq), seq, D)
<1>1. Without(seq, D) = g[Len(seq)]
  BY DEF Without, Rest, Step
<1>2. PICK f \in [0 .. Len(seq) -> Seq(A)] : Rest(f, Len(seq), seq, D)
  BY RestExists
<1>3. Rest(g, Len(seq), seq, D)
  BY <1>2
<1> HIDE DEF g
<1>4. \A n \in 0 .. Len(seq) : g[n] = IF n = 0 THEN <<>> ELSE Step(seq, D, g[n - 1], n)
  BY <1>3 DEF Rest
<1> DEFINE S == {n \in 0 .. Len(seq) : g[n] = f[n]}
<1>5. \A n \in 0 .. Len(seq) : f[n] = IF n = 0 THEN <<>> ELSE Step(seq, D, f[n - 1], n)
  BY <1>2 DEF Rest
<1>6. 0 \in S
  BY <1>4, <1>5
<1>7. ASSUME NEW i \in 0 .. Len(seq) - 1, i \in S PROVE i + 1 \in S
  <2>1. g[i + 1] = Step(seq, D, g[i], i + 1) /\ f[i + 1] = Step(seq, D, f[i], i + 1)
    BY <1>4, <1>5
  <2> QED
    BY <2>1, <1>7
<1>8. Len(seq) \in Nat
  OBVIOUS
<1>9. 0 .. Len(seq) \subseteq S
  <2> HIDE DEF S
  <2> QED
    BY <1>6, <1>7, <1>8, UpTo
<1>10. g[Len(seq)] = f[Len(seq)]
  BY <1>8, <1>9
<1>11. f[0] = <<>> /\ \A n \in 1 .. Len(seq) : f[n] = Step(seq, D, f[n - 1], n)
  BY <1>5, <1>8
<1> QED
  BY <1>1, <1>10, <1>11 DEF Computes
(* Nothing is left of nothing. *)
LEMMA WithoutEmpty == ASSUME NEW D PROVE Without(<<>>, D) = <<>>
<1>1. <<>> \in Seq({})
  OBVIOUS
<1>2. PICK f : Computes(f, {}, <<>>, D)
  BY <1>1, WithoutDef
<1> QED
  BY <1>2 DEF Computes

(* One more entry. *)
LEMMA WithoutAppend ==
  ASSUME NEW A, NEW seq \in Seq(A), NEW e \in A, NEW D
  PROVE  Without(Append(seq, e), D) =
           IF e \in D THEN Without(seq, D) ELSE Append(Without(seq, D), e)
<1> DEFINE long == Append(seq, e)
<1>1. long \in Seq(A) /\ Len(long) = Len(seq) + 1 /\ Len(seq) \in Nat
  OBVIOUS
<1>2. (\A n \in 1 .. Len(seq) : long[n] = seq[n]) /\ long[Len(seq) + 1] = e
  OBVIOUS
<1>3. Without(Append(seq, e), D) = Without(long, D)
  OBVIOUS
<1> HIDE DEF long
<1>4. PICK f : Computes(f, A, seq, D)
  BY WithoutDef
<1>5. PICK g : Computes(g, A, long, D)
  BY <1>1, WithoutDef
<1> USE DEF Computes
<1> DEFINE S == {n \in 0 .. Len(seq) : f[n] = g[n]}
<1>6. 0 \in S
  BY <1>1, <1>4, <1>5
<1>7. ASSUME NEW i \in 0 .. Len(seq) - 1, i \in S PROVE i + 1 \in S
  <2>1. f[i + 1] = Step(seq, D, f[i], i + 1) /\ g[i + 1] = Step(long, D, g[i], i + 1)
    BY <1>1, <1>4, <1>5
  <2>2. long[i + 1] = seq[i + 1]
    BY <1>1, <1>2
  <2> QED
    BY <2>1, <2>2, <1>7 DEF Step
<1>8. 0 .. Len(seq) \subseteq S
  <2> HIDE DEF S
  <2> QED
    BY <1>1, <1>6, <1>7, UpTo
<1>9. f[Len(seq)] = g[Len(seq)]
  BY <1>1, <1>8
<1>10. g[Len(seq) + 1] = Step(long, D, g[Len(seq)], Len(seq) + 1)
  BY <1>1, <1>5
<1> QED
  BY <1>1, <1>2, <1>3, <1>4, <1>5, <1>9, <1>10 DEF Step

(* Only the entries that there are matter. *)
LEMMA WithoutSame ==
  ASSUME NEW A, NEW seq \in Seq(A), NEW D, NEW E,
         \A x \in Elements(seq) : x \in D <=> x \in E
  PROVE  Without(seq, D) = Without(seq, E)
<1>1. Len(seq) \in Nat
  OBVIOUS
<1>2. PICK f : Computes(f, A, seq, D)
  BY WithoutDef
<1>3. PICK g : Computes(g, A, seq, E)
  BY WithoutDef
<1> USE DEF Computes
<1> DEFINE S == {n \in 0 .. Len(seq) : f[n] = g[n]}
<1>4. 0 \in S
  BY <1>1, <1>2, <1>3
<1>5. ASSUME NEW i \in 0 .. Len(seq) - 1, i \in S PROVE i + 1 \in S
  <2>1. f[i + 1] = Step(seq, D, f[i], i + 1) /\ g[i + 1] = Step(seq, E, g[i], i + 1)
    BY <1>1, <1>2, <1>3
  <2>2. seq[i + 1] \in Elements(seq)
    BY <1>1 DEF Elements
  <2> QED
    BY <2>1, <2>2, <1>5 DEF Step
<1>6. 0 .. Len(seq) \subseteq S
  <2> HIDE DEF S
  <2> QED
    BY <1>1, <1>4, <1>5, UpTo
<1> QED
  BY <1>1, <1>2, <1>3, <1>6

(* The entries when there is one more. *)
LEMMA AppendEntries ==
  ASSUME NEW A, NEW seq \in Seq(A), NEW e \in A
  PROVE  /\ Elements(Append(seq, e)) = Elements(seq) \union {e}
         /\ NoDup(Append(seq, e)) <=> NoDup(seq) /\ e \notin Elements(seq)
<1> DEFINE long == Append(seq, e)
<1>1. Len(seq) \in Nat /\ DOMAIN long = 1 .. Len(seq) + 1 /\ DOMAIN seq = 1 .. Len(seq)
  OBVIOUS
<1>2. (\A i \in 1 .. Len(seq) : long[i] = seq[i]) /\ long[Len(seq) + 1] = e
  OBVIOUS
<1> HIDE DEF long
<1>3. \A i \in DOMAIN long : i \in DOMAIN seq \/ i = Len(seq) + 1
  BY <1>1
<1>4. DOMAIN seq \subseteq DOMAIN long /\ Len(seq) + 1 \in DOMAIN long /\ Len(seq) + 1 \notin DOMAIN seq
  BY <1>1
<1>5. Elements(long) = Elements(seq) \union {e}
  BY <1>1, <1>2, <1>3, <1>4 DEF Elements
<1>6. NoDup(long) <=> NoDup(seq) /\ e \notin Elements(seq)
  <2>1. ASSUME NoDup(long) PROVE NoDup(seq) /\ e \notin Elements(seq)
    BY <2>1, <1>1, <1>2, <1>4 DEF NoDup, Elements
  <2>2. ASSUME NoDup(seq), e \notin Elements(seq) PROVE NoDup(long)
    BY <2>2, <1>1, <1>2, <1>3 DEF NoDup, Elements
  <2> QED
    BY <2>1, <2>2
<1> QED
  BY <1>5, <1>6 DEF long

(* What is left: sequences of the same kind, the entries not taken out, and *)
(* no two alike if there were none.                                        *)
LEMMA WithoutKeeps ==
  ASSUME NEW A, NEW seq \in Seq(A), NEW D
  PROVE  /\ Without(seq, D) \in Seq(A)
         /\ Elements(Without(seq, D)) = Elements(seq) \ D
         /\ NoDup(seq) => NoDup(Without(seq, D))
<1>1. Len(seq) \in Nat
  OBVIOUS
<1>2. PICK f : Computes(f, A, seq, D)
  BY WithoutDef
<1> USE DEF Computes
<1> DEFINE First(n) == {seq[k] : k \in 1 .. n}
           S == {n \in 0 .. Len(seq) : /\ Elements(f[n]) = First(n) \ D
                                       /\ NoDup(seq) => NoDup(f[n])}
<1>3. 0 \in S
  BY <1>1, <1>2 DEF Elements, NoDup
<1>4. ASSUME NEW i \in 0 .. Len(seq) - 1, i \in S PROVE i + 1 \in S
  <2>1. f[i + 1] = Step(seq, D, f[i], i + 1) /\ f[i] \in Seq(A) /\ i \in Nat
    BY <1>1, <1>2
  <2>2. First(i + 1) = First(i) \union {seq[i + 1]}
    BY <1>1
  <2>3. CASE seq[i + 1] \in D
    BY <2>1, <2>2, <2>3, <1>1, <1>4 DEF Step
  <2>4. CASE seq[i + 1] \notin D
    <3>1. f[i + 1] = Append(f[i], seq[i + 1]) /\ seq[i + 1] \in A
      BY <2>1, <2>4, <1>1 DEF Step
    <3>2. /\ Elements(f[i + 1]) = Elements(f[i]) \union {seq[i + 1]}
          /\ NoDup(f[i + 1]) <=> NoDup(f[i]) /\ seq[i + 1] \notin Elements(f[i])
      <4> DEFINE h == f[i]
                 x == seq[i + 1]
      <4>1. h \in Seq(A) /\ x \in A /\ f[i + 1] = Append(h, x)
        BY <2>1, <3>1
      <4> HIDE DEF h, x
      <4>2. /\ Elements(Append(h, x)) = Elements(h) \union {x}
            /\ NoDup(Append(h, x)) <=> NoDup(h) /\ x \notin Elements(h)
        BY <4>1, AppendEntries
      <4>3. /\ Elements(f[i + 1]) = Elements(h) \union {x}
            /\ NoDup(f[i + 1]) <=> NoDup(h) /\ x \notin Elements(h)
        BY <4>1, <4>2
      <4> QED
        BY <4>3 DEF h, x
    <3>3. ASSUME NoDup(seq) PROVE NoDup(f[i + 1])
      <4>1. seq[i + 1] \notin First(i)
        BY <3>3, <1>1 DEF NoDup
      <4>2. NoDup(f[i]) /\ seq[i + 1] \notin Elements(f[i])
        BY <3>3, <4>1, <1>4
      <4> QED
        BY <4>2, <3>2
    <3>4. Elements(f[i + 1]) = First(i + 1) \ D
      BY <3>2, <2>2, <2>4, <1>4
    <3> QED
      BY <3>3, <3>4, <1>1
  <2> QED
    BY <2>3, <2>4
<1>5. 0 .. Len(seq) \subseteq S
  <2> HIDE DEF S
  <2> QED
    BY <1>1, <1>3, <1>4, UpTo
<1>6. Len(seq) \in S
  BY <1>1, <1>5
<1>7. First(Len(seq)) = Elements(seq)
  BY <1>1 DEF Elements
<1> QED
  BY <1>1, <1>2, <1>6, <1>7

(* The first entry goes or stays, whatever becomes of the others. *)
LEMMA WithoutFirst ==
  ASSUME NEW A, NEW seq \in Seq(A), seq # <<>>, NEW D
  PROVE  Without(seq, D) =
           (IF Head(seq) \in D THEN <<>> ELSE <<Head(seq)>>) \o Without(Tail(seq), D)
<1> DEFINE short == Tail(seq)
           P == IF Head(seq) \in D THEN <<>> ELSE <<Head(seq)>>
<1>1. short \in Seq(A) /\ Len(seq) = Len(short) + 1 /\ Len(short) \in Nat /\ Head(seq) = seq[1] /\ Head(seq) \in A
  OBVIOUS
<1>2. \A n \in 1 .. Len(short) : short[n] = seq[n + 1]
  OBVIOUS
<1>3. P \in Seq(A)
  BY <1>1
<1>4. Without(Tail(seq), D) = Without(short, D)
  OBVIOUS
<1> HIDE DEF short
<1>5. PICK f : Computes(f, A, seq, D)
  BY WithoutDef
<1>6. PICK g : Computes(g, A, short, D)
  BY <1>1, WithoutDef
<1> USE DEF Computes
<1> DEFINE S == {n \in 0 .. Len(short) : f[n + 1] = P \o g[n]}
<1>7. 0 \in S
  <2>1. f[1] = Step(seq, D, <<>>, 1)
    BY <1>1, <1>5
  <2>2. f[1] = P
    BY <2>1, <1>1 DEF Step
  <2>3. P \o <<>> = P /\ g[0] = <<>> /\ 0 \in 0 .. Len(short)
    <3> HIDE DEF P
    <3> QED
      BY <1>1, <1>3, <1>6
  <2>4. f[0 + 1] = P \o g[0]
    <3> HIDE DEF P
    <3> QED
      BY <2>2, <2>3
  <2> QED
    BY <2>3, <2>4
<1>8. ASSUME NEW i \in 0 .. Len(short) - 1, i \in S PROVE i + 1 \in S
  <2>1. f[i + 2] = Step(seq, D, f[i + 1], i + 2) /\ g[i + 1] = Step(short, D, g[i], i + 1)
    <3>1. i + 2 \in 1 .. Len(seq) /\ i + 1 \in 1 .. Len(short) /\ (i + 2) - 1 = i + 1 /\ (i + 1) - 1 = i
      BY <1>1
    <3> QED
      BY <3>1, <1>5, <1>6
  <2>2. short[i + 1] = seq[i + 2] /\ seq[i + 2] \in A /\ g[i] \in Seq(A)
    <3>1. i + 1 \in 1 .. Len(short) /\ i \in 0 .. Len(short) /\ i + 2 \in 1 .. Len(seq) /\ (i + 1) + 1 = i + 2
      BY <1>1
    <3>2. seq[i + 2] \in A
      BY <3>1
    <3> QED
      BY <3>1, <3>2, <1>2, <1>6
  <2>2a. f[i + 1] = P \o g[i]
    BY <1>8
  <2>3. Append(P \o g[i], seq[i + 2]) = P \o Append(g[i], seq[i + 2])
    <3> DEFINE x == seq[i + 2]
               h == g[i]
    <3>1. P \in Seq(A) /\ h \in Seq(A) /\ x \in A
      BY <1>3, <2>2
    <3> HIDE DEF P, x, h
    <3>2. <<x>> \in Seq(A) /\ P \o h \in Seq(A)
      BY <3>1, ConcatProperties
    <3>3. Append(P \o h, x) = (P \o h) \o <<x>> /\ Append(h, x) = h \o <<x>>
      BY <3>1, <3>2, AppendIsConcat
    <3>4. (P \o h) \o <<x>> = P \o (h \o <<x>>)
      BY <3>1, <3>2, ConcatAssociative
    <3>5. Append(P \o h, x) = P \o Append(h, x)
      BY <3>3, <3>4
    <3> QED
      BY <3>5 DEF x, h
  <2>4. f[i + 2] = P \o g[i + 1]
    <3> HIDE DEF P, S
    <3>1. CASE seq[i + 2] \in D
      <4>1. f[i + 2] = f[i + 1] /\ g[i + 1] = g[i]
        BY <2>1, <2>2, <3>1 DEF Step
      <4> QED
        BY <4>1, <2>2a
    <3>2. CASE seq[i + 2] \notin D
      <4>1. f[i + 2] = Append(f[i + 1], seq[i + 2]) /\ g[i + 1] = Append(g[i], seq[i + 2])
        BY <2>1, <2>2, <3>2 DEF Step
      <4> QED
        BY <4>1, <2>2a, <2>3
    <3> QED
      BY <3>1, <3>2
  <2>5. i + 1 \in 0 .. Len(short) /\ (i + 1) + 1 = i + 2
    BY <1>1
  <2>6. f[(i + 1) + 1] = P \o g[i + 1]
    BY <2>4, <2>5
  <2> QED
    BY <2>5, <2>6
<1>9. 0 .. Len(short) \subseteq S
  <2> HIDE DEF S
  <2> QED
    BY <1>1, <1>7, <1>8, UpTo
<1>10. f[Len(short) + 1] = P \o g[Len(short)]
  <2>1. Len(short) \in S
    <3> HIDE DEF S
    <3> QED
      BY <1>1, <1>9
  <2> QED
    BY <2>1
<1> QED
  BY <1>1, <1>4, <1>5, <1>6, <1>10

(***************************************************************************)
(* What the theorems on blocks ask for, and why (see README.md).           *)
(***************************************************************************)
Listed == Elements(reqLibs)

(* No thread has two libraries of the request list. *)
OwnThread == \A k, l \in Listed : lsThread[k] = lsThread[l] => k = l

(* No symbol is defined in two of the selected modules. *)
OneDefiner == \A m, n \in marked : m # n => Defines[m] \cap Defines[n] = {}

(* Nothing is outstanding of a library that is put in the request list. *)
ListedEmpty == mpc = "add" => requested[rlib] = 0

------------------------------------------------------------------------------
(* Where main is.                                                          *)

Asking  == mpc \in {"add", "request", "countwrite", "number", "bumplib"}
Parsing == mpc = "parse" \/ (Asking /\ ctx = "parse")
Verifying == mpc \in {"verify", "waitread"}
InTurn  == Verifying \/ Parsing \/ mpc \in {"find", "deselect", "remove"}
Ending  == mpc \in {"bump", "close", "join", "finished"}

MainPlaces == {"top", "add", "request", "countwrite", "number", "bumplib", "find", "verify",
               "waitread", "parse", "deselect", "remove", "bump", "close", "join", "finished",
               "aborted"}
ThreadPlaces == {"unborn", "wait", "scan", "scanned", "pick", "seek", "read", "count",
                 "countwrite", "store", "signal", "dead"}

(* The lists of libraries. *)
LTypes ==
  /\ reqLibs \in Seq(Libs) /\ trList \in [Threads -> Seq(Libs)]
  /\ lsThread \in [Libs -> Threads \union {NoThread}]
  /\ nextThread \in 0 .. N_R_THREADS - 1
  /\ selected \in [Libs -> Nat]
  /\ cur \in Libs \union {None} /\ rlib \in Libs \union {None}
  /\ ctx \in {"top", "parse"} /\ mpc \in MainPlaces

InList(l) == l \in Listed /\ ~(mpc = "remove" /\ l = cur)

(* Where main is tells which library it works on and which are listed. *)
LMode ==
  mpc # "aborted" =>
    /\ cur # None <=> InTurn
    /\ InTurn => reqLibs # <<>>
    /\ \A l \in Libs : selected[l] > 0 <=> InList(l) \/ (mpc = "add" /\ l = rlib)
    /\ Asking => rlib \in Libs /\ (mpc = "add" <=> rlib \notin Listed)
    /\ Ending => reqLibs = <<>>

LInv == LTypes /\ NoDup(reqLibs) /\ ListsAgree /\ LMode

(* Libraries are dealt to the threads in turn. *)
DInv ==
  \A i \in DOMAIN reqLibs : lsThread[reqLibs[i]] = (nextThread + i - Len(reqLibs)) % N_R_THREADS

(* A selected module that has been, or is being, parsed; those that have   *)
(* not; and those that main has still to go through in a block.            *)
Parsed(m) == m \in marked /\ Defines[m] \cap defined # {}
Unparsed(l) == {m \in marked : LibOf[m] = l /\ ~Parsed(m)}
Left(l, b) == {m \in ModulesIn(l, b) : Parsed(m) => m = mod /\ b \in Elements(toRead)}

(* The modules of the libraries. *)
WTypes ==
  /\ wanted \in [Libs -> Seq(Symbols)]
  /\ roots \subseteq Symbols /\ pend \subseteq Symbols /\ defined \subseteq Symbols
  /\ marked \subseteq Modules /\ mod \in Modules \union {None}
  /\ toRead \in Seq(AllBlocks) /\ toRequest \in Seq(AllBlocks)

(* What is defined came from a selected module, with all of that module. *)
Origin == \A s \in defined : \E m \in marked : s \in Defines[m] /\ Defines[m] \subseteq defined

(* A symbol is wanted from its library, and selected its module. *)
WantedRight ==
  \A l \in Libs : \A s \in Elements(wanted[l]) :
    s \notin defined /\ LibOf[ModuleOf[s]] = l /\ ModuleOf[s] \in marked

(* A module to come is wanted. *)
StillWanted ==
  \A m \in marked : ~Parsed(m) => \E s \in Elements(wanted[LibOf[m]]) : ModuleOf[s] = m

(* The count of selected modules: those to come, and the one in its turn. *)
InWork(l) == cur = l /\ mpc \notin {"find", "remove"} /\ Parsed(mod)
SelectedCounts ==
  \A l \in Libs : selected[l] = Cardinality(Unparsed(l)) + (IF InWork(l) THEN 1 ELSE 0)

(* The module in its turn, and the blocks of it still to be gone through. *)
ModuleInTurn ==
  /\ Verifying \/ Parsing \/ mpc = "deselect" => mod \in marked /\ LibOf[mod] = cur
  /\ Verifying \/ Parsing =>
       toRead # <<>> /\ NoDup(toRead) /\ Elements(toRead) \subseteq Elements(BlocksOf[mod])
  /\ Verifying => IF Parsed(mod) THEN Len(toRead) < Len(BlocksOf[mod])
                                 ELSE toRead = BlocksOf[mod]
  /\ Parsing \/ mpc = "deselect" => Parsed(mod)
  /\ Parsing => Len(toRead) <= Len(BlocksOf[mod])
  /\ ~(Verifying \/ Parsing) => toRead = <<>>

(* The blocks to be requested are a module's that was just selected. *)
RequestRight ==
  Asking => /\ toRequest # <<>>
            /\ \E m \in marked : /\ LibOf[m] = rlib /\ ~Parsed(m)
                                 /\ Elements(toRequest) \subseteq Elements(BlocksOf[m])

WInv ==
  /\ WTypes /\ Origin /\ WantedRight /\ StillWanted /\ SelectedCounts /\ ModuleInTurn
  /\ RequestRight

(* Requested, and not in the table. *)
Out(l) == {b \in flagged[l] : table[l][b] = NoBlock}

BTypes ==
  /\ flagged \in [Libs -> SUBSET AllBlocks]
  /\ table \in [Libs -> [AllBlocks -> AllBlocks \union {NoBlock}]]
  /\ modsLeft \in [Libs -> [AllBlocks -> Nat]]
  /\ handleOpen \in [Libs -> BOOLEAN]

(* Of each block main knows how many modules are to come, and no slot holds *)
(* another block.                                                          *)
Counted ==
  \A l \in Libs, b \in AllBlocks : /\ modsLeft[l][b] = Cardinality(Left(l, b))
                                   /\ table[l][b] \in {NoBlock, b}

(* While libraries are read: what is in the table was requested, what was  *)
(* requested is still of use, if outstanding for a selected module, and    *)
(* the file of what is still of use is open.                               *)
Flags ==
  /\ \A l \in Libs, b \in AllBlocks : table[l][b] # NoBlock => b \in flagged[l]
  /\ \A l \in Libs : \A b \in flagged[l] : modsLeft[l][b] > 0
  /\ \A l \in Libs : \A b \in Out(l) : Left(l, b) \cap marked # {}
  /\ \A l \in Libs, b \in AllBlocks : modsLeft[l][b] > 0 => handleOpen[l]

(* The block that main parses, and the one it has just requested. *)
AtBlock ==
  /\ Parsing => table[cur][Head(toRead)] = Head(toRead)
  /\ mpc \in {"countwrite", "number"} => Head(toRequest) \in Out(rlib)

BInv == BTypes /\ Counted /\ (~libsDone => Flags) /\ AtBlock

(* What the thread has still to take from the request array; the unit of   *)
(* its semaphore it has taken and not used; the unit main has still to give.*)
Pending(l) == nextTr[l] + 1 .. Len(reqArray[l])
Unit(t) == IF tpc[t] \in {"scan", "pick"} \/ (tpc[t] = "scanned" /\ tlib[t] # None) THEN 1 ELSE 0
Owed(l) == IF mpc = "bumplib" /\ rlib = l THEN 1 ELSE 0

QTypes ==
  /\ requested \in [Libs -> Int]
  /\ reqArray \in [Libs -> Seq(AllBlocks)] /\ nextTr \in [Libs -> Nat]
  /\ filePos \in [Libs -> Int]
  /\ libSem \in [Threads -> Nat] /\ readSem \in [Threads -> Nat]
  /\ tpc \in [Threads -> ThreadPlaces]
  /\ tlib \in [Threads -> Libs \union {None}] /\ tblk \in [Threads -> Int]
  /\ tbuf \in [Threads -> Nat] /\ treg \in [Threads -> Int]
  /\ Order!SemTypeOK
  /\ mreg \in Int /\ libsDone \in BOOLEAN /\ stop \in 0 .. N_R_THREADS - 1

(* A thread reads for a library of its own. *)
HasLib(t) == Working(t) \/ (tpc[t] = "scanned" /\ tlib[t] # None)
OwnLib == \A t \in Threads : HasLib(t) => tlib[t] \in Libs /\ lsThread[tlib[t]] = t

(* The end of the libraries, which no thread meets at work. *)
EndInv ==
  /\ mpc # "aborted"
  /\ libsDone <=> Ending
  /\ \A t \in Threads : IF libsDone THEN tpc[t] \notin {"scan"} /\ ~HasLib(t)
                                    ELSE tpc[t] # "dead"

(* The numbers in the request array are of different outstanding blocks. *)
PendingRight ==
  \A l \in Libs :
    /\ nextTr[l] <= Len(reqArray[l])
    /\ \A i \in Pending(l) : reqArray[l][i] \in Out(l)
    /\ \A i, j \in Pending(l) : reqArray[l][i] = reqArray[l][j] => i = j

(* What a thread has taken from it is no longer there. *)
TakenRight ==
  \A t \in Threads : Chosen(t) =>
    /\ tblk[t] \in Out(tlib[t])
    /\ \A i \in Pending(tlib[t]) : reqArray[tlib[t]][i] # tblk[t]
    /\ tpc[t] = "read" => filePos[tlib[t]] = tblk[t]
    /\ tpc[t] \in {"count", "countwrite", "store"} => tbuf[t] = tblk[t]

(* The block that main is about to store the number of is not there yet. *)
NumberNew ==
  mpc \in {"countwrite", "number"} =>
    /\ \A i \in Pending(rlib) : reqArray[rlib][i] # Head(toRequest)
    /\ \A t \in Threads : Chosen(t) /\ tlib[t] = rlib => tblk[t] # Head(toRequest)

(* Nothing is outstanding of a library that is not listed. *)
Quiet == \A l \in Libs : l \notin Listed => Out(l) = {} /\ nextTr[l] = Len(reqArray[l])

(* A thread has no more units than there are numbers for it. *)
UnitsRight ==
  \A t \in Threads :
    /\ (\A l \in Listed : lsThread[l] # t) => libSem[t] = 0 /\ Unit(t) = 0
    /\ \A l \in Listed : lsThread[l] = t =>
         libSem[t] + Unit(t) + Owed(l) <= Len(reqArray[l]) - nextTr[l]

(* The threads. *)
QInv ==
  /\ QTypes /\ OwnLib /\ EndInv
  /\ ~libsDone => PendingRight /\ TakenRight /\ NumberNew /\ Quiet /\ UnitsRight

(* With one processor the counts are exact: what is requested is in the    *)
(* array, being read or about to be stored in the array; the thread of the *)
(* library has or will have a unit for each number in it; and a block that *)
(* is outstanding is in it, in the thread's hands or in main's.            *)
ReadingFor(l) == {t \in Threads : tlib[t] = l /\ tpc[t] \in {"seek", "read", "count"}}
Reads(l) == IF ReadingFor(l) # {} THEN 1 ELSE 0
Storing(l) == IF mpc = "number" /\ rlib = l THEN 1 ELSE 0

OneInstruction ==
  /\ mpc # "countwrite"
  /\ \A t \in Threads : tpc[t] # "countwrite" /\ (tpc[t] = "scanned" => tlib[t] # None)

RequestedIs ==
  \A l \in Libs : requested[l] = Len(reqArray[l]) - nextTr[l] + Reads(l) + Storing(l)

UnitsAre ==
  \A l \in Listed :
    libSem[lsThread[l]] + Unit(lsThread[l]) + Owed(l) = Len(reqArray[l]) - nextTr[l]

NoneLost ==
  \A l \in Libs : \A b \in Out(l) :
    \/ \E i \in Pending(l) : reqArray[l][i] = b
    \/ \E t \in Threads : Chosen(t) /\ tlib[t] = l /\ tblk[t] = b
    \/ mpc = "number" /\ rlib = l /\ Head(toRequest) = b

CInv == ~libsDone => OneInstruction /\ RequestedIs /\ UnitsAre /\ NoneLost

------------------------------------------------------------------------------
(* Steps.                                                                  *)

listVars == <<reqLibs, trList, lsThread, nextThread, selected, cur, rlib, ctx>>
bookVars == <<wanted, roots, pend, defined, marked, mod, toRead, toRequest>>
blockVars == <<flagged, modsLeft, handleOpen, reqArray, libsDone, stop, mreg>>

(* A capture of the semaphore, and the post behind a release, touch only   *)
(* the semaphore.                                                          *)
LEMMA CaptureFrame ==
  ASSUME NEW p \in Procs, Capture(p) \/ ReleasePost(p)
  PROVE  UNCHANGED <<libVars, trList, threadVars, semVars, mainVars>>
BY DEF Capture, ReleasePost

(* A thread leaves main's state alone, unless it ends the process.         *)
LEMMA ThreadFrame ==
  ASSUME NEW t \in Threads, LibReadT(t)
  PROVE  /\ UNCHANGED <<listVars, bookVars, blockVars>>
         /\ mpc' = mpc \/ (mpc' = "aborted" /\ mpc # "aborted")
<1> USE DEF listVars, bookVars, blockVars, libVars, threadVars, semVars, mainVars, orderVars
<1>1. t \in Procs
  BY DEF Procs
<1>2. CASE Capture(t) \/ ReleasePost(t)
  BY <1>1, <1>2, CaptureFrame
<1>3. CASE TakeUnit(t)
  BY <1>3 DEF TakeUnit
<1>4. CASE Scan(t)
  BY <1>4 DEF Scan
<1>5. CASE Scanned(t)
  BY <1>5 DEF Scanned
<1>6. CASE Pick(t)
  BY <1>6 DEF Pick, Fail, At, Advance
<1>7. CASE Seek(t)
  BY <1>7 DEF Seek, Fail, At
<1>8. CASE Read(t)
  BY <1>8 DEF Read, Fail, At
<1>9. CASE Uncount(t)
  BY <1>9 DEF Uncount
<1>10. CASE UncountWrite(t)
  BY <1>10 DEF UncountWrite
<1>11. CASE Store(t)
  BY <1>11 DEF Store
<1>12. CASE Signal(t)
  BY <1>12 DEF Signal
<1> QED
  BY <1>2, <1>3, <1>4, <1>5, <1>6, <1>7, <1>8, <1>9, <1>10, <1>11, <1>12 DEF LibReadT

------------------------------------------------------------------------------
(* The request list and the lists of the threads.                          *)

Others(t) == {l \in Libs : lsThread[l] # t}

LEMMA ThreadsAre == \A i \in 0 .. N_R_THREADS - 1 : i \in Threads /\ i # NoThread
BY LibReadAssumption DEF Threads, NoThread

LEMMA NextThreadIs ==
  ASSUME NEW t \in 0 .. N_R_THREADS - 1
  PROVE  NextReadlibThread(t) \in 0 .. N_R_THREADS - 1
BY LibReadAssumption DEF NextReadlibThread

(* ListsAgree, for lists that did not change. *)
LEMMA ListsStay ==
  ASSUME ListsAgree, UNCHANGED <<trList, reqLibs, lsThread>>, cur' = cur \/ cur' = Head(reqLibs)
  PROVE  ListsAgree'
BY DEF ListsAgree

(* What follows the first entry. *)
LEMMA BehindFirst ==
  ASSUME NEW A, NEW list \in Seq(A), list # <<>>, NoDup(list)
  PROVE  Behind(list, Head(list)) = Tail(list)
<1>1. 1 \in DOMAIN list /\ list[1] = Head(list)
  OBVIOUS
<1>2. \A k \in DOMAIN list : list[k] = Head(list) => k = 1
  BY <1>1 DEF NoDup
<1> DEFINE first == CHOOSE k \in DOMAIN list : list[k] = Head(list)
<1>3. Behind(list, Head(list)) = SubSeq(list, first + 1, Len(list))
  BY DEF Behind
<1>4. first = 1
  <2>1. first \in DOMAIN list /\ list[first] = Head(list)
    BY <1>1
  <2> HIDE DEF first
  <2> QED
    BY <2>1, <1>2
<1> HIDE DEF first
<1> QED
  BY <1>3, <1>4, TailIsSubSeq

(* What is behind the first entry. *)
LEMMA TailEntries ==
  ASSUME NEW A, NEW seq \in Seq(A), seq # <<>>
  PROVE  /\ Tail(seq) \in Seq(A) /\ Len(Tail(seq)) = Len(seq) - 1
         /\ Head(seq) \in A /\ Head(seq) \in Elements(seq)
         /\ Elements(seq) = Elements(Tail(seq)) \union {Head(seq)}
         /\ NoDup(seq) => NoDup(Tail(seq)) /\ Head(seq) \notin Elements(Tail(seq))
<1> DEFINE rest == Tail(seq)
           e == Head(seq)
<1>1. rest \in Seq(A) /\ Len(seq) = Len(rest) + 1 /\ Len(rest) \in Nat
      /\ e \in A /\ 1 \in DOMAIN seq /\ seq[1] = e
      /\ \A i \in 1 .. Len(rest) : rest[i] = seq[i + 1]
  OBVIOUS
<1>2. /\ DOMAIN rest = 1 .. Len(rest) /\ DOMAIN seq = 1 .. Len(rest) + 1
  BY <1>1
<1> HIDE DEF rest, e
<1>3. \A i \in DOMAIN rest : /\ i + 1 \in DOMAIN seq /\ rest[i] = seq[i + 1]
                              /\ i + 1 # 1 /\ i \in Nat
  BY <1>1, <1>2
<1>4. ASSUME NoDup(seq) PROVE NoDup(rest)
  <2> SUFFICES ASSUME NEW i \in DOMAIN rest, NEW j \in DOMAIN rest, rest[i] = rest[j]
               PROVE  i = j
    BY DEF NoDup
  <2>1. i + 1 = j + 1
    BY <1>3, <1>4 DEF NoDup
  <2> QED
    BY <2>1, <1>3
<1>5. ASSUME NoDup(seq) PROVE e \notin Elements(rest)
  <2> SUFFICES ASSUME NEW i \in DOMAIN rest, rest[i] = e PROVE FALSE
    BY DEF Elements
  <2> QED
    BY <1>1, <1>3, <1>5 DEF NoDup
<1>6. \A i \in DOMAIN seq : i # 1 => i - 1 \in DOMAIN rest /\ seq[i] = rest[i - 1]
  <2>1. ASSUME NEW i \in DOMAIN seq, i # 1
        PROVE  i - 1 \in DOMAIN rest /\ seq[i] = rest[i - 1]
    <3>1. i - 1 \in DOMAIN rest /\ (i - 1) + 1 = i
      BY <1>1, <1>2, <2>1
    <3> QED
      BY <3>1, <1>3
  <2> QED
    BY <2>1
<1>7. Elements(seq) = Elements(rest) \union {e}
  <2>1. \A i \in DOMAIN rest : rest[i] \in Elements(seq)
    BY <1>3 DEF Elements
  <2>2. Elements(rest) \subseteq Elements(seq) /\ e \in Elements(seq)
    BY <2>1, <1>1 DEF Elements
  <2>3. Elements(seq) \subseteq Elements(rest) \union {e}
    BY <1>1, <1>6 DEF Elements
  <2> QED
    BY <2>2, <2>3
<1> QED
  BY <1>1, <1>4, <1>5, <1>7 DEF rest, e

(* The library behind the last one is dealt to a thread. *)
LEMMA AddLists ==
  ASSUME LTypes, NoDup(reqLibs), ListsAgree, AddToRequestList, rlib \in Libs, rlib \notin Listed,
         cur # None => reqLibs # <<>>
  PROVE  /\ reqLibs' = Append(reqLibs, rlib) /\ Listed' = Listed \union {rlib}
         /\ NoDup(reqLibs)' /\ ListsAgree'
         /\ lsThread' = [lsThread EXCEPT ![rlib] = NextReadlibThread(nextThread)]
         /\ trList' \in [Threads -> Seq(Libs)]
<1> DEFINE t == NextReadlibThread(nextThread)
           W(u) == Without(reqLibs, Others(u))
<1>1. /\ trList' = [trList EXCEPT ![t] = Append(@, rlib)]
      /\ lsThread' = [lsThread EXCEPT ![rlib] = t]
      /\ reqLibs' = Append(reqLibs, rlib) /\ cur' = cur
  BY DEF AddToRequestList
<1>2. t \in Threads /\ t # NoThread
  BY NextThreadIs, ThreadsAre DEF LTypes
<1> HIDE DEF t
<1>3. reqLibs \in Seq(Libs) /\ trList \in [Threads -> Seq(Libs)] /\ Elements(reqLibs) = Listed
      /\ lsThread \in [Libs -> Threads \union {NoThread}]
  BY DEF LTypes, Listed
<1>4. Elements(Append(reqLibs, rlib)) = Listed \union {rlib} /\ NoDup(Append(reqLibs, rlib))
  BY <1>3, AppendEntries
<1>5. Listed' = Listed \union {rlib} /\ NoDup(reqLibs)'
  BY <1>1, <1>4 DEF Listed
<1>6. trList' \in [Threads -> Seq(Libs)]
  BY <1>1, <1>2, <1>3
<1>7. lsThread[rlib] = NoThread
  BY <1>3 DEF ListsAgree
<1>8. ASSUME NEW u \in Threads PROVE trList'[u] = Without(reqLibs', Others(u)')
  <2>0. Others(u)' = {l \in Libs : lsThread'[l] # u} /\ trList[u] = W(u) /\ u # NoThread
    <3>1. Others(u)' = {l \in Libs : lsThread'[l] # u}
      BY DEF Others
    <3>2. trList[u] = Without(reqLibs, Others(u))
      BY DEF ListsAgree, Others
    <3>3. u # NoThread
      BY DEF Threads, NoThread
    <3> QED
      BY <3>1, <3>2, <3>3
  <2>1. \A l \in Libs \ {rlib} : lsThread'[l] = lsThread[l]
    BY <1>1, <1>3
  <2>2. lsThread'[rlib] = t
    BY <1>1, <1>3
  <2>3. rlib \in Others(u) /\ \A x \in Elements(reqLibs) : x \in Others(u)' <=> x \in Others(u)
    <3>1. rlib \in Others(u)
      BY <1>7, <2>0 DEF Others
    <3>2. ASSUME NEW x \in Elements(reqLibs) PROVE x \in Others(u)' <=> x \in Others(u)
      <4>1. x \in Libs /\ x # rlib
        BY <1>3 DEF Elements
      <4> QED
        BY <4>1, <2>0, <2>1 DEF Others
    <3> QED
      BY <3>1, <3>2
  <2>4. Without(reqLibs, Others(u)') = W(u)
    BY <1>3, <2>3, WithoutSame
  <2>5. Without(Append(reqLibs, rlib), Others(u)') =
          IF rlib \in Others(u)' THEN W(u) ELSE Append(W(u), rlib)
    BY <1>3, <2>4, WithoutAppend
  <2>6. rlib \in Others(u)' <=> u # t
    BY <2>0, <2>2
  <2>7. trList'[u] = IF u = t THEN Append(trList[u], rlib) ELSE trList[u]
    BY <1>1, <1>2, <1>3
  <2> QED
    BY <2>0, <2>5, <2>6, <2>7, <1>1
<1>9. \A l \in Libs : lsThread'[l] # NoThread <=> l \in Listed'
  BY <1>1, <1>2, <1>3, <1>5, <1>7 DEF ListsAgree
<1>10. cur' # None => cur' = Head(reqLibs')
  <2>1. ASSUME cur # None PROVE Head(Append(reqLibs, rlib)) = Head(reqLibs)
    BY <2>1, <1>3
  <2> QED
    BY <1>1, <2>1 DEF ListsAgree
<1>11. \A u \in Threads : trList'[u] = Without(reqLibs', {l \in Libs : lsThread'[l] # u})
  BY <1>8 DEF Others
<1>12. ListsAgree'
  BY <1>5, <1>9, <1>10, <1>11 DEF ListsAgree, Listed
<1> QED
  BY <1>1, <1>5, <1>6, <1>12 DEF t

(* The first library leaves the list of main and the list of its thread.   *)
LEMMA RemoveLists ==
  ASSUME LTypes, NoDup(reqLibs), ListsAgree, RemoveFromRequestList, cur # None, reqLibs # <<>>
  PROVE  /\ cur \in Libs /\ cur = Head(reqLibs) /\ lsThread[cur] \in Threads
         /\ reqLibs' = Tail(reqLibs) /\ Listed' = Listed \ {cur}
         /\ NoDup(reqLibs)' /\ ListsAgree'
         /\ lsThread' = [lsThread EXCEPT ![cur] = NoThread]
         /\ trList' \in [Threads -> Seq(Libs)]
<1> DEFINE t == lsThread[cur]
           rest == Tail(reqLibs)
<1>1. /\ trList' = [trList EXCEPT ![t] = Behind(@, cur)]
      /\ lsThread' = [lsThread EXCEPT ![cur] = NoThread]
      /\ reqLibs' = Behind(reqLibs, cur) /\ cur' = None
  BY DEF RemoveFromRequestList
<1>2. reqLibs \in Seq(Libs) /\ trList \in [Threads -> Seq(Libs)] /\ Elements(reqLibs) = Listed
      /\ lsThread \in [Libs -> Threads \union {NoThread}] /\ cur \in Libs
  BY DEF LTypes, Listed
<1>3. cur = Head(reqLibs) /\ cur \in Listed /\ reqLibs[1] = cur
  <2>1. cur = Head(reqLibs)
    BY DEF ListsAgree
  <2>2. 1 \in DOMAIN reqLibs /\ Head(reqLibs) = reqLibs[1]
    BY <1>2
  <2> QED
    BY <2>1, <2>2 DEF Listed, Elements
<1>4. t \in Threads
  BY <1>2, <1>3 DEF ListsAgree, Listed
<1>5. reqLibs' = rest
  BY <1>1, <1>2, <1>3, BehindFirst
<1>6. rest \in Seq(Libs)
  BY <1>2
<1>7. NoDup(rest) /\ Elements(rest) = Listed \ {cur}
  BY <1>2, <1>3, TailEntries
<1> HIDE DEF rest
<1>8. Listed' = Listed \ {cur} /\ NoDup(reqLibs)'
  BY <1>5, <1>7 DEF Listed
<1>9. ASSUME NEW u \in Threads
      PROVE  trList'[u] = Without(rest, Others(u)') /\ trList'[u] \in Seq(Libs)
  <2>0. Others(u)' = {l \in Libs : lsThread'[l] # u} /\ trList[u] = Without(reqLibs, Others(u))
        /\ u # NoThread
    <3>1. Others(u)' = {l \in Libs : lsThread'[l] # u}
      BY DEF Others
    <3>2. trList[u] = Without(reqLibs, Others(u))
      BY DEF ListsAgree, Others
    <3>3. u # NoThread
      BY DEF Threads, NoThread
    <3> QED
      BY <3>1, <3>2, <3>3
  <2>1. \A l \in Libs \ {cur} : lsThread'[l] = lsThread[l]
    BY <1>1, <1>2
  <2>2. \A x \in Elements(rest) : x \in Others(u)' <=> x \in Others(u)
    <3>1. ASSUME NEW x \in Elements(rest) PROVE x \in Others(u)' <=> x \in Others(u)
      <4>1. x \in Libs /\ x # cur
        BY <1>6, <1>7 DEF Elements
      <4> QED
        BY <4>1, <2>0, <2>1 DEF Others
    <3> QED
      BY <3>1
  <2>3. Without(rest, Others(u)') = Without(rest, Others(u))
    BY <1>6, <2>2, WithoutSame
  <2>4. trList[u] = (IF cur \in Others(u) THEN <<>> ELSE <<cur>>) \o Without(rest, Others(u))
    BY <1>2, <1>3, <2>0, WithoutFirst DEF rest
  <2>5. Without(rest, Others(u)) \in Seq(Libs)
    BY <1>6, WithoutKeeps
  <2>6. CASE u = t
    <3>1. cur \notin Others(u)
      BY <2>6 DEF Others
    <3>2. NoDup(trList[u])
      BY <1>2, <2>0, WithoutKeeps
    <3>3. trList[u] = <<cur>> \o Without(rest, Others(u))
      BY <2>4, <3>1
    <3>4. Head(trList[u]) = cur /\ Tail(trList[u]) = Without(rest, Others(u)) /\ trList[u] # <<>>
      <4> DEFINE W == Without(rest, Others(u))
      <4>1. W \in Seq(Libs) /\ trList[u] = <<cur>> \o W
        BY <2>5, <3>3
      <4> HIDE DEF W
      <4>2. Head(<<cur>> \o W) = cur /\ Tail(<<cur>> \o W) = W /\ <<cur>> \o W # <<>>
        BY <4>1, <1>2
      <4> QED
        BY <4>1, <4>2 DEF W
    <3>5. Behind(trList[u], cur) = Without(rest, Others(u))
      BY <3>2, <3>4, <1>2, BehindFirst
    <3>6. trList'[u] = Behind(trList[u], cur)
      BY <1>1, <1>2, <2>6
    <3> QED
      BY <3>5, <3>6, <2>3, <2>5
  <2>7. CASE u # t
    <3>1. cur \in Others(u)
      BY <2>7, <1>2 DEF Others
    <3>2. trList[u] = Without(rest, Others(u))
      <4> DEFINE W == Without(rest, Others(u))
      <4>1. W \in Seq(Libs) /\ trList[u] = <<>> \o W
        BY <2>5, <2>4, <3>1
      <4> HIDE DEF W
      <4>2. <<>> \o W = W
        BY <4>1
      <4> QED
        BY <4>1, <4>2 DEF W
    <3>3. trList'[u] = trList[u]
      BY <1>1, <1>2, <2>7
    <3> QED
      BY <3>2, <3>3, <2>3, <2>5
  <2> QED
    BY <2>6, <2>7
<1>10. trList' \in [Threads -> Seq(Libs)]
  <2>1. DOMAIN trList' = Threads /\ trList' = [u \in Threads |-> trList'[u]]
    BY <1>1, <1>2
  <2> QED
    BY <2>1, <1>9
<1>11. \A l \in Libs : lsThread'[l] # NoThread <=> l \in Listed'
  BY <1>1, <1>2, <1>8 DEF ListsAgree, Listed
<1>12. \A u \in Threads : trList'[u] = Without(reqLibs', {l \in Libs : lsThread'[l] # u})
  BY <1>5, <1>9 DEF Others
<1>13. ListsAgree'
  BY <1>1, <1>11, <1>12 DEF ListsAgree, Listed
<1> QED
  BY <1>1, <1>2, <1>3, <1>4, <1>5, <1>8, <1>10, <1>13 DEF t, rest


(* The steps of main, one by one, and what it waits for.                   *)
LEMMA MainSteps ==
  ASSUME MainStep
  PROVE  \/ \E s \in Symbols : Reference(s)
         \/ Capture(Main) \/ ReleasePost(Main)
         \/ AddToRequestList \/ RequestBlock \/ CountWrite \/ StoreNumber \/ BumpLib
         \/ SelectLibrary \/ FindModule \/ VerifyBlock \/ WaitRead \/ DecLibBlock
         \/ Deselect \/ RemoveFromRequestList
         \/ LibrariesDone \/ Bump \/ CloseLibFiles \/ Join
BY DEF MainStep

LEMMA InitLInv == Init => LInv
<1> SUFFICES ASSUME Init PROVE LInv
  OBVIOUS
<1> USE DEF Init
<1>1. Elements(reqLibs) = {}
  BY DEF Elements
<1>2. LTypes
  <2>1. N_R_THREADS - 1 \in 0 .. N_R_THREADS - 1
    BY LibReadAssumption
  <2> QED
    BY <2>1 DEF LTypes, MainPlaces
<1>3. NoDup(reqLibs)
  BY DEF NoDup
<1>4. ListsAgree
  BY <1>1, WithoutEmpty DEF ListsAgree
<1>5. LMode
  BY <1>1, LibReadAssumption DEF LMode, Listed, InTurn, Verifying, Parsing, Asking, Ending, InList
<1> QED
  BY <1>2, <1>3, <1>4, <1>5 DEF LInv

LEMMA StepLInv == LInv /\ [Next]_vars => LInv'
<1> SUFFICES ASSUME LInv, [Next]_vars PROVE LInv'
  OBVIOUS
<1> USE DEF LInv
<1>1. ASSUME UNCHANGED <<reqLibs, trList, lsThread>>, cur' = cur \/ cur' = Head(reqLibs)
      PROVE  NoDup(reqLibs)' /\ ListsAgree' /\ Listed' = Listed
  BY <1>1, ListsStay DEF Listed
<1>2. ASSUME UNCHANGED listVars, mpc' = mpc \/ mpc' = "aborted"
      PROVE  LInv'
  <2>1. LTypes'
    BY <1>2 DEF listVars, LTypes, MainPlaces
  <2>2. LMode'
    BY <1>2 DEF listVars, LMode, InTurn, Verifying, Parsing, Asking, Ending, InList, Listed
  <2> QED
    BY <1>1, <1>2, <2>1, <2>2 DEF listVars
<1>3. CASE UNCHANGED vars
  BY <1>2, <1>3 DEF vars, libVars, mainVars, listVars
<1>4. ASSUME NEW t \in Threads, LibReadT(t) PROVE LInv'
  BY <1>2, <1>4, ThreadFrame
<1>5. CASE Capture(Main) \/ ReleasePost(Main)
  BY <1>2, <1>5, CaptureFrame DEF libVars, mainVars, listVars, Procs
<1> USE DEF MainGoto
<1>6. ASSUME NEW s \in Symbols, Reference(s) PROVE LInv'
  <2> DEFINE l == LibOf[ModuleOf[s]]
  <2>1. l \in Libs
    BY LibReadAssumption
  <2>2. /\ UNCHANGED <<reqLibs, trList, lsThread, nextThread, cur>> /\ mpc \in {"top", "parse"}
        /\ \/ UNCHANGED <<selected, rlib, ctx, mpc>>
           \/ /\ selected' = [selected EXCEPT ![l] = @ + 1] /\ rlib' = l /\ ctx' = mpc
              /\ mpc' = IF selected[l] = 0 THEN "add" ELSE "request"
    BY <1>6 DEF Reference, FirstModule
  <2> HIDE DEF l
  <2>3. CASE UNCHANGED <<selected, rlib, ctx, mpc>>
    BY <1>2, <2>2, <2>3 DEF listVars
  <2>4. CASE /\ selected' = [selected EXCEPT ![l] = @ + 1] /\ rlib' = l /\ ctx' = mpc
             /\ mpc' = IF selected[l] = 0 THEN "add" ELSE "request"
    <3>1. LTypes'
      BY <2>1, <2>2, <2>4 DEF LTypes, MainPlaces
    <3>2. selected[l] = 0 <=> l \notin Listed
      BY <2>1, <2>2 DEF LMode, InList, LTypes
    <3>3. /\ mpc' \in {"add", "request"} /\ (mpc' = "add" <=> l \notin Listed) /\ ctx' = mpc
          /\ rlib' = l /\ Listed' = Listed /\ cur' = cur /\ reqLibs' = reqLibs
      BY <1>1, <2>2, <2>4, <3>2
    <3>4. \A k \in Libs : selected'[k] > 0 <=> k = l \/ k \in Listed
      BY <2>1, <2>2, <2>4 DEF LMode, InList, LTypes
    <3>5. \A k \in Libs : selected'[k] > 0 <=> InList(k)' \/ (mpc' = "add" /\ k = rlib')
      BY <3>3, <3>4 DEF InList
    <3>6. /\ InTurn' <=> InTurn
          /\ Asking' /\ ~Ending'
      BY <2>2, <3>3 DEF InTurn, Verifying, Parsing, Asking, Ending
    <3>7. LMode'
      <4>1. (cur # None <=> InTurn) /\ (InTurn => reqLibs # <<>>)
        BY <2>2 DEF LMode
      <4> QED
        BY <2>1, <3>3, <3>5, <3>6, <4>1 DEF LMode
    <3> QED
      BY <1>1, <2>2, <3>1, <3>7
  <2> QED
    BY <2>2, <2>3, <2>4
<1>7. CASE AddToRequestList
  <2>1. /\ mpc = "add" /\ mpc' = "request" /\ UNCHANGED <<selected, cur, rlib, ctx>>
        /\ nextThread' = NextReadlibThread(nextThread)
    BY <1>7 DEF AddToRequestList
  <2>2. /\ rlib \in Libs /\ rlib \notin Listed /\ (cur # None => reqLibs # <<>>)
    BY <2>1 DEF LMode, Asking
  <2>3. /\ reqLibs' = Append(reqLibs, rlib) /\ Listed' = Listed \union {rlib}
        /\ NoDup(reqLibs)' /\ ListsAgree'
        /\ lsThread' = [lsThread EXCEPT ![rlib] = NextReadlibThread(nextThread)]
        /\ trList' \in [Threads -> Seq(Libs)]
    BY <1>7, <2>2, AddLists
  <2>4. NextReadlibThread(nextThread) \in 0 .. N_R_THREADS - 1
        /\ NextReadlibThread(nextThread) \in Threads
    BY NextThreadIs, ThreadsAre DEF LTypes
  <2>5. LTypes'
    <3>1. reqLibs' \in Seq(Libs)
      BY <2>2, <2>3 DEF LTypes
    <3> QED
      BY <2>1, <2>3, <2>4, <3>1 DEF LTypes, MainPlaces
  <2>6. reqLibs' # <<>>
    BY <2>2, <2>3 DEF LTypes
  <2>7. LMode'
    <3>1. \A k \in Libs : selected'[k] > 0 <=> InList(k)' \/ (mpc' = "add" /\ k = rlib')
      BY <2>1, <2>2, <2>3 DEF LMode, InList
    <3>2. InTurn' <=> InTurn
      BY <2>1 DEF InTurn, Verifying, Parsing, Asking
    <3>3. Asking' /\ ~Ending' /\ mpc' # "add" /\ rlib' \in Listed' /\ rlib' \in Libs
      BY <2>1, <2>2, <2>3 DEF Asking, Ending
    <3>4. cur' # None <=> InTurn'
      BY <2>1, <3>2 DEF LMode
    <3> QED
      BY <2>6, <3>1, <3>3, <3>4 DEF LMode
  <2> QED
    BY <2>3, <2>5, <2>7
<1>8. ASSUME RequestBlock \/ CountWrite \/ StoreNumber \/ BumpLib PROVE LInv'
  <2>1. /\ UNCHANGED <<reqLibs, trList, lsThread, nextThread, selected, cur, rlib, ctx>>
        /\ mpc \in {"request", "countwrite", "number", "bumplib"}
        /\ mpc' \in {"request", "countwrite", "number", "bumplib", ctx}
    BY <1>8 DEF RequestBlock, CountWrite, StoreNumber, BumpLib, RequestRest, libVars
  <2>2. LTypes'
    BY <2>1 DEF LTypes, MainPlaces
  <2>3. LMode'
    BY <2>1 DEF LTypes, LMode, InTurn, Verifying, Parsing, Asking, Ending, InList, Listed
  <2> QED
    BY <1>1, <2>1, <2>2, <2>3
<1>9. CASE SelectLibrary
  <2>1. /\ UNCHANGED <<reqLibs, trList, lsThread, nextThread, selected, rlib, ctx>>
        /\ mpc = "top" /\ mpc' = "find" /\ cur' = Head(reqLibs) /\ reqLibs # <<>>
    BY <1>9 DEF SelectLibrary, libVars, LTypes
  <2>2. LTypes' /\ cur' # None
    BY <2>1, LibReadAssumption DEF LTypes, MainPlaces
  <2>3. LMode'
    BY <2>1, <2>2 DEF LTypes, LMode, InTurn, Verifying, Parsing, Asking, Ending, InList, Listed
  <2> QED
    BY <1>1, <2>1, <2>2, <2>3
<1>10. ASSUME FindModule \/ VerifyBlock \/ WaitRead \/ DecLibBlock PROVE LInv'
  <2>1. /\ UNCHANGED <<reqLibs, trList, lsThread, nextThread, selected, cur, rlib, ctx>>
        /\ mpc \in {"find", "verify", "waitread", "parse"}
        /\ mpc' \in {"verify", "waitread", "parse", "deselect"}
    BY <1>10 DEF FindModule, VerifyBlock, WaitRead, DecLibBlock, AfterWait, libVars
  <2>2. LTypes'
    BY <2>1 DEF LTypes, MainPlaces
  <2>3. LMode'
    BY <2>1 DEF LTypes, LMode, InTurn, Verifying, Parsing, Asking, Ending, InList, Listed
  <2> QED
    BY <1>1, <2>1, <2>2, <2>3
<1>11. CASE Deselect
  <2>1. /\ UNCHANGED <<reqLibs, trList, lsThread, nextThread, cur, rlib, ctx>>
        /\ mpc = "deselect" /\ mpc' = IF selected[cur] = 1 THEN "remove" ELSE "find"
        /\ selected' = [selected EXCEPT ![cur] = @ - 1]
    BY <1>11 DEF Deselect, LastSelected
  <2>2. cur \in Libs /\ cur \in Listed /\ reqLibs # <<>>
    <3>1. cur # None /\ reqLibs # <<>>
      BY <2>1 DEF LMode, InTurn
    <3>2. cur = Head(reqLibs)
      BY <3>1 DEF ListsAgree
    <3>3. 1 \in DOMAIN reqLibs /\ reqLibs[1] = Head(reqLibs)
      BY <3>1 DEF LTypes
    <3> QED
      BY <3>1, <3>2, <3>3 DEF LTypes, Listed, Elements
  <2>3. selected[cur] > 0
    BY <2>1, <2>2 DEF LMode, InList
  <2>4. LTypes'
    BY <2>1, <2>2, <2>3 DEF LTypes, MainPlaces
  <2>5. LMode'
    <3>1. \A k \in Libs : selected'[k] > 0 <=> k \in Listed /\ ~(mpc' = "remove" /\ k = cur)
      BY <2>1, <2>2, <2>3 DEF LMode, InList, LTypes
    <3> QED
      BY <2>1, <2>2, <3>1 DEF LTypes, LMode, InTurn, Verifying, Parsing, Asking, Ending, InList, Listed
  <2> QED
    BY <1>1, <2>1, <2>4, <2>5
<1>12. CASE RemoveFromRequestList
  <2>1. /\ UNCHANGED <<nextThread, selected, rlib, ctx>>
        /\ mpc = "remove" /\ mpc' = "top" /\ cur' = None
    BY <1>12 DEF RemoveFromRequestList
  <2>2. cur # None /\ reqLibs # <<>>
    BY <2>1 DEF LMode, InTurn
  <2>3. /\ cur \in Libs /\ cur = Head(reqLibs) /\ lsThread[cur] \in Threads
        /\ reqLibs' = Tail(reqLibs) /\ Listed' = Listed \ {cur}
        /\ NoDup(reqLibs)' /\ ListsAgree'
        /\ lsThread' = [lsThread EXCEPT ![cur] = NoThread]
        /\ trList' \in [Threads -> Seq(Libs)]
    BY <1>12, <2>2, RemoveLists
  <2>4. LTypes'
    <3>1. reqLibs' \in Seq(Libs)
      BY <2>2, <2>3 DEF LTypes
    <3> QED
      BY <2>1, <2>3, <3>1 DEF LTypes, MainPlaces
  <2>5. LMode'
    <3>1. \A k \in Libs : selected[k] > 0 <=> k \in Listed /\ k # cur
      BY <2>1 DEF LMode, InList
    <3> QED
      BY <2>1, <2>3, <3>1 DEF LMode, InTurn, Verifying, Parsing, Asking, Ending, InList
  <2> QED
    BY <2>3, <2>4, <2>5
<1>13. ASSUME LibrariesDone \/ Bump \/ CloseLibFiles \/ Join PROVE LInv'
  <2>1. /\ UNCHANGED <<reqLibs, trList, lsThread, nextThread, selected, cur, rlib, ctx>>
        /\ (mpc = "top" /\ reqLibs = <<>>) \/ mpc \in {"bump", "close", "join"}
        /\ mpc' \in {"bump", "close", "join", "finished"}
    BY <1>13 DEF LibrariesDone, Bump, CloseLibFiles, Join, libVars
  <2>2. LTypes'
    BY <2>1 DEF LTypes, MainPlaces
  <2>3. LMode'
    BY <2>1 DEF LTypes, LMode, InTurn, Verifying, Parsing, Asking, Ending, InList, Listed
  <2> QED
    BY <1>1, <2>1, <2>2, <2>3
<1> QED
  BY <1>3, <1>4, <1>5, <1>6, <1>7, <1>8, <1>9, <1>10, <1>11, <1>12, <1>13, MainSteps DEF Next

(***************************************************************************)
(* The request list, the lists of the threads and the counts of selected   *)
(* modules fit where main is, whatever the threads read and however many   *)
(* libraries, modules and threads there are.                               *)
(***************************************************************************)
THEOREM ListsInvHolds == Spec => []LInv
<1> QED
  BY InitLInv, StepLInv, PTL DEF Spec

(***************************************************************************)
(* A library that main adds or removes is where it is looked for: the      *)
(* lists of the threads are the request list dealt out, and the library    *)
(* that main works on is the first of its thread's.                        *)
(***************************************************************************)
THEOREM ListsAlwaysAgree == Spec => []ListsAgree
<1>1. LInv => ListsAgree
  BY DEF LInv
<1> QED
  BY <1>1, ListsInvHolds, PTL


------------------------------------------------------------------------------
(* A thread for each library, when there are enough.                       *)

LEMMA TurnsGoOn ==
  ASSUME NEW n \in 0 .. N_R_THREADS - 1, NEW k \in Int
  PROVE  (NextReadlibThread(n) + k - 1) % N_R_THREADS = (n + k) % N_R_THREADS
<1>1. CASE N_R_THREADS = 1
  BY <1>1 DEF NextReadlibThread
<1>2. CASE N_R_THREADS = 2
  BY <1>2 DEF NextReadlibThread
<1>3. CASE N_R_THREADS = 4
  BY <1>3 DEF NextReadlibThread
<1> QED
  BY <1>1, <1>2, <1>3, LibReadAssumption

LEMMA TurnsApart ==
  ASSUME NEW a \in Int, NEW b \in Int, a - b < N_R_THREADS, b - a < N_R_THREADS,
         a % N_R_THREADS = b % N_R_THREADS
  PROVE  a = b
<1>1. CASE N_R_THREADS = 1
  BY <1>1
<1>2. CASE N_R_THREADS = 2
  BY <1>2
<1>3. CASE N_R_THREADS = 4
  BY <1>3
<1> QED
  BY <1>1, <1>2, <1>3, LibReadAssumption

LEMMA TurnIs ==
  ASSUME NEW n \in 0 .. N_R_THREADS - 1
  PROVE  n \in Nat /\ n % N_R_THREADS = n
<1>1. CASE N_R_THREADS = 1
  BY <1>1
<1>2. CASE N_R_THREADS = 2
  BY <1>2
<1>3. CASE N_R_THREADS = 4
  BY <1>3
<1> QED
  BY <1>1, <1>2, <1>3, LibReadAssumption

(* Only these two change the lists. *)
LEMMA ListFrame ==
  ASSUME [Next]_vars
  PROVE  \/ AddToRequestList \/ RemoveFromRequestList
         \/ UNCHANGED <<reqLibs, trList, lsThread, nextThread>>
<1> USE DEF libVars, mainVars
<1>1. CASE UNCHANGED vars
  BY <1>1 DEF vars
<1>2. ASSUME NEW t \in Threads, LibReadT(t)
      PROVE  UNCHANGED <<reqLibs, trList, lsThread, nextThread>>
  BY <1>2, ThreadFrame DEF listVars
<1>3. CASE Capture(Main) \/ ReleasePost(Main)
  BY <1>3, CaptureFrame DEF Procs
<1>4. ASSUME NEW s \in Symbols, Reference(s)
      PROVE  UNCHANGED <<reqLibs, trList, lsThread, nextThread>>
  BY <1>4 DEF Reference
<1>5. CASE RequestBlock \/ CountWrite \/ StoreNumber \/ BumpLib
  BY <1>5 DEF RequestBlock, CountWrite, StoreNumber, BumpLib
<1>6. CASE SelectLibrary \/ FindModule \/ VerifyBlock \/ WaitRead \/ DecLibBlock \/ Deselect
  BY <1>6 DEF SelectLibrary, FindModule, VerifyBlock, WaitRead, DecLibBlock, Deselect
<1>7. CASE LibrariesDone \/ Bump \/ CloseLibFiles \/ Join
  BY <1>7 DEF LibrariesDone, Bump, CloseLibFiles, Join
<1> QED
  BY <1>1, <1>2, <1>3, <1>4, <1>5, <1>6, <1>7, MainSteps DEF Next

LEMMA InitDInv == Init => DInv
BY DEF Init, DInv

LEMMA StepDInv == LInv /\ DInv /\ [Next]_vars => DInv'
<1> SUFFICES ASSUME LInv, DInv, [Next]_vars PROVE DInv'
  OBVIOUS
<1> DEFINE N == N_R_THREADS
<1>1. CASE UNCHANGED <<reqLibs, trList, lsThread, nextThread>>
  BY <1>1 DEF DInv
<1>t. reqLibs \in Seq(Libs) /\ nextThread \in 0 .. N_R_THREADS - 1
      /\ lsThread \in [Libs -> Threads \union {NoThread}] /\ Len(reqLibs) \in Nat
      /\ DOMAIN reqLibs = 1 .. Len(reqLibs)
  BY DEF LInv, LTypes
<1>2. CASE AddToRequestList
  <2>1. rlib \in Libs /\ rlib \notin Listed /\ (cur # None => reqLibs # <<>>)
        /\ nextThread' = NextReadlibThread(nextThread)
    BY <1>2 DEF LInv, LMode, Asking, AddToRequestList
  <2>2. /\ reqLibs' = Append(reqLibs, rlib)
        /\ lsThread' = [lsThread EXCEPT ![rlib] = NextReadlibThread(nextThread)]
    BY <1>2, <2>1, AddLists DEF LInv
  <2>3. ASSUME NEW i \in 1 .. Len(reqLibs)
        PROVE  /\ reqLibs'[i] = reqLibs[i] /\ reqLibs[i] \in Libs /\ reqLibs[i] # rlib
               /\ lsThread'[reqLibs'[i]] = (nextThread + i - Len(reqLibs)) % N_R_THREADS
    <3>1. reqLibs'[i] = reqLibs[i] /\ reqLibs[i] \in Libs
      BY <1>t, <2>1, <2>2
    <3>2. reqLibs[i] # rlib
      BY <1>t, <2>1 DEF Listed, Elements
    <3>3. lsThread'[reqLibs[i]] = lsThread[reqLibs[i]]
      BY <1>t, <2>2, <3>1, <3>2
    <3> QED
      BY <1>t, <3>1, <3>2, <3>3 DEF DInv
  <2>4. Len(reqLibs') = Len(reqLibs) + 1 /\ DOMAIN reqLibs' = 1 .. Len(reqLibs) + 1
        /\ reqLibs'[Len(reqLibs) + 1] = rlib
    BY <1>t, <2>1, <2>2
  <2>5. lsThread'[rlib] = nextThread' /\ nextThread' \in 0 .. N_R_THREADS - 1
    BY <1>t, <2>1, <2>2, NextThreadIs
  <2>6. ASSUME NEW i \in DOMAIN reqLibs'
        PROVE  lsThread'[reqLibs'[i]] = (nextThread' + i - Len(reqLibs')) % N_R_THREADS
    <3>1. CASE i = Len(reqLibs) + 1
      <4>1. nextThread' + i - Len(reqLibs') = nextThread'
        <5>1. nextThread' \in Nat
          BY <2>5, TurnIs
        <5>2. Len(reqLibs') = i /\ i \in Int
          BY <1>t, <2>4, <3>1
        <5> DEFINE x == nextThread'
        <5>3. x \in Int /\ x + i - i = x
          BY <5>1, <5>2
        <5> QED
          BY <5>2, <5>3
      <4>2. nextThread' % N_R_THREADS = nextThread'
        BY <2>5, TurnIs
      <4> QED
        BY <3>1, <2>4, <2>5, <4>1, <4>2
    <3>2. CASE i # Len(reqLibs) + 1
      <4>1. i \in 1 .. Len(reqLibs)
        BY <1>t, <2>4, <3>2
      <4> DEFINE k == i - Len(reqLibs)
      <4>2. k \in Int /\ nextThread' + i - Len(reqLibs') = NextReadlibThread(nextThread) + k - 1
            /\ nextThread + i - Len(reqLibs) = nextThread + k
        BY <1>t, <2>1, <2>4, <2>5, <4>1
      <4> HIDE DEF k
      <4>3. (NextReadlibThread(nextThread) + k - 1) % N_R_THREADS = (nextThread + k) % N_R_THREADS
        BY <1>t, <4>2, TurnsGoOn
      <4> QED
        BY <4>1, <4>2, <4>3, <2>3
    <3> QED
      BY <3>1, <3>2
  <2> QED
    BY <2>6 DEF DInv
<1>3. CASE RemoveFromRequestList
  <2>1. cur # None /\ reqLibs # <<>>
    BY <1>3 DEF LInv, LMode, InTurn, RemoveFromRequestList
  <2>2. /\ cur \in Libs /\ cur = Head(reqLibs) /\ reqLibs' = Tail(reqLibs)
        /\ lsThread' = [lsThread EXCEPT ![cur] = NoThread] /\ nextThread' = nextThread
    BY <1>3, <2>1, RemoveLists DEF LInv, RemoveFromRequestList
  <2>3. Len(reqLibs') = Len(reqLibs) - 1 /\ DOMAIN reqLibs' = 1 .. Len(reqLibs) - 1
        /\ cur = reqLibs[1] /\ Len(reqLibs) >= 1
    BY <1>t, <2>1, <2>2
  <2>4. ASSUME NEW i \in DOMAIN reqLibs'
        PROVE  lsThread'[reqLibs'[i]] = (nextThread' + i - Len(reqLibs')) % N_R_THREADS
    <3>1. reqLibs'[i] = reqLibs[i + 1] /\ i + 1 \in DOMAIN reqLibs /\ i + 1 # 1 /\ i \in Int
          /\ 1 \in DOMAIN reqLibs
      BY <1>t, <2>1, <2>2, <2>3
    <3>2. reqLibs[i + 1] \in Libs /\ reqLibs[i + 1] # cur
      BY <1>t, <2>3, <3>1 DEF LInv, NoDup
    <3>3. lsThread'[reqLibs'[i]] = lsThread[reqLibs[i + 1]]
      BY <1>t, <2>2, <3>1, <3>2
    <3>4. lsThread[reqLibs[i + 1]] = (nextThread + (i + 1) - Len(reqLibs)) % N_R_THREADS
      BY <3>1 DEF DInv
    <3>5. nextThread + (i + 1) - Len(reqLibs) = nextThread' + i - Len(reqLibs')
      BY <1>t, <2>2, <2>3, <3>1
    <3> QED
      BY <3>3, <3>4, <3>5
  <2> QED
    BY <2>4 DEF DInv
<1> QED
  BY <1>1, <1>2, <1>3, ListFrame

(***************************************************************************)
(* _get_next_readlib_thread deals the libraries out in turn: while there   *)
(* are no more libraries than threads, a thread never has two of them.     *)
(***************************************************************************)
THEOREM EnoughThreads ==
  ASSUME Cardinality(Libs) <= N_R_THREADS
  PROVE  Spec => []OwnThread
<1>1. LInv /\ DInv => OwnThread
  <2> SUFFICES ASSUME LInv, DInv, NEW k \in Listed, NEW l \in Listed, lsThread[k] = lsThread[l]
               PROVE  k = l
    BY DEF OwnThread
  <2>1. reqLibs \in Seq(Libs) /\ nextThread \in 0 .. N_R_THREADS - 1 /\ Len(reqLibs) \in Nat
        /\ DOMAIN reqLibs = 1 .. Len(reqLibs) /\ N_R_THREADS \in Nat
    BY LibReadAssumption DEF LInv, LTypes
  <2>2. PICK i \in 1 .. Len(reqLibs) : reqLibs[i] = k
    BY <2>1 DEF Listed, Elements
  <2>3. PICK j \in 1 .. Len(reqLibs) : reqLibs[j] = l
    BY <2>1 DEF Listed, Elements
  <2>4. Len(reqLibs) <= N_R_THREADS
    <3>1. reqLibs \in Injection(1 .. Len(reqLibs), Libs)
      <4>1. reqLibs \in [1 .. Len(reqLibs) -> Libs]
        BY <2>1
      <4>2. \A a, b \in 1 .. Len(reqLibs) : reqLibs[a] = reqLibs[b] => a = b
        BY <2>1 DEF LInv, NoDup
      <4> QED
        BY <4>1, <4>2 DEF Injection, IsInjective
    <3>2. Cardinality(1 .. Len(reqLibs)) <= Cardinality(Libs)
      BY <3>1, FS_Injection, LibReadAssumption
    <3>3. Cardinality(1 .. Len(reqLibs)) = Len(reqLibs)
      <4> DEFINE n == Len(reqLibs)
      <4>1. 1 \in Int /\ n \in Int /\ n \in Nat
        BY <2>1
      <4> HIDE DEF n
      <4>2. Cardinality(1 .. n) = IF 1 > n THEN 0 ELSE n - 1 + 1
        BY <4>1, FS_Interval
      <4>3. Cardinality(1 .. n) = n
        BY <4>1, <4>2
      <4> QED
        BY <4>3 DEF n
    <3>4. Cardinality(Libs) \in Nat
      BY LibReadAssumption, FS_CardinalityType
    <3> QED
      BY <2>1, <3>2, <3>3, <3>4
  <2> DEFINE a == nextThread + i - Len(reqLibs)
             b == nextThread + j - Len(reqLibs)
  <2>5. a \in Int /\ b \in Int /\ a - b < N_R_THREADS /\ b - a < N_R_THREADS
    BY <2>1, <2>4
  <2>6. a % N_R_THREADS = b % N_R_THREADS
    BY <2>1, <2>2, <2>3 DEF DInv
  <2>7. a = b
    <3> HIDE DEF a, b
    <3> QED
      BY <2>5, <2>6, TurnsApart
  <2>8. i = j
    BY <2>1, <2>7
  <2> QED
    BY <2>2, <2>3, <2>8
<1>2. Spec => []DInv
  BY InitLInv, StepLInv, InitDInv, StepDInv, PTL DEF Spec
<1> QED
  BY <1>1, <1>2, ListsInvHolds, PTL


------------------------------------------------------------------------------
(* The modules and the symbols.                                            *)

(* The blocks of a module: blocks of its library, each once. *)
LEMMA BlocksAre ==
  ASSUME NEW m \in Modules
  PROVE  /\ BlocksOf[m] \in Seq(AllBlocks) /\ BlocksOf[m] # <<>> /\ NoDup(BlocksOf[m])
         /\ LibOf[m] \in Libs
         /\ \A b \in Elements(BlocksOf[m]) :
              b \in LibBlocks(LibOf[m]) /\ b \in AllBlocks /\ m \in ModulesIn(LibOf[m], b)
<1> DEFINE s == BlocksOf[m]
<1>1. s \in Seq(Nat \ {0}) /\ s # <<>> /\ LibOf[m] \in Libs
      /\ \A i, j \in DOMAIN s : i < j => s[i] < s[j]
  BY LibReadAssumption
<1>2. Len(s) \in Nat /\ DOMAIN s = 1 .. Len(s) /\ \A i \in 1 .. Len(s) : s[i] \in Nat
  BY <1>1
<1>3. \A b \in Elements(s) : b \in LibBlocks(LibOf[m]) /\ m \in ModulesIn(LibOf[m], b)
  BY DEF LibBlocks, ModulesIn
<1>4. \A b \in Elements(s) : b \in AllBlocks
  BY <1>1, <1>3 DEF AllBlocks
<1> HIDE DEF s
<1>5. NoDup(s)
  <2> SUFFICES ASSUME NEW i \in 1 .. Len(s), NEW j \in 1 .. Len(s), s[i] = s[j] PROVE i = j
    BY <1>2 DEF NoDup
  <2>1. ~(i < j) /\ ~(j < i)
    BY <1>1, <1>2
  <2> QED
    BY <2>1, <1>2
<1>6. s \in Seq(AllBlocks)
  <2>1. \A i \in 1 .. Len(s) : s[i] \in AllBlocks
    BY <1>2, <1>4 DEF Elements
  <2> QED
    BY <1>1, <1>2, <2>1
<1> QED
  BY <1>1, <1>3, <1>4, <1>5, <1>6 DEF s

(* Blocks are numbered from 1. *)
LEMMA BlocksFromOne == AllBlocks \subseteq Nat \ {0} /\ \A b \in AllBlocks : b # NoBlock
<1>1. ASSUME NEW b \in AllBlocks PROVE b \in Nat \ {0}
  <2>1. PICK m \in Modules : b \in Elements(BlocksOf[m])
    BY DEF AllBlocks, LibBlocks
  <2>2. BlocksOf[m] \in Seq(Nat \ {0})
    BY LibReadAssumption
  <2> QED
    BY <2>1, <2>2 DEF Elements
<1> QED
  BY <1>1 DEF NoBlock

(* The sets of modules are finite. *)
LEMMA ModulesFinite ==
  ASSUME WTypes, NEW l, NEW b
  PROVE  /\ IsFiniteSet(Unparsed(l)) /\ Cardinality(Unparsed(l)) \in Nat
         /\ IsFiniteSet(Left(l, b)) /\ Cardinality(Left(l, b)) \in Nat
<1>1. Unparsed(l) \in SUBSET Modules /\ Left(l, b) \in SUBSET Modules
  BY DEF WTypes, Unparsed, Left, ModulesIn
<1> QED
  BY <1>1, LibReadAssumption, FS_Subset, FS_CardinalityType

(* The symbol that a module to come is wanted for is not defined: nor is   *)
(* any other of the module.                                                *)
LEMMA ToCome ==
  ASSUME WTypes, Origin, OneDefiner, NEW m \in marked
  PROVE  Parsed(m) <=> Defines[m] \subseteq defined /\ Defines[m] # {}
<1>1. m \in Modules /\ Defines[m] \subseteq Symbols
  BY LibReadAssumption DEF WTypes
<1>2. ASSUME NEW x \in Defines[m], x \in defined PROVE Defines[m] \subseteq defined
  <2>1. PICK n \in marked : x \in Defines[n] /\ Defines[n] \subseteq defined
    BY <1>2 DEF Origin
  <2>2. n = m
    BY <2>1, <1>2 DEF OneDefiner
  <2> QED
    BY <2>1, <2>2
<1> QED
  BY <1>2 DEF Parsed

(* A listed symbol's module has still to come. *)
LEMMA WantedToCome ==
  ASSUME WTypes, Origin, WantedRight, OneDefiner, NEW l \in Libs, NEW s \in Elements(wanted[l])
  PROVE  /\ s \in Symbols /\ s \notin defined /\ ModuleOf[s] \in marked
         /\ LibOf[ModuleOf[s]] = l /\ ~Parsed(ModuleOf[s])
<1>1. s \in Symbols
  BY DEF WTypes, Elements
<1>2. s \notin defined /\ LibOf[ModuleOf[s]] = l /\ ModuleOf[s] \in marked
  BY DEF WantedRight
<1>3. s \in Defines[ModuleOf[s]]
  BY <1>1, LibReadAssumption
<1> QED
  BY <1>1, <1>2, <1>3, ToCome

(* What steps that define and mark nothing leave as it is. *)
LEMMA BookStays ==
  ASSUME WTypes, Origin, WantedRight, StillWanted, UNCHANGED <<wanted, defined, marked>>,
         roots' \subseteq roots, pend' \subseteq pend, mod' = mod,
         toRead' \in Seq(AllBlocks), toRequest' \in Seq(AllBlocks)
  PROVE  /\ WTypes' /\ Origin' /\ WantedRight' /\ StillWanted'
         /\ \A m : Parsed(m)' <=> Parsed(m)
         /\ \A l : Unparsed(l)' = Unparsed(l)
<1>1. WTypes'
  BY DEF WTypes
<1>2. \A m : Parsed(m)' <=> Parsed(m)
  BY DEF Parsed
<1>3. \A l : Unparsed(l)' = Unparsed(l)
  BY <1>2 DEF Unparsed
<1> QED
  BY <1>1, <1>2, <1>3 DEF Origin, WantedRight, StillWanted

LEMMA WantedAppend ==
  ASSUME NEW A, NEW seq \in Seq(A), NEW e \in A
  PROVE  /\ AppendNew(seq, e) \in Seq(A)
         /\ Elements(AppendNew(seq, e)) = Elements(seq) \union {e}
<1>1. CASE e \in Elements(seq)
  BY <1>1 DEF AppendNew
<1>2. CASE e \notin Elements(seq)
  <2>1. AppendNew(seq, e) = Append(seq, e) /\ Append(seq, e) \in Seq(A)
    BY <1>2 DEF AppendNew
  <2> QED
    BY <2>1, AppendEntries
<1> QED
  BY <1>1, <1>2

LEMMA InitWInv == Init => WInv
<1> SUFFICES ASSUME Init PROVE WInv
  OBVIOUS
<1> USE DEF Init
<1>1. WTypes
  BY LibReadAssumption DEF WTypes
<1>2. Elements(<<>>) = {}
  BY DEF Elements
<1>3. \A l \in Libs : Elements(wanted[l]) = {}
  BY <1>2
<1>4. \A l : Unparsed(l) = {}
  BY DEF Unparsed
<1>5. SelectedCounts
  <2>1. \A l \in Libs : selected[l] = 0 /\ ~InWork(l)
    BY DEF Parsed, InWork
  <2>2. \A l \in Libs : Cardinality(Unparsed(l)) = 0
    BY <1>4, FS_EmptySet
  <2> QED
    BY <2>1, <2>2 DEF SelectedCounts
<1> QED
  BY <1>1, <1>3, <1>5 DEF WInv, Origin, WantedRight, StillWanted, ModuleInTurn, RequestRight,
     Verifying, Parsing, Asking


(* A symbol is needed. *)
LEMMA ReferenceWInv ==
  ASSUME LInv, WInv, OneDefiner, OneDefiner', NEW s \in Symbols, Reference(s)
  PROVE  WInv' /\ \A n : Parsed(n)' <=> Parsed(n)
<1> USE DEF WInv
<1> DEFINE m == ModuleOf[s]
           l == LibOf[m]
<1>1. m \in Modules /\ l \in Libs /\ s \in Defines[m] /\ Defines[m] \subseteq Symbols
  BY LibReadAssumption
<1>2. /\ mpc \in {"top", "parse"} /\ roots' = roots \ {s} /\ pend' = pend \ {s}
      /\ UNCHANGED <<defined, cur, mod, toRead>>
      /\ \/ UNCHANGED <<wanted, marked, selected, rlib, toRequest, ctx, mpc>>
         \/ /\ s \notin defined
            /\ wanted' = [wanted EXCEPT ![l] = AppendNew(@, s)]
            /\ \/ m \in marked /\ UNCHANGED <<marked, selected, rlib, toRequest, ctx, mpc>>
               \/ /\ m \notin marked /\ marked' = marked \union {m}
                  /\ selected' = [selected EXCEPT ![l] = @ + 1]
                  /\ rlib' = l /\ toRequest' = BlocksOf[m] /\ ctx' = mpc
                  /\ mpc' \in {"add", "request"}
  BY DEF Reference, MainGoto
<1> HIDE DEF m, l
<1>3. CASE UNCHANGED <<wanted, marked, selected, rlib, toRequest, ctx, mpc>>
  <2>1. /\ WTypes' /\ Origin' /\ WantedRight' /\ StillWanted'
        /\ \A n : Parsed(n)' <=> Parsed(n)
        /\ \A k : Unparsed(k)' = Unparsed(k)
    BY <1>2, <1>3, BookStays DEF WTypes
  <2> QED
    BY <1>2, <1>3, <2>1 DEF SelectedCounts, InWork, ModuleInTurn, RequestRight, Verifying, Parsing,
       Asking
<1>4. CASE s \notin defined /\ wanted' = [wanted EXCEPT ![l] = AppendNew(@, s)]
  <2>1. /\ wanted' \in [Libs -> Seq(Symbols)]
        /\ Elements(wanted'[l]) = Elements(wanted[l]) \union {s}
        /\ \A k \in Libs \ {l} : wanted'[k] = wanted[k]
    <3>1. wanted[l] \in Seq(Symbols)
      BY <1>1 DEF WTypes
    <3>2. /\ AppendNew(wanted[l], s) \in Seq(Symbols)
          /\ Elements(AppendNew(wanted[l], s)) = Elements(wanted[l]) \union {s}
      BY <3>1, WantedAppend
    <3> QED
      BY <1>1, <1>4, <3>2 DEF WTypes
  <2>2. CASE m \in marked /\ UNCHANGED <<marked, selected, rlib, toRequest, ctx, mpc>>
    <3>1. WTypes' /\ Origin'
      BY <1>2, <2>1, <2>2 DEF WTypes, Origin
    <3>2. WantedRight'
      <4> SUFFICES ASSUME NEW k \in Libs, NEW x \in Elements(wanted'[k])
                   PROVE  x \notin defined /\ LibOf[ModuleOf[x]] = k /\ ModuleOf[x] \in marked
        BY <1>2, <2>2 DEF WantedRight
      <4>1. x \in Elements(wanted[k]) \/ (x = s /\ k = l)
        BY <2>1
      <4> QED
        BY <4>1, <1>4, <2>2 DEF WantedRight, m, l
    <3>3. \A n : Parsed(n)' <=> Parsed(n)
      BY <1>2, <2>2 DEF Parsed
    <3>4. \A k : Unparsed(k)' = Unparsed(k)
      BY <2>2, <3>3 DEF Unparsed
    <3>5. StillWanted'
      <4> SUFFICES ASSUME NEW n \in marked, ~Parsed(n)
                   PROVE  \E x \in Elements(wanted'[LibOf[n]]) : ModuleOf[x] = n
        BY <2>2, <3>3 DEF StillWanted
      <4>1. LibOf[n] \in Libs
        BY LibReadAssumption DEF WTypes
      <4>2. Elements(wanted[LibOf[n]]) \subseteq Elements(wanted'[LibOf[n]])
        BY <2>1, <4>1
      <4> QED
        BY <4>2 DEF StillWanted
    <3> QED
      BY <1>2, <2>2, <3>1, <3>2, <3>3, <3>4, <3>5 DEF SelectedCounts, InWork, ModuleInTurn,
         RequestRight, Verifying, Parsing, Asking
  <2>3. CASE /\ m \notin marked /\ marked' = marked \union {m}
             /\ selected' = [selected EXCEPT ![l] = @ + 1]
             /\ rlib' = l /\ toRequest' = BlocksOf[m] /\ ctx' = mpc
             /\ mpc' \in {"add", "request"}
    <3>0. BlocksOf[m] \in Seq(AllBlocks) /\ BlocksOf[m] # <<>>
      BY <1>1, BlocksAre
    <3>1. WTypes'
      BY <1>1, <1>2, <2>1, <2>3, <3>0 DEF WTypes
    <3>2. Origin'
      BY <1>2, <2>3 DEF Origin
    <3>3. WantedRight'
      <4> SUFFICES ASSUME NEW k \in Libs, NEW x \in Elements(wanted'[k])
                   PROVE  x \notin defined /\ LibOf[ModuleOf[x]] = k /\ ModuleOf[x] \in marked'
        BY <1>2 DEF WantedRight
      <4>1. x \in Elements(wanted[k]) \/ (x = s /\ k = l)
        BY <2>1
      <4> QED
        BY <4>1, <1>4, <2>3 DEF WantedRight, m, l
    <3>4. ~Parsed(m)' /\ \A n : n # m => (Parsed(n)' <=> Parsed(n))
      <4>1. \A x \in Defines[m] : x \notin defined
        <5> SUFFICES ASSUME NEW x \in Defines[m], x \in defined PROVE FALSE
          OBVIOUS
        <5>1. PICK n \in marked : x \in Defines[n]
          BY DEF Origin
        <5>2. n # m /\ n \in marked' /\ m \in marked'
          BY <2>3
        <5> QED
          BY <5>1, <5>2 DEF OneDefiner
      <4> QED
        BY <4>1, <1>2, <2>3 DEF Parsed
    <3>5. \A k : Unparsed(k)' = IF k = l THEN Unparsed(k) \union {m} ELSE Unparsed(k)
      <4> SUFFICES ASSUME NEW k
                   PROVE  Unparsed(k)' = IF k = l THEN Unparsed(k) \union {m} ELSE Unparsed(k)
        OBVIOUS
      <4>1. Unparsed(k)' = {n \in marked' : LibOf[n] = k /\ ~Parsed(n)'}
        BY DEF Unparsed
      <4>2. m \notin Unparsed(k)
        BY <2>3 DEF Unparsed
      <4> QED
        BY <4>1, <4>2, <2>3, <3>4 DEF Unparsed, l
    <3>6. StillWanted'
      <4> SUFFICES ASSUME NEW n \in marked', ~Parsed(n)'
                   PROVE  \E x \in Elements(wanted'[LibOf[n]]) : ModuleOf[x] = n
        BY DEF StillWanted
      <4>1. CASE n = m
        BY <4>1, <2>1 DEF m, l
      <4>2. CASE n # m
        <5>1. n \in marked /\ ~Parsed(n) /\ LibOf[n] \in Libs
          BY <4>2, <2>3, <3>4, LibReadAssumption DEF WTypes
        <5>2. Elements(wanted[LibOf[n]]) \subseteq Elements(wanted'[LibOf[n]])
          BY <2>1, <5>1
        <5> QED
          BY <5>1, <5>2 DEF StillWanted
      <4> QED
        BY <4>1, <4>2
    <3>7. mpc = "parse" => mod \in marked /\ mod # m /\ Parsed(mod)
      BY <2>3 DEF ModuleInTurn, Parsing
    <3>8. \A k \in Libs : InWork(k)' <=> InWork(k)
      <4>1. cur # None => mpc = "parse"
        BY <1>2 DEF LInv, LMode, InTurn, Verifying, Parsing, Asking
      <4>2. \A k \in Libs : k # None
        BY LibReadAssumption
      <4> QED
        BY <4>1, <4>2, <1>2, <2>3, <3>4, <3>7 DEF InWork
    <3>9. SelectedCounts'
      <4> SUFFICES ASSUME NEW k \in Libs
                   PROVE  selected'[k] = Cardinality(Unparsed(k)') + (IF InWork(k)' THEN 1 ELSE 0)
        BY DEF SelectedCounts
      <4>1. selected[k] = Cardinality(Unparsed(k)) + (IF InWork(k) THEN 1 ELSE 0)
        BY DEF SelectedCounts
      <4>2. IsFiniteSet(Unparsed(k)) /\ Cardinality(Unparsed(k)) \in Nat
        BY ModulesFinite
      <4>3. m \notin Unparsed(k)
        BY <2>3 DEF Unparsed
      <4>4. Cardinality(Unparsed(k) \union {m}) = Cardinality(Unparsed(k)) + 1
        BY <4>2, <4>3, FS_AddElement
      <4>5. Cardinality(Unparsed(k)') = IF k = l THEN Cardinality(Unparsed(k)) + 1
                                                ELSE Cardinality(Unparsed(k))
        BY <3>5, <4>4
      <4>6. selected'[k] = IF k = l THEN selected[k] + 1 ELSE selected[k]
        BY <2>3, <1>1 DEF LInv, LTypes
      <4> QED
        BY <4>1, <4>2, <4>5, <4>6, <3>8
    <3>10. ModuleInTurn'
      <4>1. /\ Parsing' <=> mpc = "parse"
            /\ ~Verifying' /\ mpc' # "deselect"
        BY <1>2, <2>3 DEF Parsing, Asking, Verifying
      <4>2. CASE mpc = "parse"
        <5>1. Parsing
          BY <4>2 DEF Parsing
        <5> QED
          BY <4>1, <4>2, <5>1, <3>4, <3>7, <1>2, <2>3 DEF ModuleInTurn
      <4>3. CASE mpc = "top"
        <5>1. ~Parsing /\ ~Verifying
          BY <4>3 DEF Parsing, Asking, Verifying
        <5>2. toRead' = <<>>
          BY <5>1, <1>2 DEF ModuleInTurn
        <5> QED
          BY <4>1, <4>3, <5>2 DEF ModuleInTurn
      <4> QED
        BY <4>2, <4>3, <1>2
    <3>11. RequestRight'
      <4>1. toRequest' # <<>> /\ m \in marked' /\ LibOf[m] = rlib' /\ ~Parsed(m)'
            /\ Elements(toRequest') \subseteq Elements(BlocksOf[m])
        BY <2>3, <3>0, <3>4 DEF l
      <4> QED
        BY <4>1 DEF RequestRight
    <3>12. \A n : Parsed(n)' <=> Parsed(n)
      <4>1. ~Parsed(m)
        BY <2>3 DEF Parsed
      <4> QED
        BY <3>4, <4>1
    <3> QED
      BY <3>1, <3>2, <3>3, <3>6, <3>9, <3>10, <3>11, <3>12
  <2> QED
    BY <1>2, <1>3, <2>2, <2>3
<1> QED
  BY <1>2, <1>3, <1>4


(* The module of the first listed symbol has its turn; there is one as     *)
(* long as a selected module is to come.                                   *)
LEMMA FindWInv ==
  ASSUME LInv, WInv, OneDefiner, FindModule
  PROVE  /\ WInv' /\ wanted[cur] # <<>> /\ cur \in Libs
         /\ mod' \in marked /\ ~Parsed(mod')
         /\ \A n : Parsed(n)' <=> Parsed(n)
<1> USE DEF WInv
<1>1. /\ mpc = "find" /\ UNCHANGED <<wanted, selected, roots, pend, defined, marked, toRequest, cur>>
      /\ IF wanted[cur] = <<>>
           THEN mpc' = "deselect"
           ELSE /\ mod' = ModuleOf[Head(wanted[cur])] /\ toRead' = BlocksOf[mod']
                /\ mpc' = "verify"
  BY DEF FindModule, MainGoto, libVars
<1>2. cur \in Libs /\ selected[cur] > 0 /\ wanted[cur] \in Seq(Symbols)
  <2>1. cur # None /\ reqLibs # <<>>
    BY <1>1 DEF LInv, LMode, InTurn
  <2>2. cur = Head(reqLibs)
    BY <2>1 DEF LInv, ListsAgree
  <2>3. Head(reqLibs) \in Elements(reqLibs) /\ Head(reqLibs) \in Libs
    BY <2>1, TailEntries DEF LInv, LTypes
  <2> QED
    BY <1>1, <2>2, <2>3 DEF LInv, LMode, InList, Listed, WTypes
<1>3. Cardinality(Unparsed(cur)) # 0
  BY <1>1, <1>2 DEF SelectedCounts, InWork
<1>4. wanted[cur] # <<>>
  <2>1. Unparsed(cur) # {}
    BY <1>3, FS_EmptySet
  <2>2. PICK n \in marked : LibOf[n] = cur /\ ~Parsed(n)
    BY <2>1 DEF Unparsed
  <2>3. Elements(wanted[cur]) # {}
    BY <2>2 DEF StillWanted
  <2> QED
    BY <2>3 DEF Elements
<1> DEFINE s == Head(wanted[cur])
<1>5. s \in Elements(wanted[cur])
  BY <1>2, <1>4, TailEntries
<1>6. mod' = ModuleOf[s] /\ toRead' = BlocksOf[mod'] /\ mpc' = "verify"
  BY <1>1, <1>4
<1> HIDE DEF s
<1>7. mod' \in marked /\ LibOf[mod'] = cur /\ ~Parsed(mod') /\ mod' \in Modules
  BY <1>2, <1>5, <1>6, WantedToCome DEF WTypes
<1>8. BlocksOf[mod'] \in Seq(AllBlocks) /\ BlocksOf[mod'] # <<>> /\ NoDup(BlocksOf[mod'])
  BY <1>7, BlocksAre
<1>9. \A n : Parsed(n)' <=> Parsed(n)
  BY <1>1 DEF Parsed
<1>10. \A k : Unparsed(k)' = Unparsed(k)
  BY <1>1, <1>9 DEF Unparsed
<1>11. WTypes' /\ Origin' /\ WantedRight' /\ StillWanted'
  BY <1>1, <1>6, <1>7, <1>8, <1>9 DEF WTypes, Origin, WantedRight, StillWanted
<1>12. SelectedCounts'
  <2>1. \A k \in Libs : ~InWork(k) /\ ~InWork(k)'
    <3>1. ~Parsed(mod)'
      BY <1>1, <1>7 DEF Parsed
    <3> QED
      BY <1>1, <3>1 DEF InWork
  <2> QED
    BY <1>1, <1>10, <2>1 DEF SelectedCounts
<1>13. ModuleInTurn'
  <2>1. Verifying' /\ ~Parsing'
    BY <1>6 DEF Verifying, Parsing, Asking
  <2>2. ~Parsed(mod)'
    BY <1>7, <1>9 DEF Parsed
  <2> QED
    BY <1>1, <1>6, <1>7, <1>8, <2>1, <2>2 DEF ModuleInTurn
<1>14. RequestRight'
  BY <1>6 DEF RequestRight, Asking
<1> QED
  BY <1>2, <1>4, <1>7, <1>9, <1>11, <1>12, <1>13, <1>14

(* What main is at when it works on a module. *)
LEMMA CurIsFirst ==
  ASSUME LInv, InTurn, mpc # "aborted"
  PROVE  cur \in Libs /\ cur \in Listed /\ reqLibs # <<>> /\ lsThread[cur] \in Threads
<1>1. cur # None /\ reqLibs # <<>>
  BY DEF LInv, LMode
<1>2. cur = Head(reqLibs)
  BY <1>1 DEF LInv, ListsAgree
<1>3. Head(reqLibs) \in Elements(reqLibs) /\ Head(reqLibs) \in Libs
  BY <1>1, TailEntries DEF LInv, LTypes
<1>4. lsThread[cur] \in Threads
  BY <1>2, <1>3 DEF LInv, LTypes, ListsAgree
<1> QED
  BY <1>1, <1>2, <1>3, <1>4 DEF Listed

(* The first block of a module is there: what it defines is defined. *)
LEMMA VerifyWInv ==
  ASSUME LInv, WInv, OneDefiner, VerifyBlock
  PROVE  /\ WInv'
         /\ \A n \in marked : n # mod => (Parsed(n)' <=> Parsed(n))
         /\ toRead = BlocksOf[mod] \/ Parsed(mod)
         /\ Parsed(mod) => Parsed(mod)'
<1> USE DEF WInv
<1>1. /\ mpc = "verify"
      /\ UNCHANGED <<selected, roots, marked, toRequest, cur, mod, toRead>>
      /\ \/ mpc' = "waitread" /\ UNCHANGED <<defined, wanted, pend>>
         \/ mpc' = "parse" /\ toRead # BlocksOf[mod] /\ UNCHANGED <<defined, wanted, pend>>
         \/ /\ mpc' = "parse" /\ toRead = BlocksOf[mod]
            /\ defined' = defined \union Defines[mod]
            /\ wanted' = [l \in Libs |-> Without(wanted[l], defined')]
            /\ pend' = Needs[mod]
  BY DEF VerifyBlock, MainGoto
<1>2. Verifying /\ ~Parsing
  BY <1>1 DEF Verifying, Parsing, Asking
<1>3. mod \in marked /\ mod \in Modules /\ LibOf[mod] = cur /\ toRead # <<>> /\ NoDup(toRead)
      /\ Elements(toRead) \subseteq Elements(BlocksOf[mod])
      /\ IF Parsed(mod) THEN Len(toRead) < Len(BlocksOf[mod]) ELSE toRead = BlocksOf[mod]
  BY <1>2 DEF ModuleInTurn, WTypes
<1>4. toRequest' \in Seq(AllBlocks) /\ toRead' \in Seq(AllBlocks) /\ toRead \in Seq(AllBlocks)
      /\ BlocksOf[mod] \in Seq(AllBlocks)
  BY <1>1, <1>3, BlocksAre DEF WTypes
<1>5. ~Asking'
  BY <1>1 DEF Asking
<1>6. CASE UNCHANGED <<defined, wanted, pend>> /\ (mpc' = "parse" => toRead # BlocksOf[mod])
           /\ mpc' \in {"waitread", "parse"}
  <2>1. /\ WTypes' /\ Origin' /\ WantedRight' /\ StillWanted'
        /\ \A n : Parsed(n)' <=> Parsed(n)
        /\ \A k : Unparsed(k)' = Unparsed(k)
    BY <1>1, <1>4, <1>6, BookStays
  <2>2. (Parsed(mod)' <=> Parsed(mod)) /\ (toRead = BlocksOf[mod] \/ Parsed(mod))
    BY <1>1, <1>3, <2>1
  <2>3. SelectedCounts'
    BY <1>1, <1>6, <2>1, <2>2 DEF SelectedCounts, InWork
  <2>4. ModuleInTurn'
    <3>1. CASE mpc' = "waitread"
      <4>1. Verifying' /\ ~Parsing'
        BY <3>1 DEF Verifying, Parsing, Asking
      <4> QED
        BY <1>1, <1>3, <2>2, <3>1, <4>1 DEF ModuleInTurn
    <3>2. CASE mpc' = "parse"
      <4>1. ~Verifying' /\ Parsing'
        BY <3>2 DEF Verifying, Parsing, Asking
      <4>2. Len(toRead) <= Len(BlocksOf[mod]) /\ Parsed(mod)
        BY <1>3, <1>4, <1>6, <3>2
      <4> QED
        BY <1>1, <1>3, <2>2, <3>2, <4>1, <4>2 DEF ModuleInTurn
    <3> QED
      BY <1>6, <3>1, <3>2
  <2> QED
    BY <1>1, <1>3, <1>5, <2>1, <2>2, <2>3, <2>4 DEF RequestRight
<1>7. CASE /\ mpc' = "parse" /\ toRead = BlocksOf[mod]
           /\ defined' = defined \union Defines[mod]
           /\ wanted' = [l \in Libs |-> Without(wanted[l], defined')]
           /\ pend' = Needs[mod]
  <2>1. ~Parsed(mod)
    BY <1>3, <1>4, <1>7
  <2>2. Defines[mod] # {} /\ Defines[mod] \subseteq Symbols /\ pend' \subseteq Symbols
    <3>1. PICK s \in Elements(wanted[LibOf[mod]]) : ModuleOf[s] = mod
      BY <1>3, <2>1 DEF StillWanted
    <3>2. s \in Symbols /\ LibOf[mod] \in Libs
      BY <1>3, <3>1, LibReadAssumption DEF WTypes, Elements
    <3> QED
      BY <1>3, <1>7, <3>1, <3>2, LibReadAssumption
  <2>3. Parsed(mod)'
    BY <1>1, <1>3, <1>7, <2>2 DEF Parsed
  <2>4. ASSUME NEW n \in marked, n # mod
        PROVE  (Parsed(n)' <=> Parsed(n)) /\ (Defines[n] \cap defined' = Defines[n] \cap defined)
    <3>1. Defines[n] \cap Defines[mod] = {}
      BY <1>3, <2>4 DEF OneDefiner
    <3>2. Defines[n] \cap defined' = Defines[n] \cap defined
      BY <3>1, <1>7
    <3> QED
      BY <1>1, <3>2, <2>4 DEF Parsed
  <2>5. ASSUME NEW l \in Libs
        PROVE  wanted'[l] \in Seq(Symbols) /\ Elements(wanted'[l]) = Elements(wanted[l]) \ defined'
    <3>1. wanted[l] \in Seq(Symbols) /\ wanted'[l] = Without(wanted[l], defined')
      BY <1>7 DEF WTypes
    <3> QED
      BY <3>1, WithoutKeeps
  <2>6. WTypes'
    <3>1. wanted' \in [Libs -> Seq(Symbols)]
      <4>1. wanted' = [l \in Libs |-> wanted'[l]]
        BY <1>7
      <4> QED
        BY <4>1, <2>5
    <3> QED
      BY <1>1, <1>4, <1>7, <2>2, <3>1 DEF WTypes
  <2>7. Origin'
    <3> SUFFICES ASSUME NEW x \in defined'
                 PROVE  \E n \in marked' : x \in Defines[n] /\ Defines[n] \subseteq defined'
      BY DEF Origin
    <3>1. CASE x \in Defines[mod]
      BY <1>1, <1>3, <1>7, <3>1
    <3>2. CASE x \in defined
      <4>1. PICK n \in marked : x \in Defines[n] /\ Defines[n] \subseteq defined
        BY <3>2 DEF Origin
      <4> QED
        BY <1>1, <1>7, <4>1
    <3> QED
      BY <1>7, <3>1, <3>2
  <2>8. WantedRight'
    <3> SUFFICES ASSUME NEW k \in Libs, NEW x \in Elements(wanted'[k])
                 PROVE  x \notin defined' /\ LibOf[ModuleOf[x]] = k /\ ModuleOf[x] \in marked'
      BY DEF WantedRight
    <3>1. x \in Elements(wanted[k]) /\ x \notin defined'
      BY <2>5
    <3> QED
      BY <1>1, <3>1 DEF WantedRight
  <2>9. StillWanted'
    <3> SUFFICES ASSUME NEW n \in marked', ~Parsed(n)'
                 PROVE  \E x \in Elements(wanted[LibOf[n]])' : ModuleOf[x] = n
      BY DEF StillWanted
    <3>0. n \in marked
      BY <1>1
    <3>1. n # mod /\ ~Parsed(n) /\ n \in Modules /\ LibOf[n] \in Libs
      BY <1>1, <3>0, <2>3, <2>4, LibReadAssumption DEF WTypes
    <3>2. PICK x \in Elements(wanted[LibOf[n]]) : ModuleOf[x] = n
      BY <3>0, <3>1 DEF StillWanted
    <3>3. x \in Symbols /\ x \notin defined
      BY <3>1, <3>2 DEF WantedRight, WTypes, Elements
    <3>4. x \in Defines[n]
      BY <3>2, <3>3, LibReadAssumption
    <3>5. x \notin defined'
      BY <3>0, <3>1, <3>3, <3>4, <2>4
    <3> QED
      BY <3>1, <3>2, <3>5, <2>5
  <2>10. \A k : Unparsed(k)' = Unparsed(k) \ {mod}
    <3> SUFFICES ASSUME NEW k PROVE Unparsed(k)' = Unparsed(k) \ {mod}
      OBVIOUS
    <3>1. Unparsed(k)' = {n \in marked : LibOf[n] = k /\ ~Parsed(n)'}
      BY <1>1 DEF Unparsed
    <3>2. \A n \in marked : Parsed(n)' <=> Parsed(n) \/ n = mod
      BY <1>1, <2>3, <2>4
    <3> QED
      BY <3>1, <3>2 DEF Unparsed
  <2>11. SelectedCounts'
    <3> SUFFICES ASSUME NEW k \in Libs
                 PROVE  selected[k] = Cardinality(Unparsed(k)') + (IF InWork(k)' THEN 1 ELSE 0)
      BY <1>1 DEF SelectedCounts
    <3>1. selected[k] = Cardinality(Unparsed(k)) + (IF InWork(k) THEN 1 ELSE 0) /\ ~InWork(k)
      BY <2>1 DEF SelectedCounts, InWork
    <3>2. IsFiniteSet(Unparsed(k)) /\ Cardinality(Unparsed(k)) \in Nat
      BY ModulesFinite
    <3>3. Cardinality(Unparsed(k) \ {mod}) = IF k = cur THEN Cardinality(Unparsed(k)) - 1
                                                       ELSE Cardinality(Unparsed(k))
      <4>1. mod \in Unparsed(k) <=> k = cur
        BY <1>3, <2>1 DEF Unparsed
      <4> QED
        BY <3>2, <4>1, FS_RemoveElement
    <3>4. InWork(k)' <=> k = cur
      BY <1>1, <1>7, <2>3 DEF InWork
    <3>5. Cardinality(Unparsed(k)') = IF k = cur THEN Cardinality(Unparsed(k)) - 1
                                                 ELSE Cardinality(Unparsed(k))
      BY <2>10, <3>3
    <3> QED
      BY <3>1, <3>2, <3>4, <3>5
  <2>12. ModuleInTurn'
    <3>1. ~Verifying' /\ Parsing'
      BY <1>7 DEF Verifying, Parsing, Asking
    <3>2. Len(toRead) <= Len(BlocksOf[mod])
      BY <1>4, <1>7
    <3> QED
      BY <1>1, <1>3, <1>7, <2>3, <3>1, <3>2 DEF ModuleInTurn
  <2>13. RequestRight'
    BY <1>5 DEF RequestRight
  <2> QED
    BY <1>7, <2>1, <2>3, <2>4, <2>6, <2>7, <2>8, <2>9, <2>11, <2>12, <2>13
<1> QED
  BY <1>1, <1>6, <1>7

(* Main is done with a block of the module.                                *)
LEMMA DecWInv ==
  ASSUME LInv, WInv, DecLibBlock
  PROVE  /\ WInv' /\ Parsed(mod) /\ mod' = mod
         /\ \A n : Parsed(n)' <=> Parsed(n)
<1> USE DEF WInv
<1>1. /\ mpc = "parse" /\ toRead' = Tail(toRead)
      /\ mpc' = IF Len(toRead) = 1 THEN "deselect" ELSE "verify"
      /\ UNCHANGED <<wanted, selected, roots, pend, defined, marked, toRequest, cur, mod>>
  BY DEF DecLibBlock, MainGoto
<1>2. Parsing /\ ~Verifying
  BY <1>1 DEF Verifying, Parsing, Asking
<1>3. /\ mod \in marked /\ LibOf[mod] = cur /\ toRead # <<>> /\ NoDup(toRead) /\ Parsed(mod)
      /\ Elements(toRead) \subseteq Elements(BlocksOf[mod]) /\ Len(toRead) <= Len(BlocksOf[mod])
      /\ toRead \in Seq(AllBlocks) /\ mod \in Modules
  BY <1>2 DEF ModuleInTurn, WTypes
<1>4. /\ toRead' \in Seq(AllBlocks) /\ Len(toRead') = Len(toRead) - 1 /\ NoDup(toRead')
      /\ Elements(toRead') \subseteq Elements(BlocksOf[mod])
  BY <1>1, <1>3, TailEntries
<1>5. /\ WTypes' /\ Origin' /\ WantedRight' /\ StillWanted'
      /\ \A n : Parsed(n)' <=> Parsed(n)
      /\ \A k : Unparsed(k)' = Unparsed(k)
  BY <1>1, <1>4, BookStays DEF WTypes
<1>6. Parsed(mod)'
  BY <1>1, <1>3, <1>5
<1>7. SelectedCounts'
  BY <1>1, <1>3, <1>5, <1>6 DEF SelectedCounts, InWork
<1>8. ModuleInTurn'
  <2>1. CASE Len(toRead) = 1
    <3>1. ~Verifying' /\ ~Parsing' /\ toRead' = <<>>
      BY <1>1, <1>4, <2>1 DEF Verifying, Parsing, Asking
    <3> QED
      BY <1>1, <1>3, <1>6, <3>1 DEF ModuleInTurn
  <2>2. CASE Len(toRead) # 1
    <3>1. Verifying' /\ ~Parsing' /\ toRead' # <<>> /\ Len(toRead') < Len(BlocksOf[mod])
      <4>1. BlocksOf[mod] \in Seq(AllBlocks)
        BY <1>3, BlocksAre
      <4>2. Len(toRead) \in Nat /\ Len(BlocksOf[mod]) \in Nat /\ Len(toRead) # 0
        BY <1>3, <4>1
      <4>3. Len(toRead') < Len(BlocksOf[mod]) /\ Len(toRead') # 0
        BY <1>3, <1>4, <2>2, <4>2
      <4>4. toRead' # <<>>
        BY <4>3
      <4> QED
        BY <1>1, <2>2, <4>3, <4>4 DEF Verifying, Parsing, Asking
    <3> QED
      BY <1>1, <1>3, <1>4, <1>6, <2>2, <3>1 DEF ModuleInTurn, Verifying
  <2> QED
    BY <2>1, <2>2
<1>9. RequestRight'
  BY <1>1 DEF RequestRight, Asking
<1> QED
  BY <1>1, <1>3, <1>5, <1>7, <1>8, <1>9


(* WInv, when main goes on in a place that says as much of the module.     *)
LEMMA MoveWInv ==
  ASSUME WInv, UNCHANGED <<wanted, defined, marked, roots, pend, mod, toRead, selected>>,
         toRequest' \in Seq(AllBlocks),
         \A l \in Libs : InWork(l)' <=> InWork(l),
         ModuleInTurn', RequestRight'
  PROVE  WInv' /\ \A n : Parsed(n)' <=> Parsed(n)
<1>1. /\ WTypes' /\ Origin' /\ WantedRight' /\ StillWanted'
      /\ \A n : Parsed(n)' <=> Parsed(n)
      /\ \A k : Unparsed(k)' = Unparsed(k)
  BY BookStays DEF WInv, WTypes
<1>2. SelectedCounts'
  BY <1>1 DEF SelectedCounts, WInv
<1> QED
  BY <1>1, <1>2 DEF WInv

(* Main requests the blocks of a module, one after the other. *)
LEMMA AskWInv ==
  ASSUME LInv, WInv, AddToRequestList \/ RequestBlock \/ CountWrite \/ StoreNumber \/ BumpLib
  PROVE  WInv' /\ \A n : Parsed(n)' <=> Parsed(n)
<1>1. /\ UNCHANGED <<wanted, defined, marked, roots, pend, mod, toRead, selected, cur, rlib, ctx>>
      /\ mpc \in {"add", "request", "countwrite", "number", "bumplib"}
      /\ \/ toRequest' = toRequest /\ mpc' \in {"request", "countwrite", "number", "bumplib"}
         \/ /\ toRequest' = Tail(toRequest)
            /\ mpc' = IF Tail(toRequest) = <<>> THEN ctx ELSE "request"
  BY DEF AddToRequestList, RequestBlock, CountWrite, StoreNumber, BumpLib, RequestRest, MainGoto,
     libVars
<1>2. Asking /\ ctx \in {"top", "parse"}
  BY <1>1 DEF Asking, LInv, LTypes
<1>3. toRequest \in Seq(AllBlocks) /\ toRequest # <<>>
  BY <1>2 DEF WInv, WTypes, RequestRight
<1>4. /\ Tail(toRequest) \in Seq(AllBlocks)
      /\ Elements(Tail(toRequest)) \subseteq Elements(toRequest)
  BY <1>3, TailEntries
<1>5. /\ toRequest' \in Seq(AllBlocks) /\ Elements(toRequest') \subseteq Elements(toRequest)
      /\ Asking' => toRequest' # <<>>
      /\ Parsing' <=> Parsing
      /\ ~Verifying /\ ~Verifying' /\ mpc \notin {"find", "remove", "deselect"}
      /\ mpc' \notin {"find", "remove", "deselect"}
  BY <1>1, <1>2, <1>3, <1>4 DEF Asking, Parsing, Verifying
<1>6. \A n : Parsed(n)' <=> Parsed(n)
  BY <1>1 DEF Parsed
<1>7. RequestRight'
  <2>1. PICK m \in marked : /\ LibOf[m] = rlib /\ ~Parsed(m)
                            /\ Elements(toRequest) \subseteq Elements(BlocksOf[m])
    BY <1>2 DEF WInv, RequestRight
  <2>2. m \in marked' /\ LibOf[m] = rlib' /\ ~Parsed(m)'
        /\ Elements(toRequest') \subseteq Elements(BlocksOf[m])
    BY <1>1, <1>5, <1>6, <2>1
  <2> QED
    BY <1>5, <2>2 DEF RequestRight
<1>8. ModuleInTurn'
  <2>1. Parsed(mod)' <=> Parsed(mod)
    BY <1>1 DEF Parsed
  <2> QED
    BY <1>1, <1>5, <2>1 DEF WInv, ModuleInTurn
<1>9. \A l \in Libs : InWork(l)' <=> InWork(l)
  BY <1>1, <1>5 DEF InWork, Parsed
<1> QED
  BY <1>1, <1>5, <1>7, <1>8, <1>9, MoveWInv

LEMMA SelectWInv ==
  ASSUME LInv, LInv', WInv, WaitRead \/ SelectLibrary \/ RemoveFromRequestList
                            \/ LibrariesDone \/ Bump \/ CloseLibFiles \/ Join
  PROVE  WInv' /\ \A n : Parsed(n)' <=> Parsed(n)
<1>1. /\ UNCHANGED <<wanted, defined, marked, roots, pend, mod, toRead, selected, toRequest>>
      /\ \/ mpc = "waitread" /\ mpc' = "verify" /\ cur' = cur
         \/ mpc = "top" /\ mpc' = "find"
         \/ mpc = "remove" /\ mpc' = "top"
         \/ /\ mpc \in {"top", "bump", "close", "join"} /\ cur' = cur
            /\ mpc' \in {"bump", "close", "join", "finished"}
  BY DEF WaitRead, SelectLibrary, RemoveFromRequestList, LibrariesDone, Bump, CloseLibFiles, Join,
     AfterWait, MainGoto, libVars
<1>2. toRequest' \in Seq(AllBlocks)
  BY <1>1 DEF WInv, WTypes
<1>3. RequestRight'
  BY <1>1 DEF RequestRight, Asking
<1>4. CASE mpc = "waitread" /\ mpc' = "verify" /\ cur' = cur
  <2>1. Verifying /\ Verifying' /\ ~Parsing /\ ~Parsing'
    BY <1>4 DEF Verifying, Parsing, Asking
  <2>2. Parsed(mod)' <=> Parsed(mod)
    BY <1>1 DEF Parsed
  <2>3. ModuleInTurn'
    BY <1>1, <1>4, <2>1, <2>2 DEF WInv, ModuleInTurn
  <2>4. \A l \in Libs : InWork(l)' <=> InWork(l)
    BY <1>1, <1>4, <2>2 DEF InWork
  <2> QED
    BY <1>1, <1>2, <1>3, <2>3, <2>4, MoveWInv
<1>5. CASE /\ mpc \in {"top", "remove", "bump", "close", "join"}
           /\ mpc' \in {"find", "top", "bump", "close", "join", "finished"}
  <2>1. ~Verifying /\ ~Verifying' /\ ~Parsing /\ ~Parsing'
    BY <1>5 DEF Verifying, Parsing, Asking
  <2>2. ModuleInTurn'
    BY <1>1, <1>5, <2>1 DEF WInv, ModuleInTurn
  <2>3. \A l \in Libs : ~InWork(l) /\ ~InWork(l)'
    <3>1. mpc # "remove" => cur = None
      BY <1>5, <2>1 DEF LInv, LMode, InTurn
    <3>2. mpc' # "find" => cur' = None
      BY <1>5, <2>1 DEF LInv, LMode, InTurn
    <3>3. \A l \in Libs : l # None
      BY LibReadAssumption
    <3> QED
      BY <3>1, <3>2, <3>3 DEF InWork
  <2> QED
    BY <1>1, <1>2, <1>3, <2>2, <2>3, MoveWInv
<1> QED
  BY <1>1, <1>4, <1>5

LEMMA DeselectWInv ==
  ASSUME LInv, WInv, Deselect
  PROVE  WInv' /\ \A n : Parsed(n)' <=> Parsed(n)
<1> USE DEF WInv
<1>1. /\ UNCHANGED <<wanted, defined, marked, roots, pend, mod, toRead, toRequest, cur>>
      /\ mpc = "deselect" /\ mpc' \in {"find", "remove"}
      /\ selected' = [selected EXCEPT ![cur] = @ - 1]
  BY DEF Deselect, MainGoto
<1>2. cur \in Libs
  BY <1>1, CurIsFirst DEF InTurn
<1>3. toRequest' \in Seq(AllBlocks) /\ toRead' \in Seq(AllBlocks)
  BY <1>1 DEF WTypes
<1>4. /\ WTypes' /\ Origin' /\ WantedRight' /\ StillWanted'
      /\ \A n : Parsed(n)' <=> Parsed(n)
      /\ \A k : Unparsed(k)' = Unparsed(k)
  BY <1>1, <1>3, BookStays
<1>5. Parsed(mod) /\ toRead = <<>>
  BY <1>1 DEF ModuleInTurn, Verifying, Parsing, Asking
<1>6. SelectedCounts'
  <2> SUFFICES ASSUME NEW k \in Libs
               PROVE  selected'[k] = Cardinality(Unparsed(k)') + (IF InWork(k)' THEN 1 ELSE 0)
    BY DEF SelectedCounts
  <2>1. selected[k] = Cardinality(Unparsed(k)) + (IF InWork(k) THEN 1 ELSE 0)
    BY DEF SelectedCounts
  <2>2. Cardinality(Unparsed(k)) \in Nat /\ Cardinality(Unparsed(k)') = Cardinality(Unparsed(k))
    BY <1>4, ModulesFinite
  <2>3. InWork(k) <=> k = cur
    BY <1>1, <1>5 DEF InWork
  <2>4. ~InWork(k)'
    BY <1>1 DEF InWork
  <2>5. selected'[k] = IF k = cur THEN selected[k] - 1 ELSE selected[k]
    BY <1>1, <1>2 DEF LInv, LTypes
  <2> QED
    BY <2>1, <2>2, <2>3, <2>4, <2>5
<1>7. ModuleInTurn'
  <2>1. ~Verifying' /\ ~Parsing' /\ mpc' # "deselect" /\ toRead' = <<>>
    BY <1>1, <1>5 DEF Verifying, Parsing, Asking
  <2> QED
    BY <2>1 DEF ModuleInTurn
<1>8. RequestRight'
  BY <1>1 DEF RequestRight, Asking
<1> QED
  BY <1>4, <1>6, <1>7, <1>8

(* A step that is no step of main's. *)
LEMMA StillWInv ==
  ASSUME WInv, UNCHANGED <<listVars, bookVars, mpc>>
  PROVE  WInv' /\ \A n : Parsed(n)' <=> Parsed(n)
<1> USE DEF listVars, bookVars
<1>1. toRequest' \in Seq(AllBlocks) /\ (Parsed(mod)' <=> Parsed(mod))
  BY DEF WInv, WTypes, Parsed
<1>2. \A l \in Libs : InWork(l)' <=> InWork(l)
  BY <1>1 DEF InWork
<1>3. (Verifying' <=> Verifying) /\ (Parsing' <=> Parsing) /\ (Asking' <=> Asking)
  BY DEF Verifying, Parsing, Asking
<1>4. ModuleInTurn'
  BY <1>1, <1>3 DEF WInv, ModuleInTurn
<1>5. RequestRight'
  <2>1. \A n : Parsed(n)' <=> Parsed(n)
    BY DEF Parsed
  <2> QED
    BY <1>3, <2>1 DEF WInv, RequestRight
<1> QED
  BY <1>1, <1>2, <1>4, <1>5, MoveWInv

LEMMA StepWInv ==
  ASSUME LInv, LInv', WInv, OneDefiner, OneDefiner', [Next]_vars,
         \A t \in Threads : LibReadT(t) => mpc' = mpc
  PROVE  WInv'
<1>1. CASE UNCHANGED vars
  BY <1>1, StillWInv DEF vars, libVars, mainVars, listVars, bookVars
<1>2. ASSUME NEW t \in Threads, LibReadT(t) PROVE WInv'
  BY <1>2, ThreadFrame, StillWInv
<1>3. CASE Capture(Main) \/ ReleasePost(Main)
  BY <1>3, CaptureFrame, StillWInv DEF libVars, mainVars, listVars, bookVars, Procs
<1> QED
  BY <1>1, <1>2, <1>3, MainSteps, ReferenceWInv, FindWInv, VerifyWInv, DecWInv, AskWInv, SelectWInv,
     DeselectWInv DEF Next


------------------------------------------------------------------------------
(* The blocks.                                                             *)

LEMMA LeftStays ==
  ASSUME UNCHANGED <<mod, toRead>>, \A n : Parsed(n)' <=> Parsed(n)
  PROVE  \A l, b : Left(l, b)' = Left(l, b)
BY DEF Left

(* Nothing happens to the blocks. *)
LEMMA BlocksStay ==
  ASSUME BInv, UNCHANGED <<flagged, table, modsLeft, handleOpen>>, libsDone => libsDone',
         \A l, b : Left(l, b)' = Left(l, b), marked \subseteq marked', AtBlock'
  PROVE  BInv' /\ \A l : Out(l)' = Out(l)
<1> USE DEF BInv
<1>1. \A l : Out(l)' = Out(l)
  BY DEF Out
<1>2. BTypes' /\ Counted'
  BY DEF BInv, BTypes, Counted
<1>3. ASSUME ~libsDone' PROVE Flags'
  <2>1. Flags
    BY <1>3
  <2>2. \A l \in Libs : \A b \in Out(l)' : Left(l, b)' \cap marked' # {}
    BY <1>1, <2>1 DEF Flags
  <2>3. /\ \A l \in Libs, b \in AllBlocks : table'[l][b] # NoBlock => b \in flagged'[l]
        /\ \A l \in Libs : \A b \in flagged'[l] : modsLeft'[l][b] > 0
        /\ \A l \in Libs, b \in AllBlocks : modsLeft'[l][b] > 0 => handleOpen'[l]
    BY <2>1 DEF Flags
  <2> QED
    BY <2>2, <2>3 DEF Flags
<1> QED
  BY <1>1, <1>2, <1>3

(* A block that is outstanding. *)
LEMMA OutIs ==
  ASSUME WInv, BInv, ~libsDone, NEW l \in Libs, NEW b \in Out(l)
  PROVE  /\ b \in AllBlocks /\ b \in flagged[l] /\ table[l][b] = NoBlock /\ b \in LibBlocks(l)
         /\ handleOpen[l] /\ \E m \in marked : m \in Left(l, b)
<1> USE DEF BInv
<1>1. b \in flagged[l] /\ b \in AllBlocks /\ table[l][b] = NoBlock
  BY DEF BInv, BTypes, Out
<1>2. Flags
  BY DEF BInv
<1>3. PICK m \in marked : m \in Left(l, b)
  BY <1>2 DEF Flags
<1>4. b \in LibBlocks(l)
  BY <1>3 DEF Left, ModulesIn, LibBlocks
<1>5. handleOpen[l]
  BY <1>1, <1>2 DEF Flags
<1> QED
  BY <1>1, <1>3, <1>4, <1>5

LEMMA InitBInv == Init => BInv
<1> USE DEF BInv
<1> SUFFICES ASSUME Init PROVE BInv
  OBVIOUS
<1> USE DEF Init
<1>1. \A l, b : Left(l, b) = ModulesIn(l, b)
  BY DEF Left, Parsed
<1>2. \A l, b : Cardinality(ModulesIn(l, b)) \in Nat
  <2> SUFFICES ASSUME NEW l, NEW b PROVE Cardinality(ModulesIn(l, b)) \in Nat
    OBVIOUS
  <2>1. ModulesIn(l, b) \in SUBSET Modules
    BY DEF ModulesIn
  <2> QED
    BY <2>1, LibReadAssumption, FS_Subset, FS_CardinalityType
<1>3. \A l \in Libs, b \in AllBlocks : modsLeft[l][b] = Cardinality(Left(l, b))
  BY <1>1
<1>4. BTypes
  <2>1. modsLeft \in [Libs -> [AllBlocks -> Nat]]
    BY <1>2
  <2>2. table \in [Libs -> [AllBlocks -> AllBlocks \union {NoBlock}]]
    OBVIOUS
  <2> QED
    BY <2>1, <2>2 DEF BTypes
<1>5. Counted
  BY <1>3 DEF Counted
<1>6. Flags
  BY DEF Flags, Out
<1>7. AtBlock
  BY DEF AtBlock, Parsing, Asking
<1> QED
  BY <1>4, <1>5, <1>6, <1>7

(* A thread stores a block that is outstanding. *)
LEMMA StoreBInv ==
  ASSUME LInv, WInv, BInv, QInv, NEW t \in Threads, Store(t)
  PROVE  /\ BInv' /\ ~libsDone /\ tlib[t] \in Libs /\ tblk[t] \in Out(tlib[t])
         /\ table' = [table EXCEPT ![tlib[t]][tblk[t]] = tblk[t]] /\ tblk[t] \in AllBlocks
         /\ \A l \in Libs : Out(l)' = IF l = tlib[t] THEN Out(l) \ {tblk[t]} ELSE Out(l)
<1> USE DEF BInv
<1> DEFINE k == tlib[t]
           c == tblk[t]
<1>1. /\ tpc[t] = "store" /\ table' = [table EXCEPT ![k][c] = tbuf[t]]
      /\ UNCHANGED <<flagged, modsLeft, handleOpen, libsDone>>
      /\ UNCHANGED <<mod, toRead, marked, defined, cur, rlib, ctx, toRequest, mpc>>
  BY DEF Store, mainVars, At
<1>2. HasLib(t) /\ Chosen(t)
  BY <1>1 DEF HasLib, Working, Chosen
<1>3. ~libsDone /\ k \in Libs
  BY <1>2 DEF QInv, EndInv, OwnLib
<1>4. c \in Out(k) /\ tbuf[t] = c
  BY <1>1, <1>2, <1>3 DEF QInv, TakenRight
<1>5. c \in AllBlocks /\ c \in flagged[k] /\ c # NoBlock
  BY <1>3, <1>4, OutIs, BlocksFromOne
<1> HIDE DEF k, c
<1>6. /\ table' \in [Libs -> [AllBlocks -> AllBlocks \union {NoBlock}]]
      /\ \A l \in Libs, b \in AllBlocks : table'[l][b] = IF l = k /\ b = c THEN c ELSE table[l][b]
  BY <1>1, <1>3, <1>4, <1>5 DEF BTypes
<1>7. \A l, b : Left(l, b)' = Left(l, b)
  BY <1>1, LeftStays DEF Parsed
<1>8. ASSUME NEW l \in Libs PROVE Out(l)' = IF l = k THEN Out(l) \ {c} ELSE Out(l)
  <2>1. flagged[l] \subseteq AllBlocks
    BY DEF BInv, BTypes
  <2>2. Out(l)' = {b \in flagged[l] : table'[l][b] = NoBlock}
    BY <1>1 DEF Out
  <2> QED
    BY <1>5, <1>6, <2>1, <2>2 DEF Out
<1>9. BTypes' /\ Counted'
  BY <1>1, <1>6, <1>7 DEF BTypes, Counted
<1>10. Flags'
  <2>1. Flags
    BY <1>3
  <2>2. \A l \in Libs : \A b \in Out(l)' : Left(l, b)' \cap marked' # {}
    BY <1>1, <1>7, <1>8, <2>1 DEF Flags
  <2> QED
    BY <1>1, <1>5, <1>6, <2>1, <2>2 DEF Flags
<1>11. AtBlock'
  <2>1. ASSUME Parsing' PROVE table'[cur][Head(toRead)] = Head(toRead)
    <3>1. Parsing
      BY <1>1, <2>1 DEF Parsing, Asking
    <3>2. table[cur][Head(toRead)] = Head(toRead)
      BY <3>1 DEF AtBlock
    <3>3. cur \in Libs
      <4>1. InTurn /\ mpc # "aborted"
        BY <3>1 DEF InTurn, QInv, EndInv
      <4> QED
        BY <4>1, CurIsFirst
    <3>4. Head(toRead) \in AllBlocks
      <4>1. toRead # <<>> /\ toRead \in Seq(AllBlocks)
        BY <3>1 DEF WInv, ModuleInTurn, WTypes
      <4> QED
        BY <4>1, TailEntries
    <3> QED
      BY <3>2, <3>3, <3>4, <1>6
  <2>2. ASSUME mpc' \in {"countwrite", "number"} PROVE Head(toRequest)' \in Out(rlib)'
    <3>1. Head(toRequest) \in Out(rlib)
      BY <1>1, <2>2 DEF AtBlock
    <3>2. rlib = k => c # Head(toRequest)
      BY <1>1, <1>2, <1>3, <2>2 DEF QInv, NumberNew, k, c
    <3>3. rlib \in Libs
      BY <1>1, <2>2 DEF LInv, LMode, Asking
    <3> QED
      BY <1>1, <1>8, <3>1, <3>2, <3>3
  <2> QED
    BY <1>1, <2>1, <2>2 DEF AtBlock
<1>12. BInv'
  BY <1>9, <1>10, <1>11
<1> QED
  BY <1>1, <1>3, <1>4, <1>5, <1>8, <1>12 DEF k, c


(* Main references, finds and verifies: nothing happens to the blocks. *)
LEMMA ReferenceBInv ==
  ASSUME LInv, WInv, BInv, OneDefiner, OneDefiner', NEW s \in Symbols, Reference(s)
  PROVE  BInv' /\ \A l : Out(l)' = Out(l)
<1>1. /\ UNCHANGED <<flagged, table, modsLeft, handleOpen, libsDone, mod, toRead, cur>>
      /\ marked \subseteq marked' /\ mpc \in {"top", "parse"}
      /\ \/ UNCHANGED <<ctx, mpc>>
         \/ ctx' = mpc /\ mpc' \in {"add", "request"}
  BY DEF Reference, MainGoto
<1>2. \A l, b : Left(l, b)' = Left(l, b)
  BY <1>1, ReferenceWInv, LeftStays
<1>3. AtBlock'
  <2>1. Parsing' => Parsing
    BY <1>1 DEF Parsing, Asking
  <2>2. mpc' \notin {"countwrite", "number"}
    BY <1>1
  <2> QED
    BY <1>1, <2>1, <2>2 DEF AtBlock, BInv
<1> QED
  BY <1>1, <1>2, <1>3, BlocksStay

LEMMA FindBInv ==
  ASSUME LInv, WInv, BInv, OneDefiner, FindModule
  PROVE  BInv' /\ \A l : Out(l)' = Out(l)
<1>1. /\ UNCHANGED <<flagged, table, modsLeft, handleOpen, libsDone, marked>>
      /\ mpc = "find" /\ mpc' \in {"verify", "deselect"}
  BY DEF FindModule, MainGoto, libVars
<1>2. toRead = <<>>
  BY <1>1 DEF WInv, ModuleInTurn, Verifying, Parsing, Asking
<1>3. \A l, b : Left(l, b)' = Left(l, b)
  <2> SUFFICES ASSUME NEW l, NEW b PROVE Left(l, b)' = Left(l, b)
    OBVIOUS
  <2>1. b \notin Elements(toRead)
    BY <1>2 DEF Elements
  <2>2. ~Parsed(mod') /\ \A n : Parsed(n)' <=> Parsed(n)
    BY FindWInv
  <2>3. Left(l, b)' = {n \in ModulesIn(l, b) : Parsed(n)' => n = mod' /\ b \in Elements(toRead')}
    BY DEF Left
  <2> QED
    BY <2>1, <2>2, <2>3 DEF Left
<1>4. AtBlock'
  BY <1>1 DEF AtBlock, Parsing, Asking
<1> QED
  BY <1>1, <1>3, <1>4, BlocksStay

LEMMA VerifyBInv ==
  ASSUME LInv, WInv, BInv, OneDefiner, VerifyBlock
  PROVE  BInv' /\ \A l : Out(l)' = Out(l)
<1>1. /\ UNCHANGED <<flagged, table, modsLeft, handleOpen, libsDone, marked, mod, toRead, cur>>
      /\ mpc = "verify"
      /\ \/ mpc' = "waitread"
         \/ mpc' = "parse" /\ table[cur][Head(toRead)] # NoBlock
  BY DEF VerifyBlock, MainGoto
<1>2. Verifying /\ InTurn /\ mpc # "aborted"
  BY <1>1 DEF Verifying, InTurn
<1>3. mod \in marked /\ toRead # <<>> /\ toRead \in Seq(AllBlocks) /\ cur \in Libs
  BY <1>2, CurIsFirst DEF WInv, ModuleInTurn, WTypes
<1>4. \A l, b : Left(l, b)' = Left(l, b)
  <2> SUFFICES ASSUME NEW l, NEW b PROVE Left(l, b)' = Left(l, b)
    OBVIOUS
  <2>1. /\ \A n \in marked : n # mod => (Parsed(n)' <=> Parsed(n))
        /\ toRead = BlocksOf[mod] \/ Parsed(mod)
        /\ Parsed(mod) => Parsed(mod)'
    BY VerifyWInv
  <2>2. \A n : n \notin marked => ~Parsed(n) /\ ~Parsed(n)'
    BY <1>1 DEF Parsed
  <2>3. Left(l, b)' = {n \in ModulesIn(l, b) : Parsed(n)' => n = mod /\ b \in Elements(toRead)}
    BY <1>1 DEF Left
  <2>4. ASSUME NEW n \in ModulesIn(l, b)
        PROVE  (Parsed(n)' => n = mod /\ b \in Elements(toRead)) <=>
               (Parsed(n) => n = mod /\ b \in Elements(toRead))
    <3>1. CASE n = mod /\ toRead = BlocksOf[mod]
      BY <3>1 DEF ModulesIn
    <3>2. CASE n = mod /\ Parsed(mod)
      BY <1>1, <2>1, <3>2
    <3>3. CASE n # mod
      BY <2>1, <2>2, <3>3
    <3> QED
      BY <2>1, <3>1, <3>2, <3>3
  <2> QED
    BY <2>3, <2>4 DEF Left
<1>5. AtBlock'
  <2>1. ASSUME Parsing' PROVE table'[cur'][Head(toRead')] = Head(toRead')
    <3>1. mpc' = "parse"
      BY <1>1, <2>1 DEF Parsing, Asking
    <3>2. Head(toRead) \in AllBlocks
      BY <1>3, TailEntries
    <3>3. table[cur][Head(toRead)] = Head(toRead)
      BY <1>1, <1>3, <3>1, <3>2 DEF BInv, Counted
    <3> QED
      BY <1>1, <3>3
  <2> QED
    BY <1>1, <2>1 DEF AtBlock
<1> QED
  BY <1>1, <1>4, <1>5, BlocksStay

(* Main is done with a block, and frees it with the last module.           *)
LEMMA DecBInv ==
  ASSUME LInv, WInv, BInv, DecLibBlock, ~libsDone
  PROVE  /\ BInv' /\ \A l \in Libs : Out(l)' = Out(l)
         /\ cur \in Libs /\ Head(toRead) \in AllBlocks
         /\ table[cur][Head(toRead)] = Head(toRead) /\ Head(toRead) \in flagged[cur]
         /\ \/ UNCHANGED <<table, flagged>>
            \/ /\ table' = [table EXCEPT ![cur][Head(toRead)] = NoBlock]
               /\ flagged' = [flagged EXCEPT ![cur] = @ \ {Head(toRead)}]
<1> USE DEF BInv
<1> DEFINE c == Head(toRead)
           k == cur
           last == modsLeft[k][c] = 1
<1>0. Flags /\ BTypes
  OBVIOUS
<1>1. /\ mpc = "parse" /\ toRead' = Tail(toRead) /\ mpc' \in {"deselect", "verify"}
      /\ UNCHANGED <<marked, mod, libsDone>>
      /\ modsLeft' = [modsLeft EXCEPT ![k][c] = @ - 1]
      /\ IF last
           THEN /\ table' = [table EXCEPT ![k][c] = NoBlock]
                /\ flagged' = [flagged EXCEPT ![k] = @ \ {c}]
                /\ handleOpen' = [handleOpen EXCEPT ![k] =
                                    @ /\ \E d \in LibBlocks(k) : modsLeft'[k][d] > 0]
           ELSE UNCHANGED <<table, flagged, handleOpen>>
  BY DEF DecLibBlock, MainGoto, LastModule
<1>2. Parsing /\ InTurn /\ mpc # "aborted"
  BY <1>1 DEF Parsing, InTurn
<1>3. k \in Libs
  BY <1>2, CurIsFirst
<1>4. /\ mod \in marked /\ mod \in Modules /\ LibOf[mod] = k /\ toRead # <<>> /\ NoDup(toRead)
      /\ toRead \in Seq(AllBlocks) /\ Elements(toRead) \subseteq Elements(BlocksOf[mod])
      /\ Parsed(mod)
  BY <1>2 DEF WInv, ModuleInTurn, WTypes
<1>5. /\ c \in AllBlocks /\ c \in Elements(toRead) /\ c \notin Elements(toRead')
      /\ Elements(toRead) = Elements(toRead') \union {c}
  BY <1>1, <1>4, TailEntries
<1>6. mod \in ModulesIn(k, c) /\ c # NoBlock
  BY <1>4, <1>5, BlocksAre, BlocksFromOne
<1>7. table[k][c] = c /\ c \in flagged[k]
  BY <1>2, <1>3, <1>5, <1>6 DEF AtBlock, Flags
<1> HIDE DEF k, c
<1>8. \A n : Parsed(n)' <=> Parsed(n)
  BY DecWInv
<1>9. ASSUME NEW l, NEW b
      PROVE  Left(l, b)' = IF l = k /\ b = c THEN Left(l, b) \ {mod} ELSE Left(l, b)
  <2>1. Left(l, b)' = {n \in ModulesIn(l, b) : Parsed(n) => n = mod /\ b \in Elements(toRead')}
    BY <1>1, <1>8 DEF Left
  <2>2. CASE l = k /\ b = c
    BY <1>4, <1>5, <2>1, <2>2 DEF Left
  <2>3. CASE l = k /\ b # c
    <3>1. b \in Elements(toRead') <=> b \in Elements(toRead)
      BY <1>5, <2>3
    <3> QED
      BY <2>1, <2>3, <3>1 DEF Left
  <2>4. CASE l # k
    <3>1. mod \notin ModulesIn(l, b)
      BY <1>4, <2>4 DEF ModulesIn
    <3> QED
      BY <2>1, <2>4, <3>1 DEF Left
  <2> QED
    BY <2>2, <2>3, <2>4
<1>10. mod \in Left(k, c)
  BY <1>5, <1>6 DEF Left
<1>11. \A l \in Libs, b \in AllBlocks :
         modsLeft'[l][b] = IF l = k /\ b = c THEN modsLeft[l][b] - 1 ELSE modsLeft[l][b]
  BY <1>1, <1>3, <1>5 DEF BTypes
<1>12. ASSUME NEW l \in Libs, NEW b \in AllBlocks PROVE modsLeft'[l][b] = Cardinality(Left(l, b)')
  <2>1. /\ IsFiniteSet(Left(l, b)) /\ modsLeft[l][b] = Cardinality(Left(l, b))
    BY ModulesFinite DEF Counted, WInv
  <2>2. Cardinality(Left(l, b) \ {mod}) = IF mod \in Left(l, b) THEN Cardinality(Left(l, b)) - 1
                                                               ELSE Cardinality(Left(l, b))
    BY <2>1, FS_RemoveElement
  <2>3. CASE l = k /\ b = c
    BY <1>9, <1>10, <1>11, <2>1, <2>2, <2>3
  <2>4. CASE ~(l = k /\ b = c)
    BY <1>9, <1>11, <2>1, <2>4
  <2> QED
    BY <2>3, <2>4
<1>13. modsLeft' \in [Libs -> [AllBlocks -> Nat]]
  <2>1. modsLeft[k][c] > 0 /\ modsLeft[k][c] \in Nat
    BY <1>3, <1>5, <1>7 DEF Flags, BTypes
  <2> QED
    BY <1>1, <1>3, <1>5, <2>1 DEF BTypes
<1>14. ASSUME NEW l \in Libs, NEW b \in AllBlocks
       PROVE  table'[l][b] = IF l = k /\ b = c /\ last THEN NoBlock ELSE table[l][b]
  BY <1>1, <1>3, <1>5 DEF BTypes
<1>15. ASSUME NEW l \in Libs
       PROVE  flagged'[l] = IF l = k /\ last THEN flagged[l] \ {c} ELSE flagged[l]
  BY <1>1, <1>3 DEF BTypes
<1>16. ASSUME NEW l \in Libs
       PROVE  /\ handleOpen'[l] \in BOOLEAN
              /\ handleOpen[l] /\ (\E d \in LibBlocks(l) : modsLeft'[l][d] > 0) => handleOpen'[l]
  <2>1. CASE l = k /\ last
    BY <1>1, <1>3, <2>1 DEF BTypes
  <2>2. CASE ~(l = k /\ last)
    <3>1. handleOpen'[l] = handleOpen[l]
      BY <1>1, <1>3, <2>2 DEF BTypes
    <3> QED
      BY <3>1 DEF BTypes
  <2> QED
    BY <2>1, <2>2
<1> HIDE DEF last
<1>17. BTypes'
  <2>1. table' \in [Libs -> [AllBlocks -> AllBlocks \union {NoBlock}]]
    <3>1. CASE last
      <4>1. table' = [table EXCEPT ![k][c] = NoBlock]
        BY <1>1, <3>1
      <4>2. table \in [Libs -> [AllBlocks -> AllBlocks \union {NoBlock}]]
        BY <1>0 DEF BTypes
      <4> QED
        BY <1>3, <1>5, <4>1, <4>2
    <3>2. CASE ~last
      BY <1>0, <1>1, <3>2 DEF BTypes
    <3> QED
      BY <3>1, <3>2
  <2>2. flagged' \in [Libs -> SUBSET AllBlocks]
    BY <1>1, <1>3 DEF BTypes
  <2>3. handleOpen' \in [Libs -> BOOLEAN]
    <3>1. DOMAIN handleOpen' = Libs /\ handleOpen' = [l \in Libs |-> handleOpen'[l]]
      BY <1>1 DEF BTypes
    <3> QED
      BY <3>1, <1>16
  <2> QED
    BY <1>13, <2>1, <2>2, <2>3 DEF BTypes
<1>18. Counted'
  BY <1>12, <1>14 DEF Counted
<1>19. \A l \in Libs : Out(l)' = Out(l)
  <2> SUFFICES ASSUME NEW l \in Libs PROVE Out(l)' = Out(l)
    OBVIOUS
  <2>1. flagged[l] \subseteq AllBlocks
    BY DEF BTypes
  <2>2. Out(l)' = {b \in flagged'[l] : table'[l][b] = NoBlock}
    BY DEF Out
  <2>3. \A b \in flagged[l] :
          b \in flagged'[l] /\ table'[l][b] = NoBlock <=> table[l][b] = NoBlock
    BY <1>6, <1>7, <1>14, <1>15, <2>1
  <2>4. flagged'[l] \subseteq flagged[l]
    BY <1>15
  <2> QED
    BY <2>2, <2>3, <2>4 DEF Out
<1>20. Flags'
  <2>1. \A l \in Libs, b \in AllBlocks : table'[l][b] # NoBlock => b \in flagged'[l]
    <3> SUFFICES ASSUME NEW l \in Libs, NEW b \in AllBlocks, table'[l][b] # NoBlock
                 PROVE  b \in flagged'[l]
      OBVIOUS
    <3>1. ~(l = k /\ b = c /\ last) /\ table[l][b] # NoBlock
      BY <1>14
    <3>2. b \in flagged[l]
      BY <3>1, <1>0 DEF Flags
    <3> QED
      BY <1>15, <3>1, <3>2
  <2>2. \A l \in Libs : \A b \in flagged'[l] : modsLeft'[l][b] > 0
    <3> SUFFICES ASSUME NEW l \in Libs, NEW b \in flagged'[l] PROVE modsLeft'[l][b] > 0
      OBVIOUS
    <3>1. b \in flagged[l]
      BY <1>15
    <3>4. b \in AllBlocks /\ modsLeft[l][b] > 0 /\ modsLeft[l][b] \in Nat
      BY <3>1, <1>0 DEF BTypes, Flags
    <3>2. CASE l = k /\ b = c
      <4>1. ~last
        BY <1>15, <3>2
      <4>2. modsLeft[l][b] # 1
        BY <4>1, <3>2 DEF last
      <4> QED
        BY <1>11, <3>4, <3>2, <4>2
    <3>3. CASE ~(l = k /\ b = c)
      BY <1>11, <3>4, <3>3
    <3> QED
      BY <3>2, <3>3
  <2>3. \A l \in Libs : \A b \in Out(l)' : Left(l, b)' \cap marked' # {}
    <3> SUFFICES ASSUME NEW l \in Libs, NEW b \in Out(l)' PROVE Left(l, b)' \cap marked' # {}
      OBVIOUS
    <3>1. b \in Out(l) /\ Left(l, b) \cap marked # {}
      BY <1>19 DEF Flags
    <3>2. ~(l = k /\ b = c)
      BY <1>6, <1>7, <3>1 DEF Out
    <3> QED
      BY <1>1, <1>9, <3>1, <3>2
  <2>4. \A l \in Libs, b \in AllBlocks : modsLeft'[l][b] > 0 => handleOpen'[l]
    <3> SUFFICES ASSUME NEW l \in Libs, NEW b \in AllBlocks, modsLeft'[l][b] > 0
                 PROVE  handleOpen'[l]
      OBVIOUS
    <3>1. modsLeft[l][b] \in Nat /\ modsLeft[l][b] > 0
      BY <1>11 DEF BTypes
    <3>2. handleOpen[l]
      BY <3>1 DEF Flags
    <3>3. b \in LibBlocks(l)
      <4>1. Cardinality(Left(l, b)) # 0
        BY <3>1 DEF Counted
      <4>2. Left(l, b) # {}
        BY <4>1, FS_EmptySet
      <4> QED
        BY <4>2 DEF Left, ModulesIn, LibBlocks
    <3> QED
      BY <1>16, <3>2, <3>3
  <2> QED
    BY <2>1, <2>2, <2>3, <2>4 DEF Flags
<1>21. AtBlock'
  BY <1>1 DEF AtBlock, Parsing, Asking
<1>22. BInv'
  BY <1>17, <1>18, <1>20, <1>21
<1> QED
  BY <1>1, <1>3, <1>5, <1>7, <1>19, <1>22 DEF k, c

(* Main asks for a block, which is outstanding from then on. *)
LEMMA RequestBInv ==
  ASSUME LInv, WInv, BInv, RequestBlock, ~libsDone
  PROVE  /\ BInv' /\ rlib \in Libs /\ Head(toRequest) \in AllBlocks
         /\ IF Head(toRequest) \in flagged[rlib]
              THEN UNCHANGED flagged /\ \A l : Out(l)' = Out(l)
              ELSE /\ flagged' = [flagged EXCEPT ![rlib] = @ \union {Head(toRequest)}]
                   /\ Head(toRequest) \notin Out(rlib)
                   /\ \A l \in Libs : Out(l)' = IF l = rlib THEN Out(l) \union {Head(toRequest)}
                                                            ELSE Out(l)
<1> DEFINE c == Head(toRequest)
<1>0. Flags /\ BTypes /\ Counted /\ AtBlock
  BY DEF BInv
<1>1. /\ mpc = "request" /\ UNCHANGED <<table, modsLeft, handleOpen, libsDone, mod, toRead, cur>>
      /\ UNCHANGED <<marked, defined, rlib, ctx>>
      /\ IF c \in flagged[rlib]
           THEN mpc' \in {ctx, "request"} /\ UNCHANGED flagged
           ELSE /\ flagged' = [flagged EXCEPT ![rlib] = @ \union {c}]
                /\ mpc' \in {"countwrite", "number"} /\ toRequest' = toRequest
  BY DEF RequestBlock, MainGoto, RequestRest, Flagged
<1>2. Asking /\ ctx \in {"top", "parse"} /\ rlib \in Libs
  BY <1>1 DEF Asking, LInv, LTypes, LMode
<1>3. toRequest \in Seq(AllBlocks) /\ toRequest # <<>>
  BY <1>2 DEF WInv, WTypes, RequestRight
<1>4. c \in AllBlocks /\ c \in Elements(toRequest)
  BY <1>3, TailEntries
<1> HIDE DEF c
<1>5. \A l, b : Left(l, b)' = Left(l, b)
  BY <1>1, LeftStays DEF Parsed
<1>6. Parsing' <=> Parsing
  BY <1>1, <1>2 DEF Parsing, Asking
<1>7. CASE c \in flagged[rlib]
  <2>1. UNCHANGED flagged /\ mpc' \notin {"countwrite", "number"}
    BY <1>1, <1>2, <1>7
  <2>2. AtBlock'
    BY <1>0, <1>1, <1>6, <2>1 DEF AtBlock
  <2>3. BInv' /\ \A l : Out(l)' = Out(l)
    BY <1>1, <1>5, <2>1, <2>2, BlocksStay
  <2> QED
    BY <1>2, <1>4, <1>7, <2>1, <2>3 DEF c
<1>8. CASE c \notin flagged[rlib]
  <2>1. flagged' = [flagged EXCEPT ![rlib] = @ \union {c}] /\ toRequest' = toRequest
    BY <1>1, <1>8
  <2>2. ASSUME NEW l \in Libs
        PROVE  flagged'[l] = IF l = rlib THEN flagged[l] \union {c} ELSE flagged[l]
    BY <1>0, <1>2, <2>1 DEF BTypes
  <2>3. table[rlib][c] = NoBlock
    BY <1>0, <1>2, <1>4, <1>8 DEF Flags
  <2>4. ASSUME NEW l \in Libs
        PROVE  Out(l)' = IF l = rlib THEN Out(l) \union {c} ELSE Out(l)
    <3>1. Out(l)' = {b \in flagged'[l] : table[l][b] = NoBlock}
      BY <1>1 DEF Out
    <3> QED
      BY <2>2, <2>3, <3>1 DEF Out
  <2>5. c \notin Out(rlib)
    BY <1>8 DEF Out
  <2>6. PICK m \in marked : /\ LibOf[m] = rlib /\ ~Parsed(m)
                            /\ Elements(toRequest) \subseteq Elements(BlocksOf[m])
    BY <1>2 DEF WInv, RequestRight
  <2>7. m \in Left(rlib, c)
    BY <1>4, <2>6 DEF Left, ModulesIn, WInv, WTypes
  <2>8. modsLeft[rlib][c] > 0
    <3>1. IsFiniteSet(Left(rlib, c)) /\ Cardinality(Left(rlib, c)) \in Nat
      BY ModulesFinite DEF WInv
    <3>2. Cardinality(Left(rlib, c)) # 0
      BY <2>7, <3>1, FS_EmptySet
    <3> QED
      BY <1>0, <1>2, <1>4, <3>1, <3>2 DEF Counted
  <2>9. BTypes'
    <3>1. flagged' \in [Libs -> SUBSET AllBlocks]
      BY <1>0, <1>2, <1>4, <2>1 DEF BTypes
    <3> QED
      BY <1>0, <1>1, <3>1 DEF BTypes
  <2>10. Counted'
    BY <1>0, <1>1, <1>5 DEF Counted
  <2>11. Flags'
    <3>1. \A l \in Libs, b \in AllBlocks : table'[l][b] # NoBlock => b \in flagged'[l]
      BY <1>0, <1>1, <2>2 DEF Flags
    <3>2. ASSUME NEW l \in Libs, NEW b \in flagged'[l] PROVE modsLeft'[l][b] > 0
      <4>1. b \in flagged[l] \/ (l = rlib /\ b = c)
        BY <2>2, <3>2
      <4>2. b \in flagged[l] => modsLeft[l][b] > 0
        BY <1>0 DEF Flags
      <4> QED
        BY <1>1, <2>8, <4>1, <4>2
    <3>3. ASSUME NEW l \in Libs, NEW b \in Out(l)' PROVE Left(l, b)' \cap marked' # {}
      BY <1>0, <1>1, <1>5, <2>4, <2>6, <2>7 DEF Flags
    <3>4. \A l \in Libs, b \in AllBlocks : modsLeft'[l][b] > 0 => handleOpen'[l]
      BY <1>0, <1>1 DEF Flags
    <3> QED
      BY <3>1, <3>2, <3>3, <3>4 DEF Flags
  <2>12. AtBlock'
    <3>1. Parsing' => table'[cur'][Head(toRead')] = Head(toRead')
      BY <1>0, <1>1, <1>6 DEF AtBlock
    <3>2. Head(toRequest)' \in Out(rlib)'
      BY <1>1, <1>2, <2>1, <2>4 DEF c
    <3> QED
      BY <3>1, <3>2 DEF AtBlock
  <2>13. BInv'
    BY <2>9, <2>10, <2>11, <2>12 DEF BInv
  <2> QED
    BY <1>2, <1>4, <1>8, <2>1, <2>4, <2>5, <2>13 DEF c
<1> QED
  BY <1>7, <1>8

LEMMA AskBInv ==
  ASSUME LInv, WInv, BInv, AddToRequestList \/ CountWrite \/ StoreNumber \/ BumpLib
  PROVE  BInv' /\ \A l : Out(l)' = Out(l)
<1>1. /\ UNCHANGED <<flagged, table, modsLeft, handleOpen, libsDone, mod, toRead, cur>>
      /\ UNCHANGED <<marked, defined, rlib, ctx>>
      /\ mpc \in {"add", "countwrite", "number", "bumplib"}
      /\ mpc' \in {"request", "number", "bumplib", ctx}
      /\ mpc' = "number" => mpc = "countwrite" /\ toRequest' = toRequest
  <2>1. ctx \in {"top", "parse"}
    BY DEF LInv, LTypes
  <2> QED
    BY <2>1 DEF AddToRequestList, CountWrite, StoreNumber, BumpLib, MainGoto, RequestRest, libVars
<1>2. ctx \in {"top", "parse"}
  BY DEF LInv, LTypes
<1>3. \A l, b : Left(l, b)' = Left(l, b)
  BY <1>1, LeftStays DEF Parsed
<1>4. Parsing' <=> Parsing
  BY <1>1, <1>2 DEF Parsing, Asking
<1>5. AtBlock'
  <2>1. ASSUME mpc' \in {"countwrite", "number"} PROVE Head(toRequest)' \in Out(rlib)'
    <3>1. mpc = "countwrite" /\ toRequest' = toRequest
      BY <1>1, <1>2, <2>1
    <3>2. Head(toRequest) \in Out(rlib)
      BY <3>1 DEF BInv, AtBlock
    <3> QED
      BY <1>1, <3>1, <3>2 DEF Out
  <2>2. Parsing' => table'[cur'][Head(toRead')] = Head(toRead')
    BY <1>1, <1>4 DEF BInv, AtBlock
  <2> QED
    BY <2>1, <2>2 DEF AtBlock
<1> QED
  BY <1>1, <1>3, <1>5, BlocksStay

LEMMA SelectBInv ==
  ASSUME BInv, WaitRead \/ SelectLibrary \/ Deselect \/ RemoveFromRequestList \/ LibrariesDone
               \/ Bump \/ Join
  PROVE  BInv' /\ \A l : Out(l)' = Out(l)
<1>1. /\ UNCHANGED <<flagged, table, modsLeft, handleOpen, mod, toRead, marked, defined>>
      /\ libsDone => libsDone'
      /\ mpc' \in {"verify", "find", "remove", "top", "bump", "close", "join", "finished"}
  BY DEF WaitRead, SelectLibrary, Deselect, RemoveFromRequestList, LibrariesDone, Bump, Join,
     AfterWait, MainGoto, libVars
<1>2. \A l, b : Left(l, b)' = Left(l, b)
  BY <1>1, LeftStays DEF Parsed
<1>3. AtBlock'
  BY <1>1 DEF AtBlock, Parsing, Asking
<1> QED
  BY <1>1, <1>2, <1>3, BlocksStay

LEMMA CloseBInv ==
  ASSUME BInv, CloseLibFiles, libsDone
  PROVE  BInv'
<1>1. /\ mpc' = "join" /\ UNCHANGED <<flagged, modsLeft, libsDone, mod, toRead, marked, defined>>
      /\ handleOpen' = [l \in Libs |-> FALSE]
      /\ table' = [l \in Libs |-> [b \in AllBlocks |-> NoBlock]]
  BY DEF CloseLibFiles, MainGoto
<1>2. \A l, b : Left(l, b)' = Left(l, b)
  BY <1>1, LeftStays DEF Parsed
<1>3. AtBlock'
  BY <1>1 DEF AtBlock, Parsing, Asking
<1>4. BTypes' /\ Counted'
  BY <1>1, <1>2 DEF BInv, BTypes, Counted
<1> QED
  BY <1>1, <1>3, <1>4 DEF BInv

(* A step that neither is main's nor stores a block. *)
LEMMA StillBInv ==
  ASSUME BInv, UNCHANGED <<listVars, bookVars, blockVars, table, mpc>>
  PROVE  BInv' /\ \A l : Out(l)' = Out(l)
<1> USE DEF listVars, bookVars, blockVars
<1>1. \A l, b : Left(l, b)' = Left(l, b)
  BY LeftStays DEF Parsed
<1>2. AtBlock'
  <2>1. AtBlock /\ (Parsing' <=> Parsing)
    BY DEF BInv, Parsing, Asking
  <2> QED
    BY <2>1 DEF AtBlock, Out
<1> QED
  BY <1>1, <1>2, BlocksStay

(* Of the steps of a thread, only one touches the table. *)
LEMMA TableFrame ==
  ASSUME NEW t \in Threads, LibReadT(t), ~Store(t)
  PROVE  table' = table
<1> USE DEF libVars
<1>1. CASE Capture(t) \/ ReleasePost(t)
  BY <1>1, CaptureFrame DEF Procs
<1>2. CASE TakeUnit(t) \/ Scan(t) \/ Scanned(t) \/ Pick(t) \/ Seek(t) \/ Read(t)
  BY <1>2 DEF TakeUnit, Scan, Scanned, Pick, Seek, Read, Fail
<1>3. CASE Uncount(t) \/ UncountWrite(t) \/ Signal(t)
  BY <1>3 DEF Uncount, UncountWrite, Signal
<1> QED
  BY <1>1, <1>2, <1>3 DEF LibReadT

(* Main is at work until the libraries are done. *)
LEMMA AtWork ==
  ASSUME EndInv, mpc \notin {"bump", "close", "join", "finished"}
  PROVE  ~libsDone
BY DEF EndInv, Ending

LEMMA StepBInv ==
  ASSUME LInv, WInv, BInv, QInv, OneDefiner, OneDefiner', [Next]_vars,
         \A t \in Threads : LibReadT(t) => mpc' = mpc
  PROVE  BInv'
<1>0. EndInv
  BY DEF QInv
<1>1. CASE UNCHANGED vars
  BY <1>1, StillBInv DEF vars, libVars, mainVars, listVars, bookVars, blockVars
<1>2. ASSUME NEW t \in Threads, LibReadT(t) PROVE BInv'
  <2>1. CASE Store(t)
    BY <2>1, StoreBInv
  <2>2. CASE ~Store(t)
    BY <1>2, <2>2, ThreadFrame, TableFrame, StillBInv
  <2> QED
    BY <2>1, <2>2
<1>3. CASE Capture(Main) \/ ReleasePost(Main)
  BY <1>3, CaptureFrame, StillBInv DEF libVars, mainVars, listVars, bookVars, blockVars, Procs
<1>4. CASE DecLibBlock \/ RequestBlock
  <2>1. ~libsDone
    BY <1>0, <1>4, AtWork DEF DecLibBlock, RequestBlock
  <2> QED
    BY <1>4, <2>1, DecBInv, RequestBInv
<1>5. CASE CloseLibFiles
  <2>1. libsDone
    BY <1>0, <1>5 DEF CloseLibFiles, EndInv, Ending
  <2> QED
    BY <1>5, <2>1, CloseBInv
<1> QED
  BY <1>1, <1>2, <1>3, <1>4, <1>5, MainSteps, ReferenceBInv, FindBInv, VerifyBInv, AskBInv,
     SelectBInv DEF Next

------------------------------------------------------------------------------
(* The threads.                                                            *)

LEMMA ListedLibs == ASSUME LInv PROVE Listed \subseteq Libs
BY DEF LInv, LTypes, Listed, Elements

LEMMA ArrayIs ==
  ASSUME QTypes, NEW l \in Libs
  PROVE  /\ reqArray[l] \in Seq(AllBlocks) /\ Len(reqArray[l]) \in Nat /\ nextTr[l] \in Nat
         /\ DOMAIN reqArray[l] = 1 .. Len(reqArray[l]) /\ Owed(l) \in {0, 1}
<1>1. reqArray[l] \in Seq(AllBlocks) /\ nextTr[l] \in Nat
  BY DEF QTypes
<1>2. Owed(l) \in {0, 1}
  BY DEF Owed
<1> QED
  BY <1>1, <1>2

(* A thread that has a library: it is in the request list, it is the       *)
(* thread's, and it is no other's.                                         *)
LEMMA HasLibIs ==
  ASSUME LInv, QInv, NEW t \in Threads, HasLib(t)
  PROVE  /\ ~libsDone /\ tlib[t] \in Libs /\ lsThread[tlib[t]] = t /\ tlib[t] \in Listed
         /\ \A u \in Threads : HasLib(u) /\ tlib[u] = tlib[t] => u = t
<1>1. ~libsDone /\ tlib[t] \in Libs /\ lsThread[tlib[t]] = t
  BY DEF QInv, EndInv, OwnLib
<1>2. t # NoThread
  BY DEF Threads, NoThread
<1>3. tlib[t] \in Listed
  BY <1>1, <1>2 DEF LInv, ListsAgree, Listed
<1>4. \A u \in Threads : HasLib(u) /\ tlib[u] = tlib[t] => u = t
  BY <1>1 DEF QInv, OwnLib
<1> QED
  BY <1>1, <1>3, <1>4

(* There is a number to take when a thread comes to take it. *)
LEMMA AtPick ==
  ASSUME LInv, WInv, BInv, QInv, NEW t \in Threads, tpc[t] = "pick"
  PROVE  LET l == tlib[t]
             i == nextTr[l] + 1
         IN  /\ HasLib(t) /\ l \in Libs /\ nextTr[l] \in Nat /\ i \in Pending(l)
             /\ i \in DOMAIN reqArray[l] /\ reqArray[l][i] \in Out(l) /\ handleOpen[l]
<1> DEFINE l == tlib[t]
           i == nextTr[l] + 1
<1>1. HasLib(t)
  BY DEF HasLib, Working
<1>2. ~libsDone /\ l \in Libs /\ lsThread[l] = t /\ l \in Listed
  BY <1>1, HasLibIs
<1>3. nextTr[l] \in Nat /\ reqArray[l] \in Seq(AllBlocks) /\ libSem[t] \in Nat
  BY <1>2 DEF QInv, QTypes
<1>4. libSem[t] + Unit(t) + Owed(l) <= Len(reqArray[l]) - nextTr[l]
  BY <1>2 DEF QInv, UnitsRight
<1>5. Unit(t) = 1 /\ Owed(l) \in Nat
  BY DEF Unit, Owed
<1> HIDE DEF l
<1>6. Len(reqArray[l]) \in Nat /\ DOMAIN reqArray[l] = 1 .. Len(reqArray[l])
  BY <1>3
<1>7. i \in Pending(l) /\ i \in DOMAIN reqArray[l]
  BY <1>3, <1>4, <1>5, <1>6 DEF Pending
<1>8. reqArray[l][i] \in Out(l)
  BY <1>2, <1>7 DEF QInv, PendingRight
<1>9. handleOpen[l]
  BY <1>2, <1>8, OutIs
<1> QED
  BY <1>1, <1>2, <1>3, <1>7, <1>8, <1>9 DEF l

(* What a thread has chosen can be read. *)
LEMMA AtChosen ==
  ASSUME LInv, WInv, BInv, QInv, NEW t \in Threads, Chosen(t)
  PROVE  /\ HasLib(t) /\ ~libsDone /\ tlib[t] \in Libs /\ tblk[t] \in Out(tlib[t])
         /\ tblk[t] \in LibBlocks(tlib[t]) /\ tblk[t] \in AllBlocks /\ handleOpen[tlib[t]]
<1>1. HasLib(t)
  BY DEF HasLib, Working, Chosen
<1>2. ~libsDone /\ tlib[t] \in Libs
  BY <1>1, HasLibIs
<1>3. tblk[t] \in Out(tlib[t])
  BY <1>2 DEF QInv, TakenRight
<1> QED
  BY <1>1, <1>2, <1>3, OutIs

(* No thread gives up. *)
LEMMA NoFail ==
  ASSUME LInv, WInv, BInv, QInv, NEW t \in Threads, LibReadT(t)
  PROVE  /\ mpc' = mpc
         /\ Pick(t) => /\ tblk' = [tblk EXCEPT ![t] = reqArray[tlib[t]][nextTr[tlib[t]] + 1]]
                       /\ nextTr' = [nextTr EXCEPT ![tlib[t]] = @ + 1]
                       /\ tpc' = [tpc EXCEPT ![t] = "seek"]
                       /\ UNCHANGED <<requested, table, filePos, tlib, tbuf, treg, libSem, readSem>>
                       /\ UNCHANGED orderVars
         /\ Seek(t) => /\ filePos' = [filePos EXCEPT ![tlib[t]] = tblk[t]]
                       /\ tpc' = [tpc EXCEPT ![t] = "read"]
                       /\ UNCHANGED <<requested, nextTr, table, tlib, tblk, tbuf, treg>>
                       /\ UNCHANGED <<libSem, readSem, orderVars>>
         /\ Read(t) => /\ tbuf' = [tbuf EXCEPT ![t] = filePos[tlib[t]]]
                       /\ filePos' = [filePos EXCEPT ![tlib[t]] = @ + 1]
                       /\ tpc' = [tpc EXCEPT ![t] = "count"]
                       /\ UNCHANGED <<requested, nextTr, table, tlib, tblk, treg>>
                       /\ UNCHANGED <<libSem, readSem, orderVars>>
<1> USE DEF semVars, mainVars
<1>1. ASSUME Pick(t)
      PROVE  /\ mpc' = mpc
             /\ tblk' = [tblk EXCEPT ![t] = reqArray[tlib[t]][nextTr[tlib[t]] + 1]]
             /\ nextTr' = [nextTr EXCEPT ![tlib[t]] = @ + 1]
             /\ tpc' = [tpc EXCEPT ![t] = "seek"]
             /\ UNCHANGED <<requested, table, filePos, tlib, tbuf, treg, libSem, readSem>>
             /\ UNCHANGED orderVars
  <2>1. handleOpen[tlib[t]] /\ nextTr[tlib[t]] + 1 \in DOMAIN reqArray[tlib[t]]
    BY <1>1, AtPick DEF Pick, At
  <2> QED
    BY <1>1, <2>1 DEF Pick, Advance, Goto
<1>2. ASSUME Seek(t)
      PROVE  /\ mpc' = mpc
             /\ filePos' = [filePos EXCEPT ![tlib[t]] = tblk[t]]
             /\ tpc' = [tpc EXCEPT ![t] = "read"]
             /\ UNCHANGED <<requested, nextTr, table, tlib, tblk, tbuf, treg>>
             /\ UNCHANGED <<libSem, readSem, orderVars>>
  <2>1. Chosen(t)
    BY <1>2 DEF Seek, At, Chosen
  <2>2. handleOpen[tlib[t]]
    BY <2>1, AtChosen
  <2> QED
    BY <1>2, <2>2 DEF Seek, Goto
<1>3. ASSUME Read(t)
      PROVE  /\ mpc' = mpc
             /\ tbuf' = [tbuf EXCEPT ![t] = filePos[tlib[t]]]
             /\ filePos' = [filePos EXCEPT ![tlib[t]] = @ + 1]
             /\ tpc' = [tpc EXCEPT ![t] = "count"]
             /\ UNCHANGED <<requested, nextTr, table, tlib, tblk, treg>>
             /\ UNCHANGED <<libSem, readSem, orderVars>>
  <2>1. Chosen(t) /\ tpc[t] = "read"
    BY <1>3 DEF Read, At, Chosen
  <2>2. ~libsDone /\ handleOpen[tlib[t]] /\ tblk[t] \in LibBlocks(tlib[t])
    BY <2>1, AtChosen
  <2>3. filePos[tlib[t]] = tblk[t]
    BY <2>1, <2>2 DEF QInv, TakenRight
  <2> QED
    BY <1>3, <2>2, <2>3 DEF Read, Goto
<1>4. ASSUME Capture(t) \/ ReleasePost(t) PROVE mpc' = mpc
  <2>1. t \in Procs
    BY DEF Procs
  <2> QED
    BY <1>4, <2>1, CaptureFrame
<1>5. ASSUME TakeUnit(t) \/ Scan(t) \/ Scanned(t) \/ Uncount(t) \/ UncountWrite(t) \/ Store(t)
             \/ Signal(t)
      PROVE  mpc' = mpc
  BY <1>5 DEF TakeUnit, Scan, Scanned, Uncount, UncountWrite, Store, Signal
<1>6. mpc' = mpc
  BY <1>1, <1>2, <1>3, <1>4, <1>5 DEF LibReadT
<1> QED
  BY <1>1, <1>2, <1>3, <1>6

(* QInv, for a step of t that takes no number and stores no block. *)
LEMMA ThreadQInv ==
  ASSUME LInv, QInv, NEW t \in Threads, NEW place \in ThreadPlaces,
         UNCHANGED <<listVars, bookVars, blockVars, mpc, nextTr>>,
         \A l : Out(l)' = Out(l),
         tpc' = [tpc EXCEPT ![t] = place],
         QTypes',
         \A u \in Threads \ {t} : /\ tlib'[u] = tlib[u] /\ tblk'[u] = tblk[u]
                                  /\ tbuf'[u] = tbuf[u] /\ libSem'[u] = libSem[u],
         HasLib(t)' => tlib'[t] \in Libs /\ lsThread[tlib'[t]] = t,
         IF libsDone THEN place # "scan" /\ ~HasLib(t)' ELSE place # "dead",
         Chosen(t)' => /\ Chosen(t) /\ tlib'[t] = tlib[t] /\ tblk'[t] = tblk[t]
                       /\ place = "read" => filePos'[tlib[t]] = tblk[t]
                       /\ place \in {"count", "countwrite", "store"} => tbuf'[t] = tblk[t],
         \A l \in Libs : filePos'[l] = filePos[l] \/ (HasLib(t) /\ l = tlib[t]),
         ~libsDone => libSem'[t] + Unit(t)' <= libSem[t] + Unit(t)
  PROVE  QInv'
<1>0. QTypes /\ QTypes' /\ Threads # {}
  BY DEF QInv, Threads
<1>1. /\ tpc'[t] = place
      /\ \A u \in Threads \ {t} : tpc'[u] = tpc[u]
  BY <1>0 DEF QTypes
<1>2. \A u \in Threads \ {t} : /\ HasLib(u)' <=> HasLib(u)
                               /\ Chosen(u)' <=> Chosen(u)
                               /\ Unit(u)' = Unit(u)
  BY <1>1 DEF HasLib, Working, Chosen, Unit
<1>3. /\ UNCHANGED <<lsThread, reqLibs, reqArray, toRequest, rlib, libsDone, nextTr, mpc>>
      /\ Listed' = Listed
  BY DEF listVars, bookVars, blockVars, Listed
<1>4. \A l : Pending(l)' = Pending(l) /\ Owed(l)' = Owed(l)
  BY <1>3 DEF Pending, Owed
<1>5. OwnLib'
  BY <1>2, <1>3 DEF QInv, OwnLib
<1>6. EndInv'
  <2>1. Ending' <=> Ending
    BY <1>3 DEF Ending
  <2> QED
    BY <1>1, <1>2, <1>3, <2>1 DEF QInv, EndInv
<1>7. ASSUME ~libsDone PROVE PendingRight' /\ TakenRight' /\ NumberNew' /\ Quiet' /\ UnitsRight'
  <2>0. PendingRight /\ TakenRight /\ NumberNew /\ Quiet /\ UnitsRight
    BY <1>7 DEF QInv
  <2>1. PendingRight'
    BY <1>3, <1>4, <2>0 DEF PendingRight
  <2>2. TakenRight'
    <3> SUFFICES ASSUME NEW u \in Threads, Chosen(u)'
                 PROVE  /\ tblk'[u] \in Out(tlib'[u])
                        /\ \A i \in Pending(tlib'[u]) : reqArray[tlib'[u]][i] # tblk'[u]
                        /\ tpc'[u] = "read" => filePos'[tlib'[u]] = tblk'[u]
                        /\ tpc'[u] \in {"count", "countwrite", "store"} => tbuf'[u] = tblk'[u]
      BY <1>3, <1>4 DEF TakenRight
    <3>1. CASE u = t
      BY <1>1, <2>0, <3>1 DEF TakenRight
    <3>2. CASE u # t
      <4>1. Chosen(u) /\ HasLib(u)
        BY <1>2, <3>2 DEF Chosen, HasLib, Working
      <4>2. tlib[u] \in Libs /\ (HasLib(t) => tlib[u] # tlib[t])
        BY <3>2, <4>1, HasLibIs
      <4>3. filePos'[tlib[u]] = filePos[tlib[u]]
        BY <4>2
      <4> QED
        BY <1>1, <2>0, <3>2, <4>1, <4>3 DEF TakenRight
    <3> QED
      BY <3>1, <3>2
  <2>3. NumberNew'
    <3>1. \A u \in Threads : Chosen(u)' => Chosen(u) /\ tlib'[u] = tlib[u] /\ tblk'[u] = tblk[u]
      BY <1>2
    <3> QED
      BY <1>3, <1>4, <2>0, <3>1 DEF NumberNew
  <2>4. Quiet'
    BY <1>3, <2>0 DEF Quiet
  <2>5. UnitsRight'
    <3> SUFFICES ASSUME NEW u \in Threads
                 PROVE  /\ (\A l \in Listed : lsThread[l] # u) => libSem'[u] = 0 /\ Unit(u)' = 0
                        /\ \A l \in Listed : lsThread[l] = u =>
                             libSem'[u] + Unit(u)' + Owed(l) <= Len(reqArray[l]) - nextTr[l]
      BY <1>3, <1>4 DEF UnitsRight
    <3>1. /\ (\A l \in Listed : lsThread[l] # u) => libSem[u] = 0 /\ Unit(u) = 0
          /\ \A l \in Listed : lsThread[l] = u =>
               libSem[u] + Unit(u) + Owed(l) <= Len(reqArray[l]) - nextTr[l]
      BY <2>0 DEF UnitsRight
    <3>2. libSem[u] \in Nat /\ libSem'[u] \in Nat /\ Unit(u) \in Nat /\ Unit(u)' \in Nat
      BY <1>0 DEF QTypes, Unit
    <3>3. libSem'[u] + Unit(u)' <= libSem[u] + Unit(u)
      <4>1. CASE u = t
        BY <1>7, <4>1
      <4>2. CASE u # t
        <5>1. libSem'[u] = libSem[u] /\ Unit(u)' = Unit(u)
          BY <1>2, <4>2
        <5> QED
          BY <3>2, <5>1
      <4> QED
        BY <4>1, <4>2
    <3>4. \A l \in Listed : Owed(l) \in Nat /\ Len(reqArray[l]) - nextTr[l] \in Int
      BY <1>0, ListedLibs, ArrayIs
    <3> QED
      BY <3>1, <3>2, <3>3, <3>4
  <2> QED
    BY <2>1, <2>2, <2>3, <2>4, <2>5
<1> QED
  BY <1>0, <1>3, <1>5, <1>6, <1>7 DEF QInv

(* The semaphore keeps its types. *)
LEMMA OrderTypes ==
  ASSUME Order!SemTypeOK, NEW p \in Procs, Capture(p) \/ ReleasePost(p) \/ Release(p)
  PROVE  Order!SemTypeOK'
<1>1. /\ orderCounter \in Int /\ orderKernel \in {0, 1}
      /\ orderPc \in [Procs -> Order!Locations]
  BY DEF Order!SemTypeOK
<1>2. CASE Order!CaptureFast(p) \/ Order!CaptureSlow(p)
  BY <1>1, <1>2 DEF Order!CaptureFast, Order!CaptureSlow, Order!SemTypeOK, Order!Locations
<1>3. CASE Order!CaptureWait(p)
  <2>1. orderKernel' = 0
    BY <1>1, <1>3 DEF Order!CaptureWait
  <2> QED
    BY <1>1, <1>3, <2>1 DEF Order!CaptureWait, Order!SemTypeOK, Order!Locations
<1>4. CASE Order!ReleasePost(p)
  <2>1. orderKernel' = 1
    BY <1>1, <1>4 DEF Order!ReleasePost
  <2> QED
    BY <1>1, <1>4, <2>1 DEF Order!ReleasePost, Order!SemTypeOK, Order!Locations
<1>5. CASE Release(p)
  BY <1>1, <1>5 DEF Release, Order!ReleaseFast, Order!ReleaseSlow, Order!SemTypeOK, Order!Locations
<1> QED
  BY <1>2, <1>3, <1>4, <1>5 DEF Capture, ReleasePost

(* The library that a thread finds in its list. *)
LEMMA RequestingIs ==
  ASSUME LInv, NEW t \in Threads, RequestingLib(t) # None
  PROVE  /\ RequestingLib(t) \in Listed /\ RequestingLib(t) \in Libs
         /\ lsThread[RequestingLib(t)] = t /\ requested[RequestingLib(t)] # 0
<1> DEFINE busy == {i \in DOMAIN trList[t] : requested[trList[t][i]] # 0}
           first == CHOOSE i \in busy : \A j \in busy : i <= j
<1>1. busy # {} /\ RequestingLib(t) = trList[t][first]
  BY DEF RequestingLib
<1>2. trList[t] \in Seq(Libs)
  BY DEF LInv, LTypes
<1>3. busy \subseteq Nat
  BY <1>2
<1>4. first \in busy
  <2>1. \E i \in busy : \A j \in busy : i <= j
    <3> HIDE DEF busy
    <3> QED
      BY <1>1, <1>3, LeastNumber
  <2> QED
    BY <2>1
<1> HIDE DEF first
<1>5. RequestingLib(t) \in Elements(trList[t]) /\ requested[RequestingLib(t)] # 0
  BY <1>1, <1>4 DEF Elements
<1>6. Elements(trList[t]) = Elements(reqLibs) \ {l \in Libs : lsThread[l] # t}
  <2>1. reqLibs \in Seq(Libs) /\ trList[t] = Without(reqLibs, {l \in Libs : lsThread[l] # t})
    BY DEF LInv, LTypes, ListsAgree
  <2> QED
    BY <2>1, WithoutKeeps
<1> QED
  BY <1>5, <1>6, ListedLibs DEF Listed

(* Steps that touch neither a thread nor what the threads are given. *)
LEMMA StillQInv ==
  ASSUME LInv, QInv, UNCHANGED <<listVars, bookVars, blockVars, mpc, requested, nextTr, filePos>>,
         UNCHANGED <<threadVars, semVars>>, Order!SemTypeOK', \A l : Out(l)' = Out(l)
  PROVE  QInv'
<1> USE DEF listVars, bookVars, blockVars, threadVars, semVars
<1>1. QTypes'
  BY DEF QInv, QTypes
<1>2. 0 \in Threads /\ tpc \in [Threads -> ThreadPlaces]
  BY DEF Threads, QInv, QTypes
<1>3. tpc' = [tpc EXCEPT ![0] = tpc[0]] /\ tpc[0] \in ThreadPlaces
  BY <1>2
<1>4. /\ HasLib(0)' <=> HasLib(0)
      /\ Chosen(0)' <=> Chosen(0)
      /\ Unit(0)' = Unit(0)
  BY DEF HasLib, Working, Chosen, Unit
<1>5. HasLib(0)' => tlib'[0] \in Libs /\ lsThread[tlib'[0]] = 0
  BY <1>2, <1>4 DEF QInv, OwnLib
<1>6. IF libsDone THEN tpc[0] # "scan" /\ ~HasLib(0)' ELSE tpc[0] # "dead"
  BY <1>2, <1>4 DEF QInv, EndInv
<1>7. Chosen(0)' => /\ Chosen(0) /\ tlib'[0] = tlib[0] /\ tblk'[0] = tblk[0]
                    /\ tpc[0] = "read" => filePos'[tlib[0]] = tblk[0]
                    /\ tpc[0] \in {"count", "countwrite", "store"} => tbuf'[0] = tblk[0]
  <2>1. ASSUME Chosen(0) PROVE ~libsDone
    BY <1>2, <2>1 DEF QInv, EndInv, HasLib, Working, Chosen
  <2> QED
    BY <1>2, <1>4, <2>1 DEF QInv, TakenRight
<1>8. libSem'[0] + Unit(0)' <= libSem[0] + Unit(0)
  <2>1. libSem[0] \in Nat /\ Unit(0) \in Nat
    BY <1>2 DEF QInv, QTypes, Unit
  <2> QED
    BY <1>4, <2>1
<1> QED
  BY <1>1, <1>2, <1>3, <1>5, <1>6, <1>7, <1>8, ThreadQInv

(* A thread wakes up, finds a library, and has it or not. *)
LEMMA TakeUnitQInv ==
  ASSUME LInv, WInv, BInv, QInv, NEW t \in Threads, TakeUnit(t),
         UNCHANGED <<listVars, bookVars, blockVars, mpc>>, \A l : Out(l)' = Out(l)
  PROVE  QInv'
<1> DEFINE place == IF libsDone THEN "dead" ELSE "scan"
<1>1. /\ tpc[t] = "wait" /\ libSem[t] > 0 /\ libSem' = [libSem EXCEPT ![t] = @ - 1]
      /\ tpc' = [tpc EXCEPT ![t] = place]
      /\ UNCHANGED <<requested, nextTr, filePos, tlib, tblk, tbuf, treg, readSem, orderVars>>
  BY DEF TakeUnit, At, Goto, libVars
<1>2. QTypes /\ place \in ThreadPlaces
  BY DEF QInv, ThreadPlaces
<1>3. QTypes'
  <2>1. libSem' \in [Threads -> Nat] /\ tpc' \in [Threads -> ThreadPlaces]
    BY <1>1, <1>2 DEF QTypes
  <2>2. Order!SemTypeOK'
    BY <1>1, <1>2 DEF QTypes, Order!SemTypeOK, orderVars
  <2> QED
    BY <1>1, <1>2, <2>1, <2>2 DEF QTypes, blockVars
<1>4. /\ tpc'[t] = place /\ libSem'[t] = libSem[t] - 1 /\ libSem[t] \in Nat
      /\ \A u \in Threads \ {t} : libSem'[u] = libSem[u]
  BY <1>1, <1>2 DEF QTypes
<1>5. ~HasLib(t)' /\ ~Chosen(t)'
  BY <1>4 DEF HasLib, Working, Chosen
<1>6. libSem'[t] + Unit(t)' <= libSem[t] + Unit(t)
  <2>1. Unit(t) = 0 /\ Unit(t)' \in {0, 1}
    BY <1>1 DEF Unit
  <2> QED
    BY <1>4, <2>1
<1>7. IF libsDone THEN place # "scan" /\ ~HasLib(t)' ELSE place # "dead"
  BY <1>5
<1> HIDE DEF place
<1> QED
  BY <1>1, <1>2, <1>3, <1>4, <1>5, <1>6, <1>7, ThreadQInv

LEMMA ScanQInv ==
  ASSUME LInv, WInv, BInv, QInv, NEW t \in Threads, Scan(t),
         UNCHANGED <<listVars, bookVars, blockVars, mpc>>, \A l : Out(l)' = Out(l)
  PROVE  QInv'
<1>1. /\ tpc[t] = "scan" /\ tlib' = [tlib EXCEPT ![t] = RequestingLib(t)] /\ Release(t)
      /\ tpc' = [tpc EXCEPT ![t] = "scanned"]
      /\ UNCHANGED <<requested, nextTr, filePos, tblk, tbuf, treg, libSem, readSem>>
  BY DEF Scan, At, Goto, libVars, semVars
<1>2. QTypes /\ "scanned" \in ThreadPlaces /\ ~libsDone
  BY <1>1 DEF QInv, ThreadPlaces, EndInv
<1>3. /\ RequestingLib(t) \in Libs \union {None}
      /\ RequestingLib(t) # None => RequestingLib(t) \in Libs /\ lsThread[RequestingLib(t)] = t
  BY RequestingIs
<1>4. QTypes'
  <2>1. tlib' \in [Threads -> Libs \union {None}] /\ tpc' \in [Threads -> ThreadPlaces]
    BY <1>1, <1>2, <1>3 DEF QTypes
  <2>2. Order!SemTypeOK'
    BY <1>1, <1>2, OrderTypes DEF QTypes, Procs
  <2> QED
    BY <1>1, <1>2, <2>1, <2>2 DEF QTypes, blockVars
<1>5. /\ tpc'[t] = "scanned" /\ tlib'[t] = RequestingLib(t) /\ libSem[t] \in Nat
      /\ \A u \in Threads \ {t} : tlib'[u] = tlib[u]
  BY <1>1, <1>2 DEF QTypes
<1>6. ~Chosen(t)' /\ (HasLib(t)' => tlib'[t] \in Libs /\ lsThread[tlib'[t]] = t)
  BY <1>3, <1>5 DEF HasLib, Working, Chosen
<1>7. libSem'[t] + Unit(t)' <= libSem[t] + Unit(t)
  <2>1. Unit(t) = 1 /\ Unit(t)' \in {0, 1}
    BY <1>1 DEF Unit
  <2> QED
    BY <1>1, <1>5, <2>1
<1> QED
  BY <1>1, <1>2, <1>4, <1>5, <1>6, <1>7, ThreadQInv

LEMMA ScannedQInv ==
  ASSUME LInv, WInv, BInv, QInv, NEW t \in Threads, Scanned(t),
         UNCHANGED <<listVars, bookVars, blockVars, mpc>>, \A l : Out(l)' = Out(l)
  PROVE  QInv'
<1> DEFINE place == IF libsDone THEN "dead" ELSE IF tlib[t] = None THEN "wait" ELSE "pick"
<1>1. /\ tpc[t] = "scanned" /\ tpc' = [tpc EXCEPT ![t] = place]
      /\ UNCHANGED <<requested, nextTr, filePos, tlib, tblk, tbuf, treg, libSem, readSem>>
      /\ UNCHANGED orderVars
  BY DEF Scanned, At, Goto, libVars, semVars
<1>2. QTypes /\ place \in ThreadPlaces
  BY DEF QInv, ThreadPlaces
<1>3. QTypes'
  <2>1. tpc' \in [Threads -> ThreadPlaces]
    BY <1>1, <1>2 DEF QTypes
  <2>2. Order!SemTypeOK'
    BY <1>1, <1>2 DEF QTypes, Order!SemTypeOK, orderVars
  <2> QED
    BY <1>1, <1>2, <2>1, <2>2 DEF QTypes, blockVars
<1>4. tpc'[t] = place /\ libSem[t] \in Nat
  BY <1>1, <1>2 DEF QTypes
<1>5. /\ ~Chosen(t)'
      /\ HasLib(t)' => HasLib(t)
      /\ libsDone => ~HasLib(t)'
      /\ ~libsDone => Unit(t)' = Unit(t)
  BY <1>1, <1>4 DEF HasLib, Working, Chosen, Unit
<1>6. HasLib(t)' => tlib'[t] \in Libs /\ lsThread[tlib'[t]] = t
  BY <1>1, <1>5 DEF QInv, OwnLib
<1>7. ~libsDone => libSem'[t] + Unit(t)' <= libSem[t] + Unit(t)
  <2>1. Unit(t) \in Nat
    BY DEF Unit
  <2> QED
    BY <1>1, <1>4, <1>5, <2>1
<1>8. IF libsDone THEN place # "scan" /\ ~HasLib(t)' ELSE place # "dead"
  BY <1>5
<1> HIDE DEF place
<1> QED
  BY <1>1, <1>2, <1>3, <1>5, <1>6, <1>7, <1>8, ThreadQInv

(* A thread seeks, reads, counts and signals. *)
LEMMA SeekQInv ==
  ASSUME LInv, WInv, BInv, QInv, NEW t \in Threads, Seek(t),
         UNCHANGED <<listVars, bookVars, blockVars, mpc>>, \A l : Out(l)' = Out(l)
  PROVE  QInv'
<1>1. /\ tpc[t] = "seek" /\ filePos' = [filePos EXCEPT ![tlib[t]] = tblk[t]]
      /\ tpc' = [tpc EXCEPT ![t] = "read"]
      /\ UNCHANGED <<requested, nextTr, tlib, tblk, tbuf, treg, libSem, readSem, orderVars>>
  BY NoFail DEF LibReadT, Seek, At
<1>2. QTypes /\ "read" \in ThreadPlaces /\ Chosen(t)
  BY <1>1 DEF QInv, ThreadPlaces, Chosen
<1>3. HasLib(t) /\ ~libsDone /\ tlib[t] \in Libs /\ lsThread[tlib[t]] = t
  BY <1>2, AtChosen, HasLibIs
<1>4. /\ tpc'[t] = "read" /\ libSem[t] \in Nat /\ filePos'[tlib[t]] = tblk[t]
      /\ \A l \in Libs : l # tlib[t] => filePos'[l] = filePos[l]
  BY <1>1, <1>2, <1>3 DEF QTypes
<1>5. QTypes'
  <2>1. filePos' \in [Libs -> Int] /\ tpc' \in [Threads -> ThreadPlaces]
    BY <1>1, <1>2, <1>3 DEF QTypes
  <2>2. Order!SemTypeOK'
    BY <1>1, <1>2 DEF QTypes, Order!SemTypeOK, orderVars
  <2> QED
    BY <1>1, <1>2, <2>1, <2>2 DEF QTypes, blockVars
<1>6. Unit(t) = 0 /\ Unit(t)' = 0
  BY <1>1, <1>4 DEF Unit
<1>7. libSem'[t] + Unit(t)' <= libSem[t] + Unit(t)
  BY <1>1, <1>4, <1>6
<1> QED
  BY <1>1, <1>2, <1>3, <1>4, <1>5, <1>7, ThreadQInv

LEMMA ReadQInv ==
  ASSUME LInv, WInv, BInv, QInv, NEW t \in Threads, Read(t),
         UNCHANGED <<listVars, bookVars, blockVars, mpc>>, \A l : Out(l)' = Out(l)
  PROVE  QInv'
<1>1. /\ tpc[t] = "read" /\ tbuf' = [tbuf EXCEPT ![t] = filePos[tlib[t]]]
      /\ filePos' = [filePos EXCEPT ![tlib[t]] = @ + 1]
      /\ tpc' = [tpc EXCEPT ![t] = "count"]
      /\ UNCHANGED <<requested, nextTr, tlib, tblk, treg, libSem, readSem, orderVars>>
  BY NoFail DEF LibReadT, Read, At
<1>2. QTypes /\ "count" \in ThreadPlaces /\ Chosen(t)
  BY <1>1 DEF QInv, ThreadPlaces, Chosen
<1>3. /\ HasLib(t) /\ ~libsDone /\ tlib[t] \in Libs /\ lsThread[tlib[t]] = t
      /\ tblk[t] \in Nat
  BY <1>2, AtChosen, HasLibIs, BlocksFromOne
<1>4. filePos[tlib[t]] = tblk[t]
  BY <1>1, <1>2, <1>3 DEF QInv, TakenRight
<1>5. /\ tpc'[t] = "count" /\ libSem[t] \in Nat /\ tbuf'[t] = tblk[t]
      /\ \A u \in Threads \ {t} : tbuf'[u] = tbuf[u]
      /\ \A l \in Libs : l # tlib[t] => filePos'[l] = filePos[l]
  BY <1>1, <1>2, <1>3, <1>4 DEF QTypes
<1>6. QTypes'
  <2>1. filePos' \in [Libs -> Int]
    BY <1>1, <1>2, <1>3 DEF QTypes
  <2>2. tbuf' \in [Threads -> Nat] /\ tpc' \in [Threads -> ThreadPlaces]
    BY <1>1, <1>2, <1>3, <1>4 DEF QTypes
  <2>3. Order!SemTypeOK'
    BY <1>1, <1>2 DEF QTypes, Order!SemTypeOK, orderVars
  <2> QED
    BY <1>1, <1>2, <2>1, <2>2, <2>3 DEF QTypes, blockVars
<1>7. Unit(t) = 0 /\ Unit(t)' = 0
  BY <1>1, <1>5 DEF Unit
<1>8. libSem'[t] + Unit(t)' <= libSem[t] + Unit(t)
  BY <1>1, <1>5, <1>7
<1> QED
  BY <1>1, <1>2, <1>3, <1>5, <1>6, <1>8, ThreadQInv

LEMMA UncountQInv ==
  ASSUME LInv, WInv, BInv, QInv, NEW t \in Threads, Uncount(t) \/ UncountWrite(t),
         UNCHANGED <<listVars, bookVars, blockVars, mpc>>, \A l : Out(l)' = Out(l)
  PROVE  QInv'
<1>1. /\ tpc[t] \in {"count", "countwrite"} /\ UNCHANGED <<nextTr, filePos, tlib, tblk, tbuf>>
      /\ UNCHANGED <<libSem, readSem, orderVars>>
      /\ \E p \in {"countwrite", "store"} : tpc' = [tpc EXCEPT ![t] = p]
      /\ \/ treg' = [treg EXCEPT ![t] = requested[tlib[t]]] /\ UNCHANGED requested
         \/ requested' = [requested EXCEPT ![tlib[t]] = @ - 1] /\ UNCHANGED treg
         \/ requested' = [requested EXCEPT ![tlib[t]] = treg[t] - 1] /\ UNCHANGED treg
  BY DEF Uncount, UncountWrite, At, Goto, semVars
<1>2. QTypes /\ Chosen(t)
  BY <1>1 DEF QInv, Chosen
<1>3. HasLib(t) /\ ~libsDone /\ tlib[t] \in Libs /\ lsThread[tlib[t]] = t
  BY <1>2, AtChosen, HasLibIs
<1>4. PICK p \in {"countwrite", "store"} : tpc' = [tpc EXCEPT ![t] = p]
  BY <1>1
<1>5. tpc'[t] = p /\ libSem[t] \in Nat /\ p \in ThreadPlaces /\ tbuf[t] = tblk[t]
  BY <1>1, <1>2, <1>3, <1>4 DEF QTypes, ThreadPlaces, QInv, TakenRight
<1>6. QTypes'
  <2>1. requested' \in [Libs -> Int] /\ treg' \in [Threads -> Int]
    <3>1. requested[tlib[t]] \in Int /\ treg[t] \in Int
      BY <1>2, <1>3 DEF QTypes
    <3>2. requested \in [Libs -> Int] /\ treg \in [Threads -> Int]
      BY <1>2 DEF QTypes
    <3>3. /\ [treg EXCEPT ![t] = requested[tlib[t]]] \in [Threads -> Int]
          /\ [requested EXCEPT ![tlib[t]] = @ - 1] \in [Libs -> Int]
          /\ [requested EXCEPT ![tlib[t]] = treg[t] - 1] \in [Libs -> Int]
      BY <1>3, <3>1, <3>2
    <3> QED
      BY <1>1, <3>2, <3>3
  <2>2. tpc' \in [Threads -> ThreadPlaces]
    BY <1>2, <1>4, <1>5 DEF QTypes
  <2>3. Order!SemTypeOK'
    BY <1>1, <1>2 DEF QTypes, Order!SemTypeOK, orderVars
  <2> QED
    BY <1>1, <1>2, <2>1, <2>2, <2>3 DEF QTypes, blockVars
<1>7. Unit(t) = 0 /\ Unit(t)' = 0
  BY <1>1, <1>5 DEF Unit
<1>8. libSem'[t] + Unit(t)' <= libSem[t] + Unit(t)
  BY <1>1, <1>5, <1>7
<1> QED
  BY <1>1, <1>2, <1>3, <1>4, <1>5, <1>6, <1>8, ThreadQInv

LEMMA SignalQInv ==
  ASSUME LInv, WInv, BInv, QInv, NEW t \in Threads, Signal(t),
         UNCHANGED <<listVars, bookVars, blockVars, mpc>>, \A l : Out(l)' = Out(l)
  PROVE  QInv'
<1>1. /\ tpc[t] = "signal" /\ readSem' = [readSem EXCEPT ![t] = @ + 1]
      /\ tpc' = [tpc EXCEPT ![t] = "wait"]
      /\ UNCHANGED <<requested, nextTr, filePos, tlib, tblk, tbuf, treg, libSem, orderVars>>
  BY DEF Signal, At, Goto, libVars
<1>2. QTypes /\ "wait" \in ThreadPlaces
  BY DEF QInv, ThreadPlaces
<1>3. QTypes'
  <2>1. readSem' \in [Threads -> Nat] /\ tpc' \in [Threads -> ThreadPlaces]
    BY <1>1, <1>2 DEF QTypes
  <2>2. Order!SemTypeOK'
    BY <1>1, <1>2 DEF QTypes, Order!SemTypeOK, orderVars
  <2> QED
    BY <1>1, <1>2, <2>1, <2>2 DEF QTypes, blockVars
<1>4. tpc'[t] = "wait" /\ libSem[t] \in Nat
  BY <1>1, <1>2 DEF QTypes
<1>5. ~HasLib(t)' /\ ~Chosen(t)'
  BY <1>4 DEF HasLib, Working, Chosen
<1>6. Unit(t) = 0 /\ Unit(t)' = 0
  BY <1>1, <1>4 DEF Unit
<1>7. libSem'[t] + Unit(t)' <= libSem[t] + Unit(t)
  BY <1>1, <1>4, <1>6
<1> QED
  BY <1>1, <1>2, <1>3, <1>5, <1>7, ThreadQInv

(* A thread takes the next number, with the unit it has for it. *)
LEMMA PickQInv ==
  ASSUME LInv, WInv, BInv, QInv, NEW t \in Threads, Pick(t),
         UNCHANGED <<listVars, bookVars, blockVars, mpc>>, \A l : Out(l)' = Out(l)
  PROVE  QInv'
<1> SUFFICES ASSUME NEW k, k = tlib[t], NEW n, n = nextTr[k] + 1, NEW c, c = reqArray[k][n]
             PROVE  QInv'
  OBVIOUS
<1>1. /\ tpc[t] = "pick" /\ tblk' = [tblk EXCEPT ![t] = c]
      /\ nextTr' = [nextTr EXCEPT ![k] = @ + 1] /\ tpc' = [tpc EXCEPT ![t] = "seek"]
      /\ UNCHANGED <<requested, filePos, tlib, tbuf, treg, libSem, readSem, orderVars>>
  BY NoFail DEF LibReadT, Pick, At
<1>2. /\ HasLib(t) /\ k \in Libs /\ nextTr[k] \in Nat /\ n \in Pending(k)
      /\ n \in DOMAIN reqArray[k] /\ c \in Out(k)
  BY <1>1, AtPick
<1>3. /\ ~libsDone /\ lsThread[k] = t /\ k \in Listed
      /\ \A u \in Threads : HasLib(u) /\ tlib[u] = k => u = t
  BY <1>2, HasLibIs
<1>4. QTypes /\ PendingRight /\ TakenRight /\ NumberNew /\ Quiet /\ UnitsRight /\ OwnLib /\ EndInv
  BY <1>3 DEF QInv
<1>5. c \in AllBlocks /\ c \in Nat
  BY <1>2, <1>3, OutIs, BlocksFromOne
<1>6. /\ tpc'[t] = "seek" /\ tblk'[t] = c
      /\ \A u \in Threads \ {t} : tpc'[u] = tpc[u] /\ tblk'[u] = tblk[u]
      /\ nextTr'[k] = n
      /\ \A l \in Libs : l # k => nextTr'[l] = nextTr[l]
  BY <1>1, <1>2, <1>4 DEF QTypes
<1>7. /\ UNCHANGED <<lsThread, reqLibs, reqArray, toRequest, rlib, libsDone, mpc>>
      /\ Listed' = Listed
  BY DEF listVars, bookVars, blockVars, Listed
<1>8. /\ Pending(k) = {n} \union Pending(k)' /\ n \notin Pending(k)'
      /\ \A l \in Libs : l # k => Pending(l)' = Pending(l)
  <2>1. Len(reqArray[k]) \in Nat /\ nextTr[k] + 1 = n /\ n \in Nat
    BY <1>2, <1>4, ArrayIs
  <2>2. Pending(k)' = n + 1 .. Len(reqArray[k]) /\ Pending(k) = n .. Len(reqArray[k])
    BY <1>6, <1>7, <2>1 DEF Pending
  <2>3. \A l \in Libs : l # k => Pending(l)' = Pending(l)
    BY <1>6, <1>7 DEF Pending
  <2> QED
    BY <1>2, <2>1, <2>2, <2>3
<1>9. \A l : Owed(l)' = Owed(l)
  BY <1>7 DEF Owed
<1>10. \A u \in Threads \ {t} : /\ HasLib(u)' <=> HasLib(u)
                                /\ Chosen(u)' <=> Chosen(u)
                                /\ Unit(u)' = Unit(u)
  BY <1>1, <1>6 DEF HasLib, Working, Chosen, Unit
<1>11. QTypes'
  <2>1. nextTr' \in [Libs -> Nat]
    BY <1>1, <1>2, <1>4 DEF QTypes
  <2>2. tblk' \in [Threads -> Int] /\ tpc' \in [Threads -> ThreadPlaces]
    BY <1>1, <1>4, <1>5 DEF QTypes, ThreadPlaces
  <2>3. Order!SemTypeOK'
    BY <1>1, <1>4 DEF QTypes, Order!SemTypeOK, orderVars
  <2> QED
    BY <1>1, <1>4, <2>1, <2>2, <2>3 DEF QTypes, blockVars
<1>12. OwnLib'
  <2> SUFFICES ASSUME NEW u \in Threads, HasLib(u)' PROVE tlib'[u] \in Libs /\ lsThread'[tlib'[u]] = u
    BY DEF OwnLib
  <2>1. CASE u = t
    BY <1>1, <1>2, <1>3, <1>7, <2>1
  <2>2. CASE u # t
    BY <1>1, <1>4, <1>7, <1>10, <2>2 DEF OwnLib
  <2> QED
    BY <2>1, <2>2
<1>13. EndInv'
  <2>1. Ending' <=> Ending
    BY <1>7 DEF Ending
  <2> QED
    BY <1>3, <1>4, <1>6, <1>7, <2>1 DEF EndInv
<1>14. PendingRight'
  <2> SUFFICES ASSUME NEW l \in Libs
               PROVE  /\ nextTr'[l] <= Len(reqArray[l])
                      /\ \A i \in Pending(l)' : reqArray[l][i] \in Out(l)
                      /\ \A i, j \in Pending(l)' : reqArray[l][i] = reqArray[l][j] => i = j
    BY <1>7 DEF PendingRight
  <2>1. Pending(l)' \subseteq Pending(l)
    BY <1>8
  <2>2. nextTr'[l] <= Len(reqArray[l])
    <3>1. CASE l = k
      BY <1>2, <1>4, <1>6, <3>1, ArrayIs
    <3>2. CASE l # k
      BY <1>4, <1>6, <3>2 DEF PendingRight
    <3> QED
      BY <3>1, <3>2
  <2> QED
    BY <1>4, <2>1, <2>2 DEF PendingRight
<1>15. TakenRight'
  <2> SUFFICES ASSUME NEW u \in Threads, Chosen(u)', NEW l, l = tlib[u]
               PROVE  /\ tblk'[u] \in Out(l)
                      /\ \A i \in Pending(l)' : reqArray[l][i] # tblk'[u]
                      /\ tpc'[u] = "read" => filePos[l] = tblk'[u]
                      /\ tpc'[u] \in {"count", "countwrite", "store"} => tbuf[u] = tblk'[u]
    BY <1>1, <1>7 DEF TakenRight, Pending
  <2>1. CASE u = t
    <3>1. \A i \in Pending(k)' : reqArray[k][i] # c
      BY <1>2, <1>4, <1>8 DEF PendingRight
    <3> QED
      BY <1>2, <1>6, <2>1, <3>1
  <2>2. CASE u # t
    <3>1. Chosen(u) /\ HasLib(u)
      BY <1>10, <2>2 DEF Chosen, HasLib, Working
    <3>2. l # k /\ l \in Libs
      BY <1>3, <1>4, <2>2, <3>1 DEF OwnLib
    <3>3. Pending(l)' = Pending(l)
      BY <1>8, <3>2
    <3> QED
      BY <1>4, <1>6, <2>2, <3>1, <3>3 DEF TakenRight
  <2> QED
    BY <2>1, <2>2
<1>16. NumberNew'
  <2> SUFFICES ASSUME mpc \in {"countwrite", "number"}, NEW r, r = rlib
               PROVE  /\ \A i \in Pending(r)' : reqArray[r][i] # Head(toRequest)
                      /\ \A u \in Threads : Chosen(u)' /\ tlib[u] = r =>
                           tblk'[u] # Head(toRequest)
    BY <1>1, <1>7 DEF NumberNew, Pending
  <2>1. r \in Libs
    BY DEF LInv, LMode, Asking
  <2>2. Pending(r)' \subseteq Pending(r)
    BY <1>8, <2>1
  <2>3. ASSUME NEW u \in Threads, Chosen(u)', tlib[u] = r PROVE tblk'[u] # Head(toRequest)
    <3>1. CASE u = t
      <4>1. r = k /\ tblk'[u] = reqArray[k][n]
        BY <1>6, <2>3, <3>1
      <4> QED
        BY <1>2, <1>4, <4>1 DEF NumberNew
    <3>2. CASE u # t
      BY <1>4, <1>6, <1>10, <2>3, <3>2 DEF NumberNew
    <3> QED
      BY <3>1, <3>2
  <2> QED
    BY <1>4, <2>2, <2>3 DEF NumberNew
<1>17. Quiet'
  <2> SUFFICES ASSUME NEW l \in Libs, l \notin Listed
               PROVE  Out(l) = {} /\ nextTr'[l] = Len(reqArray[l])
    BY <1>7 DEF Quiet
  <2> QED
    BY <1>3, <1>4, <1>6 DEF Quiet
<1>18. UnitsRight'
  <2> SUFFICES ASSUME NEW u \in Threads
               PROVE  /\ (\A l \in Listed : lsThread[l] # u) => libSem[u] = 0 /\ Unit(u)' = 0
                      /\ \A l \in Listed : lsThread[l] = u =>
                           libSem[u] + Unit(u)' + Owed(l) <= Len(reqArray[l]) - nextTr'[l]
    BY <1>1, <1>7, <1>9 DEF UnitsRight
  <2>1. /\ (\A l \in Listed : lsThread[l] # u) => libSem[u] = 0 /\ Unit(u) = 0
        /\ \A l \in Listed : lsThread[l] = u =>
             libSem[u] + Unit(u) + Owed(l) <= Len(reqArray[l]) - nextTr[l]
    BY <1>4 DEF UnitsRight
  <2>2. CASE u # t
    <3>1. \A l \in Listed : lsThread[l] = u => nextTr'[l] = nextTr[l]
      BY <1>3, <1>6, <2>2, ListedLibs
    <3> QED
      BY <1>10, <2>1, <2>2, <3>1
  <2>3. CASE u = t
    <3>1. Unit(t) = 1 /\ Unit(t)' = 0 /\ libSem[t] \in Nat
      BY <1>1, <1>4, <1>6 DEF Unit, QTypes
    <3>2. ASSUME NEW l \in Listed, lsThread[l] = t
          PROVE  libSem[t] + Unit(t)' + Owed(l) <= Len(reqArray[l]) - nextTr'[l]
      <4>1. l \in Libs /\ nextTr[l] \in Nat /\ Len(reqArray[l]) \in Nat /\ Owed(l) \in {0, 1}
        BY <1>4, ListedLibs, ArrayIs
      <4>2. libSem[t] + Unit(t) + Owed(l) <= Len(reqArray[l]) - nextTr[l]
        BY <2>1, <2>3, <3>2
      <4>3. nextTr'[l] = nextTr[l] \/ nextTr'[l] = nextTr[l] + 1
        BY <1>1, <1>2, <1>4, <4>1 DEF QTypes
      <4> QED
        BY <3>1, <4>1, <4>2, <4>3
    <3>3. ~\A l \in Listed : lsThread[l] # t
      BY <1>3
    <3> QED
      BY <2>3, <3>2, <3>3
  <2> QED
    BY <2>2, <2>3
<1> QED
  BY <1>11, <1>12, <1>13, <1>14, <1>15, <1>16, <1>17, <1>18 DEF QInv

(* A thread stores the block it has read. *)
LEMMA StoreQInv ==
  ASSUME LInv, WInv, BInv, QInv, NEW t \in Threads, Store(t),
         UNCHANGED <<listVars, bookVars, blockVars, mpc>>
  PROVE  QInv'
<1> SUFFICES ASSUME NEW k, k = tlib[t], NEW c, c = tblk[t]
             PROVE  QInv'
  OBVIOUS
<1>1. /\ tpc[t] = "store" /\ tpc' = [tpc EXCEPT ![t] = "signal"]
      /\ UNCHANGED <<requested, nextTr, filePos, tlib, tblk, tbuf, treg, libSem, readSem>>
      /\ UNCHANGED orderVars
  BY DEF Store, At, Goto, semVars
<1>2. HasLib(t) /\ Chosen(t)
  BY <1>1 DEF HasLib, Working, Chosen
<1>3. /\ ~libsDone /\ k \in Libs /\ lsThread[k] = t /\ k \in Listed
      /\ \A u \in Threads : HasLib(u) /\ tlib[u] = k => u = t
  BY <1>2, HasLibIs
<1>4. QTypes /\ PendingRight /\ TakenRight /\ NumberNew /\ Quiet /\ UnitsRight /\ OwnLib /\ EndInv
  BY <1>3 DEF QInv
<1>5. \A l \in Libs : Out(l)' = IF l = k THEN Out(l) \ {c} ELSE Out(l)
  BY StoreBInv
<1>6. tpc'[t] = "signal" /\ \A u \in Threads \ {t} : tpc'[u] = tpc[u]
  BY <1>1, <1>4 DEF QTypes
<1>7. /\ UNCHANGED <<lsThread, reqLibs, reqArray, toRequest, rlib, libsDone, mpc>>
      /\ Listed' = Listed
  BY DEF listVars, bookVars, blockVars, Listed
<1>8. \A l : Pending(l)' = Pending(l) /\ Owed(l)' = Owed(l)
  BY <1>1, <1>7 DEF Pending, Owed
<1>9. \A u \in Threads \ {t} : /\ HasLib(u)' <=> HasLib(u)
                               /\ Chosen(u)' <=> Chosen(u)
                               /\ Unit(u)' = Unit(u)
  BY <1>1, <1>6 DEF HasLib, Working, Chosen, Unit
<1>10. ~HasLib(t)' /\ ~Chosen(t)' /\ Unit(t) = 0 /\ Unit(t)' = 0
  BY <1>1, <1>6 DEF HasLib, Working, Chosen, Unit
<1>11. QTypes'
  <2>1. tpc' \in [Threads -> ThreadPlaces]
    BY <1>1, <1>4 DEF QTypes, ThreadPlaces
  <2>2. Order!SemTypeOK'
    BY <1>1, <1>4 DEF QTypes, Order!SemTypeOK, orderVars
  <2> QED
    BY <1>1, <1>4, <2>1, <2>2 DEF QTypes, blockVars
<1>12. OwnLib'
  BY <1>1, <1>4, <1>7, <1>9, <1>10 DEF OwnLib
<1>13. EndInv'
  <2>1. Ending' <=> Ending
    BY <1>7 DEF Ending
  <2> QED
    BY <1>3, <1>4, <1>6, <1>7, <2>1 DEF EndInv
<1>14. PendingRight'
  <2>1. \A i \in Pending(k) : reqArray[k][i] # c
    BY <1>2, <1>4 DEF TakenRight
  <2>2. \A l \in Libs : \A i \in Pending(l) : reqArray[l][i] \in Out(l)'
    BY <1>4, <1>5, <2>1 DEF PendingRight
  <2> QED
    BY <1>1, <1>4, <1>7, <1>8, <2>2 DEF PendingRight
<1>15. TakenRight'
  <2> SUFFICES ASSUME NEW u \in Threads, Chosen(u)', NEW l, l = tlib[u]
               PROVE  /\ tblk[u] \in Out(l)'
                      /\ \A i \in Pending(l) : reqArray[l][i] # tblk[u]
                      /\ tpc'[u] = "read" => filePos[l] = tblk[u]
                      /\ tpc'[u] \in {"count", "countwrite", "store"} => tbuf[u] = tblk[u]
    BY <1>1, <1>7, <1>8 DEF TakenRight
  <2>1. u # t /\ Chosen(u) /\ HasLib(u)
    BY <1>9, <1>10 DEF Chosen, HasLib, Working
  <2>2. l # k /\ l \in Libs
    BY <1>3, <1>4, <2>1 DEF OwnLib
  <2> QED
    BY <1>4, <1>5, <1>6, <2>1, <2>2 DEF TakenRight
<1>16. NumberNew'
  <2>1. \A u \in Threads : Chosen(u)' => Chosen(u)
    BY <1>9, <1>10
  <2> QED
    BY <1>1, <1>4, <1>7, <1>8, <2>1 DEF NumberNew
<1>17. Quiet'
  BY <1>1, <1>3, <1>4, <1>5, <1>7 DEF Quiet
<1>18. UnitsRight'
  <2>1. \A u \in Threads : Unit(u)' = Unit(u)
    BY <1>9, <1>10
  <2> QED
    BY <1>1, <1>4, <1>7, <1>8, <2>1 DEF UnitsRight
<1> QED
  BY <1>11, <1>12, <1>13, <1>14, <1>15, <1>16, <1>17, <1>18 DEF QInv

(* The threads keep QInv. *)
LEMMA ThreadsQInv ==
  ASSUME LInv, WInv, BInv, QInv, NEW t \in Threads, LibReadT(t)
  PROVE  QInv'
<1>1. UNCHANGED <<listVars, bookVars, blockVars, mpc>>
  BY ThreadFrame, NoFail
<1>2. CASE Store(t)
  BY <1>1, <1>2, StoreQInv
<1>3. CASE ~Store(t)
  <2>1. \A l : Out(l)' = Out(l)
    BY <1>1, <1>3, TableFrame, StillBInv
  <2>2. CASE Capture(t) \/ ReleasePost(t)
    <3>1. t \in Procs
      BY DEF Procs
    <3>2. UNCHANGED <<threadVars, semVars, requested, nextTr, filePos>>
      BY <2>2, <3>1, CaptureFrame DEF libVars
    <3>3. Order!SemTypeOK'
      BY <2>2, <3>1, OrderTypes DEF QInv, QTypes
    <3> QED
      BY <1>1, <2>1, <3>2, <3>3, StillQInv
  <2> QED
    BY <1>1, <1>3, <2>1, <2>2, TakeUnitQInv, ScanQInv, ScannedQInv, PickQInv, SeekQInv, ReadQInv,
       UncountQInv, SignalQInv DEF LibReadT
<1> QED
  BY <1>2, <1>3

(* QInv, for a step of main that stores no number and does not end the     *)
(* libraries.                                                              *)
LEMMA MainQInv ==
  ASSUME LInv, QInv, ~libsDone, ~libsDone',
         UNCHANGED <<reqArray, nextTr, filePos, tlib, tblk, tbuf>>,
         \A t \in Threads : tpc'[t] = tpc[t] \/ (tpc[t] = "unborn" /\ tpc'[t] = "wait"),
         mpc' \notin {"aborted", "bump", "close", "join", "finished"},
         \A t \in Threads : HasLib(t) => lsThread'[tlib[t]] = lsThread[tlib[t]],
         \A l \in Libs : Out(l) \subseteq Out(l)',
         QTypes', NumberNew', Quiet', UnitsRight'
  PROVE  QInv'
<1>1. PendingRight /\ TakenRight /\ OwnLib /\ EndInv
  BY DEF QInv
<1>2. \A t \in Threads : /\ HasLib(t)' <=> HasLib(t)
                         /\ Chosen(t)' <=> Chosen(t)
                         /\ tpc'[t] # tpc[t] => tpc'[t] = "wait"
  BY DEF HasLib, Working, Chosen
<1>3. \A l : Pending(l)' = Pending(l)
  BY DEF Pending
<1>4. OwnLib'
  BY <1>1, <1>2 DEF OwnLib
<1>5. EndInv'
  BY <1>1, <1>2 DEF EndInv, Ending
<1>6. PendingRight'
  BY <1>1, <1>3 DEF PendingRight
<1>7. TakenRight'
  <2> SUFFICES ASSUME NEW t \in Threads, Chosen(t)', NEW l, l = tlib[t]
               PROVE  /\ tblk[t] \in Out(l)'
                      /\ \A i \in Pending(l) : reqArray[l][i] # tblk[t]
                      /\ tpc'[t] = "read" => filePos[l] = tblk[t]
                      /\ tpc'[t] \in {"count", "countwrite", "store"} => tbuf[t] = tblk[t]
    BY <1>3 DEF TakenRight
  <2>1. Chosen(t) /\ HasLib(t) /\ l \in Libs
    BY <1>1, <1>2 DEF Chosen, HasLib, Working, OwnLib
  <2> QED
    BY <1>1, <1>2, <2>1 DEF TakenRight
<1> QED
  BY <1>4, <1>5, <1>6, <1>7 DEF QInv

(* ... that neither gives units nor adds or removes a library.             *)
LEMMA PlainQInv ==
  ASSUME LInv, QInv, ~libsDone, UNCHANGED <<libsDone, threadVars, libSem, orderVars>>,
         UNCHANGED <<reqArray, nextTr, filePos, reqLibs, lsThread, stop>>,
         mpc' \notin {"aborted", "bump", "close", "join", "finished", "bumplib"},
         mpc' \in {"countwrite", "number"} => mpc = "countwrite" /\ UNCHANGED <<rlib, toRequest>>,
         \A l \in Libs : Out(l)' = Out(l),
         requested' \in [Libs -> Int], readSem' \in [Threads -> Nat], mreg' \in Int
  PROVE  QInv'
<1> USE DEF threadVars
<1>1. QTypes /\ NumberNew /\ Quiet /\ UnitsRight
  BY DEF QInv
<1>2. \A t : (Chosen(t)' <=> Chosen(t)) /\ Unit(t)' = Unit(t)
  BY DEF Chosen, Unit
<1>3. Listed' = Listed /\ \A l : Pending(l)' = Pending(l) /\ Owed(l)' = 0 /\ Owed(l) \in {0, 1}
  BY DEF Pending, Owed, Listed
<1>4. QTypes'
  <2>1. Order!SemTypeOK'
    BY <1>1 DEF QTypes, Order!SemTypeOK, orderVars
  <2> QED
    BY <1>1, <2>1 DEF QTypes
<1>5. NumberNew'
  BY <1>1, <1>2, <1>3 DEF NumberNew
<1>6. Quiet'
  BY <1>1, <1>3 DEF Quiet
<1>7. UnitsRight'
  <2> SUFFICES ASSUME NEW t \in Threads
               PROVE  /\ (\A l \in Listed : lsThread[l] # t) => libSem[t] = 0 /\ Unit(t) = 0
                      /\ \A l \in Listed : lsThread[l] = t =>
                           libSem[t] + Unit(t) + 0 <= Len(reqArray[l]) - nextTr[l]
    BY <1>2, <1>3 DEF UnitsRight
  <2>1. /\ (\A l \in Listed : lsThread[l] # t) => libSem[t] = 0 /\ Unit(t) = 0
        /\ \A l \in Listed : lsThread[l] = t =>
             libSem[t] + Unit(t) + Owed(l) <= Len(reqArray[l]) - nextTr[l]
    BY <1>1 DEF UnitsRight
  <2>2. libSem[t] \in Nat /\ Unit(t) \in Nat
    BY <1>1 DEF QTypes, Unit
  <2>3. ASSUME NEW l \in Listed, lsThread[l] = t
        PROVE  libSem[t] + Unit(t) + 0 <= Len(reqArray[l]) - nextTr[l]
    <3>1. PICK n \in Int : n = nextTr[l]
      BY <1>1, ListedLibs, ArrayIs
    <3>2. PICK m \in Int : m = Len(reqArray[l])
      BY <1>1, ListedLibs, ArrayIs
    <3>3. PICK u \in Int : u = Unit(t)
      BY <2>2
    <3>4. PICK s \in Int : s = libSem[t]
      BY <2>2
    <3>5. PICK o \in {0, 1} : o = Owed(l)
      BY <1>3
    <3>6. s + u + o <= m - n
      BY <2>1, <2>3, <3>1, <3>2, <3>3, <3>4, <3>5
    <3>7. s + u + 0 <= m - n
      BY <3>5, <3>6
    <3> QED
      BY <3>1, <3>2, <3>3, <3>4, <3>7
  <2> QED
    BY <2>1, <2>3
<1> QED
  BY <1>4, <1>5, <1>6, <1>7, MainQInv

(* Nothing changes for the threads. *)
LEMMA QuietQInv ==
  ASSUME LInv, LInv', WInv, BInv, QInv, OneDefiner, OneDefiner',
         \/ \E s \in Symbols : Reference(s)
         \/ CountWrite \/ SelectLibrary \/ FindModule \/ VerifyBlock \/ WaitRead \/ DecLibBlock
         \/ Deselect
  PROVE  QInv'
<1>1. ~libsDone /\ QTypes
  BY AtWork DEF QInv, Reference, CountWrite, SelectLibrary, FindModule, VerifyBlock, WaitRead,
     DecLibBlock, Deselect
<1>2. /\ UNCHANGED <<threadVars, libSem, orderVars, libsDone, mreg>>
      /\ UNCHANGED <<reqArray, nextTr, filePos, reqLibs, lsThread, stop>>
      /\ mpc' \in {"top", "parse", "add", "request", "number", "find", "verify", "waitread",
                   "deselect", "remove"}
      /\ mpc' = "number" => mpc = "countwrite" /\ UNCHANGED <<rlib, toRequest>>
      /\ requested' = requested \/ (CountWrite /\ requested' = [requested EXCEPT ![rlib] = mreg + 1])
      /\ readSem' = readSem \/ (WaitRead /\ readSem' = [readSem EXCEPT ![lsThread[cur]] = @ - 1])
  <2> USE DEF libVars, semVars, MainGoto
  <2>1. CASE \E s \in Symbols : Reference(s)
    BY <2>1 DEF Reference
  <2>2. CASE CountWrite
    BY <2>2 DEF CountWrite
  <2>3. CASE SelectLibrary
    BY <2>3 DEF SelectLibrary
  <2>4. CASE FindModule
    BY <2>4 DEF FindModule
  <2>5. CASE VerifyBlock
    BY <2>5 DEF VerifyBlock
  <2>6. CASE WaitRead
    BY <2>6 DEF WaitRead, AfterWait
  <2>7. CASE DecLibBlock
    BY <2>7 DEF DecLibBlock
  <2>8. CASE Deselect
    BY <2>8 DEF Deselect
  <2> QED
    BY <2>1, <2>2, <2>3, <2>4, <2>5, <2>6, <2>7, <2>8
<1>3. \A l \in Libs : Out(l)' = Out(l)
  BY <1>1, ReferenceBInv, AskBInv, SelectBInv, FindBInv, VerifyBInv, DecBInv
<1>4. requested' \in [Libs -> Int]
  <2>1. ASSUME CountWrite PROVE rlib \in Libs
    BY <2>1 DEF CountWrite, LInv, LMode, Asking
  <2> QED
    BY <1>1, <1>2, <2>1 DEF QTypes
<1>5. readSem' \in [Threads -> Nat]
  <2>1. ASSUME WaitRead PROVE readSem[lsThread[cur]] > 0 /\ cur \in Libs
    <3>1. InTurn /\ mpc # "aborted"
      BY <2>1 DEF WaitRead, InTurn, Verifying
    <3> QED
      BY <2>1, <3>1, CurIsFirst DEF WaitRead
  <2>2. ASSUME WaitRead, lsThread[cur] \in Threads
        PROVE  [readSem EXCEPT ![lsThread[cur]] = @ - 1] \in [Threads -> Nat]
    BY <1>1, <2>1, <2>2 DEF QTypes
  <2>3. ASSUME lsThread[cur] \notin Threads
        PROVE  [readSem EXCEPT ![lsThread[cur]] = @ - 1] = readSem
    BY <1>1, <2>3 DEF QTypes
  <2> QED
    BY <1>1, <1>2, <2>2, <2>3 DEF QTypes
<1>6. mreg' \in Int
  BY <1>1, <1>2 DEF QTypes
<1> QED
  BY <1>1, <1>2, <1>3, <1>4, <1>5, <1>6, PlainQInv

(* Main asks for a block: nobody has to do with it. *)
LEMMA RequestQInv ==
  ASSUME LInv, WInv, BInv, QInv, RequestBlock
  PROVE  QInv'
<1> SUFFICES ASSUME NEW r, r = rlib, NEW c, c = Head(toRequest)
             PROVE  QInv'
  OBVIOUS
<1>1. ~libsDone /\ QTypes /\ PendingRight /\ TakenRight /\ Quiet /\ UnitsRight /\ OwnLib
  BY AtWork DEF QInv, RequestBlock
<1>2. /\ mpc = "request" /\ UNCHANGED <<libsDone, threadVars, libSem, orderVars, rlib, readSem>>
      /\ UNCHANGED <<reqArray, nextTr, filePos, reqLibs, lsThread, stop>>
      /\ \/ requested' = requested
         \/ requested' = [requested EXCEPT ![r] = @ + 1]
      /\ mreg' = mreg \/ mreg' = requested[r]
      /\ IF c \in flagged[r]
           THEN mpc' \in {ctx, "request"}
           ELSE mpc' \in {"countwrite", "number"} /\ toRequest' = toRequest
  BY DEF RequestBlock, Flagged, RequestRest, MainGoto, semVars
<1>3. r \in Libs /\ r \in Listed /\ ctx \in {"top", "parse"}
  BY <1>2 DEF LInv, LMode, LTypes, Asking
<1>4. requested' \in [Libs -> Int] /\ mreg' \in Int
  BY <1>1, <1>2, <1>3 DEF QTypes
<1>5. BInv' /\ IF c \in flagged[r]
                 THEN \A l \in Libs : Out(l)' = Out(l)
                 ELSE /\ c \notin Out(r)
                      /\ \A l \in Libs : Out(l)' = IF l = r THEN Out(l) \union {c} ELSE Out(l)
  BY <1>1, RequestBInv
<1>6. CASE c \in flagged[r]
  <2>1. mpc' \in {"top", "parse", "request"}
    BY <1>2, <1>3, <1>6
  <2>2. \A l \in Libs : Out(l)' = Out(l)
    BY <1>5, <1>6
  <2>3. readSem' \in [Threads -> Nat]
    BY <1>1, <1>2 DEF QTypes
  <2> QED
    BY <1>1, <1>2, <1>4, <2>1, <2>2, <2>3, PlainQInv
<1>7. CASE c \notin flagged[r]
  <2>1. mpc' \in {"countwrite", "number"} /\ toRequest' = toRequest
    BY <1>2, <1>7
  <2>2. c \notin Out(r) /\ \A l \in Libs : Out(l)' = IF l = r THEN Out(l) \union {c} ELSE Out(l)
    BY <1>5, <1>7
  <2>3. /\ \A l : Pending(l)' = Pending(l) /\ Owed(l)' = 0
        /\ \A l : Owed(l) = 0
        /\ Listed' = Listed
    BY <1>2, <2>1 DEF Pending, Owed, Listed
  <2>4. QTypes'
    <3>1. Order!SemTypeOK'
      BY <1>1, <1>2 DEF QTypes, Order!SemTypeOK, orderVars
    <3> QED
      BY <1>1, <1>2, <1>4, <3>1 DEF QTypes, threadVars
  <2>5. NumberNew'
    <3>1. \A i \in Pending(r) : reqArray[r][i] # c
      BY <1>1, <1>3, <2>2 DEF PendingRight
    <3>2. \A t \in Threads : Chosen(t) /\ tlib[t] = r => tblk[t] # c
      BY <1>1, <2>2 DEF TakenRight
    <3>3. \A t \in Threads : Chosen(t)' <=> Chosen(t)
      BY <1>2 DEF Chosen, threadVars
    <3> QED
      BY <1>2, <2>1, <2>3, <3>1, <3>2, <3>3 DEF NumberNew, threadVars
  <2>6. Quiet'
    BY <1>1, <1>2, <1>3, <2>2, <2>3 DEF Quiet
  <2>7. UnitsRight'
    <3>1. \A t \in Threads : Unit(t)' = Unit(t)
      BY <1>2 DEF Unit, threadVars
    <3> QED
      BY <1>1, <1>2, <2>3, <3>1 DEF UnitsRight
  <2>8. mpc' \notin {"aborted", "bump", "close", "join", "finished"}
    BY <2>1
  <2>9. \A l \in Libs : Out(l) \subseteq Out(l)'
    BY <2>2
  <2>10. /\ \A t \in Threads : tpc'[t] = tpc[t]
         /\ UNCHANGED <<reqArray, nextTr, filePos, tlib, tblk, tbuf, lsThread>> /\ ~libsDone'
    BY <1>1, <1>2 DEF threadVars
  <2> QED
    BY <1>1, <2>4, <2>5, <2>6, <2>7, <2>8, <2>9, <2>10, MainQInv
<1> QED
  BY <1>6, <1>7

(* Main gives the unit for the number it has stored. *)
LEMMA BumpLibQInv ==
  ASSUME LInv, WInv, BInv, QInv, OwnThread, BumpLib
  PROVE  QInv'
<1> SUFFICES ASSUME NEW r, r = rlib, NEW t, t = lsThread[rlib]
             PROVE  QInv'
  OBVIOUS
<1>1. ~libsDone /\ QTypes /\ Quiet /\ UnitsRight
  BY AtWork DEF QInv, BumpLib
<1>2. /\ mpc = "bumplib" /\ libSem' = [libSem EXCEPT ![t] = @ + 1] /\ mpc' \in {ctx, "request"}
      /\ UNCHANGED <<libsDone, tpc, tlib, tblk, tbuf, treg, orderVars, rlib, readSem, mreg>>
      /\ UNCHANGED <<requested, reqArray, nextTr, filePos, reqLibs, lsThread, stop>>
  BY DEF BumpLib, RequestRest, MainGoto, ReaderOf, libVars, threadVars
<1>3. r \in Libs /\ r \in Listed /\ ctx \in {"top", "parse"}
  BY <1>2 DEF LInv, LMode, LTypes, Asking
<1>4. t \in Threads
  BY <1>3 DEF LInv, LTypes, ListsAgree, Listed
<1>5. /\ \A l : Pending(l)' = Pending(l) /\ Owed(l)' = 0 /\ Owed(l) = IF l = r THEN 1 ELSE 0
      /\ Listed' = Listed
      /\ \A u : Unit(u)' = Unit(u)
  BY <1>2, <1>3 DEF Pending, Owed, Listed, Unit
<1>6. QTypes'
  <2>1. Order!SemTypeOK'
    BY <1>1, <1>2 DEF QTypes, Order!SemTypeOK, orderVars
  <2>2. libSem' \in [Threads -> Nat]
    BY <1>1, <1>2, <1>4 DEF QTypes
  <2> QED
    BY <1>1, <1>2, <2>1, <2>2 DEF QTypes
<1>7. NumberNew'
  BY <1>2, <1>3 DEF NumberNew
<1>8. \A l \in Libs : Out(l)' = Out(l)
  BY <1>2, AskBInv
<1>9. Quiet'
  BY <1>1, <1>2, <1>5, <1>8 DEF Quiet
<1>10. UnitsRight'
  <2> SUFFICES ASSUME NEW u \in Threads
               PROVE  /\ (\A l \in Listed : lsThread[l] # u) => libSem'[u] = 0 /\ Unit(u) = 0
                      /\ \A l \in Listed : lsThread[l] = u =>
                           libSem'[u] + Unit(u) + 0 <= Len(reqArray[l]) - nextTr[l]
    BY <1>2, <1>5 DEF UnitsRight
  <2>1. /\ (\A l \in Listed : lsThread[l] # u) => libSem[u] = 0 /\ Unit(u) = 0
        /\ \A l \in Listed : lsThread[l] = u =>
             libSem[u] + Unit(u) + Owed(l) <= Len(reqArray[l]) - nextTr[l]
    BY <1>1 DEF UnitsRight
  <2>2. libSem'[u] = IF u = t THEN libSem[u] + 1 ELSE libSem[u]
    BY <1>1, <1>2 DEF QTypes
  <2>3. libSem[u] \in Nat /\ Unit(u) \in Nat
    BY <1>1 DEF QTypes, Unit
  <2>4. ASSUME NEW l \in Listed, lsThread[l] = u
        PROVE  libSem'[u] + Unit(u) + 0 <= Len(reqArray[l]) - nextTr[l]
    <3>1. nextTr[l] \in Nat /\ Len(reqArray[l]) \in Nat
      BY <1>1, ListedLibs, ArrayIs
    <3>2. u = t => l = r
      BY <1>3, <2>4 DEF OwnThread
    <3>3. u # t => l # r
      BY <1>3, <2>4
    <3>4. libSem'[u] = libSem[u] + Owed(l)
      BY <1>5, <2>2, <2>3, <3>2, <3>3
    <3> QED
      BY <1>5, <2>1, <2>3, <2>4, <3>1, <3>4
  <2>5. u = t => ~\A l \in Listed : lsThread[l] # u
    BY <1>3
  <2> QED
    BY <2>1, <2>2, <2>4, <2>5
<1>11. mpc' \notin {"aborted", "bump", "close", "join", "finished"}
  BY <1>2, <1>3
<1> QED
  BY <1>1, <1>2, <1>6, <1>7, <1>8, <1>9, <1>10, <1>11, MainQInv

(* Main stores the number of the block. *)
LEMMA StoreNumberQInv ==
  ASSUME LInv, WInv, BInv, QInv, StoreNumber
  PROVE  QInv'
<1> SUFFICES ASSUME NEW r, r = rlib, NEW c, c = Head(toRequest), NEW n, n = Len(reqArray[rlib])
             PROVE  QInv'
  OBVIOUS
<1>1. /\ ~libsDone /\ QTypes /\ PendingRight /\ TakenRight /\ NumberNew /\ Quiet /\ UnitsRight
      /\ OwnLib /\ EndInv
  BY AtWork DEF QInv, StoreNumber
<1>2. /\ mpc = "number" /\ reqArray' = [reqArray EXCEPT ![r] = Append(@, c)] /\ mpc' = "bumplib"
      /\ UNCHANGED <<libsDone, tpc, tlib, tblk, tbuf, treg, libSem, orderVars, rlib, readSem, mreg>>
      /\ UNCHANGED <<requested, nextTr, filePos, reqLibs, lsThread, stop>>
  BY DEF StoreNumber, MainGoto, threadVars, semVars
<1>0. /\ mpc = "number" /\ mpc' = "bumplib" /\ rlib' = r
      /\ UNCHANGED <<nextTr, tpc, tlib, tblk, tbuf, libSem, filePos, lsThread>>
  BY <1>2
<1>3. r \in Libs /\ r \in Listed
  BY <1>2 DEF LInv, LMode, Asking
<1>4. c \in Out(r) /\ c \in AllBlocks
  <2>1. c \in Out(r)
    BY <1>2 DEF BInv, AtBlock
  <2> QED
    BY <1>1, <1>3, <2>1, OutIs
<1>5. \A l \in Libs : Out(l)' = Out(l)
  BY AskBInv
<1>6. /\ reqArray[r] \in Seq(AllBlocks) /\ n \in Nat /\ nextTr[r] \in Nat /\ nextTr[r] <= n
      /\ DOMAIN reqArray[r] = 1 .. n
  BY <1>1, <1>3, ArrayIs DEF PendingRight
<1>7. /\ reqArray'[r] \in Seq(AllBlocks) /\ Len(reqArray'[r]) = n + 1 /\ reqArray'[r][n + 1] = c
      /\ \A i \in 1 .. n : reqArray'[r][i] = reqArray[r][i]
      /\ \A l \in Libs : l # r => reqArray'[l] = reqArray[l]
  <2>1. reqArray'[r] = Append(reqArray[r], c) /\ \A l \in Libs : l # r => reqArray'[l] = reqArray[l]
    BY <1>1, <1>2, <1>3 DEF QTypes
  <2> QED
    BY <1>4, <1>6, <2>1
<1>8. /\ Pending(r)' = Pending(r) \union {n + 1} /\ n + 1 \notin Pending(r)
      /\ \A i \in Pending(r) : reqArray'[r][i] = reqArray[r][i]
      /\ \A l \in Libs : l # r => Pending(l)' = Pending(l)
  <2>1. Pending(r)' = nextTr[r] + 1 .. n + 1 /\ Pending(r) = nextTr[r] + 1 .. n
    BY <1>2, <1>7 DEF Pending
  <2>2. \A l \in Libs : l # r => Pending(l)' = Pending(l)
    BY <1>2, <1>7 DEF Pending
  <2>3. Pending(r) \subseteq 1 .. n
    BY <1>6, <2>1
  <2>4. Pending(r)' = Pending(r) \union {n + 1} /\ n + 1 \notin Pending(r)
    BY <1>6, <2>1
  <2> QED
    BY <1>7, <2>2, <2>3, <2>4
<1>9. QTypes'
  <2>1. Order!SemTypeOK'
    BY <1>1, <1>2 DEF QTypes, Order!SemTypeOK, orderVars
  <2>2. reqArray' \in [Libs -> Seq(AllBlocks)]
    BY <1>1, <1>2, <1>3, <1>4 DEF QTypes
  <2> QED
    BY <1>1, <1>2, <2>1, <2>2 DEF QTypes
<1>10. \A t : (HasLib(t)' <=> HasLib(t)) /\ (Chosen(t)' <=> Chosen(t)) /\ Unit(t)' = Unit(t)
  BY <1>2 DEF HasLib, Working, Chosen, Unit
<1>11. OwnLib' /\ EndInv'
  BY <1>1, <1>2, <1>10 DEF OwnLib, EndInv, Ending
<1>12. PendingRight'
  <2> SUFFICES ASSUME NEW l \in Libs
               PROVE  /\ nextTr[l] <= Len(reqArray'[l])
                      /\ \A i \in Pending(l)' : reqArray'[l][i] \in Out(l)
                      /\ \A i, j \in Pending(l)' : reqArray'[l][i] = reqArray'[l][j] => i = j
    BY <1>0, <1>5 DEF PendingRight
  <2>1. /\ nextTr[l] <= Len(reqArray[l])
        /\ \A i \in Pending(l) : reqArray[l][i] \in Out(l)
        /\ \A i, j \in Pending(l) : reqArray[l][i] = reqArray[l][j] => i = j
    BY <1>1 DEF PendingRight
  <2>2. CASE l # r
    BY <1>7, <1>8, <2>1, <2>2
  <2>3. CASE l = r
    <3>1. \A i \in Pending(r) : reqArray[r][i] # c
      BY <1>1, <1>2 DEF NumberNew
    <3>2. nextTr[r] <= n + 1
      BY <1>6
    <3> QED
      BY <1>4, <1>7, <1>8, <2>1, <2>3, <3>1, <3>2
  <2> QED
    BY <2>2, <2>3
<1>13. TakenRight'
  <2> SUFFICES ASSUME NEW t \in Threads, Chosen(t), NEW l, l = tlib[t]
               PROVE  /\ tblk[t] \in Out(l)'
                      /\ \A i \in Pending(l)' : reqArray'[l][i] # tblk[t]
                      /\ tpc[t] = "read" => filePos[l] = tblk[t]
                      /\ tpc[t] \in {"count", "countwrite", "store"} => tbuf[t] = tblk[t]
    BY <1>0, <1>10 DEF TakenRight
  <2>1. HasLib(t) /\ l \in Libs
    BY <1>1 DEF Chosen, HasLib, Working, OwnLib
  <2>2. /\ tblk[t] \in Out(l) /\ \A i \in Pending(l) : reqArray[l][i] # tblk[t]
        /\ tpc[t] = "read" => filePos[l] = tblk[t]
        /\ tpc[t] \in {"count", "countwrite", "store"} => tbuf[t] = tblk[t]
    BY <1>1 DEF TakenRight
  <2>3. l = r => tblk[t] # c
    BY <1>1, <1>2 DEF NumberNew
  <2>4. \A i \in Pending(l)' : reqArray'[l][i] # tblk[t]
    BY <1>7, <1>8, <2>1, <2>2, <2>3
  <2> QED
    BY <1>5, <2>1, <2>2, <2>4
<1>14. NumberNew'
  BY <1>2 DEF NumberNew
<1>15. Listed' = Listed
  BY <1>2 DEF Listed
<1>16. Quiet'
  BY <1>1, <1>2, <1>3, <1>5, <1>7, <1>15 DEF Quiet
<1>17. UnitsRight'
  <2> SUFFICES ASSUME NEW u \in Threads
               PROVE  /\ (\A l \in Listed : lsThread[l] # u) => libSem[u] = 0 /\ Unit(u) = 0
                      /\ \A l \in Listed : lsThread[l] = u =>
                           libSem[u] + Unit(u) + Owed(l)' <= Len(reqArray'[l]) - nextTr[l]
    BY <1>2, <1>10, <1>15 DEF UnitsRight
  <2>1. /\ (\A l \in Listed : lsThread[l] # u) => libSem[u] = 0 /\ Unit(u) = 0
        /\ \A l \in Listed : lsThread[l] = u =>
             libSem[u] + Unit(u) + Owed(l) <= Len(reqArray[l]) - nextTr[l]
    BY <1>1 DEF UnitsRight
  <2>2. libSem[u] \in Nat /\ Unit(u) \in Nat
    BY <1>1 DEF QTypes, Unit
  <2>3. ASSUME NEW l \in Listed, lsThread[l] = u
        PROVE  libSem[u] + Unit(u) + Owed(l)' <= Len(reqArray'[l]) - nextTr[l]
    <3>1. l \in Libs /\ nextTr[l] \in Nat /\ Len(reqArray[l]) \in Nat
      BY <1>1, ListedLibs, ArrayIs
    <3>2. Owed(l) = 0 /\ Owed(l)' = IF l = r THEN 1 ELSE 0
      BY <1>0 DEF Owed
    <3>3. Len(reqArray'[l]) = Len(reqArray[l]) + Owed(l)'
      <4>1. CASE l = r
        BY <1>7, <3>2, <4>1
      <4>2. CASE l # r
        BY <1>7, <3>1, <3>2, <4>2
      <4> QED
        BY <4>1, <4>2
    <3>4. libSem[u] + Unit(u) + Owed(l) <= Len(reqArray[l]) - nextTr[l]
      BY <2>1, <2>3
    <3>5. Owed(l)' \in {0, 1}
      BY <3>2
    <3>6. libSem[u] + Unit(u) <= Len(reqArray[l]) - nextTr[l]
      BY <2>2, <3>1, <3>2, <3>4
    <3> QED
      BY <2>2, <3>1, <3>3, <3>5, <3>6
  <2> QED
    BY <2>1, <2>3
<1> QED
  BY <1>9, <1>11, <1>12, <1>13, <1>14, <1>16, <1>17 DEF QInv

(* A library gets a thread, which has nothing to do yet. *)
LEMMA AddQInv ==
  ASSUME LInv, LInv', WInv, BInv, QInv, OwnThread', ListedEmpty, AddToRequestList
  PROVE  QInv'
<1> SUFFICES ASSUME NEW r, r = rlib, NEW t, t = NextReadlibThread(nextThread)
             PROVE  QInv'
  OBVIOUS
<1>1. ~libsDone /\ QTypes /\ PendingRight /\ Quiet /\ UnitsRight /\ OwnLib
  BY AtWork DEF QInv, AddToRequestList
<1>2. /\ mpc = "add" /\ mpc' = "request" /\ Release(Main)
      /\ tpc' = IF tpc[t] = "unborn" THEN [tpc EXCEPT ![t] = "wait"] ELSE tpc
      /\ lsThread' = [lsThread EXCEPT ![r] = t]
      /\ libSem' = [libSem EXCEPT ![t] = @ + requested[r]]
      /\ reqLibs' = Append(reqLibs, r)
      /\ UNCHANGED <<libsDone, tlib, tblk, tbuf, treg, rlib, readSem, mreg, requested, reqArray>>
      /\ UNCHANGED <<nextTr, filePos, stop>>
  BY DEF AddToRequestList, MainGoto, OutstandingUnits
<1>3. r \in Libs /\ r \notin Listed /\ requested[r] = 0
  BY <1>2 DEF LInv, LMode, Asking, ListedEmpty
<1>4. t \in Threads
  BY NextThreadIs, ThreadsAre DEF LInv, LTypes
<1>5. Listed' = Listed \union {r}
  BY <1>2, <1>3, AppendEntries DEF Listed, LInv, LTypes
<1>6. lsThread'[r] = t /\ \A l \in Libs : l # r => lsThread'[l] = lsThread[l]
  BY <1>2, <1>3 DEF LInv, LTypes
<1>7. \A l \in Listed : lsThread[l] # t
  <2> SUFFICES ASSUME NEW l \in Listed, lsThread[l] = t PROVE FALSE
    OBVIOUS
  <2>1. l \in Libs /\ l # r
    BY <1>3, ListedLibs
  <2>2. lsThread'[l] = lsThread'[r] /\ l \in Listed' /\ r \in Listed'
    BY <1>5, <1>6, <2>1
  <2> QED
    BY <2>1, <2>2 DEF OwnThread
<1>8. libSem' = libSem
  <2>1. libSem[t] + requested[r] = libSem[t]
    BY <1>1, <1>3, <1>4 DEF QTypes
  <2> QED
    BY <1>1, <1>2, <1>4, <2>1 DEF QTypes
<1>9. \A u \in Threads : tpc'[u] = tpc[u] \/ (tpc[u] = "unborn" /\ tpc'[u] = "wait")
  BY <1>1, <1>2, <1>4 DEF QTypes
<1>10. \A u \in Threads : Unit(u)' = Unit(u)
  BY <1>2, <1>9 DEF Unit
<1>11. \A l : Owed(l)' = 0 /\ Owed(l) = 0
  BY <1>2 DEF Owed
<1>12. \A l \in Libs : Out(l)' = Out(l)
  BY AskBInv
<1>13. QTypes'
  <2>1. Order!SemTypeOK'
    BY <1>1, <1>2, OrderTypes DEF QTypes, Procs
  <2>2. tpc' \in [Threads -> ThreadPlaces]
    BY <1>1, <1>2 DEF QTypes, ThreadPlaces
  <2> QED
    BY <1>1, <1>2, <1>8, <2>1, <2>2 DEF QTypes
<1>14. NumberNew'
  BY <1>2 DEF NumberNew
<1>15. Quiet'
  BY <1>1, <1>2, <1>5, <1>12 DEF Quiet
<1>16. UnitsRight'
  <2> SUFFICES ASSUME NEW u \in Threads
               PROVE  /\ (\A l \in Listed' : lsThread'[l] # u) => libSem[u] = 0 /\ Unit(u) = 0
                      /\ \A l \in Listed' : lsThread'[l] = u =>
                           libSem[u] + Unit(u) + 0 <= Len(reqArray[l]) - nextTr[l]
    BY <1>2, <1>8, <1>10, <1>11 DEF UnitsRight
  <2>1. /\ (\A l \in Listed : lsThread[l] # u) => libSem[u] = 0 /\ Unit(u) = 0
        /\ \A l \in Listed : lsThread[l] = u =>
             libSem[u] + Unit(u) + 0 <= Len(reqArray[l]) - nextTr[l]
    BY <1>1, <1>11 DEF UnitsRight
  <2>2. \A l \in Listed : l \in Libs /\ l # r /\ lsThread'[l] = lsThread[l]
    BY <1>3, <1>6, ListedLibs
  <2>3. (\A l \in Listed' : lsThread'[l] # u) => libSem[u] = 0 /\ Unit(u) = 0
    BY <1>5, <2>1, <2>2
  <2>4. ASSUME NEW l \in Listed', lsThread'[l] = u
        PROVE  libSem[u] + Unit(u) + 0 <= Len(reqArray[l]) - nextTr[l]
    <3>1. CASE l \in Listed
      BY <2>1, <2>2, <2>4, <3>1
    <3>2. CASE l = r
      <4>1. libSem[u] = 0 /\ Unit(u) = 0
        BY <1>1, <1>6, <1>7, <2>4, <3>2 DEF UnitsRight
      <4>2. nextTr[l] = Len(reqArray[l]) /\ Len(reqArray[l]) \in Nat
        BY <1>1, <1>3, <3>2, ArrayIs DEF Quiet
      <4> QED
        BY <4>1, <4>2
    <3> QED
      BY <1>5, <3>1, <3>2
  <2> QED
    BY <2>3, <2>4
<1>17. \A u \in Threads : HasLib(u) => lsThread'[tlib[u]] = lsThread[tlib[u]]
  BY <1>3, <1>6, HasLibIs
<1> QED
  BY <1>1, <1>2, <1>9, <1>12, <1>13, <1>14, <1>15, <1>16, <1>17, MainQInv

(* When a library leaves the list, nothing of it is outstanding. *)
LEMMA NothingOut ==
  ASSUME LInv, WInv, BInv, QInv, mpc = "remove"
  PROVE  /\ cur \in Libs /\ cur \in Listed /\ lsThread[cur] \in Threads /\ ~libsDone
         /\ Out(cur) = {} /\ nextTr[cur] = Len(reqArray[cur])
         /\ libSem[lsThread[cur]] = 0 /\ Unit(lsThread[cur]) = 0
         /\ \A u \in Threads : HasLib(u) => tlib[u] # cur
<1> SUFFICES ASSUME NEW k, k = cur, NEW t, t = lsThread[cur]
             PROVE  /\ k \in Libs /\ k \in Listed /\ t \in Threads /\ ~libsDone
                    /\ Out(k) = {} /\ nextTr[k] = Len(reqArray[k])
                    /\ libSem[t] = 0 /\ Unit(t) = 0
                    /\ \A u \in Threads : HasLib(u) => tlib[u] # k
  OBVIOUS
<1>1. ~libsDone /\ QTypes /\ PendingRight /\ TakenRight /\ UnitsRight /\ OwnLib
  BY AtWork DEF QInv
<1>2. k \in Libs /\ k \in Listed /\ t \in Threads
  BY CurIsFirst DEF InTurn
<1>3. Unparsed(k) = {}
  <2>1. ~(selected[k] > 0) /\ selected[k] \in Nat
    BY <1>2 DEF LInv, LMode, LTypes, InList
  <2>2. selected[k] = Cardinality(Unparsed(k)) + (IF InWork(k) THEN 1 ELSE 0)
    BY <1>2 DEF WInv, SelectedCounts
  <2>3. IsFiniteSet(Unparsed(k)) /\ Cardinality(Unparsed(k)) \in Nat
    BY ModulesFinite DEF WInv
  <2>4. ~InWork(k)
    BY DEF InWork
  <2>5. Cardinality(Unparsed(k)) = 0
    BY <2>1, <2>2, <2>3, <2>4
  <2> QED
    BY <2>3, <2>5, FS_EmptySet
<1>4. Elements(toRead) = {}
  <2>1. toRead = <<>>
    BY DEF WInv, ModuleInTurn, Verifying, Parsing, Asking
  <2> QED
    BY <2>1 DEF Elements
<1>5. Out(k) = {}
  <2> SUFFICES ASSUME NEW b \in Out(k) PROVE FALSE
    OBVIOUS
  <2>1. PICK m \in marked : m \in Left(k, b)
    BY <1>1, <1>2, OutIs
  <2>2. ~Parsed(m) /\ LibOf[m] = k
    BY <1>4, <2>1 DEF Left, ModulesIn
  <2> QED
    BY <1>3, <2>2 DEF Unparsed
<1>6. Pending(k) = {} /\ nextTr[k] = Len(reqArray[k])
  <2>1. Pending(k) = {}
    BY <1>1, <1>2, <1>5 DEF PendingRight
  <2>2. nextTr[k] \in Nat /\ Len(reqArray[k]) \in Nat /\ nextTr[k] <= Len(reqArray[k])
    BY <1>1, <1>2, ArrayIs DEF PendingRight
  <2>3. nextTr[k] < Len(reqArray[k]) => nextTr[k] + 1 \in Pending(k)
    BY <2>2 DEF Pending
  <2> QED
    BY <2>1, <2>2, <2>3
<1>7. libSem[t] = 0 /\ Unit(t) = 0
  <2>1. libSem[t] \in Nat /\ Unit(t) \in Nat /\ Owed(k) = 0 /\ Len(reqArray[k]) \in Nat
    BY <1>1, <1>2, ArrayIs DEF QTypes, Unit, Owed
  <2>2. libSem[t] + Unit(t) + Owed(k) <= Len(reqArray[k]) - nextTr[k]
    BY <1>1, <1>2 DEF UnitsRight
  <2> QED
    BY <1>6, <2>1, <2>2
<1>8. ASSUME NEW u \in Threads, HasLib(u) PROVE tlib[u] # k
  <2> SUFFICES ASSUME tlib[u] = k PROVE FALSE
    OBVIOUS
  <2>1. u = t
    BY <1>1, <1>8 DEF OwnLib
  <2>2. Chosen(u) => tblk[u] \in Out(k)
    BY <1>1 DEF TakenRight
  <2>3. ~Chosen(u) => Unit(u) = 1
    BY <1>8 DEF HasLib, Working, Chosen, Unit
  <2> QED
    BY <1>5, <1>7, <2>1, <2>2, <2>3
<1> QED
  BY <1>1, <1>2, <1>5, <1>6, <1>7, <1>8

LEMMA RemoveQInv ==
  ASSUME LInv, WInv, BInv, QInv, RemoveFromRequestList
  PROVE  QInv'
<1> SUFFICES ASSUME NEW k, k = cur, NEW t, t = lsThread[cur]
             PROVE  QInv'
  OBVIOUS
<1>1. ~libsDone /\ QTypes /\ Quiet /\ UnitsRight /\ OwnLib
  BY AtWork DEF QInv, RemoveFromRequestList
<1>2. /\ mpc = "remove" /\ mpc' = "top" /\ Release(Main)
      /\ UNCHANGED <<libsDone, tpc, tlib, tblk, tbuf, treg, rlib, readSem, mreg, requested>>
      /\ UNCHANGED <<nextTr, filePos, stop, libSem, reqArray>>
  BY DEF RemoveFromRequestList, MainGoto, threadVars, semVars
<1>3. /\ k \in Libs /\ k \in Listed /\ t \in Threads
      /\ Out(k) = {} /\ nextTr[k] = Len(reqArray[k])
      /\ libSem[t] = 0 /\ Unit(t) = 0
      /\ \A u \in Threads : HasLib(u) => tlib[u] # k
  BY <1>2, NothingOut
<1>4. Listed' = Listed \ {k} /\ lsThread' = [lsThread EXCEPT ![k] = NoThread]
  <2>1. cur # None /\ reqLibs # <<>>
    BY <1>2 DEF LInv, LMode, InTurn
  <2> QED
    BY <2>1, RemoveLists DEF LInv
<1>5. \A l \in Libs : l # k => lsThread'[l] = lsThread[l]
  BY <1>3, <1>4 DEF LInv, LTypes
<1>6. \A l \in Libs : Out(l)' = Out(l)
  BY SelectBInv
<1>7. \A u : Unit(u)' = Unit(u)
  BY <1>2 DEF Unit
<1>8. \A l : Owed(l)' = 0 /\ Owed(l) = 0
  BY <1>2 DEF Owed
<1>9. QTypes'
  <2>1. Order!SemTypeOK'
    BY <1>1, <1>2, OrderTypes DEF QTypes, Procs
  <2> QED
    BY <1>1, <1>2, <2>1 DEF QTypes
<1>10. NumberNew'
  BY <1>2 DEF NumberNew
<1>11. Quiet'
  BY <1>1, <1>2, <1>3, <1>4, <1>6 DEF Quiet
<1>12. UnitsRight'
  <2> SUFFICES ASSUME NEW u \in Threads
               PROVE  /\ (\A l \in Listed' : lsThread'[l] # u) => libSem[u] = 0 /\ Unit(u) = 0
                      /\ \A l \in Listed' : lsThread'[l] = u =>
                           libSem[u] + Unit(u) + 0 <= Len(reqArray[l]) - nextTr[l]
    BY <1>2, <1>7, <1>8 DEF UnitsRight
  <2>1. /\ (\A l \in Listed : lsThread[l] # u) => libSem[u] = 0 /\ Unit(u) = 0
        /\ \A l \in Listed : lsThread[l] = u =>
             libSem[u] + Unit(u) + 0 <= Len(reqArray[l]) - nextTr[l]
    BY <1>1, <1>8 DEF UnitsRight
  <2>2. \A l \in Listed' : l \in Listed /\ l # k /\ lsThread'[l] = lsThread[l]
    BY <1>4, <1>5, ListedLibs
  <2>3. ASSUME \A l \in Listed' : lsThread'[l] # u PROVE libSem[u] = 0 /\ Unit(u) = 0
    <3>1. CASE u = t
      BY <1>3, <3>1
    <3>2. CASE u # t
      <4>1. \A l \in Listed : lsThread[l] # u
        BY <1>4, <2>2, <2>3, <3>2
      <4> QED
        BY <2>1, <4>1
    <3> QED
      BY <3>1, <3>2
  <2> QED
    BY <2>1, <2>2, <2>3
<1>13. \A u \in Threads : HasLib(u) => lsThread'[tlib[u]] = lsThread[tlib[u]]
  BY <1>3, <1>5, HasLibIs
<1> QED
  BY <1>1, <1>2, <1>6, <1>9, <1>10, <1>11, <1>12, <1>13, MainQInv

(* At the end of the libraries no thread has anything to read. *)
LEMMA DoneQInv ==
  ASSUME LInv, WInv, BInv, QInv, LibrariesDone
  PROVE  QInv'
<1>1. /\ mpc' = "bump" /\ libsDone' = TRUE /\ reqLibs = <<>>
      /\ UNCHANGED <<threadVars, semVars, orderVars, mreg, stop>>
      /\ UNCHANGED <<requested, reqArray, nextTr, filePos, lsThread>>
  BY DEF LibrariesDone, MainGoto, libVars
<1>2. ~libsDone /\ QTypes /\ UnitsRight /\ OwnLib /\ EndInv
  BY AtWork DEF QInv, LibrariesDone
<1>3. Listed = {}
  BY <1>1 DEF Listed, Elements
<1>4. \A t \in Threads : ~HasLib(t) /\ tpc[t] # "scan"
  <2> SUFFICES ASSUME NEW t \in Threads PROVE ~HasLib(t) /\ tpc[t] # "scan"
    OBVIOUS
  <2>1. ~HasLib(t)
    BY <1>3, HasLibIs
  <2>2. Unit(t) = 0
    BY <1>2, <1>3 DEF UnitsRight
  <2> QED
    BY <2>1, <2>2 DEF Unit
<1>5. QTypes'
  <2>1. Order!SemTypeOK'
    BY <1>1, <1>2 DEF QTypes, Order!SemTypeOK, orderVars
  <2> QED
    BY <1>1, <1>2, <2>1 DEF QTypes, threadVars, semVars
<1>6. \A t : HasLib(t)' <=> HasLib(t)
  BY <1>1 DEF HasLib, Working, threadVars
<1>7. OwnLib' /\ EndInv'
  BY <1>1, <1>4, <1>6 DEF OwnLib, EndInv, Ending, threadVars
<1> QED
  BY <1>1, <1>5, <1>7 DEF QInv

(* After it nobody reads. *)
LEMMA EndQInv ==
  ASSUME LInv, QInv, Bump \/ CloseLibFiles \/ Join
  PROVE  QInv'
<1>1. /\ mpc \in {"bump", "close", "join"} /\ mpc' \in {"bump", "close", "join", "finished"}
      /\ UNCHANGED <<threadVars, readSem, mreg, libsDone>>
      /\ UNCHANGED <<requested, reqArray, nextTr, filePos, lsThread>>
      /\ libSem' = libSem \/ libSem' = [libSem EXCEPT ![stop] = @ + 1]
      /\ UNCHANGED orderVars \/ Release(Main)
      /\ stop' = stop \/ stop' = (stop + 1) % N_R_THREADS
  BY DEF Bump, CloseLibFiles, Join, MainGoto, GiveUnit, libVars, semVars
<1>2. QTypes /\ OwnLib /\ EndInv /\ libsDone
  BY <1>1 DEF QInv, EndInv, Ending
<1>3. stop \in Threads /\ stop' \in 0 .. N_R_THREADS - 1
  <2>1. stop \in 0 .. N_R_THREADS - 1
    BY <1>2 DEF QTypes
  <2> QED
    BY <1>1, <2>1, ThreadsAre, LibReadAssumption
<1>4. QTypes'
  <2>1. Order!SemTypeOK'
    <3>1. CASE UNCHANGED orderVars
      BY <1>2, <3>1 DEF QTypes, Order!SemTypeOK, orderVars
    <3>2. CASE Release(Main)
      BY <1>2, <3>2, OrderTypes DEF QTypes, Procs
    <3> QED
      BY <1>1, <3>1, <3>2
  <2>2. libSem' \in [Threads -> Nat]
    BY <1>1, <1>2, <1>3 DEF QTypes
  <2> QED
    BY <1>1, <1>2, <1>3, <2>1, <2>2 DEF QTypes, threadVars
<1>5. \A t : HasLib(t)' <=> HasLib(t)
  BY <1>1 DEF HasLib, Working, threadVars
<1>6. OwnLib' /\ EndInv'
  BY <1>1, <1>2, <1>5 DEF OwnLib, EndInv, Ending, threadVars
<1> QED
  BY <1>1, <1>2, <1>4, <1>6 DEF QInv

LEMMA InitQInv == Init => QInv
<1> SUFFICES ASSUME Init PROVE QInv
  OBVIOUS
<1> USE DEF Init
<1>1. \A t \in Threads : tpc[t] = "unborn"
  OBVIOUS
<1>2. QTypes
  <2>1. Order!SemTypeOK
    BY DEF Order!SemTypeOK, Order!InitSem, Order!Locations
  <2>2. 0 \in 0 .. N_R_THREADS - 1
    BY LibReadAssumption
  <2>3. requested \in [Libs -> Int] /\ nextTr \in [Libs -> Nat] /\ filePos \in [Libs -> Int]
    OBVIOUS
  <2>4. reqArray \in [Libs -> Seq(AllBlocks)]
    <3>1. <<>> \in Seq(AllBlocks)
      OBVIOUS
    <3>2. reqArray = [l \in Libs |-> <<>>]
      OBVIOUS
    <3> HIDE DEF Init
    <3> QED
      BY <3>1, <3>2
  <2>5. libSem \in [Threads -> Nat] /\ readSem \in [Threads -> Nat] /\ treg \in [Threads -> Int]
    OBVIOUS
  <2>6. tpc \in [Threads -> ThreadPlaces]
    BY DEF ThreadPlaces
  <2>7. tlib \in [Threads -> Libs \union {None}]
    OBVIOUS
  <2>8. tblk \in [Threads -> Int] /\ tbuf \in [Threads -> Nat]
    BY DEF NoBlock
  <2>9. mreg \in Int
    OBVIOUS
  <2>11. libsDone \in BOOLEAN
    <3>1. libsDone = FALSE
      OBVIOUS
    <3> HIDE DEF Init
    <3> QED
      BY <3>1
  <2> HIDE DEF Init
  <2>10. stop \in 0 .. N_R_THREADS - 1
    BY <2>2 DEF Init
  <2> QED
    BY <2>1, <2>3, <2>4, <2>5, <2>6, <2>7, <2>8, <2>9, <2>10, <2>11 DEF QTypes
<1>3. \A t \in Threads : ~HasLib(t) /\ ~Chosen(t) /\ Unit(t) = 0 /\ libSem[t] = 0
  BY <1>1 DEF HasLib, Working, Chosen, Unit
<1>4. OwnLib /\ EndInv
  BY <1>1, <1>3 DEF OwnLib, EndInv, Ending
<1>5. Listed = {} /\ \A l \in Libs : Pending(l) = {} /\ Out(l) = {}
  BY DEF Listed, Elements, Pending, Out
<1>6. PendingRight /\ TakenRight /\ NumberNew /\ Quiet /\ UnitsRight
  BY <1>3, <1>5 DEF PendingRight, TakenRight, NumberNew, Quiet, UnitsRight
<1> QED
  BY <1>2, <1>4, <1>6 DEF QInv

LEMMA StepQInv ==
  ASSUME LInv, LInv', WInv, BInv, QInv, OneDefiner, OneDefiner', OwnThread, OwnThread', ListedEmpty,
         [Next]_vars
  PROVE  QInv'
<1>1. CASE UNCHANGED vars
  <2>1. \A l : Out(l)' = Out(l)
    BY <1>1 DEF vars, libVars, Out
  <2>2. Order!SemTypeOK'
    BY <1>1 DEF vars, orderVars, QInv, QTypes, Order!SemTypeOK
  <2> QED
    BY <1>1, <2>1, <2>2, StillQInv DEF vars, libVars, mainVars, listVars, bookVars, blockVars
<1>2. ASSUME NEW t \in Threads, LibReadT(t) PROVE QInv'
  BY <1>2, ThreadsQInv
<1>3. CASE Capture(Main) \/ ReleasePost(Main)
  <2>0. Main \in Procs
    BY DEF Procs
  <2>1. UNCHANGED <<libVars, trList, threadVars, semVars, mainVars>>
    BY <1>3, <2>0, CaptureFrame
  <2>2. \A l : Out(l)' = Out(l)
    BY <2>1 DEF libVars, Out
  <2>3. Order!SemTypeOK'
    BY <1>3, <2>0, OrderTypes DEF QInv, QTypes
  <2> QED
    BY <2>1, <2>2, <2>3, StillQInv DEF libVars, mainVars, listVars, bookVars, blockVars
<1> QED
  BY <1>1, <1>2, <1>3, MainSteps, QuietQInv, RequestQInv, StoreNumberQInv, BumpLibQInv, AddQInv,
     RemoveQInv, DoneQInv, EndQInv DEF Next


------------------------------------------------------------------------------
(* The counts, with one processor.                                         *)

LEMMA InitCInv == Init => CInv
<1> SUFFICES ASSUME Init PROVE CInv
  OBVIOUS
<1>1. /\ mpc = "top" /\ \A t \in Threads : tpc[t] = "unborn"
      /\ \A l \in Libs : requested[l] = 0 /\ reqArray[l] = <<>> /\ nextTr[l] = 0
      /\ Listed = {} /\ \A l \in Libs : Out(l) = {}
  BY DEF Init, Listed, Elements, Out
<1>2. OneInstruction /\ UnitsAre /\ NoneLost
  BY <1>1 DEF OneInstruction, UnitsAre, NoneLost
<1>3. \A l \in Libs : Reads(l) = 0 /\ Storing(l) = 0
  BY <1>1 DEF Reads, ReadingFor, Storing
<1>4. RequestedIs
  BY <1>1, <1>3 DEF RequestedIs
<1> QED
  BY <1>2, <1>4 DEF CInv

(* A library that comes to the request list has nothing outstanding. *)
LEMMA NoneOutAtAdd ==
  ASSUME LInv, QInv, CInv
  PROVE  ListedEmpty
<1> SUFFICES ASSUME mpc = "add", NEW r, r = rlib PROVE requested[r] = 0
  BY DEF ListedEmpty
<1>1. r \in Libs /\ r \notin Listed
  BY DEF LInv, LMode, Asking
<1>2. ~libsDone /\ QTypes /\ Quiet
  BY AtWork DEF QInv
<1>3. nextTr[r] = Len(reqArray[r]) /\ nextTr[r] \in Nat
  BY <1>1, <1>2, ArrayIs DEF Quiet
<1>4. Storing(r) = 0
  BY DEF Storing
<1>5. ReadingFor(r) = {}
  <2> SUFFICES ASSUME NEW t \in Threads, tlib[t] = r, tpc[t] \in {"seek", "read", "count"} PROVE FALSE
    BY DEF ReadingFor
  <2>1. HasLib(t)
    BY DEF HasLib, Working
  <2> QED
    BY <1>1, <2>1, HasLibIs
<1>6. requested[r] = Len(reqArray[r]) - nextTr[r] + Reads(r) + Storing(r)
  BY <1>1, <1>2 DEF CInv, RequestedIs
<1> QED
  BY <1>3, <1>4, <1>5, <1>6 DEF Reads

LEMMA OwnerIs == ASSUME LInv, NEW l \in Listed PROVE l \in Libs /\ lsThread[l] \in Threads
<1>1. l \in Libs
  BY ListedLibs
<1> QED
  BY <1>1 DEF LInv, LTypes, ListsAgree, Listed

(* Main does not count, and gives no unit. *)
LEMMA PlainCInv ==
  ASSUME LInv, CInv, ~libsDone, QTypes, UNCHANGED <<requested, reqArray, nextTr, libSem, tlib, tblk>>,
         \A t \in Threads : tpc'[t] = tpc[t] \/ (tpc[t] = "unborn" /\ tpc'[t] = "wait"),
         Listed' \subseteq Listed, \A l \in Listed' : lsThread'[l] = lsThread[l],
         mpc \notin {"number", "bumplib"}, mpc' \notin {"countwrite", "number", "bumplib"},
         \A l \in Libs : Out(l)' = Out(l)
  PROVE  CInv'
<1>1. OneInstruction /\ RequestedIs /\ UnitsAre /\ NoneLost
  BY DEF CInv
<1>2. OneInstruction'
  BY <1>1 DEF OneInstruction
<1>3. \A l : /\ Reads(l)' = Reads(l) /\ Storing(l)' = Storing(l) /\ Owed(l)' = Owed(l)
             /\ Pending(l)' = Pending(l)
  <2>1. \A l : ReadingFor(l)' = ReadingFor(l)
    BY DEF ReadingFor
  <2> QED
    BY <2>1 DEF Reads, Storing, Owed, Pending
<1>4. RequestedIs'
  BY <1>1, <1>3 DEF RequestedIs
<1>5. UnitsAre'
  <2> SUFFICES ASSUME NEW l \in Listed', NEW t, t = lsThread'[l]
               PROVE  libSem[t] + Unit(t)' + Owed(l) = Len(reqArray[l]) - nextTr[l]
    BY <1>3 DEF UnitsAre
  <2>1. l \in Listed /\ t = lsThread[l] /\ t \in Threads
    <3>1. l \in Listed /\ t = lsThread[l]
      OBVIOUS
    <3> QED
      BY <3>1, OwnerIs
  <2>2. Unit(t)' = Unit(t)
    BY <2>1 DEF Unit
  <2> QED
    BY <1>1, <2>1, <2>2 DEF UnitsAre
<1>6. NoneLost'
  <2>1. \A t \in Threads : Chosen(t)' <=> Chosen(t)
    BY DEF Chosen
  <2> QED
    BY <1>1, <1>3, <2>1 DEF NoneLost
<1> QED
  BY <1>2, <1>4, <1>5, <1>6 DEF CInv

(* A thread that keeps what it has. *)
LEMMA ReadingStays ==
  ASSUME QTypes, NEW t \in Threads, NEW place, tpc' = [tpc EXCEPT ![t] = place],
         tpc[t] \in {"seek", "read", "count"} <=> place \in {"seek", "read", "count"},
         place \in {"seek", "read", "count"} => tlib'[t] = tlib[t],
         \A u \in Threads \ {t} : tlib'[u] = tlib[u]
  PROVE  \A l : Reads(l)' = Reads(l)
<1>1. tpc'[t] = place /\ \A u \in Threads \ {t} : tpc'[u] = tpc[u]
  BY DEF QTypes
<1>2. \A l : ReadingFor(l)' = ReadingFor(l)
  BY <1>1 DEF ReadingFor
<1> QED
  BY <1>2 DEF Reads

LEMMA LostStays ==
  ASSUME CInv, ~libsDone, UNCHANGED <<reqArray, nextTr, mpc, rlib, toRequest>>,
         \A l \in Libs : Out(l)' = Out(l),
         \A u \in Threads : Chosen(u) => Chosen(u)' /\ tlib'[u] = tlib[u] /\ tblk'[u] = tblk[u]
  PROVE  NoneLost'
<1>1. NoneLost /\ \A l : Pending(l)' = Pending(l)
  BY DEF CInv, Pending
<1> QED
  BY <1>1 DEF NoneLost

(* What a step of t has to keep: the count against the numbers and what is *)
(* being read, and the units of t against the numbers of its library.      *)
CountKept ==
  \A l \in Libs : requested'[l] + nextTr'[l] - Reads(l)' = requested[l] + nextTr[l] - Reads(l)
UnitsKept(t) ==
  \A l \in Listed :
    IF lsThread[l] = t
      THEN libSem'[t] + Unit(t)' + nextTr'[l] = libSem[t] + Unit(t) + nextTr[l]
      ELSE nextTr'[l] = nextTr[l]

LEMMA RequestedFollows ==
  ASSUME RequestedIs, CountKept, QTypes, QTypes', UNCHANGED reqArray,
         \A l \in Libs : Storing(l)' = Storing(l)
  PROVE  RequestedIs'
<1> SUFFICES ASSUME NEW l \in Libs
             PROVE  requested'[l] = Len(reqArray[l]) - nextTr'[l] + Reads(l)' + Storing(l)
  BY DEF RequestedIs
<1>1. requested[l] = Len(reqArray[l]) - nextTr[l] + Reads(l) + Storing(l)
  BY DEF RequestedIs
<1>2. requested'[l] + nextTr'[l] - Reads(l)' = requested[l] + nextTr[l] - Reads(l)
  BY DEF CountKept
<1>3. /\ requested[l] \in Int /\ requested'[l] \in Int /\ nextTr[l] \in Nat /\ nextTr'[l] \in Nat
  BY DEF QTypes
<1>4. Len(reqArray[l]) \in Nat
  BY ArrayIs
<1>5. Reads(l) \in Nat /\ Reads(l)' \in Nat /\ Storing(l) \in Nat
  BY DEF Reads, Storing
<1>6. PICK a \in Int, b \in Int, c \in Int, d \in Int :
        a = requested[l] /\ b = requested'[l] /\ c = nextTr[l] /\ d = nextTr'[l]
  BY <1>3
<1>7. PICK e \in Int, f \in Int, g \in Int, h \in Int :
        e = Len(reqArray[l]) /\ f = Reads(l) /\ g = Reads(l)' /\ h = Storing(l)
  BY <1>4, <1>5
<1>8. a = e - c + f + h
  BY <1>1, <1>6, <1>7
<1>9. b + d - g = a + c - f
  BY <1>2, <1>6, <1>7
<1>10. b = e - d + g + h
  BY <1>8, <1>9
<1> QED
  BY <1>10, <1>6, <1>7

LEMMA UnitsFollow ==
  ASSUME LInv, UnitsAre, NEW t \in Threads, UnitsKept(t), QTypes, QTypes',
         UNCHANGED <<reqArray, lsThread>>, Listed' = Listed, \A l : Owed(l)' = Owed(l),
         \A u \in Threads \ {t} : libSem'[u] = libSem[u] /\ Unit(u)' = Unit(u)
  PROVE  UnitsAre'
<1> SUFFICES ASSUME NEW l \in Listed, NEW u, u = lsThread[l], NEW e, e = Len(reqArray[l])
             PROVE  libSem'[u] + Unit(u)' + Owed(l) = e - nextTr'[l]
  BY DEF UnitsAre
<1>1. l \in Libs /\ u \in Threads
  BY OwnerIs
<1>2. libSem[u] + Unit(u) + Owed(l) = e - nextTr[l]
  BY DEF UnitsAre
<1>3. libSem[u] \in Nat /\ libSem'[u] \in Nat /\ nextTr[l] \in Nat /\ nextTr'[l] \in Nat
  BY <1>1 DEF QTypes
<1>4. e \in Nat /\ Owed(l) \in {0, 1}
  BY <1>1, ArrayIs
<1>5. Unit(u) \in Nat /\ Unit(u)' \in Nat
  BY DEF Unit
<1>6. CASE u = t
  <2>1. libSem'[u] + Unit(u)' + nextTr'[l] = libSem[u] + Unit(u) + nextTr[l]
    BY <1>6 DEF UnitsKept
  <2>2. PICK a \in Int, b \in Int, c \in Int, d \in Int :
          a = libSem[u] /\ b = libSem'[u] /\ c = nextTr[l] /\ d = nextTr'[l]
    BY <1>3
  <2>3. PICK f \in Int, g \in Int, h \in Int : f = Unit(u) /\ g = Unit(u)' /\ h = Owed(l)
    BY <1>4, <1>5
  <2>4. a + f + h = e - c
    BY <1>2, <2>2, <2>3
  <2>5. b + g + d = a + f + c
    BY <2>1, <2>2, <2>3
  <2>6. b + g + h = e - d
    BY <1>4, <2>4, <2>5
  <2> QED
    BY <2>2, <2>3, <2>6
<1>7. CASE u # t
  <2>1. nextTr'[l] = nextTr[l]
    BY <1>7 DEF UnitsKept
  <2>2. libSem'[u] = libSem[u] /\ Unit(u)' = Unit(u)
    BY <1>1, <1>7
  <2> QED
    BY <1>2, <2>1, <2>2
<1> QED
  BY <1>6, <1>7

(* CInv, for a step of t. *)
LEMMA ThreadCInv ==
  ASSUME LInv, CInv, ~libsDone, QTypes, QTypes', NEW t \in Threads, NEW place,
         UNCHANGED <<listVars, bookVars, blockVars, mpc>>,
         tpc' = [tpc EXCEPT ![t] = place],
         place # "countwrite" /\ (place = "scanned" => tlib'[t] # None),
         \A u \in Threads \ {t} : tlib'[u] = tlib[u] /\ libSem'[u] = libSem[u],
         CountKept, UnitsKept(t), NoneLost'
  PROVE  CInv'
<1>1. OneInstruction /\ RequestedIs /\ UnitsAre
  BY DEF CInv
<1>2. tpc'[t] = place /\ \A u \in Threads \ {t} : tpc'[u] = tpc[u]
  BY DEF QTypes
<1>3. UNCHANGED <<lsThread, reqLibs, reqArray, rlib, libsDone, mpc>> /\ Listed' = Listed
  BY DEF listVars, blockVars, Listed
<1>4. OneInstruction'
  BY <1>1, <1>2, <1>3 DEF OneInstruction
<1>5. RequestedIs'
  BY <1>1, <1>3, RequestedFollows DEF Storing
<1>6. UnitsAre'
  <2>1. \A u \in Threads \ {t} : libSem'[u] = libSem[u] /\ Unit(u)' = Unit(u)
    BY <1>2 DEF Unit
  <2>2. \A l : Owed(l)' = Owed(l)
    BY <1>3 DEF Owed
  <2> QED
    BY <1>1, <1>3, <2>1, <2>2, UnitsFollow
<1> QED
  BY <1>3, <1>4, <1>5, <1>6 DEF CInv

(* ... that neither takes a number nor counts nor stores. *)
LEMMA LittleCInv ==
  ASSUME LInv, CInv, ~libsDone, QTypes, QTypes', NEW t \in Threads, NEW place,
         UNCHANGED <<listVars, bookVars, blockVars, mpc, requested, nextTr, tblk>>,
         tpc' = [tpc EXCEPT ![t] = place],
         place # "countwrite" /\ (place = "scanned" => tlib'[t] # None),
         \A u \in Threads \ {t} : tlib'[u] = tlib[u] /\ libSem'[u] = libSem[u],
         tpc[t] \in {"seek", "read", "count"} <=> place \in {"seek", "read", "count"},
         Chosen(t) \/ place \in {"seek", "read", "count"} =>
           place \in {"seek", "read", "count", "store"} /\ tlib'[t] = tlib[t],
         libSem'[t] + Unit(t)' = libSem[t] + Unit(t),
         \A l \in Libs : Out(l)' = Out(l)
  PROVE  CInv'
<1>1. \A l : Reads(l)' = Reads(l)
  BY ReadingStays
<1>2. CountKept
  BY <1>1 DEF CountKept
<1>3. UnitsKept(t)
  <2> SUFFICES ASSUME NEW l \in Listed
               PROVE  libSem'[t] + Unit(t)' + nextTr[l] = libSem[t] + Unit(t) + nextTr[l]
    BY DEF UnitsKept
  <2> QED
    OBVIOUS
<1>4. tpc'[t] = place /\ \A u \in Threads \ {t} : tpc'[u] = tpc[u]
  BY DEF QTypes
<1>5. NoneLost'
  <2>1. \A u \in Threads : Chosen(u) => Chosen(u)' /\ tlib'[u] = tlib[u] /\ tblk'[u] = tblk[u]
    BY <1>4 DEF Chosen
  <2> QED
    BY <2>1, LostStays DEF listVars, bookVars, blockVars
<1> QED
  BY <1>2, <1>3, <1>5, ThreadCInv

LEMMA TakeUnitCInv ==
  ASSUME LInv, QInv, CInv, QTypes', ~libsDone, NEW t \in Threads, TakeUnit(t),
         UNCHANGED <<listVars, bookVars, blockVars, mpc>>, \A l : Out(l)' = Out(l)
  PROVE  CInv'
<1>1. /\ tpc[t] = "wait" /\ libSem[t] > 0 /\ libSem' = [libSem EXCEPT ![t] = @ - 1]
      /\ tpc' = [tpc EXCEPT ![t] = "scan"]
      /\ UNCHANGED <<requested, nextTr, tlib, tblk>>
  BY DEF TakeUnit, At, Goto, libVars
<1>2. QTypes
  BY DEF QInv
<1>3. /\ tpc'[t] = "scan" /\ libSem'[t] = libSem[t] - 1 /\ libSem[t] \in Nat
      /\ \A u \in Threads \ {t} : libSem'[u] = libSem[u]
  BY <1>1, <1>2 DEF QTypes
<1>4. libSem'[t] + Unit(t)' = libSem[t] + Unit(t)
  <2>1. Unit(t) = 0 /\ Unit(t)' = 1
    BY <1>1, <1>3 DEF Unit
  <2> QED
    BY <1>3, <2>1
<1> QED
  BY <1>1, <1>2, <1>3, <1>4, LittleCInv DEF Chosen

(* A thread that has a unit has a library for it. *)
LEMMA FindsLib ==
  ASSUME LInv, QInv, CInv, NEW t \in Threads, tpc[t] = "scan"
  PROVE  ~libsDone /\ RequestingLib(t) # None
<1>1. ~libsDone /\ QTypes /\ PendingRight /\ UnitsRight /\ UnitsAre /\ RequestedIs
  BY DEF QInv, EndInv, CInv
<1>2. Unit(t) = 1
  BY DEF Unit
<1>3. PICK l \in Listed : lsThread[l] = t
  BY <1>1, <1>2 DEF UnitsRight
<1>4. l \in Libs
  BY ListedLibs
<1>5. requested[l] # 0
  <2>1. libSem[t] + 1 + Owed(l) = Len(reqArray[l]) - nextTr[l]
    BY <1>1, <1>2, <1>3 DEF UnitsAre
  <2>2. requested[l] = Len(reqArray[l]) - nextTr[l] + Reads(l) + Storing(l)
    BY <1>1, <1>4 DEF RequestedIs
  <2>3. libSem[t] \in Nat /\ Owed(l) \in {0, 1} /\ Len(reqArray[l]) \in Nat /\ nextTr[l] \in Nat
    BY <1>1, <1>4, ArrayIs DEF QTypes
  <2>4. Reads(l) \in {0, 1} /\ Storing(l) \in {0, 1}
    BY DEF Reads, Storing
  <2>5. PICK n \in Int, e \in Int : n = nextTr[l] /\ e = Len(reqArray[l])
    BY <2>3
  <2>6. PICK a \in Nat, b \in Nat, f \in Nat, g \in Nat :
          a = libSem[t] /\ b = Owed(l) /\ f = Reads(l) /\ g = Storing(l)
    BY <2>3, <2>4
  <2>7. a + 1 + b = e - n
    BY <2>1, <2>5, <2>6
  <2>8. e - n + f + g # 0
    BY <2>7
  <2> QED
    BY <2>2, <2>5, <2>6, <2>8
<1>6. reqLibs \in Seq(Libs) /\ trList[t] = Without(reqLibs, {k \in Libs : lsThread[k] # t})
      /\ trList[t] \in Seq(Libs)
  BY DEF LInv, LTypes, ListsAgree
<1>7. l \in Elements(trList[t])
  <2>1. Elements(trList[t]) = Elements(reqLibs) \ {k \in Libs : lsThread[k] # t}
    BY <1>6, WithoutKeeps
  <2> QED
    BY <1>3, <2>1 DEF Listed
<1> DEFINE busy == {i \in DOMAIN trList[t] : requested[trList[t][i]] # 0}
           first == CHOOSE i \in busy : \A j \in busy : i <= j
<1>8. busy # {}
  BY <1>5, <1>7 DEF Elements
<1>9. busy \subseteq Nat
  BY <1>6
<1>10. first \in busy
  <2>1. \E i \in busy : \A j \in busy : i <= j
    <3> HIDE DEF busy
    <3> QED
      BY <1>8, <1>9, LeastNumber
  <2> QED
    BY <2>1
<1>11. RequestingLib(t) = trList[t][first]
  BY <1>8 DEF RequestingLib
<1>12. None \notin Libs
  BY LibReadAssumption
<1> QED
  BY <1>1, <1>6, <1>10, <1>11, <1>12

LEMMA ScanCInv ==
  ASSUME LInv, QInv, CInv, QTypes', NEW t \in Threads, Scan(t),
         UNCHANGED <<listVars, bookVars, blockVars, mpc>>, \A l : Out(l)' = Out(l)
  PROVE  CInv'
<1>1. /\ tpc[t] = "scan" /\ tlib' = [tlib EXCEPT ![t] = RequestingLib(t)]
      /\ tpc' = [tpc EXCEPT ![t] = "scanned"] /\ UNCHANGED <<requested, nextTr, tblk, libSem>>
  BY DEF Scan, At, Goto, libVars, semVars
<1>2. QTypes /\ ~libsDone /\ RequestingLib(t) # None
  BY <1>1, FindsLib DEF QInv
<1>3. /\ tpc'[t] = "scanned" /\ tlib'[t] = RequestingLib(t) /\ libSem[t] \in Nat
      /\ \A u \in Threads \ {t} : tlib'[u] = tlib[u]
  BY <1>1, <1>2 DEF QTypes
<1>4. libSem'[t] + Unit(t)' = libSem[t] + Unit(t)
  <2>1. Unit(t) = 1 /\ Unit(t)' = 1
    BY <1>1, <1>2, <1>3 DEF Unit
  <2> QED
    BY <1>1, <2>1
<1> QED
  BY <1>1, <1>2, <1>3, <1>4, LittleCInv DEF Chosen

LEMMA OtherCInv ==
  ASSUME LInv, WInv, BInv, QInv, CInv, QTypes', ~libsDone, NEW t \in Threads,
         Scanned(t) \/ Seek(t) \/ Read(t) \/ Signal(t),
         UNCHANGED <<listVars, bookVars, blockVars, mpc>>, \A l : Out(l)' = Out(l)
  PROVE  CInv'
<1>1. QTypes /\ OneInstruction
  BY DEF QInv, CInv
<1>2. /\ UNCHANGED <<requested, nextTr, tblk, tlib, libSem>>
      /\ \/ tpc[t] = "scanned" /\ tpc' = [tpc EXCEPT ![t] = "pick"] /\ tlib[t] # None
         \/ tpc[t] = "seek" /\ tpc' = [tpc EXCEPT ![t] = "read"]
         \/ tpc[t] = "read" /\ tpc' = [tpc EXCEPT ![t] = "count"]
         \/ tpc[t] = "signal" /\ tpc' = [tpc EXCEPT ![t] = "wait"]
  <2>1. CASE Scanned(t)
    <3>1. tlib[t] # None
      BY <1>1, <2>1 DEF Scanned, At, OneInstruction
    <3> QED
      BY <2>1, <3>1 DEF Scanned, At, Goto, libVars, semVars
  <2>2. CASE Seek(t)
    BY <2>2, NoFail DEF LibReadT, Seek, At
  <2>3. CASE Read(t)
    BY <2>3, NoFail DEF LibReadT, Read, At
  <2>4. CASE Signal(t)
    BY <2>4 DEF Signal, At, Goto, libVars
  <2> QED
    BY <2>1, <2>2, <2>3, <2>4
<1>3. PICK place \in {"pick", "read", "count", "wait"} :
        /\ tpc' = [tpc EXCEPT ![t] = place]
        /\ tpc[t] \in {"seek", "read", "count"} <=> place \in {"seek", "read", "count"}
        /\ Chosen(t) => place \in {"seek", "read", "count"}
        /\ IF place = "pick" THEN tpc[t] = "scanned" /\ tlib[t] # None
                             ELSE tpc[t] \in {"seek", "read", "signal"}
  BY <1>2 DEF Chosen
<1>4. tpc'[t] = place
  BY <1>1, <1>3 DEF QTypes
<1>5. Unit(t)' = Unit(t)
  BY <1>2, <1>3, <1>4 DEF Unit
<1>6. libSem'[t] + Unit(t)' = libSem[t] + Unit(t)
  BY <1>2, <1>5
<1> QED
  BY <1>1, <1>2, <1>3, <1>6, LittleCInv

(* A thread takes a number: no longer in the array, and being read. *)
LEMMA PickCInv ==
  ASSUME LInv, WInv, BInv, QInv, CInv, QTypes', OwnThread, NEW t \in Threads, Pick(t),
         UNCHANGED <<listVars, bookVars, blockVars, mpc>>, \A l : Out(l)' = Out(l)
  PROVE  CInv'
<1> SUFFICES ASSUME NEW k, k = tlib[t], NEW n, n = nextTr[k] + 1, NEW c, c = reqArray[k][n]
             PROVE  CInv'
  OBVIOUS
<1>1. /\ tpc[t] = "pick" /\ tblk' = [tblk EXCEPT ![t] = c]
      /\ nextTr' = [nextTr EXCEPT ![k] = @ + 1] /\ tpc' = [tpc EXCEPT ![t] = "seek"]
      /\ UNCHANGED <<requested, tlib, libSem>>
  BY NoFail DEF LibReadT, Pick, At
<1>2. HasLib(t) /\ k \in Libs /\ nextTr[k] \in Nat /\ n \in Pending(k)
  BY <1>1, AtPick
<1>3. /\ ~libsDone /\ lsThread[k] = t /\ k \in Listed
      /\ \A u \in Threads : HasLib(u) /\ tlib[u] = k => u = t
  BY <1>2, HasLibIs
<1>4. QTypes /\ NoneLost /\ OwnLib
  BY <1>3 DEF QInv, CInv
<1>5. /\ tpc'[t] = "seek" /\ tblk'[t] = c
      /\ \A u \in Threads \ {t} : tpc'[u] = tpc[u] /\ tblk'[u] = tblk[u]
      /\ nextTr'[k] = n
      /\ \A l \in Libs : l # k => nextTr'[l] = nextTr[l]
  BY <1>1, <1>2, <1>4 DEF QTypes
<1>6. UNCHANGED <<lsThread, reqArray, toRequest, rlib, mpc>>
  BY DEF listVars, bookVars, blockVars
<1>7. CountKept
  <2>1. Reads(k) = 0
    <3>1. ReadingFor(k) = {}
      <4> SUFFICES ASSUME NEW u \in Threads, tlib[u] = k, tpc[u] \in {"seek", "read", "count"}
                   PROVE  FALSE
        BY DEF ReadingFor
      <4>1. HasLib(u)
        BY DEF HasLib, Working
      <4> QED
        BY <1>1, <1>3, <4>1
    <3> QED
      BY <3>1 DEF Reads
  <2>2. Reads(k)' = 1
    <3>1. t \in ReadingFor(k)'
      BY <1>1, <1>5 DEF ReadingFor
    <3> QED
      BY <3>1 DEF Reads
  <2>3. \A l \in Libs : l # k => Reads(l)' = Reads(l)
    <3>1. \A l \in Libs : l # k => ReadingFor(l)' = ReadingFor(l)
      BY <1>1, <1>5 DEF ReadingFor
    <3> QED
      BY <3>1 DEF Reads
  <2> SUFFICES ASSUME NEW l \in Libs
               PROVE  requested[l] + nextTr'[l] - Reads(l)' = requested[l] + nextTr[l] - Reads(l)
    BY <1>1 DEF CountKept
  <2>4. CASE l # k
    BY <1>5, <2>3, <2>4
  <2>5. CASE l = k
    <3>1. requested[l] \in Int /\ nextTr[l] \in Int
      BY <1>4 DEF QTypes
    <3>2. \A a, b \in Int : a + (b + 1) - 1 = a + b - 0
      OBVIOUS
    <3>3. nextTr'[l] = nextTr[l] + 1 /\ Reads(l)' = 1 /\ Reads(l) = 0
      BY <1>5, <2>1, <2>2, <2>5
    <3> QED
      BY <3>1, <3>2, <3>3
  <2> QED
    BY <2>4, <2>5
<1>8. UnitsKept(t)
  <2>1. Unit(t) = 1 /\ Unit(t)' = 0
    BY <1>1, <1>5 DEF Unit
  <2> SUFFICES ASSUME NEW l \in Listed
               PROVE  IF lsThread[l] = t
                        THEN libSem[t] + Unit(t)' + nextTr'[l] = libSem[t] + Unit(t) + nextTr[l]
                        ELSE nextTr'[l] = nextTr[l]
    BY <1>1 DEF UnitsKept
  <2>2. CASE l = k
    <3>1. libSem[t] \in Int /\ nextTr[l] \in Int
      BY <1>4, <1>2, <2>2 DEF QTypes
    <3>2. \A a, b \in Int : a + 0 + (b + 1) = a + 1 + b
      OBVIOUS
    <3>3. nextTr'[l] = nextTr[l] + 1
      BY <1>5, <2>2
    <3> QED
      BY <1>3, <2>1, <2>2, <3>1, <3>2, <3>3
  <2>3. CASE l # k
    <3>1. lsThread[l] # t
      BY <1>3, <2>3 DEF OwnThread
    <3> QED
      BY <1>5, <2>3, <3>1, ListedLibs
  <2> QED
    BY <2>2, <2>3
<1>9. NoneLost'
  <2> SUFFICES ASSUME NEW l \in Libs, NEW b \in Out(l)
               PROVE  \/ \E i \in Pending(l)' : reqArray[l][i] = b
                      \/ \E u \in Threads : Chosen(u)' /\ tlib[u] = l /\ tblk'[u] = b
                      \/ mpc = "number" /\ rlib = l /\ Head(toRequest) = b
    BY <1>1, <1>6 DEF NoneLost
  <2>1. CASE \E i \in Pending(l) : reqArray[l][i] = b
    <3>1. PICK i \in Pending(l) : reqArray[l][i] = b
      BY <2>1
    <3>2. CASE l = k /\ i = n
      <4>1. Chosen(t)' /\ tlib[t] = l /\ tblk'[t] = b
        BY <1>5, <3>1, <3>2 DEF Chosen
      <4> QED
        BY <4>1
    <3>3. CASE l # k
      <4>1. Pending(l)' = Pending(l)
        BY <1>5, <1>6, <3>3 DEF Pending
      <4> QED
        BY <3>1, <4>1
    <3>4. CASE l = k /\ i # n
      <4>1. i \in n .. Len(reqArray[k]) /\ n \in Nat /\ Len(reqArray[k]) \in Nat
        BY <1>2, <1>4, <3>4, ArrayIs DEF Pending
      <4>2. i \in n + 1 .. Len(reqArray[k])
        BY <3>4, <4>1
      <4>3. Pending(k)' = n + 1 .. Len(reqArray[k])
        BY <1>5, <1>6 DEF Pending
      <4> QED
        BY <3>1, <3>4, <4>2, <4>3
    <3> QED
      BY <3>2, <3>3, <3>4
  <2>2. CASE \E u \in Threads : Chosen(u) /\ tlib[u] = l /\ tblk[u] = b
    <3>1. PICK u \in Threads : Chosen(u) /\ tlib[u] = l /\ tblk[u] = b
      BY <2>2
    <3>2. u # t
      BY <1>1, <3>1 DEF Chosen
    <3>3. Chosen(u)' /\ tblk'[u] = b
      BY <1>5, <3>1, <3>2 DEF Chosen
    <3> QED
      BY <3>1, <3>3
  <2> QED
    BY <1>4, <2>1, <2>2 DEF NoneLost
<1> QED
  BY <1>1, <1>3, <1>4, <1>7, <1>8, <1>9, ThreadCInv

LEMMA UncountCInv ==
  ASSUME LInv, WInv, BInv, QInv, CInv, QTypes', SMP = FALSE, NEW t \in Threads, Uncount(t),
         UNCHANGED <<listVars, bookVars, blockVars, mpc>>, \A l : Out(l)' = Out(l)
  PROVE  CInv'
<1> SUFFICES ASSUME NEW k, k = tlib[t]
             PROVE  CInv'
  OBVIOUS
<1>1. /\ tpc[t] = "count" /\ requested' = [requested EXCEPT ![k] = @ - 1]
      /\ tpc' = [tpc EXCEPT ![t] = "store"] /\ UNCHANGED <<nextTr, tlib, tblk, libSem>>
  BY DEF Uncount, At, Goto, semVars
<1>2. HasLib(t) /\ Chosen(t)
  BY <1>1 DEF HasLib, Working, Chosen
<1>3. /\ ~libsDone /\ k \in Libs
      /\ \A u \in Threads : HasLib(u) /\ tlib[u] = k => u = t
  BY <1>2, HasLibIs
<1>4. QTypes
  BY DEF QInv
<1>5. tpc'[t] = "store" /\ \A u \in Threads \ {t} : tpc'[u] = tpc[u]
  BY <1>1, <1>4 DEF QTypes
<1>6. CountKept
  <2>1. Reads(k) = 1
    <3>1. t \in ReadingFor(k)
      BY <1>1 DEF ReadingFor
    <3> QED
      BY <3>1 DEF Reads
  <2>2. Reads(k)' = 0
    <3>1. ReadingFor(k)' = {}
      <4> SUFFICES ASSUME NEW u \in Threads, tlib[u] = k, tpc'[u] \in {"seek", "read", "count"}
                   PROVE  FALSE
        BY <1>1 DEF ReadingFor
      <4>1. u # t
        BY <1>5
      <4>2. HasLib(u)
        BY <1>5, <4>1 DEF HasLib, Working
      <4> QED
        BY <1>3, <4>1, <4>2
    <3> QED
      BY <3>1 DEF Reads
  <2>3. \A l \in Libs : l # k => Reads(l)' = Reads(l)
    <3>1. \A l \in Libs : l # k => ReadingFor(l)' = ReadingFor(l)
      BY <1>1, <1>5 DEF ReadingFor
    <3> QED
      BY <3>1 DEF Reads
  <2>4. requested'[k] = requested[k] - 1 /\ \A l \in Libs : l # k => requested'[l] = requested[l]
    BY <1>1, <1>3, <1>4 DEF QTypes
  <2> SUFFICES ASSUME NEW l \in Libs
               PROVE  requested'[l] + nextTr[l] - Reads(l)' = requested[l] + nextTr[l] - Reads(l)
    BY <1>1 DEF CountKept
  <2>5. CASE l # k
    BY <2>3, <2>4, <2>5
  <2>6. CASE l = k
    <3>1. requested[l] \in Int /\ nextTr[l] \in Int
      BY <1>4 DEF QTypes
    <3>2. \A a, b \in Int : (a - 1) + b - 0 = a + b - 1
      OBVIOUS
    <3> QED
      BY <2>1, <2>2, <2>4, <2>6, <3>1, <3>2
  <2> QED
    BY <2>5, <2>6
<1>7. UnitsKept(t)
  <2>1. Unit(t)' = Unit(t)
    BY <1>1, <1>5 DEF Unit
  <2> QED
    BY <1>1, <2>1 DEF UnitsKept
<1>8. NoneLost'
  <2>1. \A u \in Threads : Chosen(u) => Chosen(u)' /\ tlib'[u] = tlib[u] /\ tblk'[u] = tblk[u]
    BY <1>1, <1>5 DEF Chosen
  <2> QED
    BY <1>1, <1>3, <2>1, LostStays DEF listVars, bookVars, blockVars
<1> QED
  BY <1>1, <1>3, <1>4, <1>6, <1>7, <1>8, ThreadCInv

LEMMA StoreCInv ==
  ASSUME LInv, WInv, BInv, QInv, CInv, QTypes', NEW t \in Threads, Store(t),
         UNCHANGED <<listVars, bookVars, blockVars, mpc>>
  PROVE  CInv'
<1> SUFFICES ASSUME NEW k, k = tlib[t], NEW c, c = tblk[t]
             PROVE  CInv'
  OBVIOUS
<1>1. /\ tpc[t] = "store" /\ tpc' = [tpc EXCEPT ![t] = "signal"]
      /\ UNCHANGED <<requested, nextTr, tlib, tblk, libSem>>
  BY DEF Store, At, Goto, semVars
<1>2. HasLib(t) /\ Chosen(t)
  BY <1>1 DEF HasLib, Working, Chosen
<1>3. ~libsDone
  BY <1>2, HasLibIs
<1>4. QTypes /\ NoneLost
  BY <1>3 DEF QInv, CInv
<1>5. tpc'[t] = "signal" /\ \A u \in Threads \ {t} : tpc'[u] = tpc[u]
  BY <1>1, <1>4 DEF QTypes
<1>6. CountKept
  <2>1. \A l : Reads(l)' = Reads(l)
    BY <1>1, <1>4, ReadingStays
  <2> QED
    BY <1>1, <2>1 DEF CountKept
<1>7. UnitsKept(t)
  <2>1. Unit(t)' = Unit(t)
    BY <1>1, <1>5 DEF Unit
  <2> QED
    BY <1>1, <2>1 DEF UnitsKept
<1>8. NoneLost'
  <2>1. \A l \in Libs : Out(l)' = IF l = k THEN Out(l) \ {c} ELSE Out(l)
    BY StoreBInv
  <2>2. UNCHANGED <<reqArray, mpc, rlib, toRequest>> /\ \A l : Pending(l)' = Pending(l)
    BY <1>1 DEF listVars, bookVars, blockVars, Pending
  <2> SUFFICES ASSUME NEW l \in Libs, NEW b \in Out(l), ~(l = k /\ b = c)
               PROVE  \/ \E i \in Pending(l) : reqArray[l][i] = b
                      \/ \E u \in Threads : Chosen(u)' /\ tlib[u] = l /\ tblk[u] = b
                      \/ mpc = "number" /\ rlib = l /\ Head(toRequest) = b
    BY <1>1, <2>1, <2>2 DEF NoneLost
  <2>3. CASE \E u \in Threads : Chosen(u) /\ tlib[u] = l /\ tblk[u] = b
    <3>1. PICK u \in Threads : Chosen(u) /\ tlib[u] = l /\ tblk[u] = b
      BY <2>3
    <3>2. u # t
      BY <3>1
    <3>3. Chosen(u)'
      BY <1>5, <3>1, <3>2 DEF Chosen
    <3> QED
      BY <3>1, <3>3
  <2> QED
    BY <1>4, <2>3 DEF NoneLost
<1> QED
  BY <1>1, <1>3, <1>4, <1>6, <1>7, <1>8, ThreadCInv

(* Steps that touch neither the counts nor a thread. *)
LEMMA StillCInv ==
  ASSUME CInv, UNCHANGED <<listVars, bookVars, blockVars, mpc, requested, nextTr>>,
         UNCHANGED <<threadVars, semVars>>, \A l : Out(l)' = Out(l)
  PROVE  CInv'
<1> USE DEF listVars, bookVars, blockVars, threadVars, semVars
<1>1. Listed' = Listed /\ \A t : (Chosen(t)' <=> Chosen(t)) /\ Unit(t)' = Unit(t)
  BY DEF Listed, Chosen, Unit
<1>2. \A l : /\ Reads(l)' = Reads(l) /\ Storing(l)' = Storing(l) /\ Owed(l)' = Owed(l)
             /\ Pending(l)' = Pending(l)
  <2>1. \A l : ReadingFor(l)' = ReadingFor(l)
    BY DEF ReadingFor
  <2> QED
    BY <2>1 DEF Reads, Storing, Owed, Pending
<1> SUFFICES ASSUME ~libsDone, OneInstruction, RequestedIs, UnitsAre, NoneLost
             PROVE  OneInstruction' /\ RequestedIs' /\ UnitsAre' /\ NoneLost'
  BY DEF CInv
<1>3. OneInstruction'
  BY DEF OneInstruction
<1>4. RequestedIs'
  BY <1>2 DEF RequestedIs
<1>5. UnitsAre'
  BY <1>1, <1>2 DEF UnitsAre
<1>6. NoneLost'
  BY <1>1, <1>2 DEF NoneLost
<1> QED
  BY <1>3, <1>4, <1>5, <1>6

(* The threads keep CInv. *)
LEMMA ThreadsCInv ==
  ASSUME LInv, WInv, BInv, QInv, QInv', CInv, SMP = FALSE, OwnThread, NEW t \in Threads, LibReadT(t)
  PROVE  CInv'
<1>1. UNCHANGED <<listVars, bookVars, blockVars, mpc>>
  BY ThreadFrame, NoFail
<1>2. CASE libsDone
  BY <1>1, <1>2 DEF CInv, blockVars
<1>3. CASE ~libsDone /\ Store(t)
  BY <1>1, <1>3, StoreCInv DEF QInv
<1>4. CASE ~libsDone /\ ~Store(t)
  <2>1. \A l : Out(l)' = Out(l)
    BY <1>1, <1>4, TableFrame, StillBInv
  <2>2. CASE Capture(t) \/ ReleasePost(t)
    <3>1. t \in Procs
      BY DEF Procs
    <3>2. UNCHANGED <<threadVars, semVars, requested, nextTr>>
      BY <2>2, <3>1, CaptureFrame DEF libVars
    <3> QED
      BY <1>1, <2>1, <3>2, StillCInv
  <2>3. ~UncountWrite(t)
    BY <1>4 DEF UncountWrite, At, CInv, OneInstruction
  <2>4. QTypes'
    BY DEF QInv
  <2> QED
    BY <1>1, <1>4, <2>1, <2>2, <2>3, <2>4, TakeUnitCInv, ScanCInv, OtherCInv, PickCInv, UncountCInv
       DEF LibReadT
<1> QED
  BY <1>2, <1>3, <1>4

(* Main asks for a block: it counts it, and is about to store its number. *)
LEMMA RequestCInv ==
  ASSUME LInv, WInv, BInv, QInv, QInv', CInv, SMP = FALSE, RequestBlock
  PROVE  CInv'
<1> SUFFICES ASSUME NEW r, r = rlib, NEW c, c = Head(toRequest)
             PROVE  CInv'
  OBVIOUS
<1>1. /\ ~libsDone /\ QTypes /\ QTypes' /\ OneInstruction /\ RequestedIs /\ UnitsAre /\ NoneLost
  BY AtWork DEF QInv, CInv, RequestBlock
<1>2. /\ mpc = "request" /\ UNCHANGED <<libsDone, tpc, tlib, tblk, libSem, rlib>>
      /\ UNCHANGED <<reqArray, nextTr, reqLibs, lsThread>>
      /\ IF c \in flagged[r]
           THEN mpc' \in {ctx, "request"} /\ requested' = requested
           ELSE /\ mpc' = "number" /\ toRequest' = toRequest
                /\ requested' = [requested EXCEPT ![r] = @ + 1]
  BY DEF RequestBlock, Flagged, RequestRest, MainGoto, semVars, threadVars
<1>3. r \in Libs /\ ctx \in {"top", "parse"}
  BY <1>2 DEF LInv, LMode, LTypes, Asking
<1>4. IF c \in flagged[r]
        THEN \A l \in Libs : Out(l)' = Out(l)
        ELSE \A l \in Libs : Out(l)' = IF l = r THEN Out(l) \union {c} ELSE Out(l)
  BY <1>1, RequestBInv
<1>5. Listed' = Listed /\ \A t : (Chosen(t)' <=> Chosen(t)) /\ Unit(t)' = Unit(t)
  BY <1>2 DEF Listed, Chosen, Unit
<1>6. CASE c \in flagged[r]
  <2>1. mpc' \in {"top", "parse", "request"} /\ requested' = requested
    BY <1>2, <1>3, <1>6
  <2>2. \A l \in Libs : Out(l)' = Out(l)
    BY <1>4, <1>6
  <2> QED
    BY <1>1, <1>2, <1>5, <2>1, <2>2, PlainCInv
<1>7. CASE c \notin flagged[r]
  <2>1. /\ mpc' = "number" /\ toRequest' = toRequest
        /\ requested' = [requested EXCEPT ![r] = @ + 1]
        /\ \A l \in Libs : Out(l)' = IF l = r THEN Out(l) \union {c} ELSE Out(l)
    BY <1>2, <1>4, <1>7
  <2>2. \A l : /\ Reads(l)' = Reads(l) /\ Storing(l) = 0 /\ Storing(l)' = IF l = r THEN 1 ELSE 0
               /\ Owed(l) = 0 /\ Owed(l)' = 0 /\ Pending(l)' = Pending(l)
    <3>1. \A l : ReadingFor(l)' = ReadingFor(l)
      BY <1>2 DEF ReadingFor
    <3> QED
      BY <1>2, <2>1, <3>1 DEF Reads, Storing, Owed, Pending
  <2>3. OneInstruction'
    BY <1>1, <1>2, <2>1 DEF OneInstruction
  <2>4. RequestedIs'
    <3> SUFFICES ASSUME NEW l \in Libs
                 PROVE  requested'[l] = Len(reqArray[l]) - nextTr[l] + Reads(l)
                                          + (IF l = r THEN 1 ELSE 0)
      BY <1>2, <2>2 DEF RequestedIs
    <3>1. requested[l] = Len(reqArray[l]) - nextTr[l] + Reads(l) + 0
      BY <1>1, <2>2 DEF RequestedIs
    <3>2. requested'[l] = IF l = r THEN requested[l] + 1 ELSE requested[l]
      BY <1>1, <1>3, <2>1 DEF QTypes
    <3>3. PICK e \in Int : e = Len(reqArray[l]) - nextTr[l] + Reads(l)
      <4>1. Reads(l) \in {0, 1} /\ Len(reqArray[l]) \in Nat /\ nextTr[l] \in Nat
        BY <1>1, ArrayIs DEF Reads
      <4> QED
        BY <4>1
    <3> QED
      BY <3>1, <3>2, <3>3
  <2>5. UnitsAre'
    BY <1>1, <1>2, <1>5, <2>2 DEF UnitsAre
  <2>6. NoneLost'
    <3> SUFFICES ASSUME NEW l \in Libs, NEW b \in Out(l)'
                 PROVE  \/ \E i \in Pending(l) : reqArray[l][i] = b
                        \/ \E t \in Threads : Chosen(t) /\ tlib[t] = l /\ tblk[t] = b
                        \/ r = l /\ c = b
      BY <1>2, <1>5, <2>1, <2>2 DEF NoneLost
    <3>1. CASE b \in Out(l)
      BY <1>1, <1>2, <3>1 DEF NoneLost
    <3> QED
      BY <2>1, <3>1
  <2> QED
    BY <2>3, <2>4, <2>5, <2>6 DEF CInv
<1> QED
  BY <1>6, <1>7

(* Main stores the number. *)
LEMMA StoreNumberCInv ==
  ASSUME LInv, WInv, BInv, QInv, QInv', CInv, StoreNumber
  PROVE  CInv'
<1> SUFFICES ASSUME NEW r, r = rlib, NEW c, c = Head(toRequest), NEW n, n = Len(reqArray[rlib])
             PROVE  CInv'
  OBVIOUS
<1>1. /\ ~libsDone /\ QTypes /\ PendingRight /\ OneInstruction /\ RequestedIs /\ UnitsAre /\ NoneLost
  BY AtWork DEF QInv, CInv, StoreNumber
<1>2. /\ mpc = "number" /\ reqArray' = [reqArray EXCEPT ![r] = Append(@, c)] /\ mpc' = "bumplib"
      /\ UNCHANGED <<libsDone, tpc, tlib, tblk, libSem, rlib>>
      /\ UNCHANGED <<requested, nextTr, reqLibs, lsThread>>
  BY DEF StoreNumber, MainGoto, threadVars, semVars
<1>3. r \in Libs
  BY <1>2 DEF LInv, LMode, Asking
<1>4. c \in AllBlocks
  <2>1. c \in Out(r)
    BY <1>2 DEF BInv, AtBlock
  <2> QED
    BY <1>1, <1>3, <2>1, OutIs
<1>5. \A l \in Libs : Out(l)' = Out(l)
  BY AskBInv
<1>6. reqArray[r] \in Seq(AllBlocks) /\ n \in Nat /\ nextTr[r] \in Nat /\ nextTr[r] <= n
  BY <1>1, <1>3, ArrayIs DEF PendingRight
<1>7. /\ Len(reqArray'[r]) = n + 1 /\ reqArray'[r][n + 1] = c
      /\ \A i \in 1 .. n : reqArray'[r][i] = reqArray[r][i]
      /\ \A l \in Libs : l # r => reqArray'[l] = reqArray[l]
  <2>1. reqArray'[r] = Append(reqArray[r], c) /\ \A l \in Libs : l # r => reqArray'[l] = reqArray[l]
    BY <1>1, <1>2, <1>3 DEF QTypes
  <2> QED
    BY <1>4, <1>6, <2>1
<1>0. mpc = "number" /\ mpc' = "bumplib" /\ rlib' = r /\ UNCHANGED <<nextTr, tpc, tlib, tblk, libSem>>
  BY <1>2
<1>8. Listed' = Listed /\ \A t : (Chosen(t)' <=> Chosen(t)) /\ Unit(t)' = Unit(t)
  BY <1>2 DEF Listed, Chosen, Unit
<1>9. \A l : /\ Reads(l)' = Reads(l) /\ Storing(l) = (IF l = r THEN 1 ELSE 0) /\ Storing(l)' = 0
             /\ Owed(l) = 0 /\ Owed(l)' = IF l = r THEN 1 ELSE 0
  <2>1. \A l : ReadingFor(l)' = ReadingFor(l)
    BY <1>0 DEF ReadingFor
  <2> QED
    BY <1>0, <2>1 DEF Reads, Storing, Owed
<1>10. OneInstruction'
  BY <1>0, <1>1 DEF OneInstruction
<1>11. \A l \in Libs : Len(reqArray'[l]) - nextTr[l]
                         = Len(reqArray[l]) - nextTr[l] + (IF l = r THEN 1 ELSE 0)
  <2> SUFFICES ASSUME NEW l \in Libs
               PROVE  Len(reqArray'[l]) - nextTr[l]
                        = Len(reqArray[l]) - nextTr[l] + (IF l = r THEN 1 ELSE 0)
    OBVIOUS
  <2>1. Len(reqArray[l]) \in Nat /\ nextTr[l] \in Nat
    BY <1>1, ArrayIs
  <2>2. Len(reqArray'[l]) = IF l = r THEN Len(reqArray[l]) + 1 ELSE Len(reqArray[l])
    BY <1>7
  <2> QED
    BY <2>1, <2>2
<1>12. \A l \in Libs : Len(reqArray[l]) - nextTr[l] \in Int
  BY <1>1, ArrayIs
<1>13. RequestedIs'
  <2> SUFFICES ASSUME NEW l \in Libs
               PROVE  requested[l] = Len(reqArray'[l]) - nextTr[l] + Reads(l) + 0
    BY <1>2, <1>9 DEF RequestedIs
  <2>1. requested[l] = Len(reqArray[l]) - nextTr[l] + Reads(l) + (IF l = r THEN 1 ELSE 0)
    BY <1>1, <1>9 DEF RequestedIs
  <2>2. PICK e \in Int, f \in Int : e = Len(reqArray[l]) - nextTr[l] /\ f = Reads(l)
    <3>1. Reads(l) \in Int /\ Len(reqArray[l]) - nextTr[l] \in Int
      BY <1>12 DEF Reads
    <3> QED
      BY <3>1
  <2>3. Len(reqArray'[l]) - nextTr[l] = e + (IF l = r THEN 1 ELSE 0)
    BY <1>11, <2>2
  <2>4. requested[l] = e + f + (IF l = r THEN 1 ELSE 0)
    BY <2>1, <2>2
  <2> QED
    BY <2>2, <2>3, <2>4
<1>14. UnitsAre'
  <2> SUFFICES ASSUME NEW l \in Listed, NEW t, t = lsThread[l]
               PROVE  libSem[t] + Unit(t) + (IF l = r THEN 1 ELSE 0) = Len(reqArray'[l]) - nextTr[l]
    BY <1>2, <1>8, <1>9 DEF UnitsAre
  <2>1. l \in Libs /\ t \in Threads
    BY OwnerIs
  <2>2. libSem[t] + Unit(t) + 0 = Len(reqArray[l]) - nextTr[l]
    BY <1>1, <1>9 DEF UnitsAre
  <2>3. PICK a \in Int, f \in Int : a = libSem[t] /\ f = Unit(t)
    BY <1>1, <2>1 DEF QTypes, Unit
  <2> QED
    BY <1>11, <2>1, <2>2, <2>3
<1>15. NoneLost'
  <2> SUFFICES ASSUME NEW l \in Libs, NEW b \in Out(l)
               PROVE  \/ \E i \in Pending(l)' : reqArray'[l][i] = b
                      \/ \E t \in Threads : Chosen(t) /\ tlib[t] = l /\ tblk[t] = b
    BY <1>0, <1>5, <1>8 DEF NoneLost
  <2>1. CASE \E i \in Pending(l) : reqArray[l][i] = b
    <3>1. PICK i \in Pending(l) : reqArray[l][i] = b
      BY <2>1
    <3>2. CASE l # r
      <4>1. Pending(l)' = Pending(l) /\ reqArray'[l] = reqArray[l]
        BY <1>0, <1>7, <3>2 DEF Pending
      <4> QED
        BY <3>1, <4>1
    <3>3. CASE l = r
      <4>1. i \in nextTr[r] + 1 .. n
        BY <3>1, <3>3 DEF Pending
      <4>2. i \in nextTr[r] + 1 .. n + 1 /\ i \in 1 .. n
        BY <1>6, <4>1
      <4>3. Pending(r)' = nextTr[r] + 1 .. n + 1
        BY <1>0, <1>7 DEF Pending
      <4> QED
        BY <1>7, <3>1, <3>3, <4>2, <4>3
    <3> QED
      BY <3>2, <3>3
  <2>2. CASE r = l /\ c = b
    <3>1. n + 1 \in nextTr[r] + 1 .. n + 1
      BY <1>6
    <3>2. Pending(r)' = nextTr[r] + 1 .. n + 1
      BY <1>0, <1>7 DEF Pending
    <3> QED
      BY <1>7, <2>2, <3>1, <3>2
  <2> QED
    BY <1>1, <1>0, <2>1, <2>2 DEF NoneLost
<1> QED
  BY <1>10, <1>13, <1>14, <1>15 DEF CInv

(* Main gives the unit. *)
LEMMA BumpLibCInv ==
  ASSUME LInv, WInv, BInv, QInv, CInv, OwnThread, BumpLib
  PROVE  CInv'
<1> SUFFICES ASSUME NEW r, r = rlib, NEW t, t = lsThread[rlib]
             PROVE  CInv'
  OBVIOUS
<1>1. ~libsDone /\ QTypes /\ OneInstruction /\ RequestedIs /\ UnitsAre /\ NoneLost
  BY AtWork DEF QInv, CInv, BumpLib
<1>2. /\ mpc = "bumplib" /\ libSem' = [libSem EXCEPT ![t] = @ + 1] /\ mpc' \in {ctx, "request"}
      /\ UNCHANGED <<libsDone, tpc, tlib, tblk, rlib>>
      /\ UNCHANGED <<requested, reqArray, nextTr, reqLibs, lsThread>>
  BY DEF BumpLib, RequestRest, MainGoto, ReaderOf, libVars, threadVars
<1>3. r \in Libs /\ r \in Listed /\ ctx \in {"top", "parse"}
  BY <1>2 DEF LInv, LMode, LTypes, Asking
<1>4. /\ Listed' = Listed /\ \A u : (Chosen(u)' <=> Chosen(u)) /\ Unit(u)' = Unit(u)
      /\ mpc' \in {"top", "parse", "request"}
  BY <1>2, <1>3 DEF Listed, Chosen, Unit
<1>5. \A l : /\ Reads(l)' = Reads(l) /\ Storing(l) = 0 /\ Storing(l)' = 0
             /\ Owed(l) = (IF l = r THEN 1 ELSE 0) /\ Owed(l)' = 0 /\ Pending(l)' = Pending(l)
  <2>1. \A l : ReadingFor(l)' = ReadingFor(l)
    BY <1>2 DEF ReadingFor
  <2> QED
    BY <1>2, <1>4, <2>1 DEF Reads, Storing, Owed, Pending
<1>6. OneInstruction'
  BY <1>1, <1>2, <1>4 DEF OneInstruction
<1>7. RequestedIs'
  BY <1>1, <1>2, <1>5 DEF RequestedIs
<1>8. UnitsAre'
  <2> SUFFICES ASSUME NEW l \in Listed, NEW u, u = lsThread[l]
               PROVE  libSem'[u] + Unit(u) + 0 = Len(reqArray[l]) - nextTr[l]
    BY <1>2, <1>4, <1>5 DEF UnitsAre
  <2>1. l \in Libs /\ u \in Threads
    BY OwnerIs
  <2>2. libSem[u] + Unit(u) + (IF l = r THEN 1 ELSE 0) = Len(reqArray[l]) - nextTr[l]
    BY <1>1, <1>5 DEF UnitsAre
  <2>3. libSem'[u] = IF l = r THEN libSem[u] + 1 ELSE libSem[u]
    <3>1. u = t <=> l = r
      BY <1>3 DEF OwnThread
    <3> QED
      BY <1>1, <1>2, <2>1, <3>1 DEF QTypes
  <2>4. PICK a \in Int, f \in Int : a = libSem[u] /\ f = Unit(u)
    BY <1>1, <2>1 DEF QTypes, Unit
  <2> QED
    BY <2>2, <2>3, <2>4
<1>9. \A l \in Libs : Out(l)' = Out(l)
  BY <1>2, AskBInv
<1>10. NoneLost'
  BY <1>1, <1>2, <1>4, <1>5, <1>9 DEF NoneLost
<1> QED
  BY <1>6, <1>7, <1>8, <1>10 DEF CInv

(* A library gets a thread, which has no unit for anything else. *)
LEMMA AddCInv ==
  ASSUME LInv, LInv', WInv, BInv, QInv, CInv, OwnThread', AddToRequestList
  PROVE  CInv'
<1> SUFFICES ASSUME NEW r, r = rlib, NEW t, t = NextReadlibThread(nextThread)
             PROVE  CInv'
  OBVIOUS
<1>1. /\ ~libsDone /\ QTypes /\ Quiet /\ UnitsRight /\ OneInstruction /\ RequestedIs /\ UnitsAre
      /\ NoneLost
  BY AtWork DEF QInv, CInv, AddToRequestList
<1>2. /\ mpc = "add" /\ mpc' = "request"
      /\ tpc' = IF tpc[t] = "unborn" THEN [tpc EXCEPT ![t] = "wait"] ELSE tpc
      /\ lsThread' = [lsThread EXCEPT ![r] = t]
      /\ libSem' = [libSem EXCEPT ![t] = @ + requested[r]]
      /\ reqLibs' = Append(reqLibs, r)
      /\ UNCHANGED <<libsDone, tlib, tblk, rlib, requested, reqArray, nextTr>>
  BY DEF AddToRequestList, MainGoto, OutstandingUnits
<1>3. r \in Libs /\ r \notin Listed /\ requested[r] = 0
  BY <1>2, NoneOutAtAdd DEF LInv, LMode, Asking, ListedEmpty
<1>4. t \in Threads
  BY NextThreadIs, ThreadsAre DEF LInv, LTypes
<1>5. Listed' = Listed \union {r}
  BY <1>2, <1>3, AppendEntries DEF Listed, LInv, LTypes
<1>6. lsThread'[r] = t /\ \A l \in Libs : l # r => lsThread'[l] = lsThread[l]
  BY <1>2, <1>3 DEF LInv, LTypes
<1>7. \A l \in Listed : lsThread[l] # t
  <2> SUFFICES ASSUME NEW l \in Listed, lsThread[l] = t PROVE FALSE
    OBVIOUS
  <2>1. l \in Libs /\ l # r
    BY <1>3, ListedLibs
  <2>2. lsThread'[l] = lsThread'[r] /\ l \in Listed' /\ r \in Listed'
    BY <1>5, <1>6, <2>1
  <2> QED
    BY <2>1, <2>2 DEF OwnThread
<1>8. libSem' = libSem
  <2>1. libSem[t] + requested[r] = libSem[t]
    BY <1>1, <1>3, <1>4 DEF QTypes
  <2> QED
    BY <1>1, <1>2, <1>4, <2>1 DEF QTypes
<1>9. \A u \in Threads : tpc'[u] = tpc[u] \/ (tpc[u] = "unborn" /\ tpc'[u] = "wait")
  BY <1>1, <1>2, <1>4 DEF QTypes
<1>10. \A u \in Threads : Unit(u)' = Unit(u) /\ (Chosen(u)' <=> Chosen(u))
  BY <1>2, <1>9 DEF Unit, Chosen
<1>11. \A l : /\ Reads(l)' = Reads(l) /\ Storing(l)' = Storing(l) /\ Owed(l)' = 0 /\ Owed(l) = 0
              /\ Pending(l)' = Pending(l)
  <2>1. \A l : ReadingFor(l)' = ReadingFor(l)
    BY <1>2, <1>9 DEF ReadingFor
  <2> QED
    BY <1>2, <2>1 DEF Reads, Storing, Owed, Pending
<1>12. \A l \in Libs : Out(l)' = Out(l)
  BY AskBInv
<1>13. OneInstruction'
  <2>1. mpc' # "countwrite"
    BY <1>2
  <2>2. \A u \in Threads : tpc'[u] # "countwrite" /\ (tpc'[u] = "scanned" => tlib[u] # None)
    BY <1>1, <1>9 DEF OneInstruction
  <2> QED
    BY <1>2, <2>1, <2>2 DEF OneInstruction
<1>14. RequestedIs'
  BY <1>1, <1>2, <1>11 DEF RequestedIs
<1>15. UnitsAre'
  <2> SUFFICES ASSUME NEW l \in Listed', NEW u, u = lsThread'[l]
               PROVE  libSem[u] + Unit(u)' + 0 = Len(reqArray[l]) - nextTr[l]
    BY <1>2, <1>8, <1>11 DEF UnitsAre
  <2>1. CASE l \in Listed
    <3>1. l \in Libs /\ u = lsThread[l] /\ u \in Threads
      BY <1>3, <1>6, <2>1, OwnerIs
    <3>2. libSem[u] + Unit(u) + 0 = Len(reqArray[l]) - nextTr[l]
      BY <1>1, <1>11, <2>1, <3>1 DEF UnitsAre
    <3> QED
      BY <1>10, <3>1, <3>2
  <2>2. CASE l = r
    <3>1. u = t /\ libSem[t] = 0 /\ Unit(t) = 0
      BY <1>1, <1>4, <1>6, <1>7, <2>2 DEF UnitsRight
    <3>2. nextTr[l] = Len(reqArray[l]) /\ Len(reqArray[l]) \in Nat
      BY <1>1, <1>3, <2>2, ArrayIs DEF Quiet
    <3> QED
      BY <1>4, <1>10, <3>1, <3>2
  <2> QED
    BY <1>5, <2>1, <2>2
<1>16. NoneLost'
  <2> SUFFICES ASSUME NEW l \in Libs, NEW b \in Out(l)
               PROVE  \/ \E i \in Pending(l) : reqArray[l][i] = b
                      \/ \E u \in Threads : Chosen(u)' /\ tlib[u] = l /\ tblk[u] = b
    BY <1>2, <1>11, <1>12 DEF NoneLost
  <2> QED
    BY <1>1, <1>2, <1>10 DEF NoneLost
<1> QED
  BY <1>13, <1>14, <1>15, <1>16 DEF CInv

LEMMA MainCInv ==
  ASSUME LInv, LInv', WInv, BInv, QInv, CInv, OneDefiner, OneDefiner',
         \/ \E s \in Symbols : Reference(s)
         \/ CountWrite \/ SelectLibrary \/ FindModule \/ VerifyBlock \/ WaitRead \/ DecLibBlock
         \/ Deselect \/ RemoveFromRequestList
  PROVE  CInv'
<1>1. ~libsDone /\ QTypes
  BY AtWork DEF QInv, Reference, CountWrite, SelectLibrary, FindModule, VerifyBlock, WaitRead,
     DecLibBlock, Deselect, RemoveFromRequestList
<1>2. ~CountWrite
  BY <1>1 DEF CountWrite, CInv, OneInstruction
<1>3. /\ UNCHANGED <<requested, reqArray, nextTr, libSem, tlib, tblk, tpc>>
      /\ mpc \notin {"number", "bumplib"}
      /\ mpc' \in {"top", "parse", "add", "request", "find", "verify", "waitread", "deselect",
                   "remove"}
      /\ UNCHANGED <<reqLibs, lsThread>> \/ RemoveFromRequestList
  <2> USE DEF libVars, semVars, threadVars, MainGoto
  <2>1. CASE \E s \in Symbols : Reference(s)
    BY <2>1 DEF Reference
  <2>2. CASE SelectLibrary
    BY <2>2 DEF SelectLibrary
  <2>3. CASE FindModule
    BY <2>3 DEF FindModule
  <2>4. CASE VerifyBlock
    BY <2>4 DEF VerifyBlock
  <2>5. CASE WaitRead
    BY <2>5 DEF WaitRead, AfterWait
  <2>6. CASE DecLibBlock
    BY <2>6 DEF DecLibBlock
  <2>7. CASE Deselect
    BY <2>7 DEF Deselect
  <2>8. CASE RemoveFromRequestList
    BY <2>8 DEF RemoveFromRequestList
  <2> QED
    BY <1>2, <2>1, <2>2, <2>3, <2>4, <2>5, <2>6, <2>7, <2>8
<1>4. \A l \in Libs : Out(l)' = Out(l)
  BY <1>1, <1>2, ReferenceBInv, SelectBInv, FindBInv, VerifyBInv, DecBInv
<1>5. Listed' \subseteq Listed /\ \A l \in Listed' : lsThread'[l] = lsThread[l]
  <2>1. CASE UNCHANGED <<reqLibs, lsThread>>
    BY <2>1 DEF Listed
  <2>2. CASE RemoveFromRequestList
    <3>1. cur # None /\ reqLibs # <<>> /\ mpc = "remove"
      BY <2>2 DEF LInv, LMode, InTurn, RemoveFromRequestList
    <3>2. Listed' = Listed \ {cur} /\ lsThread' = [lsThread EXCEPT ![cur] = NoThread]
      BY <2>2, <3>1, RemoveLists DEF LInv
    <3>3. \A l \in Libs : l # cur => lsThread'[l] = lsThread[l]
      BY <3>2 DEF LInv, LTypes
    <3> QED
      BY <3>2, <3>3, ListedLibs
  <2> QED
    BY <1>3, <2>1, <2>2
<1>6. mpc' \notin {"countwrite", "number", "bumplib"}
  BY <1>3
<1> QED
  BY <1>1, <1>3, <1>4, <1>5, <1>6, PlainCInv

LEMMA StepCInv ==
  ASSUME LInv, LInv', WInv, BInv, QInv, QInv', CInv, OneDefiner, OneDefiner', OwnThread, OwnThread',
         SMP = FALSE, [Next]_vars
  PROVE  CInv'
<1>1. CASE UNCHANGED vars
  <2>1. \A l : Out(l)' = Out(l)
    BY <1>1 DEF vars, libVars, Out
  <2> QED
    BY <1>1, <2>1, StillCInv DEF vars, libVars, mainVars, listVars, bookVars, blockVars
<1>2. ASSUME NEW t \in Threads, LibReadT(t) PROVE CInv'
  BY <1>2, ThreadsCInv
<1>3. CASE Capture(Main) \/ ReleasePost(Main)
  <2>0. Main \in Procs
    BY DEF Procs
  <2>1. UNCHANGED <<libVars, trList, threadVars, semVars, mainVars>>
    BY <1>3, <2>0, CaptureFrame
  <2>2. \A l : Out(l)' = Out(l)
    BY <2>1 DEF libVars, Out
  <2> QED
    BY <2>1, <2>2, StillCInv DEF libVars, mainVars, listVars, bookVars, blockVars
<1>4. CASE LibrariesDone \/ Bump \/ CloseLibFiles \/ Join
  <2>1. libsDone'
    <3>1. CASE LibrariesDone
      BY <3>1 DEF LibrariesDone
    <3>2. CASE Bump \/ CloseLibFiles \/ Join
      <4>1. Ending /\ libsDone' = libsDone
        BY <3>2 DEF Bump, CloseLibFiles, Join, Ending
      <4> QED
        BY <4>1 DEF QInv, EndInv
    <3> QED
      BY <1>4, <3>1, <3>2
  <2> QED
    BY <2>1 DEF CInv
<1> QED
  BY <1>1, <1>2, <1>3, <1>4, MainSteps, MainCInv, RequestCInv, StoreNumberCInv, BumpLibCInv, AddCInv
     DEF Next


------------------------------------------------------------------------------
(* What follows of the runs' properties.                                   *)

IInv == LInv /\ WInv /\ BInv /\ QInv

LEMMA InvTypes == ASSUME IInv PROVE TypeOK
<1> USE DEF IInv
<1>1. mpc \in MainPlaces /\ tpc \in [Threads -> ThreadPlaces]
  BY DEF LInv, LTypes, QInv, QTypes
<1>2. LTypes /\ WTypes /\ BTypes /\ QTypes
  BY DEF LInv, WInv, BInv, QInv
<1> HIDE DEF IInv
<1> USE <1>2
<1>3. /\ reqLibs \in Seq(Libs) /\ trList \in [Threads -> Seq(Libs)]
      /\ lsThread \in [Libs -> Threads \union {NoThread}]
      /\ nextThread \in 0 .. N_R_THREADS - 1
      /\ selected \in [Libs -> Nat]
      /\ cur \in Libs \union {None} /\ rlib \in Libs \union {None}
      /\ ctx \in {"top", "parse"}
  BY DEF LTypes
<1>4. /\ wanted \in [Libs -> Seq(Symbols)]
      /\ roots \subseteq Symbols /\ pend \subseteq Symbols /\ defined \subseteq Symbols
      /\ marked \subseteq Modules /\ mod \in Modules \union {None}
      /\ toRead \in Seq(AllBlocks) /\ toRequest \in Seq(AllBlocks)
  BY DEF WTypes
<1>5. /\ flagged \in [Libs -> SUBSET AllBlocks]
      /\ table \in [Libs -> [AllBlocks -> AllBlocks \union {NoBlock}]]
      /\ modsLeft \in [Libs -> [AllBlocks -> Nat]]
      /\ handleOpen \in [Libs -> BOOLEAN]
  BY DEF BTypes
<1>6. /\ requested \in [Libs -> Int]
      /\ reqArray \in [Libs -> Seq(AllBlocks)] /\ nextTr \in [Libs -> Nat]
      /\ filePos \in [Libs -> Int]
      /\ libSem \in [Threads -> Nat] /\ readSem \in [Threads -> Nat]
      /\ tlib \in [Threads -> Libs \union {None}] /\ tblk \in [Threads -> Int]
      /\ tbuf \in [Threads -> Nat] /\ treg \in [Threads -> Int]
      /\ Order!SemTypeOK
      /\ mreg \in Int /\ libsDone \in BOOLEAN /\ stop \in 0 .. N_R_THREADS - 1
  BY DEF QTypes
<1>7. tpc \in [Threads -> {"unborn", "wait", "scan", "scanned", "pick", "seek", "read", "count",
                           "countwrite", "store", "signal", "dead"}]
  BY <1>1 DEF ThreadPlaces
<1>8. mpc \in {"top", "add", "request", "countwrite", "number", "bumplib", "find", "verify",
               "waitread", "parse", "deselect", "remove", "bump", "close", "join", "finished",
               "aborted"}
  BY <1>1 DEF MainPlaces
<1> QED
  BY <1>3, <1>4, <1>5, <1>6, <1>7, <1>8, Zenon DEF TypeOK

LEMMA InvLists == ASSUME IInv PROVE ListsKept
<1>1. OneReader
  <2> SUFFICES ASSUME NEW t \in Threads, NEW u \in Threads, t # u, Working(t), Working(u)
               PROVE  tlib[t] # tlib[u]
    BY DEF OneReader
  <2>1. HasLib(t) /\ HasLib(u)
    BY DEF HasLib
  <2> QED
    BY <2>1, HasLibIs DEF IInv
<1> QED
  BY <1>1, InvTypes DEF ListsKept, IInv, LInv

LEMMA InvRightBlock == ASSUME IInv PROVE RightBlock
<1>1. Counted /\ AtBlock
  BY DEF IInv, BInv
<1>2. mpc = "parse" => Parsing
  BY DEF Parsing
<1> QED
  BY <1>1, <1>2 DEF RightBlock, Counted, AtBlock

LEMMA InvReads == ASSUME IInv PROVE ReadsRequested
<1> USE DEF IInv
<1> SUFFICES ASSUME NEW t \in Threads, Chosen(t), ~libsDone, NEW k, k = tlib[t]
             PROVE  /\ nextTr[k] <= Len(reqArray[k])
                    /\ tblk[t] \in flagged[k]
                    /\ table[k][tblk[t]] = NoBlock
                    /\ \A u \in Threads \ {t} : Chosen(u) /\ tlib[u] = k => tblk[u] # tblk[t]
  BY DEF ReadsRequested
<1>1. HasLib(t) /\ k \in Libs /\ tblk[t] \in Out(k)
  BY AtChosen
<1>2. nextTr[k] <= Len(reqArray[k])
  BY <1>1 DEF QInv, PendingRight
<1>3. tblk[t] \in flagged[k] /\ table[k][tblk[t]] = NoBlock
  BY <1>1 DEF Out
<1>4. ASSUME NEW u \in Threads \ {t}, Chosen(u), tlib[u] = k PROVE FALSE
  <2>1. HasLib(u)
    BY <1>4 DEF HasLib, Working, Chosen
  <2> QED
    BY <1>1, <1>4, <2>1, HasLibIs
<1> QED
  BY <1>2, <1>3, <1>4

(* With one processor: no thread sleeps over a block. *)
LEMMA InvNoneForgotten == ASSUME IInv, CInv PROVE NoneForgotten
<1> USE DEF IInv
<1> SUFFICES ASSUME NEW t \in Threads, tpc[t] = "wait", libSem[t] = 0, ~libsDone,
                    NEW l \in Elements(trList[t])
             PROVE  requested[l] <= IF mpc \in {"number", "bumplib"} /\ rlib = l THEN 1 ELSE 0
  BY DEF NoneForgotten
<1>1. l \in Listed /\ l \in Libs /\ lsThread[l] = t
  <2>1. reqLibs \in Seq(Libs) /\ trList[t] = Without(reqLibs, {k \in Libs : lsThread[k] # t})
    BY DEF LInv, LTypes, ListsAgree
  <2>2. Elements(trList[t]) = Elements(reqLibs) \ {k \in Libs : lsThread[k] # t}
    BY <2>1, WithoutKeeps
  <2> QED
    BY <2>2, ListedLibs DEF Listed
<1>2. QTypes /\ UnitsAre /\ RequestedIs
  BY DEF QInv, CInv
<1>3. Reads(l) = 0
  <2>1. ReadingFor(l) = {}
    <3> SUFFICES ASSUME NEW u \in Threads, tlib[u] = l, tpc[u] \in {"seek", "read", "count"}
                 PROVE  FALSE
      BY DEF ReadingFor
    <3>1. HasLib(u)
      BY DEF HasLib, Working
    <3>2. u = t
      BY <1>1, <3>1, HasLibIs
    <3> QED
      BY <3>2
  <2> QED
    BY <2>1 DEF Reads
<1>4. Unit(t) = 0
  BY DEF Unit
<1>5. 0 + 0 + Owed(l) = Len(reqArray[l]) - nextTr[l]
  BY <1>1, <1>2, <1>4 DEF UnitsAre
<1>6. requested[l] = Len(reqArray[l]) - nextTr[l] + 0 + Storing(l)
  BY <1>1, <1>2, <1>3 DEF RequestedIs
<1>7. Owed(l) + Storing(l) = IF mpc \in {"number", "bumplib"} /\ rlib = l THEN 1 ELSE 0
  BY DEF Owed, Storing
<1>8. Owed(l) \in {0, 1} /\ Storing(l) \in {0, 1}
  BY DEF Owed, Storing
<1>9. requested[l] = Owed(l) + Storing(l)
  BY <1>5, <1>6, <1>8
<1> QED
  BY <1>7, <1>8, <1>9

(* With one processor: the count is that of what is outstanding. *)
InHand(l) == {t \in Threads : Chosen(t) /\ tlib[t] = l}
Numbers(l) == {reqArray[l][i] : i \in Pending(l)}

LEMMA NumbersCounted ==
  ASSUME IInv, ~libsDone, NEW l \in Libs
  PROVE  /\ IsFiniteSet(Numbers(l)) /\ Len(reqArray[l]) - nextTr[l] \in Nat
         /\ Cardinality(Numbers(l)) = Len(reqArray[l]) - nextTr[l]
<1>1. QTypes /\ PendingRight
  BY DEF IInv, QInv
<1>2. PICK n \in Nat, m \in Nat : n = nextTr[l] /\ m = Len(reqArray[l]) /\ n <= m
  BY <1>1, ArrayIs DEF PendingRight
<1>3. Pending(l) = n + 1 .. m
  BY <1>2 DEF Pending
<1>4. IsFiniteSet(Pending(l)) /\ Cardinality(Pending(l)) = m - n
  <2>1. IsFiniteSet(n + 1 .. m) /\ Cardinality(n + 1 .. m) = IF n + 1 > m THEN 0 ELSE m - (n + 1) + 1
    BY FS_Interval
  <2>2. (IF n + 1 > m THEN 0 ELSE m - (n + 1) + 1) = m - n
    BY <1>2
  <2> QED
    BY <1>3, <2>1, <2>2
<1> DEFINE f == [i \in Pending(l) |-> reqArray[l][i]]
<1>5. f \in Bijection(Pending(l), Numbers(l))
  <2>1. \A i, j \in Pending(l) : f[i] = f[j] => i = j
    BY <1>1 DEF PendingRight
  <2>2. f \in [Pending(l) -> Numbers(l)] /\ \A c \in Numbers(l) : \E i \in Pending(l) : f[i] = c
    BY DEF Numbers
  <2> HIDE DEF f
  <2> QED
    BY <2>1, <2>2 DEF Bijection, Injection, Surjection, IsInjective
<1>6. ExistsBijection(Pending(l), Numbers(l))
  BY <1>5 DEF ExistsBijection
<1>7. IsFiniteSet(Numbers(l)) /\ Cardinality(Numbers(l)) = m - n
  BY <1>4, <1>6, FS_Bijection
<1> QED
  BY <1>2, <1>7

LEMMA HandIs ==
  ASSUME IInv, NEW l \in Libs
  PROVE  IF InHand(l) = {}
           THEN Reads(l) = 0 /\ {t \in Threads : tpc[t] = "store" /\ tlib[t] = l} = {}
           ELSE \E t \in Threads :
                  /\ InHand(l) = {t}
                  /\ \/ tpc[t] = "countwrite"
                     \/ /\ tpc[t] \in {"seek", "read", "count"} /\ Reads(l) = 1
                        /\ {u \in Threads : tpc[u] = "store" /\ tlib[u] = l} = {}
                     \/ /\ tpc[t] = "store" /\ Reads(l) = 0
                        /\ {u \in Threads : tpc[u] = "store" /\ tlib[u] = l} = {t}
<1>1. CASE InHand(l) = {}
  <2>1. ReadingFor(l) = {} /\ {t \in Threads : tpc[t] = "store" /\ tlib[t] = l} = {}
    BY <1>1 DEF InHand, ReadingFor, Chosen
  <2> QED
    BY <1>1, <2>1 DEF Reads
<1>2. CASE InHand(l) # {}
  <2>1. PICK t \in Threads : Chosen(t) /\ tlib[t] = l
    BY <1>2 DEF InHand
  <2>2. \A u \in Threads : Chosen(u) /\ tlib[u] = l => u = t
    <3> SUFFICES ASSUME NEW u \in Threads, Chosen(u), tlib[u] = l PROVE u = t
      OBVIOUS
    <3>1. HasLib(t) /\ HasLib(u)
      BY <2>1 DEF HasLib, Working, Chosen
    <3> QED
      BY <2>1, <3>1, HasLibIs DEF IInv
  <2>3. InHand(l) = {t}
    BY <2>1, <2>2 DEF InHand
  <2>4. \A u \in Threads : tlib[u] = l /\ tpc[u] \in {"seek", "read", "count", "store"} => u = t
    BY <2>2 DEF Chosen
  <2>5. CASE tpc[t] \in {"seek", "read", "count"}
    <3>1. t \in ReadingFor(l)
      BY <2>1, <2>5 DEF ReadingFor
    <3>2. {u \in Threads : tpc[u] = "store" /\ tlib[u] = l} = {}
      BY <2>4, <2>5
    <3> QED
      BY <1>2, <2>3, <2>5, <3>1, <3>2 DEF Reads
  <2>6. CASE tpc[t] = "store"
    <3>1. ReadingFor(l) = {}
      BY <2>4, <2>6 DEF ReadingFor
    <3>2. {u \in Threads : tpc[u] = "store" /\ tlib[u] = l} = {t}
      BY <2>1, <2>4, <2>6
    <3> QED
      BY <1>2, <2>3, <2>6, <3>1, <3>2 DEF Reads
  <2> QED
    BY <1>2, <2>1, <2>3, <2>5, <2>6 DEF Chosen
<1> QED
  BY <1>1, <1>2

LEMMA OutCounted ==
  ASSUME IInv, CInv, ~libsDone, NEW l \in Libs
  PROVE  /\ IsFiniteSet(Out(l))
         /\ Cardinality(Out(l)) = Len(reqArray[l]) - nextTr[l]
                                    + (IF InHand(l) = {} THEN 0 ELSE 1) + Storing(l)
<1> DEFINE hand == {tblk[t] : t \in InHand(l)}
           new == IF Storing(l) = 1 THEN {Head(toRequest)} ELSE {}
<1>1. QTypes /\ PendingRight /\ TakenRight /\ NumberNew /\ NoneLost /\ OneInstruction
  BY DEF IInv, QInv, CInv
<1>2. Out(l) = (Numbers(l) \union hand) \union new
  <2>1. Numbers(l) \subseteq Out(l)
    BY <1>1 DEF Numbers, PendingRight
  <2>2. hand \subseteq Out(l)
    BY <1>1 DEF InHand, TakenRight
  <2>3. new \subseteq Out(l)
    <3> SUFFICES ASSUME Storing(l) = 1 PROVE Head(toRequest) \in Out(l)
      OBVIOUS
    <3>1. mpc = "number" /\ rlib = l
      BY DEF Storing
    <3> QED
      BY <3>1 DEF IInv, BInv, AtBlock
  <2>4. Out(l) \subseteq (Numbers(l) \union hand) \union new
    <3> SUFFICES ASSUME NEW b \in Out(l) PROVE b \in Numbers(l) \/ b \in hand \/ b \in new
      OBVIOUS
    <3>1. CASE \E i \in Pending(l) : reqArray[l][i] = b
      BY <3>1 DEF Numbers
    <3>2. CASE \E t \in Threads : Chosen(t) /\ tlib[t] = l /\ tblk[t] = b
      BY <3>2 DEF InHand
    <3>3. CASE mpc = "number" /\ rlib = l /\ Head(toRequest) = b
      BY <3>3 DEF Storing
    <3> QED
      BY <1>1, <3>1, <3>2, <3>3 DEF NoneLost
  <2> QED
    BY <2>1, <2>2, <2>3, <2>4
<1>3. PICK n \in Nat : n = Len(reqArray[l]) - nextTr[l]
  BY NumbersCounted
<1>4. IsFiniteSet(Numbers(l)) /\ Cardinality(Numbers(l)) = n
  BY <1>3, NumbersCounted
<1>5. /\ IsFiniteSet(Numbers(l) \union hand)
      /\ Cardinality(Numbers(l) \union hand) = n + (IF InHand(l) = {} THEN 0 ELSE 1)
  <2>1. CASE InHand(l) = {}
    <3>1. Numbers(l) \union hand = Numbers(l)
      BY <2>1
    <3>2. n + (IF InHand(l) = {} THEN 0 ELSE 1) = n
      BY <2>1
    <3> HIDE DEF hand
    <3> QED
      BY <1>4, <3>1, <3>2
  <2>2. CASE InHand(l) # {}
    <3>1. PICK t \in Threads : InHand(l) = {t}
      BY <2>2, HandIs
    <3>2. hand = {tblk[t]} /\ Chosen(t) /\ tlib[t] = l
      <4>1. hand = {tblk[t]}
        BY <3>1
      <4>2. t \in InHand(l)
        BY <3>1
      <4> QED
        BY <4>1, <4>2 DEF InHand
    <3>3. tblk[t] \notin Numbers(l)
      BY <1>1, <3>2 DEF TakenRight, Numbers
    <3> HIDE DEF hand
    <3> QED
      BY <1>4, <2>2, <3>2, <3>3, FS_AddElement
  <2> QED
    BY <2>1, <2>2
<1>6. Storing(l) = 1 => Head(toRequest) \notin Numbers(l) \union hand
  <2> SUFFICES ASSUME Storing(l) = 1 PROVE Head(toRequest) \notin Numbers(l) \union hand
    OBVIOUS
  <2>1. mpc = "number" /\ rlib = l
    BY DEF Storing
  <2> QED
    BY <1>1, <2>1 DEF NumberNew, Numbers, InHand
<1>7. Storing(l) \in {0, 1}
  BY DEF Storing
<1>8. PICK S : S = Numbers(l) \union hand
  OBVIOUS
<1>9. PICK m \in Nat : m = n + (IF InHand(l) = {} THEN 0 ELSE 1)
  OBVIOUS
<1> HIDE DEF hand
<1>10. IsFiniteSet(S) /\ Cardinality(S) = m
  BY <1>5, <1>8, <1>9
<1>11. CASE Storing(l) = 0
  <2>1. Out(l) = S
    BY <1>2, <1>8, <1>11
  <2> QED
    BY <1>3, <1>9, <1>10, <1>11, <2>1
<1>12. CASE Storing(l) = 1
  <2>1. Out(l) = S \union {Head(toRequest)} /\ Head(toRequest) \notin S
    BY <1>2, <1>6, <1>8, <1>12
  <2>2. IsFiniteSet(Out(l)) /\ Cardinality(Out(l)) = m + 1
    BY <1>10, <2>1, FS_AddElement
  <2> QED
    BY <1>3, <1>9, <1>12, <2>2
<1> QED
  BY <1>7, <1>11, <1>12

LEMMA InvRequests == ASSUME IInv, CInv PROVE RequestsKept
<1>1. CountExact
  <2> SUFFICES ASSUME ~libsDone, NEW l \in Libs,
                      NEW storers, storers = {t \in Threads : tpc[t] = "store" /\ tlib[t] = l}
               PROVE  requested[l] = Cardinality(Out(l)) - Cardinality(storers)
                                       - (IF mpc = "countwrite" /\ rlib = l THEN 1 ELSE 0)
    BY DEF CountExact, Out
  <2>1. OneInstruction /\ RequestedIs
    BY DEF CInv
  <2>2. (IF mpc = "countwrite" /\ rlib = l THEN 1 ELSE 0) = 0
    BY <2>1 DEF OneInstruction
  <2>3. PICK n \in Nat : n = Len(reqArray[l]) - nextTr[l]
    BY NumbersCounted
  <2>4. requested[l] = n + Reads(l) + Storing(l)
    BY <2>1, <2>3 DEF RequestedIs
  <2>5. Cardinality(Out(l)) = n + (IF InHand(l) = {} THEN 0 ELSE 1) + Storing(l)
    BY <2>3, OutCounted
  <2>6. Storing(l) \in {0, 1}
    BY DEF Storing
  <2>7. Cardinality({}) = 0 /\ \A t : Cardinality({t}) = 1
    BY FS_EmptySet, FS_Singleton
  <2>8. \/ InHand(l) = {} /\ Reads(l) = 0 /\ Cardinality(storers) = 0
        \/ InHand(l) # {} /\ Reads(l) = 1 /\ Cardinality(storers) = 0
        \/ InHand(l) # {} /\ Reads(l) = 0 /\ Cardinality(storers) = 1
    BY <2>1, <2>7, HandIs DEF OneInstruction
  <2> QED
    BY <2>2, <2>4, <2>5, <2>6, <2>8
<1> QED
  BY <1>1, InvNoneForgotten DEF RequestsKept

------------------------------------------------------------------------------
(* One step, and the theorems.                                             *)

LEMMA NoAbort == ASSUME IInv, [Next]_vars PROVE \A t \in Threads : LibReadT(t) => mpc' = mpc
BY NoFail DEF IInv

LEMMA InitIInv == Init => IInv
BY InitLInv, InitWInv, InitBInv, InitQInv DEF IInv

LEMMA StepIInv ==
  ASSUME IInv, OwnThread, OwnThread', OneDefiner, OneDefiner', ListedEmpty, [Next]_vars
  PROVE  IInv'
<1>1. LInv /\ WInv /\ BInv /\ QInv
  BY DEF IInv
<1>2. LInv'
  BY <1>1, StepLInv
<1>3. WInv' /\ BInv'
  BY <1>1, <1>2, NoAbort, StepWInv, StepBInv
<1>4. QInv'
  BY <1>1, <1>2, StepQInv
<1> QED
  BY <1>2, <1>3, <1>4 DEF IInv

(***************************************************************************)
(* The inductive invariant of the library readers, on one processor or     *)
(* more: the lists, the modules still to come, the blocks and the request  *)
(* arrays agree.  It holds of a link in which no thread has two libraries  *)
(* at a time, no symbol two definitions among the selected modules, and no *)
(* library is put in the request list with blocks outstanding.             *)
(***************************************************************************)
THEOREM LibReadInvHolds == Spec /\ []OwnThread /\ []OneDefiner /\ []ListedEmpty => []IInv
<1>1. IInv /\ OwnThread /\ OwnThread' /\ OneDefiner /\ OneDefiner' /\ ListedEmpty /\ [Next]_vars
      => IInv'
  BY StepIInv
<1> QED
  BY InitIInv, <1>1, PTL DEF Spec

(***************************************************************************)
(* "Read the first one": the number that a thread takes from the request   *)
(* array, which main fills without a lock, is one that main has stored, of *)
(* a block that is requested and that nobody else reads or has read.       *)
(***************************************************************************)
THEOREM NumbersTakenRight ==
  Spec /\ []OwnThread /\ []OneDefiner /\ []ListedEmpty => []ReadsRequested
<1>1. IInv => ReadsRequested
  BY InvReads
<1> QED
  BY <1>1, LibReadInvHolds, PTL

(***************************************************************************)
(* A slot of the block table never holds another block than its own, and   *)
(* main parses the block it looked for, although a completion does not say *)
(* which block was read and the handle's position is shared.               *)
(***************************************************************************)
THEOREM BlocksFoundRight ==
  Spec /\ []OwnThread /\ []OneDefiner /\ []ListedEmpty => []RightBlock
<1>1. IInv => RightBlock
  BY InvRightBlock
<1> QED
  BY <1>1, LibReadInvHolds, PTL

(***************************************************************************)
(* One thread at a time seeks and reads with the handle of a library, the  *)
(* threads' lists are the request list dealt out, and nobody meets a       *)
(* closed handle or a number that is not in the file, which would end the  *)
(* link.                                                                   *)
(***************************************************************************)
THEOREM OneReaderEach ==
  Spec /\ []OwnThread /\ []OneDefiner /\ []ListedEmpty => [](ListsKept /\ mpc # "aborted")
<1>1. IInv => ListsKept
  BY InvLists
<1>2. IInv => mpc # "aborted"
  BY DEF IInv, QInv, EndInv
<1> QED
  BY <1>1, <1>2, LibReadInvHolds, PTL

(* With one processor.                                                     *)
LEMMA OneProcessor ==
  ASSUME SMP = FALSE
  PROVE  Spec /\ []OwnThread /\ []OneDefiner => [](IInv /\ CInv)
<1>1. IInv /\ CInv /\ OwnThread /\ OwnThread' /\ OneDefiner /\ OneDefiner' /\ [Next]_vars
      => IInv' /\ CInv'
  <2> SUFFICES ASSUME IInv, CInv, OwnThread, OwnThread', OneDefiner, OneDefiner', [Next]_vars
               PROVE  IInv' /\ CInv'
    OBVIOUS
  <2>1. ListedEmpty
    BY NoneOutAtAdd DEF IInv
  <2>2. IInv'
    BY <2>1, StepIInv
  <2> QED
    BY <2>2, StepCInv DEF IInv
<1> QED
  BY InitIInv, InitCInv, <1>1, PTL DEF Spec

(***************************************************************************)
(* With one processor, where INC and DEC of the count of outstanding       *)
(* blocks are not interrupted, the count is exact and nobody sleeps over a *)
(* request; and a library that is put in the request list has nothing      *)
(* outstanding, so that this need not be asked for.                        *)
(***************************************************************************)
THEOREM RequestsReach ==
  ASSUME SMP = FALSE
  PROVE  Spec /\ []OwnThread /\ []OneDefiner
         => [](RequestsKept /\ ReadsRequested /\ RightBlock /\ ListsKept /\ mpc # "aborted")
<1>1. IInv /\ CInv => RequestsKept
  BY InvRequests
<1>2. IInv => ReadsRequested /\ RightBlock /\ ListsKept
  BY InvReads, InvRightBlock, InvLists
<1>3. IInv => mpc # "aborted"
  BY DEF IInv, QInv, EndInv
<1> QED
  BY OneProcessor, <1>1, <1>2, <1>3, PTL

LEMMA StepMarked == ASSUME marked \subseteq Modules, [Next]_vars PROVE (marked \subseteq Modules)'
<1> USE DEF libVars, mainVars
<1>1. CASE UNCHANGED vars
  BY <1>1 DEF vars
<1>2. ASSUME NEW t \in Threads, LibReadT(t) PROVE marked' = marked
  BY <1>2, ThreadFrame DEF bookVars
<1>3. CASE Capture(Main) \/ ReleasePost(Main)
  BY <1>3, CaptureFrame DEF Procs
<1>4. ASSUME NEW s \in Symbols, Reference(s) PROVE marked' \subseteq Modules
  BY <1>4, LibReadAssumption DEF Reference
<1>5. CASE AddToRequestList \/ RequestBlock \/ CountWrite \/ StoreNumber \/ BumpLib
  BY <1>5 DEF AddToRequestList, RequestBlock, CountWrite, StoreNumber, BumpLib
<1>6. CASE SelectLibrary \/ FindModule \/ VerifyBlock \/ WaitRead \/ DecLibBlock \/ Deselect
  BY <1>6 DEF SelectLibrary, FindModule, VerifyBlock, WaitRead, DecLibBlock, Deselect
<1>7. CASE RemoveFromRequestList \/ LibrariesDone \/ Bump \/ CloseLibFiles \/ Join
  BY <1>7 DEF RemoveFromRequestList, LibrariesDone, Bump, CloseLibFiles, Join
<1> QED
  BY <1>1, <1>2, <1>3, <1>4, <1>5, <1>6, <1>7, MainSteps DEF Next

LEMMA OneDefinerHolds ==
  ASSUME \A m, n \in Modules : m # n => Defines[m] \cap Defines[n] = {}
  PROVE  Spec => []OneDefiner
<1>1. Init => marked \subseteq Modules
  BY DEF Init
<1>2. marked \subseteq Modules /\ [Next]_vars => (marked \subseteq Modules)'
  BY StepMarked
<1>3. marked \subseteq Modules => OneDefiner
  BY DEF OneDefiner
<1> QED
  BY <1>1, <1>2, <1>3, PTL DEF Spec

(***************************************************************************)
(* The same of the program as it is given, with no word on its behaviour:  *)
(* a thread for each library, one processor, and libraries in which no     *)
(* symbol is defined twice.                                                *)
(***************************************************************************)
THEOREM FewLibraries ==
  ASSUME SMP = FALSE, Cardinality(Libs) <= N_R_THREADS,
         \A m, n \in Modules : m # n => Defines[m] \cap Defines[n] = {}
  PROVE  Spec => [](RequestsKept /\ ReadsRequested /\ RightBlock /\ ListsKept /\ mpc # "aborted")
<1>1. Spec => []OwnThread /\ []OneDefiner
  BY EnoughThreads, OneDefinerHolds, PTL
<1> QED
  BY <1>1, RequestsReach, PTL

------------------------------------------------------------------------------
(* The blocks are fetched.                                                 *)

(* What a step can do to the blocks that were requested and those read.    *)
Asks(l, b) ==
  /\ b \notin flagged[l]
  /\ flagged' = [flagged EXCEPT ![l] = @ \union {b}] /\ table' = table
Stores(l, b) ==
  /\ b \in Out(l)
  /\ table' = [table EXCEPT ![l][b] = b] /\ flagged' = flagged
Frees(l, b) ==
  /\ table[l][b] = b /\ b \in flagged[l]
  /\ table' = [table EXCEPT ![l][b] = NoBlock]
  /\ flagged' = [flagged EXCEPT ![l] = @ \ {b}]

LEMMA StepBlocks ==
  ASSUME IInv, [Next]_vars, ~libsDone
  PROVE  \/ UNCHANGED <<table, flagged>>
         \/ /\ libsDone' = libsDone
            /\ \E l \in Libs, b \in AllBlocks : Asks(l, b) \/ Stores(l, b) \/ Frees(l, b)
<1> USE DEF IInv, libVars, mainVars
<1>1. CASE UNCHANGED vars
  BY <1>1 DEF vars
<1>2. ASSUME NEW t \in Threads, LibReadT(t)
      PROVE  \/ UNCHANGED <<table, flagged>>
             \/ libsDone' = libsDone /\ \E l \in Libs, b \in AllBlocks : Stores(l, b)
  <2>1. flagged' = flagged /\ libsDone' = libsDone
    BY <1>2, ThreadFrame DEF blockVars
  <2>2. CASE Store(t)
    BY <2>1, <2>2, StoreBInv DEF Stores
  <2> QED
    BY <1>2, <2>1, <2>2, TableFrame
<1>3. CASE Capture(Main) \/ ReleasePost(Main)
  BY <1>3, CaptureFrame DEF Procs
<1>4. ASSUME NEW s \in Symbols, Reference(s) PROVE UNCHANGED <<table, flagged>>
  BY <1>4 DEF Reference
<1>5. CASE RequestBlock
  <2>1. libsDone' = libsDone /\ table' = table
    BY <1>5 DEF RequestBlock
  <2> QED
    BY <1>5, <2>1, RequestBInv DEF Asks
<1>6. CASE DecLibBlock
  <2>1. libsDone' = libsDone
    BY <1>6 DEF DecLibBlock
  <2> QED
    BY <1>6, <2>1, DecBInv DEF Frees
<1>7. CASE AddToRequestList \/ CountWrite \/ StoreNumber \/ BumpLib
  BY <1>7 DEF AddToRequestList, CountWrite, StoreNumber, BumpLib
<1>8. CASE SelectLibrary \/ FindModule \/ VerifyBlock \/ WaitRead \/ Deselect
  BY <1>8 DEF SelectLibrary, FindModule, VerifyBlock, WaitRead, Deselect
<1>9. CASE RemoveFromRequestList \/ LibrariesDone \/ Bump \/ Join
  BY <1>9 DEF RemoveFromRequestList, LibrariesDone, Bump, Join
<1>10. CASE CloseLibFiles
  BY <1>10 DEF CloseLibFiles, QInv, EndInv, Ending
<1> QED
  BY <1>1, <1>2, <1>3, <1>4, <1>5, <1>6, <1>7, <1>8, <1>9, <1>10, MainSteps DEF Next

(* The end is final. *)
LEMMA DoneStays == ASSUME QInv, QInv', [Next]_vars, libsDone PROVE libsDone'
<1> USE DEF libVars, mainVars
<1>1. CASE UNCHANGED vars
  BY <1>1 DEF vars
<1>2. ASSUME NEW t \in Threads, LibReadT(t) PROVE libsDone'
  BY <1>2, ThreadFrame DEF blockVars
<1>3. CASE Capture(Main) \/ ReleasePost(Main)
  BY <1>3, CaptureFrame DEF Procs
<1>4. CASE MainStep /\ ~Capture(Main) /\ ~ReleasePost(Main)
  <2>1. mpc \in {"bump", "close", "join", "finished"}
    BY DEF QInv, EndInv, Ending
  <2>2. CASE Bump \/ CloseLibFiles \/ Join
    BY <2>2 DEF Bump, CloseLibFiles, Join
  <2>3. \A s \in Symbols : ~Reference(s)
    BY <2>1 DEF Reference
  <2>4. ~AddToRequestList /\ ~RequestBlock /\ ~CountWrite /\ ~StoreNumber /\ ~BumpLib
    BY <2>1 DEF AddToRequestList, RequestBlock, CountWrite, StoreNumber, BumpLib
  <2>5. ~SelectLibrary /\ ~FindModule /\ ~VerifyBlock /\ ~WaitRead /\ ~DecLibBlock /\ ~Deselect
    BY <2>1 DEF SelectLibrary, FindModule, VerifyBlock, WaitRead, DecLibBlock, Deselect
  <2>6. ~RemoveFromRequestList /\ ~LibrariesDone
    BY <2>1 DEF RemoveFromRequestList, LibrariesDone
  <2> QED
    BY <1>4, <2>2, <2>3, <2>4, <2>5, <2>6, MainSteps
<1> QED
  BY <1>1, <1>2, <1>3, <1>4 DEF Next

(* The two sets of the abstract specification. *)
Pairs == Libs \X AllBlocks
AskedFor == IF libsDone THEN {}
            ELSE {p \in Pairs : p[2] \in flagged[p[1]] /\ table[p[1]][p[2]] = NoBlock}
Fetched  == IF libsDone THEN {} ELSE {p \in Pairs : table[p[1]][p[2]] = p[2]}

LEMMA FetchStep ==
  ASSUME IInv, IInv', [Next]_vars
  PROVE  [Fetcher!FetchNext]_(Fetcher!fetchVars)
<1>1. /\ flagged \in [Libs -> SUBSET AllBlocks] /\ flagged' \in [Libs -> SUBSET AllBlocks]
      /\ table \in [Libs -> [AllBlocks -> AllBlocks \union {NoBlock}]]
      /\ \A b \in AllBlocks : b # NoBlock
      /\ libsDone \in BOOLEAN /\ libsDone' \in BOOLEAN
  BY BlocksFromOne DEF IInv, BInv, BTypes, QInv, QTypes
<1>2. CASE libsDone
  <2>1. libsDone'
    BY <1>2, DoneStays DEF IInv
  <2> QED
    BY <1>2, <2>1 DEF Fetcher!fetchVars
<1>3. CASE ~libsDone /\ libsDone'
  BY <1>1, <1>3 DEF Fetcher!FetchNext, Fetcher!EndFetch
<1>4. CASE ~libsDone /\ ~libsDone'
  <2>1. CASE UNCHANGED <<table, flagged>>
    <3>1. libsDone' = libsDone
      BY <1>1, <1>4
    <3> QED
      BY <2>1, <3>1 DEF Fetcher!fetchVars
  <2>2. ASSUME NEW l \in Libs, NEW b \in AllBlocks, Asks(l, b) \/ Stores(l, b) \/ Frees(l, b)
        PROVE  Fetcher!FetchNext
    <3> DEFINE q == <<l, b>>
    <3>1. q \in Pairs /\ q[1] = l /\ q[2] = b /\ \A p \in Pairs : p[1] \in Libs /\ p[2] \in AllBlocks
      BY DEF Pairs
    <3>2. \A p \in Pairs : p = q <=> p[1] = l /\ p[2] = b
      BY DEF Pairs
    <3>3. CASE Asks(l, b)
      <4>1. table[l][b] = NoBlock
        BY <1>1, <1>4, <3>3 DEF Asks, IInv, BInv, Flags
      <4>2. q \notin AskedFor \union Fetched
        BY <1>1, <3>1, <3>3, <4>1 DEF Asks, AskedFor, Fetched
      <4>3. Fetched' = Fetched
        BY <1>4, <3>3 DEF Asks, Fetched
      <4>4. AskedFor' = AskedFor \union {q}
        <5> HIDE DEF q
        <5>1. \A p \in Pairs : p \in AskedFor' <=> p \in AskedFor \/ p = q
          BY <1>1, <1>4, <3>1, <3>2, <3>3, <4>1 DEF Asks, AskedFor
        <5>2. AskedFor' \subseteq Pairs /\ AskedFor \subseteq Pairs
          BY DEF AskedFor, Pairs
        <5> QED
          BY <3>1, <5>1, <5>2
      <4>5. Fetcher!Ask(q)
        BY <1>1, <1>4, <4>2, <4>3, <4>4 DEF Fetcher!Ask, AskedFor, Fetched, Pairs
      <4> QED
        BY <3>1, <4>5 DEF Fetcher!FetchNext, Pairs
    <3>4. CASE Stores(l, b)
      <4>1. q \in AskedFor
        BY <1>4, <3>1, <3>4 DEF Stores, Out, AskedFor
      <4>2. Fetched' = Fetched \union {q}
        <5> HIDE DEF q
        <5>1. \A p \in Pairs : p \in Fetched' <=> p \in Fetched \/ p = q
          BY <1>1, <1>4, <3>1, <3>2, <3>4 DEF Stores, Fetched
        <5>2. Fetched' \subseteq Pairs /\ Fetched \subseteq Pairs
          BY DEF Fetched, Pairs
        <5> QED
          BY <3>1, <5>1, <5>2
      <4>3. AskedFor' = AskedFor \ {q}
        <5> HIDE DEF q
        <5>1. \A p \in Pairs : p \in AskedFor' <=> p \in AskedFor /\ p # q
          BY <1>1, <1>4, <3>1, <3>2, <3>4 DEF Stores, AskedFor
        <5>2. AskedFor' \subseteq Pairs /\ AskedFor \subseteq Pairs
          BY DEF AskedFor, Pairs
        <5> QED
          BY <3>1, <5>1, <5>2
      <4>4. Fetcher!Fetch(q)
        BY <1>1, <1>4, <4>1, <4>2, <4>3 DEF Fetcher!Fetch, AskedFor, Fetched, Pairs
      <4> QED
        BY <3>1, <4>4 DEF Fetcher!FetchNext, Pairs
    <3>5. CASE Frees(l, b)
      <4>1. q \in Fetched
        BY <1>4, <3>1, <3>5 DEF Frees, Fetched
      <4>2. Fetched' = Fetched \ {q}
        <5> HIDE DEF q
        <5>1. \A p \in Pairs : p \in Fetched' <=> p \in Fetched /\ p # q
          BY <1>1, <1>4, <3>1, <3>2, <3>5 DEF Frees, Fetched
        <5>2. Fetched' \subseteq Pairs /\ Fetched \subseteq Pairs
          BY DEF Fetched, Pairs
        <5> QED
          BY <3>1, <5>1, <5>2
      <4>3. AskedFor' = AskedFor
        <5> HIDE DEF q
        <5>1. \A p \in Pairs : p \in AskedFor' <=> p \in AskedFor
          BY <1>1, <1>4, <3>1, <3>2, <3>5 DEF Frees, AskedFor
        <5>2. AskedFor' \subseteq Pairs /\ AskedFor \subseteq Pairs
          BY DEF AskedFor, Pairs
        <5> QED
          BY <3>1, <5>1, <5>2
      <4>4. Fetcher!Free(q)
        BY <1>1, <1>4, <4>1, <4>2, <4>3 DEF Fetcher!Free, AskedFor, Fetched, Pairs
      <4> QED
        BY <3>1, <4>4 DEF Fetcher!FetchNext, Pairs
    <3> QED
      BY <2>2, <3>3, <3>4, <3>5
  <2> QED
    BY <1>4, <2>1, <2>2, StepBlocks
<1> QED
  BY <1>1, <1>2, <1>3, <1>4

LEMMA FetchStart == Init => Fetcher!FetchInit
<1> SUFFICES ASSUME Init PROVE Fetcher!FetchInit
  OBVIOUS
<1>1. /\ \A l \in Libs : flagged[l] = {}
      /\ \A l \in Libs : \A b \in AllBlocks : table[l][b] = NoBlock
      /\ libsDone = FALSE
  BY DEF Init
<1>2. AskedFor = {} /\ Fetched = {}
  BY <1>1, BlocksFromOne DEF AskedFor, Fetched, Pairs
<1> QED
  BY <1>1, <1>2 DEF Fetcher!FetchInit, AskedFor, Fetched, Pairs

(***************************************************************************)
(* Main and its threads fetch what is asked for: a block that was asked    *)
(* for is fetched once, stays until main frees it and may only then be     *)
(* asked for again.  The safety part of ImplementsFetch, for any number of *)
(* libraries, modules and threads, on one processor or more.               *)
(***************************************************************************)
THEOREM ImplementsFetchSafety ==
  Spec /\ []OwnThread /\ []OneDefiner /\ []ListedEmpty => Fetcher!FetchSafety
<1>1. IInv /\ IInv' /\ [Next]_vars => [Fetcher!FetchNext]_(Fetcher!fetchVars)
  BY FetchStep
<1> QED
  BY FetchStart, LibReadInvHolds, <1>1, PTL DEF Spec, Fetcher!FetchSafety

(***************************************************************************)
(* The same of a link whose constants alone say so: a thread for each      *)
(* library, one processor, and no symbol defined twice.                    *)
(***************************************************************************)
THEOREM FewLibrariesFetch ==
  ASSUME SMP = FALSE, Cardinality(Libs) <= N_R_THREADS,
         \A m, n \in Modules : m # n => Defines[m] \cap Defines[n] = {}
  PROVE  Spec => Fetcher!FetchSafety
<1>1. Spec => []OwnThread /\ []OneDefiner
  BY EnoughThreads, OneDefinerHolds, PTL
<1>2. IInv /\ CInv => ListedEmpty
  BY NoneOutAtAdd DEF IInv
<1>3. Spec => []ListedEmpty
  BY <1>1, <1>2, OneProcessor, PTL
<1> QED
  BY <1>1, <1>3, ImplementsFetchSafety, PTL
==============================================================================
