---------------------------- MODULE LibSearchProofs ----------------------------
(***************************************************************************)
(* What LibSearch says of the search in libraries, proved for every number *)
(* of symbols and libraries and every program.                             *)
(*                                                                         *)
(* The operators are folds over sequences.  Recursion and the lemmas after *)
(* it reduce a fold to what one application keeps; each operator on the    *)
(* symbol table then has one lemma, ...Moves, that says which symbol it    *)
(* changes, to what types, and that the lists stay sound; what a module, a *)
(* dictionary or a scan does follows by the folds, and an action keeps the *)
(* invariant by the lemma of its operator.                                 *)
(***************************************************************************)
EXTENDS LibSearch, WellFoundedInduction, FiniteSetTheorems, SequenceTheorems, TLAPS

(* A set of numbers that is not empty has a least.                         *)
LEMMA LeastNumber ==
  ASSUME NEW S, S \subseteq Nat, S # {}
  PROVE  \E n \in S : \A m \in S : n <= m
<1> DEFINE R == {p \in Nat \X Nat : p[1] < p[2]}
<1>1. IsWellFoundedOn(R, Nat)
  BY NatLessThanWellFounded DEF OpToRel
<1>2. \E n \in S : \A m \in S : <<m, n>> \notin R
  <2> HIDE DEF R
  <2> QED
    BY <1>1, WFMin
<1>3. PICK n \in S : \A m \in S : <<m, n>> \notin R
  BY <1>2
<1>4. ASSUME NEW m \in S PROVE n <= m
  <2>1. m \in Nat /\ n \in Nat /\ ~(m < n)
    BY <1>3
  <2> QED
    BY <2>1
<1> QED
  BY <1>4

(* Induction up to n, for a set instead of a predicate.                    *)
LEMMA UpTo ==
  ASSUME NEW n \in Nat, NEW S, 0 \in S, \A i \in 0 .. n - 1 : i \in S => i + 1 \in S
  PROVE  0 .. n \subseteq S
<1> DEFINE T == (0 .. n) \ S
<1> SUFFICES ASSUME T # {} PROVE FALSE
  OBVIOUS
<1>1. T \subseteq Nat
  OBVIOUS
<1>2. PICK k \in T : \A m \in T : k <= m
  <2> HIDE DEF T
  <2> QED
    BY <1>1, LeastNumber
<1>3. k - 1 \in 0 .. n - 1 /\ k - 1 \in S
  BY <1>2
<1> QED
  BY <1>3

-----------------------------------------------------------------------------
(* Recursion up to n.  A step is a function of the number and of the value *)
(* before it; the value at i is in P[i].                                   *)
Iterates(f, n, t, F) == f = [i \in 0 .. n |-> IF i = 0 THEN t ELSE F[<<i, f[i - 1]>>]]

(* A function defined by recursion on 0 .. n is its iterates.              *)
LEMMA Recursion ==
  ASSUME NEW n \in Nat, NEW P, NEW t \in P[0], NEW F,
         \A i \in 1 .. n : \A u \in P[i - 1] : F[<<i, u>>] \in P[i]
  PROVE  \E f : Iterates(f, n, t, F) /\ \A i \in 0 .. n : f[i] \in P[i]
<1> DEFINE S == {k \in 0 .. n : \E f : Iterates(f, k, t, F) /\ \A i \in 0 .. k : f[i] \in P[i]}
<1>1. 0 \in S
  <2> DEFINE f == [i \in 0 .. 0 |-> t]
  <2>1. f = [i \in 0 .. 0 |-> IF i = 0 THEN t ELSE F[<<i, f[i - 1]>>]]
    OBVIOUS
  <2>2. \A i \in 0 .. 0 : f[i] \in P[i]
    OBVIOUS
  <2>3. 0 \in 0 .. n /\ Iterates(f, 0, t, F)
    BY <2>1 DEF Iterates
  <2> QED
    <3> HIDE DEF f
    <3> QED
      BY <2>2, <2>3
<1>2. ASSUME NEW k \in 0 .. n - 1, k \in S PROVE k + 1 \in S
  <2>1. PICK f : Iterates(f, k, t, F) /\ \A i \in 0 .. k : f[i] \in P[i]
    BY <1>2
  <2> DEFINE e == F[<<k + 1, f[k]>>]
             g == [i \in 0 .. k + 1 |-> IF i = k + 1 THEN e ELSE f[i]]
  <2>2. e \in P[k + 1]
    <3>1. k + 1 \in 1 .. n /\ (k + 1) - 1 = k /\ k \in 0 .. k
      OBVIOUS
    <3> QED
      BY <2>1, <3>1
  <2>3. \A i \in 0 .. k : f[i] = IF i = 0 THEN t ELSE F[<<i, f[i - 1]>>]
    BY <2>1 DEF Iterates
  <2>4. ASSUME NEW i \in 0 .. k + 1
        PROVE  g[i] = (IF i = 0 THEN t ELSE F[<<i, g[i - 1]>>]) /\ g[i] \in P[i]
    <3>1. CASE i = k + 1
      <4>1. g[i] = e /\ g[i - 1] = f[k] /\ i # 0
        BY <3>1
      <4> QED
        BY <4>1, <3>1, <2>2
    <3>2. CASE i # k + 1
      <4>1. i \in 0 .. k /\ g[i] = f[i] /\ (i # 0 => g[i - 1] = f[i - 1])
        BY <3>2
      <4> QED
        BY <4>1, <2>1, <2>3
    <3> QED
      BY <3>1, <3>2
  <2>5. DOMAIN g = 0 .. k + 1
    OBVIOUS
  <2>6. g = [i \in 0 .. k + 1 |-> g[i]]
    OBVIOUS
  <2>7. Iterates(g, k + 1, t, F) /\ k + 1 \in 0 .. n
    <3> HIDE DEF g
    <3> QED
      BY <2>4, <2>6 DEF Iterates
  <2> QED
    <3> HIDE DEF g
    <3> QED
      BY <2>4, <2>7
<1>3. 0 .. n \subseteq S
  <2> HIDE DEF S
  <2> QED
    BY <1>1, <1>2, UpTo
<1>4. n \in S
  BY <1>3
<1> QED
  BY <1>4

(* What holds at the first and passes from each to the next holds of all.  *)
LEMMA Throughout ==
  ASSUME NEW n \in Nat, NEW P, NEW g, g[0] \in P[0],
         \A i \in 1 .. n : g[i - 1] \in P[i - 1] => g[i] \in P[i]
  PROVE  \A i \in 0 .. n : g[i] \in P[i]
<1> DEFINE S == {i \in 0 .. n : g[i] \in P[i]}
<1>1. 0 \in S
  OBVIOUS
<1>2. ASSUME NEW i \in 0 .. n - 1, i \in S PROVE i + 1 \in S
  <2>1. i + 1 \in 1 .. n /\ (i + 1) - 1 = i
    OBVIOUS
  <2> QED
    BY <1>2, <2>1
<1>3. 0 .. n \subseteq S
  <2> HIDE DEF S
  <2> QED
    BY <1>1, <1>2, UpTo
<1> QED
  BY <1>3

(* The same when all the values are in one set.                            *)
LEMMA Recursive ==
  ASSUME NEW n \in Nat, NEW Q, NEW t \in Q, NEW F,
         \A i \in 1 .. n : \A u \in Q : F[<<i, u>>] \in Q
  PROVE  \E f : Iterates(f, n, t, F) /\ \A i \in 0 .. n : f[i] \in Q
<1> DEFINE P == [i \in 0 .. n |-> Q]
<1>1. \A i \in 0 .. n : P[i] = Q
  OBVIOUS
<1>2. 0 \in 0 .. n /\ \A i \in 1 .. n : i - 1 \in 0 .. n
  OBVIOUS
<1> HIDE DEF P
<1>3. t \in P[0] /\ \A i \in 1 .. n : \A u \in P[i - 1] : F[<<i, u>>] \in P[i]
  BY <1>1, <1>2
<1>4. PICK f : Iterates(f, n, t, F) /\ \A i \in 0 .. n : f[i] \in P[i]
  BY <1>3, Recursion
<1> QED
  BY <1>1, <1>4

(* What holds of every value at 0 .. n holds of the last.                  *)
LEMMA Always ==
  ASSUME NEW n \in Nat, NEW Q, NEW g, g[0] \in Q,
         \A i \in 1 .. n : g[i - 1] \in Q => g[i] \in Q
  PROVE  \A i \in 0 .. n : g[i] \in Q
<1> DEFINE P == [i \in 0 .. n |-> Q]
<1>1. \A i \in 0 .. n : P[i] = Q
  OBVIOUS
<1>2. 0 \in 0 .. n /\ \A i \in 1 .. n : i - 1 \in 0 .. n
  OBVIOUS
<1> HIDE DEF P
<1>3. g[0] \in P[0] /\ \A i \in 1 .. n : g[i - 1] \in P[i - 1] => g[i] \in P[i]
  BY <1>1, <1>2
<1>4. \A i \in 0 .. n : g[i] \in P[i]
  BY <1>3, Throughout
<1> QED
  BY <1>1, <1>4

-----------------------------------------------------------------------------
(* What a fold of the model leaves in a set that its step keeps.           *)
ExternType == [sym : Syms, how : SUBSET {"hard", "soft"}]

(* The publics of a module, of which those of code are in a segment of     *)
(* class CODE and those of d were COMDEFs before.                          *)
InPublics(t, q, code, d) == InOrder(LAMBDA v, s : DoPublic(v, s, s \in code, s \in d), t, q)

(* The publics of a module.                                                *)
LEMMA DoPublics ==
  ASSUME NEW code, NEW d, NEW Q, NEW t \in Q, NEW E, NEW q \in Seq(E),
         \A u \in Q : \A e \in E : DoPublic(u, e, e \in code, e \in d) \in Q
  PROVE  InPublics(t, q, code, d) \in Q
<1> DEFINE n == Len(q)
           F == [x \in (1 .. n) \X Q |-> DoPublic(x[2], q[x[1]], q[x[1]] \in code, q[x[1]] \in d)]
           Then(i, w) == CHOOSE y \in {DoPublic(u, q[i], q[i] \in code, q[i] \in d) : u \in {w}} : TRUE
           after == CHOOSE f : f = [i \in 0 .. n |-> IF i = 0 THEN t ELSE Then(i, f[i - 1])]
<1>1. n \in Nat /\ \A i \in 1 .. n : i - 1 \in 0 .. n /\ q[i] \in E
  OBVIOUS
<1>2. \A i \in 1 .. n : \A w \in Q : Then(i, w) = F[<<i, w>>] /\ F[<<i, w>>] \in Q
  BY <1>1
<1>3. PICK f : Iterates(f, n, t, F) /\ \A i \in 0 .. n : f[i] \in Q
  <2> HIDE DEF F, n, Then
  <2> QED
    BY <1>1, <1>2, Recursive
<1> HIDE DEF F, n, Then
<1>4. f = [i \in 0 .. n |-> IF i = 0 THEN t ELSE Then(i, f[i - 1])]
  <2>1. \A i \in 0 .. n : i # 0 => F[<<i, f[i - 1]>>] = Then(i, f[i - 1])
    <3>1. \A i \in 0 .. n : i # 0 => i \in 1 .. n /\ f[i - 1] \in Q
      BY <1>1, <1>3
    <3> QED
      BY <1>2, <3>1
  <2> QED
    BY <1>3, <2>1 DEF Iterates
<1>5. after = [i \in 0 .. n |-> IF i = 0 THEN t ELSE Then(i, after[i - 1])]
  BY <1>4
<1> HIDE DEF after
<1>6. after[0] = t /\ \A i \in 1 .. n : after[i - 1] \in Q => after[i] \in Q
  <2>1. after[0] = t /\ \A i \in 1 .. n : after[i] = Then(i, after[i - 1])
    BY <1>1, <1>5
  <2>2. ASSUME NEW i \in 1 .. n, after[i - 1] \in Q
        PROVE  after[i] \in Q
    <3>1. after[i] = Then(i, after[i - 1])
      BY <2>1
    <3>2. Then(i, after[i - 1]) \in Q
      BY <1>2, <2>2
    <3> QED
      BY <3>1, <3>2
  <2> QED
    BY <2>1, <2>2
<1>7. \A i \in 0 .. n : after[i] \in Q
  BY <1>1, <1>6, Always
<1>8. after[n] \in Q
  BY <1>1, <1>7
<1> QED
  BY <1>8 DEF InPublics, InOrder, after, n, Then

(* Its communals. *)
InComdefs(t, q, l, k) == InOrder(LAMBDA v, s : Comdef(v, s, l, k), t, q)

(* Its communals.                                                          *)
LEMMA ComdefsInTurn ==
  ASSUME NEW l, NEW k, NEW P, NEW t \in P[0], NEW E, NEW q \in Seq(E),
         \A i \in 1 .. Len(q) : \A u \in P[i - 1] :
           Comdef(u, q[i], l, k) \in P[i]
  PROVE  InComdefs(t, q, l, k) \in P[Len(q)]
<1> DEFINE n == Len(q)
           F == [x \in (1 .. n) \X UNION {P[i] : i \in 0 .. n} |->
                   Comdef(x[2], q[x[1]], l, k)]
           Then(i, w) == CHOOSE y \in {Comdef(u, q[i], l, k) : u \in {w}} : TRUE
           after == CHOOSE f : f = [i \in 0 .. n |-> IF i = 0 THEN t ELSE Then(i, f[i - 1])]
<1>1. n \in Nat /\ \A i \in 1 .. n : i - 1 \in 0 .. n
  OBVIOUS
<1>2. \A i \in 1 .. n : \A w \in P[i - 1] : Then(i, w) = F[<<i, w>>] /\ F[<<i, w>>] \in P[i]
  <2>1. \A i \in 1 .. n : \A w \in P[i - 1] : <<i, w>> \in (1 .. n) \X UNION {P[j] : j \in 0 .. n}
    BY <1>1
  <2> QED
    BY <2>1
<1>3. PICK f : Iterates(f, n, t, F) /\ \A i \in 0 .. n : f[i] \in P[i]
  <2> HIDE DEF F, n, Then
  <2> QED
    BY <1>1, <1>2, Recursion
<1> HIDE DEF F, n, Then
<1>4. f = [i \in 0 .. n |-> IF i = 0 THEN t ELSE Then(i, f[i - 1])]
  <2>1. \A i \in 0 .. n : i # 0 => F[<<i, f[i - 1]>>] = Then(i, f[i - 1])
    <3>1. \A i \in 0 .. n : i # 0 => i \in 1 .. n /\ f[i - 1] \in P[i - 1]
      BY <1>1, <1>3
    <3> QED
      BY <1>2, <3>1
  <2> QED
    BY <1>3, <2>1 DEF Iterates
<1>5. after = [i \in 0 .. n |-> IF i = 0 THEN t ELSE Then(i, after[i - 1])]
  BY <1>4
<1> HIDE DEF after
<1>6. after[0] \in P[0] /\ \A i \in 1 .. n : after[i - 1] \in P[i - 1] => after[i] \in P[i]
  <2>1. after[0] = t /\ \A i \in 1 .. n : after[i] = Then(i, after[i - 1])
    BY <1>1, <1>5
  <2>2. ASSUME NEW i \in 1 .. n, after[i - 1] \in P[i - 1]
        PROVE  after[i] \in P[i]
    <3>1. after[i] = Then(i, after[i - 1])
      BY <2>1
    <3>2. Then(i, after[i - 1]) \in P[i]
      BY <1>2, <2>2
    <3> QED
      BY <3>1, <3>2
  <2> QED
    BY <2>1, <2>2
<1>7. \A i \in 0 .. n : after[i] \in P[i]
  BY <1>1, <1>6, Throughout
<1>8. after[n] \in P[n]
  BY <1>1, <1>7
<1> QED
  BY <1>8 DEF InComdefs, InOrder, after, n, Then

(* or all alike.                                                           *)
LEMMA Comdefs ==
  ASSUME NEW l, NEW k, NEW Q, NEW t \in Q, NEW E, NEW q \in Seq(E),
         \A u \in Q : \A e \in E : Comdef(u, e, l, k) \in Q
  PROVE  InComdefs(t, q, l, k) \in Q
<1> DEFINE P == [i \in 0 .. Len(q) |-> Q]
<1>1. t \in P[0] /\ Len(q) \in Nat /\ P[Len(q)] = Q
  OBVIOUS
<1>2. ASSUME NEW i \in 1 .. Len(q), NEW u \in P[i - 1]
      PROVE  Comdef(u, q[i], l, k) \in P[i]
  <2>1. i - 1 \in 0 .. Len(q) /\ i \in 0 .. Len(q) /\ q[i] \in E
    BY <1>1
  <2> QED
    BY <2>1
<1> HIDE DEF P
<1>3. InComdefs(t, q, l, k) \in P[Len(q)]
  BY <1>1, <1>2, ComdefsInTurn
<1> QED
  BY <1>1, <1>3

(* Its WKEXT records. *)
LEMMA Wkexts ==
  ASSUME NEW Q, NEW t \in Q, NEW E, NEW q \in Seq(E),
         \A u \in Q : \A e \in E : Wkext(u, e) \in Q
  PROVE  InOrder(Wkext, t, q) \in Q
<1> DEFINE n == Len(q)
           F == [x \in (1 .. n) \X Q |-> Wkext(x[2], q[x[1]])]
           Then(i, w) == CHOOSE y \in {Wkext(u, q[i]) : u \in {w}} : TRUE
           after == CHOOSE f : f = [i \in 0 .. n |-> IF i = 0 THEN t ELSE Then(i, f[i - 1])]
<1>1. n \in Nat /\ \A i \in 1 .. n : i - 1 \in 0 .. n /\ q[i] \in E
  OBVIOUS
<1>2. \A i \in 1 .. n : \A w \in Q : Then(i, w) = F[<<i, w>>] /\ F[<<i, w>>] \in Q
  BY <1>1
<1>3. PICK f : Iterates(f, n, t, F) /\ \A i \in 0 .. n : f[i] \in Q
  <2> HIDE DEF F, n, Then
  <2> QED
    BY <1>1, <1>2, Recursive
<1> HIDE DEF F, n, Then
<1>4. f = [i \in 0 .. n |-> IF i = 0 THEN t ELSE Then(i, f[i - 1])]
  <2>1. \A i \in 0 .. n : i # 0 => F[<<i, f[i - 1]>>] = Then(i, f[i - 1])
    <3>1. \A i \in 0 .. n : i # 0 => i \in 1 .. n /\ f[i - 1] \in Q
      BY <1>1, <1>3
    <3> QED
      BY <1>2, <3>1
  <2> QED
    BY <1>3, <2>1 DEF Iterates
<1>5. after = [i \in 0 .. n |-> IF i = 0 THEN t ELSE Then(i, after[i - 1])]
  BY <1>4
<1> HIDE DEF after
<1>6. after[0] = t /\ \A i \in 1 .. n : after[i - 1] \in Q => after[i] \in Q
  <2>1. after[0] = t /\ \A i \in 1 .. n : after[i] = Then(i, after[i - 1])
    BY <1>1, <1>5
  <2>2. ASSUME NEW i \in 1 .. n, after[i - 1] \in Q
        PROVE  after[i] \in Q
    <3>1. after[i] = Then(i, after[i - 1])
      BY <2>1
    <3>2. Then(i, after[i - 1]) \in Q
      BY <1>2, <2>2
    <3> QED
      BY <3>1, <3>2
  <2> QED
    BY <2>1, <2>2
<1>7. \A i \in 0 .. n : after[i] \in Q
  BY <1>1, <1>6, Always
<1>8. after[n] \in Q
  BY <1>1, <1>7
<1> QED
  BY <1>8 DEF InOrder, after, n, Then

(* Its LZEXT records. *)
LEMMA Lzexts ==
  ASSUME NEW Q, NEW t \in Q, NEW E, NEW q \in Seq(E),
         \A u \in Q : \A e \in E : Lzext(u, e) \in Q
  PROVE  InOrder(Lzext, t, q) \in Q
<1> DEFINE n == Len(q)
           F == [x \in (1 .. n) \X Q |-> Lzext(x[2], q[x[1]])]
           Then(i, w) == CHOOSE y \in {Lzext(u, q[i]) : u \in {w}} : TRUE
           after == CHOOSE f : f = [i \in 0 .. n |-> IF i = 0 THEN t ELSE Then(i, f[i - 1])]
<1>1. n \in Nat /\ \A i \in 1 .. n : i - 1 \in 0 .. n /\ q[i] \in E
  OBVIOUS
<1>2. \A i \in 1 .. n : \A w \in Q : Then(i, w) = F[<<i, w>>] /\ F[<<i, w>>] \in Q
  BY <1>1
<1>3. PICK f : Iterates(f, n, t, F) /\ \A i \in 0 .. n : f[i] \in Q
  <2> HIDE DEF F, n, Then
  <2> QED
    BY <1>1, <1>2, Recursive
<1> HIDE DEF F, n, Then
<1>4. f = [i \in 0 .. n |-> IF i = 0 THEN t ELSE Then(i, f[i - 1])]
  <2>1. \A i \in 0 .. n : i # 0 => F[<<i, f[i - 1]>>] = Then(i, f[i - 1])
    <3>1. \A i \in 0 .. n : i # 0 => i \in 1 .. n /\ f[i - 1] \in Q
      BY <1>1, <1>3
    <3> QED
      BY <1>2, <3>1
  <2> QED
    BY <1>3, <2>1 DEF Iterates
<1>5. after = [i \in 0 .. n |-> IF i = 0 THEN t ELSE Then(i, after[i - 1])]
  BY <1>4
<1> HIDE DEF after
<1>6. after[0] = t /\ \A i \in 1 .. n : after[i - 1] \in Q => after[i] \in Q
  <2>1. after[0] = t /\ \A i \in 1 .. n : after[i] = Then(i, after[i - 1])
    BY <1>1, <1>5
  <2>2. ASSUME NEW i \in 1 .. n, after[i - 1] \in Q
        PROVE  after[i] \in Q
    <3>1. after[i] = Then(i, after[i - 1])
      BY <2>1
    <3>2. Then(i, after[i - 1]) \in Q
      BY <1>2, <2>2
    <3> QED
      BY <3>1, <3>2
  <2> QED
    BY <2>1, <2>2
<1>7. \A i \in 0 .. n : after[i] \in Q
  BY <1>1, <1>6, Always
<1>8. after[n] \in Q
  BY <1>1, <1>7
<1> QED
  BY <1>8 DEF InOrder, after, n, Then

(* Its ALIAS records. *)
LEMMA Aliases ==
  ASSUME NEW Q, NEW t \in Q, NEW E, NEW q \in Seq(E),
         \A u \in Q : \A e \in E : Alias(u, e) \in Q
  PROVE  InOrder(Alias, t, q) \in Q
<1> DEFINE n == Len(q)
           F == [x \in (1 .. n) \X Q |-> Alias(x[2], q[x[1]])]
           Then(i, w) == CHOOSE y \in {Alias(u, q[i]) : u \in {w}} : TRUE
           after == CHOOSE f : f = [i \in 0 .. n |-> IF i = 0 THEN t ELSE Then(i, f[i - 1])]
<1>1. n \in Nat /\ \A i \in 1 .. n : i - 1 \in 0 .. n /\ q[i] \in E
  OBVIOUS
<1>2. \A i \in 1 .. n : \A w \in Q : Then(i, w) = F[<<i, w>>] /\ F[<<i, w>>] \in Q
  BY <1>1
<1>3. PICK f : Iterates(f, n, t, F) /\ \A i \in 0 .. n : f[i] \in Q
  <2> HIDE DEF F, n, Then
  <2> QED
    BY <1>1, <1>2, Recursive
<1> HIDE DEF F, n, Then
<1>4. f = [i \in 0 .. n |-> IF i = 0 THEN t ELSE Then(i, f[i - 1])]
  <2>1. \A i \in 0 .. n : i # 0 => F[<<i, f[i - 1]>>] = Then(i, f[i - 1])
    <3>1. \A i \in 0 .. n : i # 0 => i \in 1 .. n /\ f[i - 1] \in Q
      BY <1>1, <1>3
    <3> QED
      BY <1>2, <3>1
  <2> QED
    BY <1>3, <2>1 DEF Iterates
<1>5. after = [i \in 0 .. n |-> IF i = 0 THEN t ELSE Then(i, after[i - 1])]
  BY <1>4
<1> HIDE DEF after
<1>6. after[0] = t /\ \A i \in 1 .. n : after[i - 1] \in Q => after[i] \in Q
  <2>1. after[0] = t /\ \A i \in 1 .. n : after[i] = Then(i, after[i - 1])
    BY <1>1, <1>5
  <2>2. ASSUME NEW i \in 1 .. n, after[i - 1] \in Q
        PROVE  after[i] \in Q
    <3>1. after[i] = Then(i, after[i - 1])
      BY <2>1
    <3>2. Then(i, after[i - 1]) \in Q
      BY <1>2, <2>2
    <3> QED
      BY <3>1, <3>2
  <2> QED
    BY <2>1, <2>2
<1>7. \A i \in 0 .. n : after[i] \in Q
  BY <1>1, <1>6, Always
<1>8. after[n] \in Q
  BY <1>1, <1>7
<1> QED
  BY <1>8 DEF InOrder, after, n, Then

(* Its externals, at its end. *)
InExternals(t, q, m, r) == InOrder(LAMBDA v, e : ProcessExtrn(v, e.sym, Real(m, e), e.sym \in r), t, q)

(* Its externals, one by one,                                              *)
LEMMA ExternalsInTurn ==
  ASSUME NEW m, NEW r, NEW P, NEW t \in P[0], NEW E, NEW q \in Seq(E),
         \A i \in 1 .. Len(q) : \A u \in P[i - 1] :
           ProcessExtrn(u, q[i].sym, Real(m, q[i]), q[i].sym \in r) \in P[i]
  PROVE  InExternals(t, q, m, r) \in P[Len(q)]
<1> DEFINE n == Len(q)
           F == [x \in (1 .. n) \X UNION {P[i] : i \in 0 .. n} |->
                   ProcessExtrn(x[2], q[x[1]].sym, Real(m, q[x[1]]), q[x[1]].sym \in r)]
           Then(i, w) == CHOOSE y \in {ProcessExtrn(u, q[i].sym, Real(m, q[i]), q[i].sym \in r) : u \in {w}} : TRUE
           after == CHOOSE f : f = [i \in 0 .. n |-> IF i = 0 THEN t ELSE Then(i, f[i - 1])]
<1>1. n \in Nat /\ \A i \in 1 .. n : i - 1 \in 0 .. n
  OBVIOUS
<1>2. \A i \in 1 .. n : \A w \in P[i - 1] : Then(i, w) = F[<<i, w>>] /\ F[<<i, w>>] \in P[i]
  <2>1. \A i \in 1 .. n : \A w \in P[i - 1] : <<i, w>> \in (1 .. n) \X UNION {P[j] : j \in 0 .. n}
    BY <1>1
  <2> QED
    BY <2>1
<1>3. PICK f : Iterates(f, n, t, F) /\ \A i \in 0 .. n : f[i] \in P[i]
  <2> HIDE DEF F, n, Then
  <2> QED
    BY <1>1, <1>2, Recursion
<1> HIDE DEF F, n, Then
<1>4. f = [i \in 0 .. n |-> IF i = 0 THEN t ELSE Then(i, f[i - 1])]
  <2>1. \A i \in 0 .. n : i # 0 => F[<<i, f[i - 1]>>] = Then(i, f[i - 1])
    <3>1. \A i \in 0 .. n : i # 0 => i \in 1 .. n /\ f[i - 1] \in P[i - 1]
      BY <1>1, <1>3
    <3> QED
      BY <1>2, <3>1
  <2> QED
    BY <1>3, <2>1 DEF Iterates
<1>5. after = [i \in 0 .. n |-> IF i = 0 THEN t ELSE Then(i, after[i - 1])]
  BY <1>4
<1> HIDE DEF after
<1>6. after[0] \in P[0] /\ \A i \in 1 .. n : after[i - 1] \in P[i - 1] => after[i] \in P[i]
  <2>1. after[0] = t /\ \A i \in 1 .. n : after[i] = Then(i, after[i - 1])
    BY <1>1, <1>5
  <2>2. ASSUME NEW i \in 1 .. n, after[i - 1] \in P[i - 1]
        PROVE  after[i] \in P[i]
    <3>1. after[i] = Then(i, after[i - 1])
      BY <2>1
    <3>2. Then(i, after[i - 1]) \in P[i]
      BY <1>2, <2>2
    <3> QED
      BY <3>1, <3>2
  <2> QED
    BY <2>1, <2>2
<1>7. \A i \in 0 .. n : after[i] \in P[i]
  BY <1>1, <1>6, Throughout
<1>8. after[n] \in P[n]
  BY <1>1, <1>7
<1> QED
  BY <1>8 DEF InExternals, InOrder, after, n, Then

(* or all alike.                                                           *)
LEMMA Externals ==
  ASSUME NEW m, NEW r, NEW Q, NEW t \in Q, NEW E, NEW q \in Seq(E),
         \A u \in Q : \A e \in E : ProcessExtrn(u, e.sym, Real(m, e), e.sym \in r) \in Q
  PROVE  InExternals(t, q, m, r) \in Q
<1> DEFINE P == [i \in 0 .. Len(q) |-> Q]
<1>1. t \in P[0] /\ Len(q) \in Nat /\ P[Len(q)] = Q
  OBVIOUS
<1>2. ASSUME NEW i \in 1 .. Len(q), NEW u \in P[i - 1]
      PROVE  ProcessExtrn(u, q[i].sym, Real(m, q[i]), q[i].sym \in r) \in P[i]
  <2>1. i - 1 \in 0 .. Len(q) /\ i \in 0 .. Len(q) /\ q[i] \in E
    BY <1>1
  <2> QED
    BY <2>1
<1> HIDE DEF P
<1>3. InExternals(t, q, m, r) \in P[Len(q)]
  BY <1>1, <1>2, ExternalsInTurn
<1> QED
  BY <1>1, <1>3

(* The entries of a dictionary. *)
InEntries(t, q, l) == InOrder(LAMBDA u, e : LibSymbol(u, e[1], l, e[2]), t, q)

(* Its entries, one by one,                                                *)
LEMMA EntriesInTurn ==
  ASSUME NEW l, NEW P, NEW t \in P[0], NEW E, NEW q \in Seq(E),
         \A i \in 1 .. Len(q) : \A u \in P[i - 1] :
           LibSymbol(u, q[i][1], l, q[i][2]) \in P[i]
  PROVE  InEntries(t, q, l) \in P[Len(q)]
<1> DEFINE n == Len(q)
           F == [x \in (1 .. n) \X UNION {P[i] : i \in 0 .. n} |->
                   LibSymbol(x[2], q[x[1]][1], l, q[x[1]][2])]
           Then(i, w) == CHOOSE y \in {LibSymbol(u, q[i][1], l, q[i][2]) : u \in {w}} : TRUE
           after == CHOOSE f : f = [i \in 0 .. n |-> IF i = 0 THEN t ELSE Then(i, f[i - 1])]
<1>1. n \in Nat /\ \A i \in 1 .. n : i - 1 \in 0 .. n
  OBVIOUS
<1>2. \A i \in 1 .. n : \A w \in P[i - 1] : Then(i, w) = F[<<i, w>>] /\ F[<<i, w>>] \in P[i]
  <2>1. \A i \in 1 .. n : \A w \in P[i - 1] : <<i, w>> \in (1 .. n) \X UNION {P[j] : j \in 0 .. n}
    BY <1>1
  <2> QED
    BY <2>1
<1>3. PICK f : Iterates(f, n, t, F) /\ \A i \in 0 .. n : f[i] \in P[i]
  <2> HIDE DEF F, n, Then
  <2> QED
    BY <1>1, <1>2, Recursion
<1> HIDE DEF F, n, Then
<1>4. f = [i \in 0 .. n |-> IF i = 0 THEN t ELSE Then(i, f[i - 1])]
  <2>1. \A i \in 0 .. n : i # 0 => F[<<i, f[i - 1]>>] = Then(i, f[i - 1])
    <3>1. \A i \in 0 .. n : i # 0 => i \in 1 .. n /\ f[i - 1] \in P[i - 1]
      BY <1>1, <1>3
    <3> QED
      BY <1>2, <3>1
  <2> QED
    BY <1>3, <2>1 DEF Iterates
<1>5. after = [i \in 0 .. n |-> IF i = 0 THEN t ELSE Then(i, after[i - 1])]
  BY <1>4
<1> HIDE DEF after
<1>6. after[0] \in P[0] /\ \A i \in 1 .. n : after[i - 1] \in P[i - 1] => after[i] \in P[i]
  <2>1. after[0] = t /\ \A i \in 1 .. n : after[i] = Then(i, after[i - 1])
    BY <1>1, <1>5
  <2>2. ASSUME NEW i \in 1 .. n, after[i - 1] \in P[i - 1]
        PROVE  after[i] \in P[i]
    <3>1. after[i] = Then(i, after[i - 1])
      BY <2>1
    <3>2. Then(i, after[i - 1]) \in P[i]
      BY <1>2, <2>2
    <3> QED
      BY <3>1, <3>2
  <2> QED
    BY <2>1, <2>2
<1>7. \A i \in 0 .. n : after[i] \in P[i]
  BY <1>1, <1>6, Throughout
<1>8. after[n] \in P[n]
  BY <1>1, <1>7
<1> QED
  BY <1>8 DEF InEntries, InOrder, after, n, Then

(* or all alike.                                                           *)
LEMMA Entered ==
  ASSUME NEW l, NEW Q, NEW t \in Q, NEW E, NEW q \in Seq(E),
         \A u \in Q : \A e \in E : LibSymbol(u, e[1], l, e[2]) \in Q
  PROVE  InEntries(t, q, l) \in Q
<1> DEFINE P == [i \in 0 .. Len(q) |-> Q]
<1>1. t \in P[0] /\ Len(q) \in Nat /\ P[Len(q)] = Q
  OBVIOUS
<1>2. ASSUME NEW i \in 1 .. Len(q), NEW u \in P[i - 1]
      PROVE  LibSymbol(u, q[i][1], l, q[i][2]) \in P[i]
  <2>1. i - 1 \in 0 .. Len(q) /\ i \in 0 .. Len(q) /\ q[i] \in E
    BY <1>1
  <2> QED
    BY <2>1
<1> HIDE DEF P
<1>3. InEntries(t, q, l) \in P[Len(q)]
  BY <1>1, <1>2, EntriesInTurn
<1> QED
  BY <1>1, <1>3

(* The pages of a library. *)
LEMMA PagesInTurn ==
  ASSUME NEW P, NEW t \in P[0], NEW E, NEW q \in Seq(E),
         \A i \in 1 .. Len(q) : \A u \in P[i - 1] : InstallModulePage(u, q[i]) \in P[i]
  PROVE  InOrder(InstallModulePage, t, q) \in P[Len(q)]
<1> DEFINE n == Len(q)
           F == [x \in (1 .. n) \X UNION {P[i] : i \in 0 .. n} |-> InstallModulePage(x[2], q[x[1]])]
           Then(i, w) == CHOOSE y \in {InstallModulePage(u, q[i]) : u \in {w}} : TRUE
           after == CHOOSE f : f = [i \in 0 .. n |-> IF i = 0 THEN t ELSE Then(i, f[i - 1])]
<1>1. n \in Nat /\ \A i \in 1 .. n : i - 1 \in 0 .. n
  OBVIOUS
<1>2. \A i \in 1 .. n : \A w \in P[i - 1] : Then(i, w) = F[<<i, w>>] /\ F[<<i, w>>] \in P[i]
  <2>1. \A i \in 1 .. n : \A w \in P[i - 1] : <<i, w>> \in (1 .. n) \X UNION {P[j] : j \in 0 .. n}
    BY <1>1
  <2> QED
    BY <2>1
<1>3. PICK f : Iterates(f, n, t, F) /\ \A i \in 0 .. n : f[i] \in P[i]
  <2> HIDE DEF F, n, Then
  <2> QED
    BY <1>1, <1>2, Recursion
<1> HIDE DEF F, n, Then
<1>4. f = [i \in 0 .. n |-> IF i = 0 THEN t ELSE Then(i, f[i - 1])]
  <2>1. \A i \in 0 .. n : i # 0 => F[<<i, f[i - 1]>>] = Then(i, f[i - 1])
    <3>1. \A i \in 0 .. n : i # 0 => i \in 1 .. n /\ f[i - 1] \in P[i - 1]
      BY <1>1, <1>3
    <3> QED
      BY <1>2, <3>1
  <2> QED
    BY <1>3, <2>1 DEF Iterates
<1>5. after = [i \in 0 .. n |-> IF i = 0 THEN t ELSE Then(i, after[i - 1])]
  BY <1>4
<1> HIDE DEF after
<1>6. after[0] \in P[0] /\ \A i \in 1 .. n : after[i - 1] \in P[i - 1] => after[i] \in P[i]
  <2>1. after[0] = t /\ \A i \in 1 .. n : after[i] = Then(i, after[i - 1])
    BY <1>1, <1>5
  <2>2. ASSUME NEW i \in 1 .. n, after[i - 1] \in P[i - 1]
        PROVE  after[i] \in P[i]
    <3>1. after[i] = Then(i, after[i - 1])
      BY <2>1
    <3>2. Then(i, after[i - 1]) \in P[i]
      BY <1>2, <2>2
    <3> QED
      BY <3>1, <3>2
  <2> QED
    BY <2>1, <2>2
<1>7. \A i \in 0 .. n : after[i] \in P[i]
  BY <1>1, <1>6, Throughout
<1>8. after[n] \in P[n]
  BY <1>1, <1>7
<1> QED
  BY <1>8 DEF InOrder, after, n, Then

(* The ends of its modules. *)
LEMMA EndsInTurn ==
  ASSUME NEW P, NEW t \in P[0], NEW E, NEW q \in Seq(E),
         \A i \in 1 .. Len(q) : \A u \in P[i - 1] : EndOfModule(u, q[i]) \in P[i]
  PROVE  InOrder(EndOfModule, t, q) \in P[Len(q)]
<1> DEFINE n == Len(q)
           F == [x \in (1 .. n) \X UNION {P[i] : i \in 0 .. n} |-> EndOfModule(x[2], q[x[1]])]
           Then(i, w) == CHOOSE y \in {EndOfModule(u, q[i]) : u \in {w}} : TRUE
           after == CHOOSE f : f = [i \in 0 .. n |-> IF i = 0 THEN t ELSE Then(i, f[i - 1])]
<1>1. n \in Nat /\ \A i \in 1 .. n : i - 1 \in 0 .. n
  OBVIOUS
<1>2. \A i \in 1 .. n : \A w \in P[i - 1] : Then(i, w) = F[<<i, w>>] /\ F[<<i, w>>] \in P[i]
  <2>1. \A i \in 1 .. n : \A w \in P[i - 1] : <<i, w>> \in (1 .. n) \X UNION {P[j] : j \in 0 .. n}
    BY <1>1
  <2> QED
    BY <2>1
<1>3. PICK f : Iterates(f, n, t, F) /\ \A i \in 0 .. n : f[i] \in P[i]
  <2> HIDE DEF F, n, Then
  <2> QED
    BY <1>1, <1>2, Recursion
<1> HIDE DEF F, n, Then
<1>4. f = [i \in 0 .. n |-> IF i = 0 THEN t ELSE Then(i, f[i - 1])]
  <2>1. \A i \in 0 .. n : i # 0 => F[<<i, f[i - 1]>>] = Then(i, f[i - 1])
    <3>1. \A i \in 0 .. n : i # 0 => i \in 1 .. n /\ f[i - 1] \in P[i - 1]
      BY <1>1, <1>3
    <3> QED
      BY <1>2, <3>1
  <2> QED
    BY <1>3, <2>1 DEF Iterates
<1>5. after = [i \in 0 .. n |-> IF i = 0 THEN t ELSE Then(i, after[i - 1])]
  BY <1>4
<1> HIDE DEF after
<1>6. after[0] \in P[0] /\ \A i \in 1 .. n : after[i - 1] \in P[i - 1] => after[i] \in P[i]
  <2>1. after[0] = t /\ \A i \in 1 .. n : after[i] = Then(i, after[i - 1])
    BY <1>1, <1>5
  <2>2. ASSUME NEW i \in 1 .. n, after[i - 1] \in P[i - 1]
        PROVE  after[i] \in P[i]
    <3>1. after[i] = Then(i, after[i - 1])
      BY <2>1
    <3>2. Then(i, after[i - 1]) \in P[i]
      BY <1>2, <2>2
    <3> QED
      BY <3>1, <3>2
  <2> QED
    BY <2>1, <2>2
<1>7. \A i \in 0 .. n : after[i] \in P[i]
  BY <1>1, <1>6, Throughout
<1>8. after[n] \in P[n]
  BY <1>1, <1>7
<1> QED
  BY <1>8 DEF InOrder, after, n, Then

-----------------------------------------------------------------------------
(* What Those leaves of a sequence.                                        *)
Kept(q, D, i) == {q[j] : j \in 1 .. i} \intersect D

(* One more element of a selection.                                        *)
LEMMA AppendOne ==
  ASSUME NEW A, NEW s \in Seq(A), NEW e \in A
  PROVE  /\ Append(s, e) \in Seq(A) /\ Len(Append(s, e)) = Len(s) + 1
         /\ RangeOf(Append(s, e)) = RangeOf(s) \union {e}
         /\ IsInjective(s) /\ e \notin RangeOf(s) => IsInjective(Append(s, e))
         /\ \A i \in DOMAIN Append(s, e) : (i \in DOMAIN s /\ Append(s, e)[i] = s[i])
                                          \/ (i = Len(s) + 1 /\ Append(s, e)[i] = e)
<1> DEFINE r == Append(s, e)
<1>1. r \in Seq(A) /\ Len(r) = Len(s) + 1 /\ DOMAIN r = 1 .. Len(s) + 1 /\ DOMAIN s = 1 .. Len(s)
      /\ Len(s) \in Nat /\ r[Len(s) + 1] = e /\ \A i \in 1 .. Len(s) : r[i] = s[i]
  OBVIOUS
<1> HIDE DEF r
<1>2. RangeOf(r) = RangeOf(s) \union {e}
  BY <1>1 DEF RangeOf
<1>3. IsInjective(s) /\ e \notin RangeOf(s) => IsInjective(r)
  BY <1>1 DEF IsInjective, RangeOf
<1>4. \A i \in DOMAIN r : (i \in DOMAIN s /\ r[i] = s[i]) \/ (i = Len(s) + 1 /\ r[i] = e)
  BY <1>1
<1> QED
  BY <1>1, <1>2, <1>3, <1>4 DEF r

(* The elements of s come from the first i of q, in the same order.        *)
InTurn(s, q, i) ==
  \A a, b \in DOMAIN s : a < b => \E k, l \in 1 .. i : k < l /\ s[a] = q[k] /\ s[b] = q[l]

(* The elements of q that are in D, once each when q names none twice.     *)
LEMMA ThoseAre ==
  ASSUME NEW A, NEW q \in Seq(A), NEW D
  PROVE  /\ Those(q, D) \in Seq(A)
         /\ RangeOf(Those(q, D)) = RangeOf(q) \intersect D
         /\ IsInjective(q) => IsInjective(Those(q, D))
         /\ InTurn(Those(q, D), q, Len(q))
<1> DEFINE n == Len(q)
           Then(i, w) == IF q[i] \in D THEN Append(w, q[i]) ELSE w
           P == [i \in 0 .. n |-> {s \in Seq(A) : /\ RangeOf(s) = Kept(q, D, i)
                                                  /\ IsInjective(q) => IsInjective(s)
                                                  /\ InTurn(s, q, i)}]
           F == [x \in (1 .. n) \X Seq(A) |-> Then(x[1], x[2])]
           those == CHOOSE f : f = [i \in 0 .. n |-> IF i = 0 THEN <<>> ELSE Then(i, f[i - 1])]
<1>1. n \in Nat /\ n \in 0 .. n /\ \A i \in 1 .. n : i - 1 \in 0 .. n /\ q[i] \in A
  OBVIOUS
<1>0. \A i \in 0 .. n : \A s \in Seq(A) :
        /\ RangeOf(s) = Kept(q, D, i)
        /\ IsInjective(q) => IsInjective(s)
        /\ InTurn(s, q, i)
        => s \in P[i]
  OBVIOUS
<1>2. <<>> \in P[0]
  BY <1>1 DEF RangeOf, Kept, IsInjective, InTurn
<1>3. ASSUME NEW i \in 1 .. n, NEW w \in P[i - 1] PROVE Then(i, w) \in P[i]
  <2>1. /\ w \in Seq(A) /\ RangeOf(w) = Kept(q, D, i - 1) /\ (IsInjective(q) => IsInjective(w))
        /\ InTurn(w, q, i - 1)
    BY <1>1
  <2>2. Kept(q, D, i) = Kept(q, D, i - 1) \union ({q[i]} \intersect D)
    BY DEF Kept
  <2>3. IsInjective(q) => q[i] \notin Kept(q, D, i - 1)
    BY <1>1 DEF IsInjective, Kept
  <2>4. CASE q[i] \in D
    <3>1. /\ Append(w, q[i]) \in Seq(A) /\ RangeOf(Append(w, q[i])) = RangeOf(w) \union {q[i]}
          /\ IsInjective(w) /\ q[i] \notin RangeOf(w) => IsInjective(Append(w, q[i]))
      BY <1>1, <2>1, AppendOne
    <3>2. \A a \in DOMAIN Append(w, q[i]) : (a \in DOMAIN w /\ Append(w, q[i])[a] = w[a])
                                            \/ (a = Len(w) + 1 /\ Append(w, q[i])[a] = q[i])
      BY <1>1, <2>1, AppendOne
    <3>3. DOMAIN w = 1 .. Len(w) /\ Len(w) \in Nat
      BY <2>1
    <3> HIDE DEF n
    <3>4. InTurn(Append(w, q[i]), q, i)
      <4> DEFINE r == Append(w, q[i])
      <4> SUFFICES ASSUME NEW a \in DOMAIN r, NEW b \in DOMAIN r, a < b
                   PROVE  \E k, l \in 1 .. i : k < l /\ r[a] = q[k] /\ r[b] = q[l]
        BY DEF InTurn
      <4> HIDE DEF r
      <4>1. a \in DOMAIN w /\ r[a] = w[a]
        BY <3>2, <3>3 DEF r
      <4>2. CASE b \in DOMAIN w /\ r[b] = w[b]
        <5>1. PICK k, l \in 1 .. i - 1 : k < l /\ w[a] = q[k] /\ w[b] = q[l]
          BY <2>1, <4>1, <4>2 DEF InTurn
        <5>2. k \in 1 .. i /\ l \in 1 .. i
          BY <1>1, <5>1
        <5> QED
          BY <4>1, <4>2, <5>1, <5>2
      <4>3. CASE r[b] = q[i]
        <5>1. w[a] \in Kept(q, D, i - 1)
          BY <2>1, <4>1 DEF RangeOf
        <5>2. PICK k \in 1 .. i - 1 : w[a] = q[k]
          BY <5>1 DEF Kept
        <5>3. k \in 1 .. i /\ i \in 1 .. i /\ k < i
          BY <1>1, <5>2
        <5> QED
          BY <4>1, <4>3, <5>2, <5>3
      <4> QED
        BY <3>2, <4>2, <4>3 DEF r
    <3>5. RangeOf(Append(w, q[i])) = Kept(q, D, i)
      BY <2>1, <2>2, <2>4, <3>1
    <3>6. IsInjective(q) => IsInjective(Append(w, q[i]))
      BY <2>1, <2>3, <3>1
    <3>7. Append(w, q[i]) \in P[i]
      <4>1. i \in 0 .. n
        BY <1>1
      <4> HIDE DEF P
      <4> QED
        BY <1>0, <3>1, <3>4, <3>5, <3>6, <4>1
    <3> QED
      BY <2>4, <3>7
  <2>5. CASE q[i] \notin D
    <3>1. InTurn(w, q, i)
      <4>1. \A k \in 1 .. i - 1 : k \in 1 .. i
        BY <1>1
      <4> QED
        BY <2>1, <4>1 DEF InTurn
    <3>2. RangeOf(w) = Kept(q, D, i)
      BY <2>1, <2>2, <2>5
    <3>3. w \in P[i]
      <4>1. i \in 0 .. n
        BY <1>1
      <4> HIDE DEF P
      <4> QED
        BY <1>0, <2>1, <3>1, <3>2, <4>1
    <3> QED
      BY <2>5, <3>3
  <2> QED
    BY <2>4, <2>5
<1>4. \A i \in 1 .. n : \A w \in P[i - 1] : F[<<i, w>>] = Then(i, w) /\ F[<<i, w>>] \in P[i]
  <2>1. ASSUME NEW i \in 1 .. n, NEW w \in P[i - 1] PROVE w \in Seq(A)
    BY <1>1
  <2> QED
    BY <1>3, <2>1
<1>5. \A s \in P[n] : /\ s \in Seq(A) /\ RangeOf(s) = RangeOf(q) \intersect D
                      /\ IsInjective(q) => IsInjective(s)
                      /\ InTurn(s, q, n)
  BY <1>1 DEF RangeOf, Kept
<1> HIDE DEF P, F, Then, n
<1>6. PICK f : Iterates(f, n, <<>>, F) /\ \A i \in 0 .. n : f[i] \in P[i]
  BY <1>1, <1>2, <1>4, Recursion
<1>7. f = [i \in 0 .. n |-> IF i = 0 THEN <<>> ELSE Then(i, f[i - 1])]
  <2>1. ASSUME NEW i \in 0 .. n, i # 0 PROVE i \in 1 .. n /\ f[i - 1] \in P[i - 1]
    <3>1. i \in 1 .. n
      BY <1>1, <2>1
    <3> QED
      BY <1>1, <1>6, <3>1
  <2>2. \A i \in 0 .. n : i # 0 => F[<<i, f[i - 1]>>] = Then(i, f[i - 1])
    BY <1>4, <2>1
  <2> QED
    BY <1>6, <2>2 DEF Iterates
<1>8. those = [i \in 0 .. n |-> IF i = 0 THEN <<>> ELSE Then(i, those[i - 1])]
  BY <1>7
<1> HIDE DEF those
<1>9. those[0] = <<>> /\ \A i \in 1 .. n : those[i] = Then(i, those[i - 1])
  BY <1>1, <1>8
<1>10. those[0] \in P[0] /\ \A i \in 1 .. n : those[i - 1] \in P[i - 1] => those[i] \in P[i]
  BY <1>2, <1>4, <1>9
<1>11. \A i \in 0 .. n : those[i] \in P[i]
  BY <1>1, <1>10, Throughout
<1>12. Those(q, D) = those[n]
  BY DEF Those, those, Then, n
<1> QED
  BY <1>1, <1>5, <1>11, <1>12 DEF n

(* A sequence without one element.                                         *)
LEMMA WithoutOne ==
  ASSUME NEW A, NEW q \in Seq(A), NEW x
  PROVE  /\ Without(q, x) \in Seq(A)
         /\ RangeOf(Without(q, x)) = RangeOf(q) \ {x}
         /\ IsInjective(q) => IsInjective(Without(q, x))
<1>1. RangeOf(q) \intersect (RangeOf(q) \ {x}) = RangeOf(q) \ {x}
  OBVIOUS
<1> QED
  BY <1>1, ThoseAre DEF Without

(* A sequence that names nothing twice is as long as what it names.        *)
LEMMA Distinct ==
  ASSUME NEW A, NEW q \in Seq(A), IsInjective(q)
  PROVE  IsFiniteSet(RangeOf(q)) /\ Cardinality(RangeOf(q)) = Len(q)
<1>1. Len(q) \in Nat /\ DOMAIN q = 1 .. Len(q)
  OBVIOUS
<1>2. IsFiniteSet(1 .. Len(q)) /\ Cardinality(1 .. Len(q)) = Len(q)
  BY <1>1, FS_Interval
<1> DEFINE f == [i \in 1 .. Len(q) |-> q[i]]
<1>3. f \in Bijection(1 .. Len(q), RangeOf(q))
  BY <1>1 DEF Bijection, Injection, Surjection, RangeOf, IsInjective
<1> HIDE DEF f
<1>4. ExistsBijection(1 .. Len(q), RangeOf(q))
  BY <1>3 DEF ExistsBijection
<1> QED
  BY <1>2, <1>4, FS_Bijection

(* It is one shorter.                                                      *)
LEMMA OneShorter ==
  ASSUME NEW A, NEW q \in Seq(A), IsInjective(q), NEW x \in RangeOf(q)
  PROVE  Len(Without(q, x)) = Len(q) - 1
<1>1. Without(q, x) \in Seq(A) /\ RangeOf(Without(q, x)) = RangeOf(q) \ {x} /\ IsInjective(Without(q, x))
  BY WithoutOne
<1>2. IsFiniteSet(RangeOf(q)) /\ Cardinality(RangeOf(q)) = Len(q)
  BY Distinct
<1>3. Cardinality(RangeOf(Without(q, x))) = Len(Without(q, x))
  BY <1>1, Distinct
<1>4. Cardinality(RangeOf(q) \ {x}) = Cardinality(RangeOf(q)) - 1
  BY <1>2, FS_RemoveElement
<1> QED
  BY <1>1, <1>2, <1>3, <1>4

-----------------------------------------------------------------------------
(* The tables of a library.                                                *)
Ascends(s) == \A i, j \in DOMAIN s : i < j => s[i] < s[j]

(* Where the search of a table may be: it has found the value, or what is  *)
(* left holds it if the table does, and is less by one with every turn.    *)
Searching(table, val, k) ==
  {r \in [low : 0 .. Len(table), high : 0 .. Len(table), at : Int] :
     \/ r.at \in 0 .. Len(table) - 1 /\ table[r.at + 1] = val
     \/ /\ r.at = NotFound /\ r.low <= r.high
        /\ r.low = r.high \/ r.high - r.low <= Len(table) - k
        /\ Ascends(table) => \A j \in 0 .. Len(table) - 1 :
                               table[j + 1] = val => r.low <= j /\ j < r.high}

SearchTurn(table, val, r) ==
  IF r.low = r.high \/ r.at # NotFound THEN r
  ELSE IF table[r.low + (r.high - r.low) \div 2 + 1] < val
       THEN [r EXCEPT !.low = r.low + (r.high - r.low) \div 2 + 1]
  ELSE IF table[r.low + (r.high - r.low) \div 2 + 1] = val
       THEN [r EXCEPT !.at = r.low + (r.high - r.low) \div 2]
  ELSE [r EXCEPT !.high = r.low + (r.high - r.low) \div 2]

(* Halving.                                                                *)
LEMMA Halfway ==
  ASSUME NEW a \in Int, NEW b \in Int, a < b
  PROVE  a + (b - a) \div 2 \in Int /\ a <= a + (b - a) \div 2 /\ a + (b - a) \div 2 < b
OBVIOUS

(* A turn of the search goes on as the binary search does.                 *)
LEMMA SearchGoesOn ==
  ASSUME NEW table \in Seq(Nat), NEW val \in Int, NEW k \in 1 .. Len(table),
         NEW r \in Searching(table, val, k - 1)
  PROVE  SearchTurn(table, val, r) \in Searching(table, val, k)
<1> DEFINE n == Len(table)
           lo == r.low
           hi == r.high
           mid == lo + (hi - lo) \div 2
           next == SearchTurn(table, val, r)
<1>1. n \in Nat /\ k \in 1 .. n /\ DOMAIN table = 1 .. n /\ \A i \in 1 .. n : table[i] \in Nat
  OBVIOUS
<1>2. r \in [low : 0 .. n, high : 0 .. n, at : Int] /\ lo \in 0 .. n /\ hi \in 0 .. n
  BY DEF Searching
<1>3. \/ r.at \in 0 .. n - 1 /\ table[r.at + 1] = val
      \/ /\ r.at = NotFound /\ lo <= hi /\ (lo = hi \/ hi - lo <= n - (k - 1))
         /\ Ascends(table) => \A j \in 0 .. n - 1 : table[j + 1] = val => lo <= j /\ j < hi
  BY DEF Searching
<1>4. next = IF lo = hi \/ r.at # NotFound THEN r
             ELSE IF table[mid + 1] < val THEN [r EXCEPT !.low = mid + 1]
             ELSE IF table[mid + 1] = val THEN [r EXCEPT !.at = mid]
             ELSE [r EXCEPT !.high = mid]
  BY DEF SearchTurn
<1>5. \A u \in [low : 0 .. n, high : 0 .. n, at : Int] :
        \/ u.at \in 0 .. n - 1 /\ table[u.at + 1] = val
        \/ /\ u.at = NotFound /\ u.low <= u.high /\ (u.low = u.high \/ u.high - u.low <= n - k)
           /\ Ascends(table) => \A j \in 0 .. n - 1 : table[j + 1] = val => u.low <= j /\ j < u.high
        => u \in Searching(table, val, k)
  BY DEF Searching
<1>6. lo < hi => mid \in Int /\ lo <= mid /\ mid < hi
  BY <1>1, <1>2, Halfway
<1>7. \A e \in 0 .. n : [r EXCEPT !.low = e] \in [low : 0 .. n, high : 0 .. n, at : Int]
                     /\ [r EXCEPT !.low = e].low = e /\ [r EXCEPT !.low = e].high = hi
                     /\ [r EXCEPT !.low = e].at = r.at
  BY <1>2
<1>8. \A e \in 0 .. n : [r EXCEPT !.high = e] \in [low : 0 .. n, high : 0 .. n, at : Int]
                     /\ [r EXCEPT !.high = e].low = lo /\ [r EXCEPT !.high = e].high = e
                     /\ [r EXCEPT !.high = e].at = r.at
  BY <1>2
<1>9. \A e \in Int : [r EXCEPT !.at = e] \in [low : 0 .. n, high : 0 .. n, at : Int]
                  /\ [r EXCEPT !.at = e].at = e
  BY <1>2
<1>10. lo = r.low /\ hi = r.high
  OBVIOUS
<1> SUFFICES next \in Searching(table, val, k)
  OBVIOUS
<1> HIDE DEF n, lo, hi, mid, next
<1>11. CASE lo = hi \/ r.at # NotFound
  <2>1. next = r
    BY <1>4, <1>11
  <2>2. r.at # NotFound => r.at \in 0 .. n - 1 /\ table[r.at + 1] = val
    BY <1>3
  <2> QED
    BY <1>2, <1>3, <1>5, <1>10, <1>11, <2>1, <2>2
<1>12. CASE ~(lo = hi \/ r.at # NotFound)
  <2>1. lo < hi /\ hi - lo <= n - (k - 1) /\ r.at = NotFound
        /\ (Ascends(table) => \A j \in 0 .. n - 1 : table[j + 1] = val => lo <= j /\ j < hi)
    BY <1>1, <1>2, <1>3, <1>12 DEF NotFound
  <2>2. mid \in Int /\ lo <= mid /\ mid < hi /\ mid + 1 \in 1 .. n /\ mid \in 0 .. n - 1 /\ mid + 1 \in 0 .. n
        /\ mid \in 0 .. n
    BY <1>1, <1>2, <1>6, <2>1
  <2>3. table[mid + 1] \in Nat
    BY <1>1, <2>2
  <2>4. CASE table[mid + 1] < val
    <3>1. next = [r EXCEPT !.low = mid + 1]
      BY <1>4, <1>12, <2>4
    <3>2. next.low = mid + 1 /\ next.high = hi /\ next.at = NotFound
          /\ next \in [low : 0 .. n, high : 0 .. n, at : Int]
      BY <1>7, <2>1, <2>2, <3>1
    <3>3. ASSUME Ascends(table), NEW j \in 0 .. n - 1, table[j + 1] = val
          PROVE  mid + 1 <= j /\ j < hi
      <4>1. j < hi /\ j + 1 \in 1 .. n /\ j \in Int
        BY <1>1, <2>1, <3>3
      <4>2. j + 1 < mid + 1 => table[j + 1] < table[mid + 1]
        BY <1>1, <2>2, <3>3, <4>1 DEF Ascends
      <4>3. j + 1 # mid + 1
        BY <2>3, <2>4, <3>3
      <4> QED
        BY <2>2, <2>3, <2>4, <3>3, <4>1, <4>2, <4>3
    <3>4. mid + 1 <= hi /\ hi - (mid + 1) <= n - k
      BY <1>1, <1>2, <2>1, <2>2
    <3> QED
      BY <1>5, <3>2, <3>3, <3>4
  <2>5. CASE table[mid + 1] = val
    <3>1. next = [r EXCEPT !.at = mid]
      BY <1>4, <1>12, <2>3, <2>5
    <3> QED
      BY <1>5, <1>9, <2>2, <2>5, <3>1
  <2>6. CASE table[mid + 1] > val
    <3>1. next = [r EXCEPT !.high = mid]
      BY <1>4, <1>12, <2>3, <2>6
    <3>2. next.low = lo /\ next.high = mid /\ next.at = NotFound
          /\ next \in [low : 0 .. n, high : 0 .. n, at : Int]
      BY <1>8, <2>1, <2>2, <3>1
    <3>3. ASSUME Ascends(table), NEW j \in 0 .. n - 1, table[j + 1] = val
          PROVE  lo <= j /\ j < mid
      <4>1. lo <= j /\ j + 1 \in 1 .. n /\ j \in Int
        BY <1>1, <2>1, <3>3
      <4>2. mid + 1 < j + 1 => table[mid + 1] < table[j + 1]
        BY <1>1, <2>2, <3>3, <4>1 DEF Ascends
      <4>3. j + 1 # mid + 1
        BY <2>3, <2>6, <3>3
      <4> QED
        BY <2>2, <2>3, <2>6, <3>3, <4>1, <4>2, <4>3
    <3>4. lo <= mid /\ mid - lo <= n - k
      BY <1>1, <1>2, <2>1, <2>2
    <3> QED
      BY <1>5, <3>2, <3>3, <3>4
  <2> QED
    BY <2>3, <2>4, <2>5, <2>6
<1> QED
  BY <1>11, <1>12

(* What is found has the value; in an ascending table it is found.         *)
LEMMA HalveFinds ==
  ASSUME NEW table \in Seq(Nat), NEW val \in Int
  PROVE  \/ /\ Halve(table, val) \in 0 .. Len(table) - 1
            /\ table[Halve(table, val) + 1] = val
         \/ /\ Halve(table, val) = NotFound
            /\ Ascends(table) => val \notin RangeOf(table)
<1> DEFINE n == Len(table)
           first == [low |-> 0, high |-> n, at |-> NotFound]
           Then(w) == SearchTurn(table, val, w)
           P == [k \in 0 .. n |-> Searching(table, val, k)]
           F == [x \in (1 .. n) \X [low : 0 .. n, high : 0 .. n, at : Int] |-> Then(x[2])]
           turn == CHOOSE f : f = [k \in 0 .. n |-> IF k = 0 THEN first ELSE Then(f[k - 1])]
<1>1. n \in Nat /\ n \in 0 .. n /\ DOMAIN table = 1 .. n /\ \A i \in 1 .. n : i - 1 \in 0 .. n
  OBVIOUS
<1>2. first \in P[0]
  BY <1>1 DEF Searching, NotFound
<1>3. ASSUME NEW k \in 1 .. n, NEW w \in P[k - 1]
      PROVE  F[<<k, w>>] = Then(w) /\ Then(w) \in P[k]
  <2>1. w \in Searching(table, val, k - 1)
    BY <1>1
  <2>2. Then(w) \in P[k]
    BY <1>1, <2>1, SearchGoesOn
  <2>3. w \in [low : 0 .. n, high : 0 .. n, at : Int]
    BY <2>1 DEF Searching
  <2> QED
    BY <2>2, <2>3
<1>4. \A r \in P[n] : \/ r.at \in 0 .. n - 1 /\ table[r.at + 1] = val
                      \/ r.at = NotFound /\ (Ascends(table) => val \notin RangeOf(table))
  <2> SUFFICES ASSUME NEW r \in Searching(table, val, n)
               PROVE  \/ r.at \in 0 .. n - 1 /\ table[r.at + 1] = val
                      \/ r.at = NotFound /\ (Ascends(table) => val \notin RangeOf(table))
    BY <1>1
  <2>1. \/ r.at \in 0 .. n - 1 /\ table[r.at + 1] = val
        \/ /\ r.at = NotFound /\ r.low <= r.high /\ (r.low = r.high \/ r.high - r.low <= n - n)
           /\ Ascends(table) => \A j \in 0 .. n - 1 : table[j + 1] = val => r.low <= j /\ j < r.high
    BY DEF Searching
  <2>2. r.low \in Int /\ r.high \in Int
    BY DEF Searching
  <2>3. \A i \in 1 .. n : i - 1 \in 0 .. n - 1 /\ (i - 1) + 1 = i
    BY <1>1
  <2> HIDE DEF n
  <2>4. ASSUME ~(r.at \in 0 .. n - 1 /\ table[r.at + 1] = val), Ascends(table),
               NEW i \in 1 .. n, table[i] = val
        PROVE  FALSE
    <3>1. r.low <= i - 1 /\ i - 1 < r.high
      BY <2>1, <2>3, <2>4
    <3>2. r.low = r.high \/ r.high - r.low <= 0
      BY <1>1, <2>1, <2>4
    <3> QED
      BY <2>2, <3>1, <3>2
  <2>5. Ascends(table) /\ val \in RangeOf(table) => r.at \in 0 .. n - 1 /\ table[r.at + 1] = val
    BY <1>1, <2>4 DEF RangeOf
  <2> QED
    BY <2>1, <2>5
<1>5. Halve(table, val) = turn[n].at
  BY DEF Halve, SearchTurn
<1> HIDE DEF P, F, Then, n, first
<1>6. PICK f : Iterates(f, n, first, F) /\ \A i \in 0 .. n : f[i] \in P[i]
  BY <1>1, <1>2, <1>3, Recursion
<1>7. f = [k \in 0 .. n |-> IF k = 0 THEN first ELSE Then(f[k - 1])]
  <2>1. ASSUME NEW i \in 0 .. n, i # 0 PROVE i \in 1 .. n /\ f[i - 1] \in P[i - 1]
    <3>1. i \in 1 .. n
      BY <1>1, <2>1
    <3> QED
      BY <1>1, <1>6, <3>1
  <2>2. \A i \in 0 .. n : i # 0 => F[<<i, f[i - 1]>>] = Then(f[i - 1])
    BY <1>3, <2>1
  <2> QED
    BY <1>6, <2>2 DEF Iterates
<1>8. turn = [k \in 0 .. n |-> IF k = 0 THEN first ELSE Then(turn[k - 1])]
  BY <1>7
<1> HIDE DEF turn
<1>9. turn[0] = first /\ \A i \in 1 .. n : turn[i] = Then(turn[i - 1])
  BY <1>1, <1>8
<1>10. turn[0] \in P[0] /\ \A i \in 1 .. n : turn[i - 1] \in P[i - 1] => turn[i] \in P[i]
  BY <1>2, <1>3, <1>9
<1>11. \A i \in 0 .. n : turn[i] \in P[i]
  BY <1>1, <1>10, Throughout
<1> QED
  BY <1>1, <1>4, <1>5, <1>11 DEF n

PtrsType == [flat : BOOLEAN, blocks : Seq(Seq(Nat))]

(* The sizes of tables are not zero.                                       *)
LEMMA EntriesAre == Entries \in Nat \ {0} /\ Bits \in Nat \ {0}
<1>1. PAGE_SIZE \in Nat \ {0} /\ Word \in Nat \ {0} /\ PAGE_SIZE % (2 * Word) = 0
  BY LibTablesAssumption
<1> DEFINE m == 2 * Word
<1>2. m \in Nat \ {0} /\ PAGE_SIZE % m = 0
  BY <1>1
<1> HIDE DEF m
<1>3. PICK k \in Nat : PAGE_SIZE = m * k
  <2>1. PAGE_SIZE \div m \in Nat /\ PAGE_SIZE = m * (PAGE_SIZE \div m)
    BY <1>1, <1>2
  <2> QED
    BY <2>1
<1>4. k # 0
  BY <1>1, <1>2, <1>3
<1>5. PAGE_SIZE = Word * (2 * k)
  BY <1>1, <1>3 DEF m
<1>6. PAGE_SIZE \div Word = 2 * k
  BY <1>1, <1>4, <1>5
<1> QED
  BY <1>1, <1>4, <1>6 DEF Entries, Bits

(* What the search for a page gives.                                       *)
LEMMA BinserTyped ==
  ASSUME NEW lib, NEW ptrs \in PtrsType, NEW page \in Int, lib.pageSize \in Nat
  PROVE  BinserModule(lib, ptrs, page) \in Int
<1> DEFINE val == page * lib.pageSize
           right == {b \in DOMAIN ptrs.blocks : Last(ptrs.blocks[b]) >= val}
           b == CHOOSE c \in right : \A d \in right : c <= d
           n == Halve(ptrs.blocks[b], val)
<1>1. BinserModule(lib, ptrs, page) =
        IF right = {} THEN NotFound ELSE IF n = NotFound THEN NotFound ELSE (b - 1) * Entries + n
  BY DEF BinserModule
<1>2. ptrs.blocks \in Seq(Seq(Nat)) /\ val \in Int
  BY DEF PtrsType
<1>3. right \subseteq Nat
  BY <1>2
<1> HIDE DEF val
<1>4. CASE right # {}
  <2>1. \E c \in right : \A d \in right : c <= d
    <3> HIDE DEF right
    <3> QED
      BY <1>3, <1>4, LeastNumber
  <2>2. b \in right
    <3> HIDE DEF right
    <3> QED
      BY <2>1
  <2>3. b \in Nat /\ ptrs.blocks[b] \in Seq(Nat)
    <3> HIDE DEF b
    <3> QED
      BY <1>2, <1>3, <2>2
  <2> HIDE DEF b
  <2>4. n \in Int
    BY <1>2, <2>3, HalveFinds DEF NotFound
  <2> HIDE DEF n
  <2>5. (b - 1) * Entries + n \in Int
    BY <2>3, <2>4, EntriesAre
  <2> QED
    BY <1>1, <2>5 DEF NotFound
<1>5. CASE right = {}
  BY <1>1, <1>5 DEF NotFound
<1> QED
  BY <1>4, <1>5

(* A table cut in blocks is blocks.                                        *)
LEMMA ChoppedTyped ==
  ASSUME NEW s \in Seq(Nat)
  PROVE  Chopped(s) \in Seq(Seq(Nat))
<1> DEFINE k == (Len(s) + Entries - 1) \div Entries
           Block(b) == SubSeq(s, (b - 1) * Entries + 1,
                                 IF b * Entries <= Len(s) THEN b * Entries ELSE Len(s))
<1>1. Entries \in Nat \ {0} /\ Len(s) \in Nat
  BY EntriesAre
<1>2. k \in Nat
  BY <1>1
<1>3. ASSUME NEW b \in 1 .. k PROVE Block(b) \in Seq(Nat)
  <2> DEFINE m == (b - 1) * Entries + 1
             e == IF b * Entries <= Len(s) THEN b * Entries ELSE Len(s)
  <2>1. (b - 1) * Entries \in Nat /\ b * Entries \in Nat
    BY <1>1, <1>2
  <2>2. m \in Nat /\ m >= 1 /\ e \in Nat /\ e <= Len(s)
    BY <1>1, <2>1
  <2> HIDE DEF m, e
  <2>3. SubSeq(s, m, e) \in Seq(Nat)
    BY <1>1, <2>2
  <2> QED
    BY <2>3 DEF m, e
<1>4. Chopped(s) = [b \in 1 .. k |-> Block(b)]
  BY DEF Chopped
<1> HIDE DEF k, Block
<1> QED
  BY <1>2, <1>3, <1>4

(* The offsets of the modules are a table.                                 *)
LEMMA PtrsTyped ==
  ASSUME NEW lib, NEW list \in Seq(Nat), lib.pageSize \in Nat, lib.dict \in Nat
  PROVE  DoModulePtrs(lib, list) \in PtrsType
<1> DEFINE offsets == [i \in 1 .. LIB_MODULES(list) |->
                         IF i = LIB_MODULES(list) THEN lib.dict ELSE list[i] * lib.pageSize]
           Lay(s) == IF Len(s) < Entries \div 2 THEN [flat |-> TRUE, blocks |-> <<s>>]
                                                ELSE [flat |-> FALSE, blocks |-> Chopped(s)]
<1>1. offsets \in Seq(Nat)
  <2>1. LIB_MODULES(list) \in Nat /\ LIB_MODULES(list) = Len(list) + 1
    BY DEF LIB_MODULES
  <2>2. \A i \in 1 .. LIB_MODULES(list) : offsets[i] \in Nat
    BY <2>1
  <2> QED
    BY <2>1, <2>2
<1>2. DoModulePtrs(lib, list) = Lay(offsets)
  <2>1. DoModulePtrs(lib, list) = CHOOSE y \in {Lay(v) : v \in {offsets}} : TRUE
    BY DEF DoModulePtrs, Once
  <2> HIDE DEF Lay, offsets
  <2> QED
    BY <2>1
<1> HIDE DEF offsets
<1>3. Chopped(offsets) \in Seq(Seq(Nat)) /\ <<offsets>> \in Seq(Seq(Nat))
  BY <1>1, ChoppedTyped
<1> QED
  BY <1>2, <1>3 DEF PtrsType

(* The map holds the pages it was given, and its highest word.             *)
MapType == {map \in [bits : SUBSET (Nat \X Nat), max : Nat] : \A x \in map.bits : x[1] <= map.max}

(* The map of pages is one.                                                *)
LEMMA InstallTyped ==
  ASSUME NEW map \in MapType, NEW p \in Nat
  PROVE  InstallModulePage(map, p) \in MapType
<1>1. p \div Bits \in Nat /\ p % Bits \in Nat
  BY EntriesAre
<1> DEFINE w == p \div Bits
<1>2. InstallModulePage(map, p) = [bits |-> map.bits \union {<<w, p % Bits>>},
                                   max |-> IF map.max < w THEN w ELSE map.max]
  BY DEF InstallModulePage
<1>3. map.bits \subseteq Nat \X Nat /\ map.max \in Nat /\ \A x \in map.bits : x[1] <= map.max
  BY DEF MapType
<1> HIDE DEF w
<1>4. w \in Nat
  BY <1>1 DEF w
<1> DEFINE new == [bits |-> map.bits \union {<<w, p % Bits>>}, max |-> IF map.max < w THEN w ELSE map.max]
<1>5. new \in [bits : SUBSET (Nat \X Nat), max : Nat]
  BY <1>1, <1>3, <1>4
<1>6. \A x \in new.bits : x[1] <= new.max
  BY <1>1, <1>3, <1>4
<1> QED
  BY <1>2, <1>5, <1>6 DEF MapType

(* Division.                                                               *)
LEMMA DivMod ==
  ASSUME NEW n \in Nat, NEW d \in Nat \ {0}
  PROVE  /\ n \div d \in Nat /\ n % d \in Nat /\ n % d < d
         /\ n = (n \div d) * d + (n % d)
OBVIOUS

(* Products are ordered as their factors,                                  *)
LEMMA TimesMore ==
  ASSUME NEW a \in Nat, NEW b \in Nat, NEW d \in Nat, a <= b
  PROVE  a * d <= b * d
<1>1. (b - a) * d = b * d - a * d
  OBVIOUS
<1>2. (b - a) \in Nat /\ (b - a) * d \in Nat /\ a * d \in Nat /\ b * d \in Nat
  OBVIOUS
<1> QED
  BY <1>1, <1>2

(* strictly too.                                                           *)
LEMMA TimesLess ==
  ASSUME NEW a \in Nat, NEW b \in Nat, NEW d \in Nat \ {0}, a < b
  PROVE  a * d < b * d
<1>1. (a + 1) * d <= b * d
  BY TimesMore
<1>2. (a + 1) * d = a * d + d /\ a * d \in Nat /\ b * d \in Nat
  OBVIOUS
<1> QED
  BY <1>1, <1>2

(* What is divided, when it is known.                                      *)
LEMMA DivIs ==
  ASSUME NEW a \in Nat, NEW d \in Nat \ {0}, NEW r \in Nat, r < d
  PROVE  (a * d + r) \div d = a /\ (a * d + r) % d = r
<1> DEFINE n == a * d + r
           b == n \div d
           e == n % d
<1>1. n \in Nat /\ a * d \in Nat
  OBVIOUS
<1>2. b \in Nat /\ e \in Nat /\ e < d /\ n = b * d + e
  BY <1>1, DivMod
<1>3. n = a * d + r
  OBVIOUS
<1> HIDE DEF n, b, e
<1>4. b * d \in Nat
  BY <1>2
<1>5. ASSUME a < b PROVE FALSE
  <2>1. (a + 1) * d <= b * d /\ (a + 1) * d = a * d + d
    BY <1>2, <1>5, TimesMore
  <2> QED
    BY <1>1, <1>2, <1>3, <1>4, <2>1
<1>6. ASSUME b < a PROVE FALSE
  <2>1. (b + 1) * d <= a * d /\ (b + 1) * d = b * d + d
    BY <1>2, <1>6, TimesMore
  <2> QED
    BY <1>1, <1>2, <1>3, <1>4, <2>1
<1>7. a = b
  BY <1>2, <1>5, <1>6
<1>8. r = e
  BY <1>1, <1>2, <1>3, <1>7
<1> QED
  BY <1>7, <1>8 DEF b, e, n

(* The map of pages holds those it was given.                              *)
LEMMA MapHolds ==
  ASSUME NEW q \in Seq(Nat)
  PROVE  MapOf(q) \in MapType /\ MapOf(q).bits = {<<p \div Bits, p % Bits>> : p \in RangeOf(q)}
<1> DEFINE n == Len(q)
           Held(i) == {<<q[j] \div Bits, q[j] % Bits>> : j \in 1 .. i}
           P == [i \in 0 .. n |-> {map \in MapType : map.bits = Held(i)}]
<1>1. n \in Nat /\ DOMAIN q = 1 .. n /\ 0 \in 0 .. n /\ n \in 0 .. n
      /\ \A i \in 1 .. n : i - 1 \in 0 .. n /\ i \in 0 .. n /\ q[i] \in Nat
  OBVIOUS
<1>2. EmptyMap \in P[0]
  BY <1>1 DEF EmptyMap, MapType
<1>3. ASSUME NEW i \in 1 .. n, NEW map \in P[i - 1] PROVE InstallModulePage(map, q[i]) \in P[i]
  <2>1. map \in MapType /\ map.bits = Held(i - 1)
    BY <1>1
  <2>2. InstallModulePage(map, q[i]) \in MapType
    BY <1>1, <2>1, InstallTyped
  <2>3. InstallModulePage(map, q[i]).bits = map.bits \union {<<q[i] \div Bits, q[i] % Bits>>}
    BY DEF InstallModulePage
  <2>4. Held(i) = Held(i - 1) \union {<<q[i] \div Bits, q[i] % Bits>>}
    <3>1. 1 .. i = (1 .. i - 1) \union {i}
      BY <1>1
    <3> QED
      BY <3>1
  <2> QED
    BY <1>1, <2>1, <2>2, <2>3, <2>4
<1>4. MapOf(q) \in P[n]
  <2> HIDE DEF P
  <2>1. P[Len(q)] = P[n]
    OBVIOUS
  <2> QED
    BY <1>2, <1>3, <2>1, PagesInTurn DEF MapOf
<1>5. Held(n) = {<<p \div Bits, p % Bits>> : p \in RangeOf(q)}
  BY <1>1 DEF RangeOf
<1> HIDE DEF Held
<1> QED
  BY <1>1, <1>4, <1>5

-----------------------------------------------------------------------------
(* The symbol table and the lists.                                         *)
Standing == {"POS_WEAK", "WEAK_EXTRN", "WEAK_DEFINED", "WEAK_UNREF", "POS_LAZY", "LAZY", "LAZY_DEFINED",
             "LAZY_UNREF", "ALIASED", "ALIAS_DEFINED", "ALIASED_UNREF"}

ExportType == [exact : BOOLEAN, match : Seq(Syms), seen : BOOLEAN]

TabSet == [type : [Syms -> Types], refd : SUBSET Syms, lib : [Syms -> Libs \union {None}],
           number : [Syms -> Int], for : [Syms -> Syms \union {None}], list : [Lists -> Seq(Syms)],
           wanted : [Libs -> Seq(Syms)], ptrs : [Libs -> PtrsType], marked : SUBSET (Libs \X Int),
           selected : [Libs -> Nat], requests : Seq(Libs), undeco : Seq(ExportType)]

(* A list holds, once, each symbol of its type but those of S, which are   *)
(* being moved; what is in or of a library has one; what stands in for     *)
(* another is known; a library is in the request list, once, when some of  *)
(* its modules are selected.                                               *)
ListsRight(t, S) ==
  \A l \in Lists : RangeOf(t.list[l]) = {s \in Syms \ S : t.type[s] = l} /\ IsInjective(t.list[l])

WantsRight(t, S) ==
  \A l \in Libs : /\ RangeOf(t.wanted[l]) = {s \in Syms \ S : t.type[s] = "LIBRARY_LIST" /\ t.lib[s] = l}
                  /\ IsInjective(t.wanted[l])

Grounded(t, s) == /\ t.type[s] \in {"LIBRARY", "LIBRARY_LIST"} => t.lib[s] \in Libs
                  /\ t.type[s] \in Standing => t.for[s] \in Syms

RequestsRight(t) ==
  IsInjective(t.requests) /\ RangeOf(t.requests) = {l \in Libs : t.selected[l] > 0}

Sound(t, S) ==
  /\ t \in TabSet
  /\ ListsRight(t, S) /\ WantsRight(t, S)
  /\ \A s \in Syms \ S : Grounded(t, s)
  /\ RequestsRight(t)

Stands(t, s, d)   == [t EXCEPT !.for[s] = d]
Found(t, s, l, p) == [t EXCEPT !.lib[s] = l, !.number[s] = p]

(* What the moves of a symbol leave alone.                                 *)
Calm(t, u) ==
  /\ u.ptrs = t.ptrs /\ u.marked = t.marked /\ u.selected = t.selected
  /\ u.requests = t.requests /\ u.undeco = t.undeco

(* And what they may only add to.                                          *)
Later(t, u) ==
  /\ u.lib = t.lib /\ u.number = t.number /\ u.ptrs = t.ptrs /\ u.undeco = t.undeco
  /\ \A l \in Libs : t.selected[l] <= u.selected[l]
  /\ Len(t.requests) <= Len(u.requests)

(* What each move of a symbol makes of the table: into a list,             *)
LEMMA AddToIs ==
  ASSUME NEW t \in TabSet, NEW s \in Syms, NEW l \in Lists, NEW u, u = AddTo(t, s, l)
  PROVE  /\ u \in TabSet /\ u.type = [t.type EXCEPT ![s] = l]
         /\ u.list = [t.list EXCEPT ![l] = Append(@, s)] /\ u.wanted = t.wanted
         /\ u.refd = t.refd /\ u.lib = t.lib /\ u.number = t.number /\ u.for = t.for /\ Calm(t, u)
<1> DEFINE e == Append(t.list[l], s)
           list == [t.list EXCEPT ![l] = e]
           type == [t.type EXCEPT ![s] = l]
<1>1. e \in Seq(Syms) /\ t.list \in [Lists -> Seq(Syms)] /\ t.type \in [Syms -> Types] /\ l \in Types
  BY DEF TabSet, Types
<1> HIDE DEF e
<1>2. list \in [Lists -> Seq(Syms)] /\ type \in [Syms -> Types]
  BY <1>1
<1>3. u = [t EXCEPT !.list = list, !.type = type]
  BY DEF AddTo, e, TabSet
<1> HIDE DEF list, type
<1>4. u \in TabSet /\ u.list = list /\ u.type = type
  BY <1>2, <1>3 DEF TabSet
<1>5. u.wanted = t.wanted /\ u.refd = t.refd /\ u.lib = t.lib /\ u.number = t.number /\ u.for = t.for /\ Calm(t, u)
  BY <1>3 DEF TabSet, Calm
<1> QED
  BY <1>4, <1>5 DEF list, type, e

(* out of one,                                                             *)
LEMMA RemoveFromIs ==
  ASSUME NEW t \in TabSet, NEW s \in Syms, NEW l \in Lists, NEW u, u = RemoveFrom(t, s, l)
  PROVE  /\ u \in TabSet /\ u.type = t.type
         /\ u.list = [t.list EXCEPT ![l] = Without(@, s)] /\ u.wanted = t.wanted
         /\ u.refd = t.refd /\ u.lib = t.lib /\ u.number = t.number /\ u.for = t.for /\ Calm(t, u)
<1> DEFINE e == Without(t.list[l], s)
           list == [t.list EXCEPT ![l] = e]
<1>1. e \in Seq(Syms) /\ t.list \in [Lists -> Seq(Syms)]
  BY WithoutOne DEF TabSet
<1> HIDE DEF e
<1>2. list \in [Lists -> Seq(Syms)]
  BY <1>1
<1>3. u = [t EXCEPT !.list = list]
  BY DEF RemoveFrom, e, TabSet
<1> HIDE DEF list
<1>4. u \in TabSet /\ u.list = list
  BY <1>2, <1>3 DEF TabSet
<1>5. u.type = t.type /\ u.wanted = t.wanted /\ u.refd = t.refd /\ u.lib = t.lib /\ u.number = t.number
      /\ u.for = t.for /\ Calm(t, u)
  BY <1>3 DEF TabSet, Calm
<1> QED
  BY <1>4, <1>5 DEF list, e

(* to another type,                                                        *)
LEMMA RetypeIs ==
  ASSUME NEW t \in TabSet, NEW s \in Syms, NEW ty \in Types, NEW u, u = Retype(t, s, ty)
  PROVE  /\ u \in TabSet /\ u.type = [t.type EXCEPT ![s] = ty]
         /\ u.list = t.list /\ u.wanted = t.wanted
         /\ u.refd = t.refd /\ u.lib = t.lib /\ u.number = t.number /\ u.for = t.for /\ Calm(t, u)
BY DEF Retype, TabSet, Calm

(* to be referenced,                                                       *)
LEMMA ReferencedIs ==
  ASSUME NEW t \in TabSet, NEW s \in Syms, NEW u, u = Referenced(t, s)
  PROVE  /\ u \in TabSet /\ u.type = t.type /\ u.list = t.list /\ u.wanted = t.wanted
         /\ u.refd = t.refd \union {s}
         /\ u.lib = t.lib /\ u.number = t.number /\ u.for = t.for /\ Calm(t, u)
BY DEF Referenced, TabSet, Calm

(* to be stood in for,                                                     *)
LEMMA ForIs ==
  ASSUME NEW t \in TabSet, NEW s \in Syms, NEW d \in Syms, NEW u, u = Stands(t, s, d)
  PROVE  /\ u \in TabSet /\ u.type = t.type /\ u.list = t.list /\ u.wanted = t.wanted
         /\ u.for = [t.for EXCEPT ![s] = d]
         /\ u.refd = t.refd /\ u.lib = t.lib /\ u.number = t.number /\ Calm(t, u)
BY DEF Stands, TabSet, Calm

(* to be found in a library.                                               *)
LEMMA FoundIs ==
  ASSUME NEW t \in TabSet, NEW s \in Syms, NEW l \in Libs, NEW p \in Int,
         NEW u, u = Found(t, s, l, p)
  PROVE  /\ u \in TabSet /\ u.type = t.type /\ u.list = t.list /\ u.wanted = t.wanted
         /\ u.lib = [t.lib EXCEPT ![s] = l] /\ u.number = [t.number EXCEPT ![s] = p]
         /\ u.refd = t.refd /\ u.for = t.for /\ Calm(t, u)
BY DEF Found, TabSet, Calm

(* Off its list, a symbol is of no account; and it is off it already when  *)
(* its type has none.                                                      *)
LEMMA UnlistIs ==
  ASSUME NEW t, Sound(t, {}), NEW s \in Syms, NEW u, u = Unlist(t, s)
  PROVE  /\ Sound(u, {s})
         /\ u.type = t.type /\ u.refd = t.refd /\ u.lib = t.lib /\ u.number = t.number /\ u.for = t.for
         /\ Calm(t, u)
<1>1. t \in TabSet /\ ListsRight(t, {}) /\ WantsRight(t, {}) /\ RequestsRight(t) /\ \A x \in Syms : Grounded(t, x)
  BY DEF Sound
<1>2. /\ t.list \in [Lists -> Seq(Syms)] /\ t.wanted \in [Libs -> Seq(Syms)]
      /\ t.type \in [Syms -> Types] /\ t.lib \in [Syms -> Libs \union {None}]
  BY <1>1 DEF TabSet
<1>3. CASE t.type[s] \in Lists
  <2> DEFINE l == t.type[s]
  <2>1. u = RemoveFrom(t, s, l)
    BY <1>3 DEF Unlist
  <2>2. /\ u \in TabSet /\ u.type = t.type
        /\ u.list = [t.list EXCEPT ![l] = Without(@, s)] /\ u.wanted = t.wanted
        /\ u.refd = t.refd /\ u.lib = t.lib /\ u.number = t.number /\ u.for = t.for /\ Calm(t, u)
    BY <1>1, <1>3, <2>1, RemoveFromIs
  <2>3. ASSUME NEW k \in Lists
        PROVE  RangeOf(u.list[k]) = {x \in Syms \ {s} : u.type[x] = k} /\ IsInjective(u.list[k])
    <3>1. RangeOf(t.list[k]) = {x \in Syms : t.type[x] = k} /\ IsInjective(t.list[k]) /\ t.list[k] \in Seq(Syms)
      BY <1>1, <1>2 DEF ListsRight
    <3>2. CASE k = l
      <4>1. u.list[k] = Without(t.list[k], s)
        BY <1>2, <2>2, <3>2
      <4>2. RangeOf(u.list[k]) = RangeOf(t.list[k]) \ {s} /\ IsInjective(u.list[k])
        BY <3>1, <4>1, WithoutOne
      <4> QED
        BY <2>2, <3>1, <4>2
    <3>3. CASE k # l
      BY <1>2, <2>2, <3>1, <3>3
    <3> QED
      BY <3>2, <3>3
  <2>4. WantsRight(u, {s})
    <3>1. t.type[s] # "LIBRARY_LIST"
      BY <1>3 DEF Lists
    <3> QED
      BY <1>1, <2>2, <3>1 DEF WantsRight
  <2>5. (\A x \in Syms : Grounded(u, x)) /\ RequestsRight(u)
    BY <1>1, <2>2 DEF Grounded, RequestsRight, Calm
  <2> QED
    BY <2>2, <2>3, <2>4, <2>5 DEF Sound, ListsRight
<1>4. CASE t.type[s] = "LIBRARY_LIST"
  <2> DEFINE l == t.lib[s]
             e == Without(t.wanted[l], s)
             wanted == [t.wanted EXCEPT ![l] = e]
  <2>1. t.type[s] \notin Lists /\ l \in Libs
    BY <1>1, <1>4 DEF Lists, Grounded
  <2>2. RangeOf(t.wanted[l]) = {x \in Syms : t.type[x] = "LIBRARY_LIST" /\ t.lib[x] = l}
        /\ IsInjective(t.wanted[l]) /\ t.wanted[l] \in Seq(Syms)
    BY <1>1, <1>2, <2>1 DEF WantsRight
  <2>3. e \in Seq(Syms) /\ RangeOf(e) = RangeOf(t.wanted[l]) \ {s} /\ IsInjective(e)
    BY <2>2, WithoutOne
  <2>4. u = [t EXCEPT !.wanted = wanted]
    <3>1. Unwant(t.wanted[l], s) = e
      BY <1>4, <2>2 DEF Unwant
    <3> QED
      BY <1>1, <1>4, <2>1, <3>1 DEF Unlist, TabSet
  <2> HIDE DEF e
  <2>5. wanted \in [Libs -> Seq(Syms)]
    BY <1>2, <2>3
  <2>6. /\ wanted[l] = e /\ \A k \in Libs : k # l => wanted[k] = t.wanted[k]
    BY <1>2, <2>1
  <2> HIDE DEF wanted
  <2>7. u \in TabSet /\ u.wanted = wanted
    BY <1>1, <2>4, <2>5 DEF TabSet
  <2>8. u.type = t.type /\ u.list = t.list /\ u.refd = t.refd /\ u.lib = t.lib /\ u.number = t.number
        /\ u.for = t.for /\ Calm(t, u)
    BY <1>1, <2>4 DEF TabSet, Calm
  <2> HIDE DEF l
  <2>9. WantsRight(u, {s})
    <3> SUFFICES ASSUME NEW k \in Libs
                 PROVE  /\ RangeOf(u.wanted[k]) = {x \in Syms \ {s} : u.type[x] = "LIBRARY_LIST" /\ u.lib[x] = k}
                        /\ IsInjective(u.wanted[k])
      BY DEF WantsRight
    <3>1. CASE k = l
      BY <2>2, <2>3, <2>6, <2>7, <2>8, <3>1
    <3>2. CASE k # l
      <4>1. RangeOf(t.wanted[k]) = {x \in Syms : t.type[x] = "LIBRARY_LIST" /\ t.lib[x] = k} /\ IsInjective(t.wanted[k])
        BY <1>1 DEF WantsRight
      <4> QED
        BY <2>6, <2>7, <2>8, <3>2, <4>1 DEF l
    <3> QED
      BY <3>1, <3>2
  <2>10. ListsRight(u, {s})
    BY <1>1, <1>4, <2>1, <2>8 DEF ListsRight
  <2>11. (\A x \in Syms : Grounded(u, x)) /\ RequestsRight(u)
    BY <1>1, <2>8 DEF Grounded, RequestsRight, Calm
  <2> QED
    BY <2>7, <2>8, <2>9, <2>10, <2>11 DEF Sound
<1>5. CASE t.type[s] \notin Lists /\ t.type[s] # "LIBRARY_LIST"
  <2>1. u = t
    BY <1>5 DEF Unlist
  <2>2. ListsRight(t, {s}) /\ WantsRight(t, {s})
    BY <1>1, <1>5 DEF ListsRight, WantsRight
  <2> QED
    BY <1>1, <2>1, <2>2 DEF Sound, Calm
<1> QED
  BY <1>3, <1>4, <1>5

(* A symbol that is being moved is put in a list,                          *)
LEMMA Listing ==
  ASSUME NEW s \in Syms, NEW t, Sound(t, {s}), NEW l \in Lists, l \in Standing => t.for[s] \in Syms,
         NEW u, u = AddTo(t, s, l)
  PROVE  /\ Sound(u, {}) /\ u.type = [t.type EXCEPT ![s] = l]
         /\ u.refd = t.refd /\ u.lib = t.lib /\ u.number = t.number /\ u.for = t.for /\ Calm(t, u)
<1>1. t \in TabSet /\ ListsRight(t, {s}) /\ WantsRight(t, {s}) /\ RequestsRight(t)
      /\ \A x \in Syms \ {s} : Grounded(t, x)
  BY DEF Sound
<1>2. t.list \in [Lists -> Seq(Syms)] /\ t.type \in [Syms -> Types]
  BY <1>1 DEF TabSet
<1>3. /\ u \in TabSet /\ u.type = [t.type EXCEPT ![s] = l]
      /\ u.list = [t.list EXCEPT ![l] = Append(@, s)] /\ u.wanted = t.wanted
      /\ u.refd = t.refd /\ u.lib = t.lib /\ u.number = t.number /\ u.for = t.for /\ Calm(t, u)
  BY <1>1, AddToIs
<1>4. u.type[s] = l /\ (\A x \in Syms \ {s} : u.type[x] = t.type[x]) /\ l # "LIBRARY_LIST" /\ l # "LIBRARY"
  BY <1>2, <1>3 DEF Lists
<1>5. ASSUME NEW k \in Lists
      PROVE  RangeOf(u.list[k]) = {x \in Syms : u.type[x] = k} /\ IsInjective(u.list[k])
  <2>1. /\ RangeOf(t.list[k]) = {x \in Syms \ {s} : t.type[x] = k} /\ IsInjective(t.list[k])
        /\ t.list[k] \in Seq(Syms)
    BY <1>1, <1>2 DEF ListsRight
  <2>2. CASE k = l
    <3>1. u.list[k] = Append(t.list[k], s) /\ s \notin RangeOf(t.list[k])
      BY <1>2, <1>3, <2>1, <2>2
    <3>2. RangeOf(u.list[k]) = RangeOf(t.list[k]) \union {s} /\ IsInjective(u.list[k])
      BY <2>1, <3>1, AppendOne
    <3> QED
      BY <1>4, <2>1, <2>2, <3>2
  <2>3. CASE k # l
    <3>1. u.list[k] = t.list[k]
      BY <1>2, <1>3, <2>3
    <3> QED
      BY <1>4, <2>1, <2>3, <3>1
  <2> QED
    BY <2>2, <2>3
<1>6. WantsRight(u, {})
  BY <1>1, <1>3, <1>4 DEF WantsRight
<1>7. \A x \in Syms : Grounded(u, x)
  BY <1>1, <1>3, <1>4 DEF Grounded
<1>8. RequestsRight(u)
  BY <1>1, <1>3 DEF RequestsRight, Calm
<1> QED
  BY <1>3, <1>5, <1>6, <1>7, <1>8 DEF Sound, ListsRight

(* or given a type that has none,                                          *)
LEMMA Retyped ==
  ASSUME NEW s \in Syms, NEW t, Sound(t, {s}), NEW ty \in Types, NEW u, u = Retype(t, s, ty)
  PROVE  /\ Sound(u, {s}) /\ u.type = [t.type EXCEPT ![s] = ty]
         /\ u.refd = t.refd /\ u.lib = t.lib /\ u.number = t.number /\ u.for = t.for /\ Calm(t, u)
<1>1. t \in TabSet /\ ListsRight(t, {s}) /\ WantsRight(t, {s}) /\ RequestsRight(t)
      /\ \A x \in Syms \ {s} : Grounded(t, x)
  BY DEF Sound
<1>2. t.type \in [Syms -> Types]
  BY <1>1 DEF TabSet
<1>3. /\ u \in TabSet /\ u.type = [t.type EXCEPT ![s] = ty] /\ u.list = t.list /\ u.wanted = t.wanted
      /\ u.refd = t.refd /\ u.lib = t.lib /\ u.number = t.number /\ u.for = t.for /\ Calm(t, u)
  BY <1>1, RetypeIs
<1>4. \A x \in Syms \ {s} : u.type[x] = t.type[x]
  BY <1>2, <1>3
<1>5. ListsRight(u, {s}) /\ WantsRight(u, {s})
  BY <1>1, <1>3, <1>4 DEF ListsRight, WantsRight
<1>6. \A x \in Syms \ {s} : Grounded(u, x)
  BY <1>1, <1>3, <1>4 DEF Grounded
<1> QED
  BY <1>1, <1>3, <1>5, <1>6 DEF Sound, RequestsRight, Calm

(* A symbol on no list, by its type, may be counted in or left out.        *)
LEMMA Settled ==
  ASSUME NEW s \in Syms, NEW t, t.type[s] \in Unlisted
  PROVE  Sound(t, {}) <=> Sound(t, {s}) /\ Grounded(t, s)
<1>1. t.type[s] \notin Lists /\ t.type[s] # "LIBRARY_LIST"
  BY DEF Lists, Unlisted
<1>2. ListsRight(t, {}) <=> ListsRight(t, {s})
  BY <1>1 DEF ListsRight
<1>3. WantsRight(t, {}) <=> WantsRight(t, {s})
  BY <1>1 DEF WantsRight
<1> QED
  BY <1>2, <1>3 DEF Sound

(* and may be referenced meanwhile,                                        *)
LEMMA References ==
  ASSUME NEW S, NEW t, Sound(t, S), NEW s \in Syms, NEW u, u = Referenced(t, s)
  PROVE  /\ Sound(u, S) /\ u.type = t.type /\ u.refd = t.refd \union {s}
         /\ u.lib = t.lib /\ u.number = t.number /\ u.for = t.for /\ Calm(t, u)
<1>1. t \in TabSet
  BY DEF Sound
<1>2. /\ u \in TabSet /\ u.type = t.type /\ u.list = t.list /\ u.wanted = t.wanted
      /\ u.refd = t.refd \union {s}
      /\ u.lib = t.lib /\ u.number = t.number /\ u.for = t.for /\ Calm(t, u)
  BY <1>1, ReferencedIs
<1> QED
  BY <1>2 DEF Sound, ListsRight, WantsRight, Grounded, RequestsRight, Calm

(* or stood in for,                                                        *)
LEMMA StandsFor ==
  ASSUME NEW S, NEW t, Sound(t, S), NEW s \in Syms, NEW d \in Syms, NEW u, u = Stands(t, s, d)
  PROVE  /\ Sound(u, S) /\ u.type = t.type /\ u.for = [t.for EXCEPT ![s] = d]
         /\ u.refd = t.refd /\ u.lib = t.lib /\ u.number = t.number /\ Calm(t, u)
<1>1. t \in TabSet /\ t.for \in [Syms -> Syms \union {None}]
  BY DEF Sound, TabSet
<1>2. /\ u \in TabSet /\ u.type = t.type /\ u.list = t.list /\ u.wanted = t.wanted
      /\ u.for = [t.for EXCEPT ![s] = d]
      /\ u.refd = t.refd /\ u.lib = t.lib /\ u.number = t.number /\ Calm(t, u)
  BY <1>1, ForIs
<1>3. \A x \in Syms : t.for[x] \in Syms => u.for[x] \in Syms
  BY <1>1, <1>2
<1>4. \A x \in Syms \ S : Grounded(u, x)
  BY <1>2, <1>3 DEF Sound, Grounded
<1> QED
  BY <1>2, <1>4 DEF Sound, ListsRight, WantsRight, RequestsRight, Calm

(* or found in a library.                                                  *)
LEMMA FoundIn ==
  ASSUME NEW S, NEW t, Sound(t, S), NEW s \in Syms, NEW l \in Libs, NEW p \in Int,
         s \in S \/ t.type[s] # "LIBRARY_LIST",
         NEW u, u = Found(t, s, l, p)
  PROVE  /\ Sound(u, S) /\ u.type = t.type
         /\ u.lib = [t.lib EXCEPT ![s] = l] /\ u.number = [t.number EXCEPT ![s] = p]
         /\ u.refd = t.refd /\ u.for = t.for /\ Calm(t, u)
<1>1. t \in TabSet /\ t.lib \in [Syms -> Libs \union {None}]
  BY DEF Sound, TabSet
<1>2. /\ u \in TabSet /\ u.type = t.type /\ u.list = t.list /\ u.wanted = t.wanted
      /\ u.lib = [t.lib EXCEPT ![s] = l] /\ u.number = [t.number EXCEPT ![s] = p]
      /\ u.refd = t.refd /\ u.for = t.for /\ Calm(t, u)
  BY <1>1, FoundIs
<1>3. u.lib[s] = l /\ \A x \in Syms : x # s => u.lib[x] = t.lib[x]
  BY <1>1, <1>2
<1>4. WantsRight(u, S)
  BY <1>2, <1>3 DEF Sound, WantsRight
<1>5. \A x \in Syms \ S : Grounded(u, x)
  BY <1>2, <1>3 DEF Sound, Grounded
<1> QED
  BY <1>2, <1>4, <1>5 DEF Sound, ListsRight, RequestsRight, Calm

(* A symbol is wanted from its library, which is in the request list then. *)
LEMMA Wanting ==
  ASSUME NEW s \in Syms, NEW t, Sound(t, {s}), t.lib[s] \in Libs, NEW u, u = ReferenceLibsym(t, s)
  PROVE  /\ Sound(u, {}) /\ u.type = [t.type EXCEPT ![s] = "LIBRARY_LIST"]
         /\ u.refd = t.refd /\ u.for = t.for /\ Later(t, u) /\ u.list = t.list
<1> DEFINE l == t.lib[s]
           e == Append(t.wanted[l], s)
           wanted == [t.wanted EXCEPT ![l] = e]
           type == [t.type EXCEPT ![s] = "LIBRARY_LIST"]
           v == [t EXCEPT !.wanted = wanted, !.type = type]
<1>1. t \in TabSet /\ ListsRight(t, {s}) /\ WantsRight(t, {s}) /\ RequestsRight(t)
      /\ \A x \in Syms \ {s} : Grounded(t, x)
  BY DEF Sound
<1>2. /\ t.wanted \in [Libs -> Seq(Syms)] /\ t.type \in [Syms -> Types] /\ t.lib \in [Syms -> Libs \union {None}]
      /\ t.selected \in [Libs -> Nat] /\ t.requests \in Seq(Libs) /\ t.marked \subseteq Libs \X Int
      /\ t.number \in [Syms -> Int]
  BY <1>1 DEF TabSet
<1>3. u = LibSymRequest(v, s)
  BY <1>1 DEF ReferenceLibsym, TabSet
<1>4. RangeOf(t.wanted[l]) = {x \in Syms \ {s} : t.type[x] = "LIBRARY_LIST" /\ t.lib[x] = l}
      /\ IsInjective(t.wanted[l]) /\ t.wanted[l] \in Seq(Syms)
  BY <1>1, <1>2 DEF WantsRight
<1>5. e \in Seq(Syms) /\ RangeOf(e) = RangeOf(t.wanted[l]) \union {s} /\ IsInjective(e)
  BY <1>4, AppendOne
<1> HIDE DEF e
<1>6. wanted \in [Libs -> Seq(Syms)] /\ wanted[l] = e /\ \A k \in Libs : k # l => wanted[k] = t.wanted[k]
  BY <1>2, <1>5
<1>7. type \in [Syms -> Types] /\ type[s] = "LIBRARY_LIST" /\ \A x \in Syms : x # s => type[x] = t.type[x]
  BY <1>2 DEF Types
<1>8. l \in Libs /\ l = t.lib[s]
  OBVIOUS
<1> HIDE DEF wanted, type, l
<1>9. v \in TabSet /\ v.wanted = wanted /\ v.type = type
  BY <1>1, <1>6, <1>7 DEF TabSet
<1>10. v.list = t.list /\ v.refd = t.refd /\ v.lib = t.lib /\ v.number = t.number
       /\ v.for = t.for /\ Calm(t, v)
  BY <1>1 DEF TabSet, Calm
<1> HIDE DEF v
<1>11. WantsRight(v, {})
  <2> SUFFICES ASSUME NEW k \in Libs
               PROVE  /\ RangeOf(wanted[k]) = {x \in Syms : type[x] = "LIBRARY_LIST" /\ t.lib[x] = k}
                      /\ IsInjective(wanted[k])
    BY <1>9, <1>10 DEF WantsRight
  <2>1. CASE k = l
    BY <1>4, <1>5, <1>6, <1>7, <1>8, <2>1
  <2>2. CASE k # l
    <3>1. RangeOf(t.wanted[k]) = {x \in Syms \ {s} : t.type[x] = "LIBRARY_LIST" /\ t.lib[x] = k}
          /\ IsInjective(t.wanted[k])
      BY <1>1 DEF WantsRight
    <3> QED
      BY <1>6, <1>7, <1>8, <2>2, <3>1
  <2> QED
    BY <2>1, <2>2
<1>12. ListsRight(v, {})
  BY <1>1, <1>7, <1>9, <1>10 DEF ListsRight, Lists
<1>13. \A x \in Syms : Grounded(v, x)
  BY <1>1, <1>7, <1>8, <1>9, <1>10 DEF Grounded, Standing
<1>14. RequestsRight(v)
  BY <1>1, <1>10 DEF RequestsRight, Calm
<1>15. Sound(v, {})
  BY <1>9, <1>11, <1>12, <1>13, <1>14 DEF Sound
<1> DEFINE m == <<l, t.number[s]>>
<1>16. CASE m \in t.marked
  <2>1. u = v
    BY <1>3, <1>8, <1>10, <1>16 DEF LibSymRequest, Calm
  <2> QED
    BY <1>2, <1>9, <1>10, <1>15, <2>1 DEF Later, Calm, type
<1>17. CASE m \notin t.marked
  <2> DEFINE selected == [t.selected EXCEPT ![l] = @ + 1]
             marked == t.marked \union {m}
             requests == IF t.selected[l] = 0 THEN Append(t.requests, l) ELSE t.requests
  <2>1. u = [v EXCEPT !.marked = marked, !.selected = selected, !.requests = requests]
    BY <1>3, <1>8, <1>9, <1>10, <1>17 DEF LibSymRequest, Calm, TabSet
  <2>2. selected \in [Libs -> Nat] /\ selected[l] = t.selected[l] + 1 /\ t.selected[l] \in Nat
        /\ \A k \in Libs : k # l => selected[k] = t.selected[k]
    BY <1>2, <1>8
  <2>3. IsInjective(t.requests) /\ RangeOf(t.requests) = {k \in Libs : t.selected[k] > 0}
    BY <1>1 DEF RequestsRight
  <2>4. /\ requests \in Seq(Libs) /\ IsInjective(requests) /\ Len(t.requests) <= Len(requests)
        /\ RangeOf(requests) = RangeOf(t.requests) \union {l}
    <3>1. CASE t.selected[l] = 0
      <4>1. l \notin RangeOf(t.requests)
        BY <2>3, <3>1
      <4>2. /\ Append(t.requests, l) \in Seq(Libs) /\ Len(Append(t.requests, l)) = Len(t.requests) + 1
            /\ RangeOf(Append(t.requests, l)) = RangeOf(t.requests) \union {l}
            /\ IsInjective(Append(t.requests, l))
        BY <1>2, <1>8, <2>3, <4>1, AppendOne
      <4> QED
        BY <1>2, <3>1, <4>2
    <3>2. CASE t.selected[l] # 0
      <4>1. l \in RangeOf(t.requests)
        BY <1>8, <2>2, <2>3, <3>2
      <4> QED
        BY <1>2, <2>3, <3>2, <4>1
    <3> QED
      BY <3>1, <3>2
  <2>5. marked \in SUBSET (Libs \X Int)
    BY <1>2, <1>8
  <2> HIDE DEF selected, requests, marked
  <2>6. RangeOf(requests) = {k \in Libs : selected[k] > 0}
    BY <1>8, <2>2, <2>3, <2>4
  <2>7. u \in TabSet /\ u.selected = selected /\ u.requests = requests
    BY <1>9, <2>1, <2>2, <2>4, <2>5 DEF TabSet
  <2>8. u.type = v.type /\ u.list = v.list /\ u.wanted = v.wanted /\ u.refd = v.refd /\ u.lib = v.lib
        /\ u.number = v.number /\ u.for = v.for /\ u.ptrs = v.ptrs /\ u.undeco = v.undeco
    BY <1>9, <2>1 DEF TabSet
  <2>9. Sound(u, {})
    BY <1>15, <2>4, <2>6, <2>7, <2>8 DEF Sound, ListsRight, WantsRight, Grounded, RequestsRight
  <2>10. ASSUME NEW k \in Libs PROVE t.selected[k] <= selected[k]
    <3>1. t.selected[k] \in Nat
      BY <1>2
    <3> QED
      BY <2>2, <3>1
  <2> QED
    BY <1>9, <1>10, <2>4, <2>7, <2>8, <2>9, <2>10 DEF Later, Calm, type
<1> QED
  BY <1>16, <1>17

-----------------------------------------------------------------------------
(* What the records of a module do.                                        *)

(* A symbol, and no other, changes its type and what stands in for it.     *)
Moves(t, u, s) == \A x \in Syms : x # s => u.type[x] = t.type[x] /\ u.for[x] = t.for[x]

(* A symbol that is defined or a communal has been decided on; a library   *)
(* does not supply it.                                                     *)
Decided == {"RELOC", "COMM_NEAR", "NCOMM_UNREF"}

Held(t, B)  == \A s \in B : t.type[s] \in Decided
Holds(t, u) == \A s \in Syms : t.type[s] \in Decided => u.type[s] \in Decided

(* What is left alone is not taken from.                                   *)
LEMMA CalmLater ==
  ASSUME NEW t \in TabSet, NEW u, Calm(t, u), u.lib = t.lib, u.number = t.number
  PROVE  Later(t, u)
<1>1. \A l \in Libs : t.selected[l] \in Nat
  BY DEF TabSet
<1>2. Len(t.requests) \in Nat
  BY DEF TabSet
<1> QED
  BY <1>1, <1>2 DEF Later, Calm

(* Nothing is taken from what was only added to, twice.                    *)
LEMMA LaterStill ==
  ASSUME NEW t \in TabSet, NEW u \in TabSet, NEW v \in TabSet, Later(t, u), Later(u, v)
  PROVE  Later(t, v)
<1>1. \A l \in Libs : t.selected[l] \in Nat /\ u.selected[l] \in Nat /\ v.selected[l] \in Nat
  BY DEF TabSet
<1>2. Len(t.requests) \in Nat /\ Len(u.requests) \in Nat /\ Len(v.requests) \in Nat
  BY DEF TabSet
<1> QED
  BY <1>1, <1>2 DEF Later

(* Types and lists.                                                        *)
LEMMA NotLibrary ==
  /\ Types = Lists \union Unlisted \union {"LIBRARY_LIST"}
  /\ "LIBRARY" \in Unlisted /\ "LIBRARY" \notin Standing /\ "LIBRARY_LIST" \notin Standing
  /\ "LIBRARY_LIST" \notin Lists /\ "LIBRARY" \notin Lists
  /\ \A l \in Lists : l \notin Unlisted
BY DEF Types, Lists, Unlisted, Standing

(* What is sound has its type.                                             *)
LEMMA TypeOf ==
  ASSUME NEW S, NEW t, Sound(t, S)
  PROVE  /\ t \in TabSet /\ t.type \in [Syms -> Types] /\ t.for \in [Syms -> Syms \union {None}]
         /\ t.lib \in [Syms -> Libs \union {None}] /\ t.number \in [Syms -> Int] /\ t.refd \subseteq Syms
BY DEF Sound, TabSet

(* A definition, unless it is code for what was data and is not decided on.*)
LEMMA DoPublicMoves ==
  ASSUME NEW t, Sound(t, {}), NEW s \in Syms, NEW inCode \in BOOLEAN, NEW wasData \in BOOLEAN,
         inCode /\ wasData => t.type[s] \in Decided, NEW u, u = DoPublic(t, s, inCode, wasData)
  PROVE  /\ Sound(u, {}) /\ Later(t, u) /\ Moves(t, u, s) /\ Holds(t, u)
         /\ u.type[s] \in {"RELOC", t.type[s]} /\ u.refd = t.refd /\ u.for = t.for
<1>1. t \in TabSet /\ t.type \in [Syms -> Types]
  BY TypeOf
<1>2. CASE u = t
  BY <1>1, <1>2, CalmLater DEF Moves, Calm, Holds
<1>3. CASE u # t
  <2> DEFINE v == Unlist(t, s)
  <2>1. u = Retype(v, s, "RELOC")
    BY <1>3 DEF DoPublic, Decided
  <2>2. /\ Sound(v, {s})
        /\ v.type = t.type /\ v.refd = t.refd /\ v.lib = t.lib /\ v.number = t.number /\ v.for = t.for
        /\ Calm(t, v)
    BY UnlistIs
  <2> HIDE DEF v
  <2>3. "RELOC" \in Types /\ "RELOC" \in Unlisted
    BY DEF Types, Unlisted
  <2>4. /\ Sound(u, {s}) /\ u.type = [v.type EXCEPT ![s] = "RELOC"]
        /\ u.refd = v.refd /\ u.lib = v.lib /\ u.number = v.number /\ u.for = v.for /\ Calm(v, u)
    BY <2>1, <2>2, <2>3, Retyped
  <2>5. u.type[s] = "RELOC"
    BY <1>1, <2>2, <2>4
  <2>6. Sound(u, {})
    BY <2>3, <2>4, <2>5, Settled DEF Grounded, Standing
  <2>7. Later(t, u)
    BY <1>1, <2>2, <2>4, CalmLater DEF Calm
  <2>8. Moves(t, u, s)
    BY <1>1, <2>2, <2>4 DEF Moves
  <2>9. Holds(t, u)
    BY <2>5, <2>8 DEF Moves, Holds, Decided
  <2> QED
    BY <2>2, <2>4, <2>5, <2>6, <2>7, <2>8, <2>9
<1> QED
  BY <1>2, <1>3

(* What is decided on stays so.                                            *)
LEMMA StaysHeld ==
  ASSUME NEW m \in ModuleType, NEW d, NEW t, NEW u, Held(t, m.code \intersect d), Holds(t, u)
  PROVE  Held(u, m.code \intersect d)
BY DEF Held, Holds, ModuleType

(* A communal.                                                             *)
LEMMA ComdefMoves ==
  ASSUME NEW t, Sound(t, {}), NEW s \in Syms, NEW l, NEW n, NEW u, u = Comdef(t, s, l, n)
  PROVE  /\ Sound(u, {}) /\ Later(t, u) /\ Moves(t, u, s) /\ u.refd = t.refd /\ u.for = t.for
         /\ \/ u.type[s] = t.type[s]
            \/ s \in t.refd /\ u.type[s] = "COMM_NEAR"
            \/ s \notin t.refd /\ u.type[s] = "NCOMM_UNREF"
         /\ Holds(t, u) /\ (~COMDEF_SEARCH => u.type[s] \in Decided)
<1> DEFINE kept == \/ t.type[s] \in {"RELOC", "COMM_NEAR", "NCOMM_UNREF"}
                   \/ t.type[s] \in {"LIBRARY", "LIBRARY_LIST"} /\ COMDEF_SEARCH
                      /\ ~(t.lib[s] = l /\ t.number[s] = n)
           v == Unlist(t, s)
<1>1. t \in TabSet /\ t.type \in [Syms -> Types]
  BY TypeOf
<1>2. u = IF kept THEN t ELSE IF s \in t.refd THEN AddTo(v, s, "COMM_NEAR") ELSE Retype(v, s, "NCOMM_UNREF")
  BY DEF Comdef
<1>3. /\ Sound(v, {s})
      /\ v.type = t.type /\ v.refd = t.refd /\ v.lib = t.lib /\ v.number = t.number /\ v.for = t.for
      /\ Calm(t, v)
  BY UnlistIs
<1>4. /\ "COMM_NEAR" \in Lists /\ "COMM_NEAR" \notin Standing
      /\ "NCOMM_UNREF" \in Types /\ "NCOMM_UNREF" \in Unlisted
  BY DEF Types, Lists, Unlisted, Standing
<1>0. kept /\ ~COMDEF_SEARCH => t.type[s] \in Decided
  BY DEF Decided
<1> HIDE DEF kept, v
<1>5. CASE kept
  BY <1>0, <1>1, <1>2, <1>5, CalmLater DEF Moves, Calm, Holds
<1>6. CASE ~kept /\ s \in t.refd
  <2>1. u = AddTo(v, s, "COMM_NEAR")
    BY <1>2, <1>6
  <2>2. /\ Sound(u, {}) /\ u.type = [v.type EXCEPT ![s] = "COMM_NEAR"]
        /\ u.refd = v.refd /\ u.lib = v.lib /\ u.number = v.number /\ u.for = v.for /\ Calm(v, u)
    BY <1>3, <1>4, <2>1, Listing
  <2>3. Later(t, u)
    BY <1>1, <1>3, <2>2, CalmLater DEF Calm
  <2> QED
    BY <1>1, <1>3, <1>6, <2>2, <2>3 DEF Moves, Holds, Decided
<1>7. CASE ~kept /\ s \notin t.refd
  <2>1. u = Retype(v, s, "NCOMM_UNREF")
    BY <1>2, <1>7
  <2>2. /\ Sound(u, {s}) /\ u.type = [v.type EXCEPT ![s] = "NCOMM_UNREF"]
        /\ u.refd = v.refd /\ u.lib = v.lib /\ u.number = v.number /\ u.for = v.for /\ Calm(v, u)
    BY <1>3, <1>4, <2>1, Retyped
  <2>3. u.type[s] = "NCOMM_UNREF"
    BY <1>1, <1>3, <2>2
  <2>4. Sound(u, {})
    BY <1>4, <2>2, <2>3, Settled DEF Grounded, Standing
  <2>5. Later(t, u)
    BY <1>1, <1>3, <2>2, CalmLater DEF Calm
  <2> QED
    BY <1>1, <1>3, <1>7, <2>2, <2>3, <2>4, <2>5 DEF Moves, Holds, Decided
<1> QED
  BY <1>5, <1>6, <1>7

(* What is called weak.                                                    *)
LEMMA WkextMoves ==
  ASSUME NEW t, Sound(t, {}), NEW p \in Syms \X Syms, NEW u, u = Wkext(t, p)
  PROVE  /\ Sound(u, {}) /\ Later(t, u) /\ Moves(t, u, p[1]) /\ u.refd = t.refd /\ Holds(t, u)
         /\ \/ u.type[p[1]] = t.type[p[1]] /\ u.for[p[1]] = t.for[p[1]]
            \/ t.type[p[1]] \in {"UNDEFINED", "LIBRARY"} /\ u.type[p[1]] = "POS_WEAK" /\ u.for[p[1]] = p[2]
<1> DEFINE s == p[1]
           v == Stands(t, s, p[2])
<1>1. t \in TabSet /\ t.type \in [Syms -> Types] /\ t.for \in [Syms -> Syms \union {None}]
      /\ s \in Syms /\ p[2] \in Syms
  BY TypeOf
<1>2. u = IF t.type[s] \in {"UNDEFINED", "LIBRARY"} THEN Retype(v, s, "POS_WEAK") ELSE t
  BY DEF Wkext, Stands
<1>3. /\ Sound(v, {}) /\ v.type = t.type /\ v.for = [t.for EXCEPT ![s] = p[2]]
      /\ v.refd = t.refd /\ v.lib = t.lib /\ v.number = t.number /\ Calm(t, v)
  BY <1>1, StandsFor
<1>4. {"UNDEFINED", "LIBRARY", "POS_WEAK"} \subseteq Unlisted /\ "POS_WEAK" \in Types
  BY DEF Types, Unlisted
<1> HIDE DEF v, s
<1>5. CASE t.type[s] \in {"UNDEFINED", "LIBRARY"}
  <2>1. u = Retype(v, s, "POS_WEAK")
    BY <1>2, <1>5
  <2>2. Sound(v, {s})
    BY <1>1, <1>3, <1>4, <1>5, Settled
  <2>3. /\ Sound(u, {s}) /\ u.type = [v.type EXCEPT ![s] = "POS_WEAK"]
        /\ u.refd = v.refd /\ u.lib = v.lib /\ u.number = v.number /\ u.for = v.for /\ Calm(v, u)
    BY <1>1, <1>4, <2>1, <2>2, Retyped
  <2>4. u.type[s] = "POS_WEAK" /\ u.for[s] = p[2]
    BY <1>1, <1>3, <2>3
  <2>5. Sound(u, {})
    BY <1>1, <1>4, <2>3, <2>4, Settled DEF Grounded
  <2>6. Later(t, u)
    BY <1>1, <1>3, <2>3, CalmLater DEF Calm
  <2>7. Moves(t, u, s)
    BY <1>1, <1>3, <2>3 DEF Moves
  <2>8. Holds(t, u)
    BY <1>5, <2>7 DEF Moves, Holds, Decided
  <2> QED
    BY <1>3, <1>5, <2>3, <2>4, <2>5, <2>6, <2>7, <2>8 DEF s
<1>6. CASE t.type[s] \notin {"UNDEFINED", "LIBRARY"}
  <2>1. u = t
    BY <1>2, <1>6
  <2> QED
    BY <1>1, <2>1, CalmLater DEF Moves, Calm, Holds
<1> QED
  BY <1>5, <1>6

(* What is called lazy.                                                    *)
LEMMA LzextMoves ==
  ASSUME NEW t, Sound(t, {}), NEW p \in Syms \X Syms, NEW u, u = Lzext(t, p)
  PROVE  /\ Sound(u, {}) /\ Later(t, u) /\ Moves(t, u, p[1]) /\ u.refd = t.refd /\ Holds(t, u)
         /\ \/ u.type[p[1]] = t.type[p[1]] /\ u.for[p[1]] = t.for[p[1]]
            \/ /\ t.type[p[1]] \in {"UNDEFINED", "WEAK_EXTRN", "WEAK_DEFINED", "WEAK_UNREF"}
               /\ u.type[p[1]] = "POS_LAZY" /\ u.for[p[1]] = p[2]
<1> DEFINE s == p[1]
           w == Unlist(t, s)
           v == Stands(w, s, p[2])
<1>1. t \in TabSet /\ t.type \in [Syms -> Types] /\ t.for \in [Syms -> Syms \union {None}]
      /\ s \in Syms /\ p[2] \in Syms
  BY TypeOf
<1>2. u = IF t.type[s] \in {"UNDEFINED", "WEAK_EXTRN", "WEAK_DEFINED", "WEAK_UNREF"}
          THEN Retype(v, s, "POS_LAZY") ELSE t
  BY DEF Lzext, Stands
<1>3. /\ Sound(w, {s})
      /\ w.type = t.type /\ w.refd = t.refd /\ w.lib = t.lib /\ w.number = t.number /\ w.for = t.for
      /\ Calm(t, w)
  BY <1>1, UnlistIs
<1> HIDE DEF w, s
<1>4. /\ Sound(v, {s}) /\ v.type = w.type /\ v.for = [w.for EXCEPT ![s] = p[2]]
      /\ v.refd = w.refd /\ v.lib = w.lib /\ v.number = w.number /\ Calm(w, v)
  BY <1>1, <1>3, StandsFor
<1>5. "POS_LAZY" \in Unlisted /\ "POS_LAZY" \in Types
  BY DEF Types, Unlisted
<1> HIDE DEF v
<1>6. CASE t.type[s] \in {"UNDEFINED", "WEAK_EXTRN", "WEAK_DEFINED", "WEAK_UNREF"}
  <2>1. u = Retype(v, s, "POS_LAZY")
    BY <1>2, <1>6
  <2>2. /\ Sound(u, {s}) /\ u.type = [v.type EXCEPT ![s] = "POS_LAZY"]
        /\ u.refd = v.refd /\ u.lib = v.lib /\ u.number = v.number /\ u.for = v.for /\ Calm(v, u)
    BY <1>1, <1>4, <1>5, <2>1, Retyped
  <2>3. u.type[s] = "POS_LAZY" /\ u.for[s] = p[2]
    BY <1>1, <1>3, <1>4, <2>2
  <2>4. Sound(u, {})
    BY <1>1, <1>5, <2>2, <2>3, Settled DEF Grounded
  <2>5. Later(t, u)
    BY <1>1, <1>3, <1>4, <2>2, CalmLater DEF Calm
  <2>6. Moves(t, u, s)
    BY <1>1, <1>3, <1>4, <2>2 DEF Moves
  <2>7. Holds(t, u)
    BY <1>6, <2>6 DEF Moves, Holds, Decided
  <2> QED
    BY <1>3, <1>4, <1>6, <2>2, <2>3, <2>4, <2>5, <2>6, <2>7 DEF s
<1>7. CASE t.type[s] \notin {"UNDEFINED", "WEAK_EXTRN", "WEAK_DEFINED", "WEAK_UNREF"}
  <2>1. u = t
    BY <1>2, <1>7
  <2> QED
    BY <1>1, <2>1, CalmLater DEF Moves, Calm, Holds
<1> QED
  BY <1>6, <1>7

AliasTypes == {"ALIASED", "ALIASED_UNREF", "ALIAS_DEFINED"}

(* What is called an alias.                                                *)
LEMMA AliasMoves ==
  ASSUME NEW t, Sound(t, {}), NEW p \in Syms \X Syms, NEW u, u = Alias(t, p)
  PROVE  /\ Sound(u, {}) /\ Later(t, u) /\ Moves(t, u, p[1]) /\ u.refd = t.refd /\ Holds(t, u)
         /\ \/ u.type[p[1]] = t.type[p[1]] /\ u.for[p[1]] = t.for[p[1]]
            \/ t.type[p[1]] \in AliasTypes /\ u.type[p[1]] = t.type[p[1]] /\ u.for[p[1]] = p[2]
            \/ p[1] \in t.refd /\ u.type[p[1]] = "ALIASED" /\ u.for[p[1]] = p[2]
            \/ p[1] \notin t.refd /\ u.type[p[1]] = "ALIASED_UNREF" /\ u.for[p[1]] = p[2]
<1> DEFINE s == p[1]
           new == Stands(t, s, p[2])
           v == Unlist(new, s)
<1>1. t \in TabSet /\ t.type \in [Syms -> Types] /\ t.for \in [Syms -> Syms \union {None}]
      /\ s \in Syms /\ p[2] \in Syms
  BY TypeOf
<1>2. u = IF t.type[s] \in {"RELOC", "COMM_NEAR", "NCOMM_UNREF"} THEN t
          ELSE IF t.type[s] \in AliasTypes THEN new
          ELSE IF s \in t.refd THEN AddTo(v, s, "ALIASED") ELSE Retype(v, s, "ALIASED_UNREF")
  BY DEF Alias, Stands, AliasTypes
<1>3. /\ Sound(new, {}) /\ new.type = t.type /\ new.for = [t.for EXCEPT ![s] = p[2]]
      /\ new.refd = t.refd /\ new.lib = t.lib /\ new.number = t.number /\ Calm(t, new)
  BY <1>1, StandsFor
<1> HIDE DEF s, new
<1>4. /\ Sound(v, {s})
      /\ v.type = new.type /\ v.refd = new.refd /\ v.lib = new.lib /\ v.number = new.number /\ v.for = new.for
      /\ Calm(new, v)
  BY <1>1, <1>3, UnlistIs
<1>5. /\ "ALIASED" \in Lists /\ v.for[s] = p[2] /\ new.for[s] = p[2]
      /\ "ALIASED_UNREF" \in Unlisted /\ "ALIASED_UNREF" \in Types
  BY <1>1, <1>3, <1>4 DEF Types, Unlisted, Lists
<1> HIDE DEF v
<1>6. CASE t.type[s] \in {"RELOC", "COMM_NEAR", "NCOMM_UNREF"}
  <2>1. u = t
    BY <1>2, <1>6
  <2> QED
    BY <1>1, <2>1, CalmLater DEF Moves, Calm, Holds, s
<1>7. CASE t.type[s] \notin {"RELOC", "COMM_NEAR", "NCOMM_UNREF"} /\ t.type[s] \in AliasTypes
  <2>1. u = new
    BY <1>2, <1>7
  <2>2. Later(t, u) /\ Moves(t, u, s)
    BY <1>1, <1>3, <2>1, CalmLater DEF Moves
  <2> QED
    BY <1>3, <1>5, <1>7, <2>1, <2>2 DEF s, Holds
<1>8. CASE /\ t.type[s] \notin {"RELOC", "COMM_NEAR", "NCOMM_UNREF"} /\ t.type[s] \notin AliasTypes
           /\ s \in t.refd
  <2>1. u = AddTo(v, s, "ALIASED")
    BY <1>2, <1>8
  <2>2. /\ Sound(u, {}) /\ u.type = [v.type EXCEPT ![s] = "ALIASED"]
        /\ u.refd = v.refd /\ u.lib = v.lib /\ u.number = v.number /\ u.for = v.for /\ Calm(v, u)
    BY <1>1, <1>4, <1>5, <2>1, Listing
  <2>3. Later(t, u)
    BY <1>1, <1>3, <1>4, <2>2, CalmLater DEF Calm
  <2>4. Moves(t, u, s)
    BY <1>1, <1>3, <1>4, <2>2 DEF Moves
  <2>5. u.type[s] = "ALIASED" /\ u.for[s] = p[2] /\ u.refd = t.refd
    BY <1>1, <1>3, <1>4, <1>5, <2>2
  <2>6. Holds(t, u)
    BY <1>8, <2>4 DEF Moves, Holds, Decided
  <2> QED
    BY <1>8, <2>2, <2>3, <2>4, <2>5, <2>6 DEF s
<1>9. CASE /\ t.type[s] \notin {"RELOC", "COMM_NEAR", "NCOMM_UNREF"} /\ t.type[s] \notin AliasTypes
           /\ s \notin t.refd
  <2>1. u = Retype(v, s, "ALIASED_UNREF")
    BY <1>2, <1>9
  <2>2. /\ Sound(u, {s}) /\ u.type = [v.type EXCEPT ![s] = "ALIASED_UNREF"]
        /\ u.refd = v.refd /\ u.lib = v.lib /\ u.number = v.number /\ u.for = v.for /\ Calm(v, u)
    BY <1>1, <1>4, <1>5, <2>1, Retyped
  <2>3. u.type[s] = "ALIASED_UNREF" /\ u.for[s] = p[2] /\ u.refd = t.refd
    BY <1>1, <1>3, <1>4, <1>5, <2>2
  <2>4. Sound(u, {})
    BY <1>1, <1>5, <2>2, <2>3, Settled DEF Grounded
  <2>5. Later(t, u)
    BY <1>1, <1>3, <1>4, <2>2, CalmLater DEF Calm
  <2>6. Moves(t, u, s)
    BY <1>1, <1>3, <1>4, <2>2 DEF Moves
  <2>7. Holds(t, u)
    BY <1>9, <2>6 DEF Moves, Holds, Decided
  <2> QED
    BY <1>9, <2>2, <2>3, <2>4, <2>5, <2>6, <2>7 DEF s
<1> QED
  BY <1>6, <1>7, <1>8, <1>9

(* A symbol that waited for its library, or was on no list, is listed or   *)
(* wanted.                                                                 *)
Reaches(t, u, s, ty) ==
  /\ Sound(u, {}) /\ Later(t, u) /\ Moves(t, u, s) /\ u.refd = t.refd \union {s}
  /\ u.for = t.for /\ u.type[s] = ty

(* A symbol on no list is referenced and put in one.                       *)
LEMMA ListedAt ==
  ASSUME NEW t, Sound(t, {}), NEW s \in Syms, t.type[s] \in Unlisted, NEW l \in Lists,
         l \in Standing => t.type[s] \in Standing,
         NEW u, u = AddTo(Referenced(t, s), s, l)
  PROVE  Reaches(t, u, s, l)
<1> DEFINE r == Referenced(t, s)
<1>1. t \in TabSet /\ t.type \in [Syms -> Types]
  BY TypeOf
<1>2. Sound(t, {s}) /\ Grounded(t, s)
  BY Settled
<1>3. /\ Sound(r, {s}) /\ r.type = t.type /\ r.refd = t.refd \union {s}
      /\ r.lib = t.lib /\ r.number = t.number /\ r.for = t.for /\ Calm(t, r)
  BY <1>2, References
<1>4. u = AddTo(r, s, l)
  OBVIOUS
<1>5. l \in Standing => r.for[s] \in Syms
  BY <1>2, <1>3 DEF Grounded
<1> HIDE DEF r
<1>6. /\ Sound(u, {}) /\ u.type = [r.type EXCEPT ![s] = l]
      /\ u.refd = r.refd /\ u.lib = r.lib /\ u.number = r.number /\ u.for = r.for /\ Calm(r, u)
  BY <1>3, <1>4, <1>5, Listing
<1>7. Later(t, u)
  BY <1>1, <1>3, <1>6, CalmLater DEF Calm
<1>8. Moves(t, u, s) /\ u.type[s] = l
  BY <1>1, <1>3, <1>6 DEF Moves
<1> QED
  BY <1>3, <1>6, <1>7, <1>8 DEF Reaches

(* A library's symbol is referenced and wanted from it.                    *)
LEMMA WantedNow ==
  ASSUME NEW t, Sound(t, {}), NEW s \in Syms, t.type[s] = "LIBRARY",
         NEW u, u = ReferenceLibsym(Referenced(t, s), s)
  PROVE  Reaches(t, u, s, "LIBRARY_LIST")
<1> DEFINE r == Referenced(t, s)
<1>1. t \in TabSet /\ t.type \in [Syms -> Types] /\ t.type[s] \in Unlisted
  BY TypeOf, NotLibrary
<1>2. Sound(t, {s}) /\ Grounded(t, s)
  BY <1>1, Settled
<1>3. /\ Sound(r, {s}) /\ r.type = t.type /\ r.refd = t.refd \union {s}
      /\ r.lib = t.lib /\ r.number = t.number /\ r.for = t.for /\ Calm(t, r)
  BY <1>2, References
<1>4. u = ReferenceLibsym(r, s) /\ r.lib[s] \in Libs
  BY <1>2, <1>3 DEF Grounded
<1> HIDE DEF r
<1>5. /\ Sound(u, {}) /\ u.type = [r.type EXCEPT ![s] = "LIBRARY_LIST"]
      /\ u.refd = r.refd /\ u.for = r.for /\ Later(r, u)
  BY <1>3, <1>4, Wanting
<1>6. Later(t, u)
  BY <1>3, <1>5 DEF Later, Calm
<1>7. Moves(t, u, s) /\ u.type[s] = "LIBRARY_LIST"
  BY <1>1, <1>3, <1>5 DEF Moves
<1> QED
  BY <1>3, <1>5, <1>6, <1>7 DEF Reaches

(* Off its list, a symbol is wanted from its library, if it has one.       *)
Demand(t, s) == IF t.lib[s] # None THEN ReferenceLibsym(t, s) ELSE AddTo(t, s, "EXTERNAL")

(* A symbol in a list is referenced, and wanted or external then.          *)
LEMMA DemandedNow ==
  ASSUME NEW t, Sound(t, {}), NEW s \in Syms, t.type[s] \in Lists,
         NEW u, u = Demand(RemoveFrom(Referenced(t, s), s, t.type[s]), s)
  PROVE  Reaches(t, u, s, "LIBRARY_LIST") \/ Reaches(t, u, s, "EXTERNAL")
<1> DEFINE r == Referenced(t, s)
           v == RemoveFrom(r, s, t.type[s])
<1>1. t \in TabSet /\ t.type \in [Syms -> Types] /\ t.lib \in [Syms -> Libs \union {None}]
  BY TypeOf
<1>2. /\ Sound(r, {}) /\ r.type = t.type /\ r.refd = t.refd \union {s}
      /\ r.lib = t.lib /\ r.number = t.number /\ r.for = t.for /\ Calm(t, r)
  BY References
<1>3. v = Unlist(r, s)
  BY <1>2 DEF Unlist
<1>4. u = Demand(v, s)
  OBVIOUS
<1> HIDE DEF r, v
<1>5. /\ Sound(v, {s})
      /\ v.type = r.type /\ v.refd = r.refd /\ v.lib = r.lib /\ v.number = r.number /\ v.for = r.for
      /\ Calm(r, v)
  BY <1>2, <1>3, UnlistIs
<1>6. CASE v.lib[s] # None
  <2>1. u = ReferenceLibsym(v, s) /\ v.lib[s] \in Libs
    BY <1>1, <1>2, <1>4, <1>5, <1>6 DEF Demand
  <2>2. /\ Sound(u, {}) /\ u.type = [v.type EXCEPT ![s] = "LIBRARY_LIST"]
        /\ u.refd = v.refd /\ u.for = v.for /\ Later(v, u)
    BY <1>5, <2>1, Wanting
  <2>3. Later(t, u)
    BY <1>2, <1>5, <2>2 DEF Later, Calm
  <2>4. Moves(t, u, s) /\ u.type[s] = "LIBRARY_LIST"
    BY <1>1, <1>2, <1>5, <2>2 DEF Moves
  <2> QED
    BY <1>2, <1>5, <2>2, <2>3, <2>4 DEF Reaches
<1>7. CASE v.lib[s] = None
  <2>1. u = AddTo(v, s, "EXTERNAL") /\ "EXTERNAL" \in Lists /\ "EXTERNAL" \notin Standing
    BY <1>4, <1>7 DEF Demand, Lists, Standing
  <2>2. /\ Sound(u, {}) /\ u.type = [v.type EXCEPT ![s] = "EXTERNAL"]
        /\ u.refd = v.refd /\ u.lib = v.lib /\ u.number = v.number /\ u.for = v.for /\ Calm(v, u)
    BY <1>5, <2>1, Listing
  <2>3. Later(t, u)
    BY <1>1, <1>2, <1>5, <2>2, CalmLater DEF Calm
  <2>4. Moves(t, u, s) /\ u.type[s] = "EXTERNAL"
    BY <1>1, <1>2, <1>5, <2>2 DEF Moves
  <2> QED
    BY <1>2, <1>5, <2>2, <2>3, <2>4 DEF Reaches
<1> QED
  BY <1>6, <1>7

Possibles == {"POS_WEAK", "POS_LAZY"}

(* What becomes of an external at the end of the module: nothing; it may   *)
(* have become weak or lazy, unreferenced; or it is referenced now.        *)
ExternEnds(t, u, s, real) ==
  \/ u.refd = t.refd /\ u.type[s] = t.type[s] /\ t.type[s] \notin Possibles
  \/ ~real /\ u.refd = t.refd /\ t.type[s] = "POS_WEAK" /\ u.type[s] = "WEAK_UNREF"
  \/ ~real /\ u.refd = t.refd /\ t.type[s] = "POS_LAZY" /\ u.type[s] = "LAZY_UNREF"
  \/ /\ u.refd = t.refd \union {s}
     /\ \/ u.type[s] \in {"EXTERNAL", "LIBRARY_LIST", "LAZY"} /\ t.type[s] \notin Decided
        \/ u.type[s] = "COMM_NEAR"
        \/ u.type[s] = "WEAK_EXTRN" /\ t.type[s] \in {"POS_WEAK", "WEAK_UNREF"}
        \/ u.type[s] = "ALIASED" /\ t.type[s] = "ALIASED_UNREF"
        \/ /\ u.type[s] = t.type[s]
           /\ t.type[s] \in {"RELOC", "COMM_NEAR", "ALIASED", "ALIAS_DEFINED",
                             "WEAK_EXTRN", "WEAK_DEFINED", "LAZY", "LAZY_DEFINED"}

(* An external at the end of its module.                                   *)
LEMMA ProcessExtrnMoves ==
  ASSUME NEW t, Sound(t, {}), NEW s \in Syms, NEW real \in BOOLEAN, NEW again \in BOOLEAN,
         NEW u, u = ProcessExtrn(t, s, real, again)
  PROVE  Sound(u, {}) /\ Later(t, u) /\ Moves(t, u, s) /\ u.for = t.for /\ ExternEnds(t, u, s, real)
<1> DEFINE ty == t.type[s]
           r == Referenced(t, s)
           Goal == Sound(u, {}) /\ Later(t, u) /\ Moves(t, u, s) /\ u.for = t.for /\ ExternEnds(t, u, s, real)
<1>1. t \in TabSet /\ t.type \in [Syms -> Types] /\ ty \in Types
  BY TypeOf
<1>2. /\ Sound(r, {}) /\ r.type = t.type /\ r.refd = t.refd \union {s}
      /\ r.lib = t.lib /\ r.number = t.number /\ r.for = t.for /\ Calm(t, r)
  BY References
<1>3. Later(t, t) /\ Moves(t, t, s) /\ Later(t, r) /\ Moves(t, r, s)
  BY <1>1, <1>2, CalmLater DEF Calm, Moves
<1>4. u = CASE ty \in {"EXTERNAL", "LIBRARY_LIST"} -> t
            [] ty = "POS_WEAK" /\ ~real  -> Retype(t, s, "WEAK_UNREF")
            [] ty = "POS_LAZY" /\ ~real  -> Retype(t, s, "LAZY_UNREF")
            [] ty = "POS_WEAK" /\ real   -> AddTo(r, s, "WEAK_EXTRN")
            [] ty = "POS_LAZY" /\ real   -> AddTo(r, s, "LAZY")
            [] ty = "UNDEFINED" /\ real  -> AddTo(r, s, "EXTERNAL")
            [] ty = "LIBRARY" /\ real    -> ReferenceLibsym(r, s)
            [] ty = "WEAK_UNREF" /\ real -> AddTo(r, s, IF again THEN "WEAK_EXTRN" ELSE "EXTERNAL")
            [] ty = "LAZY_UNREF" /\ real -> AddTo(r, s, IF again THEN "LAZY" ELSE "EXTERNAL")
            [] ty \in {"WEAK_EXTRN", "WEAK_DEFINED", "LAZY", "LAZY_DEFINED"} /\ real ->
                 IF again THEN r ELSE Demand(RemoveFrom(r, s, ty), s)
            [] ty = "ALIASED_UNREF" /\ real -> AddTo(r, s, "ALIASED")
            [] ty = "NCOMM_UNREF" /\ real   -> AddTo(r, s, "COMM_NEAR")
            [] ty \in {"RELOC", "COMM_NEAR", "ALIASED", "ALIAS_DEFINED"} -> IF real THEN r ELSE t
            [] OTHER -> t
  BY DEF ProcessExtrn, Demand
<1>5. ASSUME u = t, ty \notin Possibles PROVE Goal
  BY <1>3, <1>5 DEF ExternEnds
<1>6. ASSUME u = r, ty \in {"RELOC", "COMM_NEAR", "ALIASED", "ALIAS_DEFINED",
                            "WEAK_EXTRN", "WEAK_DEFINED", "LAZY", "LAZY_DEFINED"}
      PROVE  Goal
  BY <1>2, <1>3, <1>6 DEF ExternEnds
<1>7. ASSUME NEW l, Reaches(t, u, s, l),
             \/ l \in {"EXTERNAL", "LIBRARY_LIST", "LAZY"} /\ ty \notin Decided
             \/ l = "COMM_NEAR"
             \/ l = "WEAK_EXTRN" /\ ty \in {"POS_WEAK", "WEAK_UNREF"}
             \/ l = "ALIASED" /\ ty = "ALIASED_UNREF"
      PROVE  Goal
  BY <1>7 DEF Reaches, ExternEnds
<1>8. ASSUME NEW to \in {"WEAK_UNREF", "LAZY_UNREF"}, ty \in Possibles, u = Retype(t, s, to)
      PROVE  /\ Sound(u, {}) /\ Later(t, u) /\ Moves(t, u, s) /\ u.for = t.for
             /\ u.refd = t.refd /\ u.type[s] = to
  <2>1. ty \in Unlisted /\ ty \in Standing /\ to \in Unlisted /\ to \in Types /\ to # "LIBRARY" /\ to # "LIBRARY_LIST"
    BY <1>8 DEF Unlisted, Standing, Possibles, Types
  <2>2. Sound(t, {s}) /\ t.for[s] \in Syms
    BY <2>1, Settled DEF Grounded
  <2>3. /\ Sound(u, {s}) /\ u.type = [t.type EXCEPT ![s] = to]
        /\ u.refd = t.refd /\ u.lib = t.lib /\ u.number = t.number /\ u.for = t.for /\ Calm(t, u)
    BY <1>8, <2>1, <2>2, Retyped
  <2>4. u.type[s] = to
    BY <1>1, <2>3
  <2>5. Sound(u, {})
    BY <2>1, <2>2, <2>3, <2>4, Settled DEF Grounded
  <2>6. Later(t, u) /\ Moves(t, u, s)
    BY <1>1, <2>3, CalmLater DEF Moves
  <2> QED
    BY <2>3, <2>4, <2>5, <2>6
<1>9. ASSUME NEW l \in Lists, ty \in Unlisted, l \in Standing => ty \in Standing, u = AddTo(r, s, l)
      PROVE  Reaches(t, u, s, l)
  BY <1>9, ListedAt
<1> SUFFICES Goal
  BY DEF Goal
<1> HIDE DEF Goal, r
<1>10. CASE ty \in {"EXTERNAL", "LIBRARY_LIST"}
  BY <1>4, <1>5, <1>10 DEF Possibles
<1>11. CASE ty \in Possibles /\ ~real
  <2>1. u = Retype(t, s, IF ty = "POS_WEAK" THEN "WEAK_UNREF" ELSE "LAZY_UNREF")
    BY <1>4, <1>11 DEF Possibles
  <2> QED
    BY <1>8, <1>11, <2>1 DEF Goal, ExternEnds, Possibles
<1>0. Decided = {"RELOC", "COMM_NEAR", "NCOMM_UNREF"}
  BY DEF Decided
<1>12. CASE ty = "POS_WEAK" /\ real
  <2>1. u = AddTo(r, s, "WEAK_EXTRN")
    BY <1>4, <1>12
  <2> QED
    BY <1>7, <1>9, <1>12, <2>1 DEF Lists, Unlisted, Standing
<1>13. CASE ty = "POS_LAZY" /\ real
  <2>1. u = AddTo(r, s, "LAZY")
    BY <1>4, <1>13
  <2> QED
    BY <1>0, <1>7, <1>9, <1>13, <2>1 DEF Lists, Unlisted, Standing
<1>14. CASE ty = "UNDEFINED" /\ real
  <2>1. u = AddTo(r, s, "EXTERNAL")
    BY <1>4, <1>14
  <2> QED
    BY <1>0, <1>7, <1>9, <1>14, <2>1 DEF Lists, Unlisted, Standing
<1>15. CASE ty = "LIBRARY" /\ real
  <2>1. u = ReferenceLibsym(r, s)
    BY <1>4, <1>15
  <2>2. Reaches(t, u, s, "LIBRARY_LIST")
    BY <1>15, <2>1, WantedNow DEF r
  <2> QED
    BY <1>0, <1>7, <1>15, <2>2
<1>16. CASE ty = "WEAK_UNREF" /\ real
  <2>1. u = AddTo(r, s, IF again THEN "WEAK_EXTRN" ELSE "EXTERNAL")
    BY <1>4, <1>16
  <2> QED
    BY <1>0, <1>7, <1>9, <1>16, <2>1 DEF Lists, Unlisted, Standing
<1>17. CASE ty = "LAZY_UNREF" /\ real
  <2>1. u = AddTo(r, s, IF again THEN "LAZY" ELSE "EXTERNAL")
    BY <1>4, <1>17
  <2> QED
    BY <1>0, <1>7, <1>9, <1>17, <2>1 DEF Lists, Unlisted, Standing
<1>18. CASE ty \in {"WEAK_EXTRN", "WEAK_DEFINED", "LAZY", "LAZY_DEFINED"} /\ real
  <2>1. u = IF again THEN r ELSE Demand(RemoveFrom(r, s, ty), s)
    BY <1>4, <1>18
  <2>2. CASE again
    BY <1>6, <1>18, <2>1, <2>2
  <2>3. CASE ~again
    <3>1. u = Demand(RemoveFrom(Referenced(t, s), s, t.type[s]), s) /\ ty \in Lists
      BY <1>18, <2>1, <2>3 DEF r, Lists
    <3>2. Reaches(t, u, s, "LIBRARY_LIST") \/ Reaches(t, u, s, "EXTERNAL")
      BY <3>1, DemandedNow
    <3> QED
      BY <1>0, <1>7, <1>18, <3>2
  <2> QED
    BY <2>2, <2>3
<1>19. CASE ty = "ALIASED_UNREF" /\ real
  <2>1. u = AddTo(r, s, "ALIASED")
    BY <1>4, <1>19
  <2> QED
    BY <1>7, <1>9, <1>19, <2>1 DEF Lists, Unlisted, Standing
<1>20. CASE ty = "NCOMM_UNREF" /\ real
  <2>1. u = AddTo(r, s, "COMM_NEAR")
    BY <1>4, <1>20
  <2> QED
    BY <1>7, <1>9, <1>20, <2>1 DEF Lists, Unlisted, Standing
<1>21. CASE ty \in {"RELOC", "COMM_NEAR", "ALIASED", "ALIAS_DEFINED"}
  <2>1. u = IF real THEN r ELSE t
    BY <1>4, <1>21
  <2> QED
    BY <1>5, <1>6, <1>21, <2>1 DEF Possibles
<1>22. CASE /\ ty \notin {"EXTERNAL", "LIBRARY_LIST", "RELOC", "COMM_NEAR", "ALIASED", "ALIAS_DEFINED"}
            /\ ty \notin Possibles /\ ~real
  <2>1. u = t
    BY <1>4, <1>22 DEF Possibles
  <2> QED
    BY <1>5, <1>22, <2>1
<1>23. ty \in {"EXTERNAL", "LIBRARY_LIST", "RELOC", "COMM_NEAR", "ALIASED", "ALIAS_DEFINED", "UNDEFINED",
               "LIBRARY", "WEAK_UNREF", "LAZY_UNREF", "WEAK_EXTRN", "WEAK_DEFINED", "LAZY", "LAZY_DEFINED",
               "ALIASED_UNREF", "NCOMM_UNREF"} \union Possibles
  BY <1>1 DEF Types, Lists, Unlisted, Possibles
<1> QED
  BY <1>10, <1>11, <1>12, <1>13, <1>14, <1>15, <1>16, <1>17, <1>18, <1>19, <1>20, <1>21, <1>22, <1>23
     DEF Possibles


(* What was decided on stays so.                                           *)
LEMMA ExternHolds ==
  ASSUME NEW t, NEW u, NEW s \in Syms, NEW real, Moves(t, u, s), ExternEnds(t, u, s, real)
  PROVE  Holds(t, u)
BY DEF Moves, ExternEnds, Holds, Decided, Possibles

(* What stands in for another is referenced, and wanted or listed if it is *)
(* not what it stands as already.                                          *)
FallsBack(t, u, d) ==
  \/ u.type[d] = t.type[d] /\ t.type[d] \notin DOMAIN Unreferenced \union {"LIBRARY"}
  \/ t.type[d] = "LIBRARY" /\ u.type[d] = "LIBRARY_LIST"
  \/ t.type[d] \in DOMAIN Unreferenced /\ u.type[d] = Unreferenced[t.type[d]]

(* What is not referenced is in no list.                                   *)
LEMMA UnreferencedAre ==
  /\ DOMAIN Unreferenced = {"WEAK_UNREF", "LAZY_UNREF", "ALIASED_UNREF", "NCOMM_UNREF", "UNDEFINED"}
  /\ \A ty \in DOMAIN Unreferenced :
       /\ ty \in Unlisted /\ ty # "LIBRARY" /\ Unreferenced[ty] \in Lists
       /\ Unreferenced[ty] \in Standing => ty \in Standing
       /\ Unreferenced[ty] \notin {"WEAK_DEFINED", "LAZY_DEFINED", "ALIAS_DEFINED"}
BY DEF Unreferenced, Lists, Unlisted, Standing

(* What stands in for another is referenced.                               *)
LEMMA FixDefaultMoves ==
  ASSUME NEW t, Sound(t, {}), NEW d \in Syms, NEW u, u = FixDefault(t, d)
  PROVE  /\ Sound(u, {}) /\ Later(t, u) /\ Moves(t, u, d) /\ u.for = t.for
         /\ u.refd = t.refd \union {d} /\ FallsBack(t, u, d) /\ Holds(t, u)
<1> DEFINE r == Referenced(t, d)
<1>1. t \in TabSet /\ t.type \in [Syms -> Types]
  BY TypeOf
<1>2. ASSUME Moves(t, u, d), FallsBack(t, u, d) PROVE Holds(t, u)
  BY <1>2 DEF Moves, FallsBack, Holds, Decided, Unreferenced
<1>3. CASE t.type[d] = "LIBRARY"
  <2>1. u = ReferenceLibsym(r, d)
    BY <1>3 DEF FixDefault
  <2>2. Reaches(t, u, d, "LIBRARY_LIST")
    BY <1>3, <2>1, WantedNow
  <2> QED
    BY <1>2, <1>3, <2>2 DEF Reaches, FallsBack
<1>4. CASE t.type[d] \in DOMAIN Unreferenced
  <2>1. u = AddTo(r, d, Unreferenced[t.type[d]])
    BY <1>4, UnreferencedAre DEF FixDefault
  <2>2. Reaches(t, u, d, Unreferenced[t.type[d]])
    BY <1>4, <2>1, UnreferencedAre, ListedAt
  <2> QED
    BY <1>2, <1>4, <2>2 DEF Reaches, FallsBack
<1>5. CASE t.type[d] \notin DOMAIN Unreferenced \union {"LIBRARY"}
  <2>1. u = r
    BY <1>5 DEF FixDefault
  <2>2. /\ Sound(u, {}) /\ u.type = t.type /\ u.refd = t.refd \union {d}
        /\ u.lib = t.lib /\ u.number = t.number /\ u.for = t.for /\ Calm(t, u)
    BY <2>1, References
  <2>3. Later(t, u) /\ Moves(t, u, d)
    BY <1>1, <2>2, CalmLater DEF Moves
  <2> QED
    BY <1>2, <1>5, <2>2, <2>3 DEF FallsBack
<1> QED
  BY <1>3, <1>4, <1>5

(* A symbol is put at the end of a list.                                   *)
LEMMA AddedLast ==
  ASSUME NEW t \in TabSet, NEW s \in Syms, NEW l \in Lists
  PROVE  \A k \in Lists : AddTo(t, s, l).list[k] = IF k = l THEN Append(t.list[l], s) ELSE t.list[k]
<1> DEFINE e == Append(t.list[l], s)
           list == [t.list EXCEPT ![l] = e]
<1>1. t.list \in [Lists -> Seq(Syms)]
  BY DEF TabSet
<1>2. AddTo(t, s, l) = [t EXCEPT !.list = list, !.type = [t.type EXCEPT ![s] = l]]
  BY DEF AddTo, TabSet
<1> HIDE DEF e
<1>3. AddTo(t, s, l).list = list
  BY <1>2 DEF TabSet
<1>4. AddTo(t, s, l).list = [k \in Lists |-> IF k = l THEN e ELSE t.list[k]]
  BY <1>1, <1>3
<1> QED
  BY <1>4 DEF e

(* It never comes first in a list that was not empty.                      *)
LEMMA FirstStays ==
  ASSUME NEW t \in TabSet, NEW d \in Syms, NEW l \in Lists, t.list[l] # <<>>,
         NEW u, u = FixDefault(t, d)
  PROVE  u.list[l] # <<>> /\ Head(u.list[l]) = Head(t.list[l])
<1> DEFINE r == Referenced(t, d)
<1>1. r \in TabSet /\ r.list = t.list /\ r.type = t.type
  BY ReferencedIs
<1>2. t.list \in [Lists -> Seq(Syms)] /\ t.list[l] \in Seq(Syms)
  BY DEF TabSet
<1>3. \A x \in Syms : /\ Append(t.list[l], x) # <<>>
                      /\ Head(Append(t.list[l], x)) = Head(t.list[l])
  BY <1>2
<1> HIDE DEF r
<1>4. CASE t.type[d] = "LIBRARY"
  <2>1. u = ReferenceLibsym(r, d)
    BY <1>4 DEF FixDefault, r
  <2>2. u.list = r.list
    BY <1>1, <2>1 DEF ReferenceLibsym, LibSymRequest, TabSet
  <2> QED
    BY <1>1, <2>2
<1>5. CASE t.type[d] \in DOMAIN Unreferenced
  <2>1. PICK k \in Lists : u = AddTo(r, d, k)
    BY <1>5, UnreferencedAre DEF FixDefault, r
  <2>2. \A x \in Lists : u.list[x] = IF x = k THEN Append(r.list[k], d) ELSE r.list[x]
    BY <1>1, <2>1, AddedLast
  <2> QED
    BY <1>1, <1>2, <1>3, <2>2
<1>6. CASE t.type[d] \notin DOMAIN Unreferenced \union {"LIBRARY"}
  BY <1>1, <1>6 DEF FixDefault, r
<1> QED
  BY <1>4, <1>5, <1>6

(* The scans and the lists they fill.                                      *)
LEMMA DefinedAre ==
  /\ DOMAIN Defined = {"ALIASED", "WEAK_EXTRN", "LAZY"}
  /\ \A l \in DOMAIN Defined :
       /\ l \in Lists /\ l \in Standing /\ Defined[l] \in Lists /\ Defined[l] \in Standing
       /\ Defined[l] \notin DOMAIN Defined
       /\ l \notin DOMAIN Unreferenced /\ l # "LIBRARY"
BY DEF Defined, Lists, Standing, Unreferenced

(* The first of a list is seen to: what stands in for it, in v, then it.   *)
SeenTo(t, u, v, s, l) ==
  /\ s \in Syms /\ t.for[s] \in Syms /\ t.type[s] = l
  /\ Sound(v, {}) /\ Moves(t, v, t.for[s]) /\ v.for = t.for
  /\ v.refd = t.refd \union {t.for[s]} /\ FallsBack(t, v, t.for[s])
  /\ u.type = [v.type EXCEPT ![s] = Defined[l]] /\ u.refd = v.refd /\ u.for = t.for

(* A turn of a scan sees to the first symbol of its list.                  *)
LEMMA TurnMoves ==
  ASSUME NEW t, Sound(t, {}), NEW l \in DOMAIN Defined, t.list[l] # <<>>,
         NEW u, u = Turn(t, l, Defined[l])
  PROVE  /\ Sound(u, {}) /\ Later(t, u) /\ Holds(t, u)
         /\ SeenTo(t, u, FixDefault(t, t.for[Head(t.list[l])]), Head(t.list[l]), l)
<1> DEFINE s == Head(t.list[l])
           d == t.for[s]
           v == FixDefault(t, d)
           w == Unlist(v, s)
<1>1. t \in TabSet /\ t.type \in [Syms -> Types] /\ l \in Lists /\ l \in Standing /\ t.list[l] \in Seq(Syms)
  <2>1. t \in TabSet /\ t.type \in [Syms -> Types] /\ l \in Lists /\ l \in Standing
    BY TypeOf, DefinedAre
  <2>2. t.list \in [Lists -> Seq(Syms)]
    BY <2>1 DEF TabSet
  <2> QED
    BY <2>1, <2>2
<1>2. s \in Syms /\ t.type[s] = l /\ d \in Syms
  <2>1. s = t.list[l][1] /\ 1 \in DOMAIN t.list[l]
    BY <1>1
  <2>2. s \in RangeOf(t.list[l])
    BY <2>1 DEF RangeOf
  <2>3. s \in Syms /\ t.type[s] = l
    BY <1>1, <2>2 DEF Sound, ListsRight
  <2> QED
    BY <1>1, <2>3 DEF Sound, Grounded
<1>3. v.list[l] # <<>> /\ Head(v.list[l]) = s
  BY <1>1, <1>2, FirstStays
<1> HIDE DEF s
<1>4. /\ Sound(v, {}) /\ Later(t, v) /\ Moves(t, v, d) /\ v.for = t.for
      /\ v.refd = t.refd \union {d} /\ FallsBack(t, v, d) /\ Holds(t, v)
  BY <1>2, FixDefaultMoves
<1>5. u = AddTo(RemoveFrom(v, s, l), s, Defined[l])
  BY <1>3 DEF Turn, FixLink, s
<1> HIDE DEF v
<1>6. v.type[s] = l /\ v.type \in [Syms -> Types]
  <2>1. CASE s = d
    BY <1>2, <1>4, <2>1, DefinedAre, TypeOf DEF FallsBack
  <2>2. CASE s # d
    BY <1>2, <1>4, <2>2, TypeOf DEF Moves
  <2> QED
    BY <2>1, <2>2
<1>7. u = AddTo(w, s, Defined[l])
  BY <1>1, <1>5, <1>6 DEF Unlist
<1>8. /\ Sound(w, {s})
      /\ w.type = v.type /\ w.refd = v.refd /\ w.lib = v.lib /\ w.number = v.number /\ w.for = v.for
      /\ Calm(v, w)
  BY <1>2, <1>4, UnlistIs
<1> HIDE DEF w
<1>9. /\ Sound(u, {}) /\ u.type = [w.type EXCEPT ![s] = Defined[l]]
      /\ u.refd = w.refd /\ u.lib = w.lib /\ u.number = w.number /\ u.for = w.for /\ Calm(w, u)
  <2>1. PICK k \in Lists : k = Defined[l]
    BY DefinedAre
  <2>2. w.for[s] \in Syms /\ u = AddTo(w, s, k)
    BY <1>2, <1>4, <1>7, <1>8, <2>1
  <2>3. /\ Sound(u, {}) /\ u.type = [w.type EXCEPT ![s] = k]
        /\ u.refd = w.refd /\ u.lib = w.lib /\ u.number = w.number /\ u.for = w.for /\ Calm(w, u)
    BY <1>2, <1>8, <2>2, Listing
  <2> QED
    BY <2>1, <2>3
<1>10. Later(v, u)
  <2>1. v \in TabSet /\ Calm(v, u) /\ u.lib = v.lib /\ u.number = v.number
    BY <1>4, <1>8, <1>9, TypeOf DEF Calm
  <2> QED
    BY <2>1, CalmLater
<1>11. Later(t, u)
  BY <1>1, <1>4, <1>9, <1>10, TypeOf, LaterStill
<1>12. SeenTo(t, u, v, s, l)
  BY <1>2, <1>4, <1>8, <1>9 DEF SeenTo
<1>13. Holds(t, u)
  <2>1. l \notin Decided
    BY DefinedAre DEF Decided
  <2>2. \A x \in Syms : x # s => u.type[x] = v.type[x]
    BY <1>6, <1>8, <1>9
  <2> QED
    BY <1>2, <1>4, <2>1, <2>2 DEF Holds
<1> QED
  BY <1>9, <1>11, <1>12, <1>13 DEF v, s

(* What a dictionary entry makes of a symbol: nothing, or it is the        *)
(* library's now, to be read, asked for, or to wait as weak.               *)
EntryLeads(t, u, s, l, p) ==
  \/ u.type[s] = t.type[s] /\ u.lib[s] = t.lib[s] /\ u.number[s] = t.number[s]
  \/ /\ u.lib[s] = l /\ u.number[s] = p
     /\ t.type[s] \in {"COMM_NEAR", "NCOMM_UNREF"} => COMDEF_SEARCH
     /\ \/ t.type[s] \in {"UNDEFINED", "LAZY_UNREF", "NCOMM_UNREF"} /\ u.type[s] = "LIBRARY"
        \/ t.type[s] \in {"EXTERNAL", "LAZY", "LAZY_DEFINED", "COMM_NEAR"} /\ u.type[s] = "EXTERNAL"
        \/ t.type[s] \in {"WEAK_EXTRN", "WEAK_DEFINED", "WEAK_UNREF"} /\ u.type[s] = t.type[s]

Others(t, u, s) ==
  \A x \in Syms : x # s => /\ u.type[x] = t.type[x] /\ u.for[x] = t.for[x]
                           /\ u.lib[x] = t.lib[x] /\ u.number[x] = t.number[x]

(* A dictionary entry.                                                     *)
LEMMA LibSymbolMoves ==
  ASSUME NEW t, Sound(t, {}), NEW s \in Syms, NEW l \in Libs, NEW p \in Int,
         NEW u, u = LibSymbol(t, s, l, p)
  PROVE  /\ Sound(u, {}) /\ u.refd = t.refd /\ u.for = t.for /\ Calm(t, u)
         /\ Others(t, u, s) /\ EntryLeads(t, u, s, l, p)
<1> DEFINE Goal == /\ Sound(u, {}) /\ u.refd = t.refd /\ u.for = t.for /\ Calm(t, u)
                   /\ Others(t, u, s) /\ EntryLeads(t, u, s, l, p)
           ty == t.type[s]
           New == {"UNDEFINED", "LAZY_UNREF", "NCOMM_UNREF"}
           Waits == {"LAZY", "LAZY_DEFINED", "COMM_NEAR"}
           Weak == {"WEAK_EXTRN", "WEAK_DEFINED", "WEAK_UNREF"}
<1> SUFFICES Goal
  OBVIOUS
<1>1. /\ t \in TabSet /\ t.type \in [Syms -> Types]
      /\ t.lib \in [Syms -> Libs \union {None}] /\ t.number \in [Syms -> Int]
  BY TypeOf
<1>2. \/ u = t
      \/ ty \in New /\ u = Found(Retype(t, s, "LIBRARY"), s, l, p)
      \/ ty \in Weak \union {"EXTERNAL"} /\ u = Found(t, s, l, p)
      \/ ty \in Waits /\ u = Found(AddTo(RemoveFrom(t, s, ty), s, "EXTERNAL"), s, l, p)
  <2>1. ty \notin New \union Weak \union Waits \union {"EXTERNAL"} => u = t
    BY DEF LibSymbol
  <2>2. ty \in New => u = t \/ u = Found(Retype(t, s, "LIBRARY"), s, l, p)
    BY DEF LibSymbol, Found
  <2>3. ty \in Weak \union {"EXTERNAL"} => u = t \/ u = Found(t, s, l, p)
    BY DEF LibSymbol, Found
  <2>4. ty \in Waits => u = t \/ u = Found(AddTo(RemoveFrom(t, s, ty), s, "EXTERNAL"), s, l, p)
    BY DEF LibSymbol, Found
  <2> QED
    BY <2>1, <2>2, <2>3, <2>4
<1>0. ty \in {"COMM_NEAR", "NCOMM_UNREF"} => COMDEF_SEARCH \/ u = t
  BY DEF LibSymbol
<1>3. CASE u = t
  BY <1>1, <1>3 DEF Calm, Others, EntryLeads
<1>4. CASE ty \in New /\ u = Found(Retype(t, s, "LIBRARY"), s, l, p)
  <2> DEFINE v == Retype(t, s, "LIBRARY")
  <2>1. ty \in Unlisted /\ "LIBRARY" \in Types /\ "LIBRARY" \in Unlisted /\ "LIBRARY" \notin Standing
    BY <1>4 DEF Unlisted, Types, Standing
  <2>2. Sound(t, {s})
    BY <2>1, Settled
  <2>3. /\ Sound(v, {s}) /\ v.type = [t.type EXCEPT ![s] = "LIBRARY"]
        /\ v.refd = t.refd /\ v.lib = t.lib /\ v.number = t.number /\ v.for = t.for /\ Calm(t, v)
    BY <2>1, <2>2, Retyped
  <2>4. u = Found(v, s, l, p)
    BY <1>4
  <2> HIDE DEF v
  <2>5. /\ Sound(u, {s}) /\ u.type = v.type
        /\ u.lib = [v.lib EXCEPT ![s] = l] /\ u.number = [v.number EXCEPT ![s] = p]
        /\ u.refd = v.refd /\ u.for = v.for /\ Calm(v, u)
    BY <2>3, <2>4, FoundIn
  <2>6. u.type[s] = "LIBRARY" /\ u.lib[s] = l /\ u.number[s] = p
    BY <1>1, <2>3, <2>5
  <2>7. Sound(u, {})
    BY <2>1, <2>5, <2>6, Settled DEF Grounded
  <2>8. Calm(t, u) /\ Others(t, u, s)
    BY <1>1, <2>3, <2>5 DEF Calm, Others
  <2> QED
    BY <1>0, <1>4, <2>3, <2>5, <2>6, <2>7, <2>8 DEF EntryLeads
<1>5. CASE ty \in Weak \union {"EXTERNAL"} /\ u = Found(t, s, l, p)
  <2>1. ty # "LIBRARY_LIST"
    BY <1>5
  <2>2. /\ Sound(u, {}) /\ u.type = t.type
        /\ u.lib = [t.lib EXCEPT ![s] = l] /\ u.number = [t.number EXCEPT ![s] = p]
        /\ u.refd = t.refd /\ u.for = t.for /\ Calm(t, u)
    BY <1>5, <2>1, FoundIn
  <2>3. Others(t, u, s) /\ u.type[s] = ty /\ u.lib[s] = l /\ u.number[s] = p
    BY <1>1, <2>2 DEF Others
  <2> QED
    BY <1>0, <1>5, <2>2, <2>3 DEF EntryLeads
<1>6. CASE ty \in Waits /\ u = Found(AddTo(RemoveFrom(t, s, ty), s, "EXTERNAL"), s, l, p)
  <2> DEFINE w == Unlist(t, s)
             v == AddTo(w, s, "EXTERNAL")
  <2>1. ty \in Lists /\ "EXTERNAL" \in Lists /\ "EXTERNAL" \notin Standing
    BY <1>6 DEF Lists, Standing
  <2>2. w = RemoveFrom(t, s, ty)
    BY <2>1 DEF Unlist
  <2>3. /\ Sound(w, {s})
        /\ w.type = t.type /\ w.refd = t.refd /\ w.lib = t.lib /\ w.number = t.number /\ w.for = t.for
        /\ Calm(t, w)
    BY UnlistIs
  <2>4. u = Found(v, s, l, p)
    BY <1>6, <2>2
  <2> HIDE DEF w
  <2>5. /\ Sound(v, {}) /\ v.type = [w.type EXCEPT ![s] = "EXTERNAL"]
        /\ v.refd = w.refd /\ v.lib = w.lib /\ v.number = w.number /\ v.for = w.for /\ Calm(w, v)
    BY <2>1, <2>3, Listing
  <2> HIDE DEF v
  <2>6. v.type[s] = "EXTERNAL"
    BY <1>1, <2>3, <2>5
  <2>7. /\ Sound(u, {}) /\ u.type = v.type
        /\ u.lib = [v.lib EXCEPT ![s] = l] /\ u.number = [v.number EXCEPT ![s] = p]
        /\ u.refd = v.refd /\ u.for = v.for /\ Calm(v, u)
    BY <2>4, <2>5, <2>6, FoundIn
  <2>8. Calm(t, u) /\ Others(t, u, s) /\ u.lib[s] = l /\ u.number[s] = p
    BY <1>1, <2>3, <2>5, <2>7 DEF Calm, Others
  <2> QED
    BY <1>0, <1>6, <2>3, <2>5, <2>6, <2>7, <2>8 DEF EntryLeads
<1> QED
  BY <1>2, <1>3, <1>4, <1>5, <1>6

(* The exports still to be looked at. *)
LEMMA ExportsSeen ==
  ASSUME NEW Q, NEW t \in Q, NEW E, NEW q \in Seq(E),
         \A u \in Q : \A e \in E : ScanExport(u, e) \in Q
  PROVE  InOrder(ScanExport, t, q) \in Q
<1> DEFINE n == Len(q)
           F == [x \in (1 .. n) \X Q |-> ScanExport(x[2], q[x[1]])]
           Then(i, w) == CHOOSE y \in {ScanExport(u, q[i]) : u \in {w}} : TRUE
           after == CHOOSE f : f = [i \in 0 .. n |-> IF i = 0 THEN t ELSE Then(i, f[i - 1])]
<1>1. n \in Nat /\ \A i \in 1 .. n : i - 1 \in 0 .. n /\ q[i] \in E
  OBVIOUS
<1>2. \A i \in 1 .. n : \A w \in Q : Then(i, w) = F[<<i, w>>] /\ F[<<i, w>>] \in Q
  BY <1>1
<1>3. PICK f : Iterates(f, n, t, F) /\ \A i \in 0 .. n : f[i] \in Q
  <2> HIDE DEF F, n, Then
  <2> QED
    BY <1>1, <1>2, Recursive
<1> HIDE DEF F, n, Then
<1>4. f = [i \in 0 .. n |-> IF i = 0 THEN t ELSE Then(i, f[i - 1])]
  <2>1. \A i \in 0 .. n : i # 0 => F[<<i, f[i - 1]>>] = Then(i, f[i - 1])
    <3>1. \A i \in 0 .. n : i # 0 => i \in 1 .. n /\ f[i - 1] \in Q
      BY <1>1, <1>3
    <3> QED
      BY <1>2, <3>1
  <2> QED
    BY <1>3, <2>1 DEF Iterates
<1>5. after = [i \in 0 .. n |-> IF i = 0 THEN t ELSE Then(i, after[i - 1])]
  BY <1>4
<1> HIDE DEF after
<1>6. after[0] = t /\ \A i \in 1 .. n : after[i - 1] \in Q => after[i] \in Q
  <2>1. after[0] = t /\ \A i \in 1 .. n : after[i] = Then(i, after[i - 1])
    BY <1>1, <1>5
  <2>2. ASSUME NEW i \in 1 .. n, after[i - 1] \in Q
        PROVE  after[i] \in Q
    <3>1. after[i] = Then(i, after[i - 1])
      BY <2>1
    <3>2. Then(i, after[i - 1]) \in Q
      BY <1>2, <2>2
    <3> QED
      BY <3>1, <3>2
  <2> QED
    BY <2>1, <2>2
<1>7. \A i \in 0 .. n : after[i] \in Q
  BY <1>1, <1>6, Always
<1>8. after[n] \in Q
  BY <1>1, <1>7
<1> QED
  BY <1>8 DEF InOrder, after, n, Then

(* What waited for a library is asked for, one after the other.            *)
LEMMA AskedFor ==
  ASSUME NEW P, NEW q \in Seq(Syms), NEW t \in P[0],
         \A i \in 1 .. Len(q) : \A u \in P[i - 1] : ReferenceLibsym(RemoveFrom(u, q[i], "EXTERNAL"), q[i]) \in P[i]
  PROVE  InOrder(LAMBDA u, s : ReferenceLibsym(RemoveFrom(u, s, "EXTERNAL"), s), t, q) \in P[Len(q)]
<1> DEFINE n == Len(q)
           F == [x \in (1 .. n) \X UNION {P[i] : i \in 0 .. n} |->
                   ReferenceLibsym(RemoveFrom(x[2], q[x[1]], "EXTERNAL"), q[x[1]])]
           Then(i, w) == CHOOSE y \in {ReferenceLibsym(RemoveFrom(u, q[i], "EXTERNAL"), q[i]) : u \in {w}} : TRUE
           after == CHOOSE f : f = [i \in 0 .. n |-> IF i = 0 THEN t ELSE Then(i, f[i - 1])]
<1>1. n \in Nat /\ \A i \in 1 .. n : i - 1 \in 0 .. n
  OBVIOUS
<1>2. \A i \in 1 .. n : \A w \in P[i - 1] : Then(i, w) = F[<<i, w>>] /\ F[<<i, w>>] \in P[i]
  <2>1. \A i \in 1 .. n : \A w \in P[i - 1] : <<i, w>> \in (1 .. n) \X UNION {P[j] : j \in 0 .. n}
    BY <1>1
  <2> QED
    BY <2>1
<1>3. PICK f : Iterates(f, n, t, F) /\ \A i \in 0 .. n : f[i] \in P[i]
  <2> HIDE DEF F, n, Then
  <2> QED
    BY <1>1, <1>2, Recursion
<1> HIDE DEF F, n, Then
<1>4. f = [i \in 0 .. n |-> IF i = 0 THEN t ELSE Then(i, f[i - 1])]
  <2>1. \A i \in 0 .. n : i # 0 => F[<<i, f[i - 1]>>] = Then(i, f[i - 1])
    <3>1. \A i \in 0 .. n : i # 0 => i \in 1 .. n /\ f[i - 1] \in P[i - 1]
      BY <1>1, <1>3
    <3> QED
      BY <1>2, <3>1
  <2> QED
    BY <1>3, <2>1 DEF Iterates
<1>5. after = [i \in 0 .. n |-> IF i = 0 THEN t ELSE Then(i, after[i - 1])]
  BY <1>4
<1> HIDE DEF after
<1>6. after[0] \in P[0] /\ \A i \in 1 .. n : after[i - 1] \in P[i - 1] => after[i] \in P[i]
  <2>1. after[0] = t /\ \A i \in 1 .. n : after[i] = Then(i, after[i - 1])
    BY <1>1, <1>5
  <2>2. ASSUME NEW i \in 1 .. n, after[i - 1] \in P[i - 1]
        PROVE  after[i] \in P[i]
    <3>1. after[i] = Then(i, after[i - 1])
      BY <2>1
    <3>2. Then(i, after[i - 1]) \in P[i]
      BY <1>2, <2>2
    <3> QED
      BY <3>1, <3>2
  <2> QED
    BY <2>1, <2>2
<1>7. \A i \in 0 .. n : after[i] \in P[i]
  BY <1>1, <1>6, Throughout
<1>8. after[n] \in P[n]
  BY <1>1, <1>7
<1> QED
  BY <1>8 DEF InOrder, after, n, Then


Asks(t, u, s) ==
  /\ Sound(u, {}) /\ u.type = [t.type EXCEPT ![s] = "LIBRARY_LIST"]
  /\ u.refd = t.refd /\ u.for = t.for /\ Later(t, u)

(* A symbol that is being moved is asked for.                              *)
LEMMA WantingAsks ==
  ASSUME NEW s \in Syms, NEW t, Sound(t, {s}), t.lib[s] \in Libs
  PROVE  Asks(t, ReferenceLibsym(t, s), s)
<1> DEFINE u == ReferenceLibsym(t, s)
<1>1. u = ReferenceLibsym(t, s)
  OBVIOUS
<1> HIDE DEF u
<1>2. /\ Sound(u, {}) /\ u.type = [t.type EXCEPT ![s] = "LIBRARY_LIST"]
      /\ u.refd = t.refd /\ u.for = t.for /\ Later(t, u)
  BY <1>1, Wanting
<1> QED
  BY <1>1, <1>2 DEF Asks

(* The symbols that get a module number for a page, and the table with it. *)
Waiting(t, l)  == Those(t.list["EXTERNAL"], {s \in Syms : t.lib[s] = l})
Paged(t, l)    == RangeOf(Waiting(t, l))
                    \union (RangeOf(t.list["WEAK_EXTRN"]) \intersect {s \in Syms : t.lib[s] = l}) \union unused
Numbers(t, l)  == [s \in Syms |-> IF s \in Paged(t, l) THEN BinserModule(prog.lib[l], t.ptrs[l], t.number[s])
                                  ELSE t.number[s]]
Numbered(t, l) == [t EXCEPT !.number = Numbers(t, l)]

(* Numbering changes numbers only.                                         *)
LEMMA NumberedIs ==
  ASSUME NEW t, Sound(t, {}), NEW l \in Libs, prog \in Programs, NEW u, u = Numbered(t, l)
  PROVE  /\ Sound(u, {}) /\ u.type = t.type /\ u.refd = t.refd /\ u.lib = t.lib /\ u.for = t.for
         /\ u.number = Numbers(t, l) /\ Calm(t, u) /\ u.list = t.list
<1>1. t \in TabSet /\ t.number \in [Syms -> Int] /\ t.ptrs[l] \in PtrsType
  BY TypeOf DEF TabSet
<1>2. \A n \in Int : BinserModule(prog.lib[l], t.ptrs[l], n) \in Int
  <2>1. prog.lib[l].pageSize \in Nat
    BY ProgramsAssumption
  <2> QED
    BY <1>1, <2>1, BinserTyped
<1>3. Numbers(t, l) \in [Syms -> Int]
  BY <1>1, <1>2 DEF Numbers
<1>4. u = [t EXCEPT !.number = Numbers(t, l)]
  BY DEF Numbered
<1>5. u \in TabSet /\ u.number = Numbers(t, l)
  BY <1>1, <1>3, <1>4 DEF TabSet
<1>6. /\ u.type = t.type /\ u.refd = t.refd /\ u.lib = t.lib /\ u.for = t.for /\ Calm(t, u)
      /\ u.list = t.list /\ u.wanted = t.wanted
  BY <1>1, <1>4 DEF TabSet, Calm
<1>7. Sound(u, {})
  <2>1. \A s \in Syms : Grounded(t, s) <=> Grounded(u, s)
    BY <1>6 DEF Grounded
  <2>2. RequestsRight(u)
    BY <1>6 DEF Sound, RequestsRight, Calm
  <2>3. ListsRight(u, {}) /\ WantsRight(u, {})
    BY <1>6 DEF Sound, ListsRight, WantsRight
  <2> QED
    BY <1>5, <2>1, <2>2, <2>3 DEF Sound
<1> QED
  BY <1>5, <1>6, <1>7

(* Who waits for a library.                                                *)
LEMMA WaitingAre ==
  ASSUME NEW t, Sound(t, {}), NEW l
  PROVE  /\ Waiting(t, l) \in Seq(Syms) /\ IsInjective(Waiting(t, l))
         /\ RangeOf(Waiting(t, l)) = {s \in Syms : t.type[s] = "EXTERNAL" /\ t.lib[s] = l}
<1>1. "EXTERNAL" \in Lists
  BY DEF Lists
<1>2. /\ t.list["EXTERNAL"] \in Seq(Syms) /\ IsInjective(t.list["EXTERNAL"])
      /\ RangeOf(t.list["EXTERNAL"]) = {s \in Syms : t.type[s] = "EXTERNAL"}
  <2>1. t.list \in [Lists -> Seq(Syms)]
    BY DEF Sound, TabSet
  <2> QED
    BY <1>1, <2>1 DEF Sound, ListsRight
<1>3. /\ Waiting(t, l) \in Seq(Syms) /\ IsInjective(Waiting(t, l))
      /\ RangeOf(Waiting(t, l)) = RangeOf(t.list["EXTERNAL"]) \intersect {s \in Syms : t.lib[s] = l}
  BY <1>2, ThoseAre DEF Waiting
<1> QED
  BY <1>2, <1>3

(* Those who waited are wanted from the library.                           *)
LEMMA UpdateMoves ==
  ASSUME NEW t, Sound(t, {}), NEW l \in Libs, prog \in Programs, NEW u, u = UpdateLibSymbols(t, l)
  PROVE  /\ Sound(u, {}) /\ Later(Numbered(t, l), u) /\ u.refd = t.refd /\ u.for = t.for
         /\ \A x \in Syms : u.type[x] = IF t.type[x] = "EXTERNAL" /\ t.lib[x] = l
                                        THEN "LIBRARY_LIST" ELSE t.type[x]
         /\ Holds(t, u)
<1> DEFINE q == Waiting(t, l)
           n == Len(q)
           v == Numbered(t, l)
           Became(w, i) == \A x \in Syms : w.type[x] = IF \E j \in 1 .. i : x = q[j]
                                                       THEN "LIBRARY_LIST" ELSE t.type[x]
           P == [i \in 0 .. n |-> {w \in TabSet : /\ Sound(w, {}) /\ Later(v, w) /\ w.refd = t.refd
                                                  /\ w.for = t.for /\ Became(w, i)}]
<1>1. q \in Seq(Syms) /\ IsInjective(q) /\ n \in Nat /\ n \in 0 .. n
      /\ RangeOf(q) = {s \in Syms : t.type[s] = "EXTERNAL" /\ t.lib[s] = l}
  BY WaitingAre
<1>2. /\ Sound(v, {}) /\ v.type = t.type /\ v.refd = t.refd /\ v.lib = t.lib /\ v.for = t.for
      /\ Calm(t, v) /\ v.list = t.list
  BY NumberedIs
<1>3. v \in TabSet /\ t.type \in [Syms -> Types]
  BY <1>2, TypeOf
<1>4. InOrder(LAMBDA w, s : ReferenceLibsym(RemoveFrom(w, s, "EXTERNAL"), s), v, q) = u
  BY DEF UpdateLibSymbols, Numbered, Numbers, Paged, Waiting
<1> HIDE DEF v, q
<1>5. v \in P[0]
  <2>1. Later(v, v)
    BY <1>3, CalmLater DEF Calm
  <2>2. Became(v, 0)
    BY <1>2
  <2> QED
    BY <1>1, <1>2, <1>3, <2>1, <2>2
<1>6. ASSUME NEW i \in 1 .. n, NEW w \in P[i - 1]
      PROVE  ReferenceLibsym(RemoveFrom(w, q[i], "EXTERNAL"), q[i]) \in P[i]
  <2> DEFINE s == q[i]
             x == Unlist(w, s)
             y == ReferenceLibsym(x, s)
  <2>1. i - 1 \in 0 .. n /\ i \in 0 .. n /\ s \in Syms /\ i \in DOMAIN q
    BY <1>1
  <2>2. /\ w \in TabSet /\ Sound(w, {}) /\ Later(v, w) /\ w.refd = t.refd /\ w.for = t.for
        /\ Became(w, i - 1)
    BY <2>1
  <2>3. t.type[s] = "EXTERNAL" /\ t.lib[s] = l
    BY <1>1, <2>1 DEF RangeOf
  <2>4. ~\E j \in 1 .. i - 1 : s = q[j]
    BY <1>1, <2>1 DEF IsInjective
  <2>5. w.type[s] = "EXTERNAL" /\ w.lib[s] = l
    BY <1>2, <2>1, <2>2, <2>3, <2>4 DEF Later
  <2>6. x = RemoveFrom(w, s, "EXTERNAL")
    BY <2>5 DEF Unlist, Lists
  <2> HIDE DEF s, x, y, P
  <2>7. /\ Sound(x, {s})
        /\ x.type = w.type /\ x.refd = w.refd /\ x.lib = w.lib /\ x.number = w.number /\ x.for = w.for
        /\ Calm(w, x)
    BY <2>1, <2>2, UnlistIs DEF x
  <2>8. /\ Sound(y, {}) /\ y.type = [x.type EXCEPT ![s] = "LIBRARY_LIST"]
        /\ y.refd = x.refd /\ y.for = x.for /\ Later(x, y)
    <3>1. x.lib[s] \in Libs /\ s \in Syms /\ Sound(x, {s})
      BY <2>1, <2>5, <2>7
    <3>2. Asks(x, y, s)
      BY <3>1, WantingAsks DEF y
    <3> QED
      BY <3>2 DEF Asks
  <2>9. Later(v, y) /\ y \in TabSet
    <3>1. Later(w, x) /\ x \in TabSet /\ y \in TabSet
      BY <2>2, <2>7, <2>8, CalmLater, TypeOf
    <3>2. Later(w, y)
      BY <2>2, <2>8, <3>1, LaterStill
    <3> QED
      BY <1>3, <2>2, <3>1, <3>2, LaterStill
  <2>10. Became(y, i)
    <3>1. w.type \in [Syms -> Types]
      BY <2>2, TypeOf
    <3>2. \A z \in Syms : y.type[z] = IF z = s THEN "LIBRARY_LIST" ELSE w.type[z]
      BY <2>1, <2>7, <2>8, <3>1
    <3>3. \A z \in Syms : (\E j \in 1 .. i : z = q[j]) <=> z = s \/ \E j \in 1 .. i - 1 : z = q[j]
      <4>1. \A j \in Int : j \in 1 .. i <=> j = i \/ j \in 1 .. i - 1
        OBVIOUS
      <4> QED
        BY <4>1 DEF s
    <3> QED
      BY <2>2, <3>2, <3>3
  <2>11. y \in P[i]
    BY <2>1, <2>2, <2>7, <2>8, <2>9, <2>10 DEF P
  <2> QED
    BY <2>6, <2>11 DEF y, s
<1>7. u \in P[n]
  <2> HIDE DEF P
  <2> QED
    BY <1>1, <1>4, <1>5, <1>6, AskedFor
<1>8. Sound(u, {}) /\ Later(v, u) /\ u.refd = t.refd /\ u.for = t.for /\ Became(u, n)
  BY <1>1, <1>7
<1>9. \A x \in Syms : (\E j \in 1 .. n : x = q[j]) <=> t.type[x] = "EXTERNAL" /\ t.lib[x] = l
  BY <1>1 DEF RangeOf
<1>10. Holds(t, u)
  BY <1>8, <1>9 DEF Holds, Decided
<1> QED
  BY <1>8, <1>9, <1>10 DEF v

-----------------------------------------------------------------------------
(* Reading a module.                                                       *)
LEMMA OwnRange ==
  ASSUME NEW A, NEW q \in Seq(A)
  PROVE  q \in Seq(RangeOf(q))
<1>1. Len(q) \in Nat /\ DOMAIN q = 1 .. Len(q) /\ q = [i \in 1 .. Len(q) |-> q[i]]
  OBVIOUS
<1>2. \A i \in 1 .. Len(q) : q[i] \in RangeOf(q)
  BY DEF RangeOf
<1> QED
  BY <1>1, <1>2

(* What a module's records are.                                            *)
LEMMA ModuleIs ==
  ASSUME NEW m \in ModuleType
  PROVE  /\ m.defs \in Seq(Syms) /\ m.comm \in Seq(Syms) /\ m.libs \in Seq(Libs)
         /\ m.weak \in Seq(Syms \X Syms) /\ m.lazy \in Seq(Syms \X Syms) /\ m.alias \in Seq(Syms \X Syms)
         /\ m.refs \in Seq(ExternType) /\ Externs(m) \in Seq(ExternType)
<1>1. /\ m.defs \in Seq(Syms) /\ m.comm \in Seq(Syms) /\ m.libs \in Seq(Libs)
      /\ m.weak \in Seq(Syms \X Syms) /\ m.lazy \in Seq(Syms \X Syms) /\ m.alias \in Seq(Syms \X Syms)
      /\ m.refs \in Seq(ExternType)
  BY DEF ModuleType, ExternType
<1>2. [i \in DOMAIN m.comm |-> [sym |-> m.comm[i], how |-> {}]] \in Seq(ExternType)
  <2>1. DOMAIN m.comm = 1 .. Len(m.comm) /\ Len(m.comm) \in Nat /\ \A i \in DOMAIN m.comm : m.comm[i] \in Syms
    BY <1>1
  <2>2. \A s \in Syms : [sym |-> s, how |-> {}] \in ExternType
    BY DEF ExternType
  <2> QED
    BY <2>1, <2>2
<1> QED
  BY <1>1, <1>2 DEF Externs

(* The end of a module: its externals are gone through.                    *)
AtEnd(t, m, r) == InExternals(t, Externs(m), m, r)

(* What every external keeps so does the end of the module.                *)
LEMMA AtEndStays ==
  ASSUME NEW m \in ModuleType, NEW r, NEW Q, NEW t \in Q,
         \A u \in Q : \A e \in RangeOf(Externs(m)) : \A again \in BOOLEAN :
           ProcessExtrn(u, e.sym, Real(m, e), again) \in Q
  PROVE  AtEnd(t, m, r) \in Q
<1>1. Externs(m) \in Seq(RangeOf(Externs(m)))
  BY ModuleIs, OwnRange
<1>2. \A u \in Q : \A e \in RangeOf(Externs(m)) : ProcessExtrn(u, e.sym, Real(m, e), e.sym \in r) \in Q
  <2>1. \A e \in RangeOf(Externs(m)) : (e.sym \in r) \in BOOLEAN
    OBVIOUS
  <2> QED
    BY <2>1
<1> QED
  BY <1>1, <1>2, Externals DEF AtEnd

(* What every record of a module keeps so does the module, up to its end:  *)
(* P while its publics are read, Q after its communals, R at the end.      *)
LEMMA ReadModuleStays ==
  ASSUME NEW m \in ModuleType, NEW d, NEW l, NEW n, NEW P, NEW Q, NEW R, NEW t \in P,
         \A u \in P : /\ \A s \in RangeOf(m.defs) : DoPublic(u, s, s \in m.code, s \in d) \in P
                      /\ InComdefs(u, m.comm, l, n) \in Q,
         \A u \in Q : /\ \A p \in RangeOf(m.weak) : Wkext(u, p) \in Q
                      /\ \A p \in RangeOf(m.lazy) : Lzext(u, p) \in Q
                      /\ \A p \in RangeOf(m.alias) : Alias(u, p) \in Q
                      /\ \A r \in SUBSET Syms : AtEnd(u, m, r) \in R
  PROVE  ReadModule(t, d, m, l, n) \in R
<1> DEFINE Publics(u)  == InComdefs(InPublics(u, m.defs, m.code, d), m.comm, l, n)
           Said(u)     == InOrder(Alias, InOrder(Lzext, InOrder(Wkext, u, m.weak), m.lazy), m.alias)
           Rest(u)     == AtEnd(Said(u), m, {s \in Syms : Again(u, m, s)})
<1>1. /\ m.defs \in Seq(RangeOf(m.defs)) /\ m.comm \in Seq(RangeOf(m.comm))
      /\ m.weak \in Seq(RangeOf(m.weak)) /\ m.lazy \in Seq(RangeOf(m.lazy)) /\ m.alias \in Seq(RangeOf(m.alias))
  BY ModuleIs, OwnRange
<1>2. InPublics(t, m.defs, m.code, d) \in P
  BY <1>1, DoPublics
<1>3. Publics(t) \in Q
  BY <1>2
<1>4. ASSUME NEW u \in Q PROVE Said(u) \in Q
  <2>1. InOrder(Wkext, u, m.weak) \in Q
    BY <1>1, Wkexts
  <2>2. InOrder(Lzext, InOrder(Wkext, u, m.weak), m.lazy) \in Q
    BY <1>1, <2>1, Lzexts
  <2> QED
    BY <1>1, <2>2, Aliases
<1>5. ReadModule(t, d, m, l, n) = CHOOSE y \in {Rest(v) : v \in {Publics(t)}} : TRUE
  BY DEF ReadModule, Once, AtEnd, InExternals, InComdefs, InPublics
<1> HIDE DEF Publics, Said
<1>6. \A u \in Q : Rest(u) \in R
  BY <1>4
<1> HIDE DEF Rest
<1>7. {Rest(v) : v \in {Publics(t)}} = {Rest(Publics(t))}
  OBVIOUS
<1> QED
  BY <1>3, <1>5, <1>6, <1>7

(* Where communals are not searched for, those of a module are decided on  *)
(* when they have been read.                                               *)
LEMMA ComdefsHeld ==
  ASSUME NEW P, NEW t \in P, NEW q \in Seq(Syms), NEW l, NEW n,
         \A u \in P : Sound(u, {}), \A u \in P : \A s \in Syms : Comdef(u, s, l, n) \in P
  PROVE  InComdefs(t, q, l, n) \in {u \in P : COMDEF_SEARCH \/ Held(u, RangeOf(q))}
<1> DEFINE Upto(i) == {q[j] : j \in 1 .. i}
           R == [i \in 0 .. Len(q) |-> {u \in P : COMDEF_SEARCH \/ Held(u, Upto(i))}]
<1>1. Len(q) \in Nat /\ DOMAIN q = 1 .. Len(q) /\ \A i \in 1 .. Len(q) : q[i] \in Syms
  OBVIOUS
<1>2. t \in R[0]
  BY <1>1 DEF Held
<1>3. ASSUME NEW i \in 1 .. Len(q), NEW u \in R[i - 1]
      PROVE  Comdef(u, q[i], l, n) \in R[i]
  <2>1. i \in 0 .. Len(q) /\ i - 1 \in 0 .. Len(q) /\ q[i] \in Syms
    BY <1>1
  <2>2. u \in P /\ Sound(u, {}) /\ (COMDEF_SEARCH \/ Held(u, Upto(i - 1)))
    BY <2>1
  <2>3. PICK s : s = q[i]
    OBVIOUS
  <2>4. PICK w : w = Comdef(u, s, l, n)
    OBVIOUS
  <2>5. Holds(u, w) /\ (~COMDEF_SEARCH => w.type[s] \in Decided)
    BY <2>1, <2>2, <2>3, <2>4, ComdefMoves
  <2>6. \A x \in Upto(i) : x \in Syms /\ (x = s \/ x \in Upto(i - 1))
    <3>1. \A j \in 1 .. i : j \in 1 .. Len(q) /\ (j = i \/ j \in 1 .. i - 1)
      BY <1>1
    <3> QED
      BY <1>1, <2>3, <3>1
  <2> HIDE DEF Upto
  <2>7. COMDEF_SEARCH \/ Held(w, Upto(i))
    BY <2>2, <2>5, <2>6 DEF Holds, Held
  <2> QED
    BY <2>1, <2>2, <2>3, <2>4, <2>7
<1>4. RangeOf(q) = Upto(Len(q)) /\ Len(q) \in 0 .. Len(q)
  BY <1>1 DEF RangeOf
<1>5. R[Len(q)] = {u \in P : COMDEF_SEARCH \/ Held(u, RangeOf(q))}
  BY <1>4
<1> HIDE DEF R, Upto
<1>6. InComdefs(t, q, l, n) \in R[Len(q)]
  BY <1>2, <1>3, ComdefsInTurn
<1> QED
  BY <1>5, <1>6

(* A module is read whose code is no data, but of symbols decided on.      *)
LEMMA ReadModuleMoves ==
  ASSUME NEW t, Sound(t, {}), NEW m \in ModuleType, NEW d, Held(t, m.code \intersect d), NEW l, NEW n,
         NEW u, u = ReadModule(t, d, m, l, n)
  PROVE  /\ Sound(u, {}) /\ Later(t, u) /\ Holds(t, u)
         /\ COMDEF_SEARCH \/ Held(u, RangeOf(m.comm))
<1> DEFINE P == {v \in TabSet : Sound(v, {}) /\ Later(t, v) /\ Holds(t, v)}
           Q == {v \in P : COMDEF_SEARCH \/ Held(v, RangeOf(m.comm))}
<1>1. t \in P
  <2>1. t \in TabSet
    BY TypeOf
  <2> QED
    BY <2>1, CalmLater DEF Calm, Holds
<1>2. ASSUME NEW v \in P, NEW w, Sound(w, {}), Later(v, w), Holds(v, w)
      PROVE  w \in P
  <2>1. v \in TabSet /\ w \in TabSet /\ t \in TabSet /\ Later(t, v) /\ Holds(t, v)
    BY <1>1, <1>2, TypeOf
  <2>2. Later(t, w)
    BY <1>2, <2>1, LaterStill
  <2>3. Holds(t, w)
    BY <1>2, <2>1 DEF Holds
  <2> QED
    BY <1>2, <2>1, <2>2, <2>3
<1>3. /\ RangeOf(m.defs) \subseteq Syms /\ RangeOf(m.comm) \subseteq Syms /\ m.comm \in Seq(Syms)
      /\ RangeOf(m.weak) \subseteq Syms \X Syms /\ RangeOf(m.lazy) \subseteq Syms \X Syms
      /\ RangeOf(m.alias) \subseteq Syms \X Syms /\ RangeOf(Externs(m)) \subseteq ExternType
  BY ModuleIs DEF RangeOf
<1>4. \A v \in P : Sound(v, {}) /\ Holds(t, v)
  OBVIOUS
<1> HIDE DEF P
<1>5. ASSUME NEW v \in Q, NEW w, Sound(w, {}), Later(v, w), Holds(v, w)
      PROVE  w \in Q
  <2>1. w \in P
    BY <1>2, <1>5
  <2>2. COMDEF_SEARCH \/ Held(w, RangeOf(m.comm))
    BY <1>3, <1>5 DEF Holds, Held
  <2> QED
    BY <2>1, <2>2
<1>6. \A v \in Q : v \in P /\ Sound(v, {})
  BY <1>4
<1>7. ASSUME NEW v \in P
      PROVE  /\ \A s \in Syms : DoPublic(v, s, s \in m.code, s \in d) \in P
             /\ InComdefs(v, m.comm, l, n) \in Q
  <2>1. Sound(v, {}) /\ Holds(t, v)
    BY <1>4
  <2>2. ASSUME NEW s \in Syms PROVE DoPublic(v, s, s \in m.code, s \in d) \in P
    <3>1. m.code \subseteq Syms /\ Held(v, m.code \intersect d)
      BY <2>1 DEF Held, Holds, ModuleType
    <3>2. PICK w : w = DoPublic(v, s, s \in m.code, s \in d)
      OBVIOUS
    <3>3. /\ (s \in m.code) \in BOOLEAN /\ (s \in d) \in BOOLEAN
          /\ s \in m.code /\ s \in d => v.type[s] \in Decided
      BY <2>1, <3>1 DEF Held
    <3>4. Sound(w, {}) /\ Later(v, w) /\ Holds(v, w)
      BY <2>1, <3>2, <3>3, DoPublicMoves
    <3>5. w \in P
      BY <1>2, <3>4
    <3> QED
      BY <3>2, <3>5
  <2>3. \A w \in P : \A s \in Syms : Comdef(w, s, l, n) \in P
    BY <1>2, <1>4, ComdefMoves
  <2>4. InComdefs(v, m.comm, l, n) \in Q
    BY <1>3, <1>4, <2>3, ComdefsHeld
  <2> QED
    BY <2>2, <2>4
<1> HIDE DEF Q
<1>8. ASSUME NEW v \in Q, NEW r
      PROVE  AtEnd(v, m, r) \in Q
  <2>1. ASSUME NEW w \in Q, NEW e \in RangeOf(Externs(m)), NEW again \in BOOLEAN
        PROVE  ProcessExtrn(w, e.sym, Real(m, e), again) \in Q
    <3>1. e.sym \in Syms /\ Real(m, e) \in BOOLEAN /\ Sound(w, {})
      BY <1>3, <1>6 DEF ExternType, Real
    <3>2. PICK x : x = ProcessExtrn(w, e.sym, Real(m, e), again)
      OBVIOUS
    <3>3. Sound(x, {}) /\ Later(w, x) /\ Moves(w, x, e.sym) /\ ExternEnds(w, x, e.sym, Real(m, e))
      BY <3>1, <3>2, ProcessExtrnMoves
    <3>4. Holds(w, x)
      BY <3>1, <3>3, ExternHolds
    <3> QED
      BY <1>5, <3>2, <3>3, <3>4
  <2> QED
    BY <2>1, AtEndStays
<1>9. ASSUME NEW v \in Q
      PROVE  /\ \A p \in Syms \X Syms : Wkext(v, p) \in Q
             /\ \A p \in Syms \X Syms : Lzext(v, p) \in Q
             /\ \A p \in Syms \X Syms : Alias(v, p) \in Q
  <2>1. Sound(v, {})
    BY <1>6
  <2>2. \A p \in Syms \X Syms : Wkext(v, p) \in Q
    BY <1>5, <2>1, WkextMoves
  <2>3. \A p \in Syms \X Syms : Lzext(v, p) \in Q
    BY <1>5, <2>1, LzextMoves
  <2>4. \A p \in Syms \X Syms : Alias(v, p) \in Q
    BY <1>5, <2>1, AliasMoves
  <2> QED
    BY <2>2, <2>3, <2>4
<1>10. u \in Q
  BY <1>1, <1>3, <1>7, <1>8, <1>9, ReadModuleStays
<1> QED
  BY <1>10 DEF Q, P

-----------------------------------------------------------------------------
(* Opening a library.                                                      *)
LEMMA FlatTyped ==
  ASSUME NEW W, NEW s \in Seq(Seq(W))
  PROVE  FlattenSeq(s) \in Seq(W)
<1> DEFINE n == Len(s)
           F == [x \in (1 .. n) \X Seq(W) |-> x[2] \o s[x[1]]]
           g == CHOOSE f : f = [i \in 1 .. n |-> IF i = 1 THEN s[1] ELSE f[i - 1] \o s[i]]
           h == [i \in 0 .. n - 1 |-> g[i + 1]]
<1>1. CASE n = 0
  <2>1. FlattenSeq(s) = s /\ s = <<>>
    BY <1>1 DEF FlattenSeq
  <2> QED
    BY <2>1
<1>2. CASE n # 0
  <2>1. n \in Nat \ {0} /\ <<>> \in Seq(W) /\ \A i \in 1 .. n : s[i] \in Seq(W)
    BY <1>2
  <2>2. \A i \in 1 .. n : \A u \in Seq(W) : F[<<i, u>>] = u \o s[i] /\ F[<<i, u>>] \in Seq(W)
    <3>1. \A u, v \in Seq(W) : u \o v \in Seq(W)
      OBVIOUS
    <3> HIDE DEF n
    <3>2. \A i \in 1 .. n : \A u \in Seq(W) : F[<<i, u>>] = u \o s[i]
      OBVIOUS
    <3> HIDE DEF F
    <3> QED
      BY <2>1, <3>1, <3>2
  <2>3. PICK f : Iterates(f, n, <<>>, F) /\ \A i \in 0 .. n : f[i] \in Seq(W)
    <3> HIDE DEF F, n
    <3> QED
      BY <2>1, <2>2, Recursive
  <2>4. \A i \in 1 .. n : f[i] = IF i = 1 THEN s[1] ELSE f[i - 1] \o s[i]
    <3>1. ASSUME NEW i \in 1 .. n PROVE f[i] = f[i - 1] \o s[i] /\ (i = 1 => f[i - 1] = <<>>)
      <4>1. i - 1 \in 0 .. n /\ i \in 0 .. n /\ i # 0 /\ n \in Nat
        BY <2>1
      <4>2. f[i] = F[<<i, f[i - 1]>>] /\ (i = 1 => f[i - 1] = <<>>)
        <5> HIDE DEF F, n
        <5>1. f[0] = <<>> /\ f[i] = F[<<i, f[i - 1]>>]
          BY <2>3, <4>1 DEF Iterates
        <5> QED
          BY <5>1
      <4> QED
        BY <2>2, <2>3, <4>1, <4>2
    <3>2. ASSUME NEW q \in Seq(W) PROVE <<>> \o q = q
      OBVIOUS
    <3> QED
      BY <2>1, <3>1, <3>2
  <2>5. [i \in 1 .. n |-> f[i]] = [i \in 1 .. n |-> IF i = 1 THEN s[1]
                                                   ELSE [j \in 1 .. n |-> f[j]][i - 1] \o s[i]]
    <3>1. \A i \in 1 .. n : i # 1 => [j \in 1 .. n |-> f[j]][i - 1] = f[i - 1]
      BY <2>1
    <3> QED
      BY <2>4, <3>1
  <2>6. g = [i \in 1 .. n |-> IF i = 1 THEN s[1] ELSE g[i - 1] \o s[i]]
    <3> HIDE DEF n
    <3> QED
      BY <2>5
  <2> HIDE DEF g
  <2>7. h[0] \in Seq(W) /\ \A i \in 1 .. n - 1 : h[i - 1] \in Seq(W) => h[i] \in Seq(W)
    <3>1. h[0] = s[1] /\ s[1] \in Seq(W)
      BY <2>1, <2>6
    <3>2. ASSUME NEW i \in 1 .. n - 1, h[i - 1] \in Seq(W)
          PROVE  h[i] \in Seq(W)
      <4>1. i \in 0 .. n - 1 /\ i - 1 \in 0 .. n - 1 /\ i + 1 \in 1 .. n /\ i + 1 # 1 /\ (i - 1) + 1 = i
            /\ (i + 1) - 1 = i /\ s[i + 1] \in Seq(W)
        BY <2>1
      <4>2. h[i] = g[i + 1] /\ h[i - 1] = g[i]
        BY <4>1
      <4>3. g[i + 1] = g[i] \o s[i + 1]
        BY <2>6, <4>1
      <4>4. \A u, v \in Seq(W) : u \o v \in Seq(W)
        OBVIOUS
      <4> HIDE DEF h, n
      <4> QED
        BY <3>2, <4>1, <4>2, <4>3, <4>4
    <3> QED
      BY <3>1, <3>2
  <2>8. \A i \in 0 .. n - 1 : h[i] \in Seq(W)
    <3>1. n - 1 \in Nat
      BY <2>1
    <3> HIDE DEF h, n
    <3> QED
      BY <2>7, <3>1, Always
  <2>9. g[n] \in Seq(W)
    <3>1. n - 1 \in 0 .. n - 1 /\ h[n - 1] = g[n]
      BY <2>1
    <3> QED
      BY <2>8, <3>1
  <2> QED
    BY <1>2, <2>9 DEF FlattenSeq, g
<1> QED
  BY <1>1, <1>2

(* The elements of joined sequences.                                       *)
LEMMA JoinedRange ==
  ASSUME NEW A, NEW p \in Seq(A), NEW q \in Seq(A)
  PROVE  p \o q \in Seq(A) /\ RangeOf(p \o q) = RangeOf(p) \union RangeOf(q)
<1> DEFINE n == Len(p)
           k == Len(q)
<1>1. /\ n \in Nat /\ k \in Nat /\ DOMAIN p = 1 .. n /\ DOMAIN q = 1 .. k
      /\ p \o q \in Seq(A) /\ DOMAIN (p \o q) = 1 .. n + k
  OBVIOUS
<1>2. \A i \in 1 .. n : i \in 1 .. n + k /\ (p \o q)[i] = p[i]
  BY <1>1
<1>3. \A i \in 1 .. k : n + i \in 1 .. n + k /\ (p \o q)[n + i] = q[i]
  BY <1>1
<1>4. \A i \in 1 .. n + k : i \in 1 .. n \/ \E j \in 1 .. k : i = n + j
  <2>1. ASSUME NEW i \in 1 .. n + k, i \notin 1 .. n PROVE i - n \in 1 .. k /\ i = n + (i - n)
    BY <1>1, <2>1
  <2> QED
    BY <2>1
<1> HIDE DEF n, k
<1>5. ASSUME NEW x \in RangeOf(p \o q) PROVE x \in RangeOf(p) \union RangeOf(q)
  <2>1. PICK i \in 1 .. n + k : x = (p \o q)[i]
    BY <1>1 DEF RangeOf
  <2> QED
    BY <1>1, <1>2, <1>3, <1>4, <2>1 DEF RangeOf
<1>6. ASSUME NEW x \in RangeOf(p) \union RangeOf(q) PROVE x \in RangeOf(p \o q)
  BY <1>1, <1>2, <1>3, <1>6 DEF RangeOf
<1> QED
  BY <1>1, <1>5, <1>6

(* What a dictionary says: a symbol, and the page of a module with it.     *)
Says(l) == {e \in Syms \X Nat : e[2] \in RangeOf(prog.lib[l].page) /\ e[1] \in Supplies(prog.module[l][e[2]])}

(* The dictionary has an entry for what each module supplies.              *)
LEMMA DictionarySays ==
  ASSUME prog \in Programs, NEW l \in Libs
  PROVE  Dictionary(l) \in Seq(Says(l))
<1> DEFINE pages == prog.lib[l].page
           Names(i) == prog.module[l][pages[i]].defs \o prog.module[l][pages[i]].comm
           s == [i \in DOMAIN pages |-> Entry(pages[i], Names(i))]
<1>1. pages \in Seq(Nat) /\ \A i \in DOMAIN pages : prog.module[l][pages[i]] \in ModuleType
  BY ProgramsAssumption
<1>2. ASSUME NEW i \in DOMAIN pages
      PROVE  Entry(pages[i], Names(i)) \in Seq(Says(l))
  <2> DEFINE m == prog.module[l][pages[i]]
             q == m.defs \o m.comm
  <2>1. m.defs \in Seq(Syms) /\ m.comm \in Seq(Syms)
    BY <1>1, ModuleIs
  <2> HIDE DEF m
  <2>2. q \in Seq(Syms) /\ \A j \in DOMAIN q : q[j] \in Supplies(m)
    <3>1. q \in Seq(Syms) /\ RangeOf(q) = Supplies(m)
      BY <2>1, JoinedRange DEF Supplies
    <3> QED
      BY <3>1 DEF RangeOf
  <2>3. Entry(pages[i], q) = [j \in DOMAIN q |-> <<q[j], pages[i]>>]
    BY DEF Entry
  <2> HIDE DEF q
  <2>4. pages[i] \in Nat /\ pages[i] \in RangeOf(pages)
    BY <1>1 DEF RangeOf
  <2>5. \A j \in DOMAIN q : <<q[j], pages[i]>> \in Says(l)
    <3>1. \A j \in DOMAIN q : q[j] \in Syms /\ q[j] \in Supplies(m)
      BY <2>2
    <3> QED
      BY <2>4, <3>1 DEF Says, m
  <2>6. Entry(pages[i], q) \in Seq(Says(l))
    <3>1. DOMAIN q = 1 .. Len(q) /\ Len(q) \in Nat
      BY <2>2
    <3> QED
      BY <2>3, <2>5, <3>1
  <2> QED
    BY <2>6 DEF q, m
<1>3. s \in Seq(Seq(Says(l)))
  <2>1. DOMAIN pages = 1 .. Len(pages) /\ Len(pages) \in Nat
    BY <1>1
  <2> HIDE DEF Names
  <2> QED
    BY <1>2, <2>1
<1>4. Dictionary(l) = FlattenSeq(s)
  BY DEF Dictionary
<1> QED
  BY <1>3, <1>4, FlatTyped

(* A selection of an ascending sequence ascends.                           *)
LEMMA ThoseAscend ==
  ASSUME NEW q \in Seq(Nat), NEW D, Ascends(q)
  PROVE  Ascends(Those(q, D))
<1>1. InTurn(Those(q, D), q, Len(q)) /\ DOMAIN q = 1 .. Len(q)
  BY ThoseAre
<1> QED
  BY <1>1 DEF InTurn, Ascends

(* The modules of a library are its pages, in order.                       *)
LEMMA ModulesAre ==
  ASSUME prog \in Programs, NEW l \in Libs
  PROVE  /\ ModulesOf(l) \in Seq(Nat) /\ Ascends(ModulesOf(l))
         /\ RangeOf(ModulesOf(l)) = RangeOf(prog.lib[l].page)
<1> DEFINE pages == prog.lib[l].page
           map == MapOf(pages)
           D == {x[1] * Bits + x[2] : x \in map.bits}
           N == (map.max + 1) * Bits
           q == [i \in 1 .. N |-> i - 1]
<1>1. pages \in Seq(Nat) /\ Bits \in Nat \ {0}
  BY ProgramsAssumption, EntriesAre
<1>2. /\ map.bits = {<<p \div Bits, p % Bits>> : p \in RangeOf(pages)}
      /\ map.max \in Nat /\ \A x \in map.bits : x[1] <= map.max
  BY <1>1, MapHolds DEF MapType
<1>3. RangeOf(pages) \subseteq Nat
  BY <1>1 DEF RangeOf
<1> HIDE DEF pages, map
<1>4. N \in Nat
  BY <1>1, <1>2
<1>5. D = RangeOf(pages)
  <2>1. \A p \in RangeOf(pages) : (p \div Bits) * Bits + (p % Bits) = p
    BY <1>1, <1>3, DivMod
  <2>2. \A p \in RangeOf(pages) : \E x \in map.bits : x[1] * Bits + x[2] = p
    <3> SUFFICES ASSUME NEW p \in RangeOf(pages)
                 PROVE  \E x \in map.bits : x[1] * Bits + x[2] = p
      OBVIOUS
    <3>1. PICK x : x = <<p \div Bits, p % Bits>>
      OBVIOUS
    <3>2. x \in map.bits
      BY <1>2, <3>1
    <3>3. x[1] = p \div Bits /\ x[2] = p % Bits
      BY <3>1
    <3> QED
      BY <2>1, <3>2, <3>3
  <2>3. \A x \in map.bits : x[1] * Bits + x[2] \in RangeOf(pages)
    <3> SUFFICES ASSUME NEW x \in map.bits
                 PROVE  x[1] * Bits + x[2] \in RangeOf(pages)
      OBVIOUS
    <3>1. PICK p \in RangeOf(pages) : x = <<p \div Bits, p % Bits>>
      BY <1>2
    <3>2. x[1] = p \div Bits /\ x[2] = p % Bits
      BY <3>1
    <3> QED
      BY <2>1, <3>2
  <2>4. \A d \in D : d \in RangeOf(pages)
    BY <2>3
  <2>5. \A p \in RangeOf(pages) : p \in D
    BY <2>2
  <2> QED
    BY <2>4, <2>5
<1>6. ASSUME NEW p \in RangeOf(pages) PROVE p < N
  <2> DEFINE w == p \div Bits
  <2>1. w \in Nat /\ p \in Nat /\ p = w * Bits + (p % Bits) /\ p % Bits \in Nat /\ p % Bits < Bits
    BY <1>1, <1>3, DivMod
  <2>2. w <= map.max
    <3>1. PICK x : x = <<p \div Bits, p % Bits>>
      OBVIOUS
    <3>2. x \in map.bits /\ x[1] = w
      BY <1>2, <3>1
    <3> QED
      BY <1>2, <3>2
  <2> HIDE DEF w
  <2>3. (w + 1) * Bits <= (map.max + 1) * Bits
    <3>1. w + 1 \in Nat /\ map.max + 1 \in Nat /\ w + 1 <= map.max + 1 /\ Bits \in Nat
      BY <1>1, <1>2, <2>1, <2>2
    <3> QED
      BY <3>1, TimesMore
  <2>4. (w + 1) * Bits = w * Bits + Bits /\ w * Bits \in Nat
    BY <1>1, <2>1
  <2> QED
    BY <1>1, <1>4, <2>1, <2>3, <2>4
<1> HIDE DEF N, D
<1>7. q \in Seq(Nat) /\ Ascends(q) /\ RangeOf(q) = 0 .. N - 1
  <2>1. DOMAIN q = 1 .. N /\ \A i \in 1 .. N : q[i] = i - 1 /\ q[i] \in Nat
    BY <1>4
  <2>2. q \in Seq(Nat)
    BY <1>4
  <2> HIDE DEF q
  <2>3. \A i \in 0 .. N - 1 : i + 1 \in 1 .. N /\ (i + 1) - 1 = i
    BY <1>4
  <2>4. \A i \in 1 .. N : i - 1 \in 0 .. N - 1
    BY <1>4
  <2>5. RangeOf(q) = 0 .. N - 1
    <3>1. \A i \in 0 .. N - 1 : q[i + 1] = i /\ i + 1 \in DOMAIN q
      BY <2>1, <2>3
    <3> QED
      BY <2>1, <2>4, <3>1 DEF RangeOf
  <2> QED
    BY <2>1, <2>2, <2>5 DEF Ascends
<1>8. RangeOf(q) \intersect D = RangeOf(pages)
  <2>1. RangeOf(pages) \subseteq 0 .. N - 1
    BY <1>3, <1>4, <1>6
  <2> QED
    BY <1>5, <1>7, <2>1
<1>9. ModulesOf(l) = Those(q, D)
  BY DEF ModulesOf, ScanBits, q, D, N, map, pages
<1> HIDE DEF q
<1>10. Those(q, D) \in Seq(Nat) /\ RangeOf(Those(q, D)) = RangeOf(q) \intersect D
  BY <1>7, ThoseAre
<1>11. Ascends(Those(q, D))
  BY <1>7, ThoseAscend
<1> QED
  BY <1>8, <1>9, <1>10, <1>11 DEF pages

(* With the offsets of its modules laid out.                               *)
Laid(t, l) == [t EXCEPT !.ptrs[l] = DoModulePtrs(prog.lib[l], ModulesOf(l))]

(* Only the library's table changes.                                       *)
LEMMA LaidIs ==
  ASSUME NEW t, Sound(t, {}), NEW l \in Libs, prog \in Programs, NEW u, u = Laid(t, l)
  PROVE  /\ Sound(u, {}) /\ u.type = t.type /\ u.refd = t.refd /\ u.lib = t.lib /\ u.for = t.for
         /\ u.number = t.number /\ u.list = t.list /\ u.wanted = t.wanted
         /\ u.marked = t.marked /\ u.selected = t.selected /\ u.requests = t.requests /\ u.undeco = t.undeco
         /\ u.ptrs = [t.ptrs EXCEPT ![l] = DoModulePtrs(prog.lib[l], ModulesOf(l))]
<1> DEFINE ptrs == [t.ptrs EXCEPT ![l] = DoModulePtrs(prog.lib[l], ModulesOf(l))]
<1>1. t \in TabSet
  BY TypeOf
<1>2. DoModulePtrs(prog.lib[l], ModulesOf(l)) \in PtrsType
  <2>1. prog.lib[l].pageSize \in Nat /\ prog.lib[l].dict \in Nat
    BY ProgramsAssumption
  <2> QED
    BY <2>1, ModulesAre, PtrsTyped
<1>3. ptrs \in [Libs -> PtrsType]
  <2>1. t.ptrs \in [Libs -> PtrsType]
    BY <1>1 DEF TabSet
  <2> QED
    BY <1>2, <2>1
<1>4. u = [t EXCEPT !.ptrs = ptrs]
  BY <1>1 DEF Laid, TabSet
<1> HIDE DEF ptrs
<1>5. u \in TabSet /\ u.ptrs = ptrs
  BY <1>1, <1>3, <1>4 DEF TabSet
<1>6. /\ u.type = t.type /\ u.refd = t.refd /\ u.lib = t.lib /\ u.for = t.for
      /\ u.number = t.number /\ u.list = t.list /\ u.wanted = t.wanted
      /\ u.marked = t.marked /\ u.selected = t.selected /\ u.requests = t.requests /\ u.undeco = t.undeco
  BY <1>1, <1>4 DEF TabSet
<1>7. Sound(u, {})
  <2>1. \A s \in Syms : Grounded(t, s) <=> Grounded(u, s)
    BY <1>6 DEF Grounded
  <2>2. RequestsRight(u)
    BY <1>6 DEF Sound, RequestsRight
  <2>3. ListsRight(u, {}) /\ WantsRight(u, {})
    BY <1>6 DEF Sound, ListsRight, WantsRight
  <2> QED
    BY <1>5, <2>1, <2>2, <2>3 DEF Sound
<1> QED
  BY <1>5, <1>6, <1>7 DEF ptrs

(* What every entry of the dictionary keeps so does going through it.      *)
LEMMA DefineStays ==
  ASSUME prog \in Programs, NEW l \in Libs, NEW t, NEW Q, Laid(t, l) \in Q,
         \A u \in Q : \A e \in Says(l) : LibSymbol(u, e[1], l, e[2]) \in Q
  PROVE  DefineLibSymbols(t, l) \in Q
<1> DEFINE Ptrs(list) == [t EXCEPT !.ptrs[l] = DoModulePtrs(prog.lib[l], list)]
           Ready == CHOOSE y \in {Ptrs(v) : v \in {ModulesOf(l)}} : TRUE
           Define(q) == InEntries(Ready, q, l)
<1>1. DefineLibSymbols(t, l) = CHOOSE y \in {Define(q) : q \in {Dictionary(l)}} : TRUE
  BY DEF DefineLibSymbols, Once, InEntries
<1>2. Ready = Laid(t, l)
  <2>1. {Ptrs(v) : v \in {ModulesOf(l)}} = {Laid(t, l)}
    BY DEF Laid
  <2> HIDE DEF Ptrs
  <2> QED
    BY <2>1
<1> HIDE DEF Ready
<1>3. Define(Dictionary(l)) \in Q
  BY <1>2, DictionarySays, Entered
<1> HIDE DEF Define
<1>4. {Define(q) : q \in {Dictionary(l)}} = {Define(Dictionary(l))}
  OBVIOUS
<1> QED
  BY <1>1, <1>3, <1>4

(* The dictionary of a library is gone through.                            *)
LEMMA DefineMoves ==
  ASSUME NEW t, Sound(t, {}), NEW l \in Libs, prog \in Programs, NEW u, u = DefineLibSymbols(t, l)
  PROVE  /\ Sound(u, {}) /\ u.refd = t.refd /\ u.for = t.for
         /\ Calm(Laid(t, l), u) /\ u.selected = t.selected /\ u.requests = t.requests
         /\ COMDEF_SEARCH \/ Holds(t, u)
<1> DEFINE v == Laid(t, l)
           Q == {w \in TabSet : Sound(w, {}) /\ w.refd = t.refd /\ w.for = t.for /\ Calm(v, w)
                              /\ (COMDEF_SEARCH \/ Holds(t, w))}
<1>1. /\ Sound(v, {}) /\ v.refd = t.refd /\ v.for = t.for
      /\ v.selected = t.selected /\ v.requests = t.requests /\ v \in TabSet
      /\ Holds(t, v)
  <2>1. PICK x : x = Laid(t, l)
    OBVIOUS
  <2>2. /\ Sound(x, {}) /\ x.type = t.type /\ x.refd = t.refd /\ x.lib = t.lib /\ x.for = t.for
        /\ x.number = t.number /\ x.list = t.list /\ x.wanted = t.wanted
        /\ x.marked = t.marked /\ x.selected = t.selected /\ x.requests = t.requests /\ x.undeco = t.undeco
        /\ x.ptrs = [t.ptrs EXCEPT ![l] = DoModulePtrs(prog.lib[l], ModulesOf(l))]
    BY <2>1, LaidIs
  <2> QED
    BY <2>1, <2>2, TypeOf DEF Holds
<1> HIDE DEF v
<1>2. v \in Q
  BY <1>1 DEF Calm
<1>3. ASSUME NEW w \in Q, NEW e \in Says(l)
      PROVE  LibSymbol(w, e[1], l, e[2]) \in Q
  <2>1. e[1] \in Syms /\ e[2] \in Int
    BY DEF Says
  <2>2. PICK x : x = LibSymbol(w, e[1], l, e[2])
    OBVIOUS
  <2>3. /\ Sound(x, {}) /\ x.refd = w.refd /\ x.for = w.for /\ Calm(w, x)
        /\ Others(w, x, e[1]) /\ EntryLeads(w, x, e[1], l, e[2])
    BY <2>1, <2>2, LibSymbolMoves
  <2>4. COMDEF_SEARCH \/ Holds(w, x)
    BY <2>1, <2>3 DEF Others, EntryLeads, Holds, Decided
  <2>5. COMDEF_SEARCH \/ Holds(t, x)
    BY <2>4 DEF Holds
  <2> QED
    BY <2>2, <2>3, <2>5, TypeOf DEF Calm
<1>4. u \in Q
  <2> HIDE DEF Q
  <2> QED
    BY <1>2, <1>3, DefineStays DEF v
<1> QED
  BY <1>1, <1>4 DEF Calm, v

-----------------------------------------------------------------------------
(* The exports are gone through.                                           *)
LEMMA ExportsStay ==
  ASSUME NEW Q, NEW t \in Q, t.undeco \in Seq(ExportType),
         \A u \in Q : \A s \in Syms : FixDefault(u, s) \in Q
  PROVE  \E v \in Q : \E left \in Seq(ExportType) : ScanUndeco(t).t = [v EXCEPT !.undeco = left]
<1> DEFINE P == [t : Q, new : BOOLEAN, left : Seq(ExportType)]
           start == [t |-> t, new |-> FALSE, left |-> <<>>]
           result == InOrder(ScanExport, start, t.undeco)
<1>1. start \in P
  OBVIOUS
<1>2. ASSUME NEW acc \in P, NEW e \in ExportType
      PROVE  ScanExport(acc, e) \in P
  <2> DEFINE s == Head(e.match)
             f == [t |-> FixDefault(acc.t, s), new |-> TRUE, left |-> acc.left]
             h == IF s \in acc.t.refd THEN acc ELSE f
             a == [acc EXCEPT !.left = Append(@, e)]
             b == [h EXCEPT !.left = Append(@, [e EXCEPT !.seen = TRUE])]
  <2>1. e.match \in Seq(Syms) /\ [e EXCEPT !.seen = TRUE] \in ExportType
    BY DEF ExportType
  <2>2. \A q \in Seq(ExportType) : \A x \in ExportType : Append(q, x) \in Seq(ExportType)
    OBVIOUS
  <2>3. a \in P
    BY <2>2
  <2>4. CASE e.match = <<>> \/ e.seen
    <3>1. ScanExport(acc, e) = a
      BY <2>4 DEF ScanExport
    <3> QED
      BY <2>3, <3>1
  <2>5. CASE ~(e.match = <<>> \/ e.seen)
    <3>1. s \in Syms
      BY <2>1, <2>5
    <3>2. f \in P
      BY <3>1
    <3>3. h \in P
      BY <3>2
    <3>4. ScanExport(acc, e) = IF e.exact THEN h ELSE b
      BY <2>5 DEF ScanExport
    <3> HIDE DEF h
    <3>5. b \in P
      BY <2>1, <2>2, <3>3
    <3> QED
      BY <3>3, <3>4, <3>5
  <2> QED
    BY <2>4, <2>5
<1>3. result \in P
  <2> HIDE DEF P, start
  <2> QED
    BY <1>1, <1>2, ExportsSeen
<1>4. ScanUndeco(t).t = [result.t EXCEPT !.undeco = result.left]
  BY DEF ScanUndeco
<1> HIDE DEF result
<1> QED
  BY <1>3, <1>4

(* All exports have been looked at.                                        *)
LEMMA ScanUndecoMoves ==
  ASSUME NEW t, Sound(t, {}), NEW u, u = ScanUndeco(t).t
  PROVE  /\ Sound(u, {}) /\ Len(t.requests) <= Len(u.requests)
         /\ \A l \in Libs : t.selected[l] <= u.selected[l]
         /\ u.lib = t.lib /\ u.number = t.number /\ u.ptrs = t.ptrs /\ Holds(t, u)
<1> DEFINE Q == {v \in TabSet : Sound(v, {}) /\ Later(t, v) /\ Holds(t, v)}
<1>1. t \in TabSet /\ t \in Q /\ t.undeco \in Seq(ExportType)
  <2>1. t \in TabSet
    BY TypeOf
  <2> QED
    BY <2>1, CalmLater DEF Calm, TabSet, Holds
<1>2. ASSUME NEW v \in Q, NEW s \in Syms PROVE FixDefault(v, s) \in Q
  <2>1. PICK w : w = FixDefault(v, s)
    OBVIOUS
  <2>2. Sound(w, {}) /\ Later(v, w) /\ Holds(v, w)
    BY <2>1, FixDefaultMoves
  <2>3. w \in TabSet /\ Holds(t, w)
    BY <2>2, TypeOf DEF Holds
  <2> QED
    BY <1>1, <2>1, <2>2, <2>3, LaterStill
<1>3. \E v \in Q : \E left \in Seq(ExportType) : u = [v EXCEPT !.undeco = left]
  <2> HIDE DEF Q
  <2> QED
    BY <1>1, <1>2, ExportsStay
<1>4. PICK v \in Q, left \in Seq(ExportType) : u = [v EXCEPT !.undeco = left]
  BY <1>3
<1>5. u \in TabSet
  BY <1>4 DEF TabSet
<1>6. /\ u.type = v.type /\ u.refd = v.refd /\ u.lib = v.lib /\ u.for = v.for /\ u.list = v.list
      /\ u.wanted = v.wanted /\ u.selected = v.selected /\ u.requests = v.requests
      /\ u.number = v.number /\ u.ptrs = v.ptrs
  BY <1>4 DEF TabSet
<1>7. Sound(u, {})
  <2>1. \A s \in Syms : Grounded(v, s) <=> Grounded(u, s)
    BY <1>6 DEF Grounded
  <2>2. RequestsRight(u)
    BY <1>6 DEF Sound, RequestsRight
  <2>3. ListsRight(u, {}) /\ WantsRight(u, {})
    BY <1>6 DEF Sound, ListsRight, WantsRight
  <2> QED
    BY <1>5, <2>1, <2>2, <2>3 DEF Sound
<1> QED
  BY <1>6, <1>7 DEF Later, Holds

-----------------------------------------------------------------------------
(* The inductive invariant: the tables are sound, and the passes over the  *)
(* request list find what they count on.                                   *)
Places == {"objs", "next", "number", "one", "all", "undeco", "ALIASED", "WEAK_EXTRN", "LAZY", "done"}

Provided ==
  /\ prog \in Programs /\ DataNotCode(prog) /\ objs \in Seq(ModuleType)
  /\ toOpen \in Seq(Libs) /\ opened \in Seq(Libs)

Control ==
  /\ pc \in Places /\ passes \in Nat /\ cur \in Libs \union {None}
  /\ pc = "objs" => objs # <<>>
  /\ pc = "number" => opened # <<>>
  /\ cur # None => pc \in {"one", "all"} /\ cur \in RangeOf(tab.requests)
  /\ pc = "one" => tab.requests # <<>>
  /\ pc = "all" => 0 < passes /\ passes <= Len(tab.requests)
  /\ pc # "all" => passes = 0

(* Where the object files to come and the communals seen are from.  Where  *)
(* communals are not searched for, those seen have been decided on.        *)
Recorded ==
  /\ RangeOf(objs) \subseteq RangeOf(prog.objs)
  /\ data \subseteq Syms /\ data \subseteq UNION {RangeOf(m.comm) : m \in Modules(prog)}
  /\ COMDEF_SEARCH \/ Held(tab, data)

Inv == Provided /\ Sound(tab, {}) /\ Control /\ Recorded

(* No program has as code what it has as a communal libraries are searched *)
(* for.                                                                    *)
NoClash == \A p \in Programs : DataNotCode(p)

(* Sound tables have the right lists.                                      *)
LEMMA SoundTellsList == Inv => TypeTellsList
<1> SUFFICES ASSUME Inv PROVE TypeTellsList
  OBVIOUS
<1>1. tab \in TabSet /\ ListsRight(tab, {}) /\ WantsRight(tab, {}) /\ Control /\ data \subseteq Syms
  BY DEF Inv, Sound, Recorded
<1>2. TabTypeOK
  BY <1>1 DEF TabSet, TabTypeOK, Control, Places
<1>3. Syms \ {} = Syms
  OBVIOUS
<1> QED
  BY <1>1, <1>2, <1>3 DEF TypeTellsList, ListsRight, WantsRight

(* The tables are sound at first,                                          *)
LEMMA StartSound ==
  ASSUME NEW exports \in Seq([exact : BOOLEAN, match : Seq(Syms)])
  PROVE  Sound([InitTab EXCEPT !.undeco = [i \in DOMAIN exports |->
              [exact |-> exports[i].exact, match |-> exports[i].match, seen |-> FALSE]]], {})
<1> DEFINE undeco == [i \in DOMAIN exports |->
                        [exact |-> exports[i].exact, match |-> exports[i].match, seen |-> FALSE]]
           t == [InitTab EXCEPT !.undeco = undeco]
<1>1. undeco \in Seq(ExportType)
  <2> DEFINE E == [exact : BOOLEAN, match : Seq(Syms)]
  <2>0. exports \in Seq(E)
    OBVIOUS
  <2>1. DOMAIN exports = 1 .. Len(exports) /\ Len(exports) \in Nat
        /\ \A i \in DOMAIN exports : exports[i] \in E
    <3> HIDE DEF E
    <3> QED
      BY <2>0
  <2>2. \A i \in DOMAIN exports :
          [exact |-> exports[i].exact, match |-> exports[i].match, seen |-> FALSE] \in ExportType
    BY <2>1 DEF ExportType
  <2> QED
    BY <2>1, <2>2
<1>2. [flat |-> TRUE, blocks |-> <<<<>>>>] \in PtrsType
  <2>1. <<>> \in Seq(Nat)
    OBVIOUS
  <2>2. \A x \in Seq(Nat) : <<x>> \in Seq(Seq(Nat))
    OBVIOUS
  <2> QED
    BY <2>1, <2>2 DEF PtrsType
<1> HIDE DEF undeco
<1>3. /\ t.type = [s \in Syms |-> "UNDEFINED"] /\ t.refd = {} /\ t.lib = [s \in Syms |-> None]
      /\ t.number = [s \in Syms |-> 0] /\ t.for = [s \in Syms |-> None] /\ t.list = [l \in Lists |-> <<>>]
      /\ t.wanted = [l \in Libs |-> <<>>] /\ t.ptrs = [l \in Libs |-> [flat |-> TRUE, blocks |-> <<<<>>>>]]
      /\ t.marked = {} /\ t.selected = [l \in Libs |-> 0] /\ t.requests = <<>> /\ t.undeco = undeco
  BY DEF InitTab
<1>4. t \in TabSet
  <2>1. InitTab \in TabSet
    <3>1. "UNDEFINED" \in Types /\ <<>> \in Seq(Syms) /\ <<>> \in Seq(Libs) /\ <<>> \in Seq(ExportType)
      BY DEF Types, Unlisted
    <3> QED
      BY <1>2, <3>1 DEF InitTab, TabSet
  <2>2. t = [InitTab EXCEPT !.undeco = undeco]
    OBVIOUS
  <2> HIDE DEF t
  <2> QED
    BY <1>1, <2>1, <2>2 DEF TabSet
<1> HIDE DEF t
<1>5. RangeOf(<<>>) = {} /\ IsInjective(<<>>)
  BY DEF RangeOf, IsInjective
<1>6. ListsRight(t, {}) /\ WantsRight(t, {})
  BY <1>3, <1>5 DEF ListsRight, WantsRight, Lists
<1>7. \A s \in Syms : Grounded(t, s)
  BY <1>3 DEF Grounded, Standing
<1>8. RequestsRight(t)
  BY <1>3, <1>5 DEF RequestsRight
<1> QED
  BY <1>4, <1>6, <1>7, <1>8 DEF Sound, t, undeco

(* and so is the rest.                                                     *)
LEMMA StartsSound == NoClash /\ Init => Inv
<1> SUFFICES ASSUME NoClash, Init PROVE Inv
  OBVIOUS
<1>1. prog \in Programs /\ data = {} /\ objs = prog.objs /\ toOpen = prog.libs /\ opened = <<>>
      /\ pc = "objs" /\ passes = 0 /\ cur = None
  BY DEF Init
<1>2. prog.objs \in Seq(ModuleType) /\ prog.objs # <<>> /\ prog.libs \in Seq(Libs)
      /\ prog.exports \in Seq([exact : BOOLEAN, match : Seq(Syms)])
  BY <1>1, ProgramsAssumption
<1>3. Provided
  BY <1>1, <1>2 DEF Provided, NoClash
<1>4. Sound(tab, {})
  BY <1>2, StartSound DEF Init
<1>5. Control
  BY <1>1, <1>2 DEF Control, Places
<1>6. Recorded
  BY <1>1 DEF Recorded, Held
<1> QED
  BY <1>3, <1>4, <1>5, <1>6 DEF Inv

(* What a list that grows still holds.                                     *)
LEMMA StillRequested ==
  ASSUME NEW t, Sound(t, {}), NEW u, Sound(u, {}), \A l \in Libs : t.selected[l] <= u.selected[l],
         NEW l \in RangeOf(t.requests)
  PROVE  l \in Libs /\ t.selected[l] > 0 /\ u.selected[l] > 0 /\ l \in RangeOf(u.requests)
<1>1. /\ RangeOf(t.requests) = {k \in Libs : t.selected[k] > 0}
      /\ RangeOf(u.requests) = {k \in Libs : u.selected[k] > 0}
      /\ t.selected \in [Libs -> Nat] /\ u.selected \in [Libs -> Nat]
  BY DEF Sound, RequestsRight, TabSet
<1>2. l \in Libs /\ t.selected[l] > 0 /\ t.selected[l] \in Nat /\ u.selected[l] \in Nat
  BY <1>1
<1> QED
  BY <1>1, <1>2

(* A sequence without its first element.                                   *)
LEMMA TailIs ==
  ASSUME NEW W, NEW q \in Seq(W), q # <<>>
  PROVE  /\ Head(q) \in RangeOf(q) /\ Tail(q) \in Seq(W) /\ RangeOf(Tail(q)) \subseteq RangeOf(q)
         /\ IsInjective(q) => IsInjective(Tail(q)) /\ Head(q) \notin RangeOf(Tail(q))
<1> DEFINE r == Tail(q)
<1>1. /\ 1 \in DOMAIN q /\ Head(q) = q[1] /\ r \in Seq(W)
      /\ \A i \in DOMAIN r : i + 1 \in DOMAIN q /\ r[i] = q[i + 1] /\ i \in Nat /\ i # 0
  OBVIOUS
<1> HIDE DEF r
<1>2. Head(q) \in RangeOf(q)
  BY <1>1 DEF RangeOf
<1>3. RangeOf(r) \subseteq RangeOf(q)
  BY <1>1 DEF RangeOf
<1>4. ASSUME IsInjective(q) PROVE IsInjective(r) /\ Head(q) \notin RangeOf(r)
  <2>1. \A i, j \in DOMAIN r : r[i] = r[j] => i + 1 = j + 1
    BY <1>1, <1>4 DEF IsInjective
  <2>2. \A i, j \in Nat : i + 1 = j + 1 => i = j
    OBVIOUS
  <2>3. IsInjective(r)
    BY <1>1, <2>1, <2>2 DEF IsInjective
  <2>4. \A i \in DOMAIN r : i + 1 # 1
    BY <1>1
  <2>5. \A i \in DOMAIN r : r[i] # q[1]
    BY <1>1, <1>4, <2>4 DEF IsInjective
  <2> QED
    BY <1>1, <2>3, <2>5 DEF RangeOf
<1> QED
  BY <1>1, <1>2, <1>3, <1>4 DEF r

(* What a module asks for are libraries.                                   *)
LEMMA AskedTyped ==
  ASSUME Provided, NEW m \in ModuleType
  PROVE  toOpen \o Asked(m) \in Seq(Libs)
<1>1. m.libs \in Seq(Libs) /\ toOpen \in Seq(Libs)
  BY ModuleIs DEF Provided
<1>2. Asked(m) \in Seq(Libs)
  BY <1>1, ThoseAre DEF Asked
<1> QED
  BY <1>1, <1>2

(* What is read is a module.                                               *)
LEMMA ModuleThere ==
  ASSUME prog \in Programs, NEW l \in Libs, NEW p
  PROVE  ModuleAt(l, p) \in ModuleType
<1>1. Nothing \in ModuleType
  <2>1. \A A : <<>> \in Seq(A)
    OBVIOUS
  <2> QED
    BY <2>1 DEF Nothing, ModuleType
<1>2. \A i \in DOMAIN prog.lib[l].page : prog.module[l][prog.lib[l].page[i]] \in ModuleType
  BY ProgramsAssumption
<1> QED
  BY <1>1, <1>2 DEF ModuleAt, RangeOf

(* It is one of the program's, or none at all.                             *)
LEMMA ModuleFrom ==
  ASSUME NEW l \in Libs, NEW p
  PROVE  ModuleAt(l, p) \in Modules(prog) \union {Nothing}
BY DEF ModuleAt, Modules, Library

(* What was a communal and is code here has been decided on.               *)
LEMMA HeldNow ==
  ASSUME Inv, NEW m \in Modules(prog) \union {Nothing}
  PROVE  Held(tab, m.code \intersect data)
<1>1. CASE COMDEF_SEARCH /\ m \in Modules(prog)
  <2>1. m.code \intersect data = {}
    BY <1>1 DEF Inv, Provided, Recorded, DataNotCode, COMDEF_SEARCH
  <2> QED
    BY <2>1 DEF Held
<1>2. CASE ~COMDEF_SEARCH
  BY <1>2 DEF Inv, Recorded, Held
<1>3. CASE m = Nothing
  BY <1>3 DEF Nothing, Held
<1> QED
  BY <1>1, <1>2, <1>3

(* A step that reads no module keeps what is recorded,                     *)
LEMMA RecordedStays ==
  ASSUME Inv, prog' = prog, objs' = objs, data' = data, COMDEF_SEARCH \/ Holds(tab, tab')
  PROVE  Recorded'
<1>1. data \subseteq Syms
  BY DEF Inv, Recorded
<1>2. COMDEF_SEARCH \/ Held(tab', data)
  BY <1>1 DEF Inv, Recorded, Held, Holds
<1> QED
  BY <1>2 DEF Inv, Recorded, Held, COMDEF_SEARCH

(* and so does one that reads one.                                         *)
LEMMA RecordedMore ==
  ASSUME Inv, NEW m \in ModuleType, m \in Modules(prog) \union {Nothing}, prog' = prog,
         RangeOf(objs') \subseteq RangeOf(objs), data' = data \union RangeOf(m.comm),
         Holds(tab, tab'), COMDEF_SEARCH \/ Held(tab', RangeOf(m.comm))
  PROVE  Recorded'
<1>1. data \subseteq Syms /\ RangeOf(m.comm) \subseteq Syms
  BY ModuleIs DEF Inv, Recorded, RangeOf
<1>2. COMDEF_SEARCH \/ Held(tab', data \union RangeOf(m.comm))
  BY <1>1 DEF Inv, Recorded, Held, Holds
<1>3. RangeOf(m.comm) \subseteq UNION {RangeOf(k.comm) : k \in Modules(prog)}
  <2>1. CASE m \in Modules(prog)
    BY <2>1
  <2>2. CASE m = Nothing
    BY <2>2 DEF Nothing, RangeOf
  <2> QED
    BY <2>1, <2>2
<1>4. RangeOf(objs') \subseteq RangeOf(prog.objs)
  BY DEF Inv, Recorded
<1>5. data \subseteq UNION {RangeOf(k.comm) : k \in Modules(prog)}
  BY DEF Inv, Recorded
<1> QED
  BY <1>1, <1>2, <1>3, <1>4, <1>5 DEF Recorded, Held, COMDEF_SEARCH

(* ReadObject keeps the invariant.                                         *)
LEMMA ReadObjectKeeps ==
  ASSUME Inv, ReadObject
  PROVE  Inv'
<1> DEFINE m == Head(objs)
<1>1. m \in ModuleType /\ objs' \in Seq(ModuleType) /\ (Len(objs) # 1 => objs' # <<>>)
      /\ prog' = prog /\ opened' = opened /\ passes' = passes /\ cur' = cur
  <2>1. objs \in Seq(ModuleType) /\ objs # <<>> /\ objs' = Tail(objs)
        /\ prog' = prog /\ opened' = opened /\ passes' = passes /\ cur' = cur
    BY DEF Inv, Provided, Control, ReadObject
  <2>2. m \in ModuleType /\ objs' \in Seq(ModuleType) /\ Len(objs') = Len(objs) - 1 /\ Len(objs) \in Nat
    <3>1. \A W : \A q \in Seq(W) : q # <<>> => Head(q) \in W /\ Tail(q) \in Seq(W)
                                             /\ Len(Tail(q)) = Len(q) - 1 /\ Len(q) \in Nat
      OBVIOUS
    <3> QED
      BY <2>1, <3>1
  <2>3. Len(objs) # 1 => objs' # <<>>
    BY <2>2
  <2> QED
    BY <2>1, <2>2, <2>3
<1>2. tab' = ReadModule(tab, data, m, None, 0) /\ toOpen' = toOpen \o Asked(m)
      /\ data' = data \union RangeOf(m.comm)
  BY DEF ReadObject
<1>0. RangeOf(objs') \subseteq RangeOf(objs) /\ m \in RangeOf(objs)
  <2>1. objs \in Seq(ModuleType) /\ objs # <<>> /\ objs' = Tail(objs)
    BY DEF Inv, Provided, Control, ReadObject
  <2> QED
    BY <2>1, TailIs
<1> HIDE DEF m
<1>6. m \in Modules(prog) \union {Nothing}
  BY <1>0 DEF Modules, Inv, Recorded
<1>3. Sound(tab', {}) /\ Holds(tab, tab') /\ (COMDEF_SEARCH \/ Held(tab', RangeOf(m.comm)))
  BY <1>1, <1>2, <1>6, HeldNow, ReadModuleMoves DEF Inv
<1>4. Provided'
  BY <1>1, <1>2, AskedTyped DEF Inv, Provided
<1>5. Control'
  BY <1>1 DEF Inv, Control, ReadObject, Places
<1>7. Recorded'
  BY <1>0, <1>1, <1>2, <1>3, <1>6, RecordedMore
<1> QED
  BY <1>3, <1>4, <1>5, <1>7 DEF Inv

(* OpenLib keeps the invariant.                                            *)
LEMMA OpenLibKeeps ==
  ASSUME Inv, OpenLib
  PROVE  Inv'
<1> DEFINE l == Head(toOpen)
<1>1. l \in Libs /\ prog \in Programs /\ toOpen' \in Seq(Libs) /\ opened' = Append(opened, l)
      /\ opened' \in Seq(Libs) /\ opened' # <<>>
      /\ prog' = prog /\ objs' = objs /\ data' = data /\ passes' = passes /\ cur' = cur
      /\ pc = "next" /\ pc' = "number"
  BY DEF Inv, Provided, OpenLib
<1>2. tab' = DefineLibSymbols(tab, l)
  BY DEF OpenLib
<1> HIDE DEF l
<1>3. Sound(tab', {}) /\ (COMDEF_SEARCH \/ Holds(tab, tab'))
  BY <1>1, <1>2, DefineMoves DEF Inv
<1>4. Provided'
  BY <1>1 DEF Inv, Provided
<1>5. Control'
  BY <1>1 DEF Inv, Control, Places
<1>6. Recorded'
  BY <1>1, <1>3, RecordedStays
<1> QED
  BY <1>3, <1>4, <1>5, <1>6 DEF Inv

(* A library is being numbered.                                            *)
LEMMA LastOpened ==
  ASSUME Inv, pc = "number"
  PROVE  Last(opened) \in Libs /\ prog \in Programs
<1>1. opened \in Seq(Libs) /\ opened # <<>> /\ prog \in Programs
  BY DEF Inv, Provided, Control
<1> QED
  BY <1>1 DEF Last

(* NumberModules keeps the invariant.                                      *)
LEMMA NumberModulesKeeps ==
  ASSUME Inv, NumberModules
  PROVE  Inv'
<1>1. pc = "number" /\ Last(opened) \in Libs /\ prog \in Programs
      /\ prog' = prog /\ objs' = objs /\ data' = data /\ toOpen' = toOpen /\ opened' = opened
      /\ passes' = passes /\ cur' = cur
  BY LastOpened DEF NumberModules
<1>2. tab' = UpdateLibSymbols(tab, Last(opened))
      /\ pc' = IF Len(tab'.requests) > 1 THEN "one" ELSE "next"
  BY DEF NumberModules
<1>3. Sound(tab', {}) /\ Holds(tab, tab')
  BY <1>1, <1>2, UpdateMoves DEF Inv
<1>4. Provided'
  BY <1>1 DEF Inv, Provided
<1>5. Control'
  <2>1. pc' = "one" => tab'.requests # <<>>
    BY <1>2
  <2> QED
    BY <1>1, <1>2, <2>1 DEF Inv, Control, Places
<1>6. Recorded'
  BY <1>1, <1>3, RecordedStays
<1> QED
  BY <1>3, <1>4, <1>5, <1>6 DEF Inv

(* NoMoreLibs keeps the invariant.                                         *)
LEMMA NoMoreLibsKeeps ==
  ASSUME Inv, NoMoreLibs
  PROVE  Inv'
<1>1. /\ pc = "next" /\ prog' = prog /\ objs' = objs /\ data' = data /\ toOpen' = toOpen /\ opened' = opened
      /\ tab' = tab /\ cur' = cur /\ passes' = Len(tab.requests)
      /\ pc' = IF tab.requests = <<>> THEN "undeco" ELSE "all"
  BY DEF NoMoreLibs
<1>2. Provided' /\ Sound(tab', {})
  BY <1>1 DEF Inv, Provided
<1>3. tab.requests \in Seq(Libs)
  BY DEF Inv, Sound, TabSet
<1>4. /\ Len(tab.requests) \in Nat /\ (tab.requests = <<>> => Len(tab.requests) = 0)
      /\ (tab.requests # <<>> => 0 < Len(tab.requests))
  BY <1>3
<1>5. Control'
  BY <1>1, <1>4 DEF Inv, Control, Places
<1>6. Recorded'
  BY <1>1, RecordedStays DEF Holds
<1> QED
  BY <1>2, <1>5, <1>6 DEF Inv

(* SelectLibrary keeps the invariant.                                      *)
LEMMA SelectLibraryKeeps ==
  ASSUME Inv, SelectLibrary
  PROVE  Inv'
<1>1. /\ pc \in {"one", "all"} /\ prog' = prog /\ objs' = objs /\ data' = data /\ toOpen' = toOpen
      /\ opened' = opened
      /\ tab' = tab /\ cur' = Head(tab.requests) /\ passes' = passes /\ pc' = pc
  BY DEF SelectLibrary
<1>2. Provided' /\ Sound(tab', {})
  BY <1>1 DEF Inv, Provided
<1>3. tab.requests \in Seq(Libs)
  BY DEF Inv, Sound, TabSet
<1>4. tab.requests # <<>>
  <2>1. pc = "all" => Len(tab.requests) # 0
    BY <1>3 DEF Inv, Control
  <2> QED
    BY <1>1, <1>3, <2>1 DEF Inv, Control
<1>5. Head(tab.requests) \in RangeOf(tab.requests) /\ Head(tab.requests) \in Libs
  BY <1>3, <1>4 DEF RangeOf
<1>6. Control'
  BY <1>1, <1>4, <1>5 DEF Inv, Control
<1>7. Recorded'
  BY <1>1, RecordedStays DEF Holds
<1> QED
  BY <1>2, <1>6, <1>7 DEF Inv

(* A module is counted off.                                                *)
CountedOff(t, l) ==
  [t EXCEPT !.selected[l] = @ - 1, !.requests = IF t.selected[l] = 1 THEN Without(@, l) ELSE @]

(* Counting a module off.                                                  *)
LEMMA CountsOff ==
  ASSUME NEW t, Sound(t, {}), NEW l \in RangeOf(t.requests), NEW u, u = CountedOff(t, l)
  PROVE  /\ Sound(u, {}) /\ u.type = t.type /\ u.refd = t.refd /\ u.lib = t.lib /\ u.for = t.for
         /\ u.number = t.number /\ u.wanted = t.wanted /\ u.list = t.list
         /\ u.ptrs = t.ptrs /\ u.undeco = t.undeco
         /\ t.selected[l] = 1 => Len(u.requests) = Len(t.requests) - 1
         /\ t.selected[l] # 1 => l \in RangeOf(u.requests) /\ u.requests = t.requests
<1> DEFINE selected == [t.selected EXCEPT ![l] = @ - 1]
           requests == IF t.selected[l] = 1 THEN Without(t.requests, l) ELSE t.requests
<1>1. /\ t \in TabSet /\ t.requests \in Seq(Libs) /\ t.selected \in [Libs -> Nat]
      /\ IsInjective(t.requests) /\ RangeOf(t.requests) = {k \in Libs : t.selected[k] > 0}
  BY DEF Sound, TabSet, RequestsRight
<1>2. l \in Libs /\ t.selected[l] \in Nat /\ t.selected[l] > 0
  BY <1>1
<1>3. /\ Without(t.requests, l) \in Seq(Libs) /\ IsInjective(Without(t.requests, l))
      /\ RangeOf(Without(t.requests, l)) = RangeOf(t.requests) \ {l}
      /\ Len(Without(t.requests, l)) = Len(t.requests) - 1
  BY <1>1, WithoutOne, OneShorter
<1>4. selected \in [Libs -> Nat] /\ requests \in Seq(Libs)
  BY <1>1, <1>2, <1>3
<1>5. u = [t EXCEPT !.selected = selected, !.requests = requests]
  BY <1>1 DEF CountedOff, TabSet
<1>6. \A k \in Libs : selected[k] = IF k = l THEN t.selected[l] - 1 ELSE t.selected[k]
  BY <1>1
<1>7. IsInjective(requests) /\ RangeOf(requests) = {k \in Libs : selected[k] > 0}
  <2>1. CASE t.selected[l] = 1
    <3>1. {k \in Libs : selected[k] > 0} = RangeOf(t.requests) \ {l}
      BY <1>1, <1>6, <2>1
    <3> QED
      BY <1>3, <2>1, <3>1
  <2>2. CASE t.selected[l] # 1
    <3>1. {k \in Libs : selected[k] > 0} = RangeOf(t.requests)
      BY <1>1, <1>2, <1>6, <2>2
    <3> QED
      BY <1>1, <2>2, <3>1
  <2> QED
    BY <2>1, <2>2
<1>8. t.selected[l] = 1 => Len(requests) = Len(t.requests) - 1
  BY <1>3
<1>9. t.selected[l] # 1 => l \in RangeOf(requests) /\ requests = t.requests
  OBVIOUS
<1> HIDE DEF selected, requests
<1>10. u \in TabSet /\ u.selected = selected /\ u.requests = requests
  BY <1>1, <1>4, <1>5 DEF TabSet
<1>11. /\ u.type = t.type /\ u.refd = t.refd /\ u.lib = t.lib /\ u.for = t.for
       /\ u.number = t.number /\ u.wanted = t.wanted /\ u.list = t.list
       /\ u.ptrs = t.ptrs /\ u.undeco = t.undeco
  BY <1>1, <1>5 DEF TabSet
<1>12. Sound(u, {})
  <2>1. \A s \in Syms : Grounded(t, s) <=> Grounded(u, s)
    BY <1>11 DEF Grounded
  <2>2. RequestsRight(u)
    BY <1>7, <1>10 DEF RequestsRight
  <2>3. ListsRight(u, {}) /\ WantsRight(u, {})
    BY <1>11 DEF Sound, ListsRight, WantsRight
  <2> QED
    BY <1>10, <2>1, <2>2, <2>3 DEF Sound
<1> QED
  BY <1>8, <1>9, <1>10, <1>11, <1>12

(* The module that is read, and the table when it has been.                *)
Page  == PageAt(tab, cur, tab.number[Head(tab.wanted[cur])])
Chosen == ModuleAt(cur, Page)
After == IF tab.wanted[cur] = <<>> THEN tab
         ELSE ReadModule(tab, data, Chosen, cur, tab.number[Head(tab.wanted[cur])])

(* Reading or counting off a module.                                       *)
LEMMA ProcessIs ==
  ASSUME ProcessModule
  PROVE  /\ cur # None /\ tab' = CountedOff(After, cur)
         /\ toOpen' = IF tab.wanted[cur] = <<>> THEN toOpen ELSE toOpen \o Asked(Chosen)
         /\ reads' = IF tab.wanted[cur] = <<>> THEN reads ELSE Append(reads, <<cur, Page>>)
         /\ cur' = IF After.selected[cur] = 1 THEN None ELSE cur
         /\ passes' = IF After.selected[cur] = 1 /\ pc = "all" THEN passes - 1 ELSE passes
         /\ pc' = IF After.selected[cur] = 1 /\ passes' = 0 THEN "next" ELSE pc
         /\ data' = IF tab.wanted[cur] = <<>> THEN data ELSE data \union RangeOf(Chosen.comm)
         /\ prog' = prog /\ objs' = objs /\ opened' = opened /\ unused' = unused
BY DEF ProcessModule, CountedOff, After, Chosen, Page

(* The table when the module has been read.                                *)
LEMMA AfterMoves ==
  ASSUME Inv, cur # None
  PROVE  /\ Sound(After, {}) /\ Chosen \in ModuleType /\ cur \in Libs
         /\ cur \in RangeOf(After.requests) /\ Len(tab.requests) <= Len(After.requests)
         /\ Holds(tab, After) /\ Chosen \in Modules(prog) \union {Nothing}
         /\ tab.wanted[cur] = <<>> \/ COMDEF_SEARCH \/ Held(After, RangeOf(Chosen.comm))
<1>1. cur \in Libs /\ cur \in RangeOf(tab.requests) /\ prog \in Programs /\ Sound(tab, {})
  BY DEF Inv, Provided, Control
<1>2. Chosen \in ModuleType /\ Chosen \in Modules(prog) \union {Nothing}
  BY <1>1, ModuleThere, ModuleFrom DEF Chosen
<1>3. /\ Sound(After, {}) /\ Later(tab, After) /\ Holds(tab, After)
      /\ tab.wanted[cur] = <<>> \/ COMDEF_SEARCH \/ Held(After, RangeOf(Chosen.comm))
  <2>1. CASE tab.wanted[cur] = <<>>
    <3>1. Later(tab, tab) /\ Holds(tab, tab)
      BY <1>1, TypeOf, CalmLater DEF Calm, Holds
    <3> QED
      BY <1>1, <2>1, <3>1 DEF After
  <2>2. CASE tab.wanted[cur] # <<>>
    <3>1. After = ReadModule(tab, data, Chosen, cur, tab.number[Head(tab.wanted[cur])])
      BY <2>2 DEF After
    <3>2. Held(tab, Chosen.code \intersect data)
      BY <1>2, HeldNow
    <3> QED
      BY <1>1, <1>2, <3>1, <3>2, ReadModuleMoves
  <2> QED
    BY <2>1, <2>2
<1>4. cur \in RangeOf(After.requests)
  BY <1>1, <1>3, StillRequested DEF Later
<1> QED
  BY <1>1, <1>2, <1>3, <1>4 DEF Later

(* ProcessModule keeps the invariant.                                      *)
LEMMA ProcessModuleKeeps ==
  ASSUME Inv, ProcessModule
  PROVE  Inv'
<1> DEFINE a == After
           last == a.selected[cur] = 1
<1>1. /\ cur # None /\ tab' = CountedOff(a, cur)
      /\ toOpen' = IF tab.wanted[cur] = <<>> THEN toOpen ELSE toOpen \o Asked(Chosen)
      /\ cur' = IF last THEN None ELSE cur
      /\ passes' = IF last /\ pc = "all" THEN passes - 1 ELSE passes
      /\ pc' = IF last /\ passes' = 0 THEN "next" ELSE pc
      /\ data' = IF tab.wanted[cur] = <<>> THEN data ELSE data \union RangeOf(Chosen.comm)
      /\ prog' = prog /\ objs' = objs /\ opened' = opened
  BY ProcessIs
<1>2. /\ Sound(a, {}) /\ Chosen \in ModuleType /\ cur \in Libs
      /\ cur \in RangeOf(a.requests) /\ Len(tab.requests) <= Len(a.requests)
      /\ Holds(tab, a) /\ Chosen \in Modules(prog) \union {Nothing}
      /\ tab.wanted[cur] = <<>> \/ COMDEF_SEARCH \/ Held(a, RangeOf(Chosen.comm))
  BY <1>1, AfterMoves
<1> HIDE DEF a
<1>3. PICK u : u = tab'
  OBVIOUS
<1>4. /\ Sound(u, {}) /\ u.type = a.type /\ u.refd = a.refd /\ u.lib = a.lib /\ u.for = a.for
      /\ u.number = a.number /\ u.wanted = a.wanted /\ u.list = a.list
      /\ u.ptrs = a.ptrs /\ u.undeco = a.undeco
      /\ a.selected[cur] = 1 => Len(u.requests) = Len(a.requests) - 1
      /\ a.selected[cur] # 1 => cur \in RangeOf(u.requests) /\ u.requests = a.requests
  BY <1>1, <1>2, <1>3, CountsOff
<1>5. Provided'
  BY <1>1, <1>2, AskedTyped DEF Inv, Provided
<1>10. Recorded'
  <2>1. Holds(tab, tab')
    BY <1>2, <1>3, <1>4 DEF Holds
  <2>2. CASE tab.wanted[cur] = <<>>
    <3>1. data' = data
      BY <1>1, <2>2
    <3> QED
      BY <1>1, <2>1, <3>1, RecordedStays
  <2>3. CASE tab.wanted[cur] # <<>>
    <3>1. data' = data \union RangeOf(Chosen.comm)
      BY <1>1, <2>3
    <3>2. COMDEF_SEARCH \/ Held(tab', RangeOf(Chosen.comm))
      BY <1>2, <1>3, <1>4, <2>3 DEF Held
    <3>3. RangeOf(objs') \subseteq RangeOf(objs)
      BY <1>1
    <3> QED
      BY <1>1, <1>2, <2>1, <3>1, <3>2, <3>3, RecordedMore
  <2> QED
    BY <2>2, <2>3
<1>6. /\ pc \in {"one", "all"} /\ passes \in Nat /\ (pc = "one" => passes = 0)
      /\ (pc = "all" => 0 < passes /\ passes <= Len(tab.requests))
  BY <1>1 DEF Inv, Control
<1>7. Len(tab.requests) \in Nat /\ Len(a.requests) \in Nat /\ tab.requests \in Seq(Libs)
  <2>1. tab.requests \in Seq(Libs) /\ a.requests \in Seq(Libs)
    BY <1>2 DEF Inv, Sound, TabSet
  <2> QED
    BY <2>1
<1>8. CASE last
  <2>1. cur' = None /\ Len(u.requests) = Len(a.requests) - 1
    BY <1>1, <1>4, <1>8
  <2>2. CASE pc = "one"
    <3>1. passes' = 0 /\ pc' = "next"
      BY <1>1, <1>6, <1>8, <2>2
    <3> QED
      BY <1>3, <1>4, <1>5, <1>10, <2>1, <3>1 DEF Inv, Control, Places
  <2>3. CASE pc = "all"
    <3>1. PICK n : n = passes'
      OBVIOUS
    <3>2. n = passes - 1
      BY <1>1, <1>8, <2>3, <3>1
    <3>3. pc' = IF n = 0 THEN "next" ELSE "all"
      BY <1>1, <1>8, <2>3, <3>1
    <3>4. n \in Nat /\ n <= Len(u.requests) /\ (n # 0 => 0 < n)
      BY <1>2, <1>6, <1>7, <2>1, <2>3, <3>2
    <3>5. Control'
      <4>1. CASE n = 0
        BY <1>3, <2>1, <3>1, <3>3, <4>1 DEF Control, Places
      <4>2. CASE n # 0
        BY <1>3, <2>1, <3>1, <3>3, <3>4, <4>2 DEF Control, Places
      <4> QED
        BY <4>1, <4>2
    <3> QED
      BY <1>3, <1>4, <1>5, <1>10, <3>5 DEF Inv
  <2> QED
    BY <1>6, <2>2, <2>3
<1>9. CASE ~last
  <2>1. cur' = cur /\ passes' = passes /\ pc' = pc /\ cur \in RangeOf(u.requests) /\ u.requests = a.requests
    BY <1>1, <1>4, <1>9
  <2>2. u.requests # <<>>
    BY <2>1 DEF RangeOf
  <2>3. passes \in Nat /\ (pc = "all" => 0 < passes /\ passes <= Len(u.requests))
    BY <1>2, <1>6, <1>7, <2>1
  <2>4. Control'
    BY <1>2, <1>3, <1>6, <2>1, <2>2, <2>3 DEF Control, Places
  <2> QED
    BY <1>3, <1>4, <1>5, <1>10, <2>4 DEF Inv
<1> QED
  BY <1>8, <1>9

(* ScanExports keeps the invariant.                                        *)
LEMMA ScanExportsKeeps ==
  ASSUME Inv, ScanExports
  PROVE  Inv'
<1>1. /\ pc = "undeco" /\ tab' = ScanUndeco(tab).t /\ pc' \in {"next", "ALIASED"}
      /\ prog' = prog /\ objs' = objs /\ data' = data /\ toOpen' = toOpen /\ opened' = opened
      /\ passes' = passes /\ cur' = cur
  BY DEF ScanExports
<1>2. Sound(tab', {}) /\ Holds(tab, tab')
  BY <1>1, ScanUndecoMoves DEF Inv
<1>3. Provided'
  BY <1>1 DEF Inv, Provided
<1>4. Control'
  BY <1>1 DEF Inv, Control, Places
<1>5. Recorded'
  BY <1>1, <1>2, RecordedStays
<1> QED
  BY <1>2, <1>3, <1>4, <1>5 DEF Inv

(* ScanTurn keeps the invariant.                                           *)
LEMMA ScanTurnKeeps ==
  ASSUME Inv, ScanTurn
  PROVE  Inv'
<1>1. /\ pc \in DOMAIN Defined /\ tab.list[pc] # <<>> /\ tab' = Turn(tab, pc, Defined[pc])
      /\ pc' \in {"next", pc}
      /\ prog' = prog /\ objs' = objs /\ data' = data /\ toOpen' = toOpen /\ opened' = opened
      /\ passes' = passes /\ cur' = cur
  BY DEF ScanTurn
<1>2. Sound(tab', {}) /\ Holds(tab, tab')
  BY <1>1, TurnMoves DEF Inv
<1>3. Provided'
  BY <1>1 DEF Inv, Provided
<1>4. Control'
  BY <1>1, DefinedAre DEF Inv, Control, Places
<1>5. Recorded'
  BY <1>1, <1>2, RecordedStays
<1> QED
  BY <1>2, <1>3, <1>4, <1>5 DEF Inv

(* ScanEnds keeps the invariant.                                           *)
LEMMA ScanEndsKeeps ==
  ASSUME Inv, ScanEnds
  PROVE  Inv'
<1>1. /\ pc \in DOMAIN Defined /\ pc' = ScanAfter[pc] /\ tab' = tab
      /\ prog' = prog /\ objs' = objs /\ data' = data /\ toOpen' = toOpen /\ opened' = opened
      /\ passes' = passes /\ cur' = cur
  BY DEF ScanEnds
<1>2. Provided' /\ Sound(tab', {})
  BY <1>1 DEF Inv, Provided
<1>3. pc \in {"ALIASED", "WEAK_EXTRN", "LAZY"} /\ pc' \in {"WEAK_EXTRN", "LAZY", "done"}
  BY <1>1, DefinedAre DEF ScanAfter
<1>4. Control'
  BY <1>1, <1>3 DEF Inv, Control, Places
<1>5. Recorded'
  BY <1>1, RecordedStays DEF Holds
<1> QED
  BY <1>2, <1>4, <1>5 DEF Inv

(* Every step keeps the invariant.                                         *)
LEMMA StepKeeps == Inv /\ [Next]_vars => Inv'
<1> SUFFICES ASSUME Inv, [Next]_vars PROVE Inv'
  OBVIOUS
<1>1. CASE ReadObject
  BY <1>1, ReadObjectKeeps
<1>2. CASE OpenLib
  BY <1>2, OpenLibKeeps
<1>3. CASE NumberModules
  BY <1>3, NumberModulesKeeps
<1>4. CASE NoMoreLibs
  BY <1>4, NoMoreLibsKeeps
<1>5. CASE SelectLibrary
  BY <1>5, SelectLibraryKeeps
<1>6. CASE ProcessModule
  BY <1>6, ProcessModuleKeeps
<1>7. CASE ScanExports
  BY <1>7, ScanExportsKeeps
<1>8. CASE ScanTurn
  BY <1>8, ScanTurnKeeps
<1>9. CASE ScanEnds
  BY <1>9, ScanEndsKeeps
<1>10. CASE UNCHANGED vars
  BY <1>10 DEF vars, Inv, Provided, Control, Recorded, Held, COMDEF_SEARCH, Sound, ListsRight, WantsRight, Grounded,
               RequestsRight
<1> QED
  BY <1>1, <1>2, <1>3, <1>4, <1>5, <1>6, <1>7, <1>8, <1>9, <1>10 DEF Next

(* The tables and the lists of symbols are sound at every step, of every   *)
(* program that has not as code what it has as a communal libraries are    *)
(* searched for: PUBDEF takes such a symbol off its list and then leaves   *)
(* its type (dopublic.asm, DP_5 and DP_COMM_UNREF).                        *)
THEOREM AlwaysSound ==
  ASSUME NoClash
  PROVE  Spec => []Inv
<1>1. Init => Inv
  BY StartsSound
<1> QED
  BY <1>1, StepKeeps, PTL DEF Spec

(* A list holds each symbol of its type once and no other, at every step   *)
(* of such a program.                                                      *)
THEOREM AlwaysTypeTellsList ==
  ASSUME NoClash
  PROVE  Spec => []TypeTellsList
<1> QED
  BY AlwaysSound, SoundTellsList, PTL

-----------------------------------------------------------------------------
(* What stands in for another is referenced, in use, and seen to.          *)
AliasesOf(p) == UNION {RangeOf(m.alias) : m \in Modules(p)}

(* A WKEXT or LZEXT record is about an external of its module, and the     *)
(* fixups refer to a lazy one other than softly or not at all.             *)
Refers(m) ==
  /\ \A d \in RangeOf(m.weak) \union RangeOf(m.lazy) : \E e \in RangeOf(Externs(m)) : e.sym = d[1]
  /\ \A d \in RangeOf(m.lazy) : \A e \in RangeOf(Externs(m)) : e.sym = d[1] => Real(m, e)

Referring(p) == \A m \in Modules(p) : Refers(m)

(* An ALIAS record of a library's module agrees with every other.          *)
AliasesAgree(p) ==
  \A m \in Library(p) : \A a \in RangeOf(m.alias) : \A b \in AliasesOf(p) : a[1] = b[1] => a = b

Replaced == {"WEAK_DEFINED", "LAZY_DEFINED", "ALIAS_DEFINED"}
Unused   == DOMAIN Unreferenced \union {"LIBRARY"}

SeenRight(t, s) ==
  /\ s \in t.refd => t.type[s] \notin Unused
  /\ t.type[s] \in Replaced => t.for[s] \in t.refd
  /\ t.type[s] \in AliasTypes => <<s, t.for[s]>> \in AliasesOf(prog)

(* With no symbol that may only become weak or lazy, and none of the types *)
(* A.                                                                      *)
Seen(t, A) == \A s \in Syms : SeenRight(t, s) /\ t.type[s] \notin Possibles \union A

(* Inside a module: what it said is weak or lazy may be so.                *)
MidwayAt(t, m, s) ==
  /\ t.type[s] = "POS_WEAK" => s \notin t.refd /\ \E d \in RangeOf(m.weak) : d[1] = s
  /\ t.type[s] = "POS_LAZY" => \E d \in RangeOf(m.lazy) : d[1] = s

Midway(t, m, A) ==
  /\ Sound(t, {})
  /\ \A s \in Syms : SeenRight(t, s) /\ MidwayAt(t, m, s) /\ t.type[s] \notin A

(* A module that can be read when no symbol has one of the types A.        *)
Fits(m, A) ==
  /\ m \in ModuleType /\ Refers(m) /\ RangeOf(m.alias) \subseteq AliasesOf(prog)
  /\ A = {"ALIAS_DEFINED"} \/ (A = {} /\ \A a \in RangeOf(m.alias) : \A b \in AliasesOf(prog) : a[1] = b[1] => a = b)

(* The kinds of types are apart.                                           *)
LEMMA KindsDiffer ==
  /\ Unused = {"WEAK_UNREF", "LAZY_UNREF", "ALIASED_UNREF", "NCOMM_UNREF", "UNDEFINED", "LIBRARY"}
  /\ \A x \in Unused : x \notin Replaced /\ x \notin Possibles /\ x # "ALIAS_DEFINED"
  /\ \A x \in Possibles : x \notin Unused /\ x \notin Replaced /\ x \notin AliasTypes
  /\ \A x \in {"WEAK_UNREF", "LAZY_UNREF", "NCOMM_UNREF", "UNDEFINED", "LIBRARY"} : x \notin AliasTypes
  /\ \A x \in {"RELOC", "EXTERNAL", "LIBRARY_LIST", "LAZY", "COMM_NEAR", "WEAK_EXTRN"} :
       x \notin Unused /\ x \notin Replaced /\ x \notin AliasTypes /\ x \notin Possibles
  /\ "ALIASED" \notin Unused \union Replaced \union Possibles
  /\ "ALIASED_UNREF" \notin Replaced \union Possibles
BY DEF Unused, Replaced, Possibles, AliasTypes, Unreferenced

(* One record of a module that changes symbol s only.                      *)
LEMMA MidwayStays ==
  ASSUME NEW m, NEW A, NEW t, Midway(t, m, A), NEW s \in Syms, NEW u, Sound(u, {}), Moves(t, u, s), u.refd = t.refd,
         SeenRight(u, s), MidwayAt(u, m, s), u.type[s] \notin A
  PROVE  Midway(u, m, A)
<1>1. ASSUME NEW x \in Syms, x # s
      PROVE  SeenRight(u, x) /\ MidwayAt(u, m, x) /\ u.type[x] \notin A
  <2>1. u.type[x] = t.type[x] /\ u.for[x] = t.for[x] /\ SeenRight(t, x) /\ MidwayAt(t, m, x) /\ t.type[x] \notin A
    BY <1>1 DEF Moves, Midway
  <2> QED
    BY <2>1 DEF SeenRight, MidwayAt
<1> QED
  BY <1>1 DEF Midway

(* Every record of a module keeps it as said inside one.                   *)
LEMMA RecordsMidway ==
  ASSUME NEW m, NEW A, Fits(m, A), NEW l, NEW n, NEW t, Midway(t, m, A)
  PROVE  /\ \A s \in Syms : \A inCode, wasData \in BOOLEAN :
              (inCode /\ wasData => t.type[s] \in Decided) => Midway(DoPublic(t, s, inCode, wasData), m, A)
         /\ \A s \in Syms : Midway(Comdef(t, s, l, n), m, A)
         /\ \A p \in RangeOf(m.weak) : Midway(Wkext(t, p), m, A)
         /\ \A p \in RangeOf(m.lazy) : Midway(Lzext(t, p), m, A)
         /\ \A p \in RangeOf(m.alias) : Midway(Alias(t, p), m, A)
<1>1. Sound(t, {}) /\ \A s \in Syms : SeenRight(t, s) /\ MidwayAt(t, m, s) /\ t.type[s] \notin A
  BY DEF Midway
<1>2. /\ RangeOf(m.weak) \subseteq Syms \X Syms /\ RangeOf(m.lazy) \subseteq Syms \X Syms
      /\ RangeOf(m.alias) \subseteq Syms \X Syms
  BY ModuleIs DEF RangeOf, Fits
<1>3. A \in {{}, {"ALIAS_DEFINED"}}
  BY DEF Fits
<1>4. ASSUME NEW s \in Syms, NEW inCode \in BOOLEAN, NEW wasData \in BOOLEAN, inCode /\ wasData => t.type[s] \in Decided
      PROVE  Midway(DoPublic(t, s, inCode, wasData), m, A)
  <2>1. PICK u : u = DoPublic(t, s, inCode, wasData)
    OBVIOUS
  <2>2. /\ Sound(u, {}) /\ Later(t, u) /\ Moves(t, u, s)
        /\ u.type[s] \in {"RELOC", t.type[s]} /\ u.refd = t.refd /\ u.for = t.for
    BY <1>1, <1>4, <2>1, DoPublicMoves
  <2>3. SeenRight(u, s) /\ MidwayAt(u, m, s) /\ u.type[s] \notin A
    BY <1>1, <1>3, <2>2, KindsDiffer DEF SeenRight, MidwayAt
  <2> QED
    BY <2>1, <2>2, <2>3, MidwayStays
<1>5. ASSUME NEW s \in Syms
      PROVE  Midway(Comdef(t, s, l, n), m, A)
  <2>1. PICK u : u = Comdef(t, s, l, n)
    OBVIOUS
  <2>2. /\ Sound(u, {}) /\ Later(t, u) /\ Moves(t, u, s) /\ u.refd = t.refd /\ u.for = t.for
        /\ \/ u.type[s] = t.type[s]
           \/ s \in t.refd /\ u.type[s] = "COMM_NEAR"
           \/ s \notin t.refd /\ u.type[s] = "NCOMM_UNREF"
    BY <1>1, <2>1, ComdefMoves
  <2>3. SeenRight(u, s) /\ MidwayAt(u, m, s) /\ u.type[s] \notin A
    BY <1>1, <1>3, <2>2, KindsDiffer DEF SeenRight, MidwayAt
  <2> QED
    BY <2>1, <2>2, <2>3, MidwayStays
<1>6. ASSUME NEW p \in RangeOf(m.weak)
      PROVE  Midway(Wkext(t, p), m, A)
  <2> DEFINE s == p[1]
  <2>1. PICK u : u = Wkext(t, p)
    OBVIOUS
  <2>2. s \in Syms /\ p \in Syms \X Syms
    BY <1>2
  <2>3. /\ Sound(u, {}) /\ Later(t, u) /\ Moves(t, u, p[1]) /\ u.refd = t.refd
        /\ \/ u.type[p[1]] = t.type[p[1]] /\ u.for[p[1]] = t.for[p[1]]
           \/ t.type[p[1]] \in {"UNDEFINED", "LIBRARY"} /\ u.type[p[1]] = "POS_WEAK" /\ u.for[p[1]] = p[2]
    BY <1>1, <2>1, <2>2, WkextMoves
  <2>4. CASE u.type[s] = t.type[s] /\ u.for[s] = t.for[s]
    <3>1. SeenRight(u, s) /\ MidwayAt(u, m, s) /\ u.type[s] \notin A
      BY <1>1, <2>2, <2>3, <2>4 DEF SeenRight, MidwayAt
    <3> QED
      BY <2>1, <2>2, <2>3, <3>1, MidwayStays
  <2>5. CASE t.type[s] \in {"UNDEFINED", "LIBRARY"} /\ u.type[s] = "POS_WEAK"
    <3>1. s \notin t.refd
      BY <1>1, <2>2, <2>5, KindsDiffer DEF SeenRight
    <3>2. SeenRight(u, s) /\ MidwayAt(u, m, s) /\ u.type[s] \notin A
      BY <1>3, <2>3, <2>5, <3>1, KindsDiffer DEF SeenRight, MidwayAt, Possibles
    <3> QED
      BY <2>1, <2>2, <2>3, <3>2, MidwayStays
  <2> QED
    BY <2>3, <2>4, <2>5
<1>7. ASSUME NEW p \in RangeOf(m.lazy)
      PROVE  Midway(Lzext(t, p), m, A)
  <2> DEFINE s == p[1]
  <2>1. PICK u : u = Lzext(t, p)
    OBVIOUS
  <2>2. s \in Syms /\ p \in Syms \X Syms
    BY <1>2
  <2>3. /\ Sound(u, {}) /\ Later(t, u) /\ Moves(t, u, p[1]) /\ u.refd = t.refd
        /\ \/ u.type[p[1]] = t.type[p[1]] /\ u.for[p[1]] = t.for[p[1]]
           \/ /\ t.type[p[1]] \in {"UNDEFINED", "WEAK_EXTRN", "WEAK_DEFINED", "WEAK_UNREF"}
              /\ u.type[p[1]] = "POS_LAZY" /\ u.for[p[1]] = p[2]
    BY <1>1, <2>1, <2>2, LzextMoves
  <2>4. CASE u.type[s] = t.type[s] /\ u.for[s] = t.for[s]
    <3>1. SeenRight(u, s) /\ MidwayAt(u, m, s) /\ u.type[s] \notin A
      BY <1>1, <2>2, <2>3, <2>4 DEF SeenRight, MidwayAt
    <3> QED
      BY <2>1, <2>2, <2>3, <3>1, MidwayStays
  <2>5. CASE u.type[s] = "POS_LAZY"
    <3>1. SeenRight(u, s) /\ MidwayAt(u, m, s) /\ u.type[s] \notin A
      BY <1>3, <2>3, <2>5, KindsDiffer DEF SeenRight, MidwayAt, Possibles
    <3> QED
      BY <2>1, <2>2, <2>3, <3>1, MidwayStays
  <2> QED
    BY <2>3, <2>4, <2>5
<1>8. ASSUME NEW p \in RangeOf(m.alias)
      PROVE  Midway(Alias(t, p), m, A)
  <2> DEFINE s == p[1]
  <2>1. PICK u : u = Alias(t, p)
    OBVIOUS
  <2>2. s \in Syms /\ p \in Syms \X Syms /\ p \in AliasesOf(prog) /\ p = <<s, p[2]>>
    BY <1>2 DEF Fits
  <2>3. /\ Sound(u, {}) /\ Later(t, u) /\ Moves(t, u, p[1]) /\ u.refd = t.refd
        /\ \/ u.type[p[1]] = t.type[p[1]] /\ u.for[p[1]] = t.for[p[1]]
           \/ t.type[p[1]] \in AliasTypes /\ u.type[p[1]] = t.type[p[1]] /\ u.for[p[1]] = p[2]
           \/ p[1] \in t.refd /\ u.type[p[1]] = "ALIASED" /\ u.for[p[1]] = p[2]
           \/ p[1] \notin t.refd /\ u.type[p[1]] = "ALIASED_UNREF" /\ u.for[p[1]] = p[2]
    BY <1>1, <2>1, <2>2, AliasMoves
  <2>4. CASE u.type[s] = t.type[s] /\ u.for[s] = t.for[s]
    <3>1. SeenRight(u, s) /\ MidwayAt(u, m, s) /\ u.type[s] \notin A
      BY <1>1, <2>2, <2>3, <2>4 DEF SeenRight, MidwayAt
    <3> QED
      BY <2>1, <2>2, <2>3, <3>1, MidwayStays
  <2>5. CASE t.type[s] \in AliasTypes /\ u.type[s] = t.type[s] /\ u.for[s] = p[2]
    <3>1. <<s, t.for[s]>> \in AliasesOf(prog) /\ t.type[s] \notin A
          /\ (s \in t.refd => t.type[s] \notin Unused) /\ (t.type[s] \in Replaced => t.for[s] \in t.refd)
      BY <1>1, <2>2, <2>5 DEF SeenRight
    <3>2. t.type[s] \in Replaced => u.for[s] = t.for[s]
      <4>1. SUFFICES ASSUME t.type[s] \in Replaced PROVE u.for[s] = t.for[s]
        OBVIOUS
      <4>2. A = {}
        BY <1>3, <2>5, <3>1, <4>1 DEF AliasTypes, Replaced
      <4>3. p = <<s, t.for[s]>>
        BY <2>2, <3>1, <4>2 DEF Fits
      <4> QED
        BY <2>2, <2>5, <4>3
    <3>3. SeenRight(u, s) /\ MidwayAt(u, m, s) /\ u.type[s] \notin A
      BY <2>2, <2>3, <2>5, <3>1, <3>2, KindsDiffer DEF SeenRight, MidwayAt, Possibles
    <3> QED
      BY <2>1, <2>2, <2>3, <3>3, MidwayStays
  <2>6. CASE /\ u.for[s] = p[2]
             /\ \/ s \in t.refd /\ u.type[s] = "ALIASED"
                \/ s \notin t.refd /\ u.type[s] = "ALIASED_UNREF"
    <3>1. SeenRight(u, s) /\ MidwayAt(u, m, s) /\ u.type[s] \notin A
      BY <1>3, <2>2, <2>3, <2>6, KindsDiffer DEF SeenRight, MidwayAt, Possibles
    <3> QED
      BY <2>1, <2>2, <2>3, <3>1, MidwayStays
  <2> QED
    BY <2>3, <2>4, <2>5, <2>6
<1> QED
  BY <1>4, <1>5, <1>6, <1>7, <1>8

(* At its end: the externals still to come are all that may become weak.   *)
LEMMA AtEndSeen ==
  ASSUME NEW m, NEW A, Fits(m, A), NEW r, NEW t, Midway(t, m, A)
  PROVE  Sound(AtEnd(t, m, r), {}) /\ Seen(AtEnd(t, m, r), A)
<1> DEFINE q == Externs(m)
           n == Len(q)
           Left(i) == {q[j].sym : j \in i + 1 .. n}
           P == [i \in 0 .. n |-> {u \in TabSet : /\ Midway(u, m, A)
                                                  /\ \A s \in Syms : u.type[s] \in Possibles => s \in Left(i)}]
<1>1. /\ q \in Seq(ExternType) /\ n \in Nat /\ DOMAIN q = 1 .. n /\ n \in 0 .. n /\ 0 \in 0 .. n
      /\ \A i \in 1 .. n : q[i] \in ExternType /\ i - 1 \in 0 .. n /\ i \in 0 .. n
  <2>1. q \in Seq(ExternType)
    BY ModuleIs DEF Fits
  <2> HIDE DEF q
  <2> QED
    BY <2>1
<1>2. /\ \A d \in RangeOf(m.weak) \union RangeOf(m.lazy) : \E e \in RangeOf(q) : e.sym = d[1]
      /\ \A d \in RangeOf(m.lazy) : \A e \in RangeOf(q) : e.sym = d[1] => Real(m, e)
  BY DEF Fits, Refers
<1> HIDE DEF q
<1>3. t \in P[0]
  <2>1. ASSUME NEW s \in Syms, t.type[s] \in Possibles
        PROVE  s \in Left(0)
    <3>1. MidwayAt(t, m, s)
      BY DEF Midway
    <3>2. \E d \in RangeOf(m.weak) \union RangeOf(m.lazy) : d[1] = s
      BY <2>1, <3>1 DEF MidwayAt, Possibles
    <3>3. PICK e \in RangeOf(q) : e.sym = s
      BY <1>2, <3>2
    <3>4. PICK i \in 1 .. n : q[i] = e
      BY <1>1 DEF RangeOf
    <3> QED
      BY <1>1, <3>3, <3>4
  <2>2. t \in TabSet
    BY TypeOf DEF Midway
  <2> HIDE DEF Left
  <2> QED
    BY <1>1, <2>1, <2>2
<1>4. ASSUME NEW i \in 1 .. n, NEW u \in P[i - 1]
      PROVE  ProcessExtrn(u, q[i].sym, Real(m, q[i]), q[i].sym \in r) \in P[i]
  <2> DEFINE s == q[i].sym
             real == Real(m, q[i])
             again == q[i].sym \in r
  <2>1. s \in Syms /\ real \in BOOLEAN /\ again \in BOOLEAN
    BY <1>1 DEF ExternType, Real
  <2>2. PICK w : w = ProcessExtrn(u, s, real, again)
    OBVIOUS
  <2>3. Midway(u, m, A) /\ \A x \in Syms : u.type[x] \in Possibles => x \in Left(i - 1)
    <3> HIDE DEF Left
    <3> QED
      BY <1>1
  <2>4. q[i] \in RangeOf(q)
    BY <1>1 DEF RangeOf
  <2>5. \A d \in RangeOf(m.lazy) : d[1] = s => real
    BY <1>2, <2>4
  <2> HIDE DEF s, real, again, Left
  <2>6. Sound(w, {}) /\ Later(u, w) /\ Moves(u, w, s) /\ w.for = u.for /\ ExternEnds(u, w, s, real)
    BY <2>1, <2>2, <2>3, ProcessExtrnMoves DEF Midway
  <2>7. SeenRight(u, s) /\ MidwayAt(u, m, s) /\ u.type[s] \notin A
    BY <2>1, <2>3 DEF Midway
  <2>8. A \in {{}, {"ALIAS_DEFINED"}}
    BY DEF Fits
  <2>9. /\ w.refd \in {u.refd, u.refd \union {s}}
        /\ SeenRight(w, s) /\ MidwayAt(w, m, s) /\ w.type[s] \notin A \union Possibles
    <3>1. CASE w.refd = u.refd /\ w.type[s] = u.type[s] /\ u.type[s] \notin Possibles
      BY <2>6, <2>7, <3>1 DEF SeenRight, MidwayAt
    <3>2. CASE w.refd = u.refd /\ u.type[s] = "POS_WEAK" /\ w.type[s] = "WEAK_UNREF"
      BY <2>6, <2>7, <2>8, <3>2, KindsDiffer DEF SeenRight, MidwayAt
    <3>3. CASE ~real /\ u.type[s] = "POS_LAZY"
      BY <2>5, <2>7, <3>3 DEF MidwayAt
    <3>4. CASE /\ w.refd = u.refd \union {s}
               /\ w.type[s] \in {"EXTERNAL", "LIBRARY_LIST", "LAZY", "COMM_NEAR", "WEAK_EXTRN"}
      BY <2>6, <2>7, <2>8, <3>4, KindsDiffer DEF SeenRight, MidwayAt
    <3>5. CASE w.refd = u.refd \union {s} /\ w.type[s] = "ALIASED" /\ u.type[s] = "ALIASED_UNREF"
      <4>1. <<s, w.for[s]>> \in AliasesOf(prog)
        BY <2>6, <2>7, <3>5 DEF SeenRight, AliasTypes
      <4> QED
        BY <2>8, <3>5, <4>1, KindsDiffer DEF SeenRight, MidwayAt
    <3>6. CASE /\ w.refd = u.refd \union {s} /\ w.type[s] = u.type[s]
               /\ u.type[s] \in {"RELOC", "COMM_NEAR", "ALIASED", "ALIAS_DEFINED",
                                 "WEAK_EXTRN", "WEAK_DEFINED", "LAZY", "LAZY_DEFINED"}
      <4>1. u.type[s] \notin Unused \union Possibles
        BY <3>6 DEF Unused, Unreferenced, Possibles
      <4> QED
        BY <2>6, <2>7, <3>6, <4>1 DEF SeenRight, MidwayAt, Possibles
    <3> QED
      BY <2>6, <3>1, <3>2, <3>3, <3>4, <3>5, <3>6 DEF ExternEnds
  <2>10. ASSUME NEW x \in Syms, x # s
         PROVE  SeenRight(w, x) /\ MidwayAt(w, m, x) /\ w.type[x] = u.type[x] /\ w.type[x] \notin A
    <3>1. w.type[x] = u.type[x] /\ w.for[x] = u.for[x] /\ SeenRight(u, x) /\ MidwayAt(u, m, x) /\ u.type[x] \notin A
      BY <2>3, <2>6, <2>10 DEF Moves, Midway
    <3>2. (x \in w.refd <=> x \in u.refd) /\ u.refd \subseteq w.refd
      BY <2>9, <2>10
    <3> QED
      BY <3>1, <3>2 DEF SeenRight, MidwayAt
  <2>11. Midway(w, m, A)
    BY <2>6, <2>9, <2>10 DEF Midway
  <2>12. ASSUME NEW x \in Syms, w.type[x] \in Possibles
         PROVE  x \in Left(i)
    <3>1. x # s /\ x \in Left(i - 1)
      BY <2>3, <2>9, <2>10, <2>12
    <3>2. PICK j \in i .. n : x = q[j].sym
      BY <1>1, <3>1 DEF Left
    <3>3. j \in i + 1 .. n
      BY <1>1, <3>1, <3>2 DEF s
    <3> QED
      BY <3>2, <3>3 DEF Left
  <2>13. w \in TabSet
    BY <2>6, TypeOf
  <2> QED
    BY <1>1, <2>2, <2>11, <2>12, <2>13 DEF s, real, again
<1>5. InExternals(t, q, m, r) \in P[n]
  <2> HIDE DEF P, n
  <2> QED
    BY <1>1, <1>3, <1>4, ExternalsInTurn DEF n
<1>6. PICK u : u = AtEnd(t, m, r)
  OBVIOUS
<1>7. Midway(u, m, A) /\ \A s \in Syms : u.type[s] \in Possibles => s \in Left(n)
  <2>1. u \in P[n]
    BY <1>5, <1>6 DEF AtEnd, q
  <2> HIDE DEF Left
  <2> QED
    BY <1>1, <2>1
<1>8. Left(n) = {}
  BY <1>1
<1> QED
  BY <1>6, <1>7, <1>8 DEF Midway, Seen

(* A module that is read leaves all seen to.                               *)
LEMMA ReadModuleSeen ==
  ASSUME NEW m, NEW A, Fits(m, A), NEW d, NEW l, NEW n, NEW t, Sound(t, {}), Seen(t, A),
         Held(t, m.code \intersect d)
  PROVE  Seen(ReadModule(t, d, m, l, n), A)
<1> DEFINE Q == {u \in TabSet : Midway(u, m, A)}
           P == {u \in Q : Held(u, m.code \intersect d)}
           R == {u \in TabSet : Sound(u, {}) /\ Seen(u, A)}
<1>1. m \in ModuleType /\ RangeOf(m.defs) \subseteq Syms /\ RangeOf(m.comm) \subseteq Syms
  BY ModuleIs DEF RangeOf, Fits
<1>2. \A u : Midway(u, m, A) => u \in Q
  BY TypeOf DEF Midway
<1>3. t \in P
  <2>1. Midway(t, m, A)
    BY DEF Midway, MidwayAt, Seen, Possibles
  <2> QED
    BY <1>2, <2>1
<1>4. \A u \in Q : Midway(u, m, A) /\ Sound(u, {})
  BY DEF Midway
<1>5. ASSUME NEW u \in Q, NEW r
      PROVE  AtEnd(u, m, r) \in R
  <2>1. PICK w : w = AtEnd(u, m, r)
    OBVIOUS
  <2>2. Sound(w, {}) /\ Seen(w, A)
    BY <1>4, <2>1, AtEndSeen
  <2> QED
    BY <2>1, <2>2, TypeOf
<1> HIDE DEF Q
<1>6. ASSUME NEW u \in Q
      PROVE  /\ \A s \in RangeOf(m.comm) : Comdef(u, s, l, n) \in Q
             /\ \A p \in RangeOf(m.weak) : Wkext(u, p) \in Q
             /\ \A p \in RangeOf(m.lazy) : Lzext(u, p) \in Q
             /\ \A p \in RangeOf(m.alias) : Alias(u, p) \in Q
  <2>1. Midway(u, m, A)
    BY <1>4
  <2>2. /\ \A s \in Syms : Midway(Comdef(u, s, l, n), m, A)
        /\ \A p \in RangeOf(m.weak) : Midway(Wkext(u, p), m, A)
        /\ \A p \in RangeOf(m.lazy) : Midway(Lzext(u, p), m, A)
        /\ \A p \in RangeOf(m.alias) : Midway(Alias(u, p), m, A)
    BY <2>1, RecordsMidway
  <2> QED
    BY <1>1, <1>2, <2>2
<1>7. ASSUME NEW u \in P
      PROVE  /\ \A s \in RangeOf(m.defs) : DoPublic(u, s, s \in m.code, s \in d) \in P
             /\ InComdefs(u, m.comm, l, n) \in Q
  <2>1. u \in Q /\ Midway(u, m, A) /\ Sound(u, {}) /\ Held(u, m.code \intersect d)
    BY <1>4
  <2>2. ASSUME NEW s \in RangeOf(m.defs)
        PROVE  DoPublic(u, s, s \in m.code, s \in d) \in P
    <3>1. PICK w : w = DoPublic(u, s, s \in m.code, s \in d)
      OBVIOUS
    <3>2. /\ (s \in m.code) \in BOOLEAN /\ (s \in d) \in BOOLEAN
          /\ s \in m.code /\ s \in d => u.type[s] \in Decided
      BY <2>1 DEF Held
    <3>3. Held(w, m.code \intersect d)
      <4>1. s \in Syms
        BY <1>1
      <4>2. Holds(u, w)
        BY <2>1, <3>1, <3>2, <4>1, DoPublicMoves
      <4> QED
        BY <1>1, <2>1, <4>2, StaysHeld
    <3>4. Midway(w, m, A)
      BY <1>1, <2>1, <3>1, <3>2, RecordsMidway
    <3> QED
      BY <1>2, <3>1, <3>3, <3>4
  <2>3. m.comm \in Seq(RangeOf(m.comm))
    BY <1>1, ModuleIs, OwnRange
  <2>4. InComdefs(u, m.comm, l, n) \in Q
    BY <1>6, <2>1, <2>3, Comdefs
  <2> QED
    BY <2>2, <2>4
<1>8. ReadModule(t, d, m, l, n) \in R
  <2> HIDE DEF P, R
  <2> QED
    BY <1>1, <1>3, <1>5, <1>6, <1>7, ReadModuleStays
<1> QED
  BY <1>8

(* A library is opened, and its modules are numbered.                      *)
LEMMA DefineSeen ==
  ASSUME NEW t, Sound(t, {}), Seen(t, {}), NEW l \in Libs, prog \in Programs
  PROVE  Seen(DefineLibSymbols(t, l), {})
<1> DEFINE Q == {u \in TabSet : Sound(u, {}) /\ Seen(u, {})}
<1>1. Laid(t, l) \in Q
  <2>1. PICK u : u = Laid(t, l)
    OBVIOUS
  <2>2. /\ Sound(u, {}) /\ u.type = t.type /\ u.refd = t.refd /\ u.lib = t.lib /\ u.for = t.for
        /\ u.number = t.number /\ u.list = t.list /\ u.wanted = t.wanted
        /\ u.marked = t.marked /\ u.selected = t.selected /\ u.requests = t.requests /\ u.undeco = t.undeco
        /\ u.ptrs = [t.ptrs EXCEPT ![l] = DoModulePtrs(prog.lib[l], ModulesOf(l))]
    BY <2>1, LaidIs
  <2>3. Seen(u, {})
    BY <2>2 DEF Seen, SeenRight
  <2> QED
    BY <2>1, <2>2, <2>3, TypeOf
<1>2. ASSUME NEW u \in Q, NEW e \in Says(l)
      PROVE  LibSymbol(u, e[1], l, e[2]) \in Q
  <2> DEFINE s == e[1]
  <2>1. s \in Syms /\ e[2] \in Int /\ Sound(u, {}) /\ Seen(u, {})
    BY DEF Says
  <2>2. PICK w : w = LibSymbol(u, e[1], l, e[2])
    OBVIOUS
  <2>3. /\ Sound(w, {}) /\ w.refd = u.refd /\ w.for = u.for /\ Calm(u, w)
        /\ Others(u, w, s) /\ EntryLeads(u, w, s, l, e[2])
    BY <2>1, <2>2, LibSymbolMoves
  <2>4. \A x \in Syms : x # s => SeenRight(w, x) /\ w.type[x] \notin Possibles
    BY <2>1, <2>3 DEF Others, Seen, SeenRight
  <2>5. SeenRight(w, s) /\ w.type[s] \notin Possibles
    <3>1. SeenRight(u, s) /\ u.type[s] \notin Possibles
      BY <2>1 DEF Seen
    <3>2. CASE w.type[s] = u.type[s]
      BY <2>3, <3>1, <3>2 DEF SeenRight
    <3>3. CASE u.type[s] \in {"UNDEFINED", "LAZY_UNREF", "NCOMM_UNREF"} /\ w.type[s] = "LIBRARY"
      <4>1. s \notin u.refd
        BY <3>1, <3>3, KindsDiffer DEF SeenRight
      <4> QED
        BY <2>3, <3>3, <4>1, KindsDiffer DEF SeenRight
    <3>4. CASE w.type[s] = "EXTERNAL"
      BY <3>4, KindsDiffer DEF SeenRight
    <3> QED
      BY <2>3, <3>2, <3>3, <3>4 DEF EntryLeads
  <2>6. Seen(w, {})
    BY <2>4, <2>5 DEF Seen
  <2> QED
    BY <2>2, <2>3, <2>6, TypeOf
<1>3. DefineLibSymbols(t, l) \in Q
  <2> HIDE DEF Q
  <2> QED
    BY <1>1, <1>2, DefineStays
<1> QED
  BY <1>3

(* So is its numbering.                                                    *)
LEMMA UpdateSeen ==
  ASSUME NEW t, Sound(t, {}), Seen(t, {}), NEW l \in Libs, prog \in Programs
  PROVE  Seen(UpdateLibSymbols(t, l), {})
<1>1. PICK u : u = UpdateLibSymbols(t, l)
  OBVIOUS
<1>2. /\ Sound(u, {}) /\ Later(Numbered(t, l), u) /\ u.refd = t.refd /\ u.for = t.for
      /\ \A x \in Syms : u.type[x] = IF t.type[x] = "EXTERNAL" /\ t.lib[x] = l
                                     THEN "LIBRARY_LIST" ELSE t.type[x]
  BY <1>1, UpdateMoves
<1>3. \A x \in Syms : SeenRight(u, x) /\ u.type[x] \notin Possibles
  BY <1>2, KindsDiffer DEF Seen, SeenRight
<1> QED
  BY <1>1, <1>3 DEF Seen

(* A stand-in is referenced; it is not new in the types A unless it was of *)
(* a type that comes before one.                                           *)
LEMMA FixDefaultSeen ==
  ASSUME NEW A, NEW t, Sound(t, {}), Seen(t, A), NEW d \in Syms,
         t.type[d] \in DOMAIN Unreferenced => Unreferenced[t.type[d]] \notin A,
         "LIBRARY_LIST" \notin A
  PROVE  Sound(FixDefault(t, d), {}) /\ Seen(FixDefault(t, d), A)
<1>1. PICK u : u = FixDefault(t, d)
  OBVIOUS
<1>2. /\ Sound(u, {}) /\ Later(t, u) /\ Moves(t, u, d) /\ u.for = t.for
      /\ u.refd = t.refd \union {d} /\ FallsBack(t, u, d)
  BY <1>1, FixDefaultMoves
<1>3. \A x \in Syms : x # d => SeenRight(u, x) /\ u.type[x] \notin Possibles \union A
  BY <1>2 DEF Moves, Seen, SeenRight
<1>4. SeenRight(t, d) /\ t.type[d] \notin Possibles \union A
  BY DEF Seen
<1>5. SeenRight(u, d) /\ u.type[d] \notin Possibles \union A
  <2>1. CASE u.type[d] = t.type[d] /\ t.type[d] \notin DOMAIN Unreferenced \union {"LIBRARY"}
    BY <1>2, <1>4, <2>1 DEF SeenRight, Unused
  <2>2. CASE u.type[d] = "LIBRARY_LIST"
    BY <1>4, <2>2, KindsDiffer DEF SeenRight
  <2>3. CASE t.type[d] \in DOMAIN Unreferenced /\ u.type[d] = Unreferenced[t.type[d]]
    <3>1. /\ u.type[d] \in {"WEAK_EXTRN", "LAZY", "ALIASED", "COMM_NEAR", "EXTERNAL"}
          /\ u.type[d] = "ALIASED" => t.type[d] = "ALIASED_UNREF"
          /\ u.type[d] \notin A
      BY <2>3 DEF Unreferenced
    <3>2. u.type[d] \notin Unused \union Possibles \union Replaced
      BY <3>1, KindsDiffer
    <3>3. u.type[d] \in AliasTypes => <<d, u.for[d]>> \in AliasesOf(prog)
      BY <1>2, <1>4, <3>1, KindsDiffer DEF SeenRight, AliasTypes
    <3> QED
      BY <3>1, <3>2, <3>3 DEF SeenRight
  <2> QED
    BY <1>2, <2>1, <2>2, <2>3 DEF FallsBack
<1> QED
  BY <1>1, <1>2, <1>3, <1>5 DEF Seen

(* All exports have been referenced.                                       *)
LEMMA ScanUndecoSeen ==
  ASSUME NEW t, Sound(t, {}), Seen(t, {})
  PROVE  Seen(ScanUndeco(t).t, {})
<1> DEFINE Q == {u \in TabSet : Sound(u, {}) /\ Seen(u, {})}
<1>1. t \in Q /\ t.undeco \in Seq(ExportType)
  BY TypeOf DEF TabSet
<1>2. ASSUME NEW u \in Q, NEW s \in Syms
      PROVE  FixDefault(u, s) \in Q
  <2>1. PICK w : w = FixDefault(u, s)
    OBVIOUS
  <2>2. Sound(w, {}) /\ Seen(w, {})
    BY <2>1, FixDefaultSeen
  <2> QED
    BY <2>1, <2>2, TypeOf
<1>3. PICK u : u = ScanUndeco(t).t
  OBVIOUS
<1>4. PICK v \in Q, left \in Seq(ExportType) : u = [v EXCEPT !.undeco = left]
  <2> HIDE DEF Q
  <2> QED
    BY <1>1, <1>2, <1>3, ExportsStay
<1>5. u.type = v.type /\ u.refd = v.refd /\ u.for = v.for
  BY <1>4 DEF TabSet
<1> QED
  BY <1>3, <1>5 DEF Seen, SeenRight

(* A turn of a scan, unless it stops the scan, brings back nothing that    *)
(* the scans before have seen to.                                          *)
Gone(p) ==
  CASE p = "objs"       -> {"ALIAS_DEFINED"}
    [] p = "WEAK_EXTRN" -> {"ALIASED"}
    [] p = "LAZY"       -> {"ALIASED", "WEAK_EXTRN"}
    [] p = "done"       -> {"ALIASED", "WEAK_EXTRN", "LAZY"}
    [] OTHER            -> {}

(* What a turn sees to, it leaves seen to.                                 *)
LEMMA TurnSeen ==
  ASSUME NEW t, Sound(t, {}), NEW l \in DOMAIN Defined, t.list[l] # <<>>, NEW A, Seen(t, A),
         A = {} \/ (A = Gone(l) /\ ~Stops(t, l))
  PROVE  Seen(Turn(t, l, Defined[l]), A)
<1> DEFINE s == Head(t.list[l])
           d == t.for[s]
           v == FixDefault(t, d)
<1>1. PICK u : u = Turn(t, l, Defined[l])
  OBVIOUS
<1>2. SeenTo(t, u, v, s, l)
  BY <1>1, TurnMoves
<1>3. d \in Syms /\ s \in Syms /\ t.type[s] = l
  BY <1>2 DEF SeenTo
<1>4. l \in {"ALIASED", "WEAK_EXTRN", "LAZY"}
  BY DefinedAre
<1>5. Gone(l) = CASE l = "ALIASED" -> {} [] l = "WEAK_EXTRN" -> {"ALIASED"} [] l = "LAZY" -> {"ALIASED", "WEAK_EXTRN"}
  BY <1>4 DEF Gone
<1>6. "LIBRARY_LIST" \notin A /\ Defined[l] \notin A
  BY <1>4, <1>5 DEF Defined
<1>7. t.type[d] \in DOMAIN Unreferenced => Unreferenced[t.type[d]] \notin A
  <2>1. CASE A = {}
    BY <2>1
  <2>2. CASE A = Gone(l) /\ ~Stops(t, l)
    <3>1. /\ l = "WEAK_EXTRN" => t.type[d] # "ALIASED_UNREF"
          /\ l = "LAZY" => t.type[d] # "ALIASED_UNREF" /\ t.type[d] # "WEAK_UNREF"
      BY <2>2 DEF Stops
    <3>2. \A ty \in DOMAIN Unreferenced : /\ Unreferenced[ty] = "ALIASED" => ty = "ALIASED_UNREF"
                                          /\ Unreferenced[ty] = "WEAK_EXTRN" => ty = "WEAK_UNREF"
      BY DEF Unreferenced
    <3> QED
      BY <1>4, <1>5, <2>2, <3>1, <3>2
  <2> QED
    BY <2>1, <2>2
<1>8. Sound(v, {}) /\ Seen(v, A)
  BY <1>3, <1>6, <1>7, FixDefaultSeen
<1> HIDE DEF s, d, v
<1>9. /\ v.type \in [Syms -> Types] /\ u.type = [v.type EXCEPT ![s] = Defined[l]]
      /\ u.refd = v.refd /\ u.for = v.for /\ d \in v.refd /\ v.for[s] = d
  BY <1>2, <1>8, TypeOf DEF SeenTo, d
<1>10. v.type[s] = l
  <2>1. CASE s = d
    BY <1>2, <1>3, <2>1, DefinedAre DEF FallsBack, SeenTo, d
  <2>2. CASE s # d
    BY <1>2, <1>3, <2>2 DEF Moves, SeenTo, d
  <2> QED
    BY <2>1, <2>2
<1>11. \A x \in Syms : x # s => SeenRight(u, x) /\ u.type[x] \notin Possibles \union A
  BY <1>8, <1>9 DEF Seen, SeenRight
<1>12. SeenRight(u, s) /\ u.type[s] \notin Possibles \union A
  <2>1. u.type[s] = Defined[l]
    BY <1>3, <1>9
  <2>2. Defined[l] \notin Unused \union Possibles /\ (Defined[l] \in AliasTypes => l \in AliasTypes)
    BY <1>4, KindsDiffer DEF Defined, Possibles, AliasTypes
  <2>3. SeenRight(v, s)
    BY <1>3, <1>8 DEF Seen
  <2> QED
    BY <1>6, <1>9, <1>10, <2>1, <2>2, <2>3 DEF SeenRight
<1> QED
  BY <1>1, <1>11, <1>12 DEF Seen

(* The invariant, for programs whose modules are as said above.            *)
StandInv == Inv /\ Seen(tab, Gone(pc))

WellSaid == \A p \in Programs : Referring(p) /\ AliasesAgree(p)

(* Object files and library modules can be read.                           *)
LEMMA ObjectFits ==
  ASSUME WellSaid, prog \in Programs, NEW m \in ModuleType, m \in RangeOf(prog.objs)
  PROVE  Fits(m, {"ALIAS_DEFINED"})
<1>1. m \in Modules(prog)
  BY DEF Modules
<1>2. Refers(m)
  BY <1>1 DEF WellSaid, Referring
<1>3. RangeOf(m.alias) \subseteq AliasesOf(prog)
  BY <1>1 DEF AliasesOf
<1> QED
  BY <1>2, <1>3 DEF Fits

(* So can the module a library is read for.                                *)
LEMMA ChosenFits ==
  ASSUME WellSaid, prog \in Programs, NEW l \in Libs, NEW p
  PROVE  Fits(ModuleAt(l, p), {})
<1>1. PICK m : m = ModuleAt(l, p)
  OBVIOUS
<1>2. m \in ModuleType
  BY <1>1, ModuleThere
<1>3. CASE p \in RangeOf(prog.lib[l].page)
  <2>1. m = prog.module[l][p]
    BY <1>1, <1>3 DEF ModuleAt
  <2>2. m \in Library(prog)
    BY <1>3, <2>1 DEF Library
  <2>3. m \in Modules(prog)
    BY <2>2 DEF Modules
  <2>4. Refers(m) /\ AliasesAgree(prog)
    BY <2>3 DEF WellSaid, Referring
  <2>5. RangeOf(m.alias) \subseteq AliasesOf(prog)
    BY <2>3 DEF AliasesOf
  <2>6. \A a \in RangeOf(m.alias) : \A b \in AliasesOf(prog) : a[1] = b[1] => a = b
    BY <2>2, <2>4 DEF AliasesAgree
  <2> QED
    BY <1>1, <1>2, <2>4, <2>5, <2>6 DEF Fits
<1>4. CASE p \notin RangeOf(prog.lib[l].page)
  <2>1. m = Nothing
    BY <1>1, <1>4 DEF ModuleAt
  <2>2. RangeOf(m.weak) = {} /\ RangeOf(m.lazy) = {} /\ RangeOf(m.alias) = {}
    BY <2>1 DEF Nothing, RangeOf
  <2> QED
    BY <1>1, <1>2, <2>2 DEF Fits, Refers
<1> QED
  BY <1>3, <1>4

(* At first nothing is referenced.                                         *)
LEMMA StandInsStart ==
  ASSUME NoClash, Init
  PROVE  StandInv
<1>1. Inv
  BY StartsSound
<1>2. pc = "objs" /\ objs = prog.objs
  BY DEF Init
<1>3. tab.refd = {} /\ tab.type = [s \in Syms |-> "UNDEFINED"]
  BY DEF Init, InitTab
<1>4. Gone(pc) = {"ALIAS_DEFINED"}
  BY <1>2 DEF Gone
<1>5. \A s \in Syms : SeenRight(tab, s) /\ tab.type[s] \notin Possibles \union Gone(pc)
  BY <1>3, <1>4, KindsDiffer DEF SeenRight
<1> QED
  BY <1>1, <1>2, <1>5 DEF StandInv, Seen

(* What is gone at each place.                                             *)
LEMMA GoneAre ==
  /\ Gone("objs") = {"ALIAS_DEFINED"} /\ Gone("next") = {} /\ Gone("number") = {} /\ Gone("one") = {}
  /\ Gone("all") = {} /\ Gone("undeco") = {} /\ Gone("ALIASED") = {} /\ Gone("WEAK_EXTRN") = {"ALIASED"}
  /\ Gone("LAZY") = {"ALIASED", "WEAK_EXTRN"} /\ Gone("done") = {"ALIASED", "WEAK_EXTRN", "LAZY"}
BY DEF Gone

(* More types may be there.                                                *)
LEMMA LessSeen ==
  ASSUME NEW t, NEW A, Seen(t, A)
  PROVE  Seen(t, {})
BY DEF Seen

(* Every step keeps it.                                                    *)
LEMMA StandInsStep ==
  ASSUME WellSaid, StandInv, [Next]_vars
  PROVE  StandInv'
<1>1. Inv' /\ Inv /\ Sound(tab, {}) /\ prog \in Programs /\ prog' = prog
  <2>1. prog' = prog
    BY DEF Next, vars, ReadObject, OpenLib, NumberModules, NoMoreLibs, SelectLibrary, ProcessModule,
           ScanExports, ScanTurn, ScanEnds
  <2> QED
    BY <2>1, StepKeeps DEF StandInv, Inv, Provided
<1>2. Seen(tab, Gone(pc)) /\ Seen(tab, {}) /\ RangeOf(objs) \subseteq RangeOf(prog.objs)
  BY LessSeen DEF StandInv, Inv, Recorded
<1>3. SUFFICES Seen(tab', Gone(pc'))
  <2>1. Seen(tab', Gone(pc')) <=> Seen(tab, Gone(pc))'
    BY <1>1 DEF Seen, SeenRight, Gone, AliasesOf, Modules, Library
  <2> QED
    BY <1>1, <1>3, <2>1 DEF StandInv
<1>4. CASE ReadObject
  <2> DEFINE m == Head(objs)
  <2>1. /\ pc = "objs" /\ pc' \in {"next", "objs"} /\ tab' = ReadModule(tab, data, m, None, 0)
        /\ m \in ModuleType /\ m \in RangeOf(objs)
    <3>1. objs \in Seq(ModuleType) /\ objs # <<>>
      BY <1>1, <1>4 DEF Inv, Provided, Control, ReadObject
    <3>2. \A W : \A q \in Seq(W) : q # <<>> => Head(q) \in W /\ 1 \in DOMAIN q /\ Head(q) = q[1]
      OBVIOUS
    <3> QED
      BY <1>4, <3>1, <3>2 DEF ReadObject, RangeOf
  <2> HIDE DEF m
  <2>2. Fits(m, {"ALIAS_DEFINED"})
    BY <1>1, <1>2, <2>1, ObjectFits
  <2>3. Seen(tab', {"ALIAS_DEFINED"})
    <3>1. PICK A : A = {"ALIAS_DEFINED"}
      OBVIOUS
    <3>2. Fits(m, A) /\ Seen(tab, A) /\ Held(tab, m.code \intersect data)
      <4>1. m \in Modules(prog)
        BY <1>2, <2>1 DEF Modules
      <4> QED
        BY <1>1, <1>2, <2>1, <2>2, <3>1, <4>1, GoneAre, HeldNow
    <3>3. Seen(ReadModule(tab, data, m, None, 0), A)
      BY <1>1, <3>2, ReadModuleSeen
    <3> QED
      BY <2>1, <3>1, <3>3
  <2> QED
    BY <2>1, <2>3, LessSeen, GoneAre
<1>5. CASE OpenLib
  <2>1. pc' = "number" /\ tab' = DefineLibSymbols(tab, Head(toOpen)) /\ Head(toOpen) \in Libs
    BY <1>1, <1>5 DEF OpenLib, Inv, Provided
  <2>2. Seen(DefineLibSymbols(tab, Head(toOpen)), {})
    BY <1>1, <1>2, <2>1, DefineSeen
  <2> QED
    BY <2>1, <2>2, GoneAre
<1>6. CASE NumberModules
  <2>1. pc' \in {"one", "next"} /\ tab' = UpdateLibSymbols(tab, Last(opened)) /\ Last(opened) \in Libs
    BY <1>1, <1>6, LastOpened DEF NumberModules
  <2>2. Seen(UpdateLibSymbols(tab, Last(opened)), {})
    BY <1>1, <1>2, <2>1, UpdateSeen
  <2> QED
    BY <2>1, <2>2, GoneAre
<1>7. CASE NoMoreLibs
  <2>1. pc' \in {"undeco", "all"} /\ tab' = tab
    BY <1>7 DEF NoMoreLibs
  <2> QED
    BY <1>2, <2>1, GoneAre
<1>8. CASE SelectLibrary
  <2>1. pc' \in {"one", "all"} /\ tab' = tab
    BY <1>8 DEF SelectLibrary
  <2> QED
    BY <1>2, <2>1, GoneAre
<1>9. CASE ProcessModule
  <2>1. /\ cur # None /\ tab' = CountedOff(After, cur) /\ pc' \in {"next", pc}
    BY <1>9, ProcessIs
  <2>2. pc \in {"one", "all"} /\ Sound(After, {}) /\ cur \in Libs /\ cur \in RangeOf(After.requests)
    BY <1>1, <2>1, AfterMoves DEF Inv, Control
  <2>3. Seen(After, {})
    <3>1. CASE tab.wanted[cur] = <<>>
      BY <1>2, <3>1 DEF After
    <3>2. CASE tab.wanted[cur] # <<>>
      <4>1. PICK m : m = Chosen
        OBVIOUS
      <4>2. Fits(m, {}) /\ Held(tab, m.code \intersect data)
        BY <1>1, <2>1, <2>2, <4>1, ChosenFits, AfterMoves, HeldNow DEF Chosen
      <4>3. \A n : Seen(ReadModule(tab, data, m, cur, n), {})
        BY <1>1, <1>2, <4>2, ReadModuleSeen
      <4> QED
        BY <3>2, <4>1, <4>3 DEF After
    <3> QED
      BY <3>1, <3>2
  <2>4. PICK a : a = After
    OBVIOUS
  <2>5. PICK u : u = CountedOff(a, cur)
    OBVIOUS
  <2>6. /\ Sound(u, {}) /\ u.type = a.type /\ u.refd = a.refd /\ u.lib = a.lib /\ u.for = a.for
        /\ u.number = a.number /\ u.wanted = a.wanted /\ u.list = a.list
        /\ u.ptrs = a.ptrs /\ u.undeco = a.undeco
        /\ a.selected[cur] = 1 => Len(u.requests) = Len(a.requests) - 1
        /\ a.selected[cur] # 1 => cur \in RangeOf(u.requests) /\ u.requests = a.requests
    BY <2>2, <2>4, <2>5, CountsOff
  <2>7. Seen(u, {})
    BY <2>3, <2>4, <2>6 DEF Seen, SeenRight
  <2> QED
    BY <2>1, <2>2, <2>4, <2>5, <2>7, GoneAre
<1>10. CASE ScanExports
  <2>1. pc' \in {"next", "ALIASED"} /\ tab' = ScanUndeco(tab).t
    BY <1>10 DEF ScanExports
  <2>2. Seen(ScanUndeco(tab).t, {})
    BY <1>1, <1>2, ScanUndecoSeen
  <2> QED
    BY <2>1, <2>2, GoneAre
<1>11. CASE ScanTurn
  <2>1. /\ pc \in DOMAIN Defined /\ tab.list[pc] # <<>> /\ tab' = Turn(tab, pc, Defined[pc])
        /\ pc' = IF Stops(tab, pc) THEN "next" ELSE pc
    BY <1>11 DEF ScanTurn
  <2>2. PICK A : A = Gone(pc')
    OBVIOUS
  <2>3. (A = {} \/ (A = Gone(pc) /\ ~Stops(tab, pc))) /\ Seen(tab, A)
    BY <1>2, <2>1, <2>2, GoneAre
  <2>4. Seen(Turn(tab, pc, Defined[pc]), A)
    BY <1>1, <2>1, <2>3, TurnSeen
  <2> QED
    BY <2>1, <2>2, <2>4
<1>12. CASE ScanEnds
  <2>1. pc \in {"ALIASED", "WEAK_EXTRN", "LAZY"} /\ tab.list[pc] = <<>> /\ pc' = ScanAfter[pc] /\ tab' = tab
    BY <1>12, DefinedAre DEF ScanEnds
  <2>2. \A s \in Syms : tab.type[s] # pc
    <3>1. pc \in Lists /\ RangeOf(tab.list[pc]) = {s \in Syms \ {} : tab.type[s] = pc}
      BY <1>1, <2>1 DEF Sound, ListsRight, Lists
    <3>2. RangeOf(<<>>) = {}
      BY DEF RangeOf
    <3> QED
      BY <2>1, <3>1, <3>2
  <2>3. Gone(pc') \subseteq Gone(pc) \union {pc}
    BY <2>1, GoneAre DEF ScanAfter
  <2>4. \A s \in Syms : SeenRight(tab, s) /\ tab.type[s] \notin Possibles \union Gone(pc')
    BY <1>2, <2>2, <2>3 DEF Seen
  <2> QED
    BY <2>1, <2>4 DEF Seen
<1>13. CASE UNCHANGED vars
  <2>1. tab' = tab /\ pc' = pc
    BY <1>13 DEF vars
  <2> QED
    BY <1>2, <2>1
<1> QED
  BY <1>4, <1>5, <1>6, <1>7, <1>8, <1>9, <1>10, <1>11, <1>12, <1>13 DEF Next

(* At the end it is what is wanted.                                        *)
LEMMA SeenToEnd ==
  ASSUME StandInv
  PROVE  StandInsSeenTo
<1> SUFFICES ASSUME pc = "done", NEW s \in Syms
             PROVE  /\ tab.type[s] \notin {"WEAK_EXTRN", "LAZY", "ALIASED"}
                    /\ tab.type[s] \in Replaced =>
                         /\ tab.for[s] \in tab.refd
                         /\ tab.type[tab.for[s]] \notin DOMAIN Unreferenced \union {"LIBRARY"}
  BY DEF StandInsSeenTo, Replaced
<1>1. Gone(pc) = {"ALIASED", "WEAK_EXTRN", "LAZY"}
  BY GoneAre
<1>2. \A x \in Syms : SeenRight(tab, x) /\ tab.type[x] \notin Gone(pc)
  BY DEF StandInv, Seen
<1>3. tab.refd \subseteq Syms
  BY TypeOf DEF StandInv, Inv
<1> QED
  BY <1>1, <1>2, <1>3 DEF SeenRight, Unused

(* No symbol in use is left on a stand-in nobody saw to, in any program    *)
(* whose modules are as said and that has no communal as code elsewhere.   *)
THEOREM AlwaysStandInsSeenTo ==
  ASSUME WellSaid, NoClash
  PROVE  Spec => []StandInsSeenTo
<1>1. StandInv /\ [Next]_vars => StandInv'
  BY StandInsStep
<1>2. Init => StandInv
  BY StandInsStart
<1>3. StandInv => StandInsSeenTo
  BY SeenToEnd
<1> QED
  BY <1>1, <1>2, <1>3, PTL DEF Spec

-----------------------------------------------------------------------------
(* The tables of a library lead back to its modules.                       *)
Offsets(lib, list) ==
  [i \in 1 .. LIB_MODULES(list) |-> IF i = LIB_MODULES(list) THEN lib.dict ELSE list[i] * lib.pageSize]

(* Pages, and after the last module the dictionary, in the order of the    *)
(* file.                                                                   *)
BeforeDictionary(lib) == \A p \in RangeOf(lib.page) : p * lib.pageSize < lib.dict

(* What is laid out from 1 to K is a sequence.                             *)
LEMMA IsSeq ==
  ASSUME NEW K \in Nat, NEW S, NEW f \in [1 .. K -> S]
  PROVE  f \in Seq(S) /\ Len(f) = K /\ DOMAIN f = 1 .. K
OBVIOUS

(* The last of an ascending sequence is its greatest.                      *)
LEMMA LastIsMost ==
  ASSUME NEW s \in Seq(Nat), Ascends(s), NEW k \in 1 .. Len(s)
  PROVE  Last(s) = s[Len(s)] /\ Last(s) \in Nat /\ s[k] \in Nat /\ s[k] <= Last(s)
<1>1. PICK n : n = Len(s)
  OBVIOUS
<1>2. n \in 1 .. n /\ k \in 1 .. n /\ DOMAIN s = 1 .. n /\ \A i \in 1 .. n : s[i] \in Nat
  BY <1>1
<1>3. k = n \/ k < n
  BY <1>2
<1>4. s[k] = s[n] \/ s[k] < s[n]
  BY <1>2, <1>3 DEF Ascends
<1> QED
  BY <1>1, <1>2, <1>4 DEF Last

(* What divides a product.                                                 *)
LEMMA DivTimes ==
  ASSUME NEW a \in Nat, NEW d \in Nat \ {0}
  PROVE  (a * d) \div d = a
<1>1. (a * d + 0) \div d = a
  <2>1. 0 \in Nat /\ 0 < d
    OBVIOUS
  <2> QED
    BY <2>1, DivIs
<1>2. a * d + 0 = a * d
  OBVIOUS
<1> QED
  BY <1>1, <1>2

(* The offsets ascend, as the modules do.                                  *)
LEMMA OffsetsAscend ==
  ASSUME NEW lib, NEW list \in Seq(Nat), Ascends(list), RangeOf(list) = RangeOf(lib.page),
         BeforeDictionary(lib), lib.pageSize \in Nat \ {0}, lib.dict \in Nat
  PROVE  /\ Offsets(lib, list) \in Seq(Nat) /\ Len(Offsets(lib, list)) = Len(list) + 1
         /\ Ascends(Offsets(lib, list))
         /\ \A i \in 1 .. Len(list) : Offsets(lib, list)[i] = list[i] * lib.pageSize
         /\ Offsets(lib, list)[Len(list) + 1] = lib.dict
<1> DEFINE n == Len(list)
           s == Offsets(lib, list)
           z == lib.pageSize
<1>1. n \in Nat /\ DOMAIN list = 1 .. n /\ z \in Nat \ {0} /\ LIB_MODULES(list) = n + 1
      /\ \A i \in 1 .. n : list[i] \in Nat /\ list[i] \in RangeOf(lib.page)
  <2>1. n \in Nat /\ DOMAIN list = 1 .. n /\ \A i \in 1 .. n : list[i] \in Nat
    OBVIOUS
  <2>2. LIB_MODULES(list) = n + 1
    BY DEF LIB_MODULES
  <2>3. \A i \in 1 .. n : list[i] \in RangeOf(list)
    BY <2>1 DEF RangeOf
  <2> HIDE DEF n
  <2> QED
    BY <2>1, <2>2, <2>3
<1>2. s = [i \in 1 .. n + 1 |-> IF i = n + 1 THEN lib.dict ELSE list[i] * z]
  BY <1>1 DEF Offsets
<1> HIDE DEF n, s, z
<1>3. s[n + 1] = lib.dict /\ \A i \in 1 .. n : s[i] = list[i] * z
  BY <1>1, <1>2
<1>4. \A i \in 1 .. n : list[i] * z \in Nat
  BY <1>1
<1>5. s \in Seq(Nat) /\ Len(s) = n + 1 /\ DOMAIN s = 1 .. n + 1
  BY <1>1, <1>2, <1>4
<1>6. ASSUME NEW i \in 1 .. n + 1, NEW j \in 1 .. n + 1, i < j PROVE s[i] < s[j]
  <2>1. i \in 1 .. n /\ s[i] = list[i] * z
    BY <1>1, <1>3, <1>6
  <2>2. CASE j = n + 1
    BY <1>1, <1>3, <2>1, <2>2 DEF BeforeDictionary, z
  <2>3. CASE j # n + 1
    <3>1. j \in 1 .. n
      BY <1>1, <2>3
    <3>2. list[i] < list[j] /\ list[i] \in Nat /\ list[j] \in Nat
      BY <1>1, <1>6, <2>1, <3>1 DEF Ascends
    <3> QED
      BY <1>1, <1>3, <2>1, <3>1, <3>2, TimesLess
  <2> QED
    BY <2>2, <2>3
<1>7. Ascends(s)
  BY <1>5, <1>6 DEF Ascends
<1> QED
  BY <1>3, <1>5, <1>7 DEF s, n, z

(* The entry of a short table.                                             *)
LEMMA FlatFinds ==
  ASSUME NEW lib, NEW s \in Seq(Nat), Ascends(s), NEW k \in 1 .. Len(s), NEW page \in Nat,
         lib.pageSize \in Nat, s[k] = page * lib.pageSize, NEW ptrs, ptrs = [flat |-> TRUE, blocks |-> <<s>>]
  PROVE  LET n == BinserModule(lib, ptrs, page)
         IN  n < Size(ptrs) /\ ModulePtr(ptrs, n) = s[k]
<1> DEFINE val == page * lib.pageSize
           right == {b \in DOMAIN ptrs.blocks : Last(ptrs.blocks[b]) >= val}
           c == CHOOSE b \in right : \A d \in right : b <= d
           n == Halve(s, val)
<1>1. Len(s) \in Nat /\ DOMAIN s = 1 .. Len(s) /\ s[k] = val /\ val \in Nat
  <2>1. Len(s) \in Nat /\ DOMAIN s = 1 .. Len(s) /\ s[k] \in Nat
    OBVIOUS
  <2> QED
    BY <2>1
<1> HIDE DEF val
<1>2. Last(s) \in Nat /\ Last(s) >= val
  <2>1. s[k] <= Last(s) /\ Last(s) \in Nat
    BY LastIsMost
  <2> QED
    BY <1>1, <2>1
<1>3. right = {1} /\ ptrs.blocks[1] = s
  BY <1>2
<1>4. c = 1
  <2> HIDE DEF right
  <2>1. c = CHOOSE b \in {1} : \A d \in {1} : b <= d
    BY <1>3
  <2>2. \E b \in {1} : \A d \in {1} : b <= d
    OBVIOUS
  <2> QED
    BY <2>1, <2>2
<1>5. n \in 0 .. Len(s) - 1 /\ s[n + 1] = val
  <2>1. val \in RangeOf(s)
    BY <1>1 DEF RangeOf
  <2> QED
    BY <1>1, <2>1, HalveFinds
<1>6. BinserModule(lib, ptrs, page) = n
  <2>1. BinserModule(lib, ptrs, page) =
          IF right = {} THEN NotFound
          ELSE IF Halve(ptrs.blocks[c], val) = NotFound THEN NotFound
          ELSE (c - 1) * Entries + Halve(ptrs.blocks[c], val)
    BY DEF BinserModule, val
  <2> HIDE DEF right, c, n
  <2>2. n # NotFound
    BY <1>1, <1>5 DEF NotFound
  <2>3. Halve(ptrs.blocks[c], val) = n
    BY <1>3, <1>4 DEF n
  <2>4. (1 - 1) * Entries + n = n
    BY <1>1, <1>5, EntriesAre
  <2> QED
    BY <1>3, <1>4, <2>1, <2>2, <2>3, <2>4
<1>7. Size(ptrs) = Len(s)
  <2>1. Len(ptrs.blocks) = 1 /\ Last(ptrs.blocks) = s
    BY DEF Last
  <2>2. (1 - 1) * Entries + Len(s) = Len(s)
    <3>1. \A e, n0 \in Nat : (1 - 1) * e + n0 = n0
      OBVIOUS
    <3>2. Entries \in Nat /\ Len(s) \in Nat
      BY <1>1, EntriesAre
    <3> QED
      BY <3>1, <3>2
  <2> QED
    BY <2>1, <2>2 DEF Size
<1>8. ModulePtr(ptrs, n) = s[n + 1]
  BY DEF ModulePtr
<1> HIDE DEF n
<1> QED
  BY <1>1, <1>5, <1>6, <1>7, <1>8

(* A table cut in blocks: which entries are in which.                      *)
From(b)  == (b - 1) * Entries
To(b, L) == IF b * Entries <= L THEN b * Entries ELSE L

(* Where it is cut.                                                        *)
LEMMA CutAt ==
  ASSUME NEW s \in Seq(Nat), NEW K, K = (Len(s) + Entries - 1) \div Entries, s # <<>>
  PROVE  /\ K \in Nat \ {0} /\ Len(Chopped(s)) = K /\ DOMAIN Chopped(s) = 1 .. K /\ Chopped(s) \in Seq(Seq(Nat))
         /\ To(K, Len(s)) = Len(s)
         /\ \A b \in 1 .. K :
              /\ From(b) \in Nat /\ To(b, Len(s)) \in Nat /\ From(b) < To(b, Len(s)) /\ To(b, Len(s)) <= Len(s)
              /\ To(b, Len(s)) <= From(b) + Entries
              /\ Chopped(s)[b] \in Seq(Nat) /\ Len(Chopped(s)[b]) = To(b, Len(s)) - From(b)
              /\ \A j \in 1 .. To(b, Len(s)) - From(b) : Chopped(s)[b][j] = s[From(b) + j]
<1> DEFINE E == Entries
           L == Len(s)
           n == L + E - 1
           Block(b) == SubSeq(s, From(b) + 1, To(b, L))
<1>1. E \in Nat \ {0} /\ L \in Nat \ {0} /\ n \in Nat
  BY EntriesAre
<1>2. K \in Nat /\ n % E \in Nat /\ n % E < E /\ n = K * E + (n % E)
  BY <1>1, DivMod
<1>3. K * E \in Nat /\ K * E >= L /\ K * E < L + E /\ K # 0
  <2>1. K * E \in Nat
    BY <1>1, <1>2
  <2> HIDE DEF n
  <2>2. n = L + E - 1
    BY DEF n
  <2>3. K = 0 => K * E = 0
    BY <1>1
  <2> QED
    BY <1>1, <1>2, <2>1, <2>2, <2>3
<1>4. \A b \in Nat \ {0} : b * E \in Nat /\ (b - 1) * E \in Nat /\ b * E = (b - 1) * E + E
  BY <1>1
<1>5. (K - 1) * E < L
  BY <1>1, <1>2, <1>3, <1>4
<1>6. ASSUME NEW b \in 1 .. K
      PROVE  /\ From(b) \in Nat /\ To(b, L) \in Nat /\ From(b) < To(b, L) /\ To(b, L) <= L
             /\ To(b, L) <= From(b) + E
  <2>1. b \in Nat \ {0} /\ b - 1 \in Nat /\ b - 1 <= K - 1 /\ K - 1 \in Nat
    BY <1>2, <1>3
  <2>2. (b - 1) * E <= (K - 1) * E /\ (K - 1) * E \in Nat
    BY <1>1, <2>1, TimesMore
  <2>3. b * E \in Nat /\ (b - 1) * E \in Nat /\ b * E = (b - 1) * E + E
    BY <1>4, <2>1
  <2> QED
    BY <1>1, <1>5, <2>2, <2>3 DEF From, To
<1>7. To(K, L) = L
  BY <1>1, <1>3 DEF To
<1>8. Chopped(s) = [b \in 1 .. K |-> Block(b)]
  BY DEF Chopped, From, To
<1>9. ASSUME NEW b \in 1 .. K
      PROVE  /\ Block(b) \in Seq(Nat) /\ Len(Block(b)) = To(b, L) - From(b)
             /\ \A j \in 1 .. To(b, L) - From(b) : Block(b)[j] = s[From(b) + j]
  <2> DEFINE f == From(b)
             e == To(b, L)
  <2>1. f \in Nat /\ e \in Nat /\ f < e /\ e <= L
    BY <1>6
  <2> HIDE DEF f, e, L
  <2>2. SubSeq(s, f + 1, e) \in Seq(Nat) /\ Len(SubSeq(s, f + 1, e)) = e - f
    BY <1>1, <2>1 DEF L
  <2>3. \A j \in 1 .. e - f : SubSeq(s, f + 1, e)[j] = s[f + j]
    <3>1. SubSeq(s, f + 1, e) = [i \in 1 .. e - (f + 1) + 1 |-> s[i + (f + 1) - 1]]
      BY <1>1, <2>1 DEF L
    <3>2. \A j \in 1 .. e - f : j \in 1 .. e - (f + 1) + 1 /\ j + (f + 1) - 1 = f + j
      BY <2>1
    <3> QED
      BY <3>1, <3>2
  <2> QED
    BY <2>2, <2>3 DEF f, e
<1> HIDE DEF Block
<1>10. Chopped(s) \in Seq(Seq(Nat)) /\ Len(Chopped(s)) = K /\ DOMAIN Chopped(s) = 1 .. K
  <2>1. Chopped(s) \in [1 .. K -> Seq(Nat)]
    BY <1>8, <1>9
  <2>2. K \in Nat
    BY <1>2
  <2> QED
    BY <2>1, <2>2, IsSeq
<1>11. \A b \in 1 .. K : Chopped(s)[b] = Block(b)
  BY <1>8
<1> QED
  BY <1>2, <1>3, <1>6, <1>7, <1>9, <1>10, <1>11

(* The entry of a long table.                                              *)
LEMMA ChoppedFinds ==
  ASSUME NEW lib, NEW s \in Seq(Nat), Ascends(s), NEW k \in 1 .. Len(s), NEW page \in Nat,
         lib.pageSize \in Nat, s[k] = page * lib.pageSize, NEW ptrs, ptrs = [flat |-> FALSE, blocks |-> Chopped(s)]
  PROVE  LET n == BinserModule(lib, ptrs, page)
         IN  n < Size(ptrs) /\ ModulePtr(ptrs, n) = s[k]
<1> DEFINE E == Entries
           L == Len(s)
           K == (Len(s) + Entries - 1) \div Entries
           val == page * lib.pageSize
           bl == Chopped(s)
           right == {b \in DOMAIN ptrs.blocks : Last(ptrs.blocks[b]) >= val}
           c == (k - 1) \div E + 1
           least == CHOOSE b \in right : \A d \in right : b <= d
           n == Halve(bl[c], val)
<1>1. /\ L \in Nat /\ DOMAIN s = 1 .. L /\ k \in 1 .. L /\ s[k] = val /\ E \in Nat \ {0}
      /\ \A i \in 1 .. L : s[i] \in Nat
  BY EntriesAre
<1>2. /\ K \in Nat \ {0} /\ Len(bl) = K /\ DOMAIN bl = 1 .. K /\ bl \in Seq(Seq(Nat)) /\ To(K, L) = L
      /\ \A b \in 1 .. K :
           /\ From(b) \in Nat /\ To(b, L) \in Nat /\ From(b) < To(b, L) /\ To(b, L) <= L
           /\ To(b, L) <= From(b) + E
           /\ bl[b] \in Seq(Nat) /\ Len(bl[b]) = To(b, L) - From(b)
           /\ \A j \in 1 .. To(b, L) - From(b) : bl[b][j] = s[From(b) + j]
  <2>1. s # <<>>
    BY <1>1
  <2> QED
    BY <2>1, CutAt
<1>3. ptrs.blocks = bl /\ ~ptrs.flat
  OBVIOUS
<1> HIDE DEF E, L, K, val, bl
<1>4. c \in Nat \ {0} /\ (c - 1) * E < k /\ k <= c * E /\ (c - 1) * E \in Nat /\ c * E = (c - 1) * E + E
  <2> DEFINE d == (k - 1) \div E
             e == (k - 1) % E
  <2>1. d \in Nat /\ e \in Nat /\ e < E /\ k - 1 = d * E + e
    <3>1. PICK m : m = k - 1
      OBVIOUS
    <3>2. m \in Nat /\ E \in Nat \ {0}
      BY <1>1, <3>1
    <3>3. m \div E \in Nat /\ m % E \in Nat /\ m % E < E /\ m = (m \div E) * E + (m % E)
      BY <3>2, DivMod
    <3> QED
      BY <3>1, <3>3
  <2>2. c = d + 1
    OBVIOUS
  <2> HIDE DEF d, e, c
  <2>3. d * E \in Nat /\ (d + 1) * E = d * E + E
    BY <1>1, <2>1
  <2>4. c - 1 = d /\ c \in Nat \ {0}
    BY <2>1, <2>2
  <2> QED
    BY <1>1, <2>1, <2>2, <2>3, <2>4
<1> HIDE DEF c
<1>5. c \in 1 .. K
  <2>1. ASSUME K < c PROVE FALSE
    <3>1. K <= c - 1 /\ c - 1 \in Nat /\ K \in Nat
      BY <1>2, <1>4, <2>1
    <3>2. K * E <= (c - 1) * E
      <4>1. E \in Nat
        BY <1>1
      <4> QED
        BY <3>1, <4>1, TimesMore
    <3>4. K * E \in Nat
      BY <1>1, <3>1
    <3>3. L <= K * E
      BY <1>1, <1>2, <3>4 DEF To, E
    <3> QED
      BY <1>1, <1>4, <3>2, <3>3, <3>4
  <2> QED
    BY <1>2, <1>4, <2>1
<1>6. From(c) = (c - 1) * E /\ From(c) < k /\ k <= To(c, L)
  BY <1>1, <1>4 DEF From, To, E
<1>7. \A b \in 1 .. K : Last(bl[b]) = s[To(b, L)] /\ To(b, L) \in 1 .. L
  <2> SUFFICES ASSUME NEW b \in 1 .. K PROVE Last(bl[b]) = s[To(b, L)] /\ To(b, L) \in 1 .. L
    OBVIOUS
  <2> DEFINE f == From(b)
             e == To(b, L)
  <2>1. /\ f \in Nat /\ e \in Nat /\ f < e /\ e <= L /\ Len(bl[b]) = e - f
        /\ \A j \in 1 .. e - f : bl[b][j] = s[f + j]
    BY <1>2
  <2> HIDE DEF f, e
  <2>2. e - f \in 1 .. e - f /\ f + (e - f) = e
    BY <2>1
  <2>3. bl[b][e - f] = s[e] /\ e \in 1 .. L
    BY <1>1, <2>1, <2>2
  <2> QED
    BY <2>1, <2>3 DEF Last, e
<1>8. c \in right
  <2>1. k = To(c, L) \/ s[k] < s[To(c, L)]
    <3>1. PICK e : e = To(c, L)
      OBVIOUS
    <3>2. e \in 1 .. L /\ k <= e
      BY <1>5, <1>6, <1>7, <3>1
    <3>3. k = e \/ k < e
      BY <1>1, <3>2
    <3> QED
      BY <1>1, <3>1, <3>2, <3>3 DEF Ascends
  <2>2. s[To(c, L)] >= val
    BY <1>1, <1>5, <1>7, <2>1
  <2> QED
    BY <1>2, <1>3, <1>5, <1>7, <2>2
<1>9. ASSUME NEW b \in right PROVE c <= b /\ b \in Nat
  <2>1. b \in 1 .. K /\ Last(bl[b]) >= val
    BY <1>2, <1>3
  <2> SUFFICES ASSUME b < c PROVE FALSE
    BY <1>4, <2>1
  <2>2. b \in Nat /\ b <= c - 1 /\ c - 1 \in Nat
    BY <1>4, <2>1
  <2>3. b * E <= (c - 1) * E /\ b * E \in Nat
    BY <1>1, <1>4, <2>2, TimesMore
  <2>4. To(b, L) <= b * E
    <3>1. PICK v : v = b * E
      OBVIOUS
    <3>2. To(b, L) = IF v <= L THEN v ELSE L
      BY <3>1 DEF To, E
    <3>3. v \in Nat /\ L \in Nat
      BY <1>1, <2>3, <3>1
    <3> QED
      BY <3>1, <3>2, <3>3
  <2>5. To(b, L) < k /\ To(b, L) \in 1 .. L
    <3>1. To(b, L) \in 1 .. L
      BY <1>7, <2>1
    <3>2. PICK v, w, e : v = b * E /\ w = (c - 1) * E /\ e = To(b, L)
      OBVIOUS
    <3>3. v \in Nat /\ w \in Nat /\ e \in Nat /\ e <= v /\ v <= w /\ w < k /\ k \in Nat
      BY <1>1, <1>4, <2>3, <2>4, <3>1, <3>2
    <3> QED
      BY <3>1, <3>2, <3>3
  <2>6. s[To(b, L)] < s[k]
    BY <1>1, <2>5 DEF Ascends
  <2> QED
    BY <1>1, <1>7, <2>1, <2>5, <2>6
<1>10. least = c
  <2> HIDE DEF right
  <2>1. c \in right /\ \A d \in right : c <= d
    BY <1>8, <1>9
  <2>2. least \in right /\ \A d \in right : least <= d
    BY <2>1
  <2>3. least <= c /\ c <= least /\ least \in Nat
    BY <1>9, <2>1, <2>2
  <2> HIDE DEF least
  <2> QED
    BY <1>4, <2>3
<1>11. /\ bl[c] \in Seq(Nat) /\ Len(bl[c]) = To(c, L) - From(c) /\ From(c) \in Nat /\ To(c, L) \in Nat
       /\ \A j \in 1 .. To(c, L) - From(c) : bl[c][j] = s[From(c) + j]
       /\ To(c, L) <= L /\ To(c, L) <= From(c) + E
  BY <1>2, <1>5
<1>12. n \in 0 .. Len(bl[c]) - 1 /\ bl[c][n + 1] = val
  <2> DEFINE w == Len(bl[c])
             f == From(c)
  <2>1. w \in Nat /\ DOMAIN bl[c] = 1 .. w /\ f \in Nat /\ f + w <= L /\ \A j \in 1 .. w : bl[c][j] = s[f + j]
    <3>1. w \in Nat /\ DOMAIN bl[c] = 1 .. w
      BY <1>11
    <3>2. w = To(c, L) - f /\ f \in Nat /\ To(c, L) \in Nat /\ To(c, L) <= L
      BY <1>11
    <3>3. \A j \in 1 .. w : bl[c][j] = s[f + j]
      BY <1>11, <3>2
    <3> HIDE DEF w, f
    <3> QED
      BY <1>1, <3>1, <3>2, <3>3
  <2>2. k - f \in 1 .. w /\ f + (k - f) = k
    BY <1>1, <1>6, <1>11
  <2> HIDE DEF w, f, n
  <2>3. Ascends(bl[c])
    <3>1. \A i, j \in 1 .. w : i < j => f + i \in 1 .. L /\ f + j \in 1 .. L /\ f + i < f + j
      BY <1>1, <2>1
    <3> QED
      BY <1>1, <2>1, <3>1 DEF Ascends
  <2>4. val \in RangeOf(bl[c])
    <3>1. bl[c][k - f] = val
      BY <1>1, <2>1, <2>2
    <3> QED
      BY <2>1, <2>2, <3>1 DEF RangeOf
  <2>5. val \in Int
    BY <1>1
  <2> QED
    BY <1>11, <2>3, <2>4, <2>5, HalveFinds DEF n
<1>13. BinserModule(lib, ptrs, page) = (c - 1) * E + n
  <2>1. BinserModule(lib, ptrs, page) =
          IF right = {} THEN NotFound
          ELSE IF Halve(ptrs.blocks[least], val) = NotFound THEN NotFound
          ELSE (least - 1) * Entries + Halve(ptrs.blocks[least], val)
    BY DEF BinserModule, val
  <2> HIDE DEF right, least, n
  <2>2. n # NotFound
    BY <1>11, <1>12 DEF NotFound
  <2>3. Halve(ptrs.blocks[least], val) = n
    BY <1>3, <1>10 DEF n
  <2>4. right # {}
    BY <1>8
  <2> QED
    BY <1>10, <2>1, <2>2, <2>3, <2>4 DEF E
<1> HIDE DEF n, right, least
<1>14. n \in Nat /\ n < E /\ (c - 1) * E + n < L /\ s[k] = bl[c][n + 1]
  <2>1. n \in Nat /\ n <= Len(bl[c]) - 1
    BY <1>11, <1>12
  <2>2. Len(bl[c]) = To(c, L) - From(c) /\ From(c) \in Nat /\ To(c, L) \in Nat
        /\ To(c, L) <= L /\ To(c, L) <= From(c) + E
    BY <1>11
  <2>3. n < E /\ From(c) + n < L
    BY <1>1, <2>1, <2>2
  <2> QED
    BY <1>1, <1>6, <1>12, <2>1, <2>3
<1>15. Size(ptrs) = L
  <2>1. K \in 1 .. K
    BY <1>2
  <2>2. Len(bl[K]) = L - From(K) /\ From(K) \in Nat
    BY <1>2, <2>1
  <2>3. Size(ptrs) = (K - 1) * E + Len(bl[K])
    BY <1>2, <1>3 DEF Size, Last, E
  <2> QED
    BY <1>1, <2>2, <2>3 DEF From, E
<1>16. ModulePtr(ptrs, (c - 1) * E + n) = bl[c][n + 1]
  <2>1. c - 1 \in Nat /\ (c - 1) + 1 = c
    BY <1>4
  <2>2. ((c - 1) * E + n) \div E = c - 1 /\ ((c - 1) * E + n) % E = n
    BY <1>1, <1>14, <2>1, DivIs
  <2> QED
    BY <1>3, <2>1, <2>2 DEF ModulePtr, E
<1> QED
  BY <1>13, <1>14, <1>15, <1>16

(* The number of a page is that of the module which begins there.          *)
LEMMA PageFound ==
  ASSUME prog \in Programs, NEW l \in Libs, BeforeDictionary(prog.lib[l]), NEW t,
         t.ptrs[l] = DoModulePtrs(prog.lib[l], ModulesOf(l)), NEW p \in RangeOf(prog.lib[l].page)
  PROVE  PageAt(t, l, BinserModule(prog.lib[l], t.ptrs[l], p)) = p
<1> DEFINE lib == prog.lib[l]
           list == ModulesOf(l)
           s == Offsets(lib, list)
           Lay(q) == IF Len(q) < Entries \div 2 THEN [flat |-> TRUE, blocks |-> <<q>>]
                                                ELSE [flat |-> FALSE, blocks |-> Chopped(q)]
           ptrs == t.ptrs[l]
           n == BinserModule(lib, ptrs, p)
<1>1. /\ lib.pageSize \in Nat \ {0} /\ lib.dict \in Nat /\ p \in Nat
      /\ list \in Seq(Nat) /\ Ascends(list) /\ RangeOf(list) = RangeOf(lib.page)
  <2>1. lib.pageSize \in Nat \ {0} /\ lib.dict \in Nat /\ lib.page \in Seq(Nat)
    BY ProgramsAssumption
  <2>2. RangeOf(lib.page) \subseteq Nat
    BY <2>1 DEF RangeOf
  <2> QED
    BY <2>1, <2>2, ModulesAre
<1>2. /\ s \in Seq(Nat) /\ Len(s) = Len(list) + 1 /\ Ascends(s)
      /\ \A i \in 1 .. Len(list) : s[i] = list[i] * lib.pageSize
  BY <1>1, OffsetsAscend
<1>3. ptrs = Lay(s)
  <2>1. ptrs = CHOOSE y \in {Lay(v) : v \in {s}} : TRUE
    BY DEF DoModulePtrs, Once, Offsets
  <2> HIDE DEF Lay, s, ptrs
  <2>2. {Lay(v) : v \in {s}} = {Lay(s)}
    OBVIOUS
  <2> QED
    BY <2>1, <2>2
<1>4. PICK k \in 1 .. Len(list) : list[k] = p
  <2>1. p \in RangeOf(list) /\ DOMAIN list = 1 .. Len(list)
    BY <1>1
  <2> QED
    BY <2>1 DEF RangeOf
<1>5. k \in 1 .. Len(s) /\ s[k] = p * lib.pageSize
  BY <1>1, <1>2, <1>4
<1> HIDE DEF lib, list, s, ptrs
<1>6. n < Size(ptrs) /\ ModulePtr(ptrs, n) = s[k]
  <2>0. s \in Seq(Nat) /\ Ascends(s) /\ p \in Nat /\ lib.pageSize \in Nat
    BY <1>1, <1>2
  <2>1. CASE ptrs = [flat |-> TRUE, blocks |-> <<s>>]
    BY <1>5, <2>0, <2>1, FlatFinds
  <2>2. CASE ptrs = [flat |-> FALSE, blocks |-> Chopped(s)]
    BY <1>5, <2>0, <2>2, ChoppedFinds
  <2> QED
    BY <1>3, <2>1, <2>2
<1> HIDE DEF n
<1>7. (p * lib.pageSize) \div lib.pageSize = p
  <2>1. \A a \in Nat : \A d \in Nat \ {0} : (a * d) \div d = a
    BY DivTimes
  <2> QED
    BY <1>1, <2>1
<1> QED
  BY <1>5, <1>6, <1>7 DEF PageAt, n, lib, ptrs

-----------------------------------------------------------------------------
(* Each block of a library counts the modules that touch it.               *)

(* The header ends in the first block, where the first module, or without  *)
(* modules the dictionary, begins.                                         *)
HeaderFits(lib) ==
  /\ 0 < lib.dict /\ \A p \in RangeOf(lib.page) : 0 < p
  /\ \E x \in {p * lib.pageSize : p \in RangeOf(lib.page)} \union {lib.dict} : x <= PAGE_SIZE

(* Division keeps the order.                                               *)
LEMMA DivBelow ==
  ASSUME NEW a \in Nat, NEW b \in Nat, NEW d \in Nat \ {0}
  PROVE  /\ a \div d <= b <=> a < (b + 1) * d
         /\ b <= a \div d <=> b * d <= a
<1> DEFINE q == a \div d
<1>1. q \in Nat /\ a % d \in Nat /\ a % d < d /\ a = q * d + (a % d)
  BY DivMod
<1> HIDE DEF q
<1>2. q * d \in Nat /\ (q + 1) * d = q * d + d /\ b * d \in Nat /\ (b + 1) * d = b * d + d
  BY <1>1
<1>3. q <= b => q * d <= b * d
  BY <1>1, TimesMore
<1>4. ~(q <= b) => (b + 1) * d <= q * d
  <2>1. ~(q <= b) => b + 1 <= q
    BY <1>1
  <2> QED
    BY <1>1, <2>1, TimesMore
<1>5. b <= q => b * d <= q * d
  BY <1>1, TimesMore
<1>6. ~(b <= q) => (q + 1) * d <= b * d
  <2>1. ~(b <= q) => q + 1 <= b
    BY <1>1
  <2> QED
    BY <1>1, <2>1, TimesMore
<1>7. q <= b <=> a < (b + 1) * d
  BY <1>1, <1>2, <1>3, <1>4
<1>8. b <= q <=> b * d <= a
  BY <1>1, <1>2, <1>5, <1>6
<1> QED
  BY <1>7, <1>8 DEF q

(* Of the modules up to end i, those that touch block b: module j - 1 is   *)
(* between ends j - 1 and j.                                               *)
Touching(x, b, i) == {j \in 2 .. i : x[j - 1] < (b + 1) * PAGE_SIZE /\ b * PAGE_SIZE < x[j]}

(* One more module that touches a block.                                   *)
LEMMA OneMoreTouching ==
  ASSUME NEW x \in Seq(Nat), NEW b \in Nat, NEW i \in 2 .. Len(x)
  PROVE  /\ Cardinality(Touching(x, b, i - 1)) \in Nat
         /\ Cardinality(Touching(x, b, i)) = Cardinality(Touching(x, b, i - 1))
              + IF x[i - 1] < (b + 1) * PAGE_SIZE /\ b * PAGE_SIZE < x[i] THEN 1 ELSE 0
<1> DEFINE C == x[i - 1] < (b + 1) * PAGE_SIZE /\ b * PAGE_SIZE < x[i]
           S == Touching(x, b, i - 1)
           T == Touching(x, b, i)
<1>1. IsFiniteSet(S)
  <2>1. IsFiniteSet(2 .. i - 1)
    BY FS_Interval
  <2>2. S \subseteq 2 .. i - 1
    BY DEF Touching
  <2> QED
    BY <2>1, <2>2, FS_Subset
<1>2. i \notin S
  BY DEF Touching
<1>3. T = S \union (IF C THEN {i} ELSE {})
  <2>1. 2 .. i = (2 .. i - 1) \union {i}
    OBVIOUS
  <2> QED
    BY <2>1 DEF Touching
<1>4. Cardinality(S) \in Nat
  BY <1>1, FS_CardinalityType
<1> HIDE DEF S, T, C
<1>5. CASE C
  <2>1. T = S \union {i}
    BY <1>3, <1>5
  <2>2. Cardinality(T) = Cardinality(S) + 1
    BY <1>1, <1>2, <2>1, FS_AddElement
  <2> QED
    BY <1>4, <1>5, <2>2 DEF S, T, C
<1>6. CASE ~C
  <2>1. T = S
    BY <1>3, <1>6
  <2>2. Cardinality(T) = Cardinality(S) + 0
    BY <1>4, <2>1
  <2> QED
    BY <1>4, <1>6, <2>2 DEF S, T, C
<1> QED
  BY <1>5, <1>6

(* Each end of a module counts for the blocks it touches.                  *)
LEMMA EndsCounted ==
  ASSUME NEW x \in Seq(Nat), Ascends(x), x # <<>>, 0 < x[1], x[1] <= PAGE_SIZE, NEW B \in Nat,
         NEW none, none = [count |-> [b \in 0 .. B - 1 |-> IF b = 0 THEN -1 ELSE 0], block |-> 0]
  PROVE  LET count == InOrder(EndOfModule, none, x).count
         IN  /\ DOMAIN count = 0 .. B - 1
             /\ \A b \in 0 .. B - 1 : count[b] = Cardinality(Touching(x, b, Len(x)))
<1> DEFINE n == Len(x)
           Counted(i) == {acc \in [count : [0 .. B - 1 -> Int], block : Nat] :
                            /\ acc.block = x[i] \div PAGE_SIZE
                            /\ \A b \in 0 .. B - 1 : acc.count[b] = Cardinality(Touching(x, b, i))}
           P == [i \in 0 .. n |-> IF i = 0 THEN {none} ELSE Counted(i)]
           Adds(acc, e, b) == IF acc.block <= b /\ b <= (e - 1) \div PAGE_SIZE THEN 1 ELSE 0
<1>1. /\ n \in Nat \ {0} /\ DOMAIN x = 1 .. n /\ PAGE_SIZE \in Nat \ {0} /\ 0 \in 0 .. n /\ n \in 0 .. n
      /\ \A i \in 1 .. n : x[i] \in Nat /\ x[i] >= x[1] /\ i \in 0 .. n /\ i - 1 \in 0 .. n
  <2>1. n \in Nat \ {0} /\ DOMAIN x = 1 .. n /\ PAGE_SIZE \in Nat \ {0} /\ \A i \in 1 .. n : x[i] \in Nat
    BY LibTablesAssumption
  <2> HIDE DEF n
  <2>2. \A i \in 1 .. n : x[i] >= x[1]
    <3>1. \A i \in 1 .. n : i = 1 \/ 1 < i
      BY <2>1
    <3>2. 1 \in 1 .. n
      BY <2>1
    <3> QED
      BY <2>1, <3>1, <3>2 DEF Ascends
  <2> QED
    BY <2>1, <2>2
<1>2. ASSUME NEW acc, NEW e \in Nat, acc.count \in [0 .. B - 1 -> Int]
      PROVE  /\ EndOfModule(acc, e).block = e \div PAGE_SIZE
             /\ EndOfModule(acc, e) \in [count : [0 .. B - 1 -> Int], block : Nat]
             /\ \A b \in 0 .. B - 1 : EndOfModule(acc, e).count[b] = acc.count[b] + Adds(acc, e, b)
  <2>1. EndOfModule(acc, e) = [count |-> [b \in DOMAIN acc.count |-> acc.count[b] + Adds(acc, e, b)],
                               block |-> e \div PAGE_SIZE]
    BY DEF EndOfModule
  <2>2. \A b \in 0 .. B - 1 : acc.count[b] + Adds(acc, e, b) \in Int
    <3>1. \A b \in 0 .. B - 1 : Adds(acc, e, b) \in Int
      OBVIOUS
    <3> HIDE DEF Adds
    <3> QED
      BY <1>2, <3>1
  <2> HIDE DEF Adds
  <2>3. [b \in DOMAIN acc.count |-> acc.count[b] + Adds(acc, e, b)] \in [0 .. B - 1 -> Int]
    BY <1>2, <2>2
  <2>4. e \div PAGE_SIZE \in Nat
    BY <1>1, <1>2, DivMod
  <2> QED
    BY <1>2, <2>1, <2>3, <2>4
<1>3. none \in P[0]
  BY <1>1
<1>4. ASSUME NEW i \in 1 .. n, NEW acc \in P[i - 1] PROVE EndOfModule(acc, x[i]) \in P[i]
  <2>1. x[i] \in Nat /\ 0 < x[i] /\ x[i] - 1 \in Nat
    BY <1>1
  <2>2. \A b \in 0 .. B - 1 : b \in Nat /\ b * PAGE_SIZE \in Nat
                             /\ (b <= (x[i] - 1) \div PAGE_SIZE <=> b * PAGE_SIZE < x[i])
    <3> SUFFICES ASSUME NEW b \in 0 .. B - 1
                 PROVE  b \in Nat /\ b * PAGE_SIZE \in Nat
                        /\ (b <= (x[i] - 1) \div PAGE_SIZE <=> b * PAGE_SIZE < x[i])
      OBVIOUS
    <3>1. b \in Nat /\ b * PAGE_SIZE \in Nat
      BY <1>1
    <3>2. b <= (x[i] - 1) \div PAGE_SIZE <=> b * PAGE_SIZE <= x[i] - 1
      BY <1>1, <2>1, <3>1, DivBelow
    <3> QED
      BY <2>1, <3>1, <3>2
  <2>3. CASE i = 1
    <3>1. acc = none
      BY <1>1, <2>3
    <3>2. acc.count \in [0 .. B - 1 -> Int] /\ acc.block = 0
          /\ \A b \in 0 .. B - 1 : acc.count[b] = IF b = 0 THEN -1 ELSE 0
      BY <3>1
    <3>3. ASSUME NEW b \in 0 .. B - 1 PROVE acc.count[b] + Adds(acc, x[i], b) = 0
      <4>1. b \in Nat /\ (b <= (x[i] - 1) \div PAGE_SIZE <=> b * PAGE_SIZE < x[i])
        BY <2>2
      <4>2. b = 0 => b * PAGE_SIZE = 0
        BY <1>1
      <4>3. b # 0 => b * PAGE_SIZE >= PAGE_SIZE
        <5>1. b # 0 => 1 <= b
          BY <4>1
        <5>2. b # 0 => 1 * PAGE_SIZE <= b * PAGE_SIZE
          BY <1>1, <4>1, <5>1, TimesMore
        <5> QED
          BY <1>1, <5>2
      <4>4. b <= (x[i] - 1) \div PAGE_SIZE <=> b = 0
        BY <1>1, <2>1, <2>2, <2>3, <4>1, <4>2, <4>3
      <4>5. Adds(acc, x[i], b) = IF b = 0 THEN 1 ELSE 0
        BY <3>2, <4>1, <4>4
      <4> HIDE DEF Adds
      <4> QED
        BY <3>2, <4>5
    <3>4. \A b \in 0 .. B - 1 : Cardinality(Touching(x, b, i)) = 0
      <4>1. \A b : Touching(x, b, i) = {}
        BY <2>3 DEF Touching
      <4> QED
        BY <4>1, FS_EmptySet
    <3> HIDE DEF Adds
    <3>5. EndOfModule(acc, x[i]) \in Counted(i)
      <4>1. /\ EndOfModule(acc, x[i]).block = x[i] \div PAGE_SIZE
            /\ EndOfModule(acc, x[i]) \in [count : [0 .. B - 1 -> Int], block : Nat]
            /\ \A b \in 0 .. B - 1 : EndOfModule(acc, x[i]).count[b] = acc.count[b] + Adds(acc, x[i], b)
        BY <1>2, <2>1, <3>2
      <4>2. \A b \in 0 .. B - 1 : EndOfModule(acc, x[i]).count[b] = Cardinality(Touching(x, b, i))
        BY <3>3, <3>4, <4>1
      <4> QED
        BY <4>1, <4>2
    <3> HIDE DEF Counted
    <3> QED
      BY <1>1, <3>5
  <2>4. CASE i # 1
    <3>1. i \in 2 .. n /\ i - 1 \in 1 .. n /\ i - 1 # 0
      BY <1>1, <2>4
    <3>2. acc \in Counted(i - 1)
      <4> HIDE DEF Counted
      <4> QED
        BY <1>1, <3>1
    <3>3. acc.count \in [0 .. B - 1 -> Int] /\ acc.block = x[i - 1] \div PAGE_SIZE
          /\ \A b \in 0 .. B - 1 : acc.count[b] = Cardinality(Touching(x, b, i - 1))
      BY <3>2
    <3>4. ASSUME NEW b \in 0 .. B - 1
          PROVE  acc.count[b] + Adds(acc, x[i], b) = Cardinality(Touching(x, b, i))
      <4>1. acc.block <= b <=> x[i - 1] < (b + 1) * PAGE_SIZE
        <5>1. PICK a : a = x[i - 1]
          OBVIOUS
        <5>2. a \in Nat /\ b \in Nat /\ PAGE_SIZE \in Nat \ {0}
          BY <1>1, <3>1, <5>1
        <5>3. a \div PAGE_SIZE <= b <=> a < (b + 1) * PAGE_SIZE
          BY <5>2, DivBelow
        <5> QED
          BY <3>3, <5>1, <5>3
      <4>2. Cardinality(Touching(x, b, i)) = Cardinality(Touching(x, b, i - 1))
              + IF x[i - 1] < (b + 1) * PAGE_SIZE /\ b * PAGE_SIZE < x[i] THEN 1 ELSE 0
        BY <3>1, OneMoreTouching
      <4>3. Adds(acc, x[i], b) = IF x[i - 1] < (b + 1) * PAGE_SIZE /\ b * PAGE_SIZE < x[i] THEN 1 ELSE 0
        BY <2>2, <4>1
      <4> QED
        BY <3>3, <4>2, <4>3
    <3> HIDE DEF Adds
    <3>5. EndOfModule(acc, x[i]) \in Counted(i)
      <4>1. /\ EndOfModule(acc, x[i]).block = x[i] \div PAGE_SIZE
            /\ EndOfModule(acc, x[i]) \in [count : [0 .. B - 1 -> Int], block : Nat]
            /\ \A b \in 0 .. B - 1 : EndOfModule(acc, x[i]).count[b] = acc.count[b] + Adds(acc, x[i], b)
        BY <1>2, <2>1, <3>3
      <4>2. \A b \in 0 .. B - 1 : EndOfModule(acc, x[i]).count[b] = Cardinality(Touching(x, b, i))
        BY <3>4, <4>1
      <4> QED
        BY <4>1, <4>2
    <3> HIDE DEF Counted
    <3> QED
      BY <1>1, <3>5
  <2> QED
    BY <2>3, <2>4
<1>5. InOrder(EndOfModule, none, x) \in P[n]
  <2> HIDE DEF P
  <2>1. P[Len(x)] = P[n]
    OBVIOUS
  <2> QED
    BY <1>3, <1>4, <2>1, EndsInTurn
<1>6. InOrder(EndOfModule, none, x) \in Counted(n)
  <2> HIDE DEF Counted
  <2> QED
    BY <1>1, <1>5
<1> QED
  BY <1>6

(* The module between two ends is that of the page it begins at.           *)
LEMMA TouchedAre ==
  ASSUME prog \in Programs, NEW l \in Libs, BeforeDictionary(prog.lib[l]), NEW b \in Nat,
         NEW x, x = Offsets(prog.lib[l], ModulesOf(l))
  PROVE  Cardinality(Touching(x, b, Len(x))) = Cardinality({p \in RangeOf(prog.lib[l].page) : Touches(l, p, b)})
<1> DEFINE lib == prog.lib[l]
           list == ModulesOf(l)
           n == Len(list)
           S == Touching(x, b, n + 1)
           T == {p \in RangeOf(prog.lib[l].page) : Touches(l, p, b)}
           f == [j \in S |-> list[j - 1]]
<1>1. /\ lib.pageSize \in Nat \ {0} /\ lib.dict \in Nat
      /\ list \in Seq(Nat) /\ Ascends(list) /\ RangeOf(list) = RangeOf(lib.page)
      /\ n \in Nat /\ DOMAIN list = 1 .. n /\ \A i \in 1 .. n : list[i] \in Nat
  <2>1. lib.pageSize \in Nat \ {0} /\ lib.dict \in Nat /\ lib.page \in Seq(Nat)
    BY ProgramsAssumption
  <2>2. list \in Seq(Nat) /\ Ascends(list) /\ RangeOf(list) = RangeOf(lib.page)
    BY ModulesAre
  <2> QED
    BY <2>1, <2>2
<1>2. Len(x) = n + 1 /\ x[n + 1] = lib.dict /\ \A i \in 1 .. n : x[i] = list[i] * lib.pageSize
  BY <1>1, OffsetsAscend
<1> HIDE DEF list, n
<1>3. ASSUME NEW i \in 1 .. n PROVE Ends(l, list[i]) = x[i + 1]
  <2> DEFINE later == {q \in RangeOf(lib.page) : q > list[i]}
  <2>1. later = {list[k] : k \in i + 1 .. n}
    <3>1. \A k \in 1 .. n : list[k] > list[i] <=> k > i
      <4> SUFFICES ASSUME NEW k \in 1 .. n PROVE list[k] > list[i] <=> k > i
        OBVIOUS
      <4>1. k < i => list[k] < list[i]
        BY <1>1 DEF Ascends
      <4>2. i < k => list[i] < list[k]
        BY <1>1 DEF Ascends
      <4>3. k \in Nat /\ i \in Nat /\ list[k] \in Nat /\ list[i] \in Nat
        BY <1>1
      <4>4. k = i => list[k] = list[i]
        OBVIOUS
      <4> QED
        BY <4>1, <4>2, <4>3, <4>4
    <3>2. RangeOf(lib.page) = {list[k] : k \in 1 .. n}
      BY <1>1 DEF RangeOf
    <3>3. i + 1 .. n = {k \in 1 .. n : k > i}
      BY <1>1
    <3> QED
      BY <3>1, <3>2, <3>3
  <2>2. Ends(l, list[i]) = IF later = {} THEN lib.dict
                           ELSE lib.pageSize * (CHOOSE q \in later : \A r \in later : q <= r)
    BY DEF Ends
  <2> HIDE DEF later, lib
  <2>3. CASE i = n
    <3>1. later = {}
      BY <1>1, <2>1, <2>3
    <3> QED
      BY <1>2, <2>2, <2>3, <3>1
  <2>4. CASE i # n
    <3> DEFINE m == list[i + 1]
               least == CHOOSE q \in later : \A r \in later : q <= r
    <3>1. i + 1 \in i + 1 .. n /\ i + 1 \in 1 .. n
      BY <1>1, <2>4
    <3>2. m \in later /\ m \in Nat
      BY <1>1, <2>1, <3>1
    <3>3. \A r \in later : m <= r /\ r \in Nat
      <4> SUFFICES ASSUME NEW k \in i + 1 .. n PROVE m <= list[k] /\ list[k] \in Nat
        BY <2>1
      <4>1. k \in 1 .. n /\ (k = i + 1 \/ i + 1 < k)
        BY <1>1
      <4>2. PICK j : j = i + 1
        OBVIOUS
      <4>3. j \in 1 .. n /\ (k = j \/ j < k)
        BY <3>1, <4>1, <4>2
      <4>4. list[j] <= list[k] /\ list[k] \in Nat
        BY <1>1, <4>1, <4>3 DEF Ascends
      <4> QED
        BY <4>2, <4>4
    <3> HIDE DEF m
    <3>4. least = m
      <4>1. least \in later /\ \A r \in later : least <= r
        BY <3>2, <3>3
      <4>2. least <= m /\ m <= least /\ least \in Nat
        BY <3>2, <3>3, <4>1
      <4> HIDE DEF least
      <4> QED
        BY <3>2, <4>2
    <3>5. x[i + 1] = m * lib.pageSize
      BY <1>2, <3>1 DEF m
    <3>6. later # {}
      BY <3>2
    <3>7. Ends(l, list[i]) = lib.pageSize * m
      BY <2>2, <3>4, <3>6
    <3> QED
      BY <1>1, <3>2, <3>5, <3>7
  <2> QED
    BY <2>3, <2>4
<1>4. ASSUME NEW i \in 1 .. n
      PROVE  Touches(l, list[i], b) <=> x[i] < (b + 1) * PAGE_SIZE /\ b * PAGE_SIZE < x[i + 1]
  <2>1. lib.pageSize * list[i] = x[i]
    <3>1. list[i] \in Nat /\ x[i] = list[i] * lib.pageSize
      BY <1>1, <1>2
    <3> HIDE DEF lib
    <3> QED
      BY <1>1, <3>1
  <2>2. Ends(l, list[i]) = x[i + 1] /\ x[i + 1] \in Nat
    <3>1. i + 1 = n + 1 \/ i + 1 \in 1 .. n
      BY <1>1
    <3>2. \A k \in 1 .. n : list[k] * lib.pageSize \in Nat
      BY <1>1
    <3> QED
      BY <1>1, <1>2, <1>3, <3>1, <3>2
  <2>3. b * PAGE_SIZE \in Nat
    BY LibTablesAssumption
  <2>4. x[i + 1] > b * PAGE_SIZE <=> b * PAGE_SIZE < x[i + 1]
    BY <2>2, <2>3
  <2> QED
    BY <2>1, <2>2, <2>4 DEF Touches, lib
<1>5. \A j \in S : j - 1 \in 1 .. n /\ (j - 1) + 1 = j
  BY <1>1 DEF Touching
<1>6. \A j \in S : f[j] \in T
  <2> SUFFICES ASSUME NEW j \in S PROVE list[j - 1] \in T
    OBVIOUS
  <2>1. x[j - 1] < (b + 1) * PAGE_SIZE /\ b * PAGE_SIZE < x[j]
    BY DEF Touching
  <2>2. Touches(l, list[j - 1], b)
    BY <1>4, <1>5, <2>1
  <2>3. list[j - 1] \in RangeOf(lib.page)
    BY <1>1, <1>5 DEF RangeOf
  <2> QED
    BY <2>2, <2>3
<1>7. \A j, k \in S : f[j] = f[k] => j = k
  <2> SUFFICES ASSUME NEW j \in S, NEW k \in S, list[j - 1] = list[k - 1] PROVE j = k
    OBVIOUS
  <2>1. j - 1 \in 1 .. n /\ k - 1 \in 1 .. n /\ j \in Nat /\ k \in Nat
    BY <1>1, <1>5
  <2>2. ~(j - 1 < k - 1) /\ ~(k - 1 < j - 1)
    <3>1. PICK a, c : a = j - 1 /\ c = k - 1
      OBVIOUS
    <3>2. a \in 1 .. n /\ c \in 1 .. n /\ list[a] = list[c] /\ list[a] \in Nat
      BY <1>1, <2>1, <3>1
    <3>3. ~(a < c) /\ ~(c < a)
      BY <1>1, <3>2 DEF Ascends
    <3> QED
      BY <3>1, <3>3
  <2> QED
    BY <2>1, <2>2
<1>8. \A p \in T : \E j \in S : f[j] = p
  <2> SUFFICES ASSUME NEW p \in T PROVE \E j \in S : list[j - 1] = p
    OBVIOUS
  <2>1. p \in RangeOf(list) /\ Touches(l, p, b)
    BY <1>1
  <2>2. PICK i \in 1 .. n : list[i] = p
    BY <1>1, <2>1 DEF RangeOf
  <2>3. i + 1 \in 2 .. n + 1 /\ (i + 1) - 1 = i
    BY <1>1
  <2>4. i + 1 \in S
    BY <1>4, <2>1, <2>2, <2>3 DEF Touching
  <2> QED
    BY <2>2, <2>3, <2>4
<1>9. IsFiniteSet(S)
  <2>1. IsFiniteSet(2 .. n + 1)
    <3>1. 2 \in Int /\ n + 1 \in Int
      BY <1>1
    <3> QED
      BY <3>1, FS_Interval
  <2>2. S \subseteq 2 .. n + 1
    BY DEF Touching
  <2> QED
    BY <2>1, <2>2, FS_Subset
<1>10. DOMAIN f = S
  OBVIOUS
<1> HIDE DEF S, T, f
<1>11. f \in Bijection(S, T)
  <2>1. f \in [S -> T]
    <3>1. f = [j \in S |-> f[j]]
      BY DEF f
    <3> QED
      BY <1>6, <3>1
  <2>2. f \in Injection(S, T)
    BY <1>7, <2>1 DEF Injection, IsInjective
  <2>3. f \in Surjection(S, T)
    BY <1>8, <2>1 DEF Surjection
  <2> QED
    BY <2>2, <2>3 DEF Bijection
<1>12. Cardinality(S) = Cardinality(T)
  BY <1>9, <1>11, FS_Bijection DEF ExistsBijection
<1> QED
  BY <1>2, <1>12 DEF S, T

(* The counts of a library.                                                *)
LEMMA CountsRight ==
  ASSUME prog \in Programs, NEW l \in Libs, BeforeDictionary(prog.lib[l]), HeaderFits(prog.lib[l])
  PROVE  LET count == CountModsPerBlock(prog.lib[l], ModulesOf(l))
         IN  \A b \in DOMAIN count :
               count[b] = Cardinality({p \in RangeOf(prog.lib[l].page) : Touches(l, p, b)})
<1> DEFINE lib == prog.lib[l]
           list == ModulesOf(l)
           n == Len(list)
           x == Offsets(lib, list)
           ends == [i \in 1 .. Len(list) + 1 |-> IF i > Len(list) THEN lib.dict ELSE list[i] * lib.pageSize]
           none == [count |-> [b \in 0 .. Blocks(lib) - 1 |-> IF b = 0 THEN -1 ELSE 0], block |-> 0]
<1>1. /\ lib.pageSize \in Nat \ {0} /\ lib.dict \in Nat /\ PAGE_SIZE \in Nat \ {0}
      /\ list \in Seq(Nat) /\ Ascends(list) /\ RangeOf(list) = RangeOf(lib.page)
      /\ n \in Nat /\ DOMAIN list = 1 .. n /\ \A i \in 1 .. n : list[i] \in Nat
  <2>1. lib.pageSize \in Nat \ {0} /\ lib.dict \in Nat /\ lib.page \in Seq(Nat) /\ PAGE_SIZE \in Nat \ {0}
    BY ProgramsAssumption, LibTablesAssumption
  <2>2. list \in Seq(Nat) /\ Ascends(list) /\ RangeOf(list) = RangeOf(lib.page)
    BY ModulesAre
  <2> QED
    BY <2>1, <2>2
<1>2. /\ x \in Seq(Nat) /\ Ascends(x) /\ Len(x) = n + 1 /\ DOMAIN x = 1 .. n + 1 /\ x # <<>>
      /\ x[n + 1] = lib.dict /\ \A i \in 1 .. n : x[i] = list[i] * lib.pageSize
  <2>1. /\ x \in Seq(Nat) /\ Ascends(x) /\ Len(x) = n + 1
        /\ x[n + 1] = lib.dict /\ \A i \in 1 .. n : x[i] = list[i] * lib.pageSize
    BY <1>1, OffsetsAscend
  <2>2. DOMAIN x = 1 .. n + 1 /\ x # <<>>
    <3> HIDE DEF x
    <3> QED
      BY <1>1, <2>1
  <2> QED
    BY <2>1, <2>2
<1>3. ends = x
  <2>1. \A i \in 1 .. n + 1 : i > n <=> i = n + 1
    BY <1>1
  <2>2. LIB_MODULES(list) = n + 1
    BY DEF LIB_MODULES
  <2> QED
    BY <2>1, <2>2 DEF Offsets
<1>4. Blocks(lib) \in Nat
  <2>1. lib.dict + PAGE_SIZE - 1 \in Nat
    BY <1>1
  <2> QED
    BY <1>1, <2>1, DivMod DEF Blocks
<1>5. CountModsPerBlock(lib, list) = InOrder(EndOfModule, none, x).count
  <2>1. CountModsPerBlock(lib, list) = InOrder(EndOfModule, none, ends).count
    BY DEF CountModsPerBlock
  <2> HIDE DEF ends, x, none
  <2> QED
    BY <1>3, <2>1
<1>6. 0 < x[1]
  <2>1. CASE n = 0
    BY <1>2, <2>1 DEF HeaderFits
  <2>2. CASE n # 0
    <3>1. 1 \in 1 .. n /\ list[1] \in RangeOf(lib.page)
      <4>1. 1 \in 1 .. n
        BY <1>1, <2>2
      <4>2. list[1] \in RangeOf(list)
        BY <1>1, <4>1 DEF RangeOf
      <4> QED
        BY <1>1, <4>1, <4>2
    <3>2. 0 < list[1] /\ list[1] \in Nat
      BY <1>1, <3>1 DEF HeaderFits
    <3>3. 0 * lib.pageSize < list[1] * lib.pageSize
      BY <1>1, <3>2, TimesLess
    <3> QED
      BY <1>1, <1>2, <3>1, <3>3
  <2> QED
    BY <2>1, <2>2
<1>7. x[1] <= PAGE_SIZE
  <2>1. PICK y \in {p * lib.pageSize : p \in RangeOf(lib.page)} \union {lib.dict} : y <= PAGE_SIZE
    BY DEF HeaderFits
  <2>2. \E i \in 1 .. n + 1 : x[i] = y
    <3>1. CASE y = lib.dict
      <4>1. n + 1 \in 1 .. n + 1
        BY <1>1
      <4> QED
        BY <1>2, <3>1, <4>1
    <3>2. CASE y # lib.dict
      <4>1. PICK p \in RangeOf(lib.page) : y = p * lib.pageSize
        BY <2>1, <3>2
      <4>2. PICK i \in 1 .. n : list[i] = p
        BY <1>1, <4>1 DEF RangeOf
      <4>3. i \in 1 .. n + 1
        BY <1>1
      <4> QED
        BY <1>2, <4>1, <4>2, <4>3
    <3> QED
      BY <3>1, <3>2
  <2>3. PICK i \in 1 .. n + 1 : x[i] = y
    BY <2>2
  <2> HIDE DEF x
  <2>4. 1 \in 1 .. n + 1 /\ x[1] \in Nat /\ x[i] \in Nat /\ (i = 1 \/ 1 < i)
    BY <1>1, <1>2
  <2>5. x[1] <= x[i]
    BY <1>2, <2>4 DEF Ascends
  <2> QED
    BY <1>1, <2>1, <2>3, <2>4, <2>5
<1>8. /\ DOMAIN InOrder(EndOfModule, none, x).count = 0 .. Blocks(lib) - 1
      /\ \A b \in 0 .. Blocks(lib) - 1 :
           InOrder(EndOfModule, none, x).count[b] = Cardinality(Touching(x, b, Len(x)))
  <2> HIDE DEF x
  <2> QED
    BY <1>2, <1>4, <1>6, <1>7, EndsCounted
<1>9. \A b \in 0 .. Blocks(lib) - 1 : b \in Nat
  BY <1>4
<1>10. \A b \in Nat : Cardinality(Touching(x, b, Len(x)))
                        = Cardinality({p \in RangeOf(prog.lib[l].page) : Touches(l, p, b)})
  BY TouchedAre
<1> HIDE DEF x, none
<1> QED
  BY <1>5, <1>8, <1>9, <1>10

-----------------------------------------------------------------------------
(* The tables of the libraries opened.                                     *)
Tabled == \A l \in RangeOf(opened) : tab.ptrs[l] = DoModulePtrs(prog.lib[l], ModulesOf(l))

(* What holds of a sequence when one more is put at its end.               *)
LEMMA OneMoreOpen ==
  ASSUME NEW q \in Seq(Libs), NEW l \in Libs
  PROVE  /\ RangeOf(Append(q, l)) = RangeOf(q) \union {l} /\ Last(Append(q, l)) = l
         /\ IsInjective(q) /\ l \notin RangeOf(q) => IsInjective(Append(q, l))
<1>1. Append(q, l)[Len(q) + 1] = l /\ Len(Append(q, l)) = Len(q) + 1
  OBVIOUS
<1>2. Last(Append(q, l)) = l
  BY <1>1 DEF Last
<1> QED
  BY <1>2, AppendOne

(* Going through a dictionary lays out the offsets of one library.         *)
LEMMA OpensIs ==
  ASSUME Inv, OpenLib, NEW l, l = Head(toOpen)
  PROVE  /\ l \in Libs /\ l \in RangeOf(toOpen) /\ opened' = Append(opened, l) /\ opened \in Seq(Libs)
         /\ RangeOf(opened') = RangeOf(opened) \union {l} /\ Last(opened') = l
         /\ tab' = DefineLibSymbols(tab, l) /\ Sound(tab, {}) /\ prog \in Programs /\ prog' = prog
         /\ tab'.ptrs = [tab.ptrs EXCEPT ![l] = DoModulePtrs(prog.lib[l], ModulesOf(l))]
<1>1. toOpen \in Seq(Libs) /\ toOpen # <<>> /\ opened \in Seq(Libs) /\ prog \in Programs /\ Sound(tab, {})
      /\ prog' = prog /\ opened' = Append(opened, l) /\ tab' = DefineLibSymbols(tab, l)
  BY DEF Inv, Provided, OpenLib
<1>2. l \in Libs /\ l \in RangeOf(toOpen)
  <2>1. \A q \in Seq(Libs) : q # <<>> => Head(q) \in Libs /\ 1 \in DOMAIN q /\ Head(q) = q[1]
    OBVIOUS
  <2> QED
    BY <1>1, <2>1 DEF RangeOf
<1>3. RangeOf(opened') = RangeOf(opened) \union {l} /\ Last(opened') = l
  BY <1>1, <1>2, OneMoreOpen
<1>4. PICK v : v = Laid(tab, l)
  OBVIOUS
<1>5. v.ptrs = [tab.ptrs EXCEPT ![l] = DoModulePtrs(prog.lib[l], ModulesOf(l))]
  <2>1. Sound(tab, {}) /\ l \in Libs /\ prog \in Programs
    BY <1>1, <1>2
  <2> QED
    BY <1>4, <2>1, LaidIs
<1>6. Calm(v, tab')
  BY <1>1, <1>2, <1>4, DefineMoves
<1> QED
  BY <1>1, <1>2, <1>3, <1>5, <1>6 DEF Calm

(* What is numbered is what was waiting, weak or not named yet.            *)
LEMMA NumbersIs ==
  ASSUME Inv, NumberModules, NEW l, l = Last(opened)
  PROVE  /\ l \in Libs /\ prog \in Programs /\ prog' = prog /\ opened' = opened /\ pc = "number" /\ pc' # "number"
         /\ tab'.lib = tab.lib /\ tab'.number = Numbers(tab, l) /\ tab'.ptrs = tab.ptrs
<1>1. l \in Libs /\ prog \in Programs /\ tab' = UpdateLibSymbols(tab, l) /\ Sound(tab, {})
      /\ prog' = prog /\ opened' = opened /\ pc = "number" /\ pc' # "number"
  BY LastOpened DEF NumberModules, Inv
<1>2. PICK v : v = Numbered(tab, l)
  OBVIOUS
<1>3. v.lib = tab.lib /\ v.number = Numbers(tab, l) /\ Calm(tab, v)
  BY <1>1, <1>2, NumberedIs
<1>4. Later(v, tab')
  BY <1>1, <1>2, UpdateMoves
<1> QED
  BY <1>1, <1>3, <1>4 DEF Calm, Later

(* Nothing else touches these tables, and no other step comes to or from   *)
(* the numbering of modules.                                               *)
LEMMA OtherSteps ==
  ASSUME Inv, [Next]_vars, ~OpenLib, ~NumberModules
  PROVE  /\ prog' = prog /\ opened' = opened /\ unused' = unused
         /\ tab'.lib = tab.lib /\ tab'.number = tab.number /\ tab'.ptrs = tab.ptrs
         /\ (pc = "number" <=> pc' = "number")
         /\ (UNCHANGED <<tab, pc>> \/ pc # "number")
<1>1. Sound(tab, {}) /\ tab \in TabSet /\ prog \in Programs
  BY TypeOf DEF Inv, Provided
<1>2. Later(tab, tab)
  BY <1>1, CalmLater DEF Calm
<1>3. CASE ReadObject
  <2>1. Head(objs) \in ModuleType
    <3>1. objs \in Seq(ModuleType) /\ objs # <<>>
      BY <1>3 DEF Inv, Provided, Control, ReadObject
    <3>2. \A W : \A q \in Seq(W) : q # <<>> => Head(q) \in W
      OBVIOUS
    <3> QED
      BY <3>1, <3>2
  <2>2. Head(objs) \in Modules(prog)
    <3>1. objs \in Seq(ModuleType) /\ objs # <<>> /\ RangeOf(objs) \subseteq RangeOf(prog.objs)
      BY <1>3 DEF Inv, Provided, Control, Recorded, ReadObject
    <3> QED
      BY <3>1, TailIs DEF Modules
  <2>3. Held(tab, Head(objs).code \intersect data)
    BY <2>2, HeldNow
  <2>4. Later(tab, tab')
    BY <1>1, <1>3, <2>1, <2>3, ReadModuleMoves DEF ReadObject
  <2> QED
    BY <1>3, <2>4 DEF ReadObject, Later
<1>4. CASE NoMoreLibs \/ SelectLibrary \/ ScanEnds
  <2>1. pc \in DOMAIN Defined => pc # "number" /\ ScanAfter[pc] # "number"
    BY DefinedAre DEF ScanAfter
  <2> QED
    BY <1>4, <2>1 DEF NoMoreLibs, SelectLibrary, ScanEnds
<1>5. CASE ProcessModule
  <2>1. cur # None /\ tab' = CountedOff(After, cur) /\ pc' \in {"next", pc}
        /\ prog' = prog /\ opened' = opened /\ unused' = unused
    BY <1>5, ProcessIs
  <2>2. pc \in {"one", "all"}
    BY <2>1 DEF Inv, Control
  <2>3. /\ Sound(After, {}) /\ cur \in RangeOf(After.requests) /\ Chosen \in ModuleType
        /\ Held(tab, Chosen.code \intersect data)
    BY <2>1, AfterMoves, HeldNow
  <2>4. Later(tab, After)
    <3>1. CASE tab.wanted[cur] = <<>>
      BY <1>2, <3>1 DEF After
    <3>2. CASE tab.wanted[cur] # <<>>
      <4>1. After = ReadModule(tab, data, Chosen, cur, tab.number[Head(tab.wanted[cur])])
        BY <3>2 DEF After
      <4> QED
        BY <1>1, <2>3, <4>1, ReadModuleMoves
    <3> QED
      BY <3>1, <3>2
  <2>5. tab'.lib = After.lib /\ tab'.number = After.number /\ tab'.ptrs = After.ptrs
    <3>1. PICK a : a = After
      OBVIOUS
    <3>2. PICK u : u = CountedOff(a, cur)
      OBVIOUS
    <3>3. u.lib = a.lib /\ u.number = a.number /\ u.ptrs = a.ptrs
      BY <2>3, <3>1, <3>2, CountsOff
    <3> QED
      BY <2>1, <3>1, <3>2, <3>3
  <2> QED
    BY <2>1, <2>2, <2>4, <2>5 DEF Later
<1>6. CASE ScanExports
  <2>1. tab' = ScanUndeco(tab).t /\ pc' \in {"next", "ALIASED"} /\ pc = "undeco"
    BY <1>6 DEF ScanExports
  <2>2. tab'.lib = tab.lib /\ tab'.number = tab.number /\ tab'.ptrs = tab.ptrs
    BY <1>1, <2>1, ScanUndecoMoves
  <2> QED
    BY <1>6, <2>1, <2>2 DEF ScanExports
<1>7. CASE ScanTurn
  <2>1. /\ pc \in DOMAIN Defined /\ tab.list[pc] # <<>> /\ tab' = Turn(tab, pc, Defined[pc])
        /\ pc' \in {"next", pc} /\ prog' = prog /\ opened' = opened /\ unused' = unused
    BY <1>7 DEF ScanTurn
  <2>2. Later(tab, tab')
    BY <1>1, <2>1, TurnMoves
  <2>3. pc # "number"
    BY <2>1, DefinedAre
  <2> QED
    BY <2>1, <2>2, <2>3 DEF Later
<1>8. CASE UNCHANGED vars
  BY <1>8 DEF vars
<1> QED
  BY <1>3, <1>4, <1>5, <1>6, <1>7, <1>8 DEF Next

(* Every step keeps the offsets.                                           *)
LEMMA TabledStep ==
  ASSUME Inv, Tabled, [Next]_vars
  PROVE  Tabled'
<1>1. opened \in Seq(Libs) /\ tab \in TabSet /\ RangeOf(opened) \subseteq Libs
  BY TypeOf DEF Inv, Provided, RangeOf
<1>2. prog' = prog => \A l : (ModulesOf(l))' = ModulesOf(l)
  BY DEF ModulesOf
<1>3. CASE OpenLib
  <2>1. PICK l : l = Head(toOpen)
    OBVIOUS
  <2>2. /\ l \in Libs /\ RangeOf(opened') = RangeOf(opened) \union {l} /\ prog' = prog
        /\ tab'.ptrs = [tab.ptrs EXCEPT ![l] = DoModulePtrs(prog.lib[l], ModulesOf(l))]
    BY <1>3, <2>1, OpensIs
  <2>3. tab.ptrs \in [Libs -> PtrsType]
    BY <1>1 DEF TabSet
  <2>4. \A k \in RangeOf(opened') : k \in Libs /\ tab'.ptrs[k] = DoModulePtrs(prog.lib[k], ModulesOf(k))
    <3> SUFFICES ASSUME NEW k \in RangeOf(opened')
                 PROVE  k \in Libs /\ tab'.ptrs[k] = DoModulePtrs(prog.lib[k], ModulesOf(k))
      OBVIOUS
    <3>1. CASE k = l
      BY <2>2, <2>3, <3>1
    <3>2. CASE k # l
      <4>1. k \in RangeOf(opened) /\ k \in Libs
        BY <1>1, <2>2, <3>2
      <4>2. tab.ptrs[k] = DoModulePtrs(prog.lib[k], ModulesOf(k))
        BY <4>1 DEF Tabled
      <4> QED
        BY <2>2, <2>3, <3>2, <4>1, <4>2
    <3> QED
      BY <3>1, <3>2
  <2> QED
    BY <1>2, <2>2, <2>4 DEF Tabled
<1>4. CASE ~OpenLib
  <2>1. prog' = prog /\ opened' = opened /\ tab'.ptrs = tab.ptrs
    <3>1. CASE NumberModules
      BY <3>1, NumbersIs
    <3>2. CASE ~NumberModules
      BY <1>4, <3>2, OtherSteps
    <3> QED
      BY <3>1, <3>2
  <2> QED
    BY <1>2, <2>1 DEF Tabled
<1> QED
  BY <1>3, <1>4

WellLaid ==
  \A p \in Programs : \A l \in Libs : BeforeDictionary(p.lib[l]) /\ HeaderFits(p.lib[l])

(* So the tables are right.                                                *)
LEMMA TabledRight ==
  ASSUME WellLaid, Inv, Tabled
  PROVE  TablesRight
<1> SUFFICES ASSUME pc = "number"
             PROVE  LET l == Last(opened)
                        pages == RangeOf(prog.lib[l].page)
                    IN  /\ \A p \in pages : PageAt(tab, l, BinserModule(prog.lib[l], tab.ptrs[l], p)) = p
                        /\ \A list \in {ModulesOf(l)} : \A count \in {CountModsPerBlock(prog.lib[l], list)} :
                             \A b \in DOMAIN count : count[b] = Cardinality({p \in pages : Touches(l, p, b)})
  BY DEF TablesRight
<1>1. PICK l : l = Last(opened)
  OBVIOUS
<1>2. l \in Libs /\ prog \in Programs /\ l \in RangeOf(opened)
  <2>1. opened \in Seq(Libs) /\ opened # <<>>
    BY DEF Inv, Provided, Control
  <2>2. Len(opened) \in DOMAIN opened
    BY <2>1
  <2> QED
    BY <1>1, <2>2, LastOpened DEF Last, RangeOf
<1>3. BeforeDictionary(prog.lib[l]) /\ HeaderFits(prog.lib[l])
  BY <1>2 DEF WellLaid
<1>4. tab.ptrs[l] = DoModulePtrs(prog.lib[l], ModulesOf(l))
  BY <1>2 DEF Tabled
<1>5. \A p \in RangeOf(prog.lib[l].page) : PageAt(tab, l, BinserModule(prog.lib[l], tab.ptrs[l], p)) = p
  BY <1>2, <1>3, <1>4, PageFound
<1>6. \A b \in DOMAIN CountModsPerBlock(prog.lib[l], ModulesOf(l)) :
        CountModsPerBlock(prog.lib[l], ModulesOf(l))[b]
          = Cardinality({p \in RangeOf(prog.lib[l].page) : Touches(l, p, b)})
  BY <1>2, <1>3, CountsRight
<1> QED
  BY <1>1, <1>5, <1>6

(* The tables of a library lead from a page of its dictionary to the module*)
(* that begins there, and count for each block the modules that touch it.  *)
(* (The proof rests on sound lists, and so on NoClash.)                    *)
THEOREM AlwaysTablesRight ==
  ASSUME WellLaid, NoClash
  PROVE  Spec => []TablesRight
<1>1. Init => Inv /\ Tabled
  <2>1. Init => opened = <<>>
    BY DEF Init
  <2>2. RangeOf(<<>>) = {}
    BY DEF RangeOf
  <2> QED
    BY <2>1, <2>2, StartsSound DEF Tabled
<1>2. Inv /\ Tabled /\ [Next]_vars => Inv' /\ Tabled'
  BY StepKeeps, TabledStep
<1>3. Inv /\ Tabled => TablesRight
  BY TabledRight
<1> QED
  BY <1>1, <1>2, <1>3, PTL DEF Spec

-----------------------------------------------------------------------------
(* What is wanted is in the module it is wanted from.                      *)

(* The list of libraries names each once, and so does each module.         *)
OneEach ==
  \A p \in Programs : IsInjective(p.libs) /\ \A m \in Modules(p) : IsInjective(m.libs)

(* No library is opened twice.                                             *)
Apart ==
  /\ IsInjective(toOpen) /\ IsInjective(opened) /\ RangeOf(toOpen) \intersect RangeOf(opened) = {}
  /\ RangeOf(objs) \subseteq RangeOf(prog.objs)

(* Two sequences with nothing in common.                                   *)
LEMMA JoinedOnce ==
  ASSUME NEW W, NEW q \in Seq(W), NEW r \in Seq(W), IsInjective(q), IsInjective(r),
         RangeOf(q) \intersect RangeOf(r) = {}
  PROVE  IsInjective(q \o r)
<1> DEFINE n == Len(q)
           k == Len(r)
           s == q \o r
<1>1. /\ n \in Nat /\ k \in Nat /\ DOMAIN q = 1 .. n /\ DOMAIN r = 1 .. k /\ DOMAIN s = 1 .. n + k
      /\ \A i \in 1 .. n : s[i] = q[i]
      /\ \A i \in 1 .. k : s[n + i] = r[i]
  OBVIOUS
<1> HIDE DEF n, k, s
<1>2. ASSUME NEW i \in DOMAIN s
      PROVE  \/ i \in 1 .. n /\ s[i] = q[i] /\ s[i] \in RangeOf(q)
             \/ i - n \in 1 .. k /\ s[i] = r[i - n] /\ s[i] \in RangeOf(r)
  <2>1. CASE i \in 1 .. n
    BY <1>1, <2>1 DEF RangeOf
  <2>2. CASE i \notin 1 .. n
    <3>1. PICK j : j = i - n
      OBVIOUS
    <3>2. j \in 1 .. k /\ n + j = i
      BY <1>1, <2>2, <3>1
    <3>3. s[i] = r[j]
      BY <1>1, <3>2
    <3> QED
      BY <1>1, <3>1, <3>2, <3>3 DEF RangeOf
  <2> QED
    BY <2>1, <2>2
<1>3. ASSUME NEW i \in DOMAIN s, NEW j \in DOMAIN s, s[i] = s[j] PROVE i = j
  <2>1. CASE i \in 1 .. n /\ s[i] = q[i] /\ s[i] \in RangeOf(q)
    <3>1. j \in 1 .. n /\ s[j] = q[j]
      BY <1>2, <1>3, <2>1
    <3> QED
      BY <1>1, <1>3, <2>1, <3>1 DEF IsInjective
  <2>2. CASE i - n \in 1 .. k /\ s[i] = r[i - n] /\ s[i] \in RangeOf(r)
    <3>1. j - n \in 1 .. k /\ s[j] = r[j - n]
      BY <1>2, <1>3, <2>2
    <3>2. PICK a, b : a = i - n /\ b = j - n
      OBVIOUS
    <3>3. a = b
      BY <1>1, <1>3, <2>2, <3>1, <3>2 DEF IsInjective
    <3>4. i \in Int /\ j \in Int
      BY <1>1
    <3> QED
      BY <1>1, <3>2, <3>3, <3>4
  <2> QED
    BY <1>2, <2>1, <2>2
<1>4. IsInjective(s)
  BY <1>3 DEF IsInjective
<1> QED
  BY <1>4 DEF s

(* What a module asks for is put behind what is to be opened.              *)
LEMMA AskedApart ==
  ASSUME Provided, Apart, NEW m \in ModuleType, IsInjective(m.libs)
  PROVE  /\ IsInjective(toOpen \o Asked(m))
         /\ RangeOf(toOpen \o Asked(m)) \intersect RangeOf(opened) = {}
<1> DEFINE D == Libs \ (RangeOf(toOpen) \union RangeOf(opened))
<1>1. toOpen \in Seq(Libs) /\ opened \in Seq(Libs) /\ m.libs \in Seq(Libs)
  BY ModuleIs DEF Provided
<1>2. Asked(m) \in Seq(Libs) /\ RangeOf(Asked(m)) = RangeOf(m.libs) \intersect D /\ IsInjective(Asked(m))
  BY <1>1, ThoseAre DEF Asked
<1>3. RangeOf(toOpen \o Asked(m)) = RangeOf(toOpen) \union RangeOf(Asked(m))
  BY <1>1, <1>2, JoinedRange
<1>4. RangeOf(toOpen) \intersect RangeOf(Asked(m)) = {} /\ RangeOf(Asked(m)) \intersect RangeOf(opened) = {}
  BY <1>2
<1>5. IsInjective(toOpen \o Asked(m))
  BY <1>1, <1>2, <1>4, JoinedOnce DEF Apart
<1> QED
  BY <1>3, <1>4, <1>5 DEF Apart

(* A module names each library once.                                       *)
LEMMA AsksOnce ==
  ASSUME OneEach, prog \in Programs
  PROVE  /\ \A m \in RangeOf(prog.objs) : IsInjective(m.libs)
         /\ \A l \in Libs : \A p : IsInjective(ModuleAt(l, p).libs)
<1>1. \A m \in Modules(prog) : IsInjective(m.libs)
  BY DEF OneEach
<1>2. \A m \in RangeOf(prog.objs) : IsInjective(m.libs)
  BY <1>1 DEF Modules
<1>3. ASSUME NEW l \in Libs, NEW p PROVE IsInjective(ModuleAt(l, p).libs)
  <2>1. CASE p \in RangeOf(prog.lib[l].page)
    <3>1. prog.module[l][p] \in Modules(prog)
      BY <2>1 DEF Modules, Library
    <3> QED
      BY <1>1, <2>1, <3>1 DEF ModuleAt
  <2>2. CASE p \notin RangeOf(prog.lib[l].page)
    <3>1. ModuleAt(l, p).libs = <<>>
      BY <2>2 DEF ModuleAt, Nothing
    <3>2. IsInjective(<<>>)
      BY DEF IsInjective
    <3> QED
      BY <3>1, <3>2
  <2> QED
    BY <2>1, <2>2
<1> QED
  BY <1>2, <1>3

(* and no library is opened twice.                                         *)
LEMMA ApartStep ==
  ASSUME OneEach, Inv, Apart, [Next]_vars
  PROVE  Apart'
<1>1. toOpen \in Seq(Libs) /\ opened \in Seq(Libs) /\ objs \in Seq(ModuleType) /\ prog \in Programs /\ Provided
  BY DEF Inv, Provided
<1>2. CASE ReadObject
  <2>1. objs # <<>> /\ objs' = Tail(objs) /\ toOpen' = toOpen \o Asked(Head(objs)) /\ opened' = opened /\ prog' = prog
    BY <1>2 DEF Inv, Control, ReadObject
  <2>2. Head(objs) \in RangeOf(objs) /\ RangeOf(Tail(objs)) \subseteq RangeOf(objs)
    BY <1>1, <2>1, TailIs
  <2>3. Head(objs) \in ModuleType
    BY <1>1, <2>2 DEF RangeOf
  <2>4. IsInjective(Head(objs).libs)
    BY <1>1, <2>2, AsksOnce DEF Apart
  <2> QED
    BY <1>1, <2>1, <2>2, <2>3, <2>4, AskedApart DEF Apart
<1>3. CASE OpenLib
  <2>1. toOpen # <<>> /\ toOpen' = Tail(toOpen) /\ opened' = Append(opened, Head(toOpen)) /\ objs' = objs /\ prog' = prog
    BY <1>3 DEF OpenLib
  <2>2. /\ Head(toOpen) \in RangeOf(toOpen) /\ RangeOf(Tail(toOpen)) \subseteq RangeOf(toOpen)
        /\ IsInjective(Tail(toOpen)) /\ Head(toOpen) \notin RangeOf(Tail(toOpen))
    BY <1>1, <2>1, TailIs DEF Apart
  <2>3. Head(toOpen) \in Libs /\ Head(toOpen) \notin RangeOf(opened)
    <3>1. RangeOf(toOpen) \subseteq Libs
      BY <1>1 DEF RangeOf
    <3>2. RangeOf(toOpen) \intersect RangeOf(opened) = {}
      BY DEF Apart
    <3> QED
      BY <2>2, <3>1, <3>2
  <2>4. /\ RangeOf(Append(opened, Head(toOpen))) = RangeOf(opened) \union {Head(toOpen)}
        /\ IsInjective(Append(opened, Head(toOpen)))
    BY <1>1, <2>3, OneMoreOpen DEF Apart
  <2> QED
    BY <2>1, <2>2, <2>4 DEF Apart
<1>4. CASE ProcessModule
  <2>1. /\ toOpen' = IF tab.wanted[cur] = <<>> THEN toOpen ELSE toOpen \o Asked(Chosen)
        /\ opened' = opened /\ objs' = objs /\ prog' = prog /\ cur # None
    BY <1>4, ProcessIs
  <2>2. Chosen \in ModuleType /\ cur \in Libs
    BY <2>1, AfterMoves
  <2>3. IsInjective(Chosen.libs)
    BY <1>1, <2>2, AsksOnce DEF Chosen
  <2>4. /\ IsInjective(toOpen \o Asked(Chosen))
        /\ RangeOf(toOpen \o Asked(Chosen)) \intersect RangeOf(opened) = {}
    BY <1>1, <2>2, <2>3, AskedApart
  <2> QED
    BY <2>1, <2>4 DEF Apart
<1>5. CASE UNCHANGED <<prog, objs, toOpen, opened>>
  BY <1>5 DEF Apart
<1>6. CASE NumberModules \/ NoMoreLibs \/ SelectLibrary \/ ScanExports \/ ScanTurn \/ ScanEnds \/ UNCHANGED vars
  BY <1>5, <1>6 DEF NumberModules, NoMoreLibs, SelectLibrary, ScanExports, ScanTurn, ScanEnds, vars
<1> QED
  BY <1>2, <1>3, <1>4, <1>6 DEF Next

(* The number the table of a library gives a page.                         *)
NumberOf(l, p) == BinserModule(prog.lib[l], DoModulePtrs(prog.lib[l], ModulesOf(l)), p)

(* What a dictionary may find a symbol to be, or make it.                  *)
Fresh == {"EXTERNAL", "WEAK_EXTRN", "WEAK_DEFINED", "WEAK_UNREF", "LIBRARY"}

(* A symbol of a library has the page of the dictionary while that is being*)
(* gone through, and the number of that page ever after.                   *)
Placed ==
  \A s \in Syms : \A l \in Libs : \A n \in Int : tab.lib[s] = l /\ tab.number[s] = n =>
    /\ l \in RangeOf(opened)
    /\ pc = "number" /\ l = Last(opened) =>
         <<s, n>> \in Says(l) /\ tab.type[s] \in Fresh /\ (tab.type[s] = "LIBRARY" => s \in unused)
    /\ ~(pc = "number" /\ l = Last(opened)) => \E p \in Nat : <<s, p>> \in Says(l) /\ n = NumberOf(l, p)

UnusedHere == unused \subseteq Syms /\ \A s \in unused : pc = "number" /\ tab.lib[s] = Last(opened)

(* A weak symbol on its stand-in, or not in use, is in no dictionary that  *)
(* is gone through.                                                        *)
NoWeakPassedOver ==
  pc = "number" => \A s \in Syms : tab.lib[s] = Last(opened) => tab.type[s] \notin {"WEAK_DEFINED", "WEAK_UNREF"}

(* What the dictionaries say stays.                                        *)
LEMMA SaysStay ==
  ASSUME prog' = prog
  PROVE  \A l : (Says(l))' = Says(l) /\ \A p : (NumberOf(l, p))' = NumberOf(l, p)
BY DEF Says, NumberOf, ModulesOf

(* What a dictionary leaves of the table: a symbol is as it was, or of     *)
(* this library.                                                           *)
AsBefore(t, u, s) == u.lib[s] = t.lib[s] /\ u.number[s] = t.number[s] /\ u.type[s] = t.type[s]
FoundHere(t, u, s, l) ==
  /\ u.lib[s] = l /\ <<s, u.number[s]>> \in Says(l) /\ u.type[s] \in Fresh
  /\ u.type[s] = "LIBRARY" => t.type[s] # "LIBRARY"

(* An entry of the dictionary,                                             *)
LEMMA EntryFinds ==
  ASSUME NEW t, NEW w, Sound(w, {}), NEW l \in Libs, NEW e \in Says(l),
         \A s \in Syms : AsBefore(t, w, s) \/ FoundHere(t, w, s, l),
         NEW x, x = LibSymbol(w, e[1], l, e[2])
  PROVE  \A s \in Syms : AsBefore(t, x, s) \/ FoundHere(t, x, s, l)
<1>1. PICK s, p : s = e[1] /\ p = e[2]
  OBVIOUS
<1>2. s \in Syms /\ p \in Int /\ <<s, p>> \in Says(l)
  BY <1>1 DEF Says
<1>3. Others(w, x, s) /\ EntryLeads(w, x, s, l, p)
  BY <1>1, <1>2, LibSymbolMoves
<1>4. ASSUME NEW y \in Syms, y # s PROVE AsBefore(t, x, y) \/ FoundHere(t, x, y, l)
  <2>1. x.type[y] = w.type[y] /\ x.lib[y] = w.lib[y] /\ x.number[y] = w.number[y]
    BY <1>3, <1>4 DEF Others
  <2>2. AsBefore(t, w, y) \/ FoundHere(t, w, y, l)
    OBVIOUS
  <2>3. AsBefore(t, w, y) => AsBefore(t, x, y)
    BY <2>1 DEF AsBefore
  <2>4. FoundHere(t, w, y, l) => FoundHere(t, x, y, l)
    BY <2>1 DEF FoundHere
  <2> QED
    BY <2>2, <2>3, <2>4
<1>5. AsBefore(t, x, s) \/ FoundHere(t, x, s, l)
  <2>1. AsBefore(t, w, s) \/ FoundHere(t, w, s, l)
    BY <1>2
  <2>2. CASE x.type[s] = w.type[s] /\ x.lib[s] = w.lib[s] /\ x.number[s] = w.number[s]
    <3>1. AsBefore(t, w, s) => AsBefore(t, x, s)
      BY <2>2 DEF AsBefore
    <3>2. FoundHere(t, w, s, l) => FoundHere(t, x, s, l)
      BY <2>2 DEF FoundHere
    <3> QED
      BY <2>1, <3>1, <3>2
  <2>3. CASE /\ x.lib[s] = l /\ x.number[s] = p
             /\ \/ w.type[s] \in {"UNDEFINED", "LAZY_UNREF", "NCOMM_UNREF"} /\ x.type[s] = "LIBRARY"
                \/ w.type[s] \in {"EXTERNAL", "LAZY", "LAZY_DEFINED", "COMM_NEAR"} /\ x.type[s] = "EXTERNAL"
                \/ w.type[s] \in {"WEAK_EXTRN", "WEAK_DEFINED", "WEAK_UNREF"} /\ x.type[s] = w.type[s]
    <3>1. x.type[s] \in Fresh
      BY <2>3 DEF Fresh
    <3>2. ASSUME x.type[s] = "LIBRARY" PROVE t.type[s] # "LIBRARY"
      <4>1. w.type[s] \in {"UNDEFINED", "LAZY_UNREF", "NCOMM_UNREF"}
        BY <2>3, <3>2
      <4>2. AsBefore(t, w, s)
        BY <2>1, <4>1 DEF FoundHere, Fresh
      <4> QED
        BY <4>1, <4>2 DEF AsBefore
    <3>3. FoundHere(t, x, s, l)
      BY <1>2, <2>3, <3>1, <3>2 DEF FoundHere
    <3> QED
      BY <3>3
  <2> QED
    BY <1>3, <2>2, <2>3 DEF EntryLeads
<1> QED
  BY <1>4, <1>5

(* and all of them.                                                        *)
LEMMA DefineFinds ==
  ASSUME prog \in Programs, NEW l \in Libs, NEW t, Sound(t, {})
  PROVE  \A s \in Syms : AsBefore(t, DefineLibSymbols(t, l), s) \/ FoundHere(t, DefineLibSymbols(t, l), s, l)
<1>1. PICK v : v = Laid(t, l)
  OBVIOUS
<1>2. Sound(v, {}) /\ v.type = t.type /\ v.lib = t.lib /\ v.number = t.number
  <2>1. /\ Sound(v, {}) /\ v.type = t.type /\ v.refd = t.refd /\ v.lib = t.lib /\ v.for = t.for
        /\ v.number = t.number /\ v.list = t.list /\ v.wanted = t.wanted
        /\ v.marked = t.marked /\ v.selected = t.selected /\ v.requests = t.requests /\ v.undeco = t.undeco
        /\ v.ptrs = [t.ptrs EXCEPT ![l] = DoModulePtrs(prog.lib[l], ModulesOf(l))]
    BY <1>1, LaidIs
  <2> QED
    BY <2>1
<1> DEFINE Q == {w \in TabSet : Sound(w, {}) /\ \A s \in Syms : AsBefore(t, w, s) \/ FoundHere(t, w, s, l)}
<1>3. v \in Q
  BY <1>2, TypeOf DEF AsBefore
<1>4. ASSUME NEW w \in Q, NEW e \in Says(l)
      PROVE  LibSymbol(w, e[1], l, e[2]) \in Q
  <2>1. PICK x : x = LibSymbol(w, e[1], l, e[2])
    OBVIOUS
  <2>2. e[1] \in Syms /\ e[2] \in Int
    BY DEF Says
  <2>3. Sound(x, {})
    BY <2>1, <2>2, LibSymbolMoves
  <2>4. \A s \in Syms : AsBefore(t, x, s) \/ FoundHere(t, x, s, l)
    BY <2>1, EntryFinds
  <2> QED
    BY <2>1, <2>3, <2>4, TypeOf
<1>5. DefineLibSymbols(t, l) \in Q
  <2> HIDE DEF Q
  <2> QED
    BY <1>1, <1>3, <1>4, DefineStays
<1> QED
  BY <1>5

(* The page of a symbol where its dictionary is gone through,              *)
LEMMA PlacedOpens ==
  ASSUME Inv, Apart, Placed, OpenLib
  PROVE  Placed' /\ UnusedHere'
<1>1. PICK l : l = Head(toOpen)
  OBVIOUS
<1>2. /\ l \in Libs /\ l \in RangeOf(toOpen) /\ RangeOf(opened') = RangeOf(opened) \union {l} /\ Last(opened') = l
      /\ tab' = DefineLibSymbols(tab, l) /\ Sound(tab, {}) /\ prog \in Programs /\ prog' = prog
  BY <1>1, OpensIs
<1>3. pc = "next" /\ pc' = "number" /\ unused' = {s \in Syms : tab'.type[s] = "LIBRARY" /\ tab.type[s] # "LIBRARY"}
  BY DEF OpenLib
<1>4. \A s \in Syms : AsBefore(tab, tab', s) \/ FoundHere(tab, tab', s, l)
  BY <1>2, DefineFinds
<1>5. l \notin RangeOf(opened)
  BY <1>2 DEF Apart
<1>6. \A k : (Says(k))' = Says(k) /\ \A p : (NumberOf(k, p))' = NumberOf(k, p)
  BY <1>2, SaysStay
<1>7. ASSUME NEW s \in Syms, NEW k \in Libs, NEW n \in Int, tab'.lib[s] = k, tab'.number[s] = n
      PROVE  /\ k \in RangeOf(opened')
             /\ pc' = "number" /\ k = Last(opened') =>
                  <<s, n>> \in Says(k) /\ tab'.type[s] \in Fresh /\ (tab'.type[s] = "LIBRARY" => s \in unused')
             /\ ~(pc' = "number" /\ k = Last(opened')) => \E p \in Nat : <<s, p>> \in Says(k) /\ n = NumberOf(k, p)
  <2>1. CASE AsBefore(tab, tab', s)
    <3>1. tab.lib[s] = k /\ tab.number[s] = n
      BY <1>7, <2>1 DEF AsBefore
    <3>2. k \in RangeOf(opened) /\ \E p \in Nat : <<s, p>> \in Says(k) /\ n = NumberOf(k, p)
      BY <1>3, <3>1 DEF Placed
    <3>3. k # l
      BY <1>5, <3>2
    <3> QED
      BY <1>2, <3>2, <3>3
  <2>2. CASE FoundHere(tab, tab', s, l)
    <3>1. k = l /\ <<s, n>> \in Says(l) /\ tab'.type[s] \in Fresh
          /\ (tab'.type[s] = "LIBRARY" => tab.type[s] # "LIBRARY")
      BY <1>7, <2>2 DEF FoundHere
    <3> QED
      BY <1>2, <1>3, <3>1
  <2> QED
    BY <1>4, <2>1, <2>2
<1>8. Placed'
  BY <1>6, <1>7 DEF Placed
<1>9. \A s \in unused' : tab'.lib[s] = l
  <2> SUFFICES ASSUME NEW s \in Syms, tab'.type[s] = "LIBRARY", tab.type[s] # "LIBRARY" PROVE tab'.lib[s] = l
    BY <1>3
  <2>1. ~AsBefore(tab, tab', s)
    BY DEF AsBefore
  <2> QED
    BY <1>4, <2>1 DEF FoundHere
<1>10. UnusedHere'
  BY <1>2, <1>3, <1>9 DEF UnusedHere
<1> QED
  BY <1>8, <1>10

(* its number after,                                                       *)
LEMMA PlacedNumbers ==
  ASSUME Inv, Tabled, Placed, UnusedHere, NoWeakPassedOver, NumberModules
  PROVE  Placed' /\ UnusedHere'
<1>1. PICK l : l = Last(opened)
  OBVIOUS
<1>2. /\ l \in Libs /\ prog \in Programs /\ prog' = prog /\ opened' = opened /\ pc = "number" /\ pc' # "number"
      /\ tab'.lib = tab.lib /\ tab'.number = Numbers(tab, l)
  BY <1>1, NumbersIs
<1>3. unused' = {}
  BY DEF NumberModules
<1>4. Sound(tab, {}) /\ tab.lib \in [Syms -> Libs \union {None}] /\ tab.number \in [Syms -> Int]
  BY TypeOf DEF Inv
<1>5. \A k : (Says(k))' = Says(k) /\ \A p : (NumberOf(k, p))' = NumberOf(k, p)
  BY <1>2, SaysStay
<1>6. l \in RangeOf(opened)
  <2>1. opened \in Seq(Libs) /\ opened # <<>>
    BY <1>2 DEF Inv, Provided, Control
  <2>2. Len(opened) \in DOMAIN opened
    BY <2>1
  <2> QED
    BY <1>1, <2>2 DEF Last, RangeOf
<1>7. tab.ptrs[l] = DoModulePtrs(prog.lib[l], ModulesOf(l))
  BY <1>6 DEF Tabled
<1>8. RangeOf(Waiting(tab, l)) = {s \in Syms : tab.type[s] = "EXTERNAL" /\ tab.lib[s] = l}
  BY <1>4, WaitingAre
<1>9. RangeOf(tab.list["WEAK_EXTRN"]) = {s \in Syms : tab.type[s] = "WEAK_EXTRN"}
  BY <1>4 DEF Sound, ListsRight, Lists
<1>10. \A s \in Paged(tab, l) : tab.lib[s] = l
  BY <1>1, <1>8 DEF Paged, UnusedHere
<1>11. ASSUME NEW s \in Syms, NEW k \in Libs, NEW n \in Int, tab'.lib[s] = k, tab'.number[s] = n
       PROVE  k \in RangeOf(opened) /\ \E p \in Nat : <<s, p>> \in Says(k) /\ n = NumberOf(k, p)
  <2>1. PICK m : m = tab.number[s]
    OBVIOUS
  <2>2. m \in Int /\ tab.lib[s] = k
    BY <1>2, <1>4, <1>11, <2>1
  <2>3. n = IF s \in Paged(tab, l) THEN BinserModule(prog.lib[l], tab.ptrs[l], m) ELSE m
    BY <1>2, <1>11, <2>1 DEF Numbers
  <2>4. k \in RangeOf(opened)
    BY <2>1, <2>2 DEF Placed
  <2>5. CASE k = l
    <3>1. <<s, m>> \in Says(l) /\ tab.type[s] \in Fresh /\ (tab.type[s] = "LIBRARY" => s \in unused)
      BY <1>1, <1>2, <2>1, <2>2, <2>5 DEF Placed
    <3>2. tab.type[s] \in {"EXTERNAL", "WEAK_EXTRN", "LIBRARY"}
      BY <1>1, <1>2, <2>2, <2>5, <3>1 DEF NoWeakPassedOver, Fresh
    <3>3. s \in Paged(tab, l)
      BY <1>8, <1>9, <2>2, <2>5, <3>1, <3>2 DEF Paged
    <3>4. n = NumberOf(l, m)
      BY <1>7, <2>3, <3>3 DEF NumberOf
    <3>5. m \in Nat
      BY <3>1 DEF Says
    <3> QED
      BY <2>4, <2>5, <3>1, <3>4, <3>5
  <2>6. CASE k # l
    <3>1. n = m
      BY <1>10, <2>2, <2>3, <2>6
    <3> QED
      BY <1>1, <2>1, <2>2, <2>4, <2>6, <3>1 DEF Placed
  <2> QED
    BY <2>5, <2>6
<1>12. Placed'
  BY <1>2, <1>5, <1>11 DEF Placed
<1> QED
  BY <1>3, <1>12 DEF UnusedHere

(* and at every other step.                                                *)
LEMMA PlacedStep ==
  ASSUME Inv, Tabled, Apart, Placed, UnusedHere, NoWeakPassedOver, [Next]_vars
  PROVE  Placed' /\ UnusedHere'
<1>1. CASE OpenLib
  BY <1>1, PlacedOpens
<1>2. CASE NumberModules
  BY <1>2, PlacedNumbers
<1>3. CASE ~OpenLib /\ ~NumberModules
  <2>1. /\ prog' = prog /\ opened' = opened /\ unused' = unused
        /\ tab'.lib = tab.lib /\ tab'.number = tab.number
        /\ (pc = "number" <=> pc' = "number") /\ (UNCHANGED <<tab, pc>> \/ pc # "number")
    BY <1>3, OtherSteps
  <2>2. \A k : (Says(k))' = Says(k) /\ \A p : (NumberOf(k, p))' = NumberOf(k, p)
    BY <2>1, SaysStay
  <2>3. CASE UNCHANGED <<tab, pc>>
    BY <2>1, <2>2, <2>3 DEF Placed, UnusedHere
  <2>4. CASE pc # "number"
    <3>1. pc' # "number"
      BY <2>1, <2>4
    <3>2. Placed'
      BY <2>1, <2>2, <2>4, <3>1 DEF Placed
    <3> QED
      BY <2>1, <2>4, <3>1, <3>2 DEF UnusedHere
  <2> QED
    BY <2>1, <2>3, <2>4
<1> QED
  BY <1>1, <1>2, <1>3

(* Then the number leads back to the page.                                 *)
LEMMA PlacedRight ==
  ASSUME WellLaid, Inv, Tabled, Placed
  PROVE  WantedFromRightModule
<1> SUFFICES ASSUME NEW l \in Libs, NEW s \in RangeOf(tab.wanted[l])
             PROVE  s \in Supplies(ModuleAt(l, PageAt(tab, l, tab.number[s])))
  BY DEF WantedFromRightModule
<1>1. prog \in Programs /\ Sound(tab, {}) /\ tab.number \in [Syms -> Int]
  BY TypeOf DEF Inv, Provided
<1>2. s \in Syms /\ tab.type[s] = "LIBRARY_LIST" /\ tab.lib[s] = l
  BY <1>1 DEF Sound, WantsRight
<1>3. PICK n : n = tab.number[s]
  OBVIOUS
<1>4. n \in Int
  BY <1>1, <1>2, <1>3
<1>5. l \in RangeOf(opened) /\ \E p \in Nat : <<s, p>> \in Says(l) /\ n = NumberOf(l, p)
  <2>1. tab.type[s] \notin Fresh
    BY <1>2 DEF Fresh
  <2> QED
    BY <1>2, <1>3, <1>4, <2>1 DEF Placed
<1>6. PICK p \in Nat : <<s, p>> \in Says(l) /\ n = NumberOf(l, p)
  BY <1>5
<1>7. p \in RangeOf(prog.lib[l].page) /\ s \in Supplies(prog.module[l][p])
  <2>1. \A a, b : <<a, b>>[1] = a /\ <<a, b>>[2] = b
    OBVIOUS
  <2> QED
    BY <1>6, <2>1 DEF Says
<1>8. tab.ptrs[l] = DoModulePtrs(prog.lib[l], ModulesOf(l))
  BY <1>5 DEF Tabled
<1>9. BeforeDictionary(prog.lib[l])
  BY <1>1 DEF WellLaid
<1>10. PageAt(tab, l, BinserModule(prog.lib[l], tab.ptrs[l], p)) = p
  BY <1>1, <1>7, <1>8, <1>9, PageFound
<1>11. n = BinserModule(prog.lib[l], tab.ptrs[l], p)
  BY <1>6, <1>8 DEF NumberOf
<1>12. ModuleAt(l, p) = prog.module[l][p]
  BY <1>7 DEF ModuleAt
<1> QED
  BY <1>3, <1>7, <1>10, <1>11, <1>12

(* A symbol that a library is asked for is in the module it is asked of,   *)
(* whatever type it had when the dictionary was gone through: the page has *)
(* become a number once (_update_lib_symbols).                             *)
THEOREM AlwaysWantedFromRightModule ==
  ASSUME WellLaid, OneEach, NoClash
  PROVE  Spec /\ []NoWeakPassedOver => []WantedFromRightModule
<1> DEFINE WInv == Inv /\ Tabled /\ Apart /\ Placed /\ UnusedHere
<1>1. Init => WInv
  <2> SUFFICES ASSUME Init PROVE WInv
    OBVIOUS
  <2>1. /\ opened = <<>> /\ unused = {} /\ objs = prog.objs /\ toOpen = prog.libs /\ prog \in Programs
    BY DEF Init
  <2>2. tab.lib = [s \in Syms |-> None]
    BY DEF Init, InitTab
  <2>3. RangeOf(<<>>) = {} /\ IsInjective(<<>>)
    BY DEF RangeOf, IsInjective
  <2>4. Inv
    BY StartsSound
  <2>5. Tabled
    BY <2>1, <2>3 DEF Tabled
  <2>6. Apart
    BY <2>1, <2>3 DEF Apart, OneEach
  <2>7. Placed
    BY <2>2, NoneAssumption DEF Placed
  <2>8. UnusedHere
    BY <2>1 DEF UnusedHere
  <2> QED
    BY <2>4, <2>5, <2>6, <2>7, <2>8
<1>2. WInv /\ NoWeakPassedOver /\ [Next]_vars => WInv'
  BY StepKeeps, TabledStep, ApartStep, PlacedStep
<1>3. WInv => WantedFromRightModule
  BY PlacedRight
<1> HIDE DEF WInv
<1> QED
  BY <1>1, <1>2, <1>3, PTL DEF Spec

-----------------------------------------------------------------------------
(* What a dictionary that was gone through says is known of a symbol ever  *)
(* after.  A module whose fixups refer to every symbol it calls weak or    *)
(* lazy, other than softly or not at all, leaves none that is unreferenced *)
(* and would be an external, with its library forgotten, once referred to. *)
RefersFirmly(m) ==
  \A d \in RangeOf(m.weak) \union RangeOf(m.lazy) :
    /\ \E e \in RangeOf(Externs(m)) : e.sym = d[1]
    /\ \A e \in RangeOf(Externs(m)) : e.sym = d[1] => Real(m, e)

Firm == \A p \in Programs : \A m \in Modules(p) : RefersFirmly(m)

Adrift == {"WEAK_UNREF", "LAZY_UNREF"}
Weakly == {"WEAK_EXTRN", "WEAK_DEFINED", "LAZY", "LAZY_DEFINED", "POS_WEAK", "POS_LAZY"}

Told(t, s) ==
  /\ t.type[s] \notin {"UNDEFINED", "EXTERNAL"} \union Adrift
  /\ t.type[s] \in Weakly => t.lib[s] # None

(* Inside module m, of the symbols D that were told.                       *)
SteadyAt(t, m, D, s) ==
  /\ t.type[s] \notin Adrift
  /\ t.type[s] \in Possibles => \E d \in RangeOf(m.weak) \union RangeOf(m.lazy) : d[1] = s
  /\ s \in D => Told(t, s)

Steady(t, m, D) == Sound(t, {}) /\ \A s \in Syms : SteadyAt(t, m, D, s)

(* A record of the module that changes symbol s only.                      *)
LEMMA SteadyStays ==
  ASSUME NEW m, NEW D, NEW t, Steady(t, m, D), NEW s \in Syms, NEW u, Sound(u, {}), Moves(t, u, s), Later(t, u),
         SteadyAt(u, m, D, s)
  PROVE  Steady(u, m, D)
<1>1. ASSUME NEW x \in Syms, x # s
      PROVE  SteadyAt(u, m, D, x)
  <2>1. u.type[x] = t.type[x] /\ u.lib = t.lib /\ SteadyAt(t, m, D, x)
    BY <1>1 DEF Moves, Later, Steady
  <2> QED
    BY <2>1 DEF SteadyAt, Told
<1> QED
  BY <1>1 DEF Steady

(* The types that matter are apart.                                        *)
LEMMA WeaklyAre ==
  /\ \A x \in {"RELOC", "COMM_NEAR", "NCOMM_UNREF", "LIBRARY", "LIBRARY_LIST"} \union AliasTypes :
       x \notin Adrift \union Weakly \union Possibles \union {"UNDEFINED", "EXTERNAL"}
  /\ \A x \in Weakly : x \notin Adrift \union {"UNDEFINED", "EXTERNAL"}
  /\ \A x \in Possibles : x \in Weakly
  /\ \A x \in {"UNDEFINED", "EXTERNAL"} : x \notin Adrift \union Weakly \union Possibles
  /\ \A x \in {"WEAK_EXTRN", "WEAK_DEFINED", "LAZY", "LAZY_DEFINED"} : x \in Weakly /\ x \notin Possibles
BY DEF Adrift, Weakly, Possibles, AliasTypes

(* Every record of a module leaves what was told.                          *)
LEMMA RecordsSteady ==
  ASSUME NEW m \in ModuleType, NEW D, NEW l, NEW n, NEW t, Steady(t, m, D)
  PROVE  /\ \A s \in Syms : \A inCode, wasData \in BOOLEAN :
              (inCode /\ wasData => t.type[s] \in Decided) => Steady(DoPublic(t, s, inCode, wasData), m, D)
         /\ \A s \in Syms : Steady(Comdef(t, s, l, n), m, D)
         /\ \A p \in RangeOf(m.weak) : Steady(Wkext(t, p), m, D)
         /\ \A p \in RangeOf(m.lazy) : Steady(Lzext(t, p), m, D)
         /\ \A p \in RangeOf(m.alias) : Steady(Alias(t, p), m, D)
<1>1. Sound(t, {}) /\ \A s \in Syms : SteadyAt(t, m, D, s)
  BY DEF Steady
<1>2. /\ RangeOf(m.weak) \subseteq Syms \X Syms /\ RangeOf(m.lazy) \subseteq Syms \X Syms
      /\ RangeOf(m.alias) \subseteq Syms \X Syms
  BY ModuleIs DEF RangeOf
<1>3. ASSUME NEW s \in Syms, NEW u, Later(t, u), u.type[s] = t.type[s]
      PROVE  SteadyAt(u, m, D, s)
  <2>1. u.lib = t.lib /\ SteadyAt(t, m, D, s)
    BY <1>1, <1>3 DEF Later
  <2> QED
    BY <1>3, <2>1 DEF SteadyAt, Told
<1>4. ASSUME NEW s, NEW u, u.type[s] \in {"RELOC", "COMM_NEAR", "NCOMM_UNREF", "ALIASED", "ALIASED_UNREF"}
      PROVE  SteadyAt(u, m, D, s)
  BY <1>4, WeaklyAre DEF SteadyAt, Told, AliasTypes
<1>5. ASSUME NEW s \in Syms, NEW inCode \in BOOLEAN, NEW wasData \in BOOLEAN, inCode /\ wasData => t.type[s] \in Decided
      PROVE  Steady(DoPublic(t, s, inCode, wasData), m, D)
  <2>1. PICK u : u = DoPublic(t, s, inCode, wasData)
    OBVIOUS
  <2>2. /\ Sound(u, {}) /\ Later(t, u) /\ Moves(t, u, s)
        /\ u.type[s] \in {"RELOC", t.type[s]} /\ u.refd = t.refd /\ u.for = t.for
    BY <1>1, <1>5, <2>1, DoPublicMoves
  <2>3. SteadyAt(u, m, D, s)
    BY <1>3, <1>4, <2>2
  <2> QED
    BY <2>1, <2>2, <2>3, SteadyStays
<1>6. ASSUME NEW s \in Syms
      PROVE  Steady(Comdef(t, s, l, n), m, D)
  <2>1. PICK u : u = Comdef(t, s, l, n)
    OBVIOUS
  <2>2. /\ Sound(u, {}) /\ Later(t, u) /\ Moves(t, u, s) /\ u.refd = t.refd /\ u.for = t.for
        /\ \/ u.type[s] = t.type[s]
           \/ s \in t.refd /\ u.type[s] = "COMM_NEAR"
           \/ s \notin t.refd /\ u.type[s] = "NCOMM_UNREF"
    BY <1>1, <2>1, ComdefMoves
  <2>3. SteadyAt(u, m, D, s)
    BY <1>3, <1>4, <2>2
  <2> QED
    BY <2>1, <2>2, <2>3, SteadyStays
<1>7. ASSUME NEW p \in RangeOf(m.weak)
      PROVE  Steady(Wkext(t, p), m, D)
  <2> DEFINE s == p[1]
  <2>1. PICK u : u = Wkext(t, p)
    OBVIOUS
  <2>2. s \in Syms /\ p \in Syms \X Syms
    BY <1>2
  <2>3. /\ Sound(u, {}) /\ Later(t, u) /\ Moves(t, u, p[1]) /\ u.refd = t.refd
        /\ \/ u.type[p[1]] = t.type[p[1]] /\ u.for[p[1]] = t.for[p[1]]
           \/ t.type[p[1]] \in {"UNDEFINED", "LIBRARY"} /\ u.type[p[1]] = "POS_WEAK" /\ u.for[p[1]] = p[2]
    BY <1>1, <2>1, <2>2, WkextMoves
  <2>4. CASE u.type[s] = t.type[s]
    BY <1>3, <2>1, <2>2, <2>3, <2>4, SteadyStays
  <2>5. CASE t.type[s] \in {"UNDEFINED", "LIBRARY"} /\ u.type[s] = "POS_WEAK"
    <3>1. s \in D => u.lib[s] # None
      <4>1. s \in D => t.type[s] = "LIBRARY"
        BY <1>1, <2>2, <2>5 DEF SteadyAt, Told
      <4>2. t.type[s] = "LIBRARY" => t.lib[s] \in Libs
        BY <1>1, <2>2 DEF Sound, Grounded
      <4> QED
        BY <2>3, <4>1, <4>2, NoneAssumption DEF Later
    <3>2. SteadyAt(u, m, D, s)
      <4>1. "POS_WEAK" \in Weakly /\ u.type[s] \notin Adrift \union {"UNDEFINED", "EXTERNAL"}
        BY <2>5, WeaklyAre DEF Possibles
      <4> QED
        BY <1>7, <3>1, <4>1 DEF SteadyAt, Told
    <3> QED
      BY <2>1, <2>2, <2>3, <3>2, SteadyStays
  <2> QED
    BY <2>3, <2>4, <2>5
<1>8. ASSUME NEW p \in RangeOf(m.lazy)
      PROVE  Steady(Lzext(t, p), m, D)
  <2> DEFINE s == p[1]
  <2>1. PICK u : u = Lzext(t, p)
    OBVIOUS
  <2>2. s \in Syms /\ p \in Syms \X Syms
    BY <1>2
  <2>3. /\ Sound(u, {}) /\ Later(t, u) /\ Moves(t, u, p[1]) /\ u.refd = t.refd
        /\ \/ u.type[p[1]] = t.type[p[1]] /\ u.for[p[1]] = t.for[p[1]]
           \/ /\ t.type[p[1]] \in {"UNDEFINED", "WEAK_EXTRN", "WEAK_DEFINED", "WEAK_UNREF"}
              /\ u.type[p[1]] = "POS_LAZY" /\ u.for[p[1]] = p[2]
    BY <1>1, <2>1, <2>2, LzextMoves
  <2>4. CASE u.type[s] = t.type[s]
    BY <1>3, <2>1, <2>2, <2>3, <2>4, SteadyStays
  <2>5. CASE /\ t.type[s] \in {"UNDEFINED", "WEAK_EXTRN", "WEAK_DEFINED", "WEAK_UNREF"}
             /\ u.type[s] = "POS_LAZY"
    <3>1. s \in D => u.lib[s] # None
      <4>1. s \in D => t.type[s] \in Weakly /\ t.lib[s] # None
        BY <1>1, <2>2, <2>5, WeaklyAre DEF SteadyAt, Told, Adrift
      <4> QED
        BY <2>3, <4>1 DEF Later
    <3>2. SteadyAt(u, m, D, s)
      <4>1. "POS_LAZY" \in Weakly /\ u.type[s] \notin Adrift \union {"UNDEFINED", "EXTERNAL"}
        BY <2>5, WeaklyAre DEF Possibles
      <4> QED
        BY <1>8, <3>1, <4>1 DEF SteadyAt, Told
    <3> QED
      BY <2>1, <2>2, <2>3, <3>2, SteadyStays
  <2> QED
    BY <2>3, <2>4, <2>5
<1>9. ASSUME NEW p \in RangeOf(m.alias)
      PROVE  Steady(Alias(t, p), m, D)
  <2> DEFINE s == p[1]
  <2>1. PICK u : u = Alias(t, p)
    OBVIOUS
  <2>2. s \in Syms /\ p \in Syms \X Syms
    BY <1>2
  <2>3. /\ Sound(u, {}) /\ Later(t, u) /\ Moves(t, u, p[1]) /\ u.refd = t.refd
        /\ \/ u.type[p[1]] = t.type[p[1]] /\ u.for[p[1]] = t.for[p[1]]
           \/ t.type[p[1]] \in AliasTypes /\ u.type[p[1]] = t.type[p[1]] /\ u.for[p[1]] = p[2]
           \/ p[1] \in t.refd /\ u.type[p[1]] = "ALIASED" /\ u.for[p[1]] = p[2]
           \/ p[1] \notin t.refd /\ u.type[p[1]] = "ALIASED_UNREF" /\ u.for[p[1]] = p[2]
    BY <1>1, <2>1, <2>2, AliasMoves
  <2>4. SteadyAt(u, m, D, s)
    BY <1>3, <1>4, <2>2, <2>3
  <2> QED
    BY <2>1, <2>2, <2>3, <2>4, SteadyStays
<1> QED
  BY <1>5, <1>6, <1>7, <1>8, <1>9

(* A listed symbol that has a library is wanted from it.                   *)
LEMMA DemandedThere ==
  ASSUME NEW t, Sound(t, {}), NEW s \in Syms, NEW l \in Lists, t.lib[s] # None,
         NEW u, u = Demand(RemoveFrom(Referenced(t, s), s, l), s)
  PROVE  u.type[s] = "LIBRARY_LIST"
<1>1. PICK r : r = Referenced(t, s)
  OBVIOUS
<1>2. PICK v : v = RemoveFrom(r, s, l)
  OBVIOUS
<1>3. t \in TabSet
  BY TypeOf
<1>4. r \in TabSet /\ r.lib = t.lib
  BY <1>1, <1>3, ReferencedIs
<1>5. /\ v \in TabSet /\ v.type = r.type
      /\ v.list = [r.list EXCEPT ![l] = Without(@, s)] /\ v.wanted = r.wanted
      /\ v.refd = r.refd /\ v.lib = r.lib /\ v.number = r.number /\ v.for = r.for /\ Calm(r, v)
  BY <1>2, <1>4, RemoveFromIs
<1>6. u = ReferenceLibsym(v, s)
  BY <1>1, <1>2, <1>4, <1>5 DEF Demand
<1> QED
  BY <1>5, <1>6 DEF ReferenceLibsym, LibSymRequest, TabSet

(* At the end of the module an external that was told still is.            *)
LEMMA ExternTold ==
  ASSUME NEW t, Sound(t, {}), NEW s \in Syms, Told(t, s), NEW real \in BOOLEAN, NEW again \in BOOLEAN,
         t.type[s] \in Possibles => real,
         NEW u, u = ProcessExtrn(t, s, real, again)
  PROVE  Told(u, s)
<1> DEFINE ty == t.type[s]
           r == Referenced(t, s)
<1>1. t \in TabSet /\ t.type \in [Syms -> Types] /\ ty \in Types
  BY TypeOf
<1>2. r \in TabSet /\ r.type = t.type /\ r.lib = t.lib
  BY <1>1, ReferencedIs
<1>3. u.lib = t.lib
  BY ProcessExtrnMoves DEF Later
<1>4. ty \notin {"UNDEFINED", "EXTERNAL"} \union Adrift /\ (ty \in Weakly => t.lib[s] # None)
  BY DEF Told
<1>5. u = CASE ty \in {"EXTERNAL", "LIBRARY_LIST"} -> t
            [] ty = "POS_WEAK" /\ ~real  -> Retype(t, s, "WEAK_UNREF")
            [] ty = "POS_LAZY" /\ ~real  -> Retype(t, s, "LAZY_UNREF")
            [] ty = "POS_WEAK" /\ real   -> AddTo(r, s, "WEAK_EXTRN")
            [] ty = "POS_LAZY" /\ real   -> AddTo(r, s, "LAZY")
            [] ty = "UNDEFINED" /\ real  -> AddTo(r, s, "EXTERNAL")
            [] ty = "LIBRARY" /\ real    -> ReferenceLibsym(r, s)
            [] ty = "WEAK_UNREF" /\ real -> AddTo(r, s, IF again THEN "WEAK_EXTRN" ELSE "EXTERNAL")
            [] ty = "LAZY_UNREF" /\ real -> AddTo(r, s, IF again THEN "LAZY" ELSE "EXTERNAL")
            [] ty \in {"WEAK_EXTRN", "WEAK_DEFINED", "LAZY", "LAZY_DEFINED"} /\ real ->
                 IF again THEN r ELSE Demand(RemoveFrom(r, s, ty), s)
            [] ty = "ALIASED_UNREF" /\ real -> AddTo(r, s, "ALIASED")
            [] ty = "NCOMM_UNREF" /\ real   -> AddTo(r, s, "COMM_NEAR")
            [] ty \in {"RELOC", "COMM_NEAR", "ALIASED", "ALIAS_DEFINED"} -> IF real THEN r ELSE t
            [] OTHER -> t
  BY DEF ProcessExtrn, Demand
<1>6. ASSUME u.type[s] = ty PROVE Told(u, s)
  BY <1>3, <1>4, <1>6 DEF Told
<1>7. ASSUME NEW l \in Lists, l # "EXTERNAL", l \in Weakly => ty \in Weakly, u = AddTo(r, s, l) PROVE Told(u, s)
  <2>1. /\ u \in TabSet /\ u.type = [r.type EXCEPT ![s] = l]
        /\ u.list = [r.list EXCEPT ![l] = Append(@, s)] /\ u.wanted = r.wanted
        /\ u.refd = r.refd /\ u.lib = r.lib /\ u.number = r.number /\ u.for = r.for /\ Calm(r, u)
    <3> HIDE DEF r
    <3> QED
      BY <1>2, <1>7, AddToIs
  <2>2. l \notin {"UNDEFINED", "EXTERNAL"} \union Adrift
    BY <1>7 DEF Lists, Adrift
  <2> QED
    BY <1>1, <1>2, <1>3, <1>4, <1>7, <2>1, <2>2 DEF Told
<1>8. ASSUME u.type[s] = "LIBRARY_LIST" PROVE Told(u, s)
  BY <1>8, WeaklyAre DEF Told
<1> HIDE DEF r
<1>9. CASE ty \in Possibles
  <2>1. u = AddTo(r, s, IF ty = "POS_WEAK" THEN "WEAK_EXTRN" ELSE "LAZY")
    BY <1>5, <1>9 DEF Possibles
  <2>2. ty \in Weakly /\ "WEAK_EXTRN" \in Lists /\ "LAZY" \in Lists
    BY <1>9, WeaklyAre DEF Lists
  <2> QED
    BY <1>7, <2>1, <2>2
<1>10. CASE ty = "LIBRARY" /\ real
  <2>1. u = ReferenceLibsym(r, s)
    BY <1>5, <1>10
  <2>2. u.type[s] = "LIBRARY_LIST"
    BY <1>2, <2>1 DEF ReferenceLibsym, LibSymRequest, TabSet
  <2> QED
    BY <1>8, <2>2
<1>11. CASE ty \in {"WEAK_EXTRN", "WEAK_DEFINED", "LAZY", "LAZY_DEFINED"} /\ real
  <2>1. u = IF again THEN r ELSE Demand(RemoveFrom(r, s, ty), s)
    BY <1>5, <1>11
  <2>2. CASE again
    BY <1>2, <1>6, <2>1, <2>2
  <2>3. CASE ~again
    <3>1. ty \in Lists /\ t.lib[s] # None
      BY <1>4, <1>11, WeaklyAre DEF Lists
    <3>2. u.type[s] = "LIBRARY_LIST"
      BY <2>1, <2>3, <3>1, DemandedThere DEF r
    <3> QED
      BY <1>8, <3>2
  <2> QED
    BY <2>2, <2>3
<1>12. CASE ty \in {"ALIASED_UNREF", "NCOMM_UNREF"} /\ real
  <2>1. u = AddTo(r, s, IF ty = "ALIASED_UNREF" THEN "ALIASED" ELSE "COMM_NEAR")
    BY <1>5, <1>12
  <2>2. "ALIASED" \in Lists /\ "COMM_NEAR" \in Lists /\ "ALIASED" \notin Weakly /\ "COMM_NEAR" \notin Weakly
    BY DEF Lists, Weakly
  <2> QED
    BY <1>7, <2>1, <2>2
<1>13. CASE ty \in {"RELOC", "COMM_NEAR", "ALIASED", "ALIAS_DEFINED"}
  <2>1. u = IF real THEN r ELSE t
    BY <1>5, <1>13
  <2> QED
    BY <1>2, <1>6, <2>1
<1>14. CASE ty = "LIBRARY_LIST" \/ (ty \notin {"RELOC", "COMM_NEAR", "ALIASED", "ALIAS_DEFINED"} \union Possibles /\ ~real)
  <2>1. u = t
    BY <1>5, <1>14 DEF Possibles
  <2> QED
    BY <1>6, <2>1
<1>15. ty \in {"LIBRARY_LIST", "RELOC", "COMM_NEAR", "ALIASED", "ALIAS_DEFINED", "LIBRARY", "WEAK_EXTRN",
               "WEAK_DEFINED", "LAZY", "LAZY_DEFINED", "ALIASED_UNREF", "NCOMM_UNREF"} \union Possibles
  BY <1>1, <1>4 DEF Types, Lists, Unlisted, Possibles, Adrift
<1> QED
  BY <1>9, <1>10, <1>11, <1>12, <1>13, <1>14, <1>15

(* Between modules none may only become weak or lazy.                      *)
Firmed(t, D) ==
  /\ \A s \in Syms : t.type[s] \notin Adrift \union Possibles
  /\ \A s \in D : Told(t, s)

(* So it is at the end of a module.                                        *)
LEMMA AtEndFirmed ==
  ASSUME NEW m \in ModuleType, RefersFirmly(m), NEW D \in SUBSET Syms, NEW r, NEW t, Steady(t, m, D)
  PROVE  Sound(AtEnd(t, m, r), {}) /\ Firmed(AtEnd(t, m, r), D)
<1> DEFINE q == Externs(m)
           n == Len(q)
           Left(i) == {q[j].sym : j \in i + 1 .. n}
           P == [i \in 0 .. n |-> {u \in TabSet : /\ Steady(u, m, D)
                                                  /\ \A s \in Syms : u.type[s] \in Possibles => s \in Left(i)}]
<1>1. /\ q \in Seq(ExternType) /\ n \in Nat /\ DOMAIN q = 1 .. n /\ n \in 0 .. n /\ 0 \in 0 .. n
      /\ \A i \in 1 .. n : q[i] \in ExternType /\ i - 1 \in 0 .. n /\ i \in 0 .. n
  <2>1. q \in Seq(ExternType)
    BY ModuleIs
  <2> HIDE DEF q
  <2> QED
    BY <2>1
<1>2. \A d \in RangeOf(m.weak) \union RangeOf(m.lazy) :
        /\ \E e \in RangeOf(q) : e.sym = d[1]
        /\ \A e \in RangeOf(q) : e.sym = d[1] => Real(m, e)
  BY DEF RefersFirmly
<1> HIDE DEF q
<1>3. t \in P[0]
  <2>1. ASSUME NEW s \in Syms, t.type[s] \in Possibles
        PROVE  s \in Left(0)
    <3>1. \E d \in RangeOf(m.weak) \union RangeOf(m.lazy) : d[1] = s
      BY <2>1 DEF Steady, SteadyAt
    <3>2. PICK e \in RangeOf(q) : e.sym = s
      BY <1>2, <3>1
    <3>3. PICK i \in 1 .. n : q[i] = e
      BY <1>1 DEF RangeOf
    <3> QED
      BY <1>1, <3>2, <3>3
  <2>2. t \in TabSet
    BY TypeOf DEF Steady
  <2> HIDE DEF Left
  <2> QED
    BY <1>1, <2>1, <2>2
<1>4. ASSUME NEW i \in 1 .. n, NEW u \in P[i - 1]
      PROVE  ProcessExtrn(u, q[i].sym, Real(m, q[i]), q[i].sym \in r) \in P[i]
  <2> DEFINE s == q[i].sym
             real == Real(m, q[i])
             again == q[i].sym \in r
  <2>1. s \in Syms /\ real \in BOOLEAN /\ again \in BOOLEAN
    BY <1>1 DEF ExternType, Real
  <2>2. PICK w : w = ProcessExtrn(u, s, real, again)
    OBVIOUS
  <2>3. Steady(u, m, D) /\ \A x \in Syms : u.type[x] \in Possibles => x \in Left(i - 1)
    <3> HIDE DEF Left
    <3> QED
      BY <1>1
  <2>4. q[i] \in RangeOf(q)
    BY <1>1 DEF RangeOf
  <2>5. \A d \in RangeOf(m.weak) \union RangeOf(m.lazy) : d[1] = s => real
    BY <1>2, <2>4
  <2> HIDE DEF s, real, again, Left
  <2>6. Sound(w, {}) /\ Later(u, w) /\ Moves(u, w, s) /\ w.for = u.for /\ ExternEnds(u, w, s, real)
    BY <2>1, <2>2, <2>3, ProcessExtrnMoves DEF Steady
  <2>7. SteadyAt(u, m, D, s) /\ (u.type[s] \in Possibles => real)
    BY <2>1, <2>3, <2>5 DEF Steady, SteadyAt
  <2>8. w.type[s] \notin Adrift \union Possibles
    <3>1. CASE w.type[s] = u.type[s] /\ u.type[s] \notin Possibles
      BY <2>7, <3>1 DEF SteadyAt
    <3>2. CASE ~real /\ u.type[s] \in Possibles
      BY <2>7, <3>2
    <3>3. CASE w.type[s] \in {"EXTERNAL", "LIBRARY_LIST", "LAZY", "COMM_NEAR", "WEAK_EXTRN", "ALIASED",
                              "RELOC", "ALIAS_DEFINED", "WEAK_DEFINED", "LAZY_DEFINED"}
      BY <3>3 DEF Adrift, Possibles
    <3> QED
      BY <2>6, <3>1, <3>2, <3>3 DEF ExternEnds, Possibles
  <2>9. s \in D => Told(w, s)
    <3>1. s \in D => Told(u, s)
      BY <2>7 DEF SteadyAt
    <3>2. Sound(u, {})
      BY <2>3 DEF Steady
    <3>3. ASSUME Told(u, s) PROVE Told(w, s)
      BY <2>1, <2>2, <2>7, <3>2, <3>3, ExternTold
    <3> QED
      BY <3>1, <3>3
  <2>10. SteadyAt(w, m, D, s)
    BY <2>8, <2>9 DEF SteadyAt
  <2>11. Steady(w, m, D)
    BY <2>1, <2>3, <2>6, <2>10, SteadyStays
  <2>12. ASSUME NEW x \in Syms, w.type[x] \in Possibles
         PROVE  x \in Left(i)
    <3>1. x # s /\ x \in Left(i - 1)
      <4>1. x # s
        BY <2>8, <2>12
      <4>2. w.type[x] = u.type[x]
        BY <2>6, <4>1 DEF Moves
      <4> QED
        BY <2>3, <2>12, <4>1, <4>2
    <3>2. PICK j \in i .. n : x = q[j].sym
      BY <1>1, <3>1 DEF Left
    <3>3. j \in i + 1 .. n
      BY <1>1, <3>1, <3>2 DEF s
    <3> QED
      BY <3>2, <3>3 DEF Left
  <2>13. w \in TabSet
    BY <2>6, TypeOf
  <2> QED
    BY <1>1, <2>2, <2>11, <2>12, <2>13 DEF s, real, again
<1>5. InExternals(t, q, m, r) \in P[n]
  <2> HIDE DEF P, n
  <2> QED
    BY <1>1, <1>3, <1>4, ExternalsInTurn DEF n
<1>6. PICK u : u = AtEnd(t, m, r)
  OBVIOUS
<1>7. Steady(u, m, D) /\ \A s \in Syms : u.type[s] \in Possibles => s \in Left(n)
  <2>1. u \in P[n]
    BY <1>5, <1>6 DEF AtEnd, q
  <2> HIDE DEF Left
  <2> QED
    BY <1>1, <2>1
<1>8. Left(n) = {}
  BY <1>1
<1> QED
  BY <1>6, <1>7, <1>8 DEF Steady, SteadyAt, Firmed

(* A module that is read leaves all told.                                  *)
LEMMA ReadModuleFirmed ==
  ASSUME NEW m \in ModuleType, RefersFirmly(m), NEW D \in SUBSET Syms, NEW d, NEW l, NEW n, NEW t, Sound(t, {}),
         Firmed(t, D), Held(t, m.code \intersect d)
  PROVE  Firmed(ReadModule(t, d, m, l, n), D)
<1> DEFINE Q == {u \in TabSet : Steady(u, m, D)}
           P == {u \in Q : Held(u, m.code \intersect d)}
           R == {u \in TabSet : Sound(u, {}) /\ Firmed(u, D)}
<1>1. RangeOf(m.defs) \subseteq Syms /\ RangeOf(m.comm) \subseteq Syms
  BY ModuleIs DEF RangeOf
<1>2. \A u : Steady(u, m, D) => u \in Q
  BY TypeOf DEF Steady
<1>3. t \in P
  <2>1. Steady(t, m, D)
    BY DEF Steady, SteadyAt, Firmed
  <2> QED
    BY <1>2, <2>1
<1>4. \A u \in Q : Steady(u, m, D) /\ Sound(u, {})
  BY DEF Steady
<1>5. ASSUME NEW u \in Q, NEW r
      PROVE  AtEnd(u, m, r) \in R
  <2>1. PICK w : w = AtEnd(u, m, r)
    OBVIOUS
  <2>2. Sound(w, {}) /\ Firmed(w, D)
    BY <1>4, <2>1, AtEndFirmed
  <2> QED
    BY <2>1, <2>2, TypeOf
<1> HIDE DEF Q
<1>6. ASSUME NEW u \in Q
      PROVE  /\ \A s \in RangeOf(m.comm) : Comdef(u, s, l, n) \in Q
             /\ \A p \in RangeOf(m.weak) : Wkext(u, p) \in Q
             /\ \A p \in RangeOf(m.lazy) : Lzext(u, p) \in Q
             /\ \A p \in RangeOf(m.alias) : Alias(u, p) \in Q
  <2>1. Steady(u, m, D)
    BY <1>4
  <2>2. /\ \A s \in Syms : Steady(Comdef(u, s, l, n), m, D)
        /\ \A p \in RangeOf(m.weak) : Steady(Wkext(u, p), m, D)
        /\ \A p \in RangeOf(m.lazy) : Steady(Lzext(u, p), m, D)
        /\ \A p \in RangeOf(m.alias) : Steady(Alias(u, p), m, D)
    BY <2>1, RecordsSteady
  <2> QED
    BY <1>1, <1>2, <2>2
<1>7. ASSUME NEW u \in P
      PROVE  /\ \A s \in RangeOf(m.defs) : DoPublic(u, s, s \in m.code, s \in d) \in P
             /\ InComdefs(u, m.comm, l, n) \in Q
  <2>1. u \in Q /\ Steady(u, m, D) /\ Sound(u, {}) /\ Held(u, m.code \intersect d)
    BY <1>4
  <2>2. ASSUME NEW s \in RangeOf(m.defs)
        PROVE  DoPublic(u, s, s \in m.code, s \in d) \in P
    <3>1. PICK w : w = DoPublic(u, s, s \in m.code, s \in d)
      OBVIOUS
    <3>2. /\ (s \in m.code) \in BOOLEAN /\ (s \in d) \in BOOLEAN
          /\ s \in m.code /\ s \in d => u.type[s] \in Decided
      BY <2>1 DEF Held
    <3>3. Held(w, m.code \intersect d)
      <4>1. s \in Syms
        BY <1>1
      <4>2. Holds(u, w)
        BY <2>1, <3>1, <3>2, <4>1, DoPublicMoves
      <4> QED
        BY <1>1, <2>1, <4>2, StaysHeld
    <3>4. Steady(w, m, D)
      BY <1>1, <2>1, <3>1, <3>2, RecordsSteady
    <3> QED
      BY <1>2, <3>1, <3>3, <3>4
  <2>3. m.comm \in Seq(RangeOf(m.comm))
    BY <1>1, ModuleIs, OwnRange
  <2>4. InComdefs(u, m.comm, l, n) \in Q
    BY <1>6, <2>1, <2>3, Comdefs
  <2> QED
    BY <2>2, <2>4
<1>8. ReadModule(t, d, m, l, n) \in R
  <2> HIDE DEF P, R
  <2> QED
    BY <1>1, <1>3, <1>5, <1>6, <1>7, ReadModuleStays
<1> QED
  BY <1>8

(* What the dictionary of library l has just said of a symbol: it is told, *)
(* or waits to be asked for.                                               *)
ToldHere(t, s, l) == Told(t, s) \/ (t.type[s] = "EXTERNAL" /\ t.lib[s] = l)

(* An entry of the dictionary tells of its symbol.                         *)
LEMMA EntryTells ==
  ASSUME NEW t, Sound(t, {}), NEW s \in Syms, t.type[s] \notin Adrift \union Possibles,
         NEW l \in Libs, NEW p \in Int, NEW u, u = LibSymbol(t, s, l, p)
  PROVE  ToldHere(u, s, l) /\ u.type[s] \notin Adrift \union Possibles
<1> DEFINE ty == t.type[s]
<1>1. /\ t \in TabSet /\ t.type \in [Syms -> Types] /\ t.lib \in [Syms -> Libs \union {None}]
      /\ ty \in Types /\ l # None
  BY TypeOf, NoneAssumption
<1>2. CASE ty = "UNDEFINED"
  <2>1. u = Found(Retype(t, s, "LIBRARY"), s, l, p)
    BY <1>2 DEF LibSymbol, Found
  <2>2. u.type[s] = "LIBRARY"
    BY <1>1, <2>1 DEF Found, Retype, TabSet
  <2> QED
    BY <2>2, WeaklyAre DEF ToldHere, Told
<1>3. CASE ty = "EXTERNAL"
  <2>1. u = Found(t, s, l, p)
    BY <1>3 DEF LibSymbol, Found
  <2>2. u.type[s] = "EXTERNAL" /\ u.lib[s] = l
    BY <1>1, <1>3, <2>1 DEF Found, TabSet
  <2> QED
    BY <2>2, WeaklyAre DEF ToldHere
<1>4. CASE ty \in {"WEAK_EXTRN", "WEAK_DEFINED"}
  <2>1. u = IF t.lib[s] = None THEN Found(t, s, l, p) ELSE t
    BY <1>4 DEF LibSymbol, Found
  <2>2. u.type[s] = ty /\ u.lib[s] # None
    BY <1>1, <2>1 DEF Found, TabSet
  <2> QED
    BY <1>4, <2>2, WeaklyAre DEF ToldHere, Told
<1>5. CASE ty \in {"LAZY", "LAZY_DEFINED"}
  <2>1. u = Found(AddTo(RemoveFrom(t, s, ty), s, "EXTERNAL"), s, l, p)
    BY <1>5 DEF LibSymbol, Found
  <2>2. u.type[s] = "EXTERNAL" /\ u.lib[s] = l
    BY <1>1, <2>1 DEF Found, AddTo, RemoveFrom, TabSet
  <2> QED
    BY <2>2, WeaklyAre DEF ToldHere
<1>6. CASE ty \in {"COMM_NEAR", "NCOMM_UNREF"}
  <2>1. \/ u = t
        \/ u = Found(Retype(t, s, "LIBRARY"), s, l, p)
        \/ u = Found(AddTo(RemoveFrom(t, s, ty), s, "EXTERNAL"), s, l, p)
    BY <1>6 DEF LibSymbol, Found
  <2>2. CASE u = t
    BY <1>6, <2>2, WeaklyAre DEF ToldHere, Told
  <2>3. CASE u = Found(Retype(t, s, "LIBRARY"), s, l, p)
    <3>1. u.type[s] = "LIBRARY"
      BY <1>1, <2>3 DEF Found, Retype, TabSet
    <3> QED
      BY <3>1, WeaklyAre DEF ToldHere, Told
  <2>4. CASE u = Found(AddTo(RemoveFrom(t, s, ty), s, "EXTERNAL"), s, l, p)
    <3>1. u.type[s] = "EXTERNAL" /\ u.lib[s] = l
      BY <1>1, <2>4 DEF Found, AddTo, RemoveFrom, TabSet
    <3> QED
      BY <3>1, WeaklyAre DEF ToldHere
  <2> QED
    BY <2>1, <2>2, <2>3, <2>4
<1>7. CASE ty \in {"RELOC", "LIBRARY", "LIBRARY_LIST", "ALIASED", "ALIAS_DEFINED", "ALIASED_UNREF"}
  <2>1. u = t
    BY <1>7 DEF LibSymbol
  <2> QED
    BY <1>7, <2>1, WeaklyAre DEF ToldHere, Told, AliasTypes
<1>8. ty \in {"UNDEFINED", "EXTERNAL", "WEAK_EXTRN", "WEAK_DEFINED", "LAZY", "LAZY_DEFINED", "COMM_NEAR",
              "NCOMM_UNREF", "RELOC", "LIBRARY", "LIBRARY_LIST", "ALIASED", "ALIAS_DEFINED", "ALIASED_UNREF"}
  BY <1>1 DEF Types, Lists, Unlisted, Adrift, Possibles
<1> QED
  BY <1>2, <1>3, <1>4, <1>5, <1>6, <1>7, <1>8

(* What the entries of the dictionary keep one by one, going through it    *)
(* keeps.                                                                  *)
LEMMA DefineInTurn ==
  ASSUME prog \in Programs, NEW l \in Libs, NEW t, NEW P, Laid(t, l) \in P[0], NEW q, q = Dictionary(l),
         \A i \in 1 .. Len(q) : \A u \in P[i - 1] : LibSymbol(u, q[i][1], l, q[i][2]) \in P[i]
  PROVE  DefineLibSymbols(t, l) \in P[Len(q)]
<1> DEFINE Ptrs(list) == [t EXCEPT !.ptrs[l] = DoModulePtrs(prog.lib[l], list)]
           Ready == CHOOSE y \in {Ptrs(v) : v \in {ModulesOf(l)}} : TRUE
           Define(w) == InEntries(Ready, w, l)
<1>1. DefineLibSymbols(t, l) = CHOOSE y \in {Define(w) : w \in {Dictionary(l)}} : TRUE
  BY DEF DefineLibSymbols, Once, InEntries
<1>2. Ready = Laid(t, l)
  <2>1. {Ptrs(v) : v \in {ModulesOf(l)}} = {Laid(t, l)}
    BY DEF Laid
  <2> HIDE DEF Ptrs
  <2> QED
    BY <2>1
<1> HIDE DEF Ready
<1>3. q \in Seq(Says(l))
  BY DictionarySays
<1>4. InEntries(Ready, q, l) \in P[Len(q)]
  BY <1>2, <1>3, EntriesInTurn
<1>5. Define(q) \in P[Len(q)]
  BY <1>4
<1> HIDE DEF Define
<1>6. {Define(w) : w \in {Dictionary(l)}} = {Define(q)}
  OBVIOUS
<1> QED
  BY <1>1, <1>5, <1>6

(* A library that is opened tells of all its symbols.                      *)
LEMMA DefineTells ==
  ASSUME prog \in Programs, NEW l \in Libs, NEW D \in SUBSET Syms, NEW t, Sound(t, {}), Firmed(t, D),
         NEW u, u = DefineLibSymbols(t, l)
  PROVE  /\ \A s \in Syms : u.type[s] \notin Adrift \union Possibles
         /\ \A s \in D : ToldHere(u, s, l)
         /\ \A e \in RangeOf(Dictionary(l)) : e[1] \in Syms /\ ToldHere(u, e[1], l)
<1>1. PICK q : q = Dictionary(l)
  OBVIOUS
<1>2. q \in Seq(Says(l)) /\ Len(q) \in Nat /\ DOMAIN q = 1 .. Len(q)
  BY <1>1, DictionarySays
<1> DEFINE n == Len(q)
           Firm0(w) == Sound(w, {}) /\ \A s \in Syms : w.type[s] \notin Adrift \union Possibles
           P == [i \in 0 .. n |-> {w \in TabSet : /\ Firm0(w) /\ \A s \in D : ToldHere(w, s, l)
                                                  /\ \A j \in 1 .. i : ToldHere(w, q[j][1], l)}]
<1>3. n \in Nat /\ n \in 0 .. n /\ 0 \in 0 .. n /\ \A i \in 1 .. n : i - 1 \in 0 .. n /\ i \in 0 .. n /\ q[i] \in Says(l)
  BY <1>2
<1>4. Laid(t, l) \in P[0]
  <2>1. PICK w : w = Laid(t, l)
    OBVIOUS
  <2>2. /\ Sound(w, {}) /\ w.type = t.type /\ w.refd = t.refd /\ w.lib = t.lib /\ w.for = t.for
        /\ w.number = t.number /\ w.list = t.list /\ w.wanted = t.wanted
        /\ w.marked = t.marked /\ w.selected = t.selected /\ w.requests = t.requests /\ w.undeco = t.undeco
        /\ w.ptrs = [t.ptrs EXCEPT ![l] = DoModulePtrs(prog.lib[l], ModulesOf(l))]
    BY <2>1, LaidIs
  <2>3. Firm0(w) /\ \A s \in D : ToldHere(w, s, l)
    BY <2>2 DEF Firmed, ToldHere, Told
  <2>4. w \in TabSet
    BY <2>2, TypeOf
  <2> HIDE DEF Firm0, n
  <2> QED
    BY <1>3, <2>1, <2>3, <2>4
<1>5. ASSUME NEW i \in 1 .. n, NEW w \in P[i - 1]
      PROVE  LibSymbol(w, q[i][1], l, q[i][2]) \in P[i]
  <2>1. PICK s, p, x : s = q[i][1] /\ p = q[i][2] /\ x = LibSymbol(w, s, l, p)
    OBVIOUS
  <2>2. s \in Syms /\ p \in Int
    BY <1>3, <2>1 DEF Says
  <2>3. Firm0(w) /\ (\A y \in D : ToldHere(w, y, l)) /\ \A j \in 1 .. i - 1 : ToldHere(w, q[j][1], l)
    <3> HIDE DEF Firm0, n
    <3> QED
      BY <1>3
  <2>4. /\ Sound(x, {}) /\ x.refd = w.refd /\ x.for = w.for /\ Calm(w, x)
        /\ Others(w, x, s) /\ EntryLeads(w, x, s, l, p)
    BY <2>1, <2>2, <2>3, LibSymbolMoves
  <2>5. ToldHere(x, s, l) /\ x.type[s] \notin Adrift \union Possibles
    BY <2>1, <2>2, <2>3, EntryTells
  <2>6. \A y \in Syms : y # s => x.type[y] = w.type[y] /\ x.lib[y] = w.lib[y]
    BY <2>4 DEF Others
  <2>7. Firm0(x)
    BY <2>3, <2>4, <2>5, <2>6
  <2>8. \A y \in Syms : ToldHere(w, y, l) => ToldHere(x, y, l)
    BY <2>5, <2>6 DEF ToldHere, Told
  <2>9. \A j \in 1 .. n : q[j][1] \in Syms
    BY <1>3 DEF Says
  <2>10. \A j \in 1 .. i : ToldHere(x, q[j][1], l)
    <3>1. \A j \in 1 .. i : j \in 1 .. n /\ (j = i \/ j \in 1 .. i - 1)
      BY <1>3
    <3> QED
      BY <2>1, <2>3, <2>5, <2>8, <2>9, <3>1
  <2>11. x \in TabSet
    BY <2>4, TypeOf
  <2> HIDE DEF Firm0, n
  <2> QED
    BY <1>3, <2>1, <2>3, <2>7, <2>8, <2>10, <2>11
<1>6. u \in P[n]
  <2> HIDE DEF P, Firm0
  <2> QED
    BY <1>1, <1>4, <1>5, DefineInTurn
<1>7. Firm0(u) /\ (\A s \in D : ToldHere(u, s, l)) /\ \A j \in 1 .. n : ToldHere(u, q[j][1], l)
  <2> HIDE DEF Firm0, n
  <2> QED
    BY <1>3, <1>6
<1>8. \A e \in RangeOf(q) : \E j \in 1 .. n : e = q[j] /\ e[1] \in Syms
  BY <1>2, <1>3 DEF RangeOf, Says
<1> QED
  BY <1>1, <1>7, <1>8

(* What waits for the library just opened is asked of it.                  *)
LEMMA UpdateTells ==
  ASSUME prog \in Programs, NEW l \in Libs, NEW D \in SUBSET Syms, NEW t, Sound(t, {}),
         \A s \in Syms : t.type[s] \notin Adrift \union Possibles,
         \A s \in D : ToldHere(t, s, l),
         NEW u, u = UpdateLibSymbols(t, l)
  PROVE  Firmed(u, D)
<1>1. /\ Sound(u, {}) /\ Later(Numbered(t, l), u) /\ u.refd = t.refd /\ u.for = t.for
      /\ \A x \in Syms : u.type[x] = IF t.type[x] = "EXTERNAL" /\ t.lib[x] = l
                                     THEN "LIBRARY_LIST" ELSE t.type[x]
  BY UpdateMoves
<1>2. PICK v : v = Numbered(t, l)
  OBVIOUS
<1>3. v.lib = t.lib
  BY <1>2, NumberedIs
<1>4. u.lib = t.lib
  BY <1>1, <1>2, <1>3 DEF Later
<1>5. \A x \in Syms : u.type[x] \notin Adrift \union Possibles
  BY <1>1, WeaklyAre
<1>6. ASSUME NEW x \in D PROVE Told(u, x)
  <2>1. ToldHere(t, x, l) /\ x \in Syms
    OBVIOUS
  <2>2. CASE t.type[x] = "EXTERNAL" /\ t.lib[x] = l
    BY <1>1, <2>1, <2>2, WeaklyAre DEF Told
  <2>3. CASE ~(t.type[x] = "EXTERNAL" /\ t.lib[x] = l)
    BY <1>1, <1>4, <2>1, <2>3 DEF Told, ToldHere
  <2> QED
    BY <2>2, <2>3
<1> QED
  BY <1>5, <1>6 DEF Firmed

(* What stands in for another is told still when it is referenced.         *)
LEMMA FixDefaultTells ==
  ASSUME NEW D \in SUBSET Syms, NEW t, Sound(t, {}), Firmed(t, D), NEW d \in Syms, NEW u, u = FixDefault(t, d)
  PROVE  Sound(u, {}) /\ Firmed(u, D)
<1>1. /\ Sound(u, {}) /\ Later(t, u) /\ Moves(t, u, d) /\ u.for = t.for
      /\ u.refd = t.refd \union {d} /\ FallsBack(t, u, d)
  BY FixDefaultMoves
<1>2. u.lib = t.lib /\ \A x \in Syms : x # d => u.type[x] = t.type[x]
  BY <1>1 DEF Later, Moves
<1>3. t.type[d] \notin Adrift \union Possibles /\ (d \in D => Told(t, d))
  BY DEF Firmed
<1>4. u.type[d] \notin Adrift \union Possibles /\ (d \in D => Told(u, d))
  <2>1. CASE u.type[d] = t.type[d]
    BY <1>2, <1>3, <2>1 DEF Told
  <2>2. CASE u.type[d] = "LIBRARY_LIST"
    BY <2>2, WeaklyAre DEF Told
  <2>3. CASE t.type[d] \in {"ALIASED_UNREF", "NCOMM_UNREF"} /\ u.type[d] \in {"ALIASED", "COMM_NEAR"}
    BY <2>3, WeaklyAre DEF Told, AliasTypes
  <2>4. CASE t.type[d] = "UNDEFINED" /\ u.type[d] = "EXTERNAL"
    BY <1>3, <2>4, WeaklyAre DEF Told
  <2>5. t.type[d] \in DOMAIN Unreferenced /\ u.type[d] = Unreferenced[t.type[d]]
          => \/ t.type[d] \in Adrift
             \/ t.type[d] \in {"ALIASED_UNREF", "NCOMM_UNREF"} /\ u.type[d] \in {"ALIASED", "COMM_NEAR"}
             \/ t.type[d] = "UNDEFINED" /\ u.type[d] = "EXTERNAL"
    BY DEF Unreferenced, Adrift
  <2> QED
    BY <1>1, <1>3, <2>1, <2>2, <2>3, <2>4, <2>5 DEF FallsBack
<1>5. \A x \in Syms : u.type[x] \notin Adrift \union Possibles
  BY <1>2, <1>4 DEF Firmed
<1>6. \A x \in D : Told(u, x)
  BY <1>2, <1>4 DEF Firmed, Told
<1> QED
  BY <1>1, <1>5, <1>6 DEF Firmed

(* So it is when all exports have been referenced,                         *)
LEMMA ScanUndecoTells ==
  ASSUME NEW D \in SUBSET Syms, NEW t, Sound(t, {}), Firmed(t, D)
  PROVE  Firmed(ScanUndeco(t).t, D)
<1> DEFINE Q == {u \in TabSet : Sound(u, {}) /\ Firmed(u, D)}
<1>1. t \in Q /\ t.undeco \in Seq(ExportType)
  BY TypeOf DEF TabSet
<1>2. ASSUME NEW u \in Q, NEW s \in Syms
      PROVE  FixDefault(u, s) \in Q
  <2>1. PICK w : w = FixDefault(u, s)
    OBVIOUS
  <2>2. Sound(w, {}) /\ Firmed(w, D)
    BY <2>1, FixDefaultTells
  <2> QED
    BY <2>1, <2>2, TypeOf
<1>3. PICK u : u = ScanUndeco(t).t
  OBVIOUS
<1>4. PICK v \in Q, left \in Seq(ExportType) : u = [v EXCEPT !.undeco = left]
  <2> HIDE DEF Q
  <2> QED
    BY <1>1, <1>2, <1>3, ExportsStay
<1>5. u.type = v.type /\ u.lib = v.lib
  BY <1>4 DEF TabSet
<1> QED
  BY <1>3, <1>4, <1>5 DEF Firmed, Told

(* which asks for no library unless it says so,                            *)
LEMMA ScanUndecoQuiet ==
  ASSUME NEW t, Sound(t, {}), ~ScanUndeco(t).new
  PROVE  ScanUndeco(t).t.requests = t.requests
<1> DEFINE S == {v \in TabSet : Sound(v, {})}
           P == [t : S, new : BOOLEAN, left : Seq(ExportType)]
           Q == {acc \in P : acc.new \/ acc.t.requests = t.requests}
           start == [t |-> t, new |-> FALSE, left |-> <<>>]
           result == InOrder(ScanExport, start, t.undeco)
<1>1. start \in Q /\ t.undeco \in Seq(ExportType)
  BY TypeOf DEF TabSet
<1>2. ASSUME NEW acc \in Q, NEW e \in ExportType
      PROVE  ScanExport(acc, e) \in Q
  <2> DEFINE s == Head(e.match)
             f == [t |-> FixDefault(acc.t, s), new |-> TRUE, left |-> acc.left]
             h == IF s \in acc.t.refd THEN acc ELSE f
             a == [acc EXCEPT !.left = Append(@, e)]
             b == [h EXCEPT !.left = Append(@, [e EXCEPT !.seen = TRUE])]
  <2>1. e.match \in Seq(Syms) /\ [e EXCEPT !.seen = TRUE] \in ExportType
    BY DEF ExportType
  <2>2. \A q \in Seq(ExportType) : \A x \in ExportType : Append(q, x) \in Seq(ExportType)
    OBVIOUS
  <2>3. acc \in P /\ acc.t \in S
    OBVIOUS
  <2>4. CASE e.match = <<>> \/ e.seen
    <3>1. ScanExport(acc, e) = a
      BY <2>4 DEF ScanExport
    <3>2. a \in Q
      <4> HIDE DEF S
      <4> QED
        BY <2>2
    <3> QED
      BY <3>1, <3>2
  <2>5. CASE ~(e.match = <<>> \/ e.seen)
    <3>1. s \in Syms
      BY <2>1, <2>5
    <3>2. f \in Q
      <4>1. PICK w : w = FixDefault(acc.t, s)
        OBVIOUS
      <4>2. Sound(w, {})
        BY <2>3, <3>1, <4>1, FixDefaultMoves
      <4>3. w \in S
        BY <4>2, TypeOf
      <4> HIDE DEF S
      <4> QED
        BY <2>3, <4>1, <4>3
    <3> HIDE DEF f
    <3>3. h \in Q
      BY <3>2
    <3>4. ScanExport(acc, e) = IF e.exact THEN h ELSE b
      BY <2>5 DEF ScanExport, f
    <3> HIDE DEF h
    <3>5. b \in Q
      <4> HIDE DEF S
      <4> QED
        BY <2>1, <2>2, <3>3
    <3> QED
      BY <3>3, <3>4, <3>5
  <2> QED
    BY <2>4, <2>5
<1>3. result \in Q
  <2> HIDE DEF Q, start
  <2> QED
    BY <1>1, <1>2, ExportsSeen
<1>4. ScanUndeco(t).t = [result.t EXCEPT !.undeco = result.left] /\ ScanUndeco(t).new = result.new
  BY DEF ScanUndeco
<1> HIDE DEF result
<1>5. result.t \in TabSet /\ result.t.requests = t.requests
  BY <1>3, <1>4
<1> QED
  BY <1>4, <1>5 DEF TabSet

(* and after a turn of a scan,                                             *)
LEMMA TurnTells ==
  ASSUME NEW D \in SUBSET Syms, NEW t, Sound(t, {}), Firmed(t, D), NEW l \in DOMAIN Defined, t.list[l] # <<>>
  PROVE  Firmed(Turn(t, l, Defined[l]), D)
<1> DEFINE s == Head(t.list[l])
           d == t.for[s]
           v == FixDefault(t, d)
<1>1. PICK u : u = Turn(t, l, Defined[l])
  OBVIOUS
<1>2. Later(t, u) /\ SeenTo(t, u, v, s, l)
  BY <1>1, TurnMoves
<1>3. d \in Syms /\ s \in Syms /\ t.type[s] = l /\ u.type = [v.type EXCEPT ![s] = Defined[l]]
  BY <1>2 DEF SeenTo
<1>4. Sound(v, {}) /\ Firmed(v, D)
  BY <1>3, FixDefaultTells
<1>5. v.type[s] = l
  <2>1. CASE s = d
    BY <1>2, <1>3, <2>1, DefinedAre DEF FallsBack, SeenTo
  <2>2. CASE s # d
    BY <1>2, <1>3, <2>2 DEF Moves, SeenTo
  <2> QED
    BY <2>1, <2>2
<1>6. v.lib = t.lib /\ u.lib = t.lib
  BY <1>2, <1>3, FixDefaultMoves DEF Later
<1> HIDE DEF s, d, v
<1>7. v.type \in [Syms -> Types]
  BY <1>4, TypeOf
<1>8. \A x \in Syms : x # s => u.type[x] = v.type[x]
  BY <1>3, <1>7
<1>9. u.type[s] = Defined[l] /\ v.type[s] = l
  BY <1>3, <1>5, <1>7
<1>10. /\ Defined[l] \notin Adrift \union Possibles \union {"UNDEFINED", "EXTERNAL"}
       /\ Defined[l] \in Weakly => l \in Weakly
  BY DefinedAre DEF Defined, Adrift, Possibles, Weakly
<1>11. \A x \in Syms : u.type[x] \notin Adrift \union Possibles
  BY <1>4, <1>8, <1>9, <1>10 DEF Firmed
<1>12. \A x \in D : Told(v, x) => Told(u, x)
  BY <1>6, <1>8, <1>9, <1>10 DEF Told
<1> QED
  BY <1>1, <1>4, <1>11, <1>12 DEF Firmed

(* which asks for no library unless it goes back to the libraries.         *)
LEMMA TurnQuiet ==
  ASSUME NEW t, Sound(t, {}), NEW l \in DOMAIN Defined, t.list[l] # <<>>, ~Stops(t, l)
  PROVE  Turn(t, l, Defined[l]).requests = t.requests
<1> DEFINE s == Head(t.list[l])
           d == t.for[s]
           v == FixDefault(t, d)
<1>1. t \in TabSet /\ SeenTo(t, Turn(t, l, Defined[l]), v, s, l)
  BY TypeOf, TurnMoves
<1>2. v \in TabSet
  BY <1>1, TypeOf DEF SeenTo
<1>3. t.type[d] # "LIBRARY"
  BY DefinedAre DEF Stops
<1>4. v.requests = t.requests
  BY <1>1, <1>3 DEF FixDefault, Referenced, AddTo, TabSet
<1>5. PICK w : w = FixDefault(t, d)
  OBVIOUS
<1>6. Turn(t, l, Defined[l]) = FixLink(w, l, Defined[l])
  BY <1>5 DEF Turn
<1>7. FixLink(w, l, Defined[l]).requests = w.requests
  BY <1>2, <1>5 DEF FixLink, AddTo, RemoveFrom, TabSet
<1> QED
  BY <1>4, <1>5, <1>6, <1>7

(* The symbols of the dictionaries gone through.                           *)
Offered == {s \in Syms : \E l \in RangeOf(opened) : \E e \in RangeOf(Dictionary(l)) : e[1] = s}

Late == {"undeco", "ALIASED", "WEAK_EXTRN", "LAZY", "done"}

OverAt(t, p, D, l) ==
  /\ \A s \in Syms : t.type[s] \notin Adrift \union Possibles
  /\ p = "number" => \A s \in D : ToldHere(t, s, l)
  /\ p # "number" => \A s \in D : Told(t, s)
  /\ p \in Late => t.requests = <<>>

OverInv ==
  Inv /\ OverAt(tab, pc, Offered, Last(opened))

(* The modules that are read refer firmly.                                 *)
LEMMA ReadFirmly ==
  ASSUME Firm, prog \in Programs
  PROVE  /\ \A m \in RangeOf(prog.objs) : RefersFirmly(m)
         /\ \A l \in Libs : \A p : RefersFirmly(ModuleAt(l, p))
<1>1. ASSUME NEW m \in RangeOf(prog.objs) PROVE RefersFirmly(m)
  BY DEF Modules, Firm
<1>2. ASSUME NEW l \in Libs, NEW p PROVE RefersFirmly(ModuleAt(l, p))
  <2>1. CASE p \in RangeOf(prog.lib[l].page)
    <3>1. ModuleAt(l, p) \in Library(prog)
      BY <2>1 DEF ModuleAt, Library
    <3> QED
      BY <3>1 DEF Modules, Firm
  <2>2. CASE p \notin RangeOf(prog.lib[l].page)
    <3>1. ModuleAt(l, p) = Nothing
      BY <2>2 DEF ModuleAt
    <3>2. RangeOf(Nothing.weak) = {} /\ RangeOf(Nothing.lazy) = {}
      BY DEF Nothing, RangeOf
    <3> QED
      BY <3>1, <3>2 DEF RefersFirmly
  <2> QED
    BY <2>1, <2>2
<1> QED
  BY <1>1, <1>2

(* The module of an object file is read.                                   *)
LEMMA ReadObjectTells ==
  ASSUME Firm, OverInv, ReadObject
  PROVE  OverAt(tab', pc', Offered, Last(opened))
<1>1. PICK m : m = Head(objs)
  OBVIOUS
<1>2. pc = "objs" /\ pc' \in {"next", "objs"} /\ tab' = ReadModule(tab, data, m, None, 0)
  BY <1>1 DEF ReadObject
<1>3. m \in ModuleType /\ m \in RangeOf(objs)
  <2>1. objs \in Seq(ModuleType) /\ objs # <<>>
    BY <1>2 DEF OverInv, Inv, Provided, Control
  <2> QED
    BY <1>1, <2>1, TailIs
<1>4. Sound(tab, {}) /\ prog \in Programs /\ m \in RangeOf(prog.objs)
  BY <1>3 DEF OverInv, Inv, Provided, Recorded
<1>5. Firmed(tab, Offered) /\ Offered \in SUBSET Syms
  BY <1>2 DEF OverInv, OverAt, Firmed, Offered
<1>6. RefersFirmly(m) /\ Held(tab, m.code \intersect data)
  <2>1. m \in Modules(prog)
    BY <1>4 DEF Modules
  <2> QED
    BY <1>4, <2>1, ReadFirmly, HeldNow DEF OverInv
<1>7. Firmed(ReadModule(tab, data, m, None, 0), Offered)
  BY <1>3, <1>4, <1>5, <1>6, ReadModuleFirmed
<1> QED
  BY <1>2, <1>7 DEF OverAt, Firmed, Late

(* So is the module a library is asked for.                                *)
LEMMA ProcessTells ==
  ASSUME Firm, OverInv, ProcessModule
  PROVE  OverAt(tab', pc', Offered, Last(opened))
<1>1. /\ cur # None /\ tab' = CountedOff(After, cur) /\ pc' \in {"next", pc}
  BY ProcessIs
<1>2. Inv /\ Sound(tab, {}) /\ prog \in Programs /\ pc \in {"one", "all"}
  BY <1>1 DEF OverInv, Inv, Provided, Control
<1>3. Sound(After, {}) /\ cur \in Libs /\ cur \in RangeOf(After.requests) /\ Chosen \in ModuleType
  BY <1>1, <1>2, AfterMoves
<1>4. Firmed(tab, Offered) /\ Offered \in SUBSET Syms
  BY <1>2 DEF OverInv, OverAt, Firmed, Offered
<1>5. Firmed(After, Offered)
  <2>1. CASE tab.wanted[cur] = <<>>
    BY <1>4, <2>1 DEF After
  <2>2. CASE tab.wanted[cur] # <<>>
    <3>1. PICK m : m = Chosen
      OBVIOUS
    <3>2. RefersFirmly(m) /\ Held(tab, m.code \intersect data)
      BY <1>1, <1>2, <1>3, <3>1, ReadFirmly, AfterMoves, HeldNow DEF Chosen
    <3>3. \A n : Firmed(ReadModule(tab, data, m, cur, n), Offered)
      BY <1>2, <1>3, <1>4, <3>1, <3>2, ReadModuleFirmed
    <3> QED
      BY <2>2, <3>1, <3>3 DEF After
  <2> QED
    BY <2>1, <2>2
<1>6. PICK a : a = After
  OBVIOUS
<1>7. PICK u : u = CountedOff(a, cur)
  OBVIOUS
<1>8. /\ Sound(u, {}) /\ u.type = a.type /\ u.refd = a.refd /\ u.lib = a.lib /\ u.for = a.for
      /\ u.number = a.number /\ u.wanted = a.wanted /\ u.list = a.list
      /\ u.ptrs = a.ptrs /\ u.undeco = a.undeco
      /\ a.selected[cur] = 1 => Len(u.requests) = Len(a.requests) - 1
      /\ a.selected[cur] # 1 => cur \in RangeOf(u.requests) /\ u.requests = a.requests
  BY <1>3, <1>6, <1>7, CountsOff
<1>9. Firmed(u, Offered)
  BY <1>5, <1>6, <1>8 DEF Firmed, Told
<1> QED
  BY <1>1, <1>2, <1>6, <1>7, <1>9 DEF OverAt, Firmed, Late

(* A library is opened.                                                    *)
LEMMA OpenTells ==
  ASSUME OverInv, OpenLib
  PROVE  OverAt(tab', pc', Offered', Last(opened'))
<1>1. PICK l : l = Head(toOpen)
  OBVIOUS
<1>2. pc = "next" /\ pc' = "number"
  BY DEF OpenLib
<1>3. Inv
  BY DEF OverInv
<1>4. /\ l \in Libs /\ l \in RangeOf(toOpen) /\ opened' = Append(opened, l) /\ opened \in Seq(Libs)
      /\ RangeOf(opened') = RangeOf(opened) \union {l} /\ Last(opened') = l
      /\ tab' = DefineLibSymbols(tab, l) /\ Sound(tab, {}) /\ prog \in Programs /\ prog' = prog
      /\ tab'.ptrs = [tab.ptrs EXCEPT ![l] = DoModulePtrs(prog.lib[l], ModulesOf(l))]
  BY <1>1, <1>3, OpensIs
<1>5. Firmed(tab, Offered) /\ Offered \in SUBSET Syms
  BY <1>2 DEF OverInv, OverAt, Firmed, Offered
<1>6. PICK u : u = DefineLibSymbols(tab, l)
  OBVIOUS
<1>7. /\ \A s \in Syms : u.type[s] \notin Adrift \union Possibles
      /\ \A s \in Offered : ToldHere(u, s, l)
      /\ \A e \in RangeOf(Dictionary(l)) : e[1] \in Syms /\ ToldHere(u, e[1], l)
  BY <1>4, <1>5, <1>6, DefineTells
<1>8. ASSUME NEW s \in Offered' PROVE ToldHere(u, s, l)
  <2>1. s \in Syms /\ \E k \in RangeOf(opened) \union {l} : \E e \in RangeOf(Dictionary(k)) : e[1] = s
    BY <1>4 DEF Offered, Dictionary
  <2>2. CASE s \in Offered
    BY <1>7, <2>2
  <2>3. CASE \E e \in RangeOf(Dictionary(l)) : e[1] = s
    BY <1>7, <2>3
  <2> QED
    BY <2>1, <2>2, <2>3 DEF Offered
<1> QED
  BY <1>2, <1>4, <1>6, <1>7, <1>8 DEF OverAt, Late

(* Every step keeps it.                                                    *)
LEMMA OverStep ==
  ASSUME Firm, OverInv, [Next]_vars
  PROVE  OverInv'
<1>1. Inv' /\ Inv /\ Sound(tab, {}) /\ prog \in Programs /\ prog' = prog
  <2>1. prog' = prog
    BY DEF Next, vars, ReadObject, OpenLib, NumberModules, NoMoreLibs, SelectLibrary, ProcessModule,
           ScanExports, ScanTurn, ScanEnds
  <2> QED
    BY <2>1, StepKeeps DEF OverInv, Inv, Provided
<1>2. OverAt(tab, pc, Offered, Last(opened)) /\ Offered \in SUBSET Syms
  BY DEF OverInv, Offered
<1>3. SUFFICES OverAt(tab', pc', Offered', Last(opened'))
  BY <1>1, <1>3 DEF OverInv, OverAt, ToldHere, Told
<1>5. CASE OpenLib
  BY <1>5, OpenTells
<1>6. ASSUME ~OpenLib, OverAt(tab', pc', Offered, Last(opened)) PROVE OverAt(tab', pc', Offered', Last(opened'))
  <2>1. opened' = opened
    <3>1. ProcessModule => opened' = opened
      BY ProcessIs
    <3> QED
      BY <1>6, <3>1 DEF Next, vars, ReadObject, NumberModules, NoMoreLibs, SelectLibrary, ScanExports, ScanTurn,
                        ScanEnds
  <2>2. Offered' = Offered
    BY <1>1, <2>1 DEF Offered, Dictionary
  <2> QED
    BY <1>6, <2>1, <2>2
<1> SUFFICES ASSUME ~OpenLib PROVE OverAt(tab', pc', Offered, Last(opened))
  BY <1>5, <1>6
<1>7. pc # "number" => Firmed(tab, Offered)
  BY <1>2 DEF OverAt, Firmed
<1>8. CASE ReadObject
  BY <1>8, ReadObjectTells
<1>9. CASE ProcessModule
  BY <1>9, ProcessTells
<1>10. CASE NumberModules
  <2>1. PICK l : l = Last(opened)
    OBVIOUS
  <2>2. pc = "number" /\ pc' \in {"one", "next"} /\ tab' = UpdateLibSymbols(tab, l) /\ l \in Libs
    BY <1>1, <1>10, <2>1, LastOpened DEF NumberModules
  <2>3. (\A s \in Syms : tab.type[s] \notin Adrift \union Possibles) /\ \A s \in Offered : ToldHere(tab, s, l)
    BY <1>2, <2>1, <2>2 DEF OverAt
  <2>4. Firmed(UpdateLibSymbols(tab, l), Offered)
    BY <1>1, <1>2, <2>2, <2>3, UpdateTells
  <2> QED
    BY <2>2, <2>4 DEF OverAt, Firmed, Late
<1>11. CASE NoMoreLibs
  <2>1. pc = "next" /\ pc' = (IF tab.requests = <<>> THEN "undeco" ELSE "all") /\ tab' = tab
    BY <1>11 DEF NoMoreLibs
  <2> QED
    BY <1>2, <2>1 DEF OverAt, Late
<1>12. CASE SelectLibrary
  <2>1. pc \in {"one", "all"} /\ pc' = pc /\ tab' = tab
    BY <1>12 DEF SelectLibrary
  <2> QED
    BY <1>2, <2>1 DEF OverAt, Late
<1>13. CASE ScanExports
  <2>1. /\ pc = "undeco" /\ tab' = ScanUndeco(tab).t
        /\ pc' = IF ScanUndeco(tab).new THEN "next" ELSE "ALIASED"
    BY <1>13 DEF ScanExports
  <2>2. tab.requests = <<>>
    BY <1>2, <2>1 DEF OverAt, Late
  <2>3. Firmed(ScanUndeco(tab).t, Offered)
    BY <1>1, <1>2, <1>7, <2>1, ScanUndecoTells
  <2>4. ~ScanUndeco(tab).new => ScanUndeco(tab).t.requests = <<>>
    BY <1>1, <2>2, ScanUndecoQuiet
  <2> QED
    BY <2>1, <2>3, <2>4 DEF OverAt, Firmed, Late
<1>14. CASE ScanTurn
  <2>1. /\ pc \in DOMAIN Defined /\ tab.list[pc] # <<>> /\ tab' = Turn(tab, pc, Defined[pc])
        /\ pc' = IF Stops(tab, pc) THEN "next" ELSE pc
    BY <1>14 DEF ScanTurn
  <2>2. pc \in Late /\ pc # "number"
    BY <2>1, DefinedAre DEF Late
  <2>3. tab.requests = <<>>
    BY <1>2, <2>2 DEF OverAt
  <2>4. Firmed(Turn(tab, pc, Defined[pc]), Offered)
    BY <1>1, <1>2, <1>7, <2>1, <2>2, TurnTells
  <2>5. ~Stops(tab, pc) => Turn(tab, pc, Defined[pc]).requests = <<>>
    BY <1>1, <2>1, <2>3, TurnQuiet
  <2> QED
    BY <2>1, <2>2, <2>4, <2>5 DEF OverAt, Firmed, Late
<1>15. CASE ScanEnds
  <2>1. pc \in {"ALIASED", "WEAK_EXTRN", "LAZY"} /\ pc' = ScanAfter[pc] /\ tab' = tab
    BY <1>15, DefinedAre DEF ScanEnds
  <2>2. pc \in Late /\ pc # "number" /\ ScanAfter[pc] # "number"
    BY <2>1 DEF Late, ScanAfter
  <2> QED
    BY <1>2, <2>1, <2>2 DEF OverAt
<1>16. CASE UNCHANGED vars
  <2>1. tab' = tab /\ pc' = pc
    BY <1>16 DEF vars
  <2> QED
    BY <1>2, <2>1
<1> QED
  BY <1>8, <1>9, <1>10, <1>11, <1>12, <1>13, <1>14, <1>15, <1>16 DEF Next

(* A library that something is wanted from is on the request list.         *)
WantedListed == \A l \in Libs : tab.wanted[l] # <<>> => l \in RangeOf(tab.requests)

(* At the end nothing is on the request list, so nothing is wanted.        *)
LEMMA OverEnd ==
  ASSUME OverInv, WantedListed
  PROVE  NothingOverlooked
<1> SUFFICES ASSUME pc = "done", NEW s \in Syms, tab.type[s] \in {"EXTERNAL", "LIBRARY_LIST"},
                    NEW l \in RangeOf(opened), NEW e \in RangeOf(Dictionary(l)), e[1] = s
             PROVE  FALSE
  BY DEF NothingOverlooked
<1>1. Told(tab, s) /\ tab.requests = <<>> /\ Sound(tab, {})
  BY DEF OverInv, OverAt, Offered, Late, Inv
<1>2. tab.type[s] = "LIBRARY_LIST"
  BY <1>1 DEF Told
<1>3. PICK k : k = tab.lib[s]
  OBVIOUS
<1>4. k \in Libs
  BY <1>1, <1>2, <1>3 DEF Sound, Grounded
<1>5. s \in RangeOf(tab.wanted[k])
  BY <1>1, <1>2, <1>3, <1>4 DEF Sound, WantsRight
<1>6. RangeOf(<<>>) = {}
  BY DEF RangeOf
<1>7. tab.wanted[k] # <<>>
  BY <1>5, <1>6
<1> QED
  BY <1>1, <1>4, <1>6, <1>7 DEF WantedListed

(* When the linker goes on to report what is undefined, nothing it waits   *)
(* for is in a dictionary it has gone through: for programs whose modules  *)
(* refer firmly and that have no communal as code elsewhere (DoPublic),    *)
(* and as long as no library with something wanted from it falls off the   *)
(* request list (_process_lib).                                            *)
THEOREM AlwaysNothingOverlooked ==
  ASSUME Firm, NoClash
  PROVE  Spec /\ []WantedListed => []NothingOverlooked
<1>1. Init => OverInv
  <2> SUFFICES ASSUME Init PROVE OverInv
    OBVIOUS
  <2>1. pc = "objs" /\ objs = prog.objs /\ opened = <<>>
    BY DEF Init
  <2>2. tab.type = [s \in Syms |-> "UNDEFINED"]
    BY DEF Init, InitTab
  <2>3. RangeOf(opened) = {}
    BY <2>1 DEF RangeOf
  <2>4. Offered = {}
    BY <2>3 DEF Offered
  <2>5. OverAt(tab, pc, Offered, Last(opened))
    BY <2>1, <2>2, <2>4, WeaklyAre DEF OverAt, Late
  <2> QED
    BY <2>1, <2>5, StartsSound DEF OverInv
<1>2. OverInv /\ [Next]_vars => OverInv'
  BY OverStep
<1>3. OverInv /\ WantedListed => NothingOverlooked
  BY OverEnd
<1> QED
  BY <1>1, <1>2, <1>3, PTL DEF Spec
================================================================================
