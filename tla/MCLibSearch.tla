----------------------------- MODULE MCLibSearch -------------------------------
(* Three symbols, two libraries, and every combination of two things an       *)
(* object file can say of the symbols; and one library of every small shape.  *)
EXTENDS LibSearch

CONSTANTS sa, sb, sc, L1, L2

Says(field, p, how) ==
  [Nothing EXCEPT ![field] = <<p>>, !.refs = <<[sym |-> p[1], how |-> how], [sym |-> p[2], how |-> {}]>>]

Strongly(s) == [Nothing EXCEPT !.refs = <<[sym |-> s, how |-> {"hard"}]>>]
Softly(s)   == [Nothing EXCEPT !.refs = <<[sym |-> s, how |-> {"soft"}]>>]
Common(s)   == [Nothing EXCEPT !.comm = <<s>>]
Weakly(p)   == Says("weak", p, {"hard"})
Lazily(p)   == Says("lazy", p, {"hard"})
Aliased(p)  == [Nothing EXCEPT !.alias = <<p>>]
AsksFor(l)  == [Nothing EXCEPT !.libs = <<l>>]
WeakSoft(p) == Says("weak", p, {"soft"})

Both(m, n) ==
  [refs |-> m.refs \o n.refs, weak |-> m.weak \o n.weak, lazy |-> m.lazy \o n.lazy,
   alias |-> m.alias \o n.alias, defs |-> m.defs \o n.defs, code |-> m.code \union n.code,
   comm |-> m.comm \o n.comm, libs |-> m.libs \o n.libs]

Defining(s, m) == [m EXCEPT !.defs = <<s>>]
InCode(m)      == [m EXCEPT !.code = RangeOf(m.defs)]

Pairs == {p \in Syms \X Syms : p[1] # p[2]}

Facts == {Strongly(s) : s \in Syms} \union {Softly(s) : s \in Syms}
           \union {Common(s) : s \in {sa, sc}} \union {Defining(sa, Nothing)}
           \union {Weakly(p) : p \in Pairs} \union {Lazily(p) : p \in Pairs}
           \union {Aliased(<<sa, sb>>), Aliased(<<sa, sc>>), Aliased(<<sc, sb>>)}

\* The two libraries: sa and sb are in the first, sc in the second.
Link(files, libs, exports, m1, m2, m3) ==
  [objs |-> files, libs |-> libs, exports |-> exports, communals |-> FALSE,
   lib |-> [l \in Libs |-> [pageSize |-> 1, dict |-> 5,
                            page |-> IF l = L1 THEN <<3, 1>> ELSE <<2>>]],
   module |-> [l \in Libs |-> IF l = L1 THEN 1 :> Defining(sa, m1) @@ 3 :> Defining(sb, m2)
                              ELSE 2 :> Defining(sc, m3)]]

Usual(libs) ==
  {Link(<<f, g>>, libs, <<>>, m[1], Strongly(sc), m[2]) :
     f \in Facts, g \in Facts,
     m \in {<<Nothing, Nothing>>, <<Nothing, Strongly(sa)>>, <<Nothing, Strongly(sb)>>,
            <<Weakly(<<sb, sc>>), Nothing>>, <<Weakly(<<sb, sc>>), Strongly(sb)>>,
            <<Lazily(<<sc, sb>>), Nothing>>}}

\* The second library is known only once a module of the first asks for it.
Late ==
  {Link(<<f, g>>, <<L1>>, <<>>, AsksFor(L2), m2, Strongly(sb)) :
     f \in Facts \ {Weakly(p) : p \in Pairs}, g \in {Strongly(sa), Lazily(<<sc, sa>>)},
     m2 \in {Nothing, Strongly(sc)}}

Exports ==
  {Link(<<f>>, <<L1, L2>>, <<[exact |-> x, match |-> <<s>>], [exact |-> FALSE, match |-> q]>>,
        Nothing, Nothing, Nothing) :
     f \in Facts, x \in BOOLEAN, s \in Syms, q \in {<<>>, <<sb>>, <<sb, sc>>}}

\* Libraries are searched for communals, which they may define as communals too.
Communal ==
  {[Link(<<Common(x), g>>, <<L1, L2>>, <<>>, m1, Strongly(sc), m3) EXCEPT !.communals = TRUE] :
     x \in {sa, sc}, g \in Facts, m1 \in {Nothing, Common(sa), Weakly(<<sb, sc>>)}, m3 \in {Nothing, Strongly(sb)}}

\* A public in a segment of code, here and in the libraries, of what is data in
\* another module.
Code(searched) ==
  {LET p == Link(<<f, g>>, <<L1, L2>>, <<>>, m1, Strongly(sc), Nothing)
   IN  [p EXCEPT !.communals = searched,
                 !.module = [l \in Libs |-> [q \in DOMAIN @[l] |-> InCode(@[l][q])]]] :
     f \in {Common(x) : x \in Syms} \union {Both(Common(sb), Strongly(sb)), InCode(Defining(sa, Nothing))},
     g \in Facts \union {InCode(Defining(sb, Strongly(sa)))},
     m1 \in {Nothing, Strongly(sb), Common(sb)}}

\* Libraries of one to five modules: tables below half a block of entries, in
\* one block and in two; page maps of one word and two; modules that end where
\* a block does, and blocks that hold several modules or a part of one.
Descending(S) == SetToSortSeq(S, >)

Shapes ==
  {[Link(<<Strongly(sa)>>, <<L1>>, <<>>, Nothing, Nothing, Nothing)
      EXCEPT !.lib[L1] = [pageSize |-> z, dict |-> z * 9 + d, page |-> Descending(s \union {1, 9})],
             !.module[L1] = [p \in s \union {1, 9} |->
                               IF p = 9 THEN Defining(sa, Nothing) ELSE Nothing]] :
     s \in {t \in SUBSET (2 .. 8) : Cardinality(t) <= 4}, z \in {1, 2}, d \in {1, 3}}

Sound    == Usual(<<L1, L2>>) \union Late \union Exports \union Communal \union Shapes \union Code(FALSE)
              \union {p \in Code(TRUE) : DataNotCode(p)}
WithSoft == {Link(<<WeakSoft(<<sa, sb>>), f>>, <<L1, L2>>, <<>>, m1, Strongly(sa), Nothing) :
               f \in {Strongly(sb), Strongly(sa)}, m1 \in {Nothing, Strongly(sc)}}
             \union {Link(<<Weakly(<<sc, sb>>), Strongly(sa)>>, <<L1>>, <<>>, AsksFor(L2), Nothing, Strongly(sc))}

\* Weak and not in use when the first library is opened, weak again in a module
\* of the second, and referred to strongly in one of the first.
WeakTwice == {Link(<<WeakSoft(<<sa, sb>>), Strongly(sc)>>, <<L1, L2>>, <<>>, Nothing, Strongly(sa),
                   Both(Weakly(<<sa, sb>>), Strongly(sb)))}

\* A communal that a library has as code.
Clashing == {p \in Code(TRUE) : ~DataNotCode(p)}
================================================================================
