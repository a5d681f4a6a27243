------------------------------- MODULE LibSearch -------------------------------
(***************************************************************************)
(* How symbols are resolved from libraries.  Pass 1 has read the object    *)
(* files; _process_libraries (common/newlibc.c) opens the libraries in     *)
(* order, reads the modules that define what is referenced, and, when      *)
(* nothing more is wanted, lets aliases, weak and lazy externals fall back *)
(* on the symbols that stand in for them, which may want libraries again.  *)
(*                                                                         *)
(* A symbol has a type, and a referenced symbol that is not defined is in  *)
(* the list of its type.  Lists are sequences; a list has the name of its  *)
(* type, and the list of what a library has to supply has the library's.   *)
(* What a module says of a symbol (EXTDEF, PUBDEF, COMDEF, ALIAS, the WKEXT*)
(* and LZEXT comments, references from fixups) is data, a record.          *)
(*                                                                         *)
(* Left out: COMDATs, imports and the __imp__ symbols they make, absolute  *)
(* and constant publics (as other publics here), and the order in which    *)
(* blocks of the file come in, which is LibRead.                           *)
(***************************************************************************)
EXTENDS LibTables

CONSTANTS
  Syms, Libs,
  Programs,        \* what may be linked: records, see ProgramType
  None             \* no library, no symbol

\* A module: the sequence of its external symbols with how its fixups refer to
\* each, {} when none does; its WKEXT, LZEXT and ALIAS records; its publics,
\* and which of them are in a segment of class CODE; its communals; the libraries
\* it asks for.
ModuleType == [refs : Seq([sym : Syms, how : SUBSET {"hard", "soft"}]),
               weak : Seq(Syms \X Syms), lazy : Seq(Syms \X Syms), alias : Seq(Syms \X Syms),
               defs : Seq(Syms), code : SUBSET Syms, comm : Seq(Syms), libs : Seq(Libs)]

\* The object files, the libraries named on the command line, the exports with
\* the symbols that match them, whether libraries are searched for communals, and
\* for each library its modules by the page each begins at.
ProgramType == [objs : Seq(ModuleType), libs : Seq(Libs),
                exports : Seq([exact : BOOLEAN, match : Seq(Syms)]), communals : BOOLEAN,
                lib : [Libs -> [pageSize : Nat, dict : Nat, page : Seq(Nat)]],
                module : [Libs -> [Nat -> ModuleType]]]

\* What the files and the command line provide.
ASSUME ProgramsAssumption ==
  \A p \in Programs :
    /\ p.objs \in Seq(ModuleType) /\ p.objs # <<>>
    /\ p.libs \in Seq(Libs)
    /\ p.exports \in Seq([exact : BOOLEAN, match : Seq(Syms)])
    /\ p.communals \in BOOLEAN
    /\ \A l \in Libs :
         /\ p.lib[l].pageSize \in Nat \ {0} /\ p.lib[l].dict \in Nat /\ p.lib[l].page \in Seq(Nat)
         /\ \A i \in DOMAIN p.lib[l].page : p.module[l][p.lib[l].page[i]] \in ModuleType

ASSUME NoneAssumption == None \notin Libs \union Syms

VARIABLES
  prog,      \* what is linked, chosen once
  objs,      \* object files not read yet
  tab,       \* the symbol table and the lists
  data,      \* symbols with S_DATA_REF: some module read has a COMDEF of them
  toOpen,    \* libraries of LIB_LIST not opened yet
  opened,    \* libraries opened, in order
  unused,    \* LIB_UNUSED: symbols of the dictionary just read that nobody has named
  pc,        \* where _process_libraries is
  passes,    \* calls of _process_lib still to make in _process_libs
  cur,       \* CURNLIB_GINDEX
  reads      \* the modules read, <<library, module number>>

COMDEF_SEARCH == prog.communals

vars == <<prog, objs, tab, data, toOpen, opened, unused, pc, passes, cur, reads>>

Lists == {"EXTERNAL", "WEAK_EXTRN", "WEAK_DEFINED", "LAZY", "LAZY_DEFINED",
          "ALIASED", "ALIAS_DEFINED", "COMM_NEAR"}
Unlisted == {"UNDEFINED", "RELOC", "LIBRARY", "POS_WEAK", "WEAK_UNREF", "POS_LAZY",
             "LAZY_UNREF", "ALIASED_UNREF", "NCOMM_UNREF"}
Types == Lists \union Unlisted \union {"LIBRARY_LIST"}

InitTab ==
  [type   |-> [s \in Syms |-> "UNDEFINED"],
   refd   |-> {},                                    \* S_REFERENCED
   lib    |-> [s \in Syms |-> None],                 \* _S_LIB_GINDEX
   number |-> [s \in Syms |-> 0],                    \* _S_LIB_MODULE
   for    |-> [s \in Syms |-> None],                 \* default, or alias substitute
   list   |-> [l \in Lists |-> <<>>],
   wanted |-> [l \in Libs |-> <<>>],                 \* _LS_FIRST_EXTRN
   ptrs   |-> [l \in Libs |-> [flat |-> TRUE, blocks |-> <<<<>>>>]],
   marked |-> {},                                    \* modules with the selected bit
   selected |-> [l \in Libs |-> 0],                  \* _LS_SELECTED_MODULES
   requests |-> <<>>,                                \* FIRST_REQUEST_LIB ..
   undeco |-> <<>>]                                  \* exports, with REFERENCED_1

------------------------------------------------------------------------------
(* Lists.                                                                  *)

Without(q, x) == Those(q, RangeOf(q) \ {x})

AddTo(t, s, l) == [t EXCEPT !.list[l] = Append(@, s), !.type[s] = l]
RemoveFrom(t, s, l) == [t EXCEPT !.list[l] = Without(@, s)]
Referenced(t, s) == [t EXCEPT !.refd = @ \union {s}]
Retype(t, s, ty) == [t EXCEPT !.type[s] = ty]

\* REMOVE_FROM_LIBSYM_LIST.  A symbol that is off the list already has no links,
\* as the only one of a list has none: the list is left empty.  (What that cuts
\* off is still linked to its neighbours; the model has it as off the list too.)
Unwant(q, s) == IF s \in RangeOf(q) THEN Without(q, s) ELSE <<>>

\* Off whatever list its type says it is on.
Unlist(t, s) ==
  IF t.type[s] \in Lists THEN RemoveFrom(t, s, t.type[s])
  ELSE IF t.type[s] = "LIBRARY_LIST" THEN [t EXCEPT !.wanted[t.lib[s]] = Unwant(@, s)]
  ELSE t

\* A library's module is asked for; the library is put at the end of the
\* request list when it is its first.
LibSymRequest(t, s) ==
  LET l == t.lib[s]
      m == <<l, t.number[s]>>
  IN  IF m \in t.marked THEN t
      ELSE [t EXCEPT !.marked = @ \union {m},
                     !.selected[l] = @ + 1,
                     !.requests = IF t.selected[l] = 0 THEN Append(@, l) ELSE @]

ReferenceLibsym(t, s) ==
  LibSymRequest([t EXCEPT !.wanted[t.lib[s]] = Append(@, s), !.type[s] = "LIBRARY_LIST"], s)

------------------------------------------------------------------------------
(* What the records of a module do.                                        *)

\* fault: a symbol that gets defined stays in its list
DefinesListed(t, s, inCode, wasData) == Retype(t, s, "RELOC")

\* PUBDEF, in a segment of class CODE or not, of a symbol that was a COMDEF or
\* not.  A second definition is an error and changes nothing; so is code for
\* what was data, a warning in a library, but a symbol a library was asked for
\* has been taken off its list by then, and keeps its type.
DoPublic(t, s, inCode, wasData) ==
  LET ty    == t.type[s]
      clash == inCode /\ (ty \in {"COMM_NEAR", "NCOMM_UNREF"} \/ (ty \in {"LIBRARY", "LIBRARY_LIST"} /\ wasData))
  IN  CASE ty = "RELOC" \/ (clash /\ ty # "LIBRARY_LIST") -> t
        [] clash /\ ty = "LIBRARY_LIST" -> Unlist(t, s)
        [] OTHER -> Retype(Unlist(t, s), s, "RELOC")

\* COMDEF in module n of library l.  Where communals are searched for, a
\* library's symbol stays the library's unless this is its module.
Comdef(t, s, l, n) ==
  LET mine    == t.lib[s] = l /\ t.number[s] = n
      kept    == \/ t.type[s] \in {"RELOC", "COMM_NEAR", "NCOMM_UNREF"}
                 \/ t.type[s] \in {"LIBRARY", "LIBRARY_LIST"} /\ COMDEF_SEARCH /\ ~mine
      unlisted == Unlist(t, s)
  IN  IF kept THEN t
      ELSE IF s \in t.refd THEN AddTo(unlisted, s, "COMM_NEAR")
      ELSE Retype(unlisted, s, "NCOMM_UNREF")

Weaker == {"WEAK_EXTRN", "WEAK_DEFINED", "WEAK_UNREF", "LAZY", "LAZY_DEFINED", "LAZY_UNREF"}

\* WKEXT: a symbol not yet seen, or seen in a library only, may become weak.
Wkext(t, p) ==
  IF t.type[p[1]] \in {"UNDEFINED", "LIBRARY"}
  THEN Retype([t EXCEPT !.for[p[1]] = p[2]], p[1], "POS_WEAK")
  ELSE t

\* LZEXT: lazy overrides weak.
Lzext(t, p) ==
  IF t.type[p[1]] \in {"UNDEFINED", "WEAK_EXTRN", "WEAK_DEFINED", "WEAK_UNREF"}
  THEN Retype([Unlist(t, p[1]) EXCEPT !.for[p[1]] = p[2]], p[1], "POS_LAZY")
  ELSE t

\* ALIAS overrides everything but a definition.
Alias(t, p) ==
  IF t.type[p[1]] \in {"RELOC", "COMM_NEAR", "NCOMM_UNREF"} THEN t
  ELSE LET new == [t EXCEPT !.for[p[1]] = p[2]]
       IN  IF t.type[p[1]] \in {"ALIASED", "ALIASED_UNREF", "ALIAS_DEFINED"} THEN new
           ELSE IF p[1] \in t.refd THEN AddTo(Unlist(new, p[1]), p[1], "ALIASED")
           ELSE Retype(Unlist(new, p[1]), p[1], "ALIASED_UNREF")

\* At the end of the module, what becomes of an external it named: real, its
\* fixups refer to it other than softly or not at all; again, the module said
\* once more that it is weak or lazy.
ProcessExtrn(t, s, real, again) ==
  LET ty == t.type[s]
      r  == Referenced(t, s)
      Demand(u) == IF u.lib[s] # None THEN ReferenceLibsym(u, s) ELSE AddTo(u, s, "EXTERNAL")
  IN  CASE ty \in {"EXTERNAL", "LIBRARY_LIST"} -> t
        [] ty = "POS_WEAK" /\ ~real  -> Retype(t, s, "WEAK_UNREF")
        [] ty = "POS_LAZY" /\ ~real  -> Retype(t, s, "LAZY_UNREF")
        [] ty = "POS_WEAK" /\ real   -> AddTo(r, s, "WEAK_EXTRN")
        [] ty = "POS_LAZY" /\ real   -> AddTo(r, s, "LAZY")
        [] ty = "UNDEFINED" /\ real  -> AddTo(r, s, "EXTERNAL")
        [] ty = "LIBRARY" /\ real    -> ReferenceLibsym(r, s)
        [] ty = "WEAK_UNREF" /\ real -> AddTo(r, s, IF again THEN "WEAK_EXTRN" ELSE "EXTERNAL")
        [] ty = "LAZY_UNREF" /\ real -> AddTo(r, s, IF again THEN "LAZY" ELSE "EXTERNAL")
        [] ty \in {"WEAK_EXTRN", "WEAK_DEFINED", "LAZY", "LAZY_DEFINED"} /\ real ->
             IF again THEN r ELSE Demand(RemoveFrom(r, s, ty))
        [] ty = "ALIASED_UNREF" /\ real -> AddTo(r, s, "ALIASED")
        [] ty = "NCOMM_UNREF" /\ real   -> AddTo(r, s, "COMM_NEAR")
        [] ty \in {"RELOC", "COMM_NEAR", "ALIASED", "ALIAS_DEFINED"} -> IF real THEN r ELSE t
        [] OTHER -> t

\* The symbols a module names, in the order of its external index.
Externs(m) == m.refs \o [i \in DOMAIN m.comm |-> [sym |-> m.comm[i], how |-> {}]]

\* A communal, and the default of a weak or lazy symbol, is referred to softly.
Soft(m, s) == s \in RangeOf(m.comm) \/ \E p \in RangeOf(m.weak) \union RangeOf(m.lazy) : p[2] = s

\* Fixups refer to the symbol hard, or nothing at all does.
Real(m, e) == "hard" \in e.how \/ ("soft" \notin e.how /\ ~Soft(m, e.sym))

\* Said weak or lazy again, with the default it had.
Again(t, m, s) ==
  \/ t.type[s] \in Weaker /\ \E p \in RangeOf(m.weak) : p = <<s, t.for[s]>>
  \/ t.type[s] \in {"LAZY", "LAZY_DEFINED", "LAZY_UNREF"} /\ \E p \in RangeOf(m.lazy) : p = <<s, t.for[s]>>

\* The page where module number n of library l begins, and the module there.
\* A number beyond the last module leads nowhere the model can follow: nothing
\* is read.
PageAt(t, l, n) ==
  IF n < Size(t.ptrs[l]) THEN ModulePtr(t.ptrs[l], n) \div prog.lib[l].pageSize ELSE -1

Nothing == [refs |-> <<>>, weak |-> <<>>, lazy |-> <<>>, alias |-> <<>>,
            defs |-> <<>>, code |-> {}, comm |-> <<>>, libs |-> <<>>]

ModuleAt(l, p) == IF p \in RangeOf(prog.lib[l].page) THEN prog.module[l][p] ELSE Nothing

\* The whole module, number n of library l: its records, then, at its end, the
\* externals.  The symbols of d were COMDEFs of modules before.
ReadModule(t, d, m, l, n) ==
  LET Public(v, s) == DoPublic(v, s, s \in m.code, s \in d)
      Publics(u)  == InOrder(LAMBDA v, s : Comdef(v, s, l, n), InOrder(Public, u, m.defs), m.comm)
      Said(u)     == InOrder(Alias, InOrder(Lzext, InOrder(Wkext, u, m.weak), m.lazy), m.alias)
      AtEnd(u, r) == InOrder(LAMBDA v, e : ProcessExtrn(v, e.sym, Real(m, e), e.sym \in r), u, Externs(m))
      Rest(u)     == AtEnd(Said(u), {s \in Syms : Again(u, m, s)})
  IN  Once(Rest, Publics(t))

------------------------------------------------------------------------------
(* Opening a library.                                                      *)

Supplies(m) == RangeOf(m.defs) \union RangeOf(m.comm)

\* The entries of the dictionary: a symbol, and the page of its module.
Entry(p, q) == [i \in DOMAIN q |-> <<q[i], p>>]
Dictionary(l) ==
  LET pages == prog.lib[l].page
  IN  FlattenSeq([i \in DOMAIN pages |->
        Entry(pages[i], prog.module[l][pages[i]].defs \o prog.module[l][pages[i]].comm)])

ModulesOf(l) == ScanBits(MapOf(prog.lib[l].page))

\* fault: a weak symbol found in a library becomes an external
TakesWeak(t, s, l, p) ==
  LET Mine(u) == [u EXCEPT !.lib[s] = l, !.number[s] = p]
      ty == t.type[s]
  IN  CASE ty \in {"UNDEFINED", "LAZY_UNREF"} \/ (ty = "NCOMM_UNREF" /\ COMDEF_SEARCH) ->
             Mine(Retype(t, s, "LIBRARY"))
        [] ty = "EXTERNAL" -> Mine(t)
        [] ty \in {"LAZY", "LAZY_DEFINED", "WEAK_EXTRN"} \/ (ty = "COMM_NEAR" /\ COMDEF_SEARCH) ->
             Mine(AddTo(RemoveFrom(t, s, ty), s, "EXTERNAL"))
        [] OTHER -> t

\* A dictionary entry: symbol s is in the module at page p of library l.
LibSymbol(t, s, l, p) ==
  LET Mine(u) == [u EXCEPT !.lib[s] = l, !.number[s] = p]
      ty == t.type[s]
  IN  CASE ty \in {"UNDEFINED", "LAZY_UNREF"} \/ (ty = "NCOMM_UNREF" /\ COMDEF_SEARCH) ->
             Mine(Retype(t, s, "LIBRARY"))
        [] ty = "EXTERNAL" -> Mine(t)
        [] ty \in {"WEAK_EXTRN", "WEAK_DEFINED", "WEAK_UNREF"} ->
             IF t.lib[s] = None THEN Mine(t) ELSE t
        [] ty \in {"LAZY", "LAZY_DEFINED"} \/ (ty = "COMM_NEAR" /\ COMDEF_SEARCH) ->
             Mine(AddTo(RemoveFrom(t, s, ty), s, "EXTERNAL"))
        [] OTHER -> t

\* fault: only what is waiting is numbered, not what nobody has named yet
NumbersWaiting(t, l) ==
  LET here     == {s \in Syms : t.lib[s] = l}
      waiting  == Those(t.list["EXTERNAL"], here)
      numbered == [t EXCEPT !.number = [s \in Syms |->
                     IF s \in RangeOf(waiting) THEN BinserModule(prog.lib[l], t.ptrs[l], @[s]) ELSE @[s]]]
  IN  InOrder(LAMBDA u, s : ReferenceLibsym(RemoveFrom(u, s, "EXTERNAL"), s), numbered, waiting)

\* Pages become module numbers, for the symbols that were waiting for this
\* library, which are asked for now, for the weak ones, and for those nobody
\* has named yet.
UpdateLibSymbols(t, l) ==
  LET here     == {s \in Syms : t.lib[s] = l}
      waiting  == Those(t.list["EXTERNAL"], here)
      paged    == RangeOf(waiting) \union (RangeOf(t.list["WEAK_EXTRN"]) \intersect here) \union unused
      numbered == [t EXCEPT !.number = [s \in Syms |->
                     IF s \in paged THEN BinserModule(prog.lib[l], t.ptrs[l], @[s]) ELSE @[s]]]
  IN  InOrder(LAMBDA u, s : ReferenceLibsym(RemoveFrom(u, s, "EXTERNAL"), s), numbered, waiting)

\* The dictionary is gone through, and the modules' offsets are laid out.
DefineLibSymbols(t, l) ==
  LET Ptrs(list) == [t EXCEPT !.ptrs[l] = DoModulePtrs(prog.lib[l], list)]
      Define(q) == InOrder(LAMBDA u, e : LibSymbol(u, e[1], l, e[2]), Once(Ptrs, ModulesOf(l)), q)
  IN  Once(Define, Dictionary(l))

------------------------------------------------------------------------------
(* What a symbol that stands in for another becomes.                       *)

Unreferenced == [WEAK_UNREF |-> "WEAK_EXTRN", LAZY_UNREF |-> "LAZY",
                 ALIASED_UNREF |-> "ALIASED", NCOMM_UNREF |-> "COMM_NEAR",
                 UNDEFINED |-> "EXTERNAL"]

\* fault: what stands in for another is not itself looked up in libraries
LooksNoFurther(t, d) ==
  LET r == Referenced(t, d)
  IN  IF t.type[d] \in DOMAIN Unreferenced THEN AddTo(r, d, Unreferenced[t.type[d]]) ELSE r

\* It is referenced: from a library, or from whatever it may itself be.
FixDefault(t, d) ==
  LET r == Referenced(t, d)
  IN  IF t.type[d] = "LIBRARY" THEN ReferenceLibsym(r, d)
      ELSE IF t.type[d] \in DOMAIN Unreferenced THEN AddTo(r, d, Unreferenced[t.type[d]])
      ELSE r

\* The first symbol of list l has been seen to.
FixLink(t, l, done) == AddTo(RemoveFrom(t, Head(t.list[l]), l), Head(t.list[l]), done)

\* fault: the symbol seen to is not moved to the list of those
StaysFirst(t, l, done) ==
  IF t.type[t.for[Head(t.list[l])]] = "WEAK_EXTRN" THEN t
  ELSE FixLink(FixDefault(t, t.for[Head(t.list[l])]), l, done)

\* One turn of _swe_1 or _scan_aliased_syms1, and whether it ends the scan.
Turn(t, l, done) == FixLink(FixDefault(t, t.for[Head(t.list[l])]), l, done)

\* fault: a lazy scan goes on after a default that a library supplies
KeepsScanning(t, l) ==
  t.type[t.for[Head(t.list[l])]] = "LIBRARY" /\ l # "LAZY"

Stops(t, l) ==
  LET ty == t.type[t.for[Head(t.list[l])]]
  IN  CASE l = "ALIASED"    -> ty = "LIBRARY"
        [] l = "WEAK_EXTRN" -> ty \in {"LIBRARY", "ALIASED_UNREF"}
        [] l = "LAZY"       -> ty \in {"LIBRARY", "ALIASED_UNREF", "WEAK_UNREF"}

\* An export that names a symbol the linker has to decorate.  One that asked for
\* an exact match leaves the list; another stays, and is not looked at again.
ScanExport(acc, e) ==
  LET s == Head(e.match)
      h == IF s \in acc.t.refd THEN acc ELSE [t |-> FixDefault(acc.t, s), new |-> TRUE, left |-> acc.left]
  IN  IF e.match = <<>> \/ e.seen THEN [acc EXCEPT !.left = Append(@, e)]
      ELSE IF e.exact THEN h
      ELSE [h EXCEPT !.left = Append(@, [e EXCEPT !.seen = TRUE])]

\* All of them.  The result also says whether a symbol was referenced.
ScanUndeco(t) ==
  LET result == InOrder(ScanExport, [t |-> t, new |-> FALSE, left |-> <<>>], t.undeco)
  IN  [t |-> [result.t EXCEPT !.undeco = result.left], new |-> result.new]

------------------------------------------------------------------------------
Init ==
  /\ prog \in Programs
  /\ objs = prog.objs
  /\ tab = [InitTab EXCEPT !.undeco = [i \in DOMAIN prog.exports |->
              [exact |-> prog.exports[i].exact, match |-> prog.exports[i].match, seen |-> FALSE]]]
  /\ data = {}
  /\ toOpen = prog.libs
  /\ opened = <<>>
  /\ unused = {}
  /\ pc = "objs"
  /\ passes = 0
  /\ cur = None
  /\ reads = <<>>

\* Libraries a module asks for that LIB_LIST does not have yet.
Asked(m) == Those(m.libs, Libs \ (RangeOf(toOpen) \union RangeOf(opened)))

(* Pass 1 over the object files, one at a time. *)
ReadObject ==
  /\ pc = "objs"
  /\ objs' = Tail(objs)
  /\ tab' = ReadModule(tab, data, Head(objs), None, 0)
  /\ data' = data \union RangeOf(Head(objs).comm)
  /\ toOpen' = toOpen \o Asked(Head(objs))
  /\ pc' = IF Len(objs) = 1 THEN "next" ELSE "objs"
  /\ UNCHANGED <<prog, opened, unused, passes, cur, reads>>

(* NEXT_LIB: the next library is opened and its dictionary read. *)
OpenLib ==
  /\ pc = "next" /\ toOpen # <<>>
  /\ tab' = DefineLibSymbols(tab, Head(toOpen))
  /\ opened' = Append(opened, Head(toOpen))
  /\ toOpen' = Tail(toOpen)
  /\ unused' = {s \in Syms : tab'.type[s] = "LIBRARY" /\ tab.type[s] # "LIBRARY"}
  /\ pc' = "number"
  /\ UNCHANGED <<prog, objs, data, passes, cur, reads>>

(* _update_lib_symbols.  Modules are read at once when two libraries have some *)
(* to read.                                                                    *)
NumberModules ==
  /\ pc = "number"
  /\ tab' = UpdateLibSymbols(tab, Last(opened))
  /\ unused' = {}
  /\ pc' = IF Len(tab'.requests) > 1 THEN "one" ELSE "next"
  /\ UNCHANGED <<prog, objs, data, toOpen, opened, passes, cur, reads>>

(* No library is left to open: every one that is wanted is read, or, when    *)
(* none is, the fallbacks are looked at.                                     *)
NoMoreLibs ==
  /\ pc = "next" /\ toOpen = <<>>
  /\ passes' = Len(tab.requests)
  /\ pc' = IF tab.requests = <<>> THEN "undeco" ELSE "all"
  /\ UNCHANGED <<prog, objs, tab, data, toOpen, opened, unused, cur, reads>>

(* _process_lib takes the first library of the request list. *)
SelectLibrary ==
  /\ pc \in {"one", "all"} /\ cur = None
  /\ cur' = Head(tab.requests)
  /\ UNCHANGED <<prog, objs, tab, data, toOpen, opened, unused, pc, passes, reads>>

(* The module of its first wanted symbol is read; or, when modules are        *)
(* selected but nothing is wanted any more, one is counted off.               *)
ProcessModule ==
  /\ cur # None
  /\ LET want == tab.wanted[cur]
         n    == tab.number[Head(want)]
         page == PageAt(tab, cur, n)
         m    == ModuleAt(cur, page)
         t1   == IF want = <<>> THEN tab ELSE ReadModule(tab, data, m, cur, n)
         last == t1.selected[cur] = 1
     IN  /\ tab' = [t1 EXCEPT !.selected[cur] = @ - 1,
                              !.requests = IF last THEN Without(@, cur) ELSE @]
         /\ data' = IF want = <<>> THEN data ELSE data \union RangeOf(m.comm)
         /\ reads' = IF want = <<>> THEN reads ELSE Append(reads, <<cur, page>>)
         /\ toOpen' = IF want = <<>> THEN toOpen ELSE toOpen \o Asked(m)
         /\ cur' = IF last THEN None ELSE cur
         /\ passes' = IF last /\ pc = "all" THEN passes - 1 ELSE passes
         /\ pc' = IF last /\ passes' = 0 THEN "next" ELSE pc
  /\ UNCHANGED <<prog, objs, opened, unused>>

(* _scan_undeco. *)
ScanExports ==
  /\ pc = "undeco"
  /\ tab' = ScanUndeco(tab).t
  /\ pc' = IF ScanUndeco(tab).new THEN "next" ELSE "ALIASED"
  /\ UNCHANGED <<prog, objs, data, toOpen, opened, unused, passes, cur, reads>>

(* The scans of aliases, then weak, then lazy externals, one turn of the loop *)
(* at a time.  Some turns go back to the libraries.                           *)
Defined   == [ALIASED |-> "ALIAS_DEFINED", WEAK_EXTRN |-> "WEAK_DEFINED", LAZY |-> "LAZY_DEFINED"]
ScanAfter == [ALIASED |-> "WEAK_EXTRN", WEAK_EXTRN |-> "LAZY", LAZY |-> "done"]

ScanTurn ==
  /\ pc \in DOMAIN Defined /\ tab.list[pc] # <<>>
  /\ tab' = Turn(tab, pc, Defined[pc])
  /\ pc' = IF Stops(tab, pc) THEN "next" ELSE pc
  /\ UNCHANGED <<prog, objs, data, toOpen, opened, unused, passes, cur, reads>>

ScanEnds ==
  /\ pc \in DOMAIN Defined /\ tab.list[pc] = <<>>
  /\ pc' = ScanAfter[pc]
  /\ UNCHANGED <<prog, objs, tab, data, toOpen, opened, unused, passes, cur, reads>>

Next ==
  \/ ReadObject \/ OpenLib \/ NumberModules \/ NoMoreLibs \/ SelectLibrary \/ ProcessModule
  \/ ScanExports \/ ScanTurn \/ ScanEnds

Spec == Init /\ [][Next]_vars /\ WF_vars(Next)

------------------------------------------------------------------------------
(* Properties.                                                             *)

Library(p) == UNION {{p.module[l][q] : q \in RangeOf(p.lib[l].page)} : l \in Libs}
Modules(p) == RangeOf(p.objs) \union Library(p)

\* Where libraries are searched for communals, no module has as code what another
\* has as a communal.  Without this a symbol can be taken off a library's list
\* and keep its type (DoPublic): TypeTellsList and NothingOverlooked do not hold.
DataNotCode(p) ==
  p.communals => \A m, n \in Modules(p) : RangeOf(m.comm) \intersect n.code = {}

TabTypeOK ==
  /\ tab.type \in [Syms -> Types]
  /\ tab.refd \subseteq Syms /\ data \subseteq Syms
  /\ tab.lib \in [Syms -> Libs \union {None}]
  /\ tab.number \in [Syms -> Int]
  /\ tab.for \in [Syms -> Syms \union {None}]
  /\ \A l \in Libs : tab.selected[l] \in Nat
  /\ pc \in {"objs", "next", "number", "one", "all", "undeco", "ALIASED", "WEAK_EXTRN", "LAZY", "done"}
  /\ passes \in Nat
  /\ cur \in Libs \union {None}

\* A list holds each symbol of its type once and no other: the lists are linked
\* through the symbols, so a symbol whose type changes without its list, or
\* that is put in a list twice, breaks the chain of another (addtoext.asm).
\* For programs with DataNotCode.
TypeTellsList ==
  /\ TabTypeOK
  /\ \A l \in Lists :
       /\ RangeOf(tab.list[l]) = {s \in Syms : tab.type[s] = l}
       /\ IsInjective(tab.list[l])
  /\ \A l \in Libs :
       /\ RangeOf(tab.wanted[l]) = {s \in Syms : tab.type[s] = "LIBRARY_LIST" /\ tab.lib[s] = l}
       /\ IsInjective(tab.wanted[l])

\* What is wanted from a library is in the module it is wanted from: the page
\* of the dictionary has become a module number, once, whatever type the
\* symbol had when the library was opened (_update_lib_symbols).
WantedFromRightModule ==
  \A l \in Libs : \A s \in RangeOf(tab.wanted[l]) :
    s \in Supplies(ModuleAt(l, PageAt(tab, l, tab.number[s])))

\* When the linker goes on to report what is undefined, no symbol it waits for
\* is in the dictionary of a library it has read.  For programs with DataNotCode.
NothingOverlooked ==
  pc = "done" =>
    \A s \in Syms : tab.type[s] \in {"EXTERNAL", "LIBRARY_LIST"} =>
      \A l \in RangeOf(opened) : \A e \in RangeOf(Dictionary(l)) : e[1] # s

Loaded == RangeOf(prog.objs) \union {ModuleAt(r[1], r[2]) : r \in RangeOf(reads)}

\* Symbols a loaded module refers to, and symbols it refers to as strong: not
\* called weak there, or called so with another default than elsewhere.
RefersTo(m) == {e.sym : e \in {x \in RangeOf(Externs(m)) : Real(m, x)}}
Defaults    == UNION {RangeOf(m.weak) \union RangeOf(m.lazy) : m \in Loaded}
Agreed      == {p \in Defaults : \A q \in Defaults : q[1] = p[1] => q = p}
Strong(m)   == RefersTo(m) \ {p[1] : p \in RangeOf(m.weak) \intersect Agreed}
StandIns    == UNION {{p[2] : p \in RangeOf(m.weak) \union RangeOf(m.lazy) \union RangeOf(m.alias)} :
                       m \in Loaded}
Communals   == IF COMDEF_SEARCH THEN UNION {RangeOf(m.comm) : m \in Loaded} ELSE {}
Exported    == UNION {RangeOf(e.match) : e \in RangeOf(prog.exports)}

\* A module is read once at most, and only for a symbol that something loaded
\* refers to other than weakly, or that stands in for one: "WEAK EXTERNALS DO NOT
\* CAUSE LIBRARY SEARCHES, THOUGH WE MAY SEARCH FOR THE 'DEFAULT'" (coment.asm:692).
NothingUnneeded ==
  /\ IsInjective(reads)
  /\ \A r \in RangeOf(reads) :
       Supplies(ModuleAt(r[1], r[2])) \intersect
         (UNION {Strong(m) : m \in Loaded} \union Communals \union StandIns \union Exported) # {}

\* At the end every weak, lazy or aliased symbol in use has a stand-in that is
\* referenced too: defined, in a list, or reported undefined, never left
\* unread in a library that has it.
StandInsSeenTo ==
  pc = "done" =>
    \A s \in Syms :
      /\ tab.type[s] \notin {"WEAK_EXTRN", "LAZY", "ALIASED"}
      /\ tab.type[s] \in {"WEAK_DEFINED", "LAZY_DEFINED", "ALIAS_DEFINED"} =>
           /\ tab.for[s] \in tab.refd
           /\ tab.type[tab.for[s]] \notin DOMAIN Unreferenced \union {"LIBRARY"}

\* The tables of the library just opened: each module number is that of the page
\* it was asked by, and each block counts the modules that touch it.
Ends(l, p) ==
  LET later == {q \in RangeOf(prog.lib[l].page) : q > p}
  IN  IF later = {} THEN prog.lib[l].dict
      ELSE prog.lib[l].pageSize * (CHOOSE q \in later : \A r \in later : q <= r)

Touches(l, p, b) ==
  /\ prog.lib[l].pageSize * p < (b + 1) * PAGE_SIZE
  /\ Ends(l, p) > b * PAGE_SIZE

TablesRight ==
  pc = "number" =>
    LET l == Last(opened)
        pages == RangeOf(prog.lib[l].page)
    IN  /\ \A p \in pages : PageAt(tab, l, BinserModule(prog.lib[l], tab.ptrs[l], p)) = p
        /\ \A list \in {ModulesOf(l)} : \A count \in {CountModsPerBlock(prog.lib[l], list)} :
             \A b \in DOMAIN count : count[b] = Cardinality({p \in pages : Touches(l, p, b)})

\* Libraries, modules and fallbacks come to an end.
SearchEnds == <>(pc = "done")
================================================================================
