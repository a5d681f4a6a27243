------------------------------ MODULE MCLibRead -------------------------------
(* Libraries for the runs of LibRead. *)
EXTENDS LibRead, TLC

CONSTANTS A, B, C, D, a1, a2, b1, b2, c1, c2, d1, x1, x2, y1, y2, z1, z2, w1

(* Two libraries, one for each of two threads.  Modules share blocks, and  *)
(* a2, wanted by a1 when both libraries are in the list, spans two.        *)
TwoLibs == {A, B}
TwoModules == {a1, a2, b1, b2}
TwoSymbols == {x1, x2, y1, y2}
TwoLibOf == a1 :> A @@ a2 :> A @@ b1 :> B @@ b2 :> B
TwoBlocksOf == a1 :> <<1>> @@ a2 :> <<1, 2>> @@ b1 :> <<1>> @@ b2 :> <<1>>
(* a1 spans the blocks, so that main asks for one while the other is read. *)
SpanBlocksOf == a1 :> <<1, 2>> @@ a2 :> <<2>> @@ b1 :> <<1>> @@ b2 :> <<1>>
TwoModuleOf == x1 :> a1 @@ x2 :> a2 @@ y1 :> b1 @@ y2 :> b2
TwoNeeds == a1 :> {y1, x1, x2} @@ a2 :> {} @@ b1 :> {x2} @@ b2 :> {}
TwoDefines == a1 :> {x1} @@ a2 :> {x2} @@ b1 :> {y1} @@ b2 :> {y2}
TwoRoots == {x1, y2}

(* Two more, C and D: d1 defines what c1 was selected for; c2 is wanted    *)
(* when C has had its turn and left the request list.                      *)
AgainLibOf == c1 :> C @@ c2 :> C @@ d1 :> D
AgainBlocksOf == c1 :> <<1>> @@ c2 :> <<2>> @@ d1 :> <<1>>
AgainModuleOf == z1 :> c1 @@ z2 :> c2 @@ w1 :> d1
AgainNeeds == c1 :> {} @@ c2 :> {} @@ d1 :> {z2}
AgainDefines == c1 :> {z1} @@ c2 :> {z2} @@ d1 :> {w1, z1}
AgainRoots == {z1, w1}

(* A link uses the one pair of libraries or the other. *)
FourLibs == {A, B, C, D}
FourModules == {a1, a2, b1, b2, c1, c2, d1}
FourSymbols == {x1, x2, y1, y2, z1, z2, w1}
FourLibOf == TwoLibOf @@ AgainLibOf
FourBlocksOf == TwoBlocksOf @@ AgainBlocksOf
FourModuleOf == TwoModuleOf @@ AgainModuleOf
FourNeeds == TwoNeeds @@ AgainNeeds
FourDefines == TwoDefines @@ AgainDefines
TwoOrAgain == {TwoRoots, AgainRoots}
OnlyTwo == {TwoRoots}

(* Three libraries.  b1 defines x1, for which a1 was selected; c1, parsed  *)
(* when A has been dropped, needs what A has and B does not.               *)
ThreeLibs == {A, B, C}
ThreeSymbols == {x1, x2, y1, z1}
ThreeModuleOf == x1 :> a1 @@ x2 :> a1 @@ y1 :> b1 @@ z1 :> c1
ThreeModules == {a1, b1, c1}
ThreeLibOf == a1 :> A @@ b1 :> B @@ c1 :> C
ThreeBlocksOf == a1 :> <<1>> @@ b1 :> <<1>> @@ c1 :> <<1>>
ThreeNeeds == a1 :> {} @@ b1 :> {} @@ c1 :> {x2}
ThreeDefines == a1 :> {x1, x2} @@ b1 :> {y1, x1} @@ c1 :> {z1}
ThreeRoots == {{x1, y1, z1}}

(* b1 defines everything that the other modules were selected for: three   *)
(* threads may still have a block to read when the libraries are done.     *)
StopModules == {a1, b1, b2, c1}
StopSymbols == {x1, y1, y2, z1}
StopModuleOf == x1 :> a1 @@ y1 :> b1 @@ y2 :> b2 @@ z1 :> c1
StopLibOf == a1 :> A @@ b1 :> B @@ b2 :> B @@ c1 :> C
StopBlocksOf == a1 :> <<1>> @@ b1 :> <<1>> @@ b2 :> <<2>> @@ c1 :> <<1>>
StopNeeds == a1 :> {} @@ b1 :> {} @@ b2 :> {} @@ c1 :> {}
StopDefines == a1 :> {x1} @@ b1 :> {y1, y2, x1, z1} @@ b2 :> {y2} @@ c1 :> {z1}
StopRoots == {{x1, y1, y2, z1}}
==============================================================================
