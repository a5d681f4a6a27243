--------------------------- MODULE LinkEndProofs ----------------------------
(***************************************************************************)
(* The end of a link (LinkEnd.tla), for any number of readers, any map and *)
(* any failures: the symbol table outlives its users (TableOutlivesUsers), *)
(* and a status of 0 tells that nothing failed (StatusTellsFailure).       *)
(*                                                                         *)
(* Both invariants speak of stacks of calls.  The first half therefore     *)
(* says what Goto, Call, Return, ExitThread do to the stacks, and what    *)
(* the routines of the error path leave alone; then each has one lemma per *)
(* routine.                                                                *)
(***************************************************************************)
EXTENDS MCLinkEnd, FiniteSetTheorems, TLAPS

-----------------------------------------------------------------------------
(* The plan is told by how much of it is left: both plans begin with three *)
(* steps and end with four that the proofs speak of.                       *)

Steps == Parts \cup {"pass1", "create", "adjust", "exe", "publics", "unuse", "codeview", "join", "flush", "leave"}

Size(o) == Len(Plan(o.codeview))

PlanOK ==
  /\ plan \in Seq(Steps) /\ Len(plan) \in 0 .. Size(opt)
  /\ \A i \in 1 .. Len(plan) : plan[i] = Plan(opt.codeview)[Size(opt) - Len(plan) + i]

Adjusted == Len(plan) < Size(opt) - 2
MainUses == opt.codeview => Len(plan) >= 6

(* The calls of a thread: only the innermost may be anything, the others   *)
(* are where it returns to, and what it was doing is outermost.            *)
Labels ==
  {"main", "gate", "print", "printed", "read", "warning", "error", "phase3", "told", "put", "fill", "terr", "report",
   "errabort", "abort", "delete", "exit", "fault", "faulted", "lost", "flush", "mapoff", "critical", "full"}
Outermost == {"main", "gate", "print", "printed", "read"}
Returns == {"told", "abort", "main", "printed"}

StacksOK ==
  /\ stack \in [Threads -> Seq(Labels)]
  /\ \A t \in Threads : \A i \in 1 .. Len(stack[t]) :
       /\ stack[t][i] \in Outermost => i = Len(stack[t])
       /\ i > 1 => stack[t][i] \in Returns

StagesOK ==
  /\ stages \in Seq(opt.map \cap Parts)
  /\ \A i, j \in 1 .. Len(stages) : stages[i] = stages[j] => i = j

Users == {s \in Range(stages) : UsesTable(s)}

Printing == \E i \in 1 .. Len(stack["map"]) : stack["map"][i] \in {"print", "printed"}

(* The count covers main, while it needs the table, and every part that is *)
(* to come; it is raised before the map thread is let into the first.      *)
UsesCounted ==
  /\ DOMAIN table = {"uses", "state"} /\ table.uses \in Nat
  /\ IF Adjusted
     THEN /\ table.uses >= Cardinality(Users) /\ (MainUses => table.uses > Cardinality(Users))
          /\ table.state = "freed" => Users = {} /\ ~MainUses
     ELSE table.uses = 1 /\ table.state # "freed" /\ allowed = {}
  /\ Printing => stages # << >> /\ Adjusted

TInv == opt \in Scenarios /\ PlanOK /\ StacksOK /\ StagesOK /\ UsesCounted

-----------------------------------------------------------------------------
(* The plan.                                                               *)

LEMMA PlanShape ==
  /\ Plan(TRUE) \in Seq(Steps) /\ Len(Plan(TRUE)) = 16
  /\ Plan(FALSE) \in Seq(Steps) /\ Len(Plan(FALSE)) = 13
<1>1. ASSUME NEW a \in Seq(Steps), NEW b \in Seq(Steps), NEW c \in Seq(Steps)
      PROVE  a \o b \o c \in Seq(Steps) /\ Len(a \o b \o c) = Len(a) + Len(b) + Len(c)
  OBVIOUS
<1>2. /\ <<"pass1", "create", "adjust", "segments", "exports", "symbols">> \in Seq(Steps)
      /\ <<"exe", "lines", "xref", "publics", "unuse", "codeview">> \in Seq(Steps)
      /\ <<"lines", "exe", "xref">> \in Seq(Steps) /\ <<"start", "join", "flush", "leave">> \in Seq(Steps)
  BY DEF Steps, Parts
<1> QED
  BY <1>1, <1>2 DEF Plan

LEMMA LongPlan ==
  \A i \in 1 .. 16 :
    /\ Plan(TRUE)[i] = "leave" <=> i = 16
    /\ Plan(TRUE)[i] = "flush" <=> i = 15
    /\ Plan(TRUE)[i] = "join" <=> i = 14
    /\ Plan(TRUE)[i] = "unuse" <=> i = 11
    /\ Plan(TRUE)[i] = "adjust" <=> i = 3
    /\ Plan(TRUE)[i] = "create" <=> i = 2
    /\ Plan(TRUE)[i] = "pass1" <=> i = 1
    /\ Plan(TRUE)[i] \in Parts \cup Writing => i \in 4 .. 13
  BY DEF Plan, Parts, Writing

LEMMA ShortPlan ==
  \A i \in 1 .. 13 :
    /\ Plan(FALSE)[i] = "leave" <=> i = 13
    /\ Plan(FALSE)[i] = "flush" <=> i = 12
    /\ Plan(FALSE)[i] = "join" <=> i = 11
    /\ Plan(FALSE)[i] # "unuse"
    /\ Plan(FALSE)[i] = "adjust" <=> i = 3
    /\ Plan(FALSE)[i] = "create" <=> i = 2
    /\ Plan(FALSE)[i] = "pass1" <=> i = 1
    /\ Plan(FALSE)[i] \in Parts \cup Writing => i \in 4 .. 10
  BY DEF Plan, Parts, Writing

LEMMA OptTypes ==
  ASSUME opt \in Scenarios
  PROVE  opt \in Scenario /\ opt.codeview \in BOOLEAN /\ opt.messages \in Nat
  BY EndAssumption DEF Scenario

(* What main is at tells how much is left, and the other way round.        *)
LEMMA PlanHead ==
  ASSUME opt \in Scenarios, PlanOK, plan # << >>
  PROVE  /\ Size(opt) \in {13, 16} /\ Len(plan) \in 1 .. Size(opt)
         /\ Head(plan) = "leave" <=> Len(plan) = 1
         /\ Head(plan) = "flush" <=> Len(plan) = 2
         /\ Head(plan) = "join" <=> Len(plan) = 3
         /\ Head(plan) = "unuse" <=> opt.codeview /\ Len(plan) = 6
         /\ Head(plan) = "adjust" <=> Len(plan) = Size(opt) - 2
         /\ Head(plan) = "create" <=> Len(plan) = Size(opt) - 1
         /\ Head(plan) = "pass1" <=> Len(plan) = Size(opt)
         /\ Head(plan) \in Parts \cup Writing => Len(plan) \in 4 .. Size(opt) - 3
<1>1. plan \in Seq(Steps) /\ Len(plan) \in 1 .. Size(opt)
  BY DEF PlanOK
<1>2. Head(plan) = Plan(opt.codeview)[Size(opt) - Len(plan) + 1]
  BY <1>1 DEF PlanOK
<1>3. CASE opt.codeview
  <2>1. Size(opt) = 16
    BY <1>3, PlanShape, OptTypes DEF Size
  <2>2. PICK n \in 1 .. 16 : n = Len(plan)
    BY <1>1, <2>1
  <2>3. PICK i \in 1 .. 16 : i = 17 - n
    OBVIOUS
  <2>4. Plan(opt.codeview) = Plan(TRUE)
    BY <1>3, OptTypes
  <2>5. i = Size(opt) - Len(plan) + 1
    BY <2>1, <2>2, <2>3
  <2>6. Head(plan) = Plan(TRUE)[i]
    BY <1>2, <2>4, <2>5
  <2>7. /\ Head(plan) = "leave" <=> i = 16
        /\ Head(plan) = "flush" <=> i = 15
        /\ Head(plan) = "join" <=> i = 14
        /\ Head(plan) = "unuse" <=> i = 11
        /\ Head(plan) = "adjust" <=> i = 3
        /\ Head(plan) = "create" <=> i = 2
        /\ Head(plan) = "pass1" <=> i = 1
        /\ Head(plan) \in Parts \cup Writing => i \in 4 .. 13
    BY <2>6, LongPlan
  <2>8. /\ Head(plan) = "leave" <=> n = 1
        /\ Head(plan) = "flush" <=> n = 2
        /\ Head(plan) = "join" <=> n = 3
        /\ Head(plan) = "unuse" <=> n = 6
        /\ Head(plan) = "adjust" <=> n = 14
        /\ Head(plan) = "create" <=> n = 15
        /\ Head(plan) = "pass1" <=> n = 16
        /\ Head(plan) \in Parts \cup Writing => n \in 4 .. 13
    BY <2>3, <2>7
  <2>9. Head(plan) = "unuse" <=> opt.codeview /\ Len(plan) = 6
    BY <1>3, <2>2, <2>8
  <2>10. /\ Size(opt) \in {13, 16} /\ Size(opt) - 1 = 15 /\ Size(opt) - 2 = 14 /\ Size(opt) - 3 = 13
    BY <2>1
  <2> QED
    BY <1>1, <2>1, <2>2, <2>8, <2>9, <2>10
<1>4. CASE ~opt.codeview
  <2>1. Size(opt) = 13
    BY <1>4, PlanShape, OptTypes DEF Size
  <2>2. PICK n \in 1 .. 13 : n = Len(plan)
    BY <1>1, <2>1
  <2>3. PICK i \in 1 .. 13 : i = 14 - n
    OBVIOUS
  <2>4. Plan(opt.codeview) = Plan(FALSE)
    BY <1>4, OptTypes
  <2>5. i = Size(opt) - Len(plan) + 1
    BY <2>1, <2>2, <2>3
  <2>6. Head(plan) = Plan(FALSE)[i]
    BY <1>2, <2>4, <2>5
  <2>7. /\ Head(plan) = "leave" <=> i = 13
        /\ Head(plan) = "flush" <=> i = 12
        /\ Head(plan) = "join" <=> i = 11
        /\ Head(plan) = "unuse" <=> FALSE
        /\ Head(plan) = "adjust" <=> i = 3
        /\ Head(plan) = "create" <=> i = 2
        /\ Head(plan) = "pass1" <=> i = 1
        /\ Head(plan) \in Parts \cup Writing => i \in 4 .. 10
    BY <2>6, ShortPlan
  <2>8. /\ Head(plan) = "leave" <=> n = 1
        /\ Head(plan) = "flush" <=> n = 2
        /\ Head(plan) = "join" <=> n = 3
        /\ Head(plan) = "unuse" <=> FALSE
        /\ Head(plan) = "adjust" <=> n = 11
        /\ Head(plan) = "create" <=> n = 12
        /\ Head(plan) = "pass1" <=> n = 13
        /\ Head(plan) \in Parts \cup Writing => n \in 4 .. 10
    BY <2>3, <2>7
  <2>9. Head(plan) = "unuse" <=> opt.codeview /\ Len(plan) = 6
    BY <1>4, <2>2, <2>8
  <2>10. /\ Size(opt) \in {13, 16} /\ Size(opt) - 1 = 12 /\ Size(opt) - 2 = 11 /\ Size(opt) - 3 = 10
    BY <2>1
  <2> QED
    BY <1>1, <2>1, <2>2, <2>8, <2>9, <2>10
<1> QED
  BY <1>3, <1>4

LEMMA PlanSizes ==
  ASSUME opt \in Scenarios, PlanOK
  PROVE  Size(opt) \in {13, 16} /\ Len(plan) \in 0 .. Size(opt)
<1>1. opt.codeview = TRUE \/ opt.codeview = FALSE
  BY OptTypes
<1> QED
  BY <1>1, PlanShape DEF PlanOK, Size

LEMMA PlanDone ==
  ASSUME opt \in Scenarios, PlanOK, plan # << >>, plan' = Tail(plan), opt' = opt
  PROVE  PlanOK' /\ Len(plan') = Len(plan) - 1 /\ Size(opt') = Size(opt)
<1>1. Size(opt') = Size(opt)
  OBVIOUS
<1>2. Len(plan) > 0 /\ Len(plan') = Len(plan) - 1 /\ Len(plan) \in 1 .. Size(opt) /\ Size(opt) \in {13, 16} /\ plan' \in Seq(Steps)
  BY PlanHead DEF PlanOK
<1>3. \A i \in 1 .. Len(plan') : plan'[i] = Plan(opt'.codeview)[Size(opt') - Len(plan') + i]
  <2> SUFFICES ASSUME NEW i \in 1 .. Len(plan') PROVE plan'[i] = Plan(opt.codeview)[Size(opt) - Len(plan) + (i + 1)]
    BY <1>1, <1>2
  <2>1. plan \in Seq(Steps) /\ plan' = Tail(plan) /\ i + 1 \in 1 .. Len(plan)
    BY <1>2 DEF PlanOK
  <2>2. plan'[i] = plan[i + 1]
    BY <2>1
  <2>3. plan[i + 1] = Plan(opt.codeview)[Size(opt) - Len(plan) + (i + 1)]
    BY <2>1 DEF PlanOK
  <2> QED
    BY <2>2, <2>3
<1> QED
  BY <1>1, <1>2, <1>3 DEF PlanOK

LEMMA PlanNeedsTable ==
  ASSUME opt \in Scenarios, PlanOK, NEW step \in {"exe", "publics"}, step \in Range(plan)
  PROVE  MainUses
<1> SUFFICES ASSUME opt.codeview PROVE Len(plan) >= 6
  BY DEF MainUses
<1>1. PICK i \in 1 .. Len(plan) : plan[i] = step
  BY DEF Range, PlanOK
<1>2. plan[i] = Plan(opt.codeview)[Size(opt) - Len(plan) + i]
  BY <1>1 DEF PlanOK
<1>3. Size(opt) = 16 /\ Len(plan) \in 0 .. 16
  BY PlanShape, PlanSizes, OptTypes DEF Size
<1>4. PICK k \in 1 .. 16 : k = Size(opt) - Len(plan) + i
  <2>1. \A n \in 0 .. 16 : \A j \in 1 .. n : 16 - n + j \in 1 .. 16
    OBVIOUS
  <2>2. 16 - Len(plan) + i \in 1 .. 16
    BY <1>1, <1>3, <2>1, Zenon
  <2> QED
    BY <1>3, <2>2, Zenon
<1>5. Plan(TRUE)[k] \in {"exe", "publics"}
  BY <1>1, <1>2, <1>4, OptTypes
<1>6. k \in {7, 10}
  BY <1>5 DEF Plan
<1> QED
  BY <1>1, <1>3, <1>4, <1>6, PlanSizes

-----------------------------------------------------------------------------
(* The stacks.                                                             *)

LEMMA GotoOK ==
  ASSUME StacksOK, NEW t \in Threads, NEW l \in Labels, stack[t] # << >>, Goto(t, l),
         l \in Outermost => Head(stack[t]) \in Outermost
  PROVE  /\ StacksOK'
         /\ \A u \in Threads \ {t} : stack'[u] = stack[u]
         /\ Len(stack'[t]) = Len(stack[t]) /\ Len(stack[t]) >= 1
         /\ stack'[t][1] = l
         /\ \A i \in 2 .. Len(stack[t]) : stack'[t][i] = stack[t][i]
<1>1. stack[t] \in Seq(Labels) /\ Len(stack[t]) >= 1
  BY DEF StacksOK
<1>2. stack' = [stack EXCEPT ![t] = <<l>> \o Tail(stack[t])]
  BY <1>1 DEF Goto, StacksOK
<1>3. /\ \A u \in Threads \ {t} : stack'[u] = stack[u]
      /\ stack'[t] = <<l>> \o Tail(stack[t]) /\ stack' \in [Threads -> Seq(Labels)]
  <2>1. <<l>> \o Tail(stack[t]) \in Seq(Labels)
    BY <1>1
  <2> QED
    BY <1>2, <2>1 DEF StacksOK
<1>4. /\ Len(stack'[t]) = Len(stack[t])
      /\ stack'[t][1] = l
      /\ \A i \in 2 .. Len(stack[t]) : stack'[t][i] = stack[t][i]
  BY <1>1, <1>3
<1>5. ASSUME NEW i \in 1 .. Len(stack'[t])
      PROVE  /\ stack'[t][i] \in Outermost => i = Len(stack'[t])
             /\ i > 1 => stack'[t][i] \in Returns
  BY <1>1, <1>4 DEF StacksOK
<1> QED
  BY <1>1, <1>3, <1>4, <1>5 DEF StacksOK

LEMMA CallOK ==
  ASSUME StacksOK, NEW t \in Threads, NEW l \in Labels, NEW m \in Returns, stack[t] # << >>, Call(t, l, m),
         l \notin Outermost, m \in Outermost => Head(stack[t]) \in Outermost
  PROVE  /\ StacksOK'
         /\ \A u \in Threads \ {t} : stack'[u] = stack[u]
         /\ Len(stack'[t]) = Len(stack[t]) + 1 /\ Len(stack[t]) >= 1
         /\ stack'[t][1] = l /\ stack'[t][2] = m
         /\ \A i \in 2 .. Len(stack[t]) : stack'[t][i + 1] = stack[t][i]
<1>1. stack[t] \in Seq(Labels) /\ Len(stack[t]) >= 1 /\ m \in Labels
  <2>1. m \in Labels
    BY DEF Returns, Labels
  <2> QED
    BY <2>1 DEF StacksOK
<1>2. stack' = [stack EXCEPT ![t] = <<l, m>> \o Tail(stack[t])]
  BY <1>1 DEF Call, StacksOK
<1>3. /\ \A u \in Threads \ {t} : stack'[u] = stack[u]
      /\ stack'[t] = <<l, m>> \o Tail(stack[t]) /\ stack' \in [Threads -> Seq(Labels)]
  <2>1. <<l, m>> \o Tail(stack[t]) \in Seq(Labels)
    BY <1>1
  <2> QED
    BY <1>2, <2>1 DEF StacksOK
<1>4. /\ Len(stack'[t]) = Len(stack[t]) + 1
      /\ stack'[t][1] = l /\ stack'[t][2] = m
      /\ \A i \in 2 .. Len(stack[t]) : stack'[t][i + 1] = stack[t][i]
  BY <1>1, <1>3
<1>5. ASSUME NEW i \in 1 .. Len(stack'[t])
      PROVE  /\ stack'[t][i] \in Outermost => i = Len(stack'[t])
             /\ i > 1 => stack'[t][i] \in Returns
  <2>1. CASE i = 1
    BY <1>1, <1>4, <2>1
  <2>2. CASE i = 2
    <3>0. Head(stack[t]) = stack[t][1] /\ 1 \in 1 .. Len(stack[t])
      BY <1>1
    <3>1. m \in Outermost => Len(stack[t]) = 1
      BY <3>0 DEF StacksOK
    <3> QED
      BY <1>1, <1>4, <2>2, <3>1
  <2>3. CASE i > 2
    <3>1. i - 1 \in 2 .. Len(stack[t]) /\ stack'[t][(i - 1) + 1] = stack[t][i - 1]
      BY <1>1, <1>4, <2>3
    <3> QED
      BY <1>1, <1>4, <2>3, <3>1 DEF StacksOK
  <2> QED
    BY <2>1, <2>2, <2>3, <1>1, <1>4
<1> QED
  BY <1>1, <1>3, <1>4, <1>5 DEF StacksOK

LEMMA ReturnOK ==
  ASSUME StacksOK, NEW t \in Threads, stack[t] # << >>, Return(t)
  PROVE  /\ StacksOK'
         /\ \A u \in Threads \ {t} : stack'[u] = stack[u]
         /\ Len(stack'[t]) = Len(stack[t]) - 1 /\ Len(stack[t]) >= 1
         /\ \A i \in 1 .. Len(stack'[t]) : stack'[t][i] = stack[t][i + 1]
<1>1. stack[t] \in Seq(Labels) /\ Len(stack[t]) >= 1
  BY DEF StacksOK
<1>2. stack' = [stack EXCEPT ![t] = Tail(stack[t])]
  BY <1>1 DEF Return, StacksOK
<1>3. /\ \A u \in Threads \ {t} : stack'[u] = stack[u]
      /\ stack'[t] = Tail(stack[t]) /\ stack' \in [Threads -> Seq(Labels)]
  BY <1>1, <1>2 DEF StacksOK
<1>4. /\ Len(stack'[t]) = Len(stack[t]) - 1
      /\ \A i \in 1 .. Len(stack'[t]) : stack'[t][i] = stack[t][i + 1]
  BY <1>1, <1>3
<1>5. ASSUME NEW i \in 1 .. Len(stack'[t])
      PROVE  /\ stack'[t][i] \in Outermost => i = Len(stack'[t])
             /\ i > 1 => stack'[t][i] \in Returns
  <2>1. i + 1 \in 1 .. Len(stack[t])
    BY <1>1, <1>4
  <2> QED
    BY <1>1, <1>4, <2>1 DEF StacksOK
<1> QED
  BY <1>1, <1>3, <1>4, <1>5 DEF StacksOK

LEMMA ExitOK ==
  ASSUME StacksOK, NEW t \in Threads, ExitThread(t)
  PROVE  /\ StacksOK'
         /\ \A u \in Threads \ {t} : stack'[u] = stack[u]
         /\ stack'[t] = << >> /\ Len(stack'[t]) = 0
  BY DEF StacksOK, ExitThread

(* What a routine of the error path does to the stacks: the map thread does *)
(* not come to print by it.                                                 *)
Quiet == StacksOK' /\ (Printing' => Printing)

LEMMA GotoQuiet ==
  ASSUME StacksOK, NEW t \in Threads, NEW l \in Labels \ Outermost, stack[t] # << >>, Goto(t, l)
  PROVE  Quiet
<1>1. /\ StacksOK' /\ stack[t] \in Seq(Labels) /\ stack'[t] \in Seq(Labels)
      /\ \A u \in Threads \ {t} : stack'[u] = stack[u]
      /\ Len(stack'[t]) = Len(stack[t]) /\ stack'[t][1] = l
      /\ \A i \in 2 .. Len(stack[t]) : stack'[t][i] = stack[t][i]
  BY GotoOK DEF StacksOK
<1>2. ASSUME NEW i \in 1 .. Len(stack'["map"]), stack'["map"][i] \in {"print", "printed"}
      PROVE  Printing
  BY <1>1, <1>2 DEF Printing, Threads, Outermost
<1> QED
  BY <1>1, <1>2 DEF Quiet, Printing

LEMMA CallQuiet ==
  ASSUME StacksOK, NEW t \in Threads, NEW l \in Labels \ Outermost, NEW m \in {"told", "abort"}, stack[t] # << >>,
         Call(t, l, m)
  PROVE  Quiet
<1>0. m \in Returns /\ m \in Labels /\ m \notin Outermost
  BY DEF Returns, Labels, Outermost
<1>1. /\ StacksOK' /\ stack[t] \in Seq(Labels) /\ stack'[t] \in Seq(Labels)
      /\ \A u \in Threads \ {t} : stack'[u] = stack[u]
      /\ Len(stack'[t]) = Len(stack[t]) + 1 /\ stack'[t][1] = l /\ stack'[t][2] = m
      /\ \A i \in 2 .. Len(stack[t]) : stack'[t][i + 1] = stack[t][i]
  BY <1>0, CallOK DEF StacksOK
<1>2. ASSUME NEW i \in 1 .. Len(stack'["map"]), stack'["map"][i] \in {"print", "printed"}
      PROVE  Printing
  <2>1. CASE t # "map"
    BY <1>1, <1>2, <2>1 DEF Printing, Threads
  <2>2. CASE t = "map"
    <3>1. i # 1 /\ i # 2
      BY <1>1, <1>2, <2>2, <1>0 DEF Outermost
    <3>2. i - 1 \in 2 .. Len(stack[t]) /\ i = (i - 1) + 1
      BY <1>1, <2>2, <3>1
    <3>3. stack'[t][i] = stack[t][i - 1]
      BY <1>1, <3>2
    <3> QED
      BY <1>1, <1>2, <2>2, <3>2, <3>3 DEF Printing
  <2> QED
    BY <2>1, <2>2
<1> QED
  BY <1>1, <1>2 DEF Quiet, Printing

LEMMA ReturnQuiet ==
  ASSUME StacksOK, NEW t \in Threads, stack[t] # << >>, Return(t)
  PROVE  Quiet
<1>1. /\ StacksOK' /\ stack[t] \in Seq(Labels) /\ stack'[t] \in Seq(Labels)
      /\ \A u \in Threads \ {t} : stack'[u] = stack[u]
      /\ Len(stack'[t]) = Len(stack[t]) - 1
      /\ \A i \in 1 .. Len(stack'[t]) : stack'[t][i] = stack[t][i + 1]
  BY ReturnOK DEF StacksOK
<1>2. ASSUME NEW i \in 1 .. Len(stack'["map"]), stack'["map"][i] \in {"print", "printed"}
      PROVE  Printing
  <2>1. CASE t # "map"
    BY <1>1, <1>2, <2>1 DEF Printing, Threads
  <2>2. CASE t = "map"
    <3>1. i + 1 \in 1 .. Len(stack[t]) /\ stack'[t][i] = stack[t][i + 1]
      BY <1>1, <2>2
    <3> QED
      BY <1>2, <2>2, <3>1 DEF Printing
  <2> QED
    BY <2>1, <2>2
<1> QED
  BY <1>1, <1>2 DEF Quiet, Printing

LEMMA ExitQuiet ==
  ASSUME StacksOK, NEW t \in Threads, ExitThread(t)
  PROVE  Quiet
BY ExitOK DEF Quiet, Printing, Threads

LEMMA SameQuiet ==
  ASSUME StacksOK, stack' = stack
  PROVE  Quiet
BY DEF Quiet, Printing, StacksOK

-----------------------------------------------------------------------------
(* No routine of the error path makes a use of the table more or less; a   *)
(* full disk may take the table away, but does not free it a second time.  *)

LEMMA SameUses ==
  ASSUME TInv, Quiet, UNCHANGED <<opt, plan, stages, allowed>>,
         table' = table \/ table' = [table EXCEPT !.state = IF @ = "kept" THEN "given up" ELSE @]
  PROVE  TInv'
<1>1. opt' = opt /\ plan' = plan /\ stages' = stages /\ allowed' = allowed
  OBVIOUS
<1>2. DOMAIN table' = {"uses", "state"} /\ table'.uses = table.uses /\ (table'.state = "freed" <=> table.state = "freed")
  BY DEF TInv, UsesCounted
<1>3. PlanOK' /\ StagesOK'
  BY <1>1 DEF TInv, PlanOK, StagesOK
<1>4. Users' = Users /\ (Adjusted' <=> Adjusted) /\ (MainUses' <=> MainUses)
  BY <1>1 DEF Users, Adjusted, MainUses, UsesTable
<1>5. UsesCounted'
  BY <1>1, <1>2, <1>4 DEF TInv, UsesCounted, Quiet
<1> QED
  BY <1>1, <1>3, <1>5 DEF TInv, Quiet

LEMMA RoutineTable ==
  ASSUME TInv, NEW t \in Threads, Routines(t)
  PROVE  TInv'
<1> USE DEF At, kept
<1>0. StacksOK
  BY DEF TInv
<1>1. CASE Abort(t)
  <2>1. Goto(t, "delete") \/ Goto(t, "exit")
    BY <1>1 DEF Abort
  <2>2. Quiet
    BY <1>0, <1>1, <2>1, GotoQuiet DEF Abort, Labels, Outermost
  <2> QED
    BY <1>1, <2>2, SameUses DEF Abort
<1>2. CASE DeleteExe(t)
  <2>1. Quiet
    BY <1>0, <1>2, GotoQuiet DEF DeleteExe, Labels, Outermost
  <2> QED
    BY <1>2, <2>1, SameUses DEF DeleteExe
<1>3. CASE Exit(t)
  BY <1>0, <1>3, SameQuiet, SameUses DEF Exit
<1>4. CASE Fault(t)
  <2>1. Quiet
    BY <1>0, <1>4, GotoQuiet DEF Fault, Labels, Outermost
  <2> QED
    BY <1>4, <2>1, SameUses DEF Fault
<1>5. CASE Notify(t)
  <2>1. Quiet
    BY <1>0, <1>5, GotoQuiet DEF Notify, Labels, Outermost
  <2> QED
    BY <1>5, <2>1, SameUses DEF Notify
<1>6. CASE Faulted(t)
  <2>1. Quiet
    BY <1>0, <1>6, GotoQuiet, SameQuiet DEF Faulted, ConsoleFails, Labels, Outermost
  <2> QED
    BY <1>6, <2>1, SameUses DEF Faulted
<1>7. CASE ErrorStart(t)
  <2>1. Quiet
    BY <1>0, <1>7, GotoQuiet DEF ErrorStart, Labels, Outermost
  <2> QED
    BY <1>7, <2>1, SameUses DEF ErrorStart
<1>8. CASE ErrorPhase3(t)
  <2>1. Call(t, "put", "told") \/ Goto(t, "told") \/ Goto(t, "exit")
    BY <1>8 DEF ErrorPhase3, ConsoleFails
  <2>2. Quiet
    BY <1>0, <1>8, <2>1, GotoQuiet, CallQuiet DEF ErrorPhase3, Labels, Outermost
  <2> QED
    BY <1>8, <2>2, SameUses DEF ErrorPhase3
<1>9. CASE ErrorEnds(t)
  <2>1. Goto(t, "abort") \/ Return(t)
    BY <1>9 DEF ErrorEnds
  <2>2. Quiet
    BY <1>0, <1>9, <2>1, GotoQuiet, ReturnQuiet DEF ErrorEnds, Labels, Outermost
  <2> QED
    BY <1>9, <2>2, SameUses DEF ErrorEnds
<1>10. CASE ErrAbort(t)
  <2>1. Goto(t, "abort") \/ Call(t, "error", "abort")
    BY <1>10 DEF ErrAbort
  <2>2. Quiet
    BY <1>0, <1>10, <2>1, GotoQuiet, CallQuiet DEF ErrAbort, Labels, Outermost
  <2> QED
    BY <1>10, <2>2, SameUses DEF ErrAbort
<1>11. CASE TerrAbort(t)
  <2>1. ExitThread(t) \/ Goto(t, "report")
    BY <1>11 DEF TerrAbort
  <2>2. Quiet
    BY <1>0, <1>11, <2>1, GotoQuiet, ExitQuiet DEF TerrAbort, Labels, Outermost
  <2> QED
    BY <1>11, <2>2, SameUses DEF TerrAbort
<1>12. CASE TerrReport(t)
  <2>1. Quiet
    BY <1>0, <1>12, GotoQuiet DEF TerrReport, Labels, Outermost
  <2> QED
    BY <1>12, <2>1, SameUses DEF TerrReport
<1>13. CASE LstOut(t)
  <2>1. Quiet
    BY <1>0, <1>13, GotoQuiet DEF LstOut, Labels, Outermost
  <2> QED
    BY <1>13, <2>1, SameUses DEF LstOut
<1>14. CASE PutData(t)
  <2>1. Return(t) \/ Goto(t, "lost") \/ Goto(t, "full") \/ Goto(t, "fault")
    BY <1>14 DEF PutData, WriteFails
  <2>2. Quiet
    BY <1>0, <1>14, <2>1, GotoQuiet, ReturnQuiet DEF PutData, Labels, Outermost
  <2> QED
    BY <1>14, <2>2, SameUses DEF PutData
<1>15. CASE DosFail(t)
  <2>1. Goto(t, "mapoff") \/ Goto(t, "flush")
    BY <1>15 DEF DosFail
  <2>2. Quiet
    BY <1>0, <1>15, <2>1, GotoQuiet DEF DosFail, Labels, Outermost
  <2> QED
    BY <1>15, <2>2, SameUses DEF DosFail
<1>16. CASE DiskFull(t)
  <2>1. Quiet
    BY <1>0, <1>16, GotoQuiet DEF DiskFull, Labels, Outermost
  <2> QED
    BY <1>16, <2>1, SameUses DEF DiskFull
<1>17. CASE FlushDisable(t)
  <2>1. Goto(t, "mapoff") \/ Goto(t, "lost") \/ Goto(t, "full")
    BY <1>17 DEF FlushDisable, WriteFails
  <2>2. Quiet
    BY <1>0, <1>17, <2>1, GotoQuiet DEF FlushDisable, Labels, Outermost
  <2> QED
    BY <1>17, <2>2, SameUses DEF FlushDisable
<1>18. CASE MapOff(t)
  <2>1. Goto(t, "abort") \/ Goto(t, "critical")
    BY <1>18 DEF MapOff
  <2>2. Quiet
    BY <1>0, <1>18, <2>1, GotoQuiet DEF MapOff, Labels, Outermost
  <2> QED
    BY <1>18, <2>2, SameUses DEF MapOff
<1>19. CASE Critical(t)
  <2>1. Quiet
    BY <1>0, <1>19, GotoQuiet DEF Critical, Labels, Outermost
  <2> QED
    BY <1>19, <2>1, SameUses DEF Critical
<1> QED
  BY <1>1, <1>2, <1>3, <1>4, <1>5, <1>6, <1>7, <1>8, <1>9, <1>10, <1>11, <1>12, <1>13, <1>14, <1>15, <1>16, <1>17,
     <1>18, <1>19 DEF Routines

-----------------------------------------------------------------------------
(* The uses of the table.                                                  *)

TableParts == {"segments", "symbols", "xref"}

LEMMA UsersFinite ==
  /\ IsFiniteSet(Users) /\ Cardinality(Users) \in Nat
  /\ \A S : IsFiniteSet({s \in S : UsesTable(s)})
<1>1. IsFiniteSet(TableParts)
  <2>1. IsFiniteSet({"segments"}) /\ IsFiniteSet({"symbols"}) /\ IsFiniteSet({"xref"})
    BY FS_Singleton
  <2>2. IsFiniteSet({"segments"} \cup {"symbols"})
    BY <2>1, FS_Union
  <2>3. TableParts = ({"segments"} \cup {"symbols"}) \cup {"xref"}
    BY DEF TableParts
  <2> QED
    BY <2>1, <2>2, <2>3, FS_Union
<1>2. ASSUME NEW S PROVE IsFiniteSet({s \in S : UsesTable(s)})
  <2>1. {s \in S : UsesTable(s)} \subseteq TableParts
    BY DEF UsesTable, TableParts
  <2> QED
    BY <1>1, <2>1, FS_Subset
<1>3. IsFiniteSet(Users)
  BY <1>2 DEF Users
<1> QED
  BY <1>2, <1>3, FS_CardinalityType

(* A step of main that is neither the adjustment nor its last use changes  *)
(* nothing for the table.                                                  *)
LEMMA MainSameUses ==
  ASSUME TInv, Quiet, plan # << >>, plan' = Tail(plan), Head(plan) \notin {"adjust", "unuse"},
         allowed' = allowed \/ Head(plan) \in Parts, UNCHANGED <<opt, stages, table>>
  PROVE  TInv'
<1>1. opt' = opt /\ stages' = stages /\ table' = table
  OBVIOUS
<1>2. PlanOK' /\ Len(plan') = Len(plan) - 1 /\ Size(opt') = Size(opt)
  BY <1>1, PlanDone DEF TInv
<1>3. StagesOK' /\ Users' = Users
  BY <1>1 DEF TInv, StagesOK, Users, UsesTable
<1>4. plan \in Seq(Steps) /\ Size(opt) \in {13, 16}
  BY PlanHead DEF TInv, PlanOK
<1>5. (Adjusted' <=> Adjusted) /\ (MainUses' <=> MainUses)
  <2>1. Len(plan) # Size(opt) - 2 /\ ~(opt.codeview /\ Len(plan) = 6)
    BY PlanHead DEF TInv
  <2>2. Adjusted' <=> Adjusted
    BY <1>1, <1>2, <1>4, <2>1 DEF Adjusted
  <2>3. MainUses' <=> MainUses
    BY <1>1, <1>2, <1>4, <2>1 DEF MainUses
  <2> QED
    BY <2>2, <2>3
<1>6. allowed' = allowed \/ Adjusted
  BY <1>4, PlanHead DEF TInv, Adjusted
<1>7. UsesCounted'
  BY <1>1, <1>3, <1>5, <1>6 DEF TInv, UsesCounted, Quiet
<1> QED
  BY <1>1, <1>2, <1>3, <1>7 DEF TInv, Quiet

(* No step of main while it goes on to where it was.                       *)
LEMMA AdjustTable ==
  ASSUME TInv, AdjustFlags
  PROVE  TInv'
<1> DEFINE more == Cardinality({s \in opt.map : UsesTable(s)})
<1>1. /\ opt' = opt /\ stages' = stages /\ allowed' = allowed /\ stack' = stack /\ plan' = Tail(plan)
      /\ plan # << >> /\ Head(plan) = "adjust" /\ table' = [table EXCEPT !.uses = @ + more]
  BY DEF AdjustFlags, Main, Done, rest
<1>2. PlanOK' /\ Len(plan') = Len(plan) - 1 /\ Size(opt') = Size(opt)
  BY <1>1, PlanDone DEF TInv
<1>3. StagesOK' /\ Users' = Users /\ StacksOK' /\ (Printing' => Printing)
  BY <1>1 DEF TInv, StagesOK, Users, UsesTable, StacksOK, Printing
<1>4. plan \in Seq(Steps) /\ Size(opt) \in {13, 16} /\ Len(plan) = Size(opt) - 2
  BY <1>1, PlanHead DEF TInv, PlanOK
<1>5. ~Adjusted /\ Adjusted'
  BY <1>1, <1>2, <1>4 DEF Adjusted
<1>6. table.uses = 1 /\ table.state # "freed" /\ DOMAIN table = {"uses", "state"} /\ ~Printing
  BY <1>5 DEF TInv, UsesCounted
<1>7. Cardinality(Users) <= more /\ more \in Nat /\ Cardinality(Users) \in Nat
  <2>1. Users \subseteq {s \in opt.map : UsesTable(s)}
    BY DEF TInv, StagesOK, Users, Range
  <2>2. IsFiniteSet({s \in opt.map : UsesTable(s)})
    BY UsersFinite
  <2> QED
    BY <2>1, <2>2, UsersFinite, FS_Subset, FS_CardinalityType
<1>8. DOMAIN table' = {"uses", "state"} /\ table'.uses = 1 + more /\ table'.state # "freed"
  BY <1>1, <1>6
<1> HIDE DEF more
<1>9. UsesCounted'
  BY <1>3, <1>5, <1>6, <1>7, <1>8 DEF UsesCounted
<1> QED
  BY <1>1, <1>2, <1>3, <1>9 DEF TInv

(* A use is given up: by main, or by the map thread after a part.          *)
LEMMA UnuseTable ==
  ASSUME TInv, Unuse
  PROVE  TInv'
<1>1. /\ opt' = opt /\ stages' = stages /\ allowed' = allowed /\ stack' = stack /\ plan' = Tail(plan)
      /\ plan # << >> /\ Head(plan) = "unuse" /\ (Decremented \/ table' = table)
  BY DEF Unuse, UnuseSymbols, Main, Done, rest
<1>2. PlanOK' /\ Len(plan') = Len(plan) - 1 /\ Size(opt') = Size(opt)
  BY <1>1, PlanDone DEF TInv
<1>3. StagesOK' /\ Users' = Users /\ StacksOK' /\ (Printing' => Printing)
  BY <1>1 DEF TInv, StagesOK, Users, UsesTable, StacksOK, Printing
<1>4. plan \in Seq(Steps) /\ Size(opt) \in {13, 16} /\ Len(plan) = 6 /\ opt.codeview
  BY <1>1, PlanHead DEF TInv, PlanOK
<1>5. Adjusted /\ Adjusted' /\ MainUses /\ ~MainUses'
  BY <1>1, <1>2, <1>4 DEF Adjusted, MainUses
<1>6. /\ table.uses > Cardinality(Users) /\ table.state # "freed" /\ table.uses \in Nat
      /\ DOMAIN table = {"uses", "state"} /\ Cardinality(Users) \in Nat
  BY <1>5, UsersFinite DEF TInv, UsesCounted
<1>9. Printing => stages # << >>
  BY DEF TInv, UsesCounted
<1>7. CASE Decremented
  <2>1. /\ DOMAIN table' = {"uses", "state"} /\ table'.uses = table.uses - 1
        /\ table'.state = "freed" => table.uses = 1
    BY <1>6, <1>7 DEF Decremented
  <2>2. table'.state = "freed" => Users = {}
    BY <1>6, <2>1, UsersFinite, FS_EmptySet
  <2>3. UsesCounted'
    BY <1>1, <1>3, <1>5, <1>6, <1>9, <2>1, <2>2 DEF UsesCounted
  <2> QED
    BY <1>1, <1>2, <1>3, <2>3 DEF TInv
<1>8. CASE table' = table
  <2>1. UsesCounted'
    BY <1>1, <1>3, <1>5, <1>6, <1>8, <1>9 DEF UsesCounted
  <2> QED
    BY <1>1, <1>2, <1>3, <2>1 DEF TInv
<1> QED
  BY <1>1, <1>7, <1>8

LEMMA PrintedTable ==
  ASSUME TInv, Printed
  PROVE  TInv'
<1>0. /\ stack["map"] # << >> /\ Head(stack["map"]) = "printed" /\ Goto("map", "gate") /\ stages' = Tail(stages)
      /\ opt' = opt /\ plan' = plan /\ allowed' = allowed
      /\ table' = table \/ (UsesTable(Head(stages)) /\ Decremented)
  BY DEF Printed, At, UnuseSymbols
<1>1. "map" \in Threads /\ StacksOK /\ stack["map"] \in Seq(Labels)
  BY DEF TInv, StacksOK, Threads
<1>2. Len(stack["map"]) = 1 /\ stack["map"][1] = "printed"
  <2>1. 1 \in 1 .. Len(stack["map"]) /\ stack["map"][1] = "printed"
    BY <1>0, <1>1
  <2> QED
    BY <1>1, <2>1 DEF StacksOK, Outermost
<1>3. StacksOK' /\ Len(stack'["map"]) = 1 /\ stack'["map"][1] = "gate"
  BY <1>0, <1>1, <1>2, GotoOK DEF Labels, Outermost
<1>4. ~Printing' /\ Printing
  BY <1>1, <1>2, <1>3 DEF Printing
<1>5. stages # << >> /\ Adjusted /\ stages \in Seq(opt.map \cap Parts) /\ Len(stages) > 0
  BY <1>4 DEF TInv, UsesCounted, StagesOK
<1>6. PlanOK' /\ (Adjusted' <=> Adjusted) /\ (MainUses' <=> MainUses)
  BY <1>0 DEF TInv, PlanOK, Adjusted, MainUses
<1>7. /\ stages' \in Seq(opt.map \cap Parts) /\ Len(stages') = Len(stages) - 1 /\ Head(stages) = stages[1]
      /\ \A i \in 1 .. Len(stages') : stages'[i] = stages[i + 1]
  BY <1>0, <1>5
<1>8. StagesOK'
  <2> SUFFICES ASSUME NEW i \in 1 .. Len(stages'), NEW j \in 1 .. Len(stages'), stages'[i] = stages'[j] PROVE i = j
    BY <1>0, <1>7 DEF StagesOK
  <2>1. i + 1 \in 1 .. Len(stages) /\ j + 1 \in 1 .. Len(stages) /\ stages[i + 1] = stages[j + 1]
    BY <1>5, <1>7
  <2> QED
    BY <2>1, <1>5, <1>7 DEF TInv, StagesOK
<1>9. Users' = Users \ {Head(stages)}
  <2>1. ASSUME NEW s PROVE s \in Range(stages') <=> s \in Range(stages) /\ s # Head(stages)
    <3>1. ASSUME s \in Range(stages') PROVE s \in Range(stages) /\ s # Head(stages)
      <4>1. PICK i \in 1 .. Len(stages') : s = stages'[i]
        BY <1>7, <3>1 DEF Range
      <4>2. i + 1 \in 1 .. Len(stages) /\ 1 \in 1 .. Len(stages) /\ i + 1 # 1 /\ s = stages[i + 1]
        BY <1>5, <1>7, <4>1
      <4> QED
        BY <1>5, <1>7, <4>2 DEF TInv, StagesOK, Range
    <3>2. ASSUME s \in Range(stages), s # Head(stages) PROVE s \in Range(stages')
      <4>1. PICK i \in 1 .. Len(stages) : s = stages[i]
        BY <1>5, <3>2 DEF Range
      <4>2. i - 1 \in 1 .. Len(stages') /\ i = (i - 1) + 1
        BY <1>5, <1>7, <3>2, <4>1
      <4>3. stages'[i - 1] = s
        BY <1>7, <4>1, <4>2
      <4> QED
        BY <1>7, <4>2, <4>3 DEF Range
    <3> QED
      BY <3>1, <3>2
  <2> QED
    BY <1>0, <2>1 DEF Users, UsesTable
<1>10. /\ Cardinality(Users) \in Nat /\ IsFiniteSet(Users)
       /\ table.uses \in Nat /\ DOMAIN table = {"uses", "state"}
       /\ table.uses >= Cardinality(Users) /\ (MainUses => table.uses > Cardinality(Users))
       /\ table.state = "freed" => Users = {} /\ ~MainUses
  BY <1>5, UsersFinite DEF TInv, UsesCounted
<1>11. CASE UsesTable(Head(stages)) /\ Decremented
  <2>1. Head(stages) \in Users
    BY <1>5, <1>7, <1>11 DEF Users, Range
  <2>2. Cardinality(Users') = Cardinality(Users) - 1
    BY <1>9, <1>10, <2>1, FS_RemoveElement
  <2>3. /\ DOMAIN table' = {"uses", "state"} /\ table'.uses = table.uses - 1
        /\ table'.state = "freed" => table.uses = 1
    BY <1>10, <1>11, <2>1 DEF Decremented
  <2>4. table.uses >= 1 /\ Cardinality(Users) >= 1
    BY <1>10, <2>1, FS_EmptySet
  <2>5. table'.state = "freed" => Users' = {} /\ ~MainUses
    <3> SUFFICES ASSUME table'.state = "freed" PROVE Users' = {} /\ ~MainUses
      OBVIOUS
    <3>1. Cardinality(Users') = 0 /\ ~MainUses
      BY <1>10, <2>2, <2>3, <2>4
    <3>2. IsFiniteSet(Users')
      BY <1>9, <1>10, FS_RemoveElement
    <3> QED
      BY <3>1, <3>2, FS_EmptySet
  <2>6. UsesCounted'
    BY <1>4, <1>5, <1>6, <1>10, <2>2, <2>3, <2>4, <2>5 DEF UsesCounted
  <2> QED
    BY <1>0, <1>3, <1>6, <1>8, <2>6 DEF TInv
<1>12. CASE table' = table
  <2>1. Cardinality(Users') <= Cardinality(Users) /\ Cardinality(Users') \in Nat /\ (Users = {} => Users' = {})
    BY <1>9, <1>10, FS_Subset, FS_CardinalityType
  <2>2. UsesCounted'
    BY <1>4, <1>5, <1>6, <1>10, <1>12, <2>1 DEF UsesCounted
  <2> QED
    BY <1>0, <1>3, <1>6, <1>8, <2>2 DEF TInv
<1> QED
  BY <1>0, <1>11, <1>12

LEMMA ReadTable ==
  ASSUME TInv, NEW t \in Threads, Read(t)
  PROVE  TInv'
<1>1. StacksOK /\ stack[t] # << >> /\ (ExitThread(t) \/ Goto(t, "terr"))
  BY DEF TInv, Read, At
<1>2. Quiet
  BY <1>1, GotoQuiet, ExitQuiet DEF Labels, Outermost
<1> QED
  BY <1>2, SameUses DEF Read, kept

LEMMA MapTable ==
  ASSUME TInv, MapStep
  PROVE  TInv'
<1>0. StacksOK /\ "map" \in Threads /\ stack["map"] \in Seq(Labels)
  BY DEF TInv, StacksOK, Threads
<1>1. CASE Gate
  <2>1. CASE stages = << >>
    <3>1. Quiet
      BY <1>0, <1>1, <2>1, ExitQuiet DEF Gate
    <3> QED
      BY <1>1, <3>1, SameUses DEF Gate, kept
  <2>2. CASE stages # << >>
    <3>1. /\ stack["map"] # << >> /\ Head(stack["map"]) = "gate" /\ Goto("map", "print")
          /\ allowed # {} /\ UNCHANGED <<opt, plan, stages, allowed, table>>
      BY <1>1, <2>2 DEF Gate, At, kept
    <3>2. StacksOK'
      BY <1>0, <3>1, GotoOK DEF Labels, Outermost
    <3>3. Adjusted /\ (Adjusted' <=> Adjusted) /\ (MainUses' <=> MainUses) /\ Users' = Users
      BY <3>1 DEF TInv, UsesCounted, Adjusted, MainUses, Users, UsesTable
    <3>4. PlanOK' /\ StagesOK'
      BY <3>1 DEF TInv, PlanOK, StagesOK
    <3>5. UsesCounted'
      BY <2>2, <3>1, <3>3 DEF TInv, UsesCounted
    <3> QED
      BY <3>1, <3>2, <3>4, <3>5 DEF TInv
  <2> QED
    BY <2>1, <2>2
<1>2. CASE PrintStage
  <2>0. stack["map"] # << >> /\ Head(stack["map"]) = "print"
    BY <1>2 DEF PrintStage, At
  <2>1. Printing
    BY <1>0, <2>0 DEF Printing
  <2>2. Call("map", "put", "printed") \/ Goto("map", "printed") \/ Goto("map", "fault")
    BY <1>2 DEF PrintStage
  <2>3. StacksOK'
    BY <1>0, <2>0, <2>2, GotoOK, CallOK DEF Labels, Outermost, Returns
  <2>4. Quiet
    BY <2>1, <2>3 DEF Quiet
  <2> QED
    BY <1>2, <2>4, SameUses DEF PrintStage, kept
<1>3. CASE Printed
  BY <1>3, PrintedTable
<1> QED
  BY <1>1, <1>2, <1>3 DEF MapStep

LEMMA MainTable ==
  ASSUME TInv, MainStep
  PROVE  TInv'
<1>0. StacksOK /\ "main" \in Threads /\ "map" \in Threads /\ "main" # "map"
  BY DEF TInv, Threads
<1> USE DEF Main, At, Done, rest, kept
<1>1. CASE Pass1
  BY <1>0, <1>1, SameQuiet, MainSameUses DEF Pass1
<1>2. CASE Message
  <2>1. PICK kind \in {"error", "warning"} : Call("main", kind, "main")
    BY <1>2 DEF Message
  <2>2. stack["main"] # << >> /\ Head(stack["main"]) = "main"
    BY <1>2 DEF Message
  <2>3. StacksOK' /\ stack'["map"] = stack["map"]
    BY <1>0, <2>1, <2>2, CallOK DEF Labels, Outermost, Returns
  <2>4. Quiet
    BY <2>3 DEF Quiet, Printing
  <2> QED
    BY <1>2, <2>4, SameUses DEF Message
<1>3. CASE BadObject
  <2>1. Quiet
    BY <1>0, <1>3, GotoQuiet DEF BadObject, Labels, Outermost
  <2> QED
    BY <1>3, <2>1, SameUses DEF BadObject
<1>4. CASE CreateMapThread
  <2>1. CASE Goto("main", "errabort")
    <3>0. plan' = plan \/ stack'["main"] # stack["main"]
      <4>1. stack["main"] \in Seq(Labels) /\ stack["main"] # << >> /\ Head(stack["main"]) = "main"
        BY <1>0, <1>4 DEF CreateMapThread, StacksOK
      <4>2. stack'["main"][1] = "errabort"
        BY <1>0, <2>1, <4>1, GotoOK DEF Labels, Outermost
      <4> QED
        BY <4>1, <4>2
    <3>1. Quiet
      BY <1>0, <1>4, <2>1, GotoQuiet DEF CreateMapThread, Labels, Outermost
    <3>2. plan' = plan
      BY <1>0, <1>4, <3>0 DEF CreateMapThread, StacksOK
    <3> QED
      BY <1>4, <3>1, <3>2, SameUses DEF CreateMapThread
  <2>2. CASE ~Goto("main", "errabort")
    <3>1. plan' = Tail(plan) /\ stack' = [stack EXCEPT !["map"] = IF MapWanted THEN <<"gate">> ELSE @]
      BY <1>4, <2>2 DEF CreateMapThread
    <3>2. CASE MapWanted
      <4>1. /\ stack' \in [Threads -> Seq(Labels)] /\ stack'["map"] = <<"gate">>
            /\ \A u \in Threads \ {"map"} : stack'[u] = stack[u]
        BY <1>0, <3>1, <3>2 DEF StacksOK, Labels
      <4>2. Len(stack'["map"]) = 1 /\ stack'["map"][1] = "gate"
        BY <4>1
      <4>3. Quiet
        <5>1. ASSUME NEW u \in Threads, NEW i \in 1 .. Len(stack'[u])
              PROVE  /\ stack'[u][i] \in Outermost => i = Len(stack'[u])
                     /\ i > 1 => stack'[u][i] \in Returns
          <6>1. CASE u = "map"
            <7>1. i \in 1 .. 1 /\ Len(stack'[u]) = 1
              BY <4>2, <6>1
            <7> QED
              BY <7>1
          <6>2. CASE u # "map"
            BY <1>0, <4>1, <5>1, <6>2 DEF StacksOK
          <6> QED
            BY <6>1, <6>2
        <5>2. ~Printing'
          BY <4>2 DEF Printing
        <5> QED
          BY <4>1, <5>1, <5>2 DEF Quiet, StacksOK
      <4> QED
        BY <1>4, <3>1, <4>3, MainSameUses DEF CreateMapThread
    <3>3. CASE ~MapWanted
      <4>1. stack' = stack
        BY <1>0, <3>1, <3>3 DEF StacksOK
      <4> QED
        BY <1>0, <1>4, <3>1, <4>1, SameQuiet, MainSameUses DEF CreateMapThread
    <3> QED
      BY <3>2, <3>3
  <2> QED
    BY <2>1, <2>2
<1>5. CASE AdjustFlags
  BY <1>5, AdjustTable
<1>6. CASE Allow
  <2>1. Head(plan) \in Parts
    BY <1>6 DEF Allow
  <2>2. Head(plan) \notin {"adjust", "unuse"}
    BY <2>1 DEF Parts
  <2> QED
    BY <1>0, <1>6, <2>1, <2>2, SameQuiet, MainSameUses DEF Allow
<1>7. CASE WriteExe
  <2>1. CASE plan' = Tail(plan) /\ stack' = stack
    BY <1>0, <1>7, <2>1, SameQuiet, MainSameUses DEF WriteExe, Writing
  <2>2. CASE ~(plan' = Tail(plan) /\ stack' = stack)
    <3>1. plan' = plan /\ (Goto("main", "lost") \/ Goto("main", "full"))
      BY <1>7, <2>2 DEF WriteExe, WriteFails
    <3>2. Quiet
      BY <1>0, <1>7, <3>1, GotoQuiet DEF WriteExe, Labels, Outermost
    <3> QED
      BY <1>7, <3>1, <3>2, SameUses DEF WriteExe
  <2> QED
    BY <2>1, <2>2
<1>8. CASE Unuse
  BY <1>8, UnuseTable
<1>9. CASE JoinMap
  BY <1>0, <1>9, SameQuiet, MainSameUses DEF JoinMap
<1>10. CASE FlushMap
  <2>1. CASE plan' = Tail(plan) /\ stack' = stack
    BY <1>0, <1>10, <2>1, SameQuiet, MainSameUses DEF FlushMap
  <2>2. CASE ~(plan' = Tail(plan) /\ stack' = stack)
    <3>1. plan' = plan /\ (Goto("main", "lost") \/ Goto("main", "full"))
      BY <1>10, <2>2 DEF FlushMap, WriteFails
    <3>2. Quiet
      BY <1>0, <1>10, <3>1, GotoQuiet DEF FlushMap, Labels, Outermost
    <3> QED
      BY <1>10, <3>1, <3>2, SameUses DEF FlushMap
  <2> QED
    BY <2>1, <2>2
<1>11. CASE Leave
  <2>1. Quiet
    BY <1>0, <1>11, GotoQuiet DEF Leave, Labels, Outermost
  <2> QED
    BY <1>11, <2>1, SameUses DEF Leave
<1> QED
  BY <1>1, <1>2, <1>3, <1>4, <1>5, <1>6, <1>7, <1>8, <1>9, <1>10, <1>11 DEF MainStep

LEMMA NextTable == TInv /\ [Next]_vars => TInv'
<1> SUFFICES ASSUME TInv, [Next]_vars PROVE TInv'
  OBVIOUS
<1>1. CASE UNCHANGED vars
  BY <1>1, SameQuiet, SameUses DEF TInv, vars
<1>2. CASE Next
  BY <1>2, RoutineTable, ReadTable, MapTable, MainTable DEF Next, ThreadStep
<1> QED
  BY <1>1, <1>2

LEMMA InitTable == Init => TInv
<1> SUFFICES ASSUME Init PROVE TInv
  OBVIOUS
<1>1. opt \in Scenarios /\ plan = Plan(opt.codeview) /\ allowed = {} /\ table = [uses |-> 1, state |-> "kept"]
  BY DEF Init
<1>2. PlanOK
  <2>1. opt.codeview = TRUE \/ opt.codeview = FALSE
    BY <1>1, OptTypes
  <2>2. plan \in Seq(Steps) /\ Len(plan) = Size(opt) /\ Size(opt) \in {13, 16}
    BY <1>1, <2>1, PlanShape DEF Size
  <2>3. \A i \in 1 .. Len(plan) : Size(opt) - Len(plan) + i = i
    BY <2>2
  <2> QED
    BY <1>1, <2>2, <2>3 DEF PlanOK
<1>3. StacksOK /\ ~Printing
  <2>1. stack = [t \in Threads |-> IF t = "main" THEN <<"main">> ELSE IF t = "map" THEN << >> ELSE <<"read">>]
    BY DEF Init
  <2>4. <<"main">> \in Seq(Labels) /\ <<"read">> \in Seq(Labels) /\ << >> \in Seq(Labels)
    BY DEF Labels
  <2>2. stack \in [Threads -> Seq(Labels)] /\ stack["map"] = << >>
    BY <2>1, <2>4 DEF Threads
  <2>3. \A t \in Threads : Len(stack[t]) <= 1
    BY <2>1
  <2> QED
    BY <2>2, <2>3 DEF StacksOK, Printing
<1>4. StagesOK
  <2> DEFINE Fine(s) == s \in Seq(opt.map \cap Parts) /\ \A i, j \in 1 .. Len(s) : s[i] = s[j] => i = j
             Free(s, p) == \A i \in 1 .. Len(s) : s[i] # p
  <2>1. ASSUME NEW s, NEW p \in Parts, Fine(s), Free(s, p)
        PROVE  /\ Fine(s \o IfWanted(p))
               /\ \A q \in Parts \ {p} : Free(s, q) => Free(s \o IfWanted(p), q)
    <3>1. CASE p \in opt.map
      <4>1. IfWanted(p) = <<p>> /\ s \in Seq(opt.map \cap Parts) /\ p \in opt.map \cap Parts
        BY <2>1, <3>1 DEF IfWanted
      <4>2. /\ s \o <<p>> \in Seq(opt.map \cap Parts) /\ Len(s \o <<p>>) = Len(s) + 1 /\ Len(s) \in Nat
            /\ (s \o <<p>>)[Len(s) + 1] = p
            /\ \A i \in 1 .. Len(s) : (s \o <<p>>)[i] = s[i]
        BY <4>1
      <4>3. \A i, j \in 1 .. Len(s) + 1 : (s \o <<p>>)[i] = (s \o <<p>>)[j] => i = j
        BY <2>1, <4>2
      <4>4. \A q \in Parts \ {p} : Free(s, q) => Free(s \o <<p>>, q)
        BY <4>2
      <4> QED
        BY <4>1, <4>2, <4>3, <4>4
    <3>2. CASE p \notin opt.map
      <4>1. IfWanted(p) = << >> /\ s \in Seq(opt.map \cap Parts)
        BY <2>1, <3>2 DEF IfWanted
      <4>2. s \o << >> = s
        BY <4>1
      <4> QED
        BY <2>1, <4>1, <4>2
    <3> QED
      BY <3>1, <3>2
  <2>2. Fine(<< >>) /\ \A p \in Parts : Free(<< >>, p)
    OBVIOUS
  <2>3. << >> \o IfWanted("segments") = IfWanted("segments")
    BY DEF IfWanted
  <2> HIDE DEF Fine, Free
  <2>4. /\ Fine(IfWanted("segments"))
        /\ \A q \in Parts \ {"segments"} : Free(IfWanted("segments"), q)
    BY <2>1, <2>2, <2>3 DEF Parts
  <2>5. /\ Fine(IfWanted("segments") \o IfWanted("exports"))
        /\ \A q \in Parts \ {"segments", "exports"} : Free(IfWanted("segments") \o IfWanted("exports"), q)
    BY <2>1, <2>4 DEF Parts
  <2>6. /\ Fine(IfWanted("segments") \o IfWanted("exports") \o IfWanted("symbols"))
        /\ \A q \in Parts \ {"segments", "exports", "symbols"} :
             Free(IfWanted("segments") \o IfWanted("exports") \o IfWanted("symbols"), q)
    BY <2>1, <2>5 DEF Parts
  <2>7. /\ Fine(IfWanted("segments") \o IfWanted("exports") \o IfWanted("symbols") \o IfWanted("lines"))
        /\ \A q \in {"xref", "start"} :
             Free(IfWanted("segments") \o IfWanted("exports") \o IfWanted("symbols") \o IfWanted("lines"), q)
    BY <2>1, <2>6 DEF Parts
  <2>8. /\ Fine(IfWanted("segments") \o IfWanted("exports") \o IfWanted("symbols") \o IfWanted("lines")
                \o IfWanted("xref"))
        /\ Free(IfWanted("segments") \o IfWanted("exports") \o IfWanted("symbols") \o IfWanted("lines")
                \o IfWanted("xref"), "start")
    BY <2>1, <2>7 DEF Parts
  <2>9. Fine(WantedParts)
    BY <2>1, <2>8 DEF Parts, WantedParts
  <2>10. stages = WantedParts
    BY DEF Init
  <2> QED
    BY <2>9, <2>10 DEF StagesOK, Fine
<1>5. UsesCounted
  <2>1. ~Adjusted
    <3>1. plan \in Seq(Steps) /\ Len(plan) = Size(opt) /\ Size(opt) \in {13, 16}
      <4>1. opt.codeview = TRUE \/ opt.codeview = FALSE
        BY <1>1, OptTypes
      <4> QED
        BY <1>1, <4>1, PlanShape DEF Size
    <3> QED
      BY <3>1 DEF Adjusted
  <2> QED
    BY <1>1, <1>3, <2>1 DEF UsesCounted
<1> QED
  BY <1>1, <1>2, <1>3, <1>4, <1>5 DEF TInv

(***************************************************************************)
(* The symbol table is not freed while main has the image or CodeView's    *)
(* publics to write or a part of the map that shows symbols is to come,    *)
(* for any number of readers, whatever is wanted in the map and whatever   *)
(* fails: the uses of the map thread are added before it may start on its  *)
(* first part, and a decrement that is lost keeps the table.               *)
(***************************************************************************)
THEOREM TableOutlivesUsers == Spec => []TableKept
<1>1. TInv => TableKept
  <2> SUFFICES ASSUME TInv, table.state = "freed"
               PROVE  {"exe", "publics"} \cap Range(plan) = {} /\ \A s \in Range(stages) : ~UsesTable(s)
    BY DEF TableKept
  <2>1. Users = {} /\ ~MainUses
    BY DEF TInv, UsesCounted
  <2> QED
    BY <2>1, PlanNeedsTable DEF TInv, Users
<1> QED
  BY InitTable, NextTable, <1>1, PTL DEF Spec

-----------------------------------------------------------------------------
(* The status.                                                             *)

Supposed ==
  /\ opt.fails \cap {"console", "exe"} = {}
  /\ "map full" \in opt.fails => opt.messages = 0

Is(t, labels) == Len(stack[t]) > 0 /\ stack[t][1] \in labels

ErrorLabels == {"error", "phase3", "told", "put", "fill", "errabort", "abort", "delete", "exit", "fault", "faulted",
                "lost", "flush", "mapoff", "critical", "full"}
Losing == {"lost", "flush", "mapoff", "critical"}

LabelsOK ==
  /\ \A r \in Readers :
       stack[r] # << >> => /\ Len(stack[r]) = 1
                           /\ Is(r, {"read", "terr", "report", "abort", "delete", "exit", "fault", "faulted"})
  /\ \A i \in 1 .. Len(stack["map"]) : stack["map"][i] \in ErrorLabels \cup {"gate", "print", "printed"}
  /\ \A i \in 1 .. Len(stack["main"]) : stack["main"][i] \in ErrorLabels \cup {"main", "warning"}
  /\ \A t \in Threads : Is(t, {"put", "fill"}) => /\ Len(stack[t]) >= 2 /\ stack[t][2] \in {"told", "printed"}
                                                  /\ map.file # "none"
  /\ Is("main", {"warning"}) => Len(stack["main"]) = 2 /\ stack["main"][2] = "main" /\ opt.messages > 0

(* A message comes back to what gave it, unless it is the last.             *)
Reporting ==
  \A t \in Threads : \A i \in 1 .. Len(stack[t]) :
    stack[t][i] \in {"error", "phase3", "told"} => i < Len(stack[t]) \/ err.aborting

EndTypeOK ==
  /\ DOMAIN err = {"count", "aborting", "critical", "terr", "noCancel"} /\ err.count \in Nat
  /\ DOMAIN map = {"out", "flushed", "file"}
  /\ DOMAIN lock = {"error", "put", "aborter"}
  /\ status \in [Threads -> Nat] /\ said \in Nat

(* How far main has come.                                                  *)
Passed ==
  /\ Len(plan) < Size(opt) => ~err.terr /\ \A r \in Readers : stack[r] = << >>
  /\ Len(plan) >= Size(opt) - 1 => stack["map"] = << >>
  /\ Len(plan) < Size(opt) - 1 /\ stack["map"] = << >> => stages = << >>
  /\ Len(plan) <= 2 => stack["map"] = << >>
  /\ Len(plan) <= 1 => map.file \in {"none", "closed"}
  /\ ~MapWanted => stages = << >> /\ map.file = "none"
  /\ map.file = "none" => ~map.out
  /\ err.aborting => ~map.out

(* Main in a message that need not be an error, or failing in it.          *)
Warning ==
  LET s == stack["main"] IN
  \/ Len(s) = 2 /\ s[1] \in {"phase3", "told"} /\ s[2] = "main"
  \/ /\ Len(s) = 3 /\ s[2] = "told" /\ s[3] = "main"
     /\ s[1] \in {"put", "fill", "fault", "faulted", "errabort"} \cup Losing
  \/ Len(s) = 4 /\ s[1] = "error" /\ s[2] = "abort" /\ s[3] = "told" /\ s[4] = "main"

Telling(t) == Is(t, {"phase3"}) \/ \E i \in 1 .. Len(stack[t]) : stack[t][i] = "told"

(* The map thread does not run, or it cannot get at the map any more.      *)
MapOut == stack["map"] = << >> \/ lock["put"] = "main"

(* No thread is about to end the process before an error is counted.  The  *)
(* first to lose the map counts one; no second can lose it before that,    *)
(* since the first keeps PUT_DATA_SEM.                                      *)
Counted ==
  err.count = 0 =>
    /\ \A t \in Threads : Telling(t) => t = "main" /\ opt.messages > 0 /\ Warning
    /\ err.aborting /\ opt.messages > 0 => Is("main", {"error"})
    /\ err.critical => \/ Is("map", {"errabort", "error"}) /\ lock["put"] = "map" /\ ~Is("main", Losing)
                       \/ Is("main", {"errabort", "error"}) /\ MapOut /\ ~Is("map", Losing)
    /\ Is("main", Losing) => MapOut /\ ~Is("map", Losing)
    /\ Is("map", Losing) => lock["put"] = "map"
    /\ \A t \in Threads : Is(t, {"abort"}) => err.noCancel
    /\ \A t \in Threads : ~Is(t, {"delete"})

StatusCounted ==
  \A t \in Threads : Is(t, {"exit"}) => status[t] > 0 \/ (err.noCancel /\ status[t] = err.count)

PutKept ==
  /\ \A t \in Threads : Is(t, {"fill"}) => lock["put"] = t
  /\ opt.messages > 0 => ~Is("map", {"full"})

(* What has failed ends the process: its thread does not come back.        *)
Doom == {"abort", "delete", "exit", "fault", "faulted", "lost", "flush", "mapoff", "critical", "errabort", "full",
         "terr", "report"}
Doomed(t) == \/ \E i \in 1 .. Len(stack[t]) : stack[t][i] \in Doom
             \/ err.aborting /\ Is(t, {"error", "phase3", "told"})
FailureSeen == failed # {} => err.terr \/ \E t \in Threads : Doomed(t)

(* Main is leaving, and alone.                                             *)
Alone ==
  err.noCancel =>
    /\ Is("main", {"abort", "delete", "exit"})
    /\ \A t \in Threads \ {"main"} : stack[t] = << >>
    /\ failed = {} /\ stages = << >> /\ map.file \in {"none", "closed"}

Told == exit = {0} => err.noCancel /\ err.count = 0

HInv == LabelsOK /\ Reporting /\ Passed /\ Counted /\ StatusCounted /\ PutKept /\ FailureSeen /\ Alone /\ Told

EInv == TInv /\ EndTypeOK /\ (Supposed => HInv)

(* The steps of one thread t, as the proofs below use them.                *)
Others(t) == \A u \in Threads \ {t} : stack'[u] = stack[u]

Replaced(t, l) ==
  /\ Others(t) /\ stack[t] \in Seq(Labels) /\ stack'[t] \in Seq(Labels)
  /\ Len(stack[t]) >= 1 /\ Len(stack'[t]) = Len(stack[t]) /\ stack'[t][1] = l
  /\ \A i \in 2 .. Len(stack[t]) : stack'[t][i] = stack[t][i]

Called(t, l, m) ==
  /\ Others(t) /\ stack[t] \in Seq(Labels) /\ stack'[t] \in Seq(Labels)
  /\ Len(stack[t]) >= 1 /\ Len(stack'[t]) = Len(stack[t]) + 1 /\ stack'[t][1] = l /\ stack'[t][2] = m
  /\ \A i \in 2 .. Len(stack[t]) : stack'[t][i + 1] = stack[t][i]

Returned(t) ==
  /\ Others(t) /\ stack[t] \in Seq(Labels) /\ stack'[t] \in Seq(Labels)
  /\ Len(stack[t]) >= 1 /\ Len(stack'[t]) = Len(stack[t]) - 1
  /\ \A i \in 1 .. Len(stack'[t]) : stack'[t][i] = stack[t][i + 1]

Stopped(t) == Others(t) /\ stack'[t] = << >> /\ Len(stack'[t]) = 0 /\ stack'[t] \in Seq(Labels)

LEMMA GotoReplaced ==
  ASSUME TInv, NEW t \in Threads, NEW l \in Labels \ Outermost, stack[t] # << >>, Goto(t, l)
  PROVE  Replaced(t, l)
  BY GotoOK DEF TInv, StacksOK, Replaced, Others

LEMMA CallCalled ==
  ASSUME TInv, NEW t \in Threads, NEW l \in Labels \ Outermost, NEW m \in Returns, stack[t] # << >>, Call(t, l, m),
         m \in Outermost => stack[t][1] \in Outermost
  PROVE  Called(t, l, m)
<1>1. m \in Labels
  BY DEF Returns, Labels
<1>2. StacksOK /\ Head(stack[t]) = stack[t][1]
  BY DEF TInv
<1> QED
  BY <1>1, <1>2, CallOK DEF StacksOK, Called, Others

LEMMA ReturnReturned ==
  ASSUME TInv, NEW t \in Threads, stack[t] # << >>, Return(t)
  PROVE  Returned(t)
  BY ReturnOK DEF TInv, StacksOK, Returned, Others

LEMMA ExitStopped ==
  ASSUME TInv, NEW t \in Threads, ExitThread(t)
  PROVE  Stopped(t)
<1>1. stack'[t] = << >> /\ Others(t)
  BY ExitOK DEF TInv, Others
<1> QED
  BY <1>1 DEF Stopped

LEMMA AtIs ==
  ASSUME TInv, NEW t \in Threads, NEW a, At(t, a)
  PROVE  stack[t] # << >> /\ stack[t] \in Seq(Labels) /\ Len(stack[t]) >= 1 /\ stack[t][1] = a
         /\ Is(t, {a}) /\ exit = Running
<1>1. stack[t] # << >> /\ stack[t] \in Seq(Labels) /\ Head(stack[t]) = a /\ exit = Running
  BY DEF TInv, StacksOK, At
<1>2. Len(stack[t]) >= 1 /\ stack[t][1] = a
  BY <1>1
<1> QED
  BY <1>1, <1>2 DEF Is

LEMMA ThreadFacts ==
  /\ "main" \in Threads /\ "map" \in Threads /\ "main" # "map"
  /\ \A r \in Readers : r \in Threads /\ r # "main" /\ r # "map"
  /\ \A t \in Threads : t \notin Readers => t \in {"main", "map"}
  BY EndAssumption DEF Threads

Good == TInv /\ TInv' /\ EndTypeOK /\ Supposed /\ HInv

(* While main is leaving no other routine is in use.                       *)
LEMMA NotLeaving ==
  ASSUME Good, NEW t \in Threads, NEW a, At(t, a), a \notin {"abort", "delete", "exit"}
  PROVE  ~err.noCancel
<1>1. Len(stack[t]) >= 1 /\ stack[t][1] = a /\ stack[t] # << >>
  BY AtIs DEF Good
<1> QED
  BY <1>1 DEF Good, HInv, Alone, Is

LEMMA FrameEnd ==
  ASSUME Good, NEW t \in Threads, ~err.noCancel, exit = Running, exit' = exit, Others(t), status' = status,
         err'.noCancel = err.noCancel, ~(Len(stack'[t]) > 0 /\ stack'[t][1] = "exit")
  PROVE  StatusCounted' /\ Alone' /\ Told'
<1>1. Told'
  <2>1. 0 \in {0} /\ 0 \notin Running
    BY DEF Running
  <2> QED
    BY <2>1 DEF Told
<1>2. Alone'
  BY DEF Alone
<1>3. StatusCounted'
  BY DEF Good, HInv, StatusCounted, Is, Others
<1> QED
  BY <1>1, <1>2, <1>3

LEMMA FrameFailure ==
  ASSUME Good, NEW t \in Threads, Others(t), err.terr => err'.terr, err.aborting => err'.aborting,
         failed' = failed \/ err'.terr \/ Doomed(t)',
         Doomed(t) => err'.terr \/ Doomed(t)'
  PROVE  FailureSeen'
<1>1. \A u \in Threads \ {t} : Doomed(u) => Doomed(u)'
  BY DEF Doomed, Others, Is
<1> QED
  BY <1>1 DEF Good, HInv, FailureSeen

LEMMA FramePassed ==
  ASSUME Good, NEW t \in Threads, stack[t] # << >>, Others(t), UNCHANGED <<opt, plan, stages>>,
         stack'[t] # << >> \/ t \in Readers,
         err'.terr = err.terr \/ t \in Readers,
         map'.file = map.file \/ (map.file = "open" /\ map'.file = "closed"),
         map'.out => map.out, err'.aborting => err.aborting \/ ~map'.out
  PROVE  Passed'
<1>1. opt' = opt /\ plan' = plan /\ stages' = stages /\ MapWanted' = MapWanted
  BY DEF MapWanted
<1>2. /\ Passed /\ (t \in Readers => ~(Len(plan) < Size(opt)))
      /\ \A r \in Readers : r \in Threads
  BY ThreadFacts DEF Good, HInv, Passed
<1>3. stack'["map"] = << >> <=> stack["map"] = << >>
  BY ThreadFacts DEF Others
<1>4. \A r \in Readers : stack[r] = << >> => stack'[r] = << >>
  BY <1>2 DEF Others
<1> QED
  BY <1>1, <1>2, <1>3, <1>4 DEF Passed

ReaderLabels == {"read", "terr", "report", "abort", "delete", "exit", "fault", "faulted"}

LEMMA GotoLabels ==
  ASSUME Good, NEW t \in Threads, NEW l \in ErrorLabels \cup {"report", "terr"}, Replaced(t, l), opt' = opt,
         l \in {"report", "terr"} => t \in Readers, t \in Readers => l \in ReaderLabels,
         l \in {"put", "fill"} => stack[t][1] = "put" /\ l = "fill",
         map'.file = map.file \/ map'.file # "none"
  PROVE  LabelsOK'
<1>1. /\ LabelsOK /\ "warning" \notin ErrorLabels \cup {"report", "terr"}
  BY DEF Good, HInv, ErrorLabels
<1>2. \A r \in Readers : stack'[r] # << >> => Len(stack'[r]) = 1 /\ Len(stack'[r]) > 0 /\ stack'[r][1] \in ReaderLabels
  <2> SUFFICES ASSUME NEW r \in Readers, stack'[r] # << >>
      PROVE  Len(stack'[r]) = 1 /\ Len(stack'[r]) > 0 /\ stack'[r][1] \in ReaderLabels
    OBVIOUS
  <2>1. stack[r] # << >> => Len(stack[r]) = 1 /\ Len(stack[r]) > 0 /\ stack[r][1] \in ReaderLabels
    BY <1>1 DEF LabelsOK, Is, ReaderLabels
  <2>2. CASE r = t
    <3>1. stack[t] # << >> /\ stack'[t][1] = l /\ Len(stack'[t]) = Len(stack[t])
      BY DEF Replaced
    <3> QED
      BY <2>1, <2>2, <3>1
  <2>3. CASE r # t
    BY <2>1, <2>3, ThreadFacts DEF Replaced, Others
  <2> QED
    BY <2>2, <2>3
<1>3. \A i \in 1 .. Len(stack'["map"]) : stack'["map"][i] \in ErrorLabels \cup {"gate", "print", "printed"}
  <2>1. CASE t = "map"
    BY <1>1, <2>1, ThreadFacts DEF LabelsOK, Replaced
  <2>2. CASE t # "map"
    BY <1>1, <2>2, ThreadFacts DEF LabelsOK, Replaced, Others
  <2> QED
    BY <2>1, <2>2
<1>4. \A i \in 1 .. Len(stack'["main"]) : stack'["main"][i] \in ErrorLabels \cup {"main", "warning"}
  <2>1. CASE t = "main"
    BY <1>1, <2>1, ThreadFacts DEF LabelsOK, Replaced
  <2>2. CASE t # "main"
    BY <1>1, <2>2, ThreadFacts DEF LabelsOK, Replaced, Others
  <2> QED
    BY <2>1, <2>2
<1>5. \A u \in Threads : Len(stack'[u]) > 0 /\ stack'[u][1] \in {"put", "fill"} =>
        Len(stack'[u]) >= 2 /\ stack'[u][2] \in {"told", "printed"} /\ map'.file # "none"
  <2>1. CASE l \in {"put", "fill"}
    <3>1. Len(stack[t]) >= 2 /\ stack[t][2] \in {"told", "printed"} /\ map.file # "none"
      BY <1>1, <2>1 DEF LabelsOK, Replaced, Is
    <3>2. Len(stack'[t]) >= 2 /\ stack'[t][2] \in {"told", "printed"} /\ map'.file # "none"
      BY <3>1 DEF Replaced
    <3> QED
      BY <1>1, <3>2 DEF LabelsOK, Replaced, Is, Others
  <2>2. CASE l \notin {"put", "fill"}
    BY <1>1, <2>2 DEF LabelsOK, Replaced, Is, Others
  <2> QED
    BY <2>1, <2>2
<1>6. Len(stack'["main"]) > 0 /\ stack'["main"][1] \in {"warning"} =>
        Len(stack'["main"]) = 2 /\ stack'["main"][2] = "main" /\ opt'.messages > 0
  BY <1>1, ThreadFacts DEF LabelsOK, Replaced, Is, Others
<1> QED
  BY <1>2, <1>3, <1>4, <1>5, <1>6 DEF LabelsOK, Is, ReaderLabels

LEMMA CallLabels ==
  ASSUME Good, NEW t \in {"main", "map"}, NEW l \in {"put", "error", "warning"}, NEW m \in Returns, Called(t, l, m),
         l = "put" => m \in {"told", "printed"} /\ map.file # "none",
         l = "warning" => m = "main" /\ Len(stack[t]) = 1 /\ opt.messages > 0,
         m = "main" => t = "main", m = "printed" => t = "map",
         opt' = opt, map' = map
  PROVE  LabelsOK'
<1>1. LabelsOK /\ l \in ErrorLabels \cup {"warning"} /\ m \in ErrorLabels \cup {"main", "printed"} /\ t \in Threads
  BY ThreadFacts DEF Good, HInv, ErrorLabels, Returns
<1>2. \A r \in Readers : stack'[r] = stack[r]
  BY ThreadFacts DEF Called, Others
<1>3. ASSUME NEW S, l \in S, m \in S, \A i \in 1 .. Len(stack[t]) : stack[t][i] \in S
      PROVE  \A i \in 1 .. Len(stack'[t]) : stack'[t][i] \in S
  <2> SUFFICES ASSUME NEW i \in 1 .. Len(stack'[t]), i > 2 PROVE stack'[t][i] \in S
    BY <1>3 DEF Called
  <2>1. i - 1 \in 2 .. Len(stack[t]) /\ i - 1 \in 1 .. Len(stack[t]) /\ stack'[t][(i - 1) + 1] = stack[t][i - 1]
    BY DEF Called
  <2> QED
    BY <2>1, <1>3 DEF Called
<1>4. \A i \in 1 .. Len(stack'["map"]) : stack'["map"][i] \in ErrorLabels \cup {"gate", "print", "printed"}
  <2>1. CASE t = "map"
    BY <1>1, <1>3, <2>1, ThreadFacts DEF LabelsOK
  <2>2. CASE t # "map"
    BY <1>1, <2>2, ThreadFacts DEF LabelsOK, Called, Others
  <2> QED
    BY <2>1, <2>2
<1>5. \A i \in 1 .. Len(stack'["main"]) : stack'["main"][i] \in ErrorLabels \cup {"main", "warning"}
  <2>1. CASE t = "main"
    BY <1>1, <1>3, <2>1 DEF LabelsOK
  <2>2. CASE t # "main"
    BY <1>1, <2>2, ThreadFacts DEF LabelsOK, Called, Others
  <2> QED
    BY <2>1, <2>2
<1>6. \A u \in Threads : Len(stack'[u]) > 0 /\ stack'[u][1] \in {"put", "fill"} =>
        Len(stack'[u]) >= 2 /\ stack'[u][2] \in {"told", "printed"} /\ map'.file # "none"
  <2>1. Len(stack'[t]) >= 2 /\ stack'[t][1] = l /\ stack'[t][2] = m /\ \A u \in Threads \ {t} : stack'[u] = stack[u]
    BY DEF Called, Others
  <2> QED
    BY <1>1, <2>1 DEF LabelsOK, Is
<1>7. Len(stack'["main"]) > 0 /\ stack'["main"][1] \in {"warning"} =>
        Len(stack'["main"]) = 2 /\ stack'["main"][2] = "main" /\ opt'.messages > 0
  <2>1. CASE t = "main" /\ l = "warning"
    <3>1. Len(stack[t]) = 1 /\ m = "main" /\ opt.messages > 0
      BY <2>1
    <3>2. Len(stack'[t]) = 2 /\ stack'[t][2] = "main"
      BY <3>1 DEF Called
    <3>3. opt'.messages > 0
      BY <3>1
    <3> QED
      BY <2>1, <3>2, <3>3
  <2>2. CASE t = "main" /\ l # "warning"
    BY <2>2 DEF Called
  <2>3. CASE t # "main"
    BY <1>1, <2>3, ThreadFacts DEF LabelsOK, Called, Is, Others
  <2> QED
    BY <2>1, <2>2, <2>3
<1> QED
  BY <1>1, <1>2, <1>4, <1>5, <1>6, <1>7 DEF LabelsOK, Is

LEMMA ReturnLabels ==
  ASSUME Good, NEW t \in {"main", "map"}, Returned(t), opt' = opt, map' = map
  PROVE  LabelsOK'
<1>1. LabelsOK /\ t \in Threads
  BY ThreadFacts DEF Good, HInv
<1>2. \A r \in Readers : stack'[r] = stack[r]
  BY ThreadFacts DEF Returned, Others
<1>3. ASSUME NEW S, \A i \in 1 .. Len(stack[t]) : stack[t][i] \in S
      PROVE  \A i \in 1 .. Len(stack'[t]) : stack'[t][i] \in S
  <2> SUFFICES ASSUME NEW i \in 1 .. Len(stack'[t]) PROVE stack'[t][i] \in S
    OBVIOUS
  <2>1. i + 1 \in 1 .. Len(stack[t]) /\ stack'[t][i] = stack[t][i + 1]
    BY DEF Returned
  <2> QED
    BY <2>1, <1>3
<1>4. \A i \in 1 .. Len(stack'["map"]) : stack'["map"][i] \in ErrorLabels \cup {"gate", "print", "printed"}
  <2>1. CASE t = "map"
    BY <1>1, <1>3, <2>1 DEF LabelsOK
  <2>2. CASE t # "map"
    BY <1>1, <2>2, ThreadFacts DEF LabelsOK, Returned, Others
  <2> QED
    BY <2>1, <2>2
<1>5. \A i \in 1 .. Len(stack'["main"]) : stack'["main"][i] \in ErrorLabels \cup {"main", "warning"}
  <2>1. CASE t = "main"
    BY <1>1, <1>3, <2>1 DEF LabelsOK
  <2>2. CASE t # "main"
    BY <1>1, <2>2, ThreadFacts DEF LabelsOK, Returned, Others
  <2> QED
    BY <2>1, <2>2
<1>6. Len(stack'[t]) > 0 => stack'[t][1] \in {"told", "abort", "main", "printed"}
  <2> SUFFICES ASSUME Len(stack'[t]) > 0 PROVE stack'[t][1] \in {"told", "abort", "main", "printed"}
    OBVIOUS
  <2>1. 2 \in 1 .. Len(stack[t]) /\ stack'[t][1] = stack[t][2]
    BY DEF Returned
  <2> QED
    BY <1>1, <2>1 DEF Good, TInv, StacksOK, Returns
<1>7. \A u \in Threads : Len(stack'[u]) > 0 /\ stack'[u][1] \in {"put", "fill"} =>
        Len(stack'[u]) >= 2 /\ stack'[u][2] \in {"told", "printed"} /\ map'.file # "none"
  BY <1>1, <1>6 DEF LabelsOK, Is, Returned, Others
<1>8. Len(stack'["main"]) > 0 /\ stack'["main"][1] \in {"warning"} =>
        Len(stack'["main"]) = 2 /\ stack'["main"][2] = "main" /\ opt'.messages > 0
  BY <1>1, <1>6, ThreadFacts DEF LabelsOK, Is, Returned, Others
<1> QED
  BY <1>1, <1>2, <1>4, <1>5, <1>7, <1>8 DEF LabelsOK, Is

LEMMA GotoReporting ==
  ASSUME Good, NEW t \in Threads, NEW l, Replaced(t, l), err.aborting => err'.aborting,
         l \in {"error", "phase3", "told"} => err'.aborting \/ stack[t][1] \in {"error", "phase3"} \/ Len(stack[t]) >= 2
  PROVE  Reporting'
<1>1. Reporting /\ \A u \in Threads \ {t} : stack'[u] = stack[u]
  BY DEF Good, HInv, Replaced, Others
<1>2. ASSUME NEW i \in 1 .. Len(stack'[t]), stack'[t][i] \in {"error", "phase3", "told"}
      PROVE  i < Len(stack'[t]) \/ err'.aborting
  <2>1. Len(stack'[t]) = Len(stack[t]) /\ Len(stack[t]) \in Nat /\ Len(stack[t]) >= 1 /\ stack'[t][1] = l
    <3>1. stack[t] \in Seq(Labels)
      BY DEF Replaced
    <3> QED
      BY <3>1 DEF Replaced
  <2>2. CASE i = 1
    <3>1. stack[t][1] \in {"error", "phase3"} => 1 < Len(stack[t]) \/ err.aborting
      BY <1>1, <2>1 DEF Reporting
    <3> QED
      BY <1>2, <2>1, <2>2, <3>1
  <2>3. CASE i # 1
    <3>1. i \in 2 .. Len(stack[t])
      BY <2>1, <2>3
    <3>2. stack[t][i] \in {"error", "phase3", "told"}
      BY <1>2, <3>1 DEF Replaced
    <3> QED
      BY <1>1, <2>1, <3>1, <3>2 DEF Reporting
  <2> QED
    BY <2>2, <2>3
<1> QED
  BY <1>1, <1>2 DEF Reporting

LEMMA ReturnReporting ==
  ASSUME Good, NEW t \in Threads, Returned(t), err.aborting => err'.aborting
  PROVE  Reporting'
<1>1. Reporting /\ \A u \in Threads \ {t} : stack'[u] = stack[u]
  BY DEF Good, HInv, Returned, Others
<1>2. ASSUME NEW i \in 1 .. Len(stack'[t]), stack'[t][i] \in {"error", "phase3", "told"}
      PROVE  i < Len(stack'[t]) \/ err'.aborting
  <2>1. Len(stack'[t]) = Len(stack[t]) - 1 /\ Len(stack[t]) \in Nat
    <3>1. stack[t] \in Seq(Labels)
      BY DEF Returned
    <3> QED
      BY <3>1 DEF Returned
  <2>2. i + 1 \in 1 .. Len(stack[t]) /\ stack'[t][i] = stack[t][i + 1]
    BY <2>1 DEF Returned
  <2>3. i + 1 < Len(stack[t]) \/ err.aborting
    BY <1>1, <1>2, <2>2 DEF Reporting
  <2> QED
    BY <2>1, <2>2, <2>3
<1> QED
  BY <1>1, <1>2 DEF Reporting

LEMMA CallReporting ==
  ASSUME Good, NEW t \in Threads, NEW l, NEW m \in Returns, Called(t, l, m), err.aborting => err'.aborting,
         m = "told" => stack[t][1] = "phase3"
  PROVE  Reporting'
<1>1. Reporting /\ \A u \in Threads \ {t} : stack'[u] = stack[u]
  BY DEF Good, HInv, Called, Others
<1>2. ASSUME NEW i \in 1 .. Len(stack'[t]), stack'[t][i] \in {"error", "phase3", "told"}
      PROVE  i < Len(stack'[t]) \/ err'.aborting
  <2>1. Len(stack'[t]) = Len(stack[t]) + 1 /\ Len(stack[t]) \in Nat /\ Len(stack[t]) >= 1 /\ stack'[t][2] = m
    <3>1. stack[t] \in Seq(Labels)
      BY DEF Called
    <3> QED
      BY <3>1 DEF Called
  <2>2. CASE i = 1
    BY <2>1, <2>2
  <2>3. CASE i = 2
    <3>2. CASE m = "told"
      <4>1. 1 < Len(stack[t]) \/ err.aborting
        BY <1>1, <2>1, <3>2 DEF Reporting
      <4> QED
        BY <2>1, <2>3, <4>1
    <3>3. CASE m # "told"
      BY <1>2, <2>1, <2>3, <3>3 DEF Returns
    <3> QED
      BY <3>2, <3>3
  <2>4. CASE i > 2
    <3>1. i - 1 \in 2 .. Len(stack[t]) /\ stack'[t][(i - 1) + 1] = stack[t][i - 1] /\ (i - 1) + 1 = i
      BY <2>1, <2>4 DEF Called
    <3>2. i - 1 < Len(stack[t]) \/ err.aborting
      BY <1>1, <1>2, <3>1 DEF Reporting
    <3> QED
      BY <2>1, <3>1, <3>2
  <2> QED
    BY <2>1, <2>2, <2>3, <2>4
<1> QED
  BY <1>1, <1>2 DEF Reporting

LEMMA FramePut ==
  ASSUME Good, NEW t \in Threads, Others(t), opt' = opt, lock'["put"] = lock["put"],
         ~(Len(stack'[t]) > 0 /\ stack'[t][1] = "fill"),
         t = "map" /\ Len(stack'[t]) > 0 /\ stack'[t][1] = "full" => opt.messages = 0
  PROVE  PutKept'
<1>1. \A u \in Threads : Len(stack'[u]) > 0 /\ stack'[u][1] \in {"fill"} => lock'["put"] = u
  BY DEF Good, HInv, PutKept, Is, Others
<1>2. opt'.messages > 0 => ~(Len(stack'["map"]) > 0 /\ stack'["map"][1] \in {"full"})
  <2>1. opt.messages \in Nat
    BY OptTypes DEF Good, TInv
  <2> QED
    BY <2>1, ThreadFacts DEF Good, HInv, PutKept, Is, Others
<1> QED
  BY <1>1, <1>2 DEF PutKept, Is

(* While no error is counted: a step of t that changes no flag, takes only  *)
(* a free PUT_DATA_SEM, and loses the map only if nobody else has it.       *)
SmallStep(t) ==
  /\ Others(t) /\ opt' = opt
  /\ err'.critical = err.critical /\ err'.noCancel = err.noCancel
  /\ lock'["put"] = lock["put"] \/ lock["put"] = None
  /\ stack[t] # << >>
  /\ err'.aborting = err.aborting \/ (err'.aborting /\ opt.messages > 0 => Is("main", {"error"})')
  /\ ~Is(t, {"error"})
  /\ Is(t, {"errabort"}) => Is(t, {"errabort", "error"})'
  /\ Telling(t)' => t = "main" /\ opt.messages > 0 /\ Warning'
  /\ Is(t, Losing)' => Is(t, Losing) \/ (t = "main" /\ MapOut) \/ (t = "map" /\ lock["put"] = "map") \/ t \in Readers
  /\ Is(t, {"abort"})' => err.noCancel
  /\ ~Is(t, {"delete"})'

LEMMA CountedStep ==
  ASSUME Good, NEW t \in Threads, err.count = 0, SmallStep(t)
  PROVE  Counted'
<1>1. Counted /\ opt' = opt /\ Others(t) /\ stack[t] # << >>
  BY DEF Good, HInv, SmallStep
<1>2. \A u \in Threads : Telling(u)' => u = "main" /\ opt'.messages > 0 /\ Warning'
  <2> SUFFICES ASSUME NEW u \in Threads, Telling(u)' PROVE u = "main" /\ opt'.messages > 0 /\ Warning'
    OBVIOUS
  <2>1. CASE u = t
    BY <2>1 DEF SmallStep
  <2>2. CASE u # t
    <3>1. stack'[u] = stack[u]
      BY <1>1, <2>2 DEF Others
    <3>2. Telling(u)
      BY <3>1 DEF Telling, Is
    <3>3. u = "main" /\ opt.messages > 0 /\ Warning
      BY <1>1, <3>2 DEF Counted
    <3> QED
      BY <1>1, <3>1, <3>3 DEF Warning
  <2> QED
    BY <2>1, <2>2
<1>3. err'.aborting /\ opt'.messages > 0 => Is("main", {"error"})'
  <2>1. CASE err'.aborting = err.aborting
    BY <1>1, <2>1, ThreadFacts DEF SmallStep, Counted, Others, Is
  <2>2. CASE err'.aborting /\ opt.messages > 0 => Is("main", {"error"})'
    BY <1>1, <2>2
  <2> QED
    BY <2>1, <2>2 DEF SmallStep
<1>4. MapOut => MapOut'
  <2>1. None # "main"
    BY EndAssumption, ThreadFacts
  <2> QED
    BY <1>1, <2>1, ThreadFacts DEF SmallStep, MapOut, Others
<1>5. MapOut => t # "map" \/ lock["put"] = "main"
  BY <1>1 DEF MapOut
<1>6. lock["put"] = "map" => lock'["put"] = "map"
  BY EndAssumption, ThreadFacts DEF SmallStep
<1>7. Is("main", Losing) => MapOut /\ ~Is("map", Losing)
  BY <1>1 DEF Counted
<1>8. Is("map", Losing) => lock["put"] = "map"
  BY <1>1 DEF Counted
<1>9. MapOut => ~Is("map", Losing) /\ ~(Is("map", {"errabort", "error"}) /\ lock["put"] = "map")
  <2>1. stack["map"] = << >> => ~Is("map", Losing) /\ ~Is("map", {"errabort", "error"})
    BY DEF Is
  <2> QED
    BY <1>8, <2>1, ThreadFacts DEF MapOut
<1>10. Is("map", Losing)' => lock'["put"] = "map"
  <2>1. CASE t = "map"
    BY <1>6, <1>8, <2>1, ThreadFacts DEF SmallStep
  <2>2. CASE t # "map"
    BY <1>1, <1>6, <1>8, <2>2, ThreadFacts DEF Others, Is
  <2> QED
    BY <2>1, <2>2
<1>11. Is("main", Losing)' => MapOut
  <2>1. CASE t = "main"
    BY <1>7, <2>1, ThreadFacts DEF SmallStep
  <2>2. CASE t # "main"
    BY <1>1, <1>7, <2>2, ThreadFacts DEF Others, Is
  <2> QED
    BY <2>1, <2>2
<1>12. MapOut => ~Is("map", Losing)'
  <2> SUFFICES ASSUME MapOut PROVE ~Is("map", Losing)'
    OBVIOUS
  <2>1. CASE t = "map"
    BY <1>5, <1>9, <2>1, ThreadFacts DEF SmallStep
  <2>2. CASE t # "map"
    BY <1>1, <1>9, <2>2, ThreadFacts DEF Others, Is
  <2> QED
    BY <2>1, <2>2
<1>13. err'.critical => \/ Is("map", {"errabort", "error"})' /\ lock'["put"] = "map" /\ ~Is("main", Losing)'
                        \/ Is("main", {"errabort", "error"})' /\ MapOut' /\ ~Is("map", Losing)'
  <2> SUFFICES ASSUME err'.critical
      PROVE  \/ Is("map", {"errabort", "error"})' /\ lock'["put"] = "map" /\ ~Is("main", Losing)'
             \/ Is("main", {"errabort", "error"})' /\ MapOut' /\ ~Is("map", Losing)'
    OBVIOUS
  <2>1. err.critical
    BY DEF SmallStep
  <2>2. ASSUME NEW u \in {"main", "map"}, Is(u, {"errabort", "error"}) PROVE Is(u, {"errabort", "error"})'
    <3>1. CASE u = t
      BY <2>2, <3>1 DEF SmallStep, Is
    <3>2. CASE u # t
      BY <1>1, <2>2, <3>2, ThreadFacts DEF Others, Is
    <3> QED
      BY <3>1, <3>2
  <2>3. CASE Is("map", {"errabort", "error"}) /\ lock["put"] = "map" /\ ~Is("main", Losing)
    BY <1>6, <1>9, <1>11, <2>2, <2>3
  <2>4. CASE Is("main", {"errabort", "error"}) /\ MapOut /\ ~Is("map", Losing)
    BY <1>4, <1>12, <2>2, <2>4
  <2> QED
    BY <1>1, <2>1, <2>3, <2>4 DEF Counted
<1>14. \A u \in Threads : Is(u, {"abort"})' => err'.noCancel
  BY <1>1 DEF Counted, SmallStep, Others, Is
<1>15. \A u \in Threads : ~Is(u, {"delete"})'
  BY <1>1 DEF Counted, SmallStep, Others, Is
<1> QED
  BY <1>2, <1>3, <1>4, <1>10, <1>11, <1>12, <1>13, <1>14, <1>15 DEF Counted

-----------------------------------------------------------------------------
LEMMA EndTypeNext == EndTypeOK /\ [Next]_vars => EndTypeOK'
<1> SUFFICES ASSUME EndTypeOK, [Next]_vars PROVE EndTypeOK'
  OBVIOUS
<1>1. CASE UNCHANGED vars
  BY <1>1 DEF EndTypeOK, vars
<1>2. ASSUME NEW t \in Threads, Routines(t) PROVE EndTypeOK'
  <2>1. ASSUME NEW s \in Nat, status' = [status EXCEPT ![t] = s] PROVE status' \in [Threads -> Nat]
    BY <2>1 DEF EndTypeOK
  <2>2. ASSUME UNCHANGED <<err, map, lock, said>>,
               status' = status \/ status' = [status EXCEPT ![t] = 0] \/ status' = [status EXCEPT ![t] = err.count]
        PROVE  EndTypeOK'
    BY <2>1, <2>2 DEF EndTypeOK
  <2>3. ASSUME NEW l \in {"error", "put", "aborter"}, NEW h, UNCHANGED <<map, status, said>>,
               lock' = [lock EXCEPT ![l] = h] \/ lock' = lock,
               err' = err \/ err' = [err EXCEPT !.count = err.count] \/ err' = [err EXCEPT !.count = err.count + 1]
        PROVE  EndTypeOK'
    BY <2>3 DEF EndTypeOK
  <2>4. CASE Abort(t) \/ DeleteExe(t) \/ Faulted(t) \/ ErrorPhase3(t)
    BY <2>2, <2>4 DEF Abort, DeleteExe, Faulted, ErrorPhase3, ConsoleFails, kept
  <2>5. CASE Exit(t) \/ Notify(t)
    BY <2>3, <2>5 DEF Exit, Notify, Take, kept
  <2>6. CASE ErrorStart(t) \/ ErrorEnds(t) \/ TerrReport(t)
    <3>1. UNCHANGED <<map, status, said>>
      BY <2>6 DEF ErrorStart, ErrorEnds, TerrReport, kept
    <3>2. err' = err \/ err' = [err EXCEPT !.count = err.count] \/ err' = [err EXCEPT !.count = err.count + 1]
      BY <2>6 DEF ErrorStart, ErrorEnds, TerrReport, kept, EndTypeOK
    <3>3. lock' = lock \/ lock' = [lock EXCEPT !["error"] = t] \/ lock' = [lock EXCEPT !["error"] = None]
      BY <2>6 DEF ErrorStart, ErrorEnds, TerrReport, Take, Release, kept
    <3> QED
      BY <2>3, <3>1, <3>2, <3>3
  <2>7. CASE Fault(t) \/ ErrAbort(t) \/ DosFail(t)
    BY <2>2, <2>7 DEF Fault, ErrAbort, DosFail, kept
  <2>8. CASE LstOut(t) \/ PutData(t)
    <3>1. UNCHANGED <<map, status, err, said>>
      BY <2>8 DEF LstOut, PutData, kept
    <3>2. lock' = lock \/ lock' = [lock EXCEPT !["put"] = t] \/ lock' = [lock EXCEPT !["put"] = None]
      BY <2>8 DEF LstOut, PutData, Take, Release
    <3> QED
      BY <2>3, <3>1, <3>2
  <2>9. CASE TerrAbort(t)
    BY <2>9 DEF TerrAbort, kept, EndTypeOK
  <2>10. CASE DiskFull(t)
    BY <2>10 DEF DiskFull, kept, EndTypeOK
  <2>11. CASE FlushDisable(t)
    BY <2>11 DEF FlushDisable, kept, EndTypeOK
  <2>12. CASE MapOff(t)
    BY <2>12 DEF MapOff, kept, EndTypeOK
  <2>13. CASE Critical(t)
    BY <2>13 DEF Critical, kept, EndTypeOK
  <2> QED
    BY <1>2, <2>4, <2>5, <2>6, <2>7, <2>8, <2>9, <2>10, <2>11, <2>12, <2>13 DEF Routines
<1>3. ASSUME NEW t \in Readers, Read(t) PROVE EndTypeOK'
  BY <1>3 DEF Read, kept, EndTypeOK
<1>4. CASE MapStep
  BY <1>4 DEF MapStep, Gate, PrintStage, Printed, kept, EndTypeOK
<1>5. CASE FlushMap
  BY <1>5 DEF FlushMap, EndTypeOK
<1>6. CASE Leave
  BY <1>6 DEF Leave, kept, EndTypeOK
<1>7. CASE Pass1 \/ Message \/ BadObject \/ CreateMapThread \/ AdjustFlags \/ Allow \/ WriteExe \/ Unuse \/ JoinMap
  BY <1>7 DEF Pass1, Message, BadObject, CreateMapThread, AdjustFlags, Allow, WriteExe, Unuse, JoinMap, rest, kept, EndTypeOK
<1> QED
  BY <1>1, <1>2, <1>3, <1>4, <1>5, <1>6, <1>7 DEF Next, ThreadStep, MainStep

(* A routine that fails, or goes on, in the same call.                     *)
Doing == {"main", "read", "print", "fault", "put", "fill", "lost", "flush", "mapoff", "critical"}
Onward == {"fill", "fault", "faulted", "errabort"} \cup Losing

LEMMA TellingGoto ==
  ASSUME Good, err.count = 0, NEW t \in Threads, NEW a \in Doing, At(t, a), opt' = opt,
         NEW l \in Onward \cup {"full"}, Replaced(t, l),
         l = "full" => opt.messages = 0 \/ a = "main"
  PROVE  Telling(t)' => t = "main" /\ opt.messages > 0 /\ Warning'
<1> SUFFICES ASSUME Telling(t)' PROVE t = "main" /\ opt.messages > 0 /\ Warning'
  OBVIOUS
<1>1. stack[t] \in Seq(Labels) /\ Len(stack[t]) >= 1 /\ stack[t][1] = a
  BY AtIs DEF Good
<1>2. stack'[t][1] = l /\ l \notin {"phase3", "told"} /\ Len(stack'[t]) = Len(stack[t])
  BY DEF Replaced, Onward, Losing
<1>3. PICK i \in 1 .. Len(stack'[t]) : stack'[t][i] = "told"
  BY <1>2 DEF Telling, Is
<1>4. i \in 2 .. Len(stack[t]) /\ stack[t][i] = "told"
  BY <1>1, <1>2, <1>3 DEF Replaced
<1>5. Telling(t) /\ Counted
  BY <1>1, <1>4 DEF Telling, Good, HInv
<1>6. t = "main" /\ opt.messages > 0 /\ Warning
  BY <1>5 DEF Counted
<1>7. opt.messages \in Nat
  BY OptTypes DEF Good, TInv
<1>8. a \notin Outermost
  BY <1>1, <1>4 DEF Good, TInv, StacksOK
<1>9. l \in Onward
  BY <1>6, <1>7, <1>8 DEF Outermost
<1>10. Len(stack[t]) = 3 /\ stack[t][2] = "told" /\ stack[t][3] = "main"
  BY <1>1, <1>4, <1>6, <1>8 DEF Warning, Doing
<1>11. Len(stack'[t]) = 3 /\ stack'[t][1] = l /\ stack'[t][2] = "told" /\ stack'[t][3] = "main"
  BY <1>2, <1>10 DEF Replaced
<1> QED
  BY <1>6, <1>9, <1>11 DEF Warning, Onward

LEMMA OnwardLabels == Onward \cup {"full"} \subseteq ErrorLabels /\ Onward \cup {"full"} \subseteq Labels \ Outermost
  BY DEF Onward, Losing, ErrorLabels, Labels, Outermost

(* Where a thread is, and what cannot be there.                            *)
LEMMA WhereAt ==
  ASSUME Good, NEW t \in Threads, NEW a, At(t, a)
  PROVE  /\ t \in Readers => a \in ReaderLabels
         /\ t = "map" => a \in ErrorLabels \cup {"gate", "print", "printed"}
         /\ t = "main" => a \in ErrorLabels \cup {"main", "warning"}
         /\ a \in {"main", "warning"} => t = "main"
         /\ a \in Outermost => Len(stack[t]) = 1
<1>1. stack[t] # << >> /\ stack[t] \in Seq(Labels) /\ Len(stack[t]) >= 1 /\ stack[t][1] = a
  BY AtIs DEF Good
<1>2. /\ t \in Readers => a \in ReaderLabels
      /\ t = "map" => a \in ErrorLabels \cup {"gate", "print", "printed"}
      /\ t = "main" => a \in ErrorLabels \cup {"main", "warning"}
  <2>1. LabelsOK /\ 1 \in 1 .. Len(stack[t])
    BY <1>1 DEF Good, HInv
  <2>2. t \in Readers => a \in ReaderLabels
    BY <1>1, <2>1 DEF LabelsOK, Is, ReaderLabels
  <2>3. /\ t = "map" => a \in ErrorLabels \cup {"gate", "print", "printed"}
        /\ t = "main" => a \in ErrorLabels \cup {"main", "warning"}
    BY <1>1, <2>1 DEF LabelsOK
  <2> QED
    BY <2>2, <2>3
<1>3. a \in Outermost => Len(stack[t]) = 1
  <2>1. StacksOK /\ 1 \in 1 .. Len(stack[t])
    BY <1>1 DEF Good, TInv
  <2>2. stack[t][1] \in Outermost => 1 = Len(stack[t])
    BY <2>1 DEF StacksOK
  <2> QED
    BY <1>1, <2>2
<1> QED
  BY <1>2, <1>3, ThreadFacts DEF ReaderLabels, ErrorLabels

(* What every step within one call keeps, Counted apart.                   *)
LEMMA DoomKept ==
  ASSUME Good, NEW t \in Threads, NEW a, At(t, a), NEW l, Replaced(t, l), a \notin Doom,
         err.aborting => err'.aborting, a \in {"error", "phase3", "told"} => l \in {"error", "phase3", "told"}
  PROVE  Doomed(t) => Doomed(t)'
<1> SUFFICES ASSUME Doomed(t) PROVE Doomed(t)'
  OBVIOUS
<1>1. stack[t][1] = a /\ Len(stack[t]) >= 1 /\ Len(stack[t]) \in Nat
  <2>1. stack[t][1] = a /\ Len(stack[t]) >= 1 /\ stack[t] \in Seq(Labels)
    BY AtIs DEF Good
  <2> QED
    BY <2>1
<1>2. stack'[t][1] = l /\ Len(stack'[t]) = Len(stack[t])
  BY DEF Replaced
<1>3. CASE \E i \in 1 .. Len(stack[t]) : stack[t][i] \in Doom
  <2>1. PICK i \in 1 .. Len(stack[t]) : stack[t][i] \in Doom
    BY <1>3
  <2>2. i \in 2 .. Len(stack[t])
    BY <1>1, <2>1
  <2>3. stack'[t][i] \in Doom /\ i \in 1 .. Len(stack'[t])
    BY <1>2, <2>1, <2>2 DEF Replaced
  <2> QED
    BY <2>3 DEF Doomed
<1>4. CASE err.aborting /\ Is(t, {"error", "phase3", "told"})
  <2>1. Is(t, {"error", "phase3", "told"})'
    BY <1>1, <1>2, <1>4 DEF Is
  <2> QED
    BY <1>4, <2>1 DEF Doomed
<1> QED
  BY <1>3, <1>4 DEF Doomed

LEMMA GotoFrames ==
  ASSUME Good, NEW t \in Threads, NEW a \in Labels \ {"abort", "delete", "exit"}, At(t, a),
         NEW l \in (ErrorLabels \cup {"report", "terr"}) \ {"put", "exit"}, Goto(t, l),
         UNCHANGED <<opt, plan, stages, exit, status>>,
         l \in {"report", "terr"} => t \in Readers, t \in Readers => l \in ReaderLabels,
         l = "fill" => a = "put",
         l \in {"error", "phase3", "told"} => err'.aborting \/ a \in {"error", "phase3"} \/ Len(stack[t]) >= 2,
         t = "map" /\ l = "full" => opt.messages = 0,
         err'.terr = err.terr \/ (err'.terr /\ t \in Readers), err'.noCancel = err.noCancel,
         err.aborting => err'.aborting, err'.aborting => err.aborting \/ ~map'.out,
         IF l = "fill" THEN lock["put"] = None /\ lock'["put"] = t ELSE lock'["put"] = lock["put"],
         map'.file = map.file \/ (map.file = "open" /\ map'.file = "closed"), map'.out => map.out,
         \/ l \in Doom
         \/ l = "error" /\ err'.aborting
         \/ failed' = failed /\ a \notin Doom /\ (a \in {"error", "phase3", "told"} => l \in {"error", "phase3", "told"})
  PROVE  /\ LabelsOK' /\ Reporting' /\ Passed' /\ StatusCounted' /\ PutKept' /\ FailureSeen' /\ Alone' /\ Told'
         /\ Replaced(t, l) /\ Others(t) /\ ~err.noCancel /\ stack'[t][1] = l /\ Len(stack'[t]) >= 1
<1>1. stack[t] # << >> /\ stack[t] \in Seq(Labels) /\ Len(stack[t]) >= 1 /\ stack[t][1] = a /\ exit = Running
  BY AtIs DEF Good
<1>2. Replaced(t, l) /\ Others(t)
  <2>1. l \in Labels \ Outermost
    BY DEF ErrorLabels, Labels, Outermost
  <2> QED
    BY <1>1, <2>1, GotoReplaced DEF Good, Replaced
<1>3. stack'[t][1] = l /\ Len(stack'[t]) >= 1 /\ stack'[t] # << >>
  BY <1>1, <1>2 DEF Replaced
<1>4. ~err.noCancel
  BY NotLeaving
<1>6. LabelsOK'
  BY <1>1, <1>2, GotoLabels
<1>12. Reporting'
  BY <1>1, <1>2, GotoReporting
<1>7. Passed'
  BY <1>1, <1>2, <1>3, FramePassed
<1>9. StatusCounted' /\ Alone' /\ Told'
  BY <1>1, <1>2, <1>3, <1>4, FrameEnd
<1>10. PutKept'
  <2>2. CASE l = "fill"
    <3>1. \A u \in Threads : Len(stack'[u]) > 0 /\ stack'[u][1] \in {"fill"} => lock'["put"] = u
      BY <1>2, <2>2, EndAssumption DEF Good, HInv, PutKept, Is, Others
    <3>2. opt'.messages > 0 => ~(Len(stack'["map"]) > 0 /\ stack'["map"][1] \in {"full"})
      BY <1>2, <1>3, <2>2, ThreadFacts DEF Good, HInv, PutKept, Is, Others
    <3> QED
      BY <3>1, <3>2 DEF PutKept, Is
  <2>3. CASE l # "fill"
    BY <1>2, <1>3, <2>3, FramePut
  <2> QED
    BY <2>2, <2>3
<1>11. FailureSeen'
  <2>1. CASE l \in Doom
    <3>1. Doomed(t)'
      BY <1>3, <2>1 DEF Doomed
    <3> QED
      BY <1>2, <3>1, FrameFailure
  <2>2. CASE l = "error" /\ err'.aborting
    <3>1. Is(t, {"error", "phase3", "told"})'
      BY <1>3, <2>2 DEF Is
    <3>2. Doomed(t)'
      BY <2>2, <3>1 DEF Doomed
    <3> QED
      BY <1>2, <3>2, FrameFailure
  <2>3. CASE failed' = failed /\ a \notin Doom /\ (a \in {"error", "phase3", "told"} => l \in {"error", "phase3", "told"})
    BY <1>2, <2>3, DoomKept, FrameFailure
  <2> QED
    BY <2>1, <2>2, <2>3
<1> QED
  BY <1>1, <1>2, <1>3, <1>4, <1>6, <1>7, <1>9, <1>10, <1>11, <1>12

LEMMA GotoEnd ==
  ASSUME Good, NEW t \in Threads, NEW a \in Doing, At(t, a), NEW l \in Onward \cup {"full"}, Goto(t, l),
         UNCHANGED <<opt, plan, stages, exit, status, err>>,
         l \in {"fill"} <=> a = "put",
         a \in {"read", "fault"} => l \in {"fault", "faulted"},
         l = "full" => opt.messages = 0 \/ a = "main",
         l \in Losing => a \in Losing \/ (t = "main" /\ MapOut) \/ (t = "map" /\ lock["put"] = "map"),
         IF l = "fill" THEN lock["put"] = None /\ lock'["put"] = t ELSE lock'["put"] = lock["put"],
         map'.file = map.file \/ (map.file = "open" /\ map'.file = "closed"), map'.out => map.out,
         failed' = failed \/ l \in Doom
  PROVE  HInv'
<1>1. t \in Readers => a \in {"read", "fault"}
  BY WhereAt DEF Doing, ReaderLabels
<1>2. a \in Labels \ {"abort", "delete", "exit"} /\ l \in (ErrorLabels \cup {"report", "terr"}) \ {"put", "exit"}
      /\ l \notin {"report", "terr", "error", "phase3", "told"}
  BY DEF Doing, Labels, Onward, Losing, ErrorLabels
<1>3. t \in Readers => l \in ReaderLabels
  BY <1>1 DEF ReaderLabels
<1>4. t = "map" /\ l = "full" => opt.messages = 0
  BY WhereAt, ThreadFacts
<1>5. l \in Doom \/ (failed' = failed /\ a \notin Doom /\ (a \in {"error", "phase3", "told"} => l \in {"error", "phase3", "told"}))
  BY DEF Onward, Losing, Doom
<1>6. /\ LabelsOK' /\ Reporting' /\ Passed' /\ StatusCounted' /\ PutKept' /\ FailureSeen' /\ Alone' /\ Told'
      /\ Replaced(t, l) /\ Others(t) /\ ~err.noCancel /\ stack'[t][1] = l /\ Len(stack'[t]) >= 1
  BY <1>2, <1>3, <1>4, <1>5, GotoFrames
<1>7. Counted'
  <2>1. CASE err.count = 0
    <3>1. Telling(t)' => t = "main" /\ opt.messages > 0 /\ Warning'
      BY <1>6, <2>1, TellingGoto
    <3>2. a \notin {"error", "errabort"} /\ l \notin {"abort", "delete"}
      BY DEF Doing, Onward, Losing
    <3>3. stack[t] # << >> /\ Len(stack[t]) >= 1 /\ stack[t][1] = a
      BY AtIs DEF Good
    <3>4. Is(t, Losing)' => Is(t, Losing) \/ (t = "main" /\ MapOut) \/ (t = "map" /\ lock["put"] = "map") \/ t \in Readers
      BY <1>6, <3>3 DEF Is
    <3>5. ~Is(t, {"error"}) /\ ~Is(t, {"errabort"}) /\ ~Is(t, {"abort"})' /\ ~Is(t, {"delete"})'
      BY <1>6, <3>2, <3>3 DEF Is
    <3> QED
      BY <1>6, <2>1, <3>1, <3>3, <3>4, <3>5, CountedStep DEF SmallStep
  <2>2. CASE err.count # 0
    BY <2>2 DEF Counted
  <2> QED
    BY <2>1, <2>2
<1> QED
  BY <1>6, <1>7 DEF HInv

LEMMA FaultEnd == ASSUME Good, NEW t \in Threads, Fault(t) PROVE HInv'
<1>1. PICK a \in {"main", "read", "print"} : At(t, a)
  BY DEF Fault
<1>2. a \in Doing /\ "fault" \in Onward /\ "fault" \in Doom /\ "fault" \notin Losing
  BY DEF Doing, Onward, Doom, Losing
<1> QED
  BY <1>1, <1>2, GotoEnd DEF Fault, kept

LEMMA NotifyEnd == ASSUME Good, NEW t \in Threads, Notify(t) PROVE HInv'
<1>1. "fault" \in Doing /\ "faulted" \in Onward /\ "faulted" \notin Losing
  BY DEF Doing, Onward, Losing
<1>2. lock'["put"] = lock["put"]
  BY DEF Notify, Take, Good, EndTypeOK
<1> QED
  BY <1>1, <1>2, GotoEnd DEF Notify, kept

LEMMA LstOutEnd == ASSUME Good, NEW t \in Threads, LstOut(t) PROVE HInv'
<1>1. "put" \in Doing /\ "fill" \in Onward /\ "fill" \notin Losing
  BY DEF Doing, Onward, Losing
<1>2. lock["put"] = None /\ lock'["put"] = t
  BY DEF LstOut, Take, Good, EndTypeOK
<1> QED
  BY <1>1, <1>2, GotoEnd DEF LstOut, kept

LEMMA DosFailEnd == ASSUME Good, NEW t \in Threads, DosFail(t) PROVE HInv'
<1>1. "lost" \in Doing /\ {"mapoff", "flush"} \subseteq Onward /\ "lost" \in Losing
  BY DEF Doing, Onward, Losing
<1>2. PICK l \in {"mapoff", "flush"} : Goto(t, l)
  BY DEF DosFail
<1> QED
  BY <1>1, <1>2, GotoEnd DEF DosFail, kept

(* A write that fails for want of room: then there was no message of main.  *)
LEMMA FailsMap ==
  ASSUME Good, NEW t, WriteFails(t, "map")
  PROVE  \E l \in {"lost", "full"} : Goto(t, l) /\ (l = "full" => opt.messages = 0)
  BY DEF Good, Supposed, WriteFails, Fails, Full

LEMMA FlushDisableEnd == ASSUME Good, NEW t \in Threads, FlushDisable(t) PROVE HInv'
<1>1. "flush" \in Doing /\ {"mapoff", "lost", "full"} \subseteq Onward \cup {"full"} /\ "flush" \in Losing
      /\ {"lost", "full"} \subseteq Doom /\ "full" \notin Onward
  BY DEF Doing, Onward, Losing, Doom
<1>2. DOMAIN map = {"out", "flushed", "file"}
  BY DEF Good, EndTypeOK
<1>3. CASE Goto(t, "mapoff") /\ failed' = failed /\ map' = [map EXCEPT !.flushed = TRUE, !.file = IF @ = "open" THEN "closed" ELSE @]
  <2>1. map'.out = map.out /\ map'.file = IF map.file = "open" THEN "closed" ELSE map.file
    BY <1>2, <1>3
  <2> QED
    BY <1>1, <1>3, <2>1, GotoEnd DEF FlushDisable, kept
<1>4. CASE WriteFails(t, "map") /\ map' = [map EXCEPT !.flushed = TRUE]
  <2>1. map'.out = map.out /\ map'.file = map.file
    BY <1>2, <1>4
  <2>2. PICK l \in {"lost", "full"} : Goto(t, l) /\ (l = "full" => opt.messages = 0)
    BY <1>4, FailsMap
  <2> QED
    BY <1>1, <2>1, <2>2, GotoEnd DEF FlushDisable, kept
<1> QED
  BY <1>3, <1>4 DEF FlushDisable

LEMMA BadObjectEnd == ASSUME Good, BadObject PROVE HInv'
<1>1. "main" \in Doing /\ "errabort" \in Onward /\ "errabort" \in Doom /\ "errabort" \notin Losing /\ "main" \in Threads
  BY ThreadFacts DEF Doing, Onward, Losing, Doom
<1> QED
  BY <1>1, GotoEnd DEF BadObject, Main, kept

LEMMA PrintFault ==
  ASSUME Good, At("map", "print"), Goto("map", "fault"), UNCHANGED <<kept, lock, err, map, table, exe, status>>
  PROVE  HInv'
<1>1. "print" \in Doing /\ "fault" \in Onward /\ "fault" \in Doom /\ "fault" \notin Losing /\ "map" \in Threads
  BY ThreadFacts DEF Doing, Onward, Losing, Doom
<1> QED
  BY <1>1, GotoEnd DEF kept

(* A thread that goes to _abort when an error is counted.                  *)
LEMMA AbortCounted ==
  ASSUME Good, NEW t \in Threads, NEW a \in Labels \ {"abort", "delete", "exit"}, At(t, a), Goto(t, "abort"),
         UNCHANGED <<opt, plan, stages, exit, status>>, err'.count > 0,
         err'.terr = err.terr, err'.noCancel = err.noCancel, err'.aborting = err.aborting,
         lock'["put"] = lock["put"], map'.file = map.file, map'.out => map.out
  PROVE  HInv'
<1>1. "abort" \in (ErrorLabels \cup {"report", "terr"}) \ {"put", "exit"} /\ "abort" \in Doom /\ "abort" \in ReaderLabels
  BY DEF ErrorLabels, Doom, ReaderLabels
<1>2. LabelsOK' /\ Reporting' /\ Passed' /\ StatusCounted' /\ PutKept' /\ FailureSeen' /\ Alone' /\ Told'
  BY <1>1, GotoFrames
<1>3. Counted'
  BY DEF Counted
<1> QED
  BY <1>2, <1>3 DEF HInv

LEMMA MapOffEnd == ASSUME Good, NEW t \in Threads, MapOff(t) PROVE HInv'
<1>1. map'.out = FALSE /\ map'.file = map.file
  BY DEF MapOff, Good, EndTypeOK
<1>2. CASE err.critical
  <2>1. stack[t] # << >> /\ Len(stack[t]) >= 1 /\ stack[t][1] = "mapoff"
    BY <1>2, AtIs DEF Good, MapOff
  <2>2. t \in {"main", "map"}
    BY WhereAt, ThreadFacts DEF MapOff, ReaderLabels
  <2>3. Is(t, Losing) /\ ~Is(t, {"errabort", "error"})
    BY <2>1 DEF Is, Losing
  <2>4. err.count # 0
    <3> SUFFICES ASSUME err.count = 0 PROVE FALSE
      OBVIOUS
    <3>1. \/ Is("map", {"errabort", "error"}) /\ lock["put"] = "map" /\ ~Is("main", Losing)
          \/ Is("main", {"errabort", "error"}) /\ MapOut /\ ~Is("map", Losing)
      BY <1>2 DEF Good, HInv, Counted
    <3> QED
      BY <2>2, <2>3, <3>1
  <2>5. err'.count > 0
    BY <2>4 DEF MapOff, Good, EndTypeOK
  <2>6. "mapoff" \in Labels \ {"abort", "delete", "exit"}
    BY DEF Labels
  <2> QED
    BY <1>1, <1>2, <2>5, <2>6, AbortCounted DEF MapOff, kept
<1>3. CASE ~err.critical
  <2>1. "mapoff" \in Doing /\ "critical" \in Onward /\ "mapoff" \in Losing
    BY DEF Doing, Onward, Losing
  <2> QED
    BY <1>1, <1>3, <2>1, GotoEnd DEF MapOff, kept
<1> QED
  BY <1>2, <1>3

LEMMA CriticalEnd == ASSUME Good, NEW t \in Threads, Critical(t) PROVE HInv'
<1>1. /\ DOMAIN err = {"count", "aborting", "critical", "terr", "noCancel"} /\ err.count \in Nat
      /\ err' = [err EXCEPT !.critical = TRUE] /\ At(t, "critical")
  BY DEF Critical, Good, EndTypeOK
<1>2. err'.count = err.count /\ err'.aborting = err.aborting /\ err'.critical /\ err'.terr = err.terr /\ err'.noCancel = err.noCancel
  BY <1>1
<1>3. t \in {"main", "map"}
  BY WhereAt, ThreadFacts DEF Critical, ReaderLabels
<1>4. /\ "critical" \in Labels \ {"abort", "delete", "exit"} /\ "errabort" \in (ErrorLabels \cup {"report", "terr"}) \ {"put", "exit"}
      /\ "errabort" \in Doom
  BY DEF Labels, ErrorLabels, Doom
<1>5. /\ LabelsOK' /\ Reporting' /\ Passed' /\ StatusCounted' /\ PutKept' /\ FailureSeen' /\ Alone' /\ Told'
      /\ Replaced(t, "errabort") /\ Others(t) /\ ~err.noCancel /\ stack'[t][1] = "errabort" /\ Len(stack'[t]) >= 1
  <2>1. t \notin Readers
    BY <1>3, ThreadFacts
  <2> QED
    BY <1>2, <1>4, <2>1, GotoFrames DEF Critical, kept
<1>6. Counted'
  <2> SUFFICES ASSUME err.count = 0 PROVE Counted'
    BY <1>2 DEF Counted
  <2>1. stack[t] # << >> /\ Len(stack[t]) >= 1 /\ stack[t][1] = "critical" /\ Counted
    BY AtIs DEF Good, Critical, HInv
  <2>2. Is(t, Losing) /\ Is(t, {"errabort", "error"})' /\ ~Is(t, Losing)' /\ ~Is(t, {"error"})'
    BY <1>5, <2>1 DEF Is, Losing
  <2>3. Telling(t)' => t = "main" /\ opt.messages > 0 /\ Warning'
    <3>1. "critical" \in Doing /\ "errabort" \in Onward
      BY DEF Doing, Onward
    <3> QED
      BY <1>1, <1>5, <3>1, TellingGoto DEF Critical, kept
  <2>4. \A u \in Threads \ {t} : stack'[u] = stack[u]
    BY <1>5 DEF Others
  <2>5. opt' = opt /\ lock' = lock
    BY DEF Critical, kept
  <2>6. \A u \in Threads : Telling(u)' => u = "main" /\ opt'.messages > 0 /\ Warning'
    <3> SUFFICES ASSUME NEW u \in Threads, u # t, Telling(u)' PROVE u = "main" /\ opt'.messages > 0 /\ Warning'
      BY <2>3, <2>5
    <3>1. stack'[u] = stack[u]
      BY <2>4
    <3>2. Telling(u)
      BY <3>1 DEF Telling, Is
    <3> QED
      BY <2>1, <2>5, <3>1, <3>2 DEF Counted, Warning
  <2>7. ~(err'.aborting /\ opt'.messages > 0) \/ Is("main", {"error"})'
    <3>1. err.aborting /\ opt.messages > 0 => Is("main", {"error"}) /\ t # "main"
      BY <2>1 DEF Counted, Is
    <3> QED
      BY <1>2, <2>4, <2>5, <3>1, ThreadFacts DEF Is
  <2>8. CASE t = "main"
    <3>1. MapOut /\ ~Is("map", Losing)
      BY <2>1, <2>2, <2>8 DEF Counted
    <3>2. stack'["map"] = stack["map"]
      BY <2>4, <2>8, ThreadFacts
    <3>3. MapOut' /\ ~Is("map", Losing)'
      BY <2>5, <3>1, <3>2 DEF MapOut, Is
    <3>4. Is("main", {"errabort", "error"})' /\ ~Is("main", Losing)'
      BY <2>2, <2>8
    <3>5. /\ \A u \in Threads : Is(u, {"abort"})' => err'.noCancel
          /\ \A u \in Threads : ~Is(u, {"delete"})'
      BY <1>2, <1>5, <2>1, <2>4 DEF Counted, Is
    <3> QED
      BY <2>6, <2>7, <3>3, <3>4, <3>5 DEF Counted
  <2>9. CASE t = "map"
    <3>1. lock'["put"] = "map" /\ lock["put"] = "map"
      BY <2>1, <2>2, <2>5, <2>9 DEF Counted
    <3>2. ~Is("main", Losing)
      BY <2>1, <2>2, <2>9, <3>1, ThreadFacts DEF Counted, MapOut
    <3>3. stack'["main"] = stack["main"]
      BY <2>4, <2>9, ThreadFacts
    <3>4. ~Is("main", Losing)'
      BY <3>2, <3>3 DEF Is
    <3>5. Is("map", {"errabort", "error"})' /\ ~Is("map", Losing)'
      BY <2>2, <2>9
    <3>6. /\ \A u \in Threads : Is(u, {"abort"})' => err'.noCancel
          /\ \A u \in Threads : ~Is(u, {"delete"})'
      BY <1>2, <1>5, <2>1, <2>4 DEF Counted, Is
    <3> QED
      BY <2>6, <2>7, <3>1, <3>4, <3>5, <3>6 DEF Counted
  <2> QED
    BY <1>3, <2>8, <2>9
<1> QED
  BY <1>5, <1>6 DEF HInv

LEMMA DiskFullEnd == ASSUME Good, NEW t \in Threads, DiskFull(t) PROVE HInv'
<1>1. /\ DOMAIN err = {"count", "aborting", "critical", "terr", "noCancel"} /\ err.count \in Nat
      /\ DOMAIN map = {"out", "flushed", "file"}
      /\ err' = [err EXCEPT !.aborting = TRUE] /\ map' = [map EXCEPT !.out = FALSE] /\ At(t, "full")
  BY DEF DiskFull, Good, EndTypeOK
<1>2. /\ err'.count = err.count /\ err'.aborting /\ err'.critical = err.critical /\ err'.terr = err.terr
      /\ err'.noCancel = err.noCancel /\ map'.file = map.file /\ ~map'.out
  BY <1>1
<1>3. t \in {"main", "map"}
  BY <1>1, WhereAt, ThreadFacts DEF ReaderLabels
<1>4. /\ "full" \in Labels \ {"abort", "delete", "exit"} /\ "error" \in (ErrorLabels \cup {"report", "terr"}) \ {"put", "exit"}
  BY DEF Labels, ErrorLabels
<1>5. /\ LabelsOK' /\ Reporting' /\ Passed' /\ StatusCounted' /\ PutKept' /\ FailureSeen' /\ Alone' /\ Told'
      /\ Replaced(t, "error") /\ Others(t) /\ ~err.noCancel /\ stack'[t][1] = "error" /\ Len(stack'[t]) >= 1
  <2>1. t \notin Readers
    BY <1>3, ThreadFacts
  <2> QED
    BY <1>2, <1>4, <2>1, GotoFrames DEF DiskFull, kept
<1>6. Counted'
  <2> SUFFICES ASSUME err.count = 0 PROVE Counted'
    BY <1>2 DEF Counted
  <2>1. stack[t] # << >> /\ stack[t] \in Seq(Labels) /\ Len(stack[t]) >= 1 /\ stack[t][1] = "full" /\ Counted
    BY AtIs DEF Good, DiskFull, HInv
  <2>2. ~Telling(t)'
    <3> SUFFICES ASSUME Telling(t)' PROVE FALSE
      OBVIOUS
    <3>1. PICK i \in 1 .. Len(stack'[t]) : stack'[t][i] = "told"
      BY <1>5 DEF Telling, Is
    <3>2. i \in 2 .. Len(stack[t]) /\ stack[t][i] = "told"
      BY <1>5, <2>1, <3>1 DEF Replaced
    <3>3. Telling(t)
      BY <2>1, <3>2 DEF Telling
    <3> QED
      BY <2>1, <3>3 DEF Counted, Warning, Losing
  <2>3. opt.messages > 0 => Is("main", {"error"})'
    <3>1. opt.messages > 0 => t = "main"
      BY <1>3, <2>1 DEF Good, HInv, PutKept, Is
    <3> QED
      BY <1>5, <3>1 DEF Is
  <2>4. ~Is(t, Losing)' /\ ~Is(t, {"error"}) /\ ~Is(t, {"errabort"}) /\ ~Is(t, {"abort"})' /\ ~Is(t, {"delete"})'
    BY <1>5, <2>1 DEF Is, Losing
  <2> QED
    BY <1>2, <1>5, <2>1, <2>2, <2>3, <2>4, CountedStep DEF SmallStep, DiskFull, kept
<1> QED
  BY <1>5, <1>6 DEF HInv

LEMMA PutFails ==
  ASSUME Good, NEW t \in Threads, At(t, "fill"), NEW l \in {"lost", "full", "fault"}, Goto(t, l),
         l = "full" => opt.messages = 0, UNCHANGED <<kept, lock, err, map, table, exe, status>>
  PROVE  HInv'
<1>1. "fill" \in Doing /\ l \in Onward \cup {"full"} /\ l \in Doom /\ "fault" \notin Losing /\ "full" \notin Losing
  BY DEF Doing, Onward, Losing, Doom
<1>2. t \in {"main", "map"}
  BY WhereAt, ThreadFacts DEF ReaderLabels
<1>3. lock["put"] = t
  <2>1. Is(t, {"fill"})
    BY AtIs DEF Good
  <2> QED
    BY <2>1 DEF Good, HInv, PutKept
<1>4. l \in Losing => (t = "main" /\ MapOut) \/ (t = "map" /\ lock["put"] = "map")
  BY <1>2, <1>3 DEF MapOut
<1> QED
  BY <1>1, <1>4, GotoEnd DEF kept

(* The end of a put: back where it came from, with PUT_DATA_SEM free.      *)
LEMMA PutReturns ==
  ASSUME Good, NEW t \in Threads, At(t, "fill"), Return(t), Release("put"), failed' = failed,
         UNCHANGED <<kept, err, map, table, exe, status>>
  PROVE  HInv'
<1>1. /\ stack[t] # << >> /\ stack[t] \in Seq(Labels) /\ Len(stack[t]) >= 1 /\ stack[t][1] = "fill" /\ exit = Running
      /\ Is(t, {"fill"})
  BY AtIs DEF Good
<1>2. t \in {"main", "map"}
  BY WhereAt, ThreadFacts DEF ReaderLabels
<1>3. Returned(t) /\ Others(t) /\ opt' = opt /\ map' = map /\ err' = err
  BY <1>1, ReturnReturned DEF Good, Returned, kept
<1>4. Len(stack[t]) >= 2 /\ stack[t][2] \in {"told", "printed"}
  <2>1. LabelsOK /\ Is(t, {"put", "fill"})
    BY <1>1 DEF Good, HInv, Is
  <2> QED
    BY <2>1 DEF LabelsOK
<1>5. Len(stack'[t]) >= 1 /\ stack'[t][1] = stack[t][2] /\ stack'[t] # << >> /\ stack'[t] \in Seq(Labels)
  BY <1>3, <1>4 DEF Returned
<1>6. lock["put"] = t /\ lock'["put"] = None /\ None # "map" /\ None # "main"
  BY <1>1, EndAssumption, ThreadFacts DEF Good, HInv, PutKept, Release, EndTypeOK
<1>7. ~err.noCancel
  BY NotLeaving
<1>8. LabelsOK' /\ Reporting'
  BY <1>2, <1>3, ReturnLabels, ReturnReporting
<1>9. Passed'
  BY <1>1, <1>2, <1>3, <1>5, FramePassed DEF kept
<1>10. StatusCounted' /\ Alone' /\ Told'
  BY <1>1, <1>3, <1>4, <1>5, <1>7, FrameEnd DEF kept
<1>11. PutKept'
  <2>1. \A u \in Threads : ~(Len(stack'[u]) > 0 /\ stack'[u][1] = "fill")
    <3> SUFFICES ASSUME NEW u \in Threads, Len(stack'[u]) > 0, stack'[u][1] = "fill" PROVE FALSE
      OBVIOUS
    <3>1. u # t /\ stack'[u] = stack[u]
      BY <1>3, <1>4, <1>5 DEF Others
    <3>2. lock["put"] = u
      BY <3>1 DEF Good, HInv, PutKept, Is
    <3> QED
      BY <1>6, <3>1, <3>2
  <2>2. ~(Len(stack'["map"]) > 0 /\ stack'["map"][1] = "full") \/ ~(opt.messages > 0)
    BY <1>3, <1>4, <1>5, ThreadFacts DEF Good, HInv, PutKept, Is, Others
  <2> QED
    BY <1>3, <2>1, <2>2 DEF PutKept, Is
<1>12. FailureSeen'
  <2>1. Doomed(t) => Doomed(t)'
    <3> SUFFICES ASSUME Doomed(t) PROVE Doomed(t)'
      OBVIOUS
    <3>1. PICK i \in 1 .. Len(stack[t]) : stack[t][i] \in Doom
      BY <1>1 DEF Doomed, Is
    <3>2. i \in 2 .. Len(stack[t])
      BY <1>1, <3>1 DEF Doom
    <3>3. i - 1 \in 1 .. Len(stack'[t]) /\ stack'[t][i - 1] = stack[t][(i - 1) + 1] /\ (i - 1) + 1 = i
      BY <1>1, <1>3, <3>2 DEF Returned
    <3>4. stack'[t][i - 1] \in Doom
      BY <3>1, <3>3
    <3> QED
      BY <3>3, <3>4 DEF Doomed
  <2> QED
    BY <1>3, <2>1, FrameFailure
<1>13. Counted'
  <2> SUFFICES ASSUME err.count = 0 PROVE Counted'
    BY <1>3 DEF Counted
  <2>1. Counted
    BY DEF Good, HInv
  <2>2. \A u \in Threads \ {t} : stack'[u] = stack[u]
    BY <1>3 DEF Others
  <2>3. Telling(t)' => t = "main" /\ opt.messages > 0 /\ Warning'
    <3> SUFFICES ASSUME Telling(t)' PROVE t = "main" /\ opt.messages > 0 /\ Warning'
      OBVIOUS
    <3>1. PICK i \in 1 .. Len(stack'[t]) : stack'[t][i] = "told"
      BY <1>4, <1>5 DEF Telling, Is
    <3>2. i + 1 \in 1 .. Len(stack[t]) /\ stack[t][i + 1] = "told"
      <4>1. /\ stack'[t][i] = stack[t][i + 1]
            /\ Len(stack'[t]) = Len(stack[t]) - 1 /\ Len(stack[t]) \in Nat
        BY <1>3 DEF Returned
      <4>2. i + 1 \in 1 .. Len(stack[t])
        BY <4>1
      <4> QED
        BY <3>1, <4>1, <4>2
    <3>3. Telling(t)
      BY <3>2 DEF Telling
    <3>4. t = "main" /\ opt.messages > 0 /\ Warning
      BY <2>1, <3>3 DEF Counted
    <3>5. Len(stack[t]) = 3 /\ stack[t][2] = "told" /\ stack[t][3] = "main"
      BY <1>1, <3>4 DEF Warning
    <3>6. Len(stack'[t]) = 2 /\ stack'[t][1] = "told" /\ stack'[t][2] = "main"
      BY <1>3, <3>5 DEF Returned
    <3> QED
      BY <3>4, <3>6 DEF Warning
  <2>4. \A u \in Threads : Telling(u)' => u = "main" /\ opt'.messages > 0 /\ Warning'
    <3> SUFFICES ASSUME NEW u \in Threads, u # t, Telling(u)' PROVE u = "main" /\ opt'.messages > 0 /\ Warning'
      BY <1>3, <2>3
    <3>1. stack'[u] = stack[u]
      BY <2>2
    <3>2. Telling(u)
      BY <3>1 DEF Telling, Is
    <3> QED
      BY <1>3, <2>1, <3>1, <3>2 DEF Counted, Warning
  <2>5. ~Is(t, Losing) /\ ~Is(t, {"errabort", "error"}) /\ ~Is(t, Losing)' /\ ~Is(t, {"abort", "delete"})'
    BY <1>1, <1>4, <1>5 DEF Is, Losing
  <2>6. ~err.critical /\ (err.aborting /\ opt.messages > 0 => Is("main", {"error"}) /\ t # "main")
        /\ (Is("main", Losing) => stack["map"] = << >> /\ t # "main")
        /\ ~Is("map", Losing)
    <3>1. CASE t = "main"
      BY <1>6, <2>1, <2>5, <3>1, ThreadFacts DEF Counted, Is
    <3>2. CASE t = "map"
      BY <1>1, <1>6, <2>1, <2>5, <3>2, ThreadFacts DEF Counted, Is, MapOut
    <3> QED
      BY <1>2, <3>1, <3>2
  <2>7. ~Is("map", Losing)' /\ (Is("main", Losing)' => stack'["map"] = << >>)
        /\ (err'.aborting /\ opt'.messages > 0 => Is("main", {"error"})')
    <3>1. CASE t = "main"
      BY <1>3, <2>2, <2>5, <2>6, <3>1, ThreadFacts DEF Is
    <3>2. CASE t = "map"
      BY <1>1, <1>3, <2>2, <2>5, <2>6, <3>2, ThreadFacts DEF Is
    <3> QED
      BY <1>2, <3>1, <3>2
  <2>8. /\ \A u \in Threads : Is(u, {"abort"})' => err'.noCancel
        /\ \A u \in Threads : ~Is(u, {"delete"})'
    BY <1>3, <2>1, <2>2, <2>5 DEF Counted, Is
  <2> QED
    BY <1>3, <2>4, <2>6, <2>7, <2>8 DEF Counted, MapOut
<1> QED
  BY <1>8, <1>9, <1>10, <1>11, <1>12, <1>13 DEF HInv

LEMMA PutDataEnd == ASSUME Good, NEW t \in Threads, PutData(t) PROVE HInv'
<1>1. At(t, "fill") /\ UNCHANGED <<kept, err, map, table, exe, status>>
  BY DEF PutData
<1>2. CASE Release("put") /\ Return(t) /\ failed' = failed
  BY <1>1, <1>2, PutReturns
<1>3. CASE WriteFails(t, "map") /\ lock' = lock
  BY <1>1, <1>3, FailsMap, PutFails
<1>4. CASE lock' = lock /\ \E l \in {"lost", "fault"} : Goto(t, l)
  BY <1>1, <1>4, PutFails
<1> QED
  BY <1>2, <1>3, <1>4 DEF PutData

(* What a call keeps, Counted apart.                                       *)
LEMMA CallFrames ==
  ASSUME Good, NEW t \in {"main", "map"}, NEW a \in {"phase3", "errabort", "main", "print"}, At(t, a),
         NEW l \in {"put", "error", "warning"}, NEW m \in Returns, Call(t, l, m),
         UNCHANGED <<opt, plan, stages, exit, status, lock, err, map, failed>>,
         l = "put" => map.out /\ m \in {"told", "printed"},
         a = "phase3" => l = "put" /\ m = "told", a = "errabort" => l = "error" /\ m = "abort",
         a = "main" => l # "put" /\ m = "main" /\ opt.messages > 0, a = "print" => l = "put" /\ m = "printed"
  PROVE  /\ LabelsOK' /\ Reporting' /\ Passed' /\ StatusCounted' /\ PutKept' /\ FailureSeen' /\ Alone' /\ Told'
         /\ Called(t, l, m) /\ Others(t) /\ ~err.noCancel /\ stack'[t][1] = l /\ stack'[t][2] = m /\ Len(stack'[t]) >= 2
<1>1. /\ stack[t] # << >> /\ stack[t] \in Seq(Labels) /\ Len(stack[t]) >= 1 /\ stack[t][1] = a /\ exit = Running
      /\ t \in Threads
  BY AtIs, ThreadFacts DEF Good
<1>2. Called(t, l, m) /\ Others(t)
  <2>1. l \in Labels \ Outermost
    BY DEF Labels, Outermost
  <2>2. m \in Outermost => a \in Outermost
    BY DEF Returns, Outermost
  <2> QED
    BY <1>1, <2>1, <2>2, CallCalled DEF Good, Called
<1>3. stack'[t][1] = l /\ stack'[t][2] = m /\ Len(stack'[t]) >= 2 /\ stack'[t] # << >>
  BY <1>1, <1>2 DEF Called
<1>4. ~err.noCancel
  BY <1>1, NotLeaving
<1>5. /\ map.out => map.file # "none"
      /\ err.aborting => ~map.out
  BY DEF Good, HInv, Passed
<1>6. LabelsOK'
  <2>1. /\ l = "warning" => m = "main" /\ Len(stack[t]) = 1 /\ opt.messages > 0
        /\ m = "main" => t = "main"
        /\ m = "printed" => t = "map"
        /\ l = "put" => m \in {"told", "printed"} /\ map.file # "none"
    <3>1. /\ a = "main" => t = "main" /\ Len(stack[t]) = 1
          /\ a = "print" => t = "map"
      BY <1>1, WhereAt, ThreadFacts DEF Outermost, ErrorLabels
    <3> QED
      BY <1>5, <3>1
  <2> QED
    BY <1>2, <2>1, CallLabels
<1>7. Reporting'
  <2>1. m = "told" => stack[t][1] = "phase3"
    BY <1>1
  <2> QED
    BY <1>1, <1>2, <2>1, CallReporting
<1>8. Passed'
  <2>1. UNCHANGED <<opt, plan, stages>>
    OBVIOUS
  <2> QED
    BY <1>1, <1>2, <1>3, <1>5, <2>1, FramePassed
<1>9. StatusCounted' /\ Alone' /\ Told'
  BY <1>1, <1>2, <1>3, <1>4, FrameEnd
<1>10. PutKept'
  BY <1>1, <1>2, <1>3, FramePut
<1>11. FailureSeen'
  <2>1. Doomed(t) => Doomed(t)'
    <3> SUFFICES ASSUME Doomed(t) PROVE Doomed(t)'
      OBVIOUS
    <3>1. CASE a = "errabort"
      <4>1. 2 \in 1 .. Len(stack'[t]) /\ stack'[t][2] \in Doom
        BY <1>2, <1>3, <3>1 DEF Doom, Called
      <4> QED
        BY <4>1 DEF Doomed
    <3>2. CASE a # "errabort"
      <4>1. ~(err.aborting /\ Is(t, {"error", "phase3", "told"}))
        BY <1>1, <1>5, <3>2 DEF Is
      <4>2. PICK i \in 1 .. Len(stack[t]) : stack[t][i] \in Doom
        BY <4>1 DEF Doomed
      <4>3. i \in 2 .. Len(stack[t])
        BY <1>1, <3>2, <4>2 DEF Doom
      <4>4. i + 1 \in 1 .. Len(stack'[t]) /\ stack'[t][i + 1] \in Doom
        BY <1>1, <1>2, <4>2, <4>3 DEF Called
      <4> QED
        BY <4>4 DEF Doomed
    <3> QED
      BY <3>1, <3>2
  <2> QED
    BY <1>1, <1>2, <2>1, FrameFailure
<1> QED
  BY <1>2, <1>3, <1>4, <1>6, <1>7, <1>8, <1>9, <1>10, <1>11

(* The shape of a warning of main, at its ends.                            *)
LEMMA WarningAt ==
  ASSUME Good, err.count = 0, NEW t \in Threads, NEW a \in {"phase3", "told"}, At(t, a)
  PROVE  t = "main" /\ opt.messages > 0 /\ Len(stack[t]) = 2 /\ stack[t][2] = "main"
<1>1. stack[t] \in Seq(Labels) /\ Len(stack[t]) >= 1 /\ stack[t][1] = a
  BY AtIs DEF Good
<1>2. Telling(t)
  <2>1. CASE a = "phase3"
    BY <1>1, <2>1 DEF Telling, Is
  <2>2. CASE a = "told"
    <3>1. 1 \in 1 .. Len(stack[t]) /\ stack[t][1] = "told"
      BY <1>1, <2>2
    <3> QED
      BY <3>1 DEF Telling
  <2> QED
    BY <2>1, <2>2
<1>3. t = "main" /\ opt.messages > 0 /\ Warning
  BY <1>2 DEF Good, HInv, Counted
<1> QED
  BY <1>1, <1>3 DEF Warning, Losing

LEMMA ErrorStartEnd == ASSUME Good, NEW t \in Threads, ErrorStart(t) PROVE HInv'
<1>1. PICK a \in {"error", "warning"} :
        At(t, a) /\ err' = [err EXCEPT !.count = IF a = "error" THEN @ + 1 ELSE @] /\ Goto(t, "phase3")
  BY DEF ErrorStart
<1>2. DOMAIN err = {"count", "aborting", "critical", "terr", "noCancel"} /\ err.count \in Nat /\ lock'["put"] = lock["put"]
  BY DEF ErrorStart, Take, Good, EndTypeOK
<1>3. /\ err'.aborting = err.aborting /\ err'.critical = err.critical /\ err'.terr = err.terr /\ err'.noCancel = err.noCancel
      /\ err'.count = IF a = "error" THEN err.count + 1 ELSE err.count
  BY <1>1, <1>2
<1>4. a \in Labels \ {"abort", "delete", "exit"} /\ "phase3" \in (ErrorLabels \cup {"report", "terr"}) \ {"put", "exit"} /\ a \notin Doom
  BY DEF Labels, ErrorLabels, Doom
<1>5. t \notin Readers
  BY <1>1, WhereAt DEF ReaderLabels
<1>6. /\ stack[t] # << >> /\ Len(stack[t]) >= 1 /\ stack[t][1] = a
      /\ a = "warning" => t = "main" /\ Len(stack[t]) = 2 /\ stack[t][2] = "main" /\ opt.messages > 0
  <2>1. stack[t] # << >> /\ Len(stack[t]) >= 1 /\ stack[t][1] = a /\ Is(t, {a})
    BY <1>1, AtIs DEF Good
  <2>2. a = "warning" => t = "main"
    BY <1>1, WhereAt
  <2> QED
    BY <2>1, <2>2 DEF Good, HInv, LabelsOK
<1>7. /\ LabelsOK' /\ Reporting' /\ Passed' /\ StatusCounted' /\ PutKept' /\ FailureSeen' /\ Alone' /\ Told'
      /\ Replaced(t, "phase3") /\ Others(t) /\ ~err.noCancel /\ stack'[t][1] = "phase3" /\ Len(stack'[t]) >= 1
  <2>1. a \in {"error", "phase3"} \/ Len(stack[t]) >= 2
    BY <1>6
  <2> QED
    BY <1>1, <1>2, <1>3, <1>4, <1>5, <2>1, GotoFrames DEF ErrorStart, kept
<1>8. Counted'
  <2>1. CASE a = "error" \/ err.count # 0
    BY <1>2, <1>3, <2>1 DEF Counted
  <2>2. CASE a = "warning" /\ err.count = 0
    <3>1. t = "main" /\ opt.messages > 0 /\ Warning'
      BY <1>6, <1>7, <2>2 DEF Warning, Replaced
    <3>2. ~Is(t, {"error"}) /\ ~Is(t, {"errabort"}) /\ ~Is(t, Losing)' /\ ~Is(t, {"abort"})' /\ ~Is(t, {"delete"})'
      BY <1>6, <1>7, <2>2 DEF Is, Losing
    <3> QED
      BY <1>2, <1>3, <1>6, <1>7, <2>2, <3>1, <3>2, CountedStep DEF SmallStep, ErrorStart, kept
  <2> QED
    BY <2>1, <2>2
<1> QED
  BY <1>7, <1>8 DEF HInv

LEMMA ErrorPhase3End == ASSUME Good, NEW t \in Threads, ErrorPhase3(t) PROVE HInv'
<1>1. /\ At(t, "phase3") /\ failed' = failed /\ UNCHANGED <<kept, lock, err, map, table, exe, status>>
      /\ (map.out /\ Call(t, "put", "told")) \/ Goto(t, "told")
  BY DEF ErrorPhase3, ConsoleFails, Fails, Good, Supposed
<1>2. t \in {"main", "map"}
  BY <1>1, WhereAt, ThreadFacts DEF ReaderLabels
<1>3. stack[t] # << >> /\ Len(stack[t]) >= 1 /\ stack[t][1] = "phase3"
  BY <1>1, AtIs DEF Good
<1>4. ~Is(t, {"error"}) /\ ~Is(t, {"errabort"})
  BY <1>3 DEF Is
<1>5. CASE map.out /\ Call(t, "put", "told")
  <2>1. "told" \in Returns
    BY DEF Returns
  <2>2. /\ LabelsOK' /\ Reporting' /\ Passed' /\ StatusCounted' /\ PutKept' /\ FailureSeen' /\ Alone' /\ Told'
        /\ Called(t, "put", "told") /\ Others(t) /\ ~err.noCancel /\ stack'[t][1] = "put" /\ stack'[t][2] = "told"
        /\ Len(stack'[t]) >= 2
    BY <1>1, <1>2, <1>5, <2>1, CallFrames DEF kept
  <2>3. Counted'
    <3>1. CASE err.count = 0
      <4>1. t = "main" /\ opt.messages > 0 /\ Len(stack[t]) = 2 /\ stack[t][2] = "main"
        BY <1>1, <3>1, WarningAt
      <4>2. Len(stack'[t]) = 3 /\ stack'[t][1] = "put" /\ stack'[t][2] = "told" /\ stack'[t][3] = "main"
        BY <2>2, <4>1 DEF Called
      <4>3. Warning' /\ ~Is(t, Losing)' /\ ~Is(t, {"abort"})' /\ ~Is(t, {"delete"})'
        BY <4>1, <4>2 DEF Warning, Is, Losing
      <4> QED
        BY <1>1, <1>3, <1>4, <2>2, <3>1, <4>1, <4>3, ThreadFacts, CountedStep DEF SmallStep, kept
    <3>2. CASE err.count # 0
      BY <1>1, <3>2 DEF Counted
    <3> QED
      BY <3>1, <3>2
  <2> QED
    BY <2>2, <2>3 DEF HInv
<1>6. CASE Goto(t, "told")
  <2>1. "phase3" \in Labels \ {"abort", "delete", "exit"} /\ "told" \in (ErrorLabels \cup {"report", "terr"}) \ {"put", "exit"}
        /\ "phase3" \notin Doom /\ t \notin Readers /\ t \in Threads
    BY <1>2, ThreadFacts DEF Labels, ErrorLabels, Doom
  <2>2. /\ LabelsOK' /\ Reporting' /\ Passed' /\ StatusCounted' /\ PutKept' /\ FailureSeen' /\ Alone' /\ Told'
        /\ Replaced(t, "told") /\ Others(t) /\ ~err.noCancel /\ stack'[t][1] = "told" /\ Len(stack'[t]) >= 1
    BY <1>1, <1>6, <2>1, GotoFrames DEF kept
  <2>3. Counted'
    <3>1. CASE err.count = 0
      <4>1. t = "main" /\ opt.messages > 0 /\ Len(stack[t]) = 2 /\ stack[t][2] = "main"
        BY <1>1, <3>1, WarningAt
      <4>2. Len(stack'[t]) = 2 /\ stack'[t][1] = "told" /\ stack'[t][2] = "main"
        BY <2>2, <4>1 DEF Replaced
      <4>3. Warning' /\ ~Is(t, Losing)' /\ ~Is(t, {"abort"})' /\ ~Is(t, {"delete"})'
        BY <4>1, <4>2 DEF Warning, Is, Losing
      <4> QED
        BY <1>1, <1>3, <1>4, <2>2, <3>1, <4>1, <4>3, ThreadFacts, CountedStep DEF SmallStep, kept
    <3>2. CASE err.count # 0
      BY <1>1, <3>2 DEF Counted
    <3> QED
      BY <3>1, <3>2
  <2> QED
    BY <2>2, <2>3 DEF HInv
<1> QED
  BY <1>1, <1>5, <1>6

LEMMA ErrAbortEnd == ASSUME Good, NEW t \in Threads, ErrAbort(t) PROVE HInv'
<1>1. At(t, "errabort") /\ Call(t, "error", "abort") /\ UNCHANGED <<kept, lock, err, map, table, exe, status, failed>>
  BY NotLeaving DEF ErrAbort
<1>2. t \in {"main", "map"} /\ "abort" \in Returns
  BY <1>1, WhereAt, ThreadFacts DEF ReaderLabels, Returns
<1>3. stack[t] # << >> /\ stack[t] \in Seq(Labels) /\ Len(stack[t]) >= 1 /\ stack[t][1] = "errabort"
  BY <1>1, AtIs DEF Good
<1>4. /\ LabelsOK' /\ Reporting' /\ Passed' /\ StatusCounted' /\ PutKept' /\ FailureSeen' /\ Alone' /\ Told'
      /\ Called(t, "error", "abort") /\ Others(t) /\ ~err.noCancel /\ stack'[t][1] = "error" /\ stack'[t][2] = "abort"
      /\ Len(stack'[t]) >= 2
  BY <1>1, <1>2, CallFrames DEF kept
<1>5. Counted'
  <2>1. CASE err.count = 0
    <3>1. Telling(t)' => t = "main" /\ opt.messages > 0 /\ Warning'
      <4> SUFFICES ASSUME Telling(t)' PROVE t = "main" /\ opt.messages > 0 /\ Warning'
        OBVIOUS
      <4>1. PICK i \in 1 .. Len(stack'[t]) : stack'[t][i] = "told"
        BY <1>4 DEF Telling, Is
      <4>2. i > 2
        BY <1>4, <4>1
      <4>3. i - 1 \in 2 .. Len(stack[t]) /\ stack'[t][(i - 1) + 1] = stack[t][i - 1] /\ (i - 1) + 1 = i
        <5>1. Len(stack'[t]) = Len(stack[t]) + 1 /\ \A k \in 2 .. Len(stack[t]) : stack'[t][k + 1] = stack[t][k]
          BY <1>4 DEF Called
        <5>2. i - 1 \in 2 .. Len(stack[t]) /\ (i - 1) + 1 = i
          BY <1>3, <4>1, <4>2, <5>1
        <5> QED
          BY <5>1, <5>2
      <4>4. Telling(t)
        BY <1>3, <4>1, <4>3 DEF Telling
      <4>5. t = "main" /\ opt.messages > 0 /\ Warning
        BY <2>1, <4>4 DEF Good, HInv, Counted
      <4>6. Len(stack[t]) = 3 /\ stack[t][2] = "told" /\ stack[t][3] = "main"
        BY <1>3, <4>5 DEF Warning
      <4>7. Len(stack'[t]) = 4 /\ stack'[t][3] = "told" /\ stack'[t][4] = "main"
        <5>1. stack'[t][2 + 1] = stack[t][2] /\ stack'[t][3 + 1] = stack[t][3] /\ Len(stack'[t]) = Len(stack[t]) + 1
          BY <1>4, <4>6 DEF Called
        <5> QED
          BY <4>6, <5>1
      <4> QED
        BY <1>4, <4>5, <4>7 DEF Warning
    <3>2. ~Is(t, {"error"}) /\ Is(t, {"errabort", "error"})' /\ ~Is(t, Losing)' /\ ~Is(t, {"abort"})' /\ ~Is(t, {"delete"})'
      BY <1>3, <1>4 DEF Is, Losing
    <3> QED
      BY <1>1, <1>2, <1>3, <1>4, <2>1, <3>1, <3>2, ThreadFacts, CountedStep DEF SmallStep, kept
  <2>2. CASE err.count # 0
    BY <1>1, <2>2 DEF Counted
  <2> QED
    BY <2>1, <2>2
<1> QED
  BY <1>4, <1>5 DEF HInv

LEMMA ErrorEndsEnd == ASSUME Good, NEW t \in Threads, ErrorEnds(t) PROVE HInv'
<1>1. At(t, "told") /\ UNCHANGED <<kept, err, map, table, exe, status, failed>> /\ lock'["put"] = lock["put"]
  BY DEF ErrorEnds, Release, Good, EndTypeOK
<1>2. t \in {"main", "map"}
  BY <1>1, WhereAt, ThreadFacts DEF ReaderLabels
<1>3. stack[t] # << >> /\ stack[t] \in Seq(Labels) /\ Len(stack[t]) >= 1 /\ stack[t][1] = "told" /\ exit = Running
  BY <1>1, AtIs DEF Good
<1>4. CASE err.aborting
  <2>1. err.count # 0
    <3> SUFFICES ASSUME err.count = 0 PROVE FALSE
      OBVIOUS
    <3>1. t = "main" /\ opt.messages > 0
      BY <1>1, WarningAt
    <3>2. Is("main", {"error"})
      BY <1>4, <3>1 DEF Good, HInv, Counted
    <3> QED
      BY <1>3, <3>1, <3>2 DEF Is
  <2>2. err'.count > 0
    BY <1>1, <2>1 DEF Good, EndTypeOK
  <2>3. "told" \in Labels \ {"abort", "delete", "exit"} /\ Goto(t, "abort")
    BY <1>4 DEF Labels, ErrorEnds
  <2> QED
    BY <1>1, <2>2, <2>3, AbortCounted DEF kept
<1>5. CASE ~err.aborting
  <2>1. Returned(t) /\ Others(t) /\ opt' = opt /\ map' = map /\ err' = err
    BY <1>1, <1>3, <1>5, ReturnReturned DEF Good, Returned, ErrorEnds, kept
  <2>2. Len(stack[t]) >= 2
    <3>1. 1 \in 1 .. Len(stack[t]) /\ Reporting
      BY <1>3 DEF Good, HInv
    <3>2. 1 < Len(stack[t])
      BY <1>3, <1>5, <3>1 DEF Reporting
    <3> QED
      BY <1>3, <3>2
  <2>3. stack[t][2] \in Returns
    <3>1. StacksOK /\ 2 \in 1 .. Len(stack[t])
      BY <1>3, <2>2 DEF Good, TInv
    <3> QED
      BY <3>1 DEF StacksOK
  <2>4. Len(stack'[t]) >= 1 /\ stack'[t][1] = stack[t][2] /\ stack'[t] # << >> /\ stack'[t] \in Seq(Labels)
    BY <2>1, <2>2 DEF Returned
  <2>5. stack'[t][1] \notin {"exit", "fill", "full"} \cup Losing
    BY <2>3, <2>4 DEF Returns, Losing
  <2>6. ~err.noCancel
    BY <1>1, NotLeaving
  <2>7. LabelsOK' /\ Reporting'
    BY <1>2, <2>1, ReturnLabels, ReturnReporting
  <2>8. Passed'
    BY <1>1, <1>3, <2>1, <2>4, FramePassed DEF kept
  <2>9. StatusCounted' /\ Alone' /\ Told'
    BY <1>1, <1>3, <2>1, <2>5, <2>6, FrameEnd DEF kept
  <2>10. PutKept'
    BY <1>1, <2>1, <2>5, FramePut
  <2>11. FailureSeen'
    <3>1. Doomed(t) => Doomed(t)'
      <4> SUFFICES ASSUME Doomed(t) PROVE Doomed(t)'
        OBVIOUS
      <4>1. PICK i \in 1 .. Len(stack[t]) : stack[t][i] \in Doom
        BY <1>5 DEF Doomed
      <4>2. i \in 2 .. Len(stack[t])
        BY <1>3, <4>1 DEF Doom
      <4>3. i - 1 \in 1 .. Len(stack'[t]) /\ stack'[t][i - 1] = stack[t][(i - 1) + 1] /\ (i - 1) + 1 = i
        BY <1>3, <2>1, <4>2 DEF Returned
      <4>4. stack'[t][i - 1] \in Doom
        BY <4>1, <4>3
      <4> QED
        BY <4>3, <4>4 DEF Doomed
    <3> QED
      BY <1>1, <2>1, <3>1, FrameFailure
  <2>12. Counted'
    <3>1. CASE err.count = 0
      <4>1. t = "main" /\ opt.messages > 0 /\ Len(stack[t]) = 2 /\ stack[t][2] = "main"
        BY <1>1, <3>1, WarningAt
      <4>2. Len(stack'[t]) = 1 /\ stack'[t][1] = "main"
        BY <2>1, <2>4, <4>1 DEF Returned
      <4>3. ~Telling(t)' /\ ~Is(t, Losing)' /\ ~Is(t, {"abort"})' /\ ~Is(t, {"delete"})'
        BY <4>2 DEF Telling, Is, Losing
      <4>4. ~Is(t, {"error"}) /\ ~Is(t, {"errabort"})
        BY <1>3 DEF Is
      <4> QED
        BY <1>1, <1>3, <2>1, <3>1, <4>3, <4>4, ThreadFacts, CountedStep DEF SmallStep
    <3>2. CASE err.count # 0
      BY <1>1, <3>2 DEF Counted
    <3> QED
      BY <3>1, <3>2
  <2> QED
    BY <2>7, <2>8, <2>9, <2>10, <2>11, <2>12 DEF HInv
<1> QED
  BY <1>4, <1>5

(* A reader's step tells nothing about the count.                          *)
LEMMA ReaderCounted ==
  ASSUME Good, NEW t \in Readers, stack[t] # << >>, Others(t), opt' = opt, lock'["put"] = lock["put"],
         err'.count = err.count, err'.aborting = err.aborting, err'.critical = err.critical, err'.noCancel = err.noCancel,
         Len(stack'[t]) = 0 \/ (Len(stack'[t]) = 1 /\ stack'[t][1] \in {"terr", "report"})
  PROVE  Counted'
<1>1. CASE err.count = 0
  <2>1. t \in Threads /\ Is(t, ReaderLabels)
    BY ThreadFacts DEF Good, HInv, LabelsOK, Is, ReaderLabels
  <2>2. ~Is(t, {"error"}) /\ ~Is(t, {"errabort"})
    BY <2>1 DEF Is, ReaderLabels
  <2>3. ~Telling(t)' /\ ~Is(t, Losing)' /\ ~Is(t, {"abort"})' /\ ~Is(t, {"delete"})'
    BY DEF Telling, Is, Losing
  <2> QED
    BY <1>1, <2>1, <2>2, <2>3, CountedStep DEF SmallStep
<1>2. CASE err.count # 0
  BY <1>2 DEF Counted
<1> QED
  BY <1>1, <1>2

LEMMA ReaderStops ==
  ASSUME Good, NEW t \in Readers, NEW a \in {"read", "terr"}, At(t, a), ExitThread(t),
         UNCHANGED <<kept, lock, map, table, exe, status, failed>>,
         err'.count = err.count, err'.aborting = err.aborting, err'.critical = err.critical, err'.noCancel = err.noCancel,
         err'.terr = err.terr \/ err'.terr, a = "terr" => err'.terr
  PROVE  HInv'
<1>1. stack[t] # << >> /\ exit = Running /\ t \in Threads /\ Len(stack[t]) = 1 /\ stack[t][1] = a
  <2>1. stack[t] # << >> /\ exit = Running /\ t \in Threads /\ stack[t][1] = a
    BY AtIs, ThreadFacts DEF Good
  <2> QED
    BY <2>1 DEF Good, HInv, LabelsOK
<1>2. Stopped(t) /\ Others(t) /\ stack'[t] = << >> /\ Len(stack'[t]) = 0
  BY <1>1, ExitStopped DEF Good, Stopped
<1>3. ~err.noCancel
  BY <1>1, NotLeaving
<1>4. \A u \in Threads : stack'[u] = stack[u] \/ stack'[u] = << >>
  BY <1>2 DEF Others
<1>5. stack'["main"] = stack["main"] /\ stack'["map"] = stack["map"] /\ opt' = opt /\ map' = map
  BY <1>1, <1>2, ThreadFacts DEF Others, kept
<1>6. LabelsOK'
  <2>1. \A r \in Readers : stack'[r] # << >> => stack'[r] = stack[r]
    BY <1>4, ThreadFacts
  <2>2. \A u \in Threads : Len(stack'[u]) > 0 => stack'[u] = stack[u]
    BY <1>2 DEF Others
  <2>3. LabelsOK
    BY DEF Good, HInv
  <2> QED
    BY <1>5, <2>1, <2>2, <2>3 DEF LabelsOK, Is
<1>7. Reporting'
  <2>1. Reporting /\ \A u \in Threads \ {t} : stack'[u] = stack[u]
    BY <1>2 DEF Good, HInv, Others
  <2> QED
    BY <1>2, <2>1 DEF Reporting
<1>8. Passed'
  <2>1. UNCHANGED <<opt, plan, stages>>
    BY DEF kept
  <2> QED
    BY <1>1, <1>2, <1>5, <2>1, FramePassed
<1>9. Counted'
  BY <1>1, <1>2, <1>5, ReaderCounted
<1>10. StatusCounted' /\ Alone' /\ Told'
  BY <1>1, <1>2, <1>3, FrameEnd DEF kept
<1>11. PutKept'
  BY <1>1, <1>2, <1>5, ThreadFacts, FramePut
<1>12. FailureSeen'
  <2>1. a = "read" => ~Doomed(t)
    BY <1>1 DEF Doomed, Is, Doom
  <2>2. Doomed(t) => err'.terr
    BY <2>1
  <2> QED
    BY <1>1, <1>2, <2>2, FrameFailure
<1> QED
  BY <1>6, <1>7, <1>8, <1>9, <1>10, <1>11, <1>12 DEF HInv

LEMMA ReadEnd == ASSUME Good, NEW t \in Readers, Read(t) PROVE HInv'
<1>1. At(t, "read") /\ UNCHANGED <<kept, lock, err, map, table, exe, status>> /\ t \in Threads
  BY ThreadFacts DEF Read
<1>2. CASE ExitThread(t) /\ failed' = failed
  BY <1>1, <1>2, ReaderStops
<1>3. CASE Goto(t, "terr")
  <2>1. /\ "read" \in Labels \ {"abort", "delete", "exit"} /\ "terr" \in (ErrorLabels \cup {"report", "terr"}) \ {"put", "exit"}
        /\ "terr" \in ReaderLabels /\ "terr" \in Doom
    BY DEF Labels, ReaderLabels, Doom
  <2>2. /\ LabelsOK' /\ Reporting' /\ Passed' /\ StatusCounted' /\ PutKept' /\ FailureSeen' /\ Alone' /\ Told'
        /\ Replaced(t, "terr") /\ Others(t) /\ ~err.noCancel /\ stack'[t][1] = "terr" /\ Len(stack'[t]) >= 1
    BY <1>1, <1>3, <2>1, ThreadFacts, GotoFrames DEF kept
  <2>3. stack[t] # << >> /\ Len(stack'[t]) = 1
    BY <1>1, <2>2, AtIs DEF Good, HInv, LabelsOK, Replaced
  <2>4. Counted'
    BY <1>1, <2>2, <2>3, ReaderCounted DEF kept
  <2> QED
    BY <2>2, <2>4 DEF HInv
<1> QED
  BY <1>2, <1>3 DEF Read

LEMMA TerrAbortEnd == ASSUME Good, NEW t \in Threads, TerrAbort(t) PROVE HInv'
<1>1. /\ At(t, "terr") /\ UNCHANGED <<kept, lock, map, table, exe, status, failed>>
      /\ DOMAIN err = {"count", "aborting", "critical", "terr", "noCancel"} /\ err' = [err EXCEPT !.terr = TRUE]
  BY DEF TerrAbort, Good, EndTypeOK
<1>2. /\ err'.count = err.count /\ err'.aborting = err.aborting /\ err'.critical = err.critical /\ err'.noCancel = err.noCancel
      /\ err'.terr
  BY <1>1
<1>3. t \in Readers
  BY <1>1, WhereAt, ThreadFacts DEF ErrorLabels
<1>4. CASE ExitThread(t)
  BY <1>1, <1>2, <1>3, <1>4, ReaderStops
<1>5. CASE Goto(t, "report")
  <2>1. /\ "terr" \in Labels \ {"abort", "delete", "exit"} /\ "report" \in (ErrorLabels \cup {"report", "terr"}) \ {"put", "exit"}
        /\ "report" \in ReaderLabels /\ "report" \in Doom
    BY DEF Labels, ReaderLabels, Doom
  <2>2. /\ LabelsOK' /\ Reporting' /\ Passed' /\ StatusCounted' /\ PutKept' /\ FailureSeen' /\ Alone' /\ Told'
        /\ Replaced(t, "report") /\ Others(t) /\ ~err.noCancel /\ stack'[t][1] = "report" /\ Len(stack'[t]) >= 1
    BY <1>1, <1>2, <1>3, <1>5, <2>1, ThreadFacts, GotoFrames DEF kept
  <2>3. stack[t] # << >> /\ Len(stack'[t]) = 1
    BY <1>1, <1>3, <2>2, AtIs DEF Good, HInv, LabelsOK, Replaced
  <2>4. Counted'
    BY <1>1, <1>2, <1>3, <2>2, <2>3, ReaderCounted DEF kept
  <2> QED
    BY <2>2, <2>4 DEF HInv
<1> QED
  BY <1>4, <1>5 DEF TerrAbort

LEMMA TerrReportEnd == ASSUME Good, NEW t \in Threads, TerrReport(t) PROVE HInv'
<1>1. /\ At(t, "report") /\ Goto(t, "abort") /\ UNCHANGED <<kept, lock, map, table, exe, status, failed>>
      /\ DOMAIN err = {"count", "aborting", "critical", "terr", "noCancel"} /\ err.count \in Nat
      /\ err' = [err EXCEPT !.count = err.count + 1]
  BY DEF TerrReport, Good, EndTypeOK
<1>2. /\ err'.count = err.count + 1 /\ err'.aborting = err.aborting /\ err'.terr = err.terr /\ err'.noCancel = err.noCancel
      /\ err'.count > 0
  BY <1>1
<1>3. "report" \in Labels \ {"abort", "delete", "exit"}
  BY DEF Labels
<1> QED
  BY <1>1, <1>2, <1>3, AbortCounted DEF kept

(* The steps that leave the stacks alone, or only end the process.         *)
LEMMA SameStacks ==
  ASSUME Good, UNCHANGED <<opt, stack, plan, stages, err, map, status, failed>>, lock'["put"] = lock["put"]
  PROVE  LabelsOK' /\ Reporting' /\ Passed' /\ Counted' /\ StatusCounted' /\ PutKept' /\ FailureSeen' /\ Alone'
<1>1. LabelsOK /\ Reporting /\ Passed /\ Counted /\ StatusCounted /\ PutKept /\ FailureSeen /\ Alone
  BY DEF Good, HInv
<1>2. LabelsOK' /\ Reporting' /\ StatusCounted' /\ PutKept'
  BY <1>1 DEF LabelsOK, Reporting, StatusCounted, PutKept, Is
<1>3. Passed' /\ Alone'
  BY <1>1 DEF Passed, Alone, Is, Size, MapWanted
<1>4. FailureSeen'
  BY <1>1 DEF FailureSeen, Doomed, Is
<1>5. Counted'
  BY <1>1 DEF Counted, Telling, Warning, MapOut, Is
<1> QED
  BY <1>2, <1>3, <1>4, <1>5

LEMMA ExitEnd == ASSUME Good, NEW t \in Threads, Exit(t) PROVE HInv'
<1>1. /\ At(t, "exit") /\ UNCHANGED <<opt, stack, plan, stages, allowed, err, map, table, exe, status, said, failed>>
      /\ exit' = {status[t]} /\ lock'["put"] = lock["put"]
  BY DEF Exit, Take, Good, EndTypeOK
<1>2. Is(t, {"exit"})
  BY <1>1, AtIs DEF Good
<1>3. Told'
  <2> SUFFICES ASSUME exit' = {0} PROVE err.noCancel /\ err.count = 0
    BY <1>1 DEF Told
  <2>1. status[t] = 0
    BY <1>1
  <2> QED
    BY <1>2, <2>1 DEF Good, HInv, StatusCounted
<1> QED
  BY <1>1, <1>3, SameStacks DEF HInv

LEMMA FaultedEnd == ASSUME Good, NEW t \in Threads, Faulted(t) PROVE HInv'
<1>1. exit' = {1} /\ UNCHANGED <<opt, stack, plan, stages, err, map, status, failed, lock>>
  BY DEF Faulted, ConsoleFails, Fails, Good, Supposed
<1>2. Told'
  <2>1. 0 \notin {1}
    OBVIOUS
  <2> QED
    BY <1>1, <2>1 DEF Told
<1> QED
  BY <1>1, <1>2, SameStacks DEF HInv

(* In _abort and __exit.                                                   *)
LEMMA LeaveGoto ==
  ASSUME Good, NEW t \in Threads, NEW a \in {"abort", "delete"}, At(t, a), NEW l \in {"delete", "exit"}, Goto(t, l),
         UNCHANGED <<kept, lock, err, map, failed>>
  PROVE  /\ LabelsOK' /\ Reporting' /\ Passed' /\ PutKept' /\ FailureSeen' /\ Alone' /\ Told'
         /\ Replaced(t, l) /\ Others(t) /\ stack'[t][1] = l /\ Len(stack'[t]) >= 1 /\ stack[t][1] = a /\ stack[t] # << >>
<1>1. stack[t] # << >> /\ stack[t] \in Seq(Labels) /\ Len(stack[t]) >= 1 /\ stack[t][1] = a /\ exit = Running
  BY AtIs DEF Good
<1>2. Replaced(t, l) /\ Others(t)
  <2>1. l \in Labels \ Outermost
    BY DEF Labels, Outermost
  <2> QED
    BY <1>1, <2>1, GotoReplaced DEF Good, Replaced
<1>3. stack'[t][1] = l /\ Len(stack'[t]) >= 1 /\ stack'[t] # << >>
  BY <1>1, <1>2 DEF Replaced
<1>4. LabelsOK' /\ Reporting'
  <2>1. l \in ErrorLabels \cup {"report", "terr"} /\ l \in ReaderLabels
    BY DEF ErrorLabels, ReaderLabels
  <2>2. opt' = opt
    BY DEF kept
  <2> QED
    BY <1>2, <2>1, <2>2, GotoLabels, GotoReporting
<1>5. Passed'
  <2>1. UNCHANGED <<opt, plan, stages>>
    BY DEF kept
  <2> QED
    BY <1>1, <1>2, <1>3, <2>1, FramePassed
<1>6. PutKept'
  <2>1. opt' = opt
    BY DEF kept
  <2> QED
    BY <1>2, <1>3, <2>1, FramePut
<1>7. FailureSeen'
  <2>1. 1 \in 1 .. Len(stack'[t]) /\ stack'[t][1] \in Doom
    BY <1>2, <1>3 DEF Doom, Replaced
  <2>2. Doomed(t)'
    BY <2>1 DEF Doomed
  <2> QED
    BY <1>2, <2>2, FrameFailure
<1>8. Told'
  <2>1. exit' = Running /\ 0 \in {0} /\ 0 \notin Running
    BY <1>1 DEF Running, kept
  <2> QED
    BY <2>1 DEF Told
<1>9. Alone'
  <2> SUFFICES ASSUME err.noCancel PROVE Alone'
    BY DEF Alone
  <2>1. Alone /\ \A u \in Threads \ {"main"} : stack[u] = << >>
    BY DEF Good, HInv, Alone
  <2>2. t = "main"
    BY <1>1, <2>1
  <2>3. Is("main", {"abort", "delete", "exit"})'
    BY <1>3, <2>2 DEF Is
  <2>4. \A u \in Threads \ {"main"} : stack'[u] = << >>
    BY <1>2, <2>1, <2>2 DEF Others
  <2> QED
    BY <2>1, <2>3, <2>4 DEF Alone, kept
<1> QED
  BY <1>1, <1>2, <1>3, <1>4, <1>5, <1>6, <1>7, <1>8, <1>9

LEMMA AbortEnd == ASSUME Good, NEW t \in Threads, Abort(t) PROVE HInv'
<1>1. /\ At(t, "abort") /\ UNCHANGED <<kept, lock, err, map, failed>> /\ err.count \in Nat /\ status \in [Threads -> Nat]
      /\ \/ err.count > 0 /\ Goto(t, "delete") /\ status' = status
         \/ Goto(t, "exit") /\ status' = [status EXCEPT ![t] = err.count]
  BY DEF Abort, Good, EndTypeOK
<1>2. PICK l \in {"delete", "exit"} : /\ Goto(t, l)
                                      /\ IF l = "delete" THEN err.count > 0 /\ status' = status
                                                         ELSE status' = [status EXCEPT ![t] = err.count]
  BY <1>1
<1>3. /\ LabelsOK' /\ Reporting' /\ Passed' /\ PutKept' /\ FailureSeen' /\ Alone' /\ Told'
      /\ Replaced(t, l) /\ Others(t) /\ stack'[t][1] = l /\ Len(stack'[t]) >= 1 /\ stack[t][1] = "abort" /\ stack[t] # << >>
  BY <1>1, <1>2, LeaveGoto
<1>4. Is(t, {"abort"}) /\ Len(stack[t]) >= 1 /\ stack[t] \in Seq(Labels)
  BY <1>1, AtIs DEF Good
<1>5. err.count = 0 => err.noCancel
  BY <1>4 DEF Good, HInv, Counted
<1>6. StatusCounted'
  <2>1. \A u \in Threads \ {t} : status'[u] = status[u] /\ stack'[u] = stack[u]
    BY <1>1, <1>2, <1>3 DEF Others
  <2>2. Is(t, {"exit"})' => status'[t] = err.count
    BY <1>1, <1>2, <1>3 DEF Is
  <2>3. Is(t, {"exit"})' => status'[t] > 0 \/ (err'.noCancel /\ status'[t] = err'.count)
    BY <1>1, <1>5, <2>2
  <2>4. \A u \in Threads \ {t} : Is(u, {"exit"})' => status'[u] > 0 \/ (err'.noCancel /\ status'[u] = err'.count)
    BY <1>1, <2>1 DEF Good, HInv, StatusCounted, Is
  <2> QED
    BY <2>3, <2>4 DEF StatusCounted
<1>7. Counted'
  <2>1. CASE err.count = 0
    <3>1. l = "exit"
      BY <1>2, <2>1
    <3>2. ~Telling(t)'
      <4> SUFFICES ASSUME Telling(t)' PROVE FALSE
        OBVIOUS
      <4>1. PICK i \in 1 .. Len(stack'[t]) : stack'[t][i] = "told"
        BY <1>3, <3>1 DEF Telling, Is
      <4>2. i \in 2 .. Len(stack[t]) /\ stack[t][i] = "told"
        BY <1>3, <1>4, <3>1, <4>1 DEF Replaced
      <4>3. Telling(t)
        BY <1>4, <4>2 DEF Telling
      <4> QED
        BY <1>3, <2>1, <4>3 DEF Good, HInv, Counted, Warning, Losing
    <3>3. ~Is(t, {"error"}) /\ ~Is(t, {"errabort"}) /\ ~Is(t, Losing)' /\ ~Is(t, {"abort"})' /\ ~Is(t, {"delete"})'
      BY <1>3, <3>1 DEF Is, Losing
    <3> QED
      BY <1>1, <1>3, <2>1, <3>2, <3>3, CountedStep DEF SmallStep, kept
  <2>2. CASE err.count # 0
    BY <1>1, <2>2 DEF Counted
  <2> QED
    BY <2>1, <2>2
<1> QED
  BY <1>3, <1>6, <1>7 DEF HInv

LEMMA DeleteExeEnd == ASSUME Good, NEW t \in Threads, DeleteExe(t) PROVE HInv'
<1>1. /\ At(t, "delete") /\ UNCHANGED <<kept, lock, err, map, failed>> /\ err.count \in Nat /\ status \in [Threads -> Nat]
      /\ Goto(t, "exit") /\ status' = [status EXCEPT ![t] = err.count]
  BY DEF DeleteExe, Fails, Good, EndTypeOK, Supposed
<1>2. /\ LabelsOK' /\ Reporting' /\ Passed' /\ PutKept' /\ FailureSeen' /\ Alone' /\ Told'
      /\ Replaced(t, "exit") /\ Others(t) /\ stack'[t][1] = "exit" /\ Len(stack'[t]) >= 1
  BY <1>1, LeaveGoto
<1>3. err.count > 0
  <2>1. Is(t, {"delete"})
    BY <1>1, AtIs DEF Good
  <2> QED
    BY <1>1, <2>1 DEF Good, HInv, Counted
<1>4. StatusCounted'
  <2>1. \A u \in Threads \ {t} : status'[u] = status[u] /\ stack'[u] = stack[u]
    BY <1>1, <1>2 DEF Others
  <2>2. status'[t] > 0
    BY <1>1, <1>3
  <2>3. \A u \in Threads \ {t} : Is(u, {"exit"})' => status'[u] > 0 \/ (err'.noCancel /\ status'[u] = err'.count)
    BY <1>1, <2>1 DEF Good, HInv, StatusCounted, Is
  <2> QED
    BY <2>2, <2>3 DEF StatusCounted
<1>5. Counted'
  BY <1>1, <1>3 DEF Counted
<1> QED
  BY <1>2, <1>4, <1>5 DEF HInv

LEMMA RoutineEnd == ASSUME Good, NEW t \in Threads, Routines(t) PROVE HInv'
  BY AbortEnd, DeleteExeEnd, ExitEnd, FaultEnd, NotifyEnd, FaultedEnd, ErrorStartEnd, ErrorPhase3End, ErrorEndsEnd,
     ErrAbortEnd, TerrAbortEnd, TerrReportEnd, LstOutEnd, PutDataEnd, DosFailEnd, DiskFullEnd, FlushDisableEnd,
     MapOffEnd, CriticalEnd DEF Routines

-----------------------------------------------------------------------------
(* The map thread, from one stage to the next.                             *)
LEMMA MapStages ==
  ASSUME Good, NEW a \in {"gate", "print", "printed"}, At("map", a), NEW l \in {"gate", "print", "printed"},
         Goto("map", l), UNCHANGED <<opt, plan, lock, err, map, exit, status, failed>>,
         stages' = stages \/ stages # << >>
  PROVE  HInv'
<1>1. /\ stack["map"] # << >> /\ stack["map"] \in Seq(Labels) /\ stack["map"][1] = a /\ exit = Running
      /\ "map" \in Threads /\ Len(stack["map"]) = 1
  BY AtIs, WhereAt, ThreadFacts DEF Good, Outermost
<1>2. /\ Others("map") /\ Len(stack'["map"]) = 1 /\ stack'["map"][1] = l /\ stack'["map"] # << >>
  <2>1. StacksOK /\ l \in Labels /\ Head(stack["map"]) \in Outermost
    BY <1>1 DEF Good, TInv, Labels, Outermost
  <2> QED
    BY <1>1, <2>1, GotoOK DEF Others
<1>3. ~err.noCancel
  BY <1>1, NotLeaving
<1>4. \A u \in Threads \ {"map"} : stack'[u] = stack[u]
  BY <1>2 DEF Others
<1>5. LabelsOK'
  <2>1. LabelsOK
    BY DEF Good, HInv
  <2>2. stack'["main"] = stack["main"] /\ \A r \in Readers : stack'[r] = stack[r]
    BY <1>4, ThreadFacts
  <2>3. \A i \in 1 .. Len(stack'["map"]) : stack'["map"][i] \in ErrorLabels \cup {"gate", "print", "printed"}
    BY <1>2
  <2> QED
    BY <1>2, <1>4, <2>1, <2>2, <2>3 DEF LabelsOK, Is
<1>6. Reporting'
  BY <1>2, <1>4 DEF Good, HInv, Reporting
<1>7. Passed'
  <2>1. Passed /\ stack'["map"] # << >> /\ stack["map"] # << >> /\ \A r \in Readers : stack'[r] = stack[r]
    BY <1>1, <1>2, <1>4, ThreadFacts DEF Good, HInv
  <2>2. MapWanted' = MapWanted /\ Size(opt)' = Size(opt)
    BY DEF MapWanted, Size
  <2>3. MapWanted \/ stages' = << >>
    BY <2>1 DEF Passed
  <2> QED
    BY <2>1, <2>2, <2>3 DEF Passed
<1>8. Counted'
  <2>1. CASE err.count = 0
    <3>1. ~Telling("map")' /\ ~Is("map", Losing)' /\ ~Is("map", {"abort"})' /\ ~Is("map", {"delete"})'
      BY <1>2 DEF Telling, Is, Losing
    <3>2. ~Is("map", {"error"}) /\ ~Is("map", {"errabort"})
      BY <1>1 DEF Is
    <3> QED
      BY <1>1, <1>2, <2>1, <3>1, <3>2, CountedStep DEF SmallStep
  <2>2. CASE err.count # 0
    BY <2>2 DEF Counted
  <2> QED
    BY <2>1, <2>2
<1>9. StatusCounted' /\ Alone' /\ Told'
  BY <1>1, <1>2, <1>3, FrameEnd
<1>10. PutKept'
  BY <1>1, <1>2, FramePut
<1>11. FailureSeen'
  <2>1. ~Doomed("map")
    BY <1>1 DEF Doomed, Is, Doom
  <2> QED
    BY <1>1, <1>2, <2>1, FrameFailure
<1> QED
  BY <1>5, <1>6, <1>7, <1>8, <1>9, <1>10, <1>11 DEF HInv

LEMMA MapEnds ==
  ASSUME Good, At("map", "gate"), ExitThread("map"), stages = << >>,
         UNCHANGED <<kept, lock, err, map, table, exe, status, failed>>
  PROVE  HInv'
<1>1. /\ stack["map"] # << >> /\ stack["map"][1] = "gate" /\ exit = Running
      /\ "map" \in Threads /\ Len(stack["map"]) = 1
  BY AtIs, WhereAt, ThreadFacts DEF Good, Outermost
<1>2. Others("map") /\ stack'["map"] = << >> /\ Len(stack'["map"]) = 0
  BY <1>1, ExitStopped DEF Good, Stopped
<1>3. ~err.noCancel
  BY <1>1, NotLeaving
<1>4. \A u \in Threads \ {"map"} : stack'[u] = stack[u]
  BY <1>2 DEF Others
<1>5. LabelsOK'
  <2>1. LabelsOK /\ opt' = opt
    BY DEF Good, HInv, kept
  <2>2. stack'["main"] = stack["main"] /\ \A r \in Readers : stack'[r] = stack[r]
    BY <1>4, ThreadFacts
  <2> QED
    BY <1>2, <1>4, <2>1, <2>2 DEF LabelsOK, Is
<1>6. Reporting'
  BY <1>2, <1>4 DEF Good, HInv, Reporting
<1>7. Passed'
  <2>1. Passed /\ stack'["map"] = << >> /\ stages' = << >> /\ \A r \in Readers : stack'[r] = stack[r]
    BY <1>2, <1>4, ThreadFacts DEF Good, HInv, kept
  <2>2. MapWanted' = MapWanted /\ Size(opt)' = Size(opt) /\ plan' = plan
    BY DEF MapWanted, Size, kept
  <2> QED
    BY <2>1, <2>2 DEF Passed
<1>8. Counted'
  <2>1. CASE err.count = 0
    <3>1. ~Telling("map")' /\ ~Is("map", Losing)' /\ ~Is("map", {"abort"})' /\ ~Is("map", {"delete"})'
      BY <1>2 DEF Telling, Is
    <3>2. ~Is("map", {"error"}) /\ ~Is("map", {"errabort"})
      BY <1>1 DEF Is
    <3> QED
      BY <1>1, <1>2, <2>1, <3>1, <3>2, CountedStep DEF SmallStep, kept
  <2>2. CASE err.count # 0
    BY <2>2 DEF Counted
  <2> QED
    BY <2>1, <2>2
<1>9. StatusCounted' /\ Alone' /\ Told'
  BY <1>1, <1>2, <1>3, FrameEnd DEF kept
<1>10. PutKept'
  BY <1>1, <1>2, FramePut DEF kept
<1>11. FailureSeen'
  <2>1. ~Doomed("map")
    BY <1>1 DEF Doomed, Is, Doom
  <2> QED
    BY <1>1, <1>2, <2>1, FrameFailure
<1> QED
  BY <1>5, <1>6, <1>7, <1>8, <1>9, <1>10, <1>11 DEF HInv

LEMMA MapStepEnd == ASSUME Good, MapStep PROVE HInv'
<1>1. CASE Gate
  <2>1. CASE stages = << >> /\ ExitThread("map")
    BY <1>1, <2>1, MapEnds DEF Gate
  <2>2. CASE Goto("map", "print")
    BY <1>1, <2>2, MapStages DEF Gate, kept
  <2> QED
    BY <1>1, <2>1, <2>2 DEF Gate
<1>2. CASE PrintStage
  <2>1. CASE Goto("map", "fault")
    BY <1>2, <2>1, PrintFault DEF PrintStage
  <2>2. CASE Goto("map", "printed") /\ failed' = failed
    BY <1>2, <2>2, MapStages DEF PrintStage, kept
  <2>3. CASE map.out /\ Call("map", "put", "printed") /\ failed' = failed
    <3>1. /\ LabelsOK' /\ Reporting' /\ Passed' /\ StatusCounted' /\ PutKept' /\ FailureSeen' /\ Alone' /\ Told'
          /\ Called("map", "put", "printed") /\ Others("map") /\ stack'["map"][1] = "put" /\ stack'["map"][2] = "printed"
          /\ Len(stack'["map"]) >= 2 /\ At("map", "print") /\ UNCHANGED <<kept, lock, err, map, failed>>
      <4>1. "printed" \in Returns /\ At("map", "print") /\ UNCHANGED <<kept, lock, err, map, table, exe, status, failed>>
        BY <1>2, <2>3 DEF Returns, PrintStage
      <4> QED
        BY <2>3, <4>1, CallFrames DEF kept
    <3>2. "map" \in Threads /\ stack["map"] # << >> /\ stack["map"][1] = "print" /\ Len(stack["map"]) = 1
      BY <3>1, AtIs, WhereAt, ThreadFacts DEF Good, Outermost
    <3>3. Counted'
      <4>1. CASE err.count = 0
        <5>1. ~Is("map", Losing)' /\ ~Is("map", {"abort"})' /\ ~Is("map", {"delete"})'
          BY <3>1 DEF Is, Losing
        <5>2. ~Is("map", {"error"}) /\ ~Is("map", {"errabort"})
          BY <3>2 DEF Is
        <5>3. ~Telling("map")'
          <6>1. Len(stack'["map"]) = 2
            BY <3>1, <3>2 DEF Called
          <6> QED
            BY <3>1, <6>1 DEF Telling, Is
        <5> QED
          BY <3>1, <3>2, <4>1, <5>1, <5>2, <5>3, CountedStep DEF SmallStep, kept
      <4>2. CASE err.count # 0
        BY <3>1, <4>2 DEF Counted
      <4> QED
        BY <4>1, <4>2
    <3> QED
      BY <3>1, <3>3 DEF HInv
  <2> QED
    BY <1>2, <2>1, <2>2, <2>3 DEF PrintStage
<1>3. CASE Printed
  <2>1. At("map", "printed") /\ Goto("map", "gate") /\ UNCHANGED <<opt, plan, lock, err, map, exit, status, failed>>
    BY <1>3 DEF Printed
  <2>2. stages # << >>
    <3>1. Len(stack["map"]) >= 1 /\ stack["map"][1] = "printed" /\ stack["map"] \in Seq(Labels)
      BY <2>1, AtIs, ThreadFacts DEF Good
    <3>2. 1 \in 1 .. Len(stack["map"])
      BY <3>1
    <3> QED
      BY <3>1, <3>2 DEF Good, TInv, UsesCounted, Printing
  <2> QED
    BY <2>1, <2>2, MapStages
<1> QED
  BY <1>1, <1>2, <1>3 DEF MapStep

-----------------------------------------------------------------------------
(* Main, from one step of its plan to the next.                            *)
LEMMA MainAdvances ==
  ASSUME Good, At("main", "main"), plan # << >>, Done, UNCHANGED <<opt, stack, stages, exit, status, err, lock, failed>>,
         Head(plan) = "pass1" => ~err.terr /\ \A r \in Readers : stack[r] = << >>,
         Head(plan) # "create" \/ ~MapWanted, Head(plan) = "join" => stack["map"] = << >>,
         Head(plan) = "flush" => map'.file \in {"none", "closed"},
         map'.file = map.file \/ (Head(plan) = "flush" /\ MapWanted /\ map'.file # "none"), map'.out = map.out
  PROVE  HInv'
<1>1. LabelsOK /\ Reporting /\ Passed /\ Counted /\ StatusCounted /\ PutKept /\ FailureSeen /\ Alone
  BY DEF Good, HInv
<1>2. LabelsOK' /\ Reporting' /\ StatusCounted' /\ PutKept'
  BY <1>1 DEF LabelsOK, Reporting, StatusCounted, PutKept, Is
<1>3. FailureSeen'
  BY <1>1 DEF FailureSeen, Doomed, Is
<1>4. Counted'
  BY <1>1 DEF Counted, Telling, Warning, MapOut, Is
<1>5. Alone' /\ Told'
  <2>1. ~err.noCancel /\ exit = Running
    BY AtIs, NotLeaving, ThreadFacts DEF Good
  <2>2. 0 \in {0} /\ 0 \notin Running
    BY DEF Running
  <2> QED
    BY <2>1, <2>2 DEF Alone, Told
<1>6. Passed'
  <2>1. /\ Size(opt) \in {13, 16} /\ Len(plan) \in 1 .. Size(opt)
        /\ Head(plan) = "flush" <=> Len(plan) = 2
        /\ Head(plan) = "join" <=> Len(plan) = 3
        /\ Head(plan) = "create" <=> Len(plan) = Size(opt) - 1
        /\ Head(plan) = "pass1" <=> Len(plan) = Size(opt)
    BY PlanHead DEF Good, TInv
  <2>2. Len(plan') = Len(plan) - 1 /\ Size(opt)' = Size(opt) /\ MapWanted' = MapWanted
    BY PlanDone DEF Good, TInv, Done, Size, MapWanted
  <2>3. Len(plan') < Size(opt) => ~err.terr /\ \A r \in Readers : stack[r] = << >>
    BY <1>1, <2>1, <2>2 DEF Passed
  <2>4. Len(plan') >= Size(opt) - 1 => stack["map"] = << >>
    BY <1>1, <2>1, <2>2 DEF Passed
  <2>5. Len(plan') < Size(opt) - 1 /\ stack["map"] = << >> => stages = << >>
    BY <1>1, <2>1, <2>2 DEF Passed
  <2>6. Len(plan') <= 2 => stack["map"] = << >>
    BY <1>1, <2>1, <2>2 DEF Passed
  <2>7. Len(plan') <= 1 => map'.file \in {"none", "closed"}
    <3>1. CASE Len(plan) = 2
      BY <2>1, <3>1
    <3>2. CASE Len(plan) # 2
      <4>1. Len(plan') <= 1 => Len(plan) <= 1
        BY <2>1, <2>2, <3>2
      <4>2. map'.file = map.file
        BY <2>1, <3>2
      <4>3. Len(plan) <= 1 => map.file \in {"none", "closed"}
        BY <1>1 DEF Passed
      <4> QED
        BY <4>1, <4>2, <4>3
    <3> QED
      BY <3>1, <3>2
  <2>8. ~MapWanted => stages = << >> /\ map'.file = "none"
    BY <1>1 DEF Passed
  <2>9. map'.file = "none" => ~map'.out
    BY <1>1 DEF Passed
  <2>10. err.aborting => ~map'.out
    BY <1>1 DEF Passed
  <2> QED
    BY <2>2, <2>3, <2>4, <2>5, <2>6, <2>7, <2>8, <2>9, <2>10 DEF Passed
<1> QED
  BY <1>1, <1>2, <1>3, <1>4, <1>5, <1>6 DEF HInv

LEMMA CreateEnd == ASSUME Good, CreateMapThread PROVE HInv'
<1>1. /\ At("main", "main") /\ plan # << >> /\ Head(plan) = "create" /\ "main" \in Threads /\ "map" \in Threads
      /\ UNCHANGED <<opt, stages, allowed, lock, err, map, table, exe, status, exit, said>>
  BY ThreadFacts DEF CreateMapThread, Main
<1>2. /\ stack["main"] # << >> /\ stack["main"][1] = "main" /\ exit = Running /\ Len(stack["main"]) = 1
      /\ stack \in [Threads -> Seq(Labels)]
  BY <1>1, AtIs, WhereAt DEF Good, Outermost, TInv, StacksOK
<1>3. CASE Goto("main", "errabort")
  <2>1. "main" \in Doing /\ "errabort" \in Onward /\ "errabort" \in Doom /\ "errabort" \notin Losing /\ plan' = plan
    <3>1. plan' = plan \/ (Done /\ stack' = [stack EXCEPT !["map"] = IF MapWanted THEN <<"gate">> ELSE @])
      BY DEF CreateMapThread
    <3>2. stack'["main"] # stack["main"]
      <4>1. stack'["main"][1] = "errabort"
        BY <1>1, <1>2, <1>3 DEF Goto
      <4> QED
        BY <1>2, <4>1
    <3>3. plan' = plan
      BY <1>1, <1>2, <3>1, <3>2, ThreadFacts
    <3> QED
      BY <3>3 DEF Doing, Onward, Losing, Doom
  <2> QED
    BY <1>1, <1>3, <2>1, GotoEnd
<1>4. CASE Done /\ stack' = [stack EXCEPT !["map"] = IF MapWanted THEN <<"gate">> ELSE @] /\ failed' = failed
  <2>1. CASE ~MapWanted
    <3>1. stack' = stack
      BY <1>2, <1>4, <2>1
    <3> QED
      BY <1>1, <1>4, <2>1, <3>1, MainAdvances
  <2>2. CASE MapWanted
    <3>1. stack'["map"] = <<"gate">> /\ \A u \in Threads \ {"map"} : stack'[u] = stack[u]
      BY <1>1, <1>2, <1>4, <2>2
    <3>2. Len(stack'["map"]) = 1 /\ stack'["map"][1] = "gate" /\ stack'["map"] # << >>
      BY <3>1
    <3>3. ~err.noCancel
      BY <1>1, NotLeaving
    <3>4. /\ Size(opt) \in {13, 16} /\ Len(plan) = Size(opt) - 1
          /\ Len(plan') = Len(plan) - 1 /\ Size(opt)' = Size(opt) /\ MapWanted' = MapWanted
      BY <1>1, <1>4, PlanHead, PlanDone DEF Good, TInv, Done, Size, MapWanted
    <3>5. stack["map"] = << >>
      BY <3>4 DEF Good, HInv, Passed
    <3>6. LabelsOK'
      <4>1. LabelsOK
        BY DEF Good, HInv
      <4>2. stack'["main"] = stack["main"] /\ \A r \in Readers : stack'[r] = stack[r]
        BY <3>1, ThreadFacts
      <4>3. \A i \in 1 .. Len(stack'["map"]) : stack'["map"][i] \in ErrorLabels \cup {"gate", "print", "printed"}
        BY <3>2
      <4> QED
        BY <1>1, <3>1, <3>2, <4>1, <4>2, <4>3 DEF LabelsOK, Is
    <3>7. Reporting'
      BY <1>1, <3>1, <3>2 DEF Good, HInv, Reporting
    <3>8. Passed'
      <4>1. Passed /\ \A r \in Readers : stack'[r] = stack[r]
        BY <3>1, ThreadFacts DEF Good, HInv
      <4> QED
        BY <1>1, <2>2, <3>2, <3>4, <4>1 DEF Passed
    <3>9. Counted'
      <4> SUFFICES ASSUME err.count = 0 PROVE Counted'
        BY <1>1 DEF Counted
      <4>1. Counted /\ lock' = lock /\ opt' = opt /\ err' = err
        BY <1>1 DEF Good, HInv
      <4>2. ~Is("main", {"errabort", "error"}) /\ ~Is("main", Losing) /\ ~Is("main", {"error"})
        BY <1>2 DEF Is, Losing
      <4>3. ~Is("map", {"errabort", "error"}) /\ ~Is("map", Losing)
        BY <3>5 DEF Is
      <4>4. ~err.critical /\ ~(err.aborting /\ opt.messages > 0)
        BY <4>1, <4>2, <4>3 DEF Counted
      <4>5. ~Is("main", Losing)' /\ ~Is("map", Losing)'
        BY <3>1, <3>2, <4>2, ThreadFacts DEF Is, Losing
      <4>6. \A u \in Threads : Telling(u)' => u = "main" /\ opt'.messages > 0 /\ Warning'
        <5> SUFFICES ASSUME NEW u \in Threads, Telling(u)' PROVE u = "main" /\ opt'.messages > 0 /\ Warning'
          OBVIOUS
        <5>1. u # "map"
          BY <3>2 DEF Telling, Is
        <5>2. stack'[u] = stack[u]
          BY <3>1, <5>1
        <5>3. Telling(u)
          BY <5>2 DEF Telling, Is
        <5> QED
          BY <4>1, <5>2, <5>3 DEF Counted, Warning
      <4>7. /\ \A u \in Threads : Is(u, {"abort"})' => err'.noCancel
            /\ \A u \in Threads : ~Is(u, {"delete"})'
        BY <3>1, <3>2, <4>1 DEF Counted, Is
      <4> QED
        BY <4>1, <4>4, <4>5, <4>6, <4>7 DEF Counted
    <3>10. StatusCounted' /\ Alone' /\ Told'
      <4>1. Others("map")
        BY <3>1 DEF Others
      <4> QED
        BY <1>1, <1>2, <3>2, <3>3, <4>1, FrameEnd
    <3>11. PutKept'
      <4>1. Others("map")
        BY <3>1 DEF Others
      <4> QED
        BY <1>1, <3>2, <4>1, FramePut
    <3>12. FailureSeen'
      <4>1. ~Doomed("map") /\ Others("map")
        BY <3>1, <3>5 DEF Doomed, Is, Others
      <4> QED
        BY <1>1, <1>4, <4>1, FrameFailure
    <3> QED
      BY <3>6, <3>7, <3>8, <3>9, <3>10, <3>11, <3>12 DEF HInv
  <2> QED
    BY <2>1, <2>2
<1> QED
  BY <1>3, <1>4 DEF CreateMapThread

LEMMA MessageEnd == ASSUME Good, Message PROVE HInv'
<1>1. PICK kind \in {"error", "warning"} : Call("main", kind, "main")
  BY DEF Message
<1>2. /\ At("main", "main") /\ opt.messages > 0 /\ "main" \in Returns /\ "main" \in Threads
      /\ UNCHANGED <<opt, plan, stages, allowed, lock, err, map, table, exe, status, exit, failed>>
  <2>1. said \in Nat /\ opt.messages \in Nat
    BY OptTypes DEF Good, TInv, EndTypeOK
  <2> QED
    BY <2>1, ThreadFacts DEF Message, Main, Returns
<1>3. /\ LabelsOK' /\ Reporting' /\ Passed' /\ StatusCounted' /\ PutKept' /\ FailureSeen' /\ Alone' /\ Told'
      /\ Called("main", kind, "main") /\ Others("main") /\ stack'["main"][1] = kind /\ stack'["main"][2] = "main"
      /\ Len(stack'["main"]) >= 2
  BY <1>1, <1>2, CallFrames
<1>4. stack["main"] # << >> /\ stack["main"][1] = "main" /\ Len(stack["main"]) = 1
  BY <1>2, AtIs, WhereAt DEF Good, Outermost
<1>5. Counted'
  <2>1. CASE err.count = 0
    <3>1. Len(stack'["main"]) = 2
      BY <1>3, <1>4 DEF Called
    <3>2. ~Telling("main")' /\ ~Is("main", Losing)' /\ ~Is("main", {"abort"})' /\ ~Is("main", {"delete"})'
      BY <1>3, <3>1 DEF Telling, Is, Losing
    <3>3. ~Is("main", {"error"}) /\ ~Is("main", {"errabort"})
      BY <1>4 DEF Is
    <3> QED
      BY <1>2, <1>3, <1>4, <2>1, <3>2, <3>3, CountedStep DEF SmallStep
  <2>2. CASE err.count # 0
    BY <1>2, <2>2 DEF Counted
  <2> QED
    BY <2>1, <2>2
<1> QED
  BY <1>3, <1>5 DEF HInv

LEMMA WriteExeEnd == ASSUME Good, WriteExe PROVE HInv'
<1>1. /\ At("main", "main") /\ plan # << >> /\ Head(plan) \in Writing /\ "main" \in Threads
      /\ UNCHANGED <<opt, stages, allowed, lock, err, map, table, exe, status, exit, said>>
  BY ThreadFacts DEF WriteExe, Main
<1>2. CASE Done /\ UNCHANGED <<stack, failed>>
  BY <1>1, <1>2, MainAdvances DEF Writing
<1>3. CASE WriteFails("main", "exe") /\ plan' = plan
  <2>1. "main" \in Doing /\ "full" \in Onward \cup {"full"} /\ "full" \in Doom /\ "full" \notin Losing
    BY DEF Doing, Losing, Doom
  <2>2. Goto("main", "full")
    BY <1>3 DEF WriteFails, Fails, Good, Supposed
  <2> QED
    BY <1>1, <1>3, <2>1, <2>2, GotoEnd
<1> QED
  BY <1>2, <1>3 DEF WriteExe

LEMMA FlushMapEnd == ASSUME Good, FlushMap PROVE HInv'
<1>1. /\ At("main", "main") /\ plan # << >> /\ Head(plan) = "flush" /\ "main" \in Threads
      /\ UNCHANGED <<opt, stages, allowed, lock, err, table, exe, status, exit, said>>
      /\ DOMAIN map = {"out", "flushed", "file"}
  BY ThreadFacts DEF FlushMap, Main, Good, EndTypeOK
<1>2. CASE ~MapWanted
  <2>1. map.file = "none"
    BY <1>2 DEF Good, HInv, Passed
  <2> QED
    BY <1>1, <1>2, <2>1, MainAdvances DEF FlushMap
<1>3. CASE map' = [map EXCEPT !.flushed = TRUE, !.file = "closed"] /\ Done /\ UNCHANGED <<stack, failed>> /\ MapWanted
  <2>1. map'.file = "closed" /\ map'.out = map.out
    BY <1>1, <1>3
  <2> QED
    BY <1>1, <1>3, <2>1, MainAdvances
<1>4. CASE map' = [map EXCEPT !.flushed = TRUE] /\ WriteFails("main", "map") /\ plan' = plan
  <2>1. map'.file = map.file /\ map'.out = map.out
    BY <1>1, <1>4
  <2>2. PICK l \in {"lost", "full"} : Goto("main", l) /\ (l = "full" => opt.messages = 0)
    BY <1>4, FailsMap
  <2>3. "main" \in Doing /\ l \in Onward \cup {"full"} /\ l \in Doom
    BY DEF Doing, Onward, Losing, Doom
  <2>4. MapOut
    <3>1. Len(plan) = 2
      BY <1>1, PlanHead DEF Good, TInv
    <3>2. stack["map"] = << >>
      BY <3>1 DEF Good, HInv, Passed
    <3> QED
      BY <3>2 DEF MapOut
  <2> QED
    BY <1>1, <1>4, <2>1, <2>2, <2>3, <2>4, GotoEnd
<1> QED
  BY <1>2, <1>3, <1>4 DEF FlushMap

(* Main leaves when all it waited for is done, and nothing failed meanwhile. *)
LEMMA LeaveEnd == ASSUME Good, Leave PROVE HInv'
<1>1. /\ At("main", "main") /\ plan # << >> /\ Head(plan) = "leave" /\ "main" \in Threads /\ "map" \in Threads
      /\ UNCHANGED <<kept, lock, map, table, exe, status, failed>> /\ Goto("main", "abort")
      /\ DOMAIN err = {"count", "aborting", "critical", "terr", "noCancel"} /\ err' = [err EXCEPT !.noCancel = TRUE]
  BY ThreadFacts DEF Leave, Main, Good, EndTypeOK
<1>2. /\ err'.count = err.count /\ err'.aborting = err.aborting /\ err'.critical = err.critical /\ err'.terr = err.terr
      /\ err'.noCancel
  BY <1>1
<1>3. /\ stack["main"] # << >> /\ stack["main"][1] = "main" /\ exit = Running /\ Len(stack["main"]) = 1
      /\ stack["main"] \in Seq(Labels)
  BY <1>1, AtIs, WhereAt DEF Good, Outermost
<1>4. Replaced("main", "abort") /\ Others("main")
  <2>1. "abort" \in Labels \ Outermost
    BY DEF Labels, Outermost
  <2> QED
    BY <1>1, <1>3, <2>1, GotoReplaced DEF Good, Replaced
<1>5. Len(stack'["main"]) = 1 /\ stack'["main"][1] = "abort" /\ stack'["main"] # << >>
  BY <1>3, <1>4 DEF Replaced
<1>6. Size(opt) \in {13, 16} /\ Len(plan) = 1
  BY <1>1, PlanHead DEF Good, TInv
<1>7. /\ ~err.terr /\ stack["map"] = << >> /\ stages = << >> /\ map.file \in {"none", "closed"}
      /\ \A r \in Readers : stack[r] = << >>
  BY <1>6 DEF Good, HInv, Passed
<1>8. \A u \in Threads \ {"main"} : stack[u] = << >> /\ stack'[u] = << >>
  BY <1>4, <1>7, ThreadFacts DEF Others
<1>9. failed = {}
  <2>1. \A u \in Threads \ {"main"} : ~Doomed(u)
    <3> SUFFICES ASSUME NEW u \in Threads \ {"main"} PROVE ~Doomed(u)
      OBVIOUS
    <3>1. Len(stack[u]) = 0
      BY <1>8
    <3> QED
      BY <3>1 DEF Doomed, Is
  <2>2. ~Doomed("main")
    BY <1>3 DEF Doomed, Is, Doom
  <2> QED
    BY <1>7, <2>1, <2>2 DEF Good, HInv, FailureSeen
<1>10. LabelsOK' /\ Reporting'
  <2>1. "abort" \in ErrorLabels \cup {"report", "terr"} /\ "main" \notin Readers
    BY ThreadFacts DEF ErrorLabels
  <2>2. opt' = opt
    BY <1>1 DEF kept
  <2> QED
    BY <1>1, <1>2, <1>4, <2>1, <2>2, GotoLabels, GotoReporting
<1>11. Passed'
  <2>1. UNCHANGED <<opt, plan, stages>>
    BY <1>1 DEF kept
  <2> QED
    BY <1>1, <1>2, <1>3, <1>4, <1>5, <2>1, FramePassed
<1>12. PutKept'
  <2>1. opt' = opt
    BY <1>1 DEF kept
  <2> QED
    BY <1>1, <1>4, <1>5, <2>1, ThreadFacts, FramePut
<1>13. FailureSeen'
  BY <1>1, <1>9 DEF FailureSeen
<1>14. Told'
  <2>1. exit' = Running /\ 0 \in {0} /\ 0 \notin Running
    BY <1>1, <1>3 DEF Running, kept
  <2> QED
    BY <2>1 DEF Told
<1>15. Alone'
  <2>1. Is("main", {"abort", "delete", "exit"})'
    BY <1>5 DEF Is
  <2> QED
    BY <1>1, <1>7, <1>8, <1>9, <2>1 DEF Alone, kept
<1>16. \A u \in Threads \ {"main"} : Len(stack'[u]) = 0
  BY <1>8
<1>17. StatusCounted'
  BY <1>5, <1>16 DEF StatusCounted, Is
<1>18. Counted'
  <2> SUFFICES ASSUME err.count = 0 PROVE Counted'
    BY <1>2 DEF Counted
  <2>1. ~Is("main", {"errabort", "error"}) /\ ~Is("main", {"error"})
    BY <1>3 DEF Is
  <2>2. ~Is("map", {"errabort", "error"})
    BY <1>7 DEF Is
  <2>3. ~err.critical /\ ~(err.aborting /\ opt.messages > 0)
    BY <2>1, <2>2 DEF Good, HInv, Counted
  <2>4. \A u \in Threads : ~Telling(u)' /\ ~Is(u, Losing)' /\ ~Is(u, {"delete"})'
    <3>1. ~Telling("main")' /\ ~Is("main", Losing)' /\ ~Is("main", {"delete"})'
      BY <1>5 DEF Telling, Is, Losing
    <3>2. \A u \in Threads \ {"main"} : ~Telling(u)' /\ ~Is(u, Losing)' /\ ~Is(u, {"delete"})'
      BY <1>16 DEF Telling, Is
    <3> QED
      BY <3>1, <3>2
  <2>5. opt' = opt
    BY <1>1 DEF kept
  <2> QED
    BY <1>1, <1>2, <2>3, <2>4, <2>5 DEF Counted
<1> QED
  BY <1>10, <1>11, <1>12, <1>13, <1>14, <1>15, <1>17, <1>18 DEF HInv

LEMMA MainStepEnd == ASSUME Good, MainStep PROVE HInv'
<1>1. CASE Pass1
  BY <1>1, MainAdvances DEF Pass1, Main, rest, Ended
<1>2. CASE AdjustFlags
  BY <1>2, MainAdvances DEF AdjustFlags, Main, rest
<1>3. CASE Unuse
  BY <1>3, MainAdvances DEF Unuse, Main, rest
<1>4. CASE JoinMap
  BY <1>4, MainAdvances DEF JoinMap, Main, rest, Ended
<1>5. CASE Allow
  <2>1. /\ At("main", "main") /\ plan # << >> /\ Head(plan) \in Parts /\ Done
        /\ UNCHANGED <<opt, stack, lock, err, map, table, exe, status, exit, said, failed, stages>>
    BY <1>5 DEF Allow, Main
  <2>2. Head(plan) \notin {"pass1", "create", "join", "flush"}
    BY <2>1 DEF Parts
  <2> QED
    BY <2>1, <2>2, MainAdvances
<1> QED
  BY <1>1, <1>2, <1>3, <1>4, <1>5, MessageEnd, BadObjectEnd, CreateEnd, WriteExeEnd, FlushMapEnd, LeaveEnd DEF MainStep

LEMMA NextEnd == EInv /\ [Next]_vars => EInv'
<1> SUFFICES ASSUME EInv, [Next]_vars PROVE EInv'
  OBVIOUS
<1>1. TInv' /\ EndTypeOK'
  BY NextTable, EndTypeNext DEF EInv
<1>2. opt' = opt
  BY DEF Next, ThreadStep, Routines, MainStep, MapStep, vars, kept, rest, Abort, DeleteExe, Exit, Fault, Notify, Faulted,
     ErrorStart, ErrorPhase3, ErrorEnds, ErrAbort, TerrAbort, TerrReport, LstOut, PutData, DosFail, DiskFull, FlushDisable,
     MapOff, Critical, Read, Gate, PrintStage, Printed, Pass1, Message, BadObject, CreateMapThread, AdjustFlags, Allow,
     WriteExe, Unuse, JoinMap, FlushMap, Leave
<1>3. ASSUME Supposed' PROVE HInv'
  <2>1. Good
    BY <1>1, <1>2, <1>3 DEF EInv, Good, Supposed
  <2>2. CASE UNCHANGED vars
    <3>1. UNCHANGED <<opt, stack, plan, stages, err, map, status, failed>> /\ lock'["put"] = lock["put"] /\ exit' = exit
      BY <2>2 DEF vars
    <3>2. Told'
      BY <2>1, <3>1 DEF Good, HInv, Told
    <3> QED
      BY <2>1, <3>1, <3>2, SameStacks DEF HInv
  <2>3. ASSUME NEW t \in Threads, ThreadStep(t) PROVE HInv'
    BY <2>1, <2>3, RoutineEnd, ReadEnd, MapStepEnd, MainStepEnd DEF ThreadStep
  <2> QED
    BY <2>2, <2>3 DEF Next
<1> QED
  BY <1>1, <1>3 DEF EInv

LEMMA InitEnd == Init => EInv
<1> SUFFICES ASSUME Init PROVE EInv
  OBVIOUS
<1>1. TInv
  BY InitTable
<1>2. EndTypeOK
  BY DEF Init, EndTypeOK
<1>3. /\ err.count = 0 /\ ~err.aborting /\ ~err.critical /\ ~err.terr /\ ~err.noCancel
      /\ failed = {} /\ exit = Running /\ map.out = MapWanted /\ map.file = (IF MapWanted THEN "open" ELSE "none")
  BY DEF Init
<1>4. /\ Len(stack["main"]) = 1 /\ stack["main"][1] = "main"
      /\ stack["map"] = << >> /\ Len(stack["map"]) = 0
      /\ \A r \in Readers : Len(stack[r]) = 1 /\ stack[r][1] = "read"
  <2>1. stack["main"] = <<"main">> /\ stack["map"] = << >> /\ \A r \in Readers : stack[r] = <<"read">>
    <3>1. stack = [t \in Threads |-> IF t = "main" THEN <<"main">> ELSE IF t = "map" THEN << >> ELSE <<"read">>]
      BY DEF Init
    <3>2. \A t \in Threads : stack[t] = IF t = "main" THEN <<"main">> ELSE IF t = "map" THEN << >> ELSE <<"read">>
      BY <3>1
    <3> QED
      BY <3>2, ThreadFacts
  <2>2. /\ Len(<<"main">>) = 1 /\ <<"main">>[1] = "main" /\ Len(<<"read">>) = 1 /\ <<"read">>[1] = "read"
        /\ Len(<< >>) = 0
    OBVIOUS
  <2>3. Len(stack["main"]) = 1 /\ stack["main"][1] = "main" /\ stack["map"] = << >> /\ Len(stack["map"]) = 0
    BY <2>1, <2>2
  <2>4. ASSUME NEW r \in Readers PROVE Len(stack[r]) = 1 /\ stack[r][1] = "read"
    <3>1. stack[r] = <<"read">>
      BY <2>1
    <3> QED
      BY <2>2, <3>1
  <2> QED
    BY <2>3, <2>4
<1>5. \A t \in Threads : Len(stack[t]) = 0 \/ (Len(stack[t]) = 1 /\ stack[t][1] \in {"main", "read"})
  BY <1>4, ThreadFacts
<1>6. LabelsOK
  BY <1>4, <1>5, ThreadFacts DEF LabelsOK, Is
<1>7. Reporting
  BY <1>5 DEF Reporting
<1>8. Passed
  <2>1. Size(opt) \in {13, 16} /\ Len(plan) = Size(opt)
    BY <1>1, PlanSizes DEF TInv, Init, Size
  <2>2. ~MapWanted => stages = << >>
    <3> SUFFICES ASSUME ~MapWanted PROVE stages = << >>
      OBVIOUS
    <3>1. \A s \in Parts : IfWanted(s) = << >>
      BY DEF MapWanted, IfWanted
    <3>2. WantedParts = << >> \o << >> \o << >> \o << >> \o << >> \o << >>
      BY <3>1 DEF WantedParts, Parts
    <3>3. << >> \o << >> = << >>
      OBVIOUS
    <3> QED
      BY <3>2, <3>3 DEF Init
  <2> QED
    BY <1>3, <1>4, <2>1, <2>2 DEF Passed
<1>9. StatusCounted /\ PutKept
  BY <1>4, <1>5 DEF StatusCounted, PutKept, Is
<1>10. Counted
  <2>1. \A t \in Threads : ~Telling(t) /\ ~Is(t, Losing) /\ ~Is(t, {"abort"}) /\ ~Is(t, {"delete"})
    BY <1>5 DEF Telling, Is, Losing
  <2> QED
    BY <1>3, <2>1, ThreadFacts DEF Counted
<1>11. FailureSeen /\ Alone
  BY <1>3 DEF FailureSeen, Alone
<1>12. Told
  <2>1. 0 \in {0} /\ 0 \notin Running
    BY DEF Running
  <2> QED
    BY <1>3, <2>1 DEF Told
<1> QED
  BY <1>1, <1>2, <1>6, <1>7, <1>8, <1>9, <1>10, <1>11, <1>12 DEF EInv, HInv

(* A link that ends with status 0 met no failure, gave no error and left a  *)
(* whole map: the console and the executable's device apart, and on a link  *)
(* whose map file fills the disk while main has messages to give (its last  *)
(* warning may then end the process, by _abort, before any error counts).   *)
THEOREM StatusTellsFailure ==
  ASSUME \A s \in Scenarios : "map full" \in s.fails => s.messages = 0
  PROVE  Spec => []ExitTellsMostFailures
<1>1. EInv => ExitTellsMostFailures
  <2> SUFFICES ASSUME EInv, opt.fails \cap {"console", "exe"} = {}, exit = {0}
      PROVE  failed = {} /\ err.count = 0 /\ stages = << >> /\ map.file \in {"none", "closed"}
    BY DEF ExitTellsMostFailures, ExitTellsFailure
  <2>1. Supposed
    BY DEF EInv, TInv, Supposed
  <2>2. err.noCancel /\ err.count = 0 /\ Alone
    BY <2>1 DEF EInv, HInv, Told
  <2> QED
    BY <2>2 DEF Alone
<1> QED
  BY InitEnd, NextEnd, <1>1, PTL DEF Spec
=============================================================================
