--------------------------- MODULE AbstractCredit ----------------------------
(***************************************************************************)
(* What a counting GLOBALSEM promises: credits that are given are kept     *)
(* until they are taken, each is taken once, and a consumer that waits     *)
(* gets one as long as there is one.                                       *)
(***************************************************************************)
EXTENDS Naturals

CONSTANTS InitialCredit, MaxGiven

VARIABLES credit, given, asking

creditVars == <<credit, given, asking>>

CreditInit ==
  /\ credit = InitialCredit
  /\ given = 0
  /\ asking = FALSE

Give ==
  /\ given < MaxGiven
  /\ credit' = credit + 1
  /\ given' = given + 1
  /\ UNCHANGED asking

AskCredit ==
  /\ ~asking
  /\ asking' = TRUE
  /\ UNCHANGED <<credit, given>>

Take ==
  /\ credit > 0
  /\ credit' = credit - 1
  /\ asking' = FALSE
  /\ UNCHANGED given

CreditNext == Give \/ AskCredit \/ Take

CreditSafety == CreditInit /\ [][CreditNext]_creditVars

CreditSpec == CreditSafety /\ WF_creditVars(asking /\ Take)
==============================================================================
