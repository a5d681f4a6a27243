---------------------------- MODULE AbstractLock -----------------------------
(***************************************************************************)
(* What the CAPTURE / RELEASE macros promise the linker when a semaphore   *)
(* guards shared state: at most one thread is inside, a thread that asked  *)
(* while another was inside is remembered, and while anybody is remembered *)
(* a free lock is eventually granted.                                      *)
(***************************************************************************)
CONSTANTS Threads, None

VARIABLES owner, wants

lockVars == <<owner, wants>>

LockInit ==
  /\ owner = None
  /\ wants = {}

Ask(t) ==
  /\ t \notin wants \union {owner}
  /\ wants' = wants \union {t}
  /\ UNCHANGED owner

Acquire(t) ==
  /\ owner = None
  /\ owner' = t
  /\ wants' = wants \ {t}

Leave(t) ==
  /\ owner = t
  /\ owner' = None
  /\ UNCHANGED wants

LockNext == \E t \in Threads : Ask(t) \/ Acquire(t) \/ Leave(t)

LockSafety == LockInit /\ [][LockNext]_lockVars

LockSpec == LockSafety /\ WF_lockVars(\E t \in wants : Acquire(t))
==============================================================================
