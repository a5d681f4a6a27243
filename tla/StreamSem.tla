----------------------------- MODULE StreamSem -------------------------------
(***************************************************************************)
(* The GLOBALSEM used as a counting semaphore between threads: one thread  *)
(* captures, the others release and never capture.  So are the six         *)
(* semaphores of an OPREAD thread (main on the other side), and the        *)
(* MYL2_LIB_BLOCK_SEM and MYL2_BLOCK_READ_SEM of a LIBREAD thread.         *)
(***************************************************************************)
EXTENDS GlobalSem

CONSTANTS
  Consumer,        \* the only thread that captures
  InitialUnits,    \* units left by the INIT_EAX, RELEASE_EAX, CAPTURE_EAX calls that set it up
  MaxGiven         \* bound on the releases explored

ASSUME StreamAssumption ==
  /\ Consumer \in Threads
  /\ InitialUnits \in Nat
  /\ MaxGiven \in Nat

VARIABLE given     \* releases so far, only to bound them

streamVars == <<counter, kernel, pc, given>>

Producers == Threads \ {Consumer}

StreamInit ==
  /\ counter = -InitialUnits
  /\ kernel = 0
  /\ pc = [t \in Threads |-> "idle"]
  /\ given = 0

(* A producer makes one unit available. *)
Give(p) ==
  /\ pc[p] = "idle"
  /\ given < MaxGiven
  /\ ReleaseFast(p) \/ ReleaseSlow(p)
  /\ given' = given + 1

Post(p) == ReleasePost(p) /\ UNCHANGED given

Take == (CaptureFast(Consumer) \/ CaptureSlow(Consumer)) /\ UNCHANGED given

Wait == CaptureWait(Consumer) /\ UNCHANGED given

(* The consumer does its work with the unit and comes back for another. *)
Use ==
  /\ pc[Consumer] = "owner"
  /\ pc' = [pc EXCEPT ![Consumer] = "idle"]
  /\ UNCHANGED <<counter, kernel, given>>

StreamNext ==
  \/ \E p \in Producers : Give(p) \/ Post(p)
  \/ Take
  \/ Wait
  \/ Use

StreamFairness ==
  /\ \A p \in Producers : WF_streamVars(Post(p))
  /\ WF_streamVars(Wait)

StreamSpec == StreamInit /\ [][StreamNext]_streamVars /\ StreamFairness

------------------------------------------------------------------------------
(* Units that can be taken: in the counter, at the kernel, on their way.   *)
Units ==
  (IF counter < 0 THEN -counter ELSE 0) + kernel + Cardinality(At("posting"))

(* No unit is lost or made up: the implementation is the credit counter.   *)
Credit == INSTANCE AbstractCredit WITH
            InitialCredit <- InitialUnits,
            credit <- Units,
            asking <- pc[Consumer] = "waiting"

ImplementsCredit == Credit!CreditSpec
==============================================================================
