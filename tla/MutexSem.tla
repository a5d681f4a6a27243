------------------------------ MODULE MutexSem -------------------------------
(***************************************************************************)
(* The GLOBALSEM used as a lock (GLOBALALLOC_SEM, LIB_REQUEST_ORDER_SEM,   *)
(* ERROR_SEM, _SAY_VERBOSE_SEM ...): any thread may capture it and only    *)
(* the thread that captured it releases it.                                *)
(***************************************************************************)
EXTENDS GlobalSem

CONSTANT None      \* not a thread

ASSUME NoneAssumption == None \notin Threads

Capture(t) == CaptureFast(t) \/ CaptureSlow(t)

Release(t) == pc[t] = "owner" /\ (ReleaseFast(t) \/ ReleaseSlow(t))

Step(t) == Capture(t) \/ CaptureWait(t) \/ Release(t) \/ ReleasePost(t)

Next == \E t \in Threads : Step(t)

(***************************************************************************)
(* The scheduler runs a thread that can run, a critical section ends, and  *)
(* the kernel does not pass over a waiter for ever.  A thread need not     *)
(* ever capture.                                                           *)
(***************************************************************************)
Fairness ==
  \A t \in Threads :
    /\ WF_semVars(Release(t) \/ ReleasePost(t))
    /\ SF_semVars(CaptureWait(t))

Spec == InitSem /\ [][Next]_semVars /\ Fairness

------------------------------------------------------------------------------
(* Two threads never own the semaphore together, whatever is interleaved   *)
(* between the interlocked instruction and the kernel call.                *)
MutualExclusion == \A t, u \in At("owner") : t = u

(* The counter is one less than the number of threads inside or asleep.    *)
CounterCounts == counter + 1 = Cardinality(At("waiting") \union At("owner"))

(* There is one token: free in the counter, owned by a thread, on its way  *)
(* to the kernel object, or signalled there.                               *)
OneToken ==
  /\ \A t, u \in At("owner") \union At("posting") : t = u
  /\ kernel = 1 => At("owner") \union At("posting") = {}
  /\ counter = -1 => kernel = 0 /\ At("owner") \union At("posting") = {}
  /\ counter >= 0 => kernel = 1 \/ At("owner") \union At("posting") # {}

(* The counter counts the threads that went in, and exactly one token      *)
(* exists.  MutualExclusion alone is not inductive: nothing in it stops a  *)
(* second signal at the kernel.                                            *)
IInv == SemTypeOK /\ CounterCounts /\ OneToken

(* The token implements the lock. *)
Lock == INSTANCE AbstractLock WITH
          owner <- IF At("owner") = {} THEN None ELSE CHOOSE t \in Threads : pc[t] = "owner",
          wants <- At("waiting")

(* The interlocked counter with a one-bit kernel object behaves as the     *)
(* abstract lock, liveness included.                                       *)
ImplementsLock == Lock!LockSpec
==============================================================================
