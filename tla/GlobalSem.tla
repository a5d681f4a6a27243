------------------------------ MODULE GlobalSem ------------------------------
(***************************************************************************)
(* OPTLINK's user-mode semaphore, ntio/capturec.c.  A GLOBALSEM_STRUCT is  *)
(* a counter kept with LOCK INC / LOCK DEC and a Win32 semaphore created   *)
(* with initial count 0 and MAXIMUM COUNT 1.  A counter of -u means that u *)
(* units can be taken without the kernel; a counter of n >= 0 means that n *)
(* captures have gone, or are going, to sleep on the kernel object.        *)
(*                                                                         *)
(* Every interlocked instruction and every kernel call is a step, so that  *)
(* a thread may be suspended between the two.  This module has the steps   *)
(* of one semaphore; MutexSem and StreamSem add the two disciplines under  *)
(* which the linker uses it.                                               *)
(***************************************************************************)
EXTENDS Integers, FiniteSets

CONSTANT Threads   \* the threads that share the semaphore

ASSUME ThreadsAssumption == IsFiniteSet(Threads) /\ Threads # {}

VARIABLES
  counter,   \* _SEM_COUNTER
  kernel,    \* signal count of the Win32 semaphore _SEM_ITSELF
  pc         \* where each thread is in _capture_eax / _release_eax

semVars == <<counter, kernel, pc>>

(***************************************************************************)
(* "idle"    outside the semaphore calls and owning nothing;               *)
(* "waiting" incremented the counter above zero, in WaitForSingleObject;   *)
(* "owner"   _capture_eax has returned;                                    *)
(* "posting" decremented the counter, about to call ReleaseSemaphore.      *)
(***************************************************************************)
Locations == {"idle", "waiting", "owner", "posting"}

At(loc) == {t \in Threads : pc[t] = loc}

SemTypeOK ==
  /\ counter \in Int
  /\ kernel \in {0, 1}
  /\ pc \in [Threads -> Locations]

(* _init_eax: one unit, nothing signalled. *)
InitSem ==
  /\ counter = -1
  /\ kernel = 0
  /\ pc = [t \in Threads |-> "idle"]

(* LOCK INC gives zero or less: the unit is taken without the kernel. *)
CaptureFast(t) ==
  /\ pc[t] = "idle"
  /\ counter + 1 <= 0
  /\ counter' = counter + 1
  /\ pc' = [pc EXCEPT ![t] = "owner"]
  /\ UNCHANGED kernel

(* Fault: the sleeper takes its increment back. *)
CaptureSlowUncounted(t) ==
  /\ pc[t] = "idle"
  /\ counter + 1 > 0
  /\ pc' = [pc EXCEPT ![t] = "waiting"]
  /\ UNCHANGED <<counter, kernel>>

(* LOCK INC gives a positive count: go and wait on the kernel object. *)
CaptureSlow(t) ==
  /\ pc[t] = "idle"
  /\ counter + 1 > 0
  /\ counter' = counter + 1
  /\ pc' = [pc EXCEPT ![t] = "waiting"]
  /\ UNCHANGED kernel

(* Fault: a kernel object that stays signalled, like a manual-reset event. *)
WaitKeepsSignal(t) ==
  /\ pc[t] = "waiting"
  /\ kernel > 0
  /\ pc' = [pc EXCEPT ![t] = "owner"]
  /\ UNCHANGED <<counter, kernel>>

(* WaitForSingleObject returns and consumes the signal. *)
CaptureWait(t) ==
  /\ pc[t] = "waiting"
  /\ kernel > 0
  /\ kernel' = kernel - 1
  /\ pc' = [pc EXCEPT ![t] = "owner"]
  /\ UNCHANGED counter

(* LOCK DEC gives a negative count: nobody waits, return. *)
ReleaseFast(t) ==
  /\ counter - 1 < 0
  /\ counter' = counter - 1
  /\ pc' = [pc EXCEPT ![t] = "idle"]
  /\ UNCHANGED kernel

(* Fault: a signal although nobody waits. *)
ReleaseAlwaysPosts(t) ==
  /\ counter' = counter - 1
  /\ pc' = [pc EXCEPT ![t] = "posting"]
  /\ UNCHANGED kernel

(* LOCK DEC gives zero or more: somebody waits, a signal must follow. *)
ReleaseSlow(t) ==
  /\ counter - 1 >= 0
  /\ counter' = counter - 1
  /\ pc' = [pc EXCEPT ![t] = "posting"]
  /\ UNCHANGED kernel

(* ReleaseSemaphore(h, 1, 0): fails, and is ignored, at the maximum count. *)
ReleasePost(t) ==
  /\ pc[t] = "posting"
  /\ kernel' = IF kernel < 1 THEN kernel + 1 ELSE kernel
  /\ pc' = [pc EXCEPT ![t] = "idle"]
  /\ UNCHANGED counter

(***************************************************************************)
(* A post is lost when ReleaseSemaphore runs while the kernel object is    *)
(* already signalled: the counter has recorded a wake-up that the kernel   *)
(* object cannot hold, and a waiter sleeps for ever.                       *)
(***************************************************************************)
NoLostPost == kernel = 1 => At("posting") = {}
==============================================================================
