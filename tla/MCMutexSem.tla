----------------------------- MODULE MCMutexSem ------------------------------
(* Main and the four readers, so that up to four of them sleep at once. *)
EXTENDS MutexSem
==============================================================================
