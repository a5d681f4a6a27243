----------------------------- MODULE MCStreamSem -----------------------------
(* Main consumes what three LIBREAD threads release, or the reverse. *)
EXTENDS StreamSem
==============================================================================
