---------------------------- MODULE AbstractFetch -----------------------------
(***************************************************************************)
(* What the linker wants of its library readers: a block that was asked    *)
(* for is fetched, once, while nobody else has to know in which order, and *)
(* it stays until main has no more use for it.                             *)
(***************************************************************************)
CONSTANT Blocks

VARIABLES asked, fetched, ended

fetchVars == <<asked, fetched, ended>>

FetchInit ==
  /\ asked = {}
  /\ fetched = {}
  /\ ended = FALSE

Ask(b) ==
  /\ ~ended
  /\ b \notin asked \union fetched
  /\ asked' = asked \union {b}
  /\ UNCHANGED <<fetched, ended>>

Fetch(b) ==
  /\ b \in asked
  /\ asked' = asked \ {b}
  /\ fetched' = fetched \union {b}
  /\ UNCHANGED ended

Free(b) ==
  /\ b \in fetched
  /\ fetched' = fetched \ {b}
  /\ UNCHANGED <<asked, ended>>

(* No more libraries: what was asked for or fetched is of no use any more. *)
EndFetch ==
  /\ ~ended
  /\ ended' = TRUE
  /\ asked' = {}
  /\ fetched' = {}

FetchNext == EndFetch \/ \E b \in Blocks : Ask(b) \/ Fetch(b) \/ Free(b)

FetchSafety == FetchInit /\ [][FetchNext]_fetchVars

FetchSpec == FetchSafety /\ WF_fetchVars(EndFetch \/ \E b \in Blocks : Fetch(b))
==============================================================================
