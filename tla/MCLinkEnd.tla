------------------------------- MODULE MCLinkEnd -------------------------------
(* Main, two readers and the map thread, with at most one message that does  *)
(* not end the link.                                                         *)
EXTENDS LinkEnd

Maps == {{}, {"start"}, {"segments", "detail", "symbols", "xref"}, {"exports", "lines"}}
Links(fails, messages) == [map : Maps, codeview : BOOLEAN, messages : {messages}, fails : {fails}]

ExeFails == Links({"exe"}, 1)
MapFails == Links({"map"}, 1)

\* All that may fail before the map is written to a disk that fails, a disk that
\* fails only the map while main reports nothing, and the failures that the
\* properties below make an exception of.
MCScenarios ==
  Links({"reader", "object", "thread", "fault", "exe full"}, 1) \cup Links({"fault", "map", "map full"}, 0)
  \cup ExeFails \cup Links({"console", "fault"}, 1)

-------------------------------------------------------------------------------
\* A link that tells its caller it went well, by a status of 0, has met no
\* failure and no error, and its map file is whole and closed: whatever thread
\* ends the process, and whatever the others are doing then.
ExitTellsFailure ==
  exit = {0} => failed = {} /\ err.count = 0 /\ stages = << >> /\ map.file \in {"none", "closed"}

\* That is so but for the console, whose failure _loutall_con answers by __exit(0),
\* and for the executable's writes, where two threads may be in _cerr_abort.
ExitTellsMostFailures == opt.fails \cap {"console", "exe"} = {} => ExitTellsFailure

\* The count of users frees the symbol table when nobody needs it any more: main
\* has not the image or CodeView's publics still to write, for which it looks at
\* the symbols, and no part of the map is to come that shows them.
TableKept ==
  table.state = "freed" =>
     /\ {"exe", "publics"} \cap Range(plan) = {}
     /\ \A s \in Range(stages) : ~UsesTable(s)

\* The process ends: no failure leaves main waiting for a thread that is gone,
\* or a thread waiting for a lock for ever.  (XCNOTIFY on a console that fails is
\* the exception: it holds _ABORTER_SEM, and __exit wants it.)
LinkEnds == ~({"console", "fault"} \subseteq opt.fails) => <>(exit # Running)

\* A comment in the error routines: ERRORS ARE NON-REENTRANT.  No thread that is
\* reporting an error comes to report another.
ErrorsNonReentrant ==
  \A t \in Threads : lock["error"] = t => ~(At(t, "error") \/ At(t, "warning") \/ At(t, "report"))
=============================================================================
