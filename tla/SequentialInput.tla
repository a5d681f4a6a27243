--------------------------- MODULE SequentialInput ----------------------------
(***************************************************************************)
(* What the linker's passes want of file input, and what the unthreaded    *)
(* linker does with OPEN_READING_1 and _dosread: the files of a list are   *)
(* taken in the order of the list, and of each file its blocks, each once, *)
(* from the first one on.  A file that is not there yields no block, the   *)
(* others all that the reader of that kind of file needs.                  *)
(***************************************************************************)
EXTENDS Naturals, Sequences

CONSTANTS
  Files, NoFile,
  FirstFiles,   \* the lists there may be at the beginning
  Missing(_),   \* the file cannot be opened
  Whole(_)      \* blocks the reader of the file needs to see

VARIABLES
  files,        \* what is still to be read, the current file first
  count,        \* blocks of the current file read so far
  block,        \* the block being looked at
  ended         \* the link has finished, or has been given up

inputVars == <<files, count, block, ended>>

InputInit ==
  /\ files \in FirstFiles
  /\ count = 0
  /\ block = <<NoFile, 0>>
  /\ ended = FALSE

(* More files are named while others are read. *)
NameFiles ==
  /\ ~ended
  /\ Len(files') > Len(files)
  /\ SubSeq(files', 1, Len(files)) = files
  /\ UNCHANGED <<count, block, ended>>

ReadBlock ==
  /\ ~ended /\ files # <<>>
  /\ ~Missing(Head(files)) /\ count < Whole(Head(files))
  /\ count' = count + 1
  /\ block' = <<Head(files), count'>>
  /\ UNCHANGED <<files, ended>>

(* The reader is done with a file when it has seen what it needs of it. *)
FinishFile ==
  /\ ~ended /\ files # <<>>
  /\ count = IF Missing(Head(files)) THEN 0 ELSE Whole(Head(files))
  /\ files' = Tail(files)
  /\ count' = 0
  /\ block' = <<NoFile, 0>>
  /\ UNCHANGED ended

(* ExitProcess, or the end of the list. *)
End ==
  /\ ~ended
  /\ ended' = TRUE
  /\ UNCHANGED <<files, count, block>>

InputNext == NameFiles \/ ReadBlock \/ FinishFile \/ End

InputSafety == InputInit /\ [][InputNext]_inputVars

InputSpec == InputSafety /\ WF_inputVars(ReadBlock \/ FinishFile \/ End)
==============================================================================
