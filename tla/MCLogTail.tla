----------------------------- MODULE MCLogTail -----------------------------
(* Small instances of LogTail for TLC. *)
EXTENDS LogTail

CONSTANTS a, nl

\* A whole line, and the beginning of one.
LinesAndParts == {<<a, nl>>, <<a>>}

WholeLines == {<<a, nl>>}
=============================================================================
