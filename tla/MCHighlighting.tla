--------------------------- MODULE MCHighlighting ---------------------------
(* Small instances of Highlighting for TLC. *)
EXTENDS Highlighting
=============================================================================
