---------------------------- MODULE MCServerPage ----------------------------
(* Small instances of ServerPage for TLC. *)
EXTENDS ServerPage

\* No cookie, and a limit.
SomeCookies == {<<>>, <<1>>}
=============================================================================
