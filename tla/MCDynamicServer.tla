-------------------------- MODULE MCDynamicServer --------------------------
(* A small instance of DynamicServer for TLC. *)
EXTENDS DynamicServer, TLC

\* An instance and a path that matches the pattern only.
TwoPaths == <<"p1", "p2">>
OneId == "p1" :> "1" @@ "p2" :> NoId
=============================================================================
