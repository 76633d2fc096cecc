------------------------------ MODULE MCReboot ------------------------------
(* A small instance of Reboot for TLC. *)
EXTENDS Reboot, TLC

\* Two instances.
TwoPaths == <<"p1", "p2">>
TwoIds == "p1" :> "1" @@ "p2" :> "2"
=============================================================================
