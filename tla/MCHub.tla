------------------------------- MODULE MCHub -------------------------------
(* Small instances of Hub for TLC. *)
EXTENDS Hub, TLC

CONSTANTS c1, c2, c3

OneClient == {c1}
TwoClients == {c1, c2}
ThreeClients == {c1, c2, c3}

\* Clients are interchangeable: no action or property tells them apart.
Symmetry == Permutations(Client)

Nowhere == {<<"x">>}
=============================================================================
