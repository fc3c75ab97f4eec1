--------------------------- MODULE MCSessionSignups ---------------------------
(* Instances of SessionSignups for TLC. *)
EXTENDS SessionSignups, TLC

MCPlayers3 == 1..3
MCPlayers4 == 1..4
MCClients == Permutations(Clients)
=============================================================================
