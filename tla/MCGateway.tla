----------------------------- MODULE MCGateway -----------------------------
(* Gateway on small instances. *)
EXTENDS Gateway, TLC

Everybody == {Users}

(* Users, threads and connections are told apart by equality alone. *)
Symmetry == Permutations(Users) \cup Permutations(Threads) \cup Permutations(Conns)
=============================================================================
