-------------------------- MODULE MCMessageReading --------------------------
(* MessageReading on small instances. *)
EXTENDS MessageReading

Symmetry == Permutations(Senders) \cup Permutations(Texts)
=============================================================================
