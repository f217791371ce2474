--------------------------- MODULE MCUserProfile ---------------------------
(* UserProfile on small instances. *)
EXTENDS UserProfile, TLC

Symmetry == Permutations(Users) \cup Permutations(Files) \cup Permutations(Workers)
=============================================================================
