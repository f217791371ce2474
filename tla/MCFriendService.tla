-------------------------- MODULE MCFriendService --------------------------
(* FriendService on small instances. *)
EXTENDS FriendService, TLC

(* Everybody once. *)
OneMemberList == {[u \in Users |-> 1]}

(* Users, sessions and workers are told apart by equality alone. *)
Symmetry == Permutations(Users) \cup Permutations(SessionIds) \cup Permutations(Workers)
=============================================================================
