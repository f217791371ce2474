----------------------------- MODULE Friendship -----------------------------
(***************************************************************************)
(* What the friend service promises a client who waits for each answer:    *)
(* applications, friendships and private chats change in single steps, and *)
(* two friends always have a chat.  FriendService implements this while    *)
(* its steps are orderly (MCFriendOrderly).                                *)
(***************************************************************************)
CONSTANT Users

VARIABLES
  pending,   \* applications awaiting an answer: <<applicant, respondent>>
  friends,   \* pairs of friends: {u, p}
  chats      \* pairs with a private chat: {u, p}

vars == <<pending, friends, chats>>

Couples == {{u, p} : u, p \in Users}

TypeOK ==
  /\ pending \subseteq Users \X Users
  /\ friends \subseteq Couples
  /\ chats \subseteq Couples

Init == pending = {} /\ friends = {} /\ chats = {}

Apply(u, p) ==
  /\ {u, p} \notin friends
  /\ <<u, p>> \notin pending
  /\ pending' = pending \cup {<<u, p>>}
  /\ UNCHANGED <<friends, chats>>

(* u answers the application of p. *)
Agree(u, p) ==
  /\ <<p, u>> \in pending
  /\ pending' = pending \ {<<p, u>>}
  /\ friends' = friends \cup {{u, p}}
  /\ chats' = chats \cup {{u, p}}

Decline(u, p) ==
  /\ <<p, u>> \in pending
  /\ pending' = pending \ {<<p, u>>}
  /\ UNCHANGED <<friends, chats>>

Remove(u, p) ==
  /\ friends' = friends \ {{u, p}}
  /\ UNCHANGED <<pending, chats>>

(* The chat goes after the friendship. *)
CloseChat(u, p) ==
  /\ {u, p} \notin friends
  /\ chats' = chats \ {{u, p}}
  /\ UNCHANGED <<pending, friends>>

Next ==
  \E u, p \in Users :
    \/ Apply(u, p) \/ Agree(u, p) \/ Decline(u, p)
    \/ Remove(u, p) \/ CloseChat(u, p)

Spec == Init /\ [][Next]_vars

(* Friends can always talk in private. *)
FriendsCanChat == friends \subseteq chats
=============================================================================
