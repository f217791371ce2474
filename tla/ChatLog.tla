------------------------------ MODULE ChatLog ------------------------------
(***************************************************************************)
(* What a chat promises its members when no store refuses a message and    *)
(* the broker loses none: what is sent is accepted in some order, and the  *)
(* history shows it in that order, once, and in the end completely.        *)
(* MessagePipeline implements this although its processes may be killed.   *)
(***************************************************************************)
EXTENDS Naturals, Sequences

CONSTANT Messages

VARIABLES
  accepted,   \* the messages in the order of their acceptance
  history     \* the messages the history shows

vars == <<accepted, history>>

Init == accepted = <<>> /\ history = <<>>

Accept(m) ==
  /\ \A i \in 1..Len(accepted) : accepted[i] # m
  /\ accepted' = Append(accepted, m)
  /\ UNCHANGED history

Store ==
  /\ Len(history) < Len(accepted)
  /\ history' = Append(history, accepted[Len(history) + 1])
  /\ UNCHANGED accepted

Next == (\E m \in Messages : Accept(m)) \/ Store

Spec == Init /\ [][Next]_vars /\ WF_vars(Store)
=============================================================================
