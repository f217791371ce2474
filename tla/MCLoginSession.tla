--------------------------- MODULE MCLoginSession ---------------------------
(* LoginSession on small instances. *)
EXTENDS LoginSession

CONSTANT ann

(* Every device is ann's. *)
OneUser == [d \in Devices |-> ann]
=============================================================================
