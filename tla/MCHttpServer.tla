---------------------------- MODULE MCHttpServer ----------------------------
(* HttpServer on a small instance. *)
EXTENDS HttpServer

(* The files have a machine of their own, the other services share one. *)
TwoMachines == [s \in Services |-> IF s = "file" THEN {"files"} ELSE {"others"}]
=============================================================================
