------------------------- MODULE MCServiceDiscovery -------------------------
(* ServiceDiscovery on a small instance. *)
EXTENDS ServiceDiscovery

CONSTANTS user1, user2, user3, asr1, user, speech, host1, host2, host3, host4

(* Three nodes of a followed service and one of a service nobody follows,  *)
(* each at the address its configuration names (access_host).              *)
MCServiceOf == (user1 :> user) @@ (user2 :> user) @@ (user3 :> user) @@ (asr1 :> speech)
MCHostsOf == (user1 :> {host1}) @@ (user2 :> {host2}) @@ (user3 :> {host3}) @@ (asr1 :> {host4})
=============================================================================
