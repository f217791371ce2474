-------------------------- MODULE ServiceDiscovery --------------------------
(***************************************************************************)
(* How a server finds the nodes of the services it calls: ServiceManager   *)
(* and ServiceChannel (server/common/channel.hpp), fed by Discovery from   *)
(* what the nodes' Registry objects write to etcd (server/common/etcd.hpp).*)
(*                                                                         *)
(* A node puts its address under its key with a lease of 3 seconds that    *)
(* its process keeps alive.  One consumer is modelled: its Discovery lists *)
(* the keys, hands them to onserviceOnline, and only then opens a watch;   *)
(* the watch's thread hands every change to onserviceOnline or             *)
(* onserviceOffline, one after the other, while handlers call choose().    *)
(* etcd is external: it is modelled by what the two classes ask of it.     *)
(***************************************************************************)
EXTENDS Integers, SequencesExt

CONSTANTS
  Instances,     \* etcd keys of nodes: "/service/user_service/instance"
  Services,      \* the keys without their last component
  Followed,      \* the services the consumer has declared
  Hosts,         \* addresses of nodes
  NoHost, NoChannel, NoEvent,
  ServiceOf,     \* the service of a key (getServiceName)
  HostsOf,       \* the addresses a node of the key may be started with
  IndexHalf,     \* bound: how far an int32_t like _index goes, 2^31 in the code
  SizeRange,     \* bound: how many values a size_t has, 2^64 in the code
  MaxStarts,     \* bound: starts of nodes
  MaxTroubles    \* bound: reputs, missed, lapses and reboots (see below)

ASSUME DiscoveryAssumption ==
  /\ Followed \subseteq Services
  /\ IsFiniteSet(Instances) /\ IsFiniteSet(Hosts)
  /\ NoHost \notin Hosts
  /\ ServiceOf \in [Instances -> Services]
  /\ HostsOf \in [Instances -> SUBSET Hosts]
  /\ \A i, j \in Instances : i # j => HostsOf[i] \cap HostsOf[j] = {}
  /\ {IndexHalf, SizeRange} \subseteq Nat \ {0} /\ IndexHalf <= SizeRange
  /\ {MaxStarts, MaxTroubles} \subseteq Nat

VARIABLES
  running,    \* the address the node of a key serves at
  key,        \* etcd: the value of a key
  lease,      \* etcd: the lease of a key
  phase,      \* where the constructor of Discovery is
  events,     \* what etcd has sent and Discovery has not handed on
  callback,   \* the event a callback has looked up its ServiceChannel for
  services,   \* _services: names that have a ServiceChannel
  hosts,      \* _hosts of each ServiceChannel
  channels,   \* _channels of each ServiceChannel
  index,      \* _index of each ServiceChannel
  chosen,     \* the address of the channel last chosen, per service
  starts,     \* starts of nodes
  reputs,     \* starts while the key of the node before is still there
  missed,     \* changes the consumer does not hear of
  lapses,     \* registrations, listings, channels that fail, leases not kept alive
  reboots,    \* restarts of the consumer
  unheard     \* history: the addresses of which it was not told, or could not
              \* take up, every change since it started, or was told out of turn

nodes == <<running, key, lease>>
manager == <<services, hosts, channels, index>>
counts == <<starts, reputs, missed, lapses, reboots>>
vars == <<nodes, phase, events, callback, manager, chosen, counts, unheard>>

(* A channel object: two channels to one address are different objects. *)
Channel == [host : Hosts, id : 1..(MaxStarts + 1)]
Event == [type : {"PUT", "DELETE"}, key : Instances, host : Hosts]
Int32 == -IndexHalf .. IndexHalf - 1

ASSUME ObjectAssumption == NoChannel \notin Channel /\ NoEvent \notin Event

TypeOK ==
  /\ running \in [Instances -> Hosts \cup {NoHost}]
  /\ key \in [Instances -> Hosts \cup {NoHost}]
  /\ lease \in [Instances -> {"none", "kept", "lapsing"}]
  /\ \A i \in Instances : lease[i] = "none" <=> key[i] = NoHost
  /\ phase \in {"start", "listing", "watching"}
  /\ events \in Seq(Event)
  /\ callback \in Event \cup {NoEvent}
  /\ services \in SUBSET Followed
  /\ hosts \in [Services -> [Hosts -> Channel \cup {NoChannel}]]
  /\ channels \in [Services -> Seq(Channel)]
  /\ index \in [Services -> Int32]
  /\ chosen \in [Services -> Hosts \cup {NoHost}]
  /\ {starts, reputs, missed, lapses, reboots} \subseteq Nat
  /\ unheard \in SUBSET Hosts

NoHosts == [s \in Services |-> [h \in Hosts |-> NoChannel]]
NoChannels == [s \in Services |-> <<>>]

Init ==
  /\ running = [i \in Instances |-> NoHost]
  /\ key = [i \in Instances |-> NoHost]
  /\ lease = [i \in Instances |-> "none"]
  /\ phase = "start" /\ events = <<>> /\ callback = NoEvent
  /\ services = {} /\ hosts = NoHosts /\ channels = NoChannels
  /\ index = [s \in Services |-> 0]
  /\ chosen = [s \in Services |-> NoHost]
  /\ starts = 0 /\ reputs = 0 /\ missed = 0 /\ lapses = 0 /\ reboots = 0
  /\ unheard = {}

(* Bound: how much may go wrong. *)
BoundedTroubles == reputs + missed + lapses + reboots <= MaxTroubles

-----------------------------------------------------------------------------
(* Nodes and etcd. *)

(* Etcd sends a change to a watch that is open; between the listing and    *)
(* the watch nobody hears of it.                                           *)
Publish(type, i, h) ==
  /\ events' = IF phase = "watching"
               THEN Append(events, [type |-> type, key |-> i, host |-> h])
               ELSE events
  /\ missed' = IF phase = "listing" THEN missed + 1 ELSE missed

(* What the change of the key of i, to the address h, does to the history: *)
(* nothing is told in time of a change after the listing, and the put of a *)
(* key that is there says nothing of the address that is replaced.         *)
Unheard(i, h) ==
  (IF phase = "listing" THEN {h} ELSE {}) \cup (IF phase = "start" THEN {} ELSE {key[i]} \ {NoHost})

(* Registry::registry: the key now belongs to the lease of this process.   *)
NodeRegisters(i, h) ==
  /\ key' = [key EXCEPT ![i] = h]
  /\ lease' = [lease EXCEPT ![i] = "kept"]
  /\ Publish("PUT", i, h)
  /\ reputs' = IF key[i] # NoHost THEN reputs + 1 ELSE reputs
  /\ unheard' = unheard \cup Unheard(i, h)
  /\ UNCHANGED lapses

(* registry() returns false, which make_registry_object does not look at. *)
NodeFailsToRegister ==
  /\ lapses' = lapses + 1
  /\ UNCHANGED <<key, lease, events, missed, reputs, unheard>>

NodeStarts(i) ==
  /\ running[i] = NoHost
  /\ starts < MaxStarts
  /\ starts' = starts + 1
  /\ \E h \in HostsOf[i] :
       /\ running' = [running EXCEPT ![i] = h]
       /\ NodeRegisters(i, h) \/ NodeFailsToRegister
  /\ UNCHANGED <<phase, callback, manager, chosen, reboots>>
  /\ BoundedTroubles'

(* Killed or stopped: ~Registry cancels the keepalive, not the lease. *)
NodeStops(i) ==
  /\ running[i] # NoHost
  /\ running' = [running EXCEPT ![i] = NoHost]
  /\ lease' = [lease EXCEPT ![i] = IF @ = "kept" THEN "lapsing" ELSE @]
  /\ UNCHANGED <<key, phase, events, callback, manager, chosen, counts, unheard>>

KeepAliveLost(i) ==
  /\ lease[i] = "kept"
  /\ lapses' = lapses + 1
  /\ lease' = [lease EXCEPT ![i] = "lapsing"]
  /\ UNCHANGED <<running, key, phase, events, callback, manager, chosen,
                 starts, reputs, missed, reboots, unheard>>
  /\ BoundedTroubles'

LeaseExpires(i) ==
  /\ lease[i] = "lapsing"
  /\ key' = [key EXCEPT ![i] = NoHost]
  /\ lease' = [lease EXCEPT ![i] = "none"]
  /\ Publish("DELETE", i, key[i])
  /\ unheard' = IF phase = "listing" THEN unheard \cup {key[i]} ELSE unheard
  /\ UNCHANGED <<running, phase, callback, manager, chosen, starts, reputs, lapses, reboots>>
  /\ BoundedTroubles'

-----------------------------------------------------------------------------
(* ServiceChannel. *)

Known(s) == {h \in Hosts : hosts[s][h] # NoChannel}

(* make_shared: an object different from every one that is still held. *)
NewChannel(s, h, c) ==
  LET unheld == {d \in Channel : d.host = h /\ d \notin ToSet(channels[s]) /\ d # hosts[s][h]}
  IN  c \in unheld /\ \A d \in unheld : c.id <= d.id

(* _hosts.insert keeps the channel it has; _channels gets the new one. *)
AppendChannel(s, h) ==
  \E c \in Channel :
    /\ NewChannel(s, h, c)
    /\ hosts' = [hosts EXCEPT ![s][h] = IF @ = NoChannel THEN c ELSE @]
    /\ channels' = [channels EXCEPT ![s] = Append(@, c)]

(* A bug: the address is forgotten and its channel stays. *)
ForgetHost(s, h) ==
  /\ hosts' = [hosts EXCEPT ![s][h] = NoChannel]
  /\ UNCHANGED channels

(* A bug: the channel goes and the address is still known. *)
DropChannel(s, h) ==
  /\ channels' = [channels EXCEPT ![s] = RemoveFirst(@, hosts[s][h])]
  /\ UNCHANGED hosts

RemoveChannel(s, h) ==
  IF h \in Known(s)
  THEN /\ channels' = [channels EXCEPT ![s] = RemoveFirst(@, hosts[s][h])]
       /\ hosts' = [hosts EXCEPT ![s][h] = NoChannel]
  ELSE UNCHANGED <<hosts, channels>>

(* A bug: the counter is wider than _index. *)
Unwrapped(i) == i + 1

(* _index++ on an int32_t, which wraps to the negative end in practice. *)
Increment(i) == IF i + 1 \in Int32 THEN i + 1 ELSE -IndexHalf

(* _index is converted to size_t before % _channels.size(). *)
Slot(i, n) == (IF i < 0 THEN i + SizeRange ELSE i) % n

(* A bug: the turn is never passed on. *)
ChooseFirst(s) ==
  /\ phase = "watching"
  /\ s \in Followed
  /\ chosen' = [chosen EXCEPT ![s] =
                  IF channels[s] = <<>> THEN NoHost ELSE channels[s][1].host]
  /\ UNCHANGED <<nodes, phase, events, callback, manager, counts, unheard>>

(* ServiceManager::choose and ServiceChannel::choose, under both mutexes.  *)
(* Handlers run once the constructor of Discovery has returned.            *)
Choose(s) ==
  /\ phase = "watching"
  /\ s \in Followed
  /\ IF s \notin services \/ channels[s] = <<>>
     THEN /\ chosen' = [chosen EXCEPT ![s] = NoHost]
          /\ UNCHANGED index
     ELSE /\ chosen' = [chosen EXCEPT ![s] =
                          channels[s][Slot(index[s], Len(channels[s])) + 1].host]
          /\ index' = [index EXCEPT ![s] = Increment(@)]
  /\ UNCHANGED <<nodes, phase, events, callback, services, hosts, channels, counts, unheard>>

-----------------------------------------------------------------------------
(* Discovery and the callbacks of ServiceManager. *)

(* ls(basedir): the keys there are now, to be handed to put_cb. *)
ListKeys ==
  /\ phase = "start"
  /\ phase' = "listing"
  /\ events' \in SetToSeqs({[type |-> "PUT", key |-> i, host |-> key[i]] :
                              i \in {j \in Instances : key[j] # NoHost}})
  /\ UNCHANGED <<nodes, callback, manager, chosen, counts, unheard>>

(* ls fails: the constructor logs it, and goes on with no keys at all. *)
ListFails ==
  /\ phase = "start"
  /\ phase' = "listing"
  /\ lapses' = lapses + 1
  /\ missed' = missed + Cardinality({i \in Instances : key[i] # NoHost})
  /\ unheard' = unheard \cup ({key[i] : i \in Instances} \ {NoHost})
  /\ UNCHANGED <<nodes, events, callback, manager, chosen, starts, reputs, reboots>>
  /\ BoundedTroubles'

(* The watcher is made when put_cb has had every key, and hears of what    *)
(* changes from then on.                                                   *)
OpenWatch ==
  /\ phase = "listing" /\ events = <<>> /\ callback = NoEvent
  /\ phase' = "watching"
  /\ UNCHANGED <<nodes, events, callback, manager, chosen, counts, unheard>>

(* A bug: only the services that are there already take a node. *)
OnlineUncreated(e) ==
  /\ callback' = IF ServiceOf[e.key] \in services THEN e ELSE NoEvent
  /\ UNCHANGED services

(* onserviceOnline, under the manager's mutex. *)
Online(e) ==
  IF ServiceOf[e.key] \in Followed
  THEN services' = services \cup {ServiceOf[e.key]} /\ callback' = e
  ELSE UNCHANGED <<services, callback>>

(* onserviceOffline, under the manager's mutex. *)
Offline(e) ==
  /\ callback' = IF ServiceOf[e.key] \in services THEN e ELSE callback
  /\ UNCHANGED services

TakeEvent ==
  /\ events # <<>> /\ callback = NoEvent
  /\ events' = Tail(events)
  /\ LET e == Head(events) IN IF e.type = "PUT" THEN Online(e) ELSE Offline(e)
  /\ UNCHANGED <<nodes, phase, hosts, channels, index, chosen, counts, unheard>>

(* A notification of the watch that is an error: the callback logs it and  *)
(* returns, and the change it would have brought is not heard of.          *)
ErrorNotified ==
  /\ phase = "watching" /\ events # <<>> /\ callback = NoEvent
  /\ events' = Tail(events)
  /\ missed' = missed + 1
  /\ unheard' = unheard \cup {Head(events).host}
  /\ UNCHANGED <<nodes, phase, callback, manager, chosen, starts, reputs, lapses, reboots>>
  /\ BoundedTroubles'

(* The second half of the callback, under the channel's mutex. *)
UpdateChannel ==
  /\ callback # NoEvent
  /\ LET s == ServiceOf[callback.key] IN
       IF callback.type = "PUT"
       THEN AppendChannel(s, callback.host)
       ELSE RemoveChannel(s, callback.host)
  /\ callback' = NoEvent
  /\ UNCHANGED <<nodes, phase, events, services, index, chosen, counts, unheard>>

(* channel->Init fails in append(), which logs it and returns: the service *)
(* has its ServiceChannel, which knows nothing of the address.             *)
AppendFails ==
  /\ callback # NoEvent /\ callback.type = "PUT"
  /\ lapses' = lapses + 1
  /\ unheard' = unheard \cup {callback.host}
  /\ callback' = NoEvent
  /\ UNCHANGED <<nodes, phase, events, manager, chosen, starts, reputs, missed, reboots>>
  /\ BoundedTroubles'

(* The consumer is restarted. *)
ConsumerRestarts ==
  /\ reboots' = reboots + 1
  /\ phase' = "start" /\ events' = <<>> /\ callback' = NoEvent
  /\ services' = {} /\ hosts' = NoHosts /\ channels' = NoChannels
  /\ index' = [s \in Services |-> 0]
  /\ chosen' = [s \in Services |-> NoHost]
  /\ unheard' = {}
  /\ UNCHANGED <<nodes, starts, reputs, missed, lapses>>
  /\ BoundedTroubles'

-----------------------------------------------------------------------------

DiscoveryStep == ListKeys \/ OpenWatch \/ TakeEvent \/ UpdateChannel

Next ==
  \/ \E i \in Instances :
       NodeStarts(i) \/ NodeStops(i) \/ KeepAliveLost(i) \/ LeaseExpires(i)
  \/ DiscoveryStep \/ ListFails \/ ErrorNotified \/ AppendFails \/ ConsumerRestarts
  \/ \E s \in Services : Choose(s)

Spec == Init /\ [][Next]_vars

(* A lease nobody keeps runs out, the threads of the consumer run, and     *)
(* handlers keep asking for channels.                                      *)
FairSpec ==
  /\ Spec
  /\ WF_vars(DiscoveryStep)
  /\ \A i \in Instances : WF_vars(LeaseExpires(i))
  /\ \A s \in Services : WF_vars(Choose(s))

-----------------------------------------------------------------------------
(* Properties. *)

(* remove() finds the channel of an address through _hosts, so that map    *)
(* must point into _channels: every known address has its channel there,   *)
(* and it is a channel to that address.                                    *)
KnownHostsHaveChannels ==
  \A s \in Services : \A h \in Known(s) :
    hosts[s][h].host = h /\ hosts[s][h] \in ToSet(channels[s])

(* Channels that no address leads to any more come only from a node that   *)
(* registered again before its old lease ran out, or from a change the     *)
(* consumer did not see; at most one from each.                            *)
StrayChannelsAreBounded ==
  \A s \in Services :
    Len(channels[s]) <= Cardinality(Known(s)) + reputs + missed

(* Discovery has handed on all it was sent. *)
Quiet == phase = "watching" /\ events = <<>> /\ callback = NoEvent

Registered(s) == {key[i] : i \in {j \in Instances : ServiceOf[j] = s}} \ {NoHost}

ChannelsTo(s, h) == {c \in ToSet(channels[s]) : c.host = h}

(* Whatever starts, stops, fails and restarts, and whatever went wrong     *)
(* with other addresses: a consumer with nothing left to handle has just   *)
(* the one channel of _hosts to a registered address of a service it       *)
(* follows, and no channel to any other address, except an address of      *)
(* which a change was not heard, came out of turn (a node registered again *)
(* while its old key was there) or could not be taken up (no channel).     *)
ViewIsExact ==
  Quiet =>
    \A s \in Services : \A h \in Hosts \ unheard :
      ChannelsTo(s, h) = IF s \in Followed /\ h \in Registered(s) THEN {hosts[s][h]} ELSE {}

(* channel.hpp says of remove() that it releases the channel of a node     *)
(* that went offline: no channel is left to an address that is not known.  *)
OfflineReleasesChannel ==
  \A s \in Services : \A c \in ToSet(channels[s]) : c.host \in Known(s)

(* A node that stays down is eventually no longer among the channels       *)
(* choose() returns, unless a change of its address was not heard or came  *)
(* out of turn; what went wrong with other addresses does not matter.      *)
DeadNodesLeave ==
  \A i \in Instances : \A h \in HostsOf[i] :
    <>[](running[i] # h /\ h \notin unheard) => <>[](ChannelsTo(ServiceOf[i], h) = {})

(* A node that stays up and registered, at an address whose every change   *)
(* was heard and taken up, is chosen again and again, whatever the other   *)
(* nodes do, whatever went wrong with them and wherever _index wraps.      *)
LiveNodesServe ==
  \A i \in Instances : \A h \in HostsOf[i] :
    (ServiceOf[i] \in Followed /\ <>[](running[i] = h /\ key[i] = h /\ h \notin unheard))
    => []<>(chosen[ServiceOf[i]] = h)
=============================================================================
