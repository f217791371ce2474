----------------------- MODULE ServiceDiscoveryProofs -----------------------
(***************************************************************************)
(* Theorems about ServiceDiscovery, for any nodes, services and addresses  *)
(* and any bounds.                                                         *)
(***************************************************************************)
EXTENDS ServiceDiscovery, FiniteSetTheorems, SequenceTheorems, WellFoundedInduction, TLAPS

-----------------------------------------------------------------------------
(* Sequences. *)

LEMMA InToSet ==
  ASSUME NEW S, NEW q \in Seq(S)
  PROVE  \A x : x \in ToSet(q) <=> \E i \in 1..Len(q) : q[i] = x
<1>1. DOMAIN q = 1..Len(q)
  OBVIOUS
<1> QED
  BY <1>1 DEF ToSet

LEMMA AppendToSet ==
  ASSUME NEW S, NEW q \in Seq(S), NEW m \in S
  PROVE  /\ Append(q, m) \in Seq(S)
         /\ Len(Append(q, m)) = Len(q) + 1
         /\ ToSet(Append(q, m)) = ToSet(q) \cup {m}
<1>1. /\ Append(q, m) \in Seq(S)
      /\ Len(Append(q, m)) = Len(q) + 1
      /\ Append(q, m)[Len(q) + 1] = m
      /\ \A i \in 1..Len(q) : Append(q, m)[i] = q[i]
      /\ Len(q) \in Nat
  OBVIOUS
<1>2. ASSUME NEW x PROVE x \in ToSet(Append(q, m)) <=> x \in ToSet(q) \cup {m}
  <2>1. x \in ToSet(Append(q, m)) <=> \E i \in 1..Len(q) + 1 : Append(q, m)[i] = x
    <3> DEFINE p == Append(q, m)
    <3>1. p \in Seq(S) /\ Len(p) = Len(q) + 1
      BY <1>1
    <3> HIDE DEF p
    <3>2. x \in ToSet(p) <=> \E i \in 1..Len(p) : p[i] = x
      BY <3>1, InToSet
    <3> QED
      BY <3>1, <3>2 DEF p
  <2>2. x \in ToSet(q) <=> \E i \in 1..Len(q) : q[i] = x
    BY InToSet
  <2>3. \A i : i \in 1..Len(q) + 1 <=> i \in 1..Len(q) \/ i = Len(q) + 1
    BY <1>1
  <2> QED
    BY <1>1, <2>1, <2>2, <2>3
<1> QED
  BY <1>1, <1>2

LEMMA LeastIsLeast ==
  ASSUME NEW T \in SUBSET Nat, T # {}
  PROVE  \E x \in T : \A y \in T : x <= y
<1> DEFINE Less == OpToRel(<, Nat)
<1>1. \A x, y \in T : <<y, x>> \in Less <=> y < x
  BY DEF OpToRel
<1>2. IsWellFoundedOn(Less, Nat)
  BY NatLessThanWellFounded
<1> HIDE DEF Less
<1>3. PICK x \in T : \A y \in T : <<y, x>> \notin Less
  BY <1>2, WFMin
<1>4. \A y \in T : ~(y < x)
  BY <1>1, <1>3
<1> QED
  BY <1>4

LEMMA LeastExists ==
  ASSUME NEW T \in SUBSET Nat, T # {}
  PROVE  Min(T) \in T
BY LeastIsLeast DEF Min

LEMMA RemovesPlace ==
  ASSUME NEW S, NEW q \in Seq(S), NEW c \in ToSet(q)
  PROVE  \E k \in 1..Len(q) :
           /\ q[k] = c
           /\ RemoveFirst(q, c) \in Seq(S)
           /\ Len(RemoveFirst(q, c)) = Len(q) - 1 /\ Len(q) \in Nat \ {0}
           /\ \A i \in 1..k - 1 : RemoveFirst(q, c)[i] = q[i]
           /\ \A i \in k + 1..Len(q) : RemoveFirst(q, c)[i - 1] = q[i]
<1> DEFINE Places == {i \in 1..Len(q) : q[i] = c}
           k == Min(Places)
           r == RemoveAt(q, k)
<1>1. Places # {} /\ Places \in SUBSET Nat
  BY InToSet
<1>2. k \in 1..Len(q) /\ q[k] = c
  <2>1. k \in Places
    BY <1>1, LeastExists
  <2> QED
    BY <2>1
<1>3. RemoveFirst(q, c) = r
  BY <1>1 DEF RemoveFirst, SelectInSeq
<1> HIDE DEF Places, k
<1>4. /\ r \in Seq(S) /\ Len(r) = Len(q) - 1 /\ Len(q) \in Nat \ {0}
      /\ \A i \in 1..k - 1 : r[i] = q[i]
      /\ \A i \in k + 1..Len(q) : r[i - 1] = q[i]
  <2> DEFINE a == SubSeq(q, 1, k - 1)
             b == SubSeq(q, k + 1, Len(q))
  <2>1. a \in Seq(S) /\ Len(a) = k - 1 /\ \A i \in 1..k - 1 : a[i] = q[i]
    BY <1>2
  <2>2. b \in Seq(S) /\ Len(b) = Len(q) - k /\ \A i \in 1..Len(q) - k : b[i] = q[i + k]
    BY <1>2
  <2>3. r = a \o b
    BY DEF RemoveAt
  <2> HIDE DEF a, b, r
  <2>4. /\ a \o b \in Seq(S) /\ Len(a \o b) = Len(a) + Len(b)
        /\ \A i \in 1..Len(a) + Len(b) : (a \o b)[i] = IF i <= Len(a) THEN a[i] ELSE b[i - Len(a)]
    BY <2>1, <2>2, ConcatProperties
  <2>5. r \in Seq(S) /\ Len(r) = Len(q) - 1 /\ Len(q) \in Nat \ {0}
    BY <1>2, <2>1, <2>2, <2>3, <2>4
  <2>6. ASSUME NEW i \in 1..k - 1 PROVE r[i] = q[i]
    <3>1. i \in 1..Len(a) + Len(b) /\ i <= Len(a)
      BY <1>2, <2>1, <2>2
    <3>2. r[i] = a[i]
      BY <2>3, <2>4, <3>1
    <3> QED
      BY <2>1, <3>2
  <2>7. ASSUME NEW i \in k + 1..Len(q) PROVE r[i - 1] = q[i]
    <3>1. i - 1 \in 1..Len(a) + Len(b) /\ ~(i - 1 <= Len(a)) /\ (i - 1) - Len(a) = i - k
      BY <1>2, <2>1, <2>2
    <3>2. r[i - 1] = b[i - k]
      BY <2>3, <2>4, <3>1
    <3>3. i - k \in 1..Len(q) - k /\ (i - k) + k = i
      BY <1>2
    <3> QED
      BY <2>2, <3>2, <3>3
  <2> QED
    BY <2>5, <2>6, <2>7
<1> QED
  BY <1>2, <1>3, <1>4

LEMMA RemoveOne ==
  ASSUME NEW S, NEW q \in Seq(S), NEW c \in ToSet(q)
  PROVE  /\ RemoveFirst(q, c) \in Seq(S)
         /\ Len(RemoveFirst(q, c)) = Len(q) - 1
         /\ \A x \in ToSet(q) : x # c => x \in ToSet(RemoveFirst(q, c))
         /\ Len(q) \in Nat \ {0}
<1>1. PICK k \in 1..Len(q) :
        /\ q[k] = c
        /\ RemoveFirst(q, c) \in Seq(S)
        /\ Len(RemoveFirst(q, c)) = Len(q) - 1 /\ Len(q) \in Nat \ {0}
        /\ \A i \in 1..k - 1 : RemoveFirst(q, c)[i] = q[i]
        /\ \A i \in k + 1..Len(q) : RemoveFirst(q, c)[i - 1] = q[i]
  BY RemovesPlace
<1>2. PICK r \in Seq(S) : r = RemoveFirst(q, c)
  BY <1>1
<1>3. ASSUME NEW x \in ToSet(q), x # c PROVE x \in ToSet(r)
  <2>1. PICK i \in 1..Len(q) : q[i] = x
    BY InToSet
  <2>2. i \in 1..k - 1 \/ i \in k + 1..Len(q)
    BY <1>1, <1>3, <2>1
  <2>3. \E j \in 1..Len(r) : r[j] = x
    <3>1. CASE i \in 1..k - 1
      <4>1. i \in 1..Len(r)
        BY <1>1, <1>2, <3>1
      <4> QED
        BY <1>1, <1>2, <2>1, <3>1, <4>1
    <3>2. CASE i \in k + 1..Len(q)
      <4>1. i - 1 \in 1..Len(r)
        BY <1>1, <1>2, <3>2
      <4> QED
        BY <1>1, <1>2, <2>1, <3>2, <4>1
    <3> QED
      BY <2>2, <3>1, <3>2
  <2> QED
    BY <2>3, InToSet
<1> QED
  BY <1>1, <1>2, <1>3

(* No element is twice in the sequence. *)
Distinct(q) == \A i, j \in 1..Len(q) : q[i] = q[j] => i = j

LEMMA AppendDistinct ==
  ASSUME NEW S, NEW q \in Seq(S), Distinct(q), NEW m \in S, m \notin ToSet(q)
  PROVE  Distinct(Append(q, m))
<1>1. /\ Len(Append(q, m)) = Len(q) + 1 /\ Append(q, m)[Len(q) + 1] = m /\ Len(q) \in Nat
      /\ \A i \in 1..Len(q) : Append(q, m)[i] = q[i]
  OBVIOUS
<1>2. \A i \in 1..Len(q) : q[i] # m
  BY InToSet
<1> DEFINE p == Append(q, m)
<1> HIDE DEF p
<1>3. ASSUME NEW i \in 1..Len(p), NEW j \in 1..Len(p), p[i] = p[j] PROVE i = j
  <2>1. /\ i \in 1..Len(q) \/ i = Len(q) + 1
        /\ j \in 1..Len(q) \/ j = Len(q) + 1
    BY <1>1 DEF p
  <2> QED
    BY <1>1, <1>2, <1>3, <2>1 DEF p, Distinct
<1> QED
  BY <1>3 DEF Distinct, p

LEMMA RemoveDistinct ==
  ASSUME NEW S, NEW q \in Seq(S), Distinct(q), NEW c \in ToSet(q)
  PROVE  Distinct(RemoveFirst(q, c)) /\ ToSet(RemoveFirst(q, c)) = ToSet(q) \ {c}
<1>1. PICK r \in Seq(S) : r = RemoveFirst(q, c)
  BY RemoveOne
<1>2. PICK k \in 1..Len(q) :
        /\ q[k] = c /\ Len(r) = Len(q) - 1 /\ Len(q) \in Nat \ {0}
        /\ \A i \in 1..k - 1 : r[i] = q[i]
        /\ \A i \in k + 1..Len(q) : r[i - 1] = q[i]
  BY <1>1, RemovesPlace
<1> DEFINE At(i) == IF i < k THEN i ELSE i + 1
<1>3. ASSUME NEW i \in 1..Len(r) PROVE r[i] = q[At(i)] /\ At(i) \in 1..Len(q) /\ At(i) # k
  <2>1. CASE i < k
    <3>1. i \in 1..k - 1 /\ i \in 1..Len(q)
      BY <1>2, <2>1
    <3> QED
      BY <1>2, <2>1, <3>1
  <2>2. CASE ~(i < k)
    <3>1. i + 1 \in k + 1..Len(q) /\ (i + 1) - 1 = i /\ i + 1 \in 1..Len(q) /\ i + 1 # k
      BY <1>2, <2>2
    <3> QED
      BY <1>2, <2>2, <3>1
  <2> QED
    BY <2>1, <2>2
<1>4. ASSUME NEW i \in 1..Len(r), NEW j \in 1..Len(r), r[i] = r[j] PROVE i = j
  <2>1. At(i) = At(j)
    <3>1. /\ r[i] = q[At(i)] /\ At(i) \in 1..Len(q)
          /\ r[j] = q[At(j)] /\ At(j) \in 1..Len(q)
      BY <1>3
    <3> HIDE DEF At
    <3> QED
      BY <1>4, <3>1 DEF Distinct
  <2> QED
    BY <1>2, <2>1
<1>5. ASSUME NEW x PROVE x \in ToSet(r) <=> x \in ToSet(q) \ {c}
  <2>1. ASSUME x \in ToSet(r) PROVE x \in ToSet(q) \ {c}
    <3>1. PICK i \in 1..Len(r) : r[i] = x
      BY <2>1, InToSet
    <3>2. r[i] = q[At(i)] /\ At(i) \in 1..Len(q) /\ At(i) # k
      BY <1>3
    <3> HIDE DEF At
    <3>3. x # c
      BY <1>2, <3>1, <3>2 DEF Distinct
    <3>4. x \in ToSet(q)
      BY <3>1, <3>2, InToSet
    <3> QED
      BY <3>3, <3>4
  <2>2. ASSUME x \in ToSet(q) \ {c} PROVE x \in ToSet(r)
    BY <1>1, <2>2, RemoveOne
  <2> QED
    BY <2>1, <2>2
<1> QED
  BY <1>1, <1>4, <1>5 DEF Distinct

(* All orders of a set: each element is somewhere, and nowhere twice. *)
LEMMA OrdersOfSet ==
  ASSUME NEW S, IsFiniteSet(S), NEW q \in SetToSeqs(S)
  PROVE  /\ q \in Seq(S)
         /\ \A x \in S : \E i \in 1..Len(q) : q[i] = x
         /\ \A i, j \in 1..Len(q) : q[i] = q[j] => i = j
<1> DEFINE D == 1..Cardinality(S)
<1>1. Cardinality(S) \in Nat /\ IsFiniteSet(D) /\ Cardinality(D) = Cardinality(S)
  BY FS_CardinalityType, FS_Interval
<1>2. q \in [D -> S] /\ \A i, j \in D : i # j => q[i] # q[j]
  BY DEF SetToSeqs
<1>3. q \in Seq(S) /\ Len(q) = Cardinality(S)
  BY <1>1, <1>2
<1>4. q \in Injection(D, S)
  BY <1>2 DEF Injection, IsInjective
<1>5. q \in Surjection(D, S)
  BY <1>1, <1>4, FS_Injection
<1> QED
  BY <1>2, <1>3, <1>5 DEF Surjection

-----------------------------------------------------------------------------
(* Type correctness. *)

LEMMA EventFields ==
  ASSUME NEW e \in Event
  PROVE  /\ e.type \in {"PUT", "DELETE"} /\ e.key \in Instances /\ e.host \in Hosts
         /\ ServiceOf[e.key] \in Services
BY DiscoveryAssumption DEF Event

LEMMA MakesEvent ==
  ASSUME NEW type \in {"PUT", "DELETE"}, NEW i \in Instances, NEW h \in Hosts
  PROVE  [type |-> type, key |-> i, host |-> h] \in Event
BY DEF Event

LEMMA InitTypeOK == Init => TypeOK
BY DiscoveryAssumption DEF Init, TypeOK, NoHosts, NoChannels, Int32

LEMMA PublishTyped ==
  ASSUME TypeOK, NEW type \in {"PUT", "DELETE"}, NEW i \in Instances, NEW h \in Hosts,
         Publish(type, i, h)
  PROVE  events' \in Seq(Event) /\ missed' \in Nat
BY MakesEvent DEF TypeOK, Publish

LEMMA NodeStartTyped ==
  ASSUME TypeOK, NEW i \in Instances, NodeStarts(i)
  PROVE  TypeOK'
<1>1. PICK h \in HostsOf[i] : /\ running' = [running EXCEPT ![i] = h]
                              /\ NodeRegisters(i, h) \/ NodeFailsToRegister
  BY DEF NodeStarts
<1>2. h \in Hosts /\ h # NoHost
  BY DiscoveryAssumption
<1>3. /\ key' \in [Instances -> Hosts \cup {NoHost}]
      /\ lease' \in [Instances -> {"none", "kept", "lapsing"}]
      /\ \A j \in Instances : lease'[j] = "none" <=> key'[j] = NoHost
      /\ events' \in Seq(Event)
      /\ {reputs', missed', lapses'} \subseteq Nat /\ unheard' \in SUBSET Hosts
  <2>1. CASE NodeRegisters(i, h)
    <3>1. events' \in Seq(Event) /\ missed' \in Nat
      BY <1>2, <2>1, PublishTyped DEF NodeRegisters
    <3>2. Unheard(i, h) \in SUBSET Hosts
      BY <1>2 DEF Unheard, TypeOK
    <3> QED
      BY <1>2, <2>1, <3>1, <3>2 DEF NodeRegisters, TypeOK
  <2>2. CASE NodeFailsToRegister
    BY <2>2 DEF NodeFailsToRegister, TypeOK
  <2> QED
    BY <1>1, <2>1, <2>2
<1>4. /\ running' \in [Instances -> Hosts \cup {NoHost}]
      /\ starts' \in Nat /\ UNCHANGED <<phase, callback, manager, chosen, reboots>>
  BY <1>1, <1>2 DEF NodeStarts, TypeOK
<1> QED
  BY <1>3, <1>4 DEF TypeOK, manager

LEMMA NodeStopTyped ==
  ASSUME TypeOK, NEW i \in Instances, NodeStops(i) \/ KeepAliveLost(i)
  PROVE  TypeOK'
<1>1. CASE NodeStops(i)
  BY <1>1 DEF NodeStops, TypeOK, manager, counts
<1>2. CASE KeepAliveLost(i)
  BY <1>2 DEF KeepAliveLost, TypeOK, manager
<1> QED
  BY <1>1, <1>2

LEMMA LeaseExpiresTyped ==
  ASSUME TypeOK, NEW i \in Instances, LeaseExpires(i)
  PROVE  TypeOK'
<1>1. key[i] \in Hosts
  BY DEF LeaseExpires, TypeOK
<1>2. events' \in Seq(Event) /\ missed' \in Nat
  BY <1>1, PublishTyped DEF LeaseExpires
<1> QED
  BY <1>1, <1>2 DEF LeaseExpires, TypeOK, manager

(* The keys there are when ls answers. *)
KeysThere == {j \in Instances : key[j] # NoHost}
Listed == {[type |-> "PUT", key |-> i, host |-> key[i]] : i \in KeysThere}

LEMMA ListedFinite ==
  ASSUME TypeOK
  PROVE  /\ IsFiniteSet(KeysThere) /\ Cardinality(KeysThere) \in Nat
         /\ IsFiniteSet(Listed) /\ Listed \subseteq Event
<1>1. IsFiniteSet(KeysThere) /\ Cardinality(KeysThere) \in Nat
  <2>1. KeysThere \in SUBSET Instances
    BY DEF KeysThere
  <2> QED
    BY <2>1, DiscoveryAssumption, FS_Subset, FS_CardinalityType
<1>2. Listed \subseteq Event
  BY MakesEvent DEF Listed, KeysThere, TypeOK
<1>3. IsFiniteSet(Listed)
  <2> DEFINE f == [i \in KeysThere |-> [type |-> "PUT", key |-> i, host |-> key[i]]]
  <2>1. f \in Surjection(KeysThere, Listed)
    BY DEF Surjection, Listed
  <2> QED
    BY <1>1, <2>1, FS_Surjection
<1> QED
  BY <1>1, <1>2, <1>3

LEMMA ListTyped ==
  ASSUME TypeOK, ListKeys \/ ListFails
  PROVE  TypeOK'
<1>1. CASE ListKeys
  <2>1. events' \in SetToSeqs(Listed)
    BY <1>1 DEF ListKeys, Listed, KeysThere
  <2>2. events' \in Seq(Event)
    BY <2>1, ListedFinite, OrdersOfSet
  <2> QED
    BY <1>1, <2>2 DEF ListKeys, TypeOK, nodes, manager, counts
<1>2. CASE ListFails
  <2>1. missed' \in Nat
    BY <1>2, ListedFinite DEF ListFails, KeysThere, TypeOK
  <2>2. unheard' \in SUBSET Hosts
    BY <1>2 DEF ListFails, TypeOK
  <2> QED
    BY <1>2, <2>1, <2>2 DEF ListFails, TypeOK, nodes, manager
<1> QED
  BY <1>1, <1>2

LEMMA TakeEventTyped ==
  ASSUME TypeOK, OpenWatch \/ TakeEvent \/ ErrorNotified \/ AppendFails
  PROVE  TypeOK'
<1>1. CASE OpenWatch
  BY <1>1 DEF OpenWatch, TypeOK, nodes, manager, counts
<1>2. CASE TakeEvent
  <2>1. Head(events) \in Event /\ events' \in Seq(Event)
    BY <1>2 DEF TakeEvent, TypeOK
  <2>2. callback' \in Event \cup {NoEvent} /\ services' \in SUBSET Followed
    BY <1>2, <2>1 DEF TakeEvent, Online, Offline, TypeOK
  <2> QED
    BY <1>2, <2>1, <2>2 DEF TakeEvent, TypeOK, nodes, counts
<1>3. CASE ErrorNotified
  <2>1. Head(events) \in Event /\ events' \in Seq(Event)
    BY <1>3 DEF ErrorNotified, TypeOK
  <2>2. Head(events).host \in Hosts
    BY <2>1, EventFields
  <2> QED
    BY <1>3, <2>1, <2>2 DEF ErrorNotified, TypeOK, nodes, manager
<1>4. CASE AppendFails
  <2>1. callback.host \in Hosts
    BY <1>4, EventFields DEF AppendFails, TypeOK
  <2> QED
    BY <1>4, <2>1 DEF AppendFails, TypeOK, nodes, manager
<1> QED
  BY <1>1, <1>2, <1>3, <1>4

(* remove() finds the channel of an address it knows. *)
ChannelsFit ==
  \A s \in Services : \A h \in Known(s) :
    hosts[s][h] \in Channel /\ hosts[s][h].host = h /\ hosts[s][h] \in ToSet(channels[s])

LEMMA UpdateChannelTyped ==
  ASSUME TypeOK, ChannelsFit, UpdateChannel
  PROVE  TypeOK'
<1> DEFINE s == ServiceOf[callback.key]
           h == callback.host
<1>1. callback \in Event /\ s \in Services /\ h \in Hosts
  BY EventFields DEF UpdateChannel, TypeOK
<1>2. /\ hosts' \in [Services -> [Hosts -> Channel \cup {NoChannel}]]
      /\ channels' \in [Services -> Seq(Channel)]
  <2>1. CASE AppendChannel(s, h)
    <3>1. PICK c \in Channel :
            /\ hosts' = [hosts EXCEPT ![s][h] = IF @ = NoChannel THEN c ELSE @]
            /\ channels' = [channels EXCEPT ![s] = Append(@, c)]
      BY <2>1 DEF AppendChannel
    <3>2. channels[s] \in Seq(Channel)
      BY <1>1 DEF TypeOK
    <3>3. Append(channels[s], c) \in Seq(Channel)
      BY <3>2
    <3> HIDE DEF s, h
    <3> QED
      BY <1>1, <3>1, <3>3 DEF TypeOK
  <2>2. CASE RemoveChannel(s, h)
    <3>1. CASE h \in Known(s)
      <4>1. RemoveFirst(channels[s], hosts[s][h]) \in Seq(Channel)
        BY <1>1, <3>1, RemoveOne DEF ChannelsFit, TypeOK
      <4>2. /\ channels' = [channels EXCEPT ![s] = RemoveFirst(@, hosts[s][h])]
            /\ hosts' = [hosts EXCEPT ![s][h] = NoChannel]
        BY <2>2, <3>1 DEF RemoveChannel
      <4> HIDE DEF s, h
      <4>3. channels' \in [Services -> Seq(Channel)]
        BY <1>1, <4>1, <4>2 DEF TypeOK
      <4>4. hosts' \in [Services -> [Hosts -> Channel \cup {NoChannel}]]
        BY <1>1, <4>2 DEF TypeOK
      <4> QED
        BY <4>3, <4>4
    <3> QED
      BY <2>2, <3>1 DEF RemoveChannel, TypeOK
  <2> QED
    BY <2>1, <2>2 DEF UpdateChannel
<1> QED
  BY <1>2 DEF UpdateChannel, TypeOK, nodes, counts

LEMMA SlotInRange ==
  ASSUME NEW i \in Int32, NEW n \in Nat \ {0}
  PROVE  Slot(i, n) + 1 \in 1..n
BY DiscoveryAssumption DEF Slot, Int32

LEMMA ChooseTyped ==
  ASSUME TypeOK, NEW s \in Services, Choose(s)
  PROVE  TypeOK'
<1>1. Increment(index[s]) \in Int32
  BY DiscoveryAssumption DEF Increment, Int32, TypeOK
<1>2. CASE s \notin services \/ channels[s] = <<>>
  BY <1>2 DEF Choose, TypeOK, nodes, counts
<1>3. CASE ~(s \notin services \/ channels[s] = <<>>)
  <2>1. channels[s] \in Seq(Channel) /\ Len(channels[s]) \in Nat \ {0} /\ index[s] \in Int32
    BY <1>3 DEF TypeOK
  <2>2. Slot(index[s], Len(channels[s])) + 1 \in 1..Len(channels[s])
    BY <2>1, SlotInRange
  <2>3. channels[s][Slot(index[s], Len(channels[s])) + 1].host \in Hosts
    <3>1. channels[s][Slot(index[s], Len(channels[s])) + 1] \in Channel
      BY <2>1, <2>2
    <3> QED
      BY <3>1 DEF Channel
  <2> QED
    BY <1>1, <1>3, <2>3 DEF Choose, TypeOK, nodes, counts
<1> QED
  BY <1>2, <1>3

LEMMA RestartTyped ==
  ASSUME TypeOK, ConsumerRestarts
  PROVE  TypeOK'
BY DiscoveryAssumption DEF ConsumerRestarts, TypeOK, NoHosts, NoChannels, Int32, nodes

LEMMA StepTyped ==
  ASSUME TypeOK, ChannelsFit, [Next]_vars
  PROVE  TypeOK'
<1>1. CASE UNCHANGED vars
  BY <1>1 DEF vars, nodes, manager, counts, TypeOK
<1> QED
  BY <1>1, NodeStartTyped, NodeStopTyped, LeaseExpiresTyped, ListTyped, TakeEventTyped,
     UpdateChannelTyped, ChooseTyped, RestartTyped DEF Next, DiscoveryStep

-----------------------------------------------------------------------------
(* What the consumer holds: the channel of each address it knows, and      *)
(* nothing of a service it has no ServiceChannel for.  A key is at an      *)
(* address of its node.                                                    *)

ServicesFit ==
  /\ callback # NoEvent => ServiceOf[callback.key] \in services
  /\ \A s \in Services : s \notin services => Known(s) = {} /\ channels[s] = <<>>

KeysAtHome == \A i \in Instances : key[i] \in HostsOf[i] \cup {NoHost}

(* No channel is held twice. *)
ChannelsDistinct == \A s \in Services : Distinct(channels[s])

ManagerInv == TypeOK /\ ChannelsFit /\ ServicesFit /\ KeysAtHome /\ ChannelsDistinct

(* The addresses with a channel that _hosts does not lead to. *)
Doubled(s) == {h \in Hosts : ChannelsTo(s, h) \ {hosts[s][h]} # {}}

LEMMA KnownFinite ==
  ASSUME NEW s
  PROVE  Known(s) \subseteq Hosts /\ IsFiniteSet(Known(s)) /\ Cardinality(Known(s)) \in Nat
<1>1. Known(s) \in SUBSET Hosts
  BY DEF Known
<1> QED
  BY <1>1, DiscoveryAssumption, FS_Subset, FS_CardinalityType

LEMMA AppendEffect ==
  ASSUME TypeOK, ChannelsFit, ChannelsDistinct, NEW s \in Services, NEW h \in Hosts,
         AppendChannel(s, h)
  PROVE  /\ Known(s)' = Known(s) \cup {h}
         /\ Len(channels'[s]) = Len(channels[s]) + 1
         /\ \A t \in Services \ {s} : hosts'[t] = hosts[t] /\ channels'[t] = channels[t]
         /\ \A g \in Known(s)' : /\ hosts'[s][g] \in Channel /\ hosts'[s][g].host = g
                                 /\ hosts'[s][g] \in ToSet(channels'[s])
         /\ Distinct(channels'[s])
         /\ Doubled(s)' = IF h \in Known(s) THEN Doubled(s) \cup {h} ELSE Doubled(s)
<1>1. PICK c \in Channel :
        /\ c.host = h /\ c \notin ToSet(channels[s]) /\ c # hosts[s][h]
        /\ hosts' = [hosts EXCEPT ![s][h] = IF @ = NoChannel THEN c ELSE @]
        /\ channels' = [channels EXCEPT ![s] = Append(@, c)]
  BY DEF AppendChannel, NewChannel
<1>2. channels[s] \in Seq(Channel) /\ channels'[s] = Append(channels[s], c)
  BY <1>1 DEF TypeOK
<1>3. /\ Len(channels'[s]) = Len(channels[s]) + 1
      /\ ToSet(channels'[s]) = ToSet(channels[s]) \cup {c}
  BY <1>2, AppendToSet
<1>4. /\ hosts'[s][h] = IF h \in Known(s) THEN hosts[s][h] ELSE c
      /\ \A g \in Hosts \ {h} : hosts'[s][g] = hosts[s][g]
  BY <1>1 DEF TypeOK, Known
<1>5. c # NoChannel
  BY ObjectAssumption
<1>6. Known(s)' = Known(s) \cup {h}
  BY <1>4, <1>5 DEF Known
<1>7. \A g \in Known(s)' : /\ hosts'[s][g] \in Channel /\ hosts'[s][g].host = g
                          /\ hosts'[s][g] \in ToSet(channels'[s])
  BY <1>1, <1>3, <1>4, <1>6, KnownFinite DEF ChannelsFit
<1>8. \A t \in Services \ {s} : hosts'[t] = hosts[t] /\ channels'[t] = channels[t]
  BY <1>1 DEF TypeOK
<1>9. Distinct(channels'[s])
  BY <1>1, <1>2, AppendDistinct DEF ChannelsDistinct
<1>10. /\ ChannelsTo(s, h)' = ChannelsTo(s, h) \cup {c}
       /\ \A g \in Hosts \ {h} : ChannelsTo(s, g)' = ChannelsTo(s, g)
       /\ c \notin ChannelsTo(s, h) /\ NoChannel \notin ChannelsTo(s, h)
  <2>1. NoChannel \notin ToSet(channels[s])
    BY <1>2, InToSet, ObjectAssumption
  <2> QED
    BY <1>1, <1>3, <2>1 DEF ChannelsTo
<1>11. ASSUME NEW g \in Hosts
       PROVE  g \in Doubled(s)' <=> g \in Doubled(s) \/ (g = h /\ h \in Known(s))
  <2>1. CASE g # h
    BY <1>4, <1>10, <2>1 DEF Doubled
  <2>2. CASE g = h /\ h \in Known(s)
    BY <1>1, <1>4, <1>10, <2>2 DEF Doubled
  <2>3. CASE g = h /\ h \notin Known(s)
    <3>1. hosts[s][h] = NoChannel /\ hosts'[s][h] = c
      BY <1>4, <2>3 DEF Known
    <3> QED
      BY <1>10, <2>3, <3>1 DEF Doubled
  <2> QED
    BY <2>1, <2>2, <2>3
<1>12. Doubled(s)' = IF h \in Known(s) THEN Doubled(s) \cup {h} ELSE Doubled(s)
  <2>1. Doubled(s)' \subseteq Hosts /\ Doubled(s) \subseteq Hosts
    BY DEF Doubled
  <2> QED
    BY <1>11, <2>1
<1> QED
  BY <1>3, <1>6, <1>7, <1>8, <1>9, <1>12

LEMMA RemoveEffect ==
  ASSUME TypeOK, ChannelsFit, ChannelsDistinct, NEW s \in Services, NEW h \in Hosts,
         RemoveChannel(s, h)
  PROVE  /\ Known(s)' = Known(s) \ {h}
         /\ Len(channels'[s]) = Len(channels[s]) - (IF h \in Known(s) THEN 1 ELSE 0)
         /\ \A t \in Services \ {s} : hosts'[t] = hosts[t] /\ channels'[t] = channels[t]
         /\ \A g \in Known(s)' : /\ hosts'[s][g] \in Channel /\ hosts'[s][g].host = g
                                 /\ hosts'[s][g] \in ToSet(channels'[s])
         /\ Distinct(channels'[s])
         /\ Doubled(s)' = Doubled(s)
<1>1. channels[s] \in Seq(Channel)
  BY DEF TypeOK
<1>2. CASE h \in Known(s)
  <2>1. /\ channels' = [channels EXCEPT ![s] = RemoveFirst(@, hosts[s][h])]
        /\ hosts' = [hosts EXCEPT ![s][h] = NoChannel]
    BY <1>2 DEF RemoveChannel
  <2>2. hosts[s][h] \in ToSet(channels[s])
    BY <1>2 DEF ChannelsFit
  <2>3. /\ Len(channels'[s]) = Len(channels[s]) - 1
        /\ ToSet(channels'[s]) = ToSet(channels[s]) \ {hosts[s][h]}
        /\ Distinct(channels'[s])
    <3>1. channels'[s] = RemoveFirst(channels[s], hosts[s][h])
      BY <2>1 DEF TypeOK
    <3> QED
      BY <1>1, <2>2, <3>1, RemoveOne, RemoveDistinct DEF ChannelsDistinct
  <2>4. hosts'[s][h] = NoChannel /\ \A g \in Hosts \ {h} : hosts'[s][g] = hosts[s][g]
    BY <2>1 DEF TypeOK
  <2>5. Known(s)' = Known(s) \ {h}
    BY <2>4 DEF Known
  <2>6. \A g \in Known(s)' : /\ hosts'[s][g] \in Channel /\ hosts'[s][g].host = g
                            /\ hosts'[s][g] \in ToSet(channels'[s])
    BY <1>2, <2>3, <2>4, <2>5, KnownFinite DEF ChannelsFit
  <2>7. \A t \in Services \ {s} : hosts'[t] = hosts[t] /\ channels'[t] = channels[t]
    BY <2>1 DEF TypeOK
  <2>8. NoChannel \notin ToSet(channels[s]) /\ hosts[s][h].host = h
    BY <1>1, <1>2, InToSet, ObjectAssumption DEF ChannelsFit
  <2>9. ASSUME NEW g \in Hosts PROVE g \in Doubled(s)' <=> g \in Doubled(s)
    <3>1. CASE g # h
      BY <2>3, <2>4, <2>8, <3>1 DEF Doubled, ChannelsTo
    <3>2. CASE g = h
      BY <2>3, <2>4, <2>8, <3>2 DEF Doubled, ChannelsTo
    <3> QED
      BY <3>1, <3>2
  <2>10. Doubled(s)' = Doubled(s)
    BY <2>9 DEF Doubled
  <2> QED
    BY <1>2, <2>3, <2>5, <2>6, <2>7, <2>10
<1>3. CASE h \notin Known(s)
  <2>1. UNCHANGED <<hosts, channels>>
    BY <1>3 DEF RemoveChannel
  <2>2. Known(s)' = Known(s)
    BY <2>1 DEF Known
  <2> QED
    BY <1>1, <1>3, <2>1, <2>2 DEF ChannelsFit, ChannelsDistinct, Doubled, ChannelsTo
<1> QED
  BY <1>2, <1>3

LEMMA SameManagerFits ==
  ASSUME ChannelsFit, UNCHANGED <<hosts, channels>>
  PROVE  ChannelsFit' /\ \A s : Known(s)' = Known(s) /\ Doubled(s)' = Doubled(s)
BY DEF ChannelsFit, Known, Doubled, ChannelsTo

LEMMA InitManagerInv == Init => ManagerInv
<1> SUFFICES ASSUME Init PROVE ManagerInv
  OBVIOUS
<1>1. \A s \in Services : Known(s) = {} /\ channels[s] = <<>>
  BY DEF Init, NoHosts, NoChannels, Known
<1>2. ChannelsFit /\ ServicesFit /\ KeysAtHome
  BY <1>1 DEF Init, ChannelsFit, ServicesFit, KeysAtHome
<1>3. ChannelsDistinct
  BY <1>1 DEF ChannelsDistinct, Distinct
<1> QED
  BY <1>2, <1>3, InitTypeOK DEF ManagerInv

LEMMA NodesLeaveManager ==
  ASSUME NEW i \in Instances,
         NodeStarts(i) \/ NodeStops(i) \/ KeepAliveLost(i) \/ LeaseExpires(i)
  PROVE  UNCHANGED <<phase, callback, manager, chosen, reboots>>
BY DEF NodeStarts, NodeStops, KeepAliveLost, LeaseExpires, counts

LEMMA StepManager ==
  ASSUME ManagerInv, [Next]_vars
  PROVE  ManagerInv'
<1>1. TypeOK'
  BY StepTyped DEF ManagerInv
<1>2. KeysAtHome'
  <2>1. CASE \E i \in Instances : NodeStarts(i)
    BY <2>1 DEF NodeStarts, NodeRegisters, NodeFailsToRegister, ManagerInv, TypeOK, KeysAtHome
  <2>2. CASE \E i \in Instances : LeaseExpires(i)
    BY <2>2 DEF LeaseExpires, ManagerInv, TypeOK, KeysAtHome
  <2>3. CASE UNCHANGED key
    BY <2>3 DEF ManagerInv, KeysAtHome
  <2> QED
    BY <2>1, <2>2, <2>3 DEF Next, DiscoveryStep, NodeStops, KeepAliveLost, ListKeys, ListFails,
       OpenWatch, TakeEvent, ErrorNotified, UpdateChannel, AppendFails, ConsumerRestarts, Choose,
       nodes, vars
<1>3. ChannelsFit' /\ ServicesFit' /\ ChannelsDistinct'
  <2>1. CASE UNCHANGED manager /\ callback' \in {callback, NoEvent}
    BY <2>1, SameManagerFits DEF ManagerInv, ServicesFit, ChannelsDistinct, manager
  <2>2. CASE TakeEvent
    <3>1. ChannelsFit' /\ \A s : Known(s)' = Known(s)
      BY <2>2, SameManagerFits DEF ManagerInv, TakeEvent
    <3>2. services \subseteq services' /\ UNCHANGED channels
      BY <2>2 DEF TakeEvent, Online, Offline
    <3>3. callback' # NoEvent => ServiceOf[callback'.key] \in services'
      BY <2>2 DEF TakeEvent, Online, Offline
    <3> QED
      BY <3>1, <3>2, <3>3 DEF ManagerInv, ServicesFit, ChannelsDistinct
  <2>3. CASE UpdateChannel
    <3>1. PICK s \in Services, h \in Hosts : s = ServiceOf[callback.key] /\ h = callback.host
      BY <2>3, EventFields DEF UpdateChannel, ManagerInv, TypeOK
    <3>2. s \in services /\ UNCHANGED services /\ callback' = NoEvent
      BY <2>3, <3>1 DEF UpdateChannel, ManagerInv, ServicesFit
    <3>3. AppendChannel(s, h) \/ RemoveChannel(s, h)
      BY <2>3, <3>1 DEF UpdateChannel
    <3>4. /\ \A t \in Services \ {s} : hosts'[t] = hosts[t] /\ channels'[t] = channels[t]
          /\ \A g \in Known(s)' : /\ hosts'[s][g] \in Channel /\ hosts'[s][g].host = g
                                  /\ hosts'[s][g] \in ToSet(channels'[s])
          /\ Distinct(channels'[s])
      BY <3>1, <3>3, AppendEffect, RemoveEffect DEF ManagerInv
    <3>5. \A t \in Services \ {s} : Known(t)' = Known(t)
      BY <3>4 DEF Known
    <3>6. ChannelsFit'
      BY <3>4, <3>5 DEF ManagerInv, ChannelsFit
    <3> QED
      BY <3>2, <3>4, <3>5, <3>6 DEF ManagerInv, ServicesFit, ChannelsDistinct
  <2>4. CASE ConsumerRestarts
    <3>1. \A s \in Services : Known(s)' = {} /\ channels'[s] = <<>>
      BY <2>4 DEF ConsumerRestarts, NoHosts, NoChannels, Known
    <3> QED
      BY <2>4, <3>1 DEF ConsumerRestarts, ChannelsFit, ServicesFit, ChannelsDistinct, Distinct
  <2>5. CASE \E s \in Services : Choose(s)
    <3>1. UNCHANGED <<services, hosts, channels, callback>>
      BY <2>5 DEF Choose
    <3> QED
      BY <3>1, SameManagerFits DEF ManagerInv, ServicesFit, ChannelsDistinct
  <2> QED
    BY <2>1, <2>2, <2>3, <2>4, <2>5, NodesLeaveManager DEF Next, DiscoveryStep, ListKeys,
       ListFails, OpenWatch, ErrorNotified, AppendFails, vars
<1> QED
  BY <1>1, <1>2, <1>3 DEF ManagerInv

LEMMA Manager == Spec => []ManagerInv
BY InitManagerInv, StepManager, PTL DEF Spec

(* Every state is well typed. *)
THEOREM TypeCorrect == Spec => []TypeOK
<1>1. ManagerInv => TypeOK
  BY DEF ManagerInv
<1> QED
  BY <1>1, Manager, PTL

(* ServiceChannel::remove finds the channel of every address it knows.     *)
THEOREM KnownAreReachable == Spec => []KnownHostsHaveChannels
<1>1. ManagerInv => KnownHostsHaveChannels
  BY DEF ManagerInv, ChannelsFit, KnownHostsHaveChannels
<1> QED
  BY <1>1, Manager, PTL

-----------------------------------------------------------------------------
(* What the consumer will hold of a service once it has handled what etcd  *)
(* has sent: the addresses it will know, by how many its channels will     *)
(* outnumber them, and which addresses will have a channel too many.       *)

View == [known : SUBSET Hosts, surplus : Int, doubled : SUBSET Hosts]

After(s, e, v) ==
  IF ServiceOf[e.key] # s THEN v
  ELSE IF e.type = "PUT"
  THEN [known |-> v.known \cup {e.host},
        surplus |-> IF e.host \in v.known THEN v.surplus + 1 ELSE v.surplus,
        doubled |-> IF e.host \in v.known THEN v.doubled \cup {e.host} ELSE v.doubled]
  ELSE [known |-> v.known \ {e.host}, surplus |-> v.surplus, doubled |-> v.doubled]

Foretells(s, v, q, f) ==
  /\ f \in [0..Len(q) -> View]
  /\ f[0] = v
  /\ \A k \in 1..Len(q) : f[k] = After(s, q[k], f[k - 1])
  /\ \A j, k \in 0..Len(q) : j <= k => f[j].surplus <= f[k].surplus

(* The events of q turn the view v into the view w. *)
LeadsTo(s, v, q, w) == \E f : Foretells(s, v, q, f) /\ f[Len(q)] = w

LEMMA AfterTyped ==
  ASSUME NEW s, NEW e \in Event, NEW v \in View
  PROVE  After(s, e, v) \in View /\ v.surplus <= After(s, e, v).surplus
<1>1. e.host \in Hosts
  BY DEF Event
<1> QED
  BY <1>1 DEF After, View

LEMMA NoEventsLead ==
  ASSUME NEW s, NEW v \in View
  PROVE  LeadsTo(s, v, <<>>, v) /\ \A w : LeadsTo(s, v, <<>>, w) => w = v
<1>1. Len(<<>>) = 0 /\ 0..0 = {0} /\ 1..0 = {}
  OBVIOUS
<1> DEFINE f == [k \in {0} |-> v]
<1>2. v.surplus <= v.surplus
  BY DEF View
<1>3. Foretells(s, v, <<>>, f)
  BY <1>1, <1>2 DEF Foretells
<1> QED
  BY <1>1, <1>3 DEF LeadsTo, Foretells

LEMMA EventsLeadUp ==
  ASSUME NEW s, NEW v \in View, NEW q \in Seq(Event), NEW w, LeadsTo(s, v, q, w)
  PROVE  w \in View /\ v.surplus <= w.surplus
<1>1. Len(q) \in 0..Len(q) /\ 0 \in 0..Len(q) /\ 0 <= Len(q)
  OBVIOUS
<1> QED
  BY <1>1 DEF LeadsTo, Foretells

LEMMA TailLeads ==
  ASSUME NEW s, NEW v \in View, NEW q \in Seq(Event), q # <<>>, NEW w, LeadsTo(s, v, q, w)
  PROVE  LeadsTo(s, After(s, Head(q), v), Tail(q), w)
<1>1. PICK f : Foretells(s, v, q, f) /\ f[Len(q)] = w
  BY DEF LeadsTo
<1> DEFINE n == Len(q) - 1
           t == Tail(q)
           g == [k \in 0..n |-> f[k + 1]]
<1>2. /\ n \in Nat /\ Len(q) = n + 1
      /\ Len(t) = n /\ Head(q) = q[1] /\ \A k \in 1..n : t[k] = q[k + 1]
  OBVIOUS
<1> HIDE DEF n, t
<1>3. g \in [0..n -> View] /\ g[n] = w
  BY <1>1, <1>2 DEF Foretells
<1>4. g[0] = After(s, Head(q), v)
  BY <1>1, <1>2 DEF Foretells
<1>5. ASSUME NEW k \in 1..n PROVE g[k] = After(s, t[k], g[k - 1])
  <2>1. k + 1 \in 1..Len(q) /\ (k + 1) - 1 = k /\ (k - 1) + 1 = k /\ k \in 0..n /\ k - 1 \in 0..n
    BY <1>2
  <2>2. f[k + 1] = After(s, q[k + 1], f[k])
    BY <1>1, <2>1 DEF Foretells
  <2> QED
    BY <1>2, <2>1, <2>2
<1>6. ASSUME NEW j \in 0..n, NEW k \in 0..n, j <= k PROVE g[j].surplus <= g[k].surplus
  <2>1. j + 1 \in 0..Len(q) /\ k + 1 \in 0..Len(q) /\ j + 1 <= k + 1
    BY <1>2, <1>6
  <2> QED
    BY <1>1, <2>1 DEF Foretells
<1> HIDE DEF g
<1>7. Foretells(s, After(s, Head(q), v), t, g)
  BY <1>2, <1>3, <1>4, <1>5, <1>6 DEF Foretells
<1> QED
  BY <1>2, <1>3, <1>7 DEF LeadsTo, t

LEMMA AppendLeads ==
  ASSUME NEW s, NEW v \in View, NEW q \in Seq(Event), NEW w, LeadsTo(s, v, q, w),
         NEW e \in Event
  PROVE  LeadsTo(s, v, Append(q, e), After(s, e, w))
<1>1. PICK f : Foretells(s, v, q, f) /\ f[Len(q)] = w
  BY DEF LeadsTo
<1> DEFINE n == Len(q)
           a == Append(q, e)
           x == After(s, e, w)
           g == [k \in 0..n + 1 |-> IF k = n + 1 THEN x ELSE f[k]]
<1>2. /\ n \in Nat /\ Len(a) = n + 1 /\ a[n + 1] = e /\ \A k \in 1..n : a[k] = q[k]
  OBVIOUS
<1>3. x \in View /\ w.surplus <= x.surplus /\ w \in View
  BY AfterTyped, EventsLeadUp
<1>4. /\ f \in [0..n -> View] /\ f[0] = v /\ f[n] = w
      /\ \A k \in 1..n : f[k] = After(s, q[k], f[k - 1])
      /\ \A j, k \in 0..n : j <= k => f[j].surplus <= f[k].surplus
  BY <1>1 DEF Foretells
<1> HIDE DEF n, a, x
<1>5. g \in [0..n + 1 -> View] /\ g[0] = v /\ g[n + 1] = x /\ \A k \in 0..n : g[k] = f[k]
  BY <1>2, <1>3, <1>4
<1> HIDE DEF g
<1>6. ASSUME NEW k \in 1..n + 1 PROVE g[k] = After(s, a[k], g[k - 1])
  <2>1. CASE k = n + 1
    <3>1. k - 1 = n /\ n \in 0..n
      BY <1>2, <2>1
    <3> QED
      BY <1>2, <1>4, <1>5, <2>1, <3>1 DEF x
  <2>2. CASE k # n + 1
    <3>1. k \in 1..n /\ k \in 0..n /\ k - 1 \in 0..n
      BY <1>2, <2>2
    <3> QED
      BY <1>2, <1>4, <1>5, <3>1
  <2> QED
    BY <2>1, <2>2
<1>7. ASSUME NEW j \in 0..n + 1, NEW k \in 0..n + 1, j <= k PROVE g[j].surplus <= g[k].surplus
  <2>1. CASE k # n + 1
    <3>1. j \in 0..n /\ k \in 0..n
      BY <1>2, <1>7, <2>1
    <3> QED
      BY <1>4, <1>5, <1>7, <3>1
  <2>2. CASE k = n + 1 /\ j # n + 1
    <3>1. j \in 0..n /\ n \in 0..n /\ j <= n
      BY <1>2, <2>2
    <3>2. f[j].surplus <= w.surplus /\ f[j] \in View
      BY <1>4, <3>1
    <3>3. f[j].surplus <= x.surplus
      BY <1>3, <3>2 DEF View
    <3> QED
      BY <1>5, <2>2, <3>1, <3>3
  <2>3. CASE k = n + 1 /\ j = n + 1
    BY <1>3, <1>5, <2>3 DEF View
  <2> QED
    BY <2>1, <2>2, <2>3
<1>8. Foretells(s, v, a, g)
  BY <1>2, <1>5, <1>6, <1>7 DEF Foretells
<1> QED
  BY <1>2, <1>5, <1>8 DEF LeadsTo, a, x

(* As many channels as addresses. *)
Plain(T) == [known |-> T, surplus |-> 0, doubled |-> {}]

(* Events that put different addresses, one after the other. *)
LEMMA PutsLead ==
  ASSUME NEW s, NEW q \in Seq(Event),
         \A k \in 1..Len(q) : q[k].type = "PUT",
         \A j, k \in 1..Len(q) : q[j].host = q[k].host => j = k
  PROVE  LeadsTo(s, Plain({}), q,
                 Plain({q[k].host : k \in {j \in 1..Len(q) : ServiceOf[q[j].key] = s}}))
<1> DEFINE n == Len(q)
           Put(k) == {q[j].host : j \in {i \in 1..k : ServiceOf[q[i].key] = s}}
           f == [k \in 0..n |-> Plain(Put(k))]
<1>1. n \in Nat /\ \A k \in 1..n : q[k] \in Event /\ q[k].host \in Hosts
  <2>1. n \in Nat /\ \A k \in 1..n : q[k] \in Event
    OBVIOUS
  <2> QED
    BY <2>1, EventFields
<1>2. \A k \in 0..n : Put(k) \in SUBSET Hosts
  BY <1>1
<1>3. f \in [0..n -> View] /\ f[0] = Plain({})
      /\ f[n] = Plain(Put(n))
  <2>1. Put(0) = {}
    OBVIOUS
  <2> HIDE DEF Put, n
  <2>2. \A k \in 0..n : Plain(Put(k)) \in View
    BY <1>2 DEF View, Plain
  <2>3. f \in [0..n -> View]
    BY <2>2
  <2>4. n \in Nat
    BY <1>1
  <2>5. 0 \in 0..n /\ n \in 0..n
    BY <2>4
  <2>6. f[0] = Plain(Put(0)) /\ f[n] = Plain(Put(n))
    BY <2>5
  <2> QED
    BY <2>1, <2>3, <2>6
<1>4. ASSUME NEW k \in 1..n PROVE f[k] = After(s, q[k], f[k - 1])
  <2>1. k - 1 \in 0..n /\ k \in 0..n /\ \A i : i \in 1..k <=> i \in 1..k - 1 \/ i = k
    BY <1>1
  <2>2. f[k] = Plain(Put(k)) /\ f[k - 1] = Plain(Put(k - 1))
    BY <2>1
  <2>3. CASE ServiceOf[q[k].key] # s
    <3>1. Put(k) = Put(k - 1)
      BY <2>1, <2>3
    <3> QED
      BY <2>2, <2>3, <3>1 DEF After, Plain
  <2>4. CASE ServiceOf[q[k].key] = s
    <3>1. Put(k) = Put(k - 1) \cup {q[k].host}
      BY <2>1, <2>4
    <3>2. q[k].host \notin Put(k - 1)
      <4>1. \A j \in 1..k - 1 : j \in 1..n /\ j # k
        BY <1>1
      <4> QED
        BY <4>1
    <3> HIDE DEF f, Put
    <3> QED
      BY <2>2, <2>4, <3>1, <3>2 DEF After, Plain
  <2> QED
    BY <2>3, <2>4
<1>5. \A j, k \in 0..n : j <= k => f[j].surplus <= f[k].surplus
  BY DEF Plain
<1> HIDE DEF f, Put
<1>6. Foretells(s, Plain({}), q, f)
  BY <1>3, <1>4, <1>5 DEF Foretells
<1>7. LeadsTo(s, Plain({}), q, Plain(Put(n)))
  BY <1>3, <1>6 DEF LeadsTo
<1> QED
  BY <1>7 DEF Put

-----------------------------------------------------------------------------
(* The events lead somewhere, and to nearly the same view from two views   *)
(* that agree but for one address.                                         *)

LEMMA EventsLead ==
  ASSUME NEW s, NEW v \in View, NEW q \in Seq(Event)
  PROVE  \E w \in View : LeadsTo(s, v, q, w)
<1> DEFINE Stuck == {n \in Nat : \E p \in Seq(Event) : /\ Len(p) = n
                                                       /\ ~\E w \in View : LeadsTo(s, v, p, w)}
<1>1. Stuck = {}
  <2> SUFFICES ASSUME Stuck # {} PROVE FALSE
    OBVIOUS
  <2>1. PICK n \in Stuck : \A m \in Stuck : n <= m
    <3>1. Stuck \in SUBSET Nat
      OBVIOUS
    <3> HIDE DEF Stuck
    <3> QED
      BY <3>1, LeastIsLeast
  <2>2. PICK p \in Seq(Event) : Len(p) = n /\ ~\E w \in View : LeadsTo(s, v, p, w)
    BY <2>1
  <2>3. p # <<>>
    BY <2>2, NoEventsLead
  <2>4. PICK a \in Seq(Event), e \in Event : p = Append(a, e)
    BY <2>3, SequenceEmptyOrAppend
  <2>5. Len(a) \in Nat /\ ~(n <= Len(a))
    <3>1. Len(p) = Len(a) + 1 /\ Len(a) \in Nat
      BY <2>4
    <3> QED
      BY <2>2, <3>1
  <2>6. Len(a) \notin Stuck
    <3> HIDE DEF Stuck
    <3> QED
      BY <2>1, <2>5
  <2>7. PICK w \in View : LeadsTo(s, v, a, w)
    BY <2>5, <2>6
  <2>8. After(s, e, w) \in View /\ LeadsTo(s, v, p, After(s, e, w))
    BY <2>4, <2>7, AppendLeads, AfterTyped
  <2> QED
    BY <2>2, <2>8
<1>2. Len(q) \in Nat
  OBVIOUS
<1> QED
  BY <1>1, <1>2

Held(h, v) == IF h \in v.known THEN 1 ELSE 0

SameButFor(h, v, w) ==
  \A g \in Hosts \ {h} :
    (g \in v.known <=> g \in w.known) /\ (g \in v.doubled <=> g \in w.doubled)

(* v is w but for the address h, with at most n channels more. *)
Near(h, n, v, w) ==
  /\ SameButFor(h, v, w)
  /\ v.surplus <= w.surplus + n
  /\ v.surplus + Held(h, v) <= w.surplus + Held(h, w) + n

LEMMA NearAfter ==
  ASSUME NEW s, NEW e \in Event, NEW v \in View, NEW w \in View, NEW h \in Hosts, NEW n \in Nat,
         Near(h, n, v, w)
  PROVE  Near(h, n, After(s, e, v), After(s, e, w))
<1>1. /\ v.surplus \in Int /\ w.surplus \in Int /\ e.host \in Hosts
      /\ v.surplus <= w.surplus + n
      /\ v.surplus + Held(h, v) <= w.surplus + Held(h, w) + n
      /\ SameButFor(h, v, w)
  BY DEF View, Event, Near
<1>2. CASE ServiceOf[e.key] # s
  BY <1>2 DEF After
<1>3. CASE ServiceOf[e.key] = s
  <2> DEFINE x == After(s, e, v)
             y == After(s, e, w)
  <2>1. SameButFor(h, x, y)
    <3>1. CASE e.type = "PUT"
      <4>1. /\ x.known = v.known \cup {e.host} /\ y.known = w.known \cup {e.host}
            /\ x.doubled = IF e.host \in v.known THEN v.doubled \cup {e.host} ELSE v.doubled
            /\ y.doubled = IF e.host \in w.known THEN w.doubled \cup {e.host} ELSE w.doubled
        BY <1>3, <3>1 DEF After
      <4> HIDE DEF x, y
      <4>2. CASE e.host = h
        BY <1>1, <4>1, <4>2 DEF SameButFor
      <4>3. CASE e.host # h
        <5>1. e.host \in v.known <=> e.host \in w.known
          BY <1>1, <4>3 DEF SameButFor
        <5> QED
          BY <1>1, <4>1, <5>1 DEF SameButFor
      <4> QED
        BY <4>2, <4>3
    <3>2. CASE e.type # "PUT"
      <4>1. /\ x.known = v.known \ {e.host} /\ y.known = w.known \ {e.host}
            /\ x.doubled = v.doubled /\ y.doubled = w.doubled
        BY <1>3, <3>2 DEF After
      <4> HIDE DEF x, y
      <4> QED
        BY <1>1, <4>1 DEF SameButFor
    <3> QED
      BY <3>1, <3>2
  <2>2. x.surplus <= y.surplus + n /\ x.surplus + Held(h, x) <= y.surplus + Held(h, y) + n
    <3>1. CASE e.type = "PUT"
      <4>1. /\ x.surplus = v.surplus + Held(e.host, v) /\ y.surplus = w.surplus + Held(e.host, w)
            /\ x.known = v.known \cup {e.host} /\ y.known = w.known \cup {e.host}
        BY <1>1, <1>3, <3>1 DEF After, Held
      <4> HIDE DEF x, y
      <4>2. CASE e.host = h
        <5>1. Held(h, x) = 1 /\ Held(h, y) = 1
          BY <4>1, <4>2 DEF Held
        <5>2. Held(h, v) \in Int /\ Held(h, w) \in Int
          BY DEF Held
        <5>3. x.surplus = v.surplus + Held(h, v) /\ y.surplus = w.surplus + Held(h, w)
          BY <4>1, <4>2
        <5> QED
          BY <1>1, <5>1, <5>2, <5>3
      <4>3. CASE e.host # h
        <5>1. /\ Held(e.host, v) = Held(e.host, w) /\ Held(h, x) = Held(h, v)
              /\ Held(h, y) = Held(h, w)
          BY <1>1, <4>1, <4>3 DEF Held, SameButFor
        <5>2. Held(h, v) \in {0, 1} /\ Held(h, w) \in {0, 1} /\ Held(e.host, v) \in {0, 1}
          BY DEF Held
        <5> QED
          BY <1>1, <4>1, <5>1, <5>2
      <4> QED
        BY <4>2, <4>3
    <3>2. CASE e.type # "PUT"
      <4>1. /\ x.surplus = v.surplus /\ y.surplus = w.surplus
            /\ x.known = v.known \ {e.host} /\ y.known = w.known \ {e.host}
        BY <1>3, <3>2 DEF After
      <4> HIDE DEF x, y
      <4>2. CASE e.host = h
        BY <1>1, <4>1, <4>2 DEF Held
      <4>3. CASE e.host # h
        BY <1>1, <4>1, <4>3 DEF Held
      <4> QED
        BY <4>2, <4>3
    <3> QED
      BY <3>1, <3>2
  <2> QED
    BY <2>1, <2>2 DEF Near
<1> QED
  BY <1>2, <1>3

LEMMA NearLeads ==
  ASSUME NEW s, NEW v \in View, NEW w \in View, NEW h \in Hosts, NEW n \in Nat, Near(h, n, v, w),
         NEW q \in Seq(Event), NEW y, LeadsTo(s, w, q, y)
  PROVE  \E x \in View : LeadsTo(s, v, q, x) /\ Near(h, n, x, y)
<1>1. PICK x \in View : LeadsTo(s, v, q, x)
  BY EventsLead
<1>2. PICK f : Foretells(s, v, q, f) /\ f[Len(q)] = x
  BY <1>1 DEF LeadsTo
<1>3. PICK g : Foretells(s, w, q, g) /\ g[Len(q)] = y
  BY DEF LeadsTo
<1> DEFINE Far == {k \in 0..Len(q) : ~Near(h, n, f[k], g[k])}
<1>4. Len(q) \in Nat /\ \A k \in 1..Len(q) : q[k] \in Event
  OBVIOUS
<1>5. Far = {}
  <2> SUFFICES ASSUME Far # {} PROVE FALSE
    OBVIOUS
  <2>1. PICK k \in Far : \A j \in Far : k <= j
    <3>1. Far \in SUBSET Nat
      OBVIOUS
    <3> HIDE DEF Far
    <3> QED
      BY <3>1, LeastIsLeast
  <2>2. k \in 0..Len(q) /\ ~Near(h, n, f[k], g[k])
    BY <2>1
  <2>3. k # 0
    BY <1>2, <1>3, <2>2 DEF Foretells
  <2>4. k \in 1..Len(q) /\ k - 1 \in 0..Len(q) /\ ~(k <= k - 1)
    BY <1>4, <2>2, <2>3
  <2>5. Near(h, n, f[k - 1], g[k - 1])
    BY <2>1, <2>4
  <2>6. /\ f[k - 1] \in View /\ g[k - 1] \in View /\ q[k] \in Event
        /\ f[k] = After(s, q[k], f[k - 1]) /\ g[k] = After(s, q[k], g[k - 1])
    BY <1>2, <1>3, <1>4, <2>4 DEF Foretells
  <2> QED
    BY <2>2, <2>5, <2>6, NearAfter
<1>6. Len(q) \in 0..Len(q)
  BY <1>4
<1>7. Near(h, n, x, y)
  BY <1>2, <1>3, <1>5, <1>6
<1> QED
  BY <1>1, <1>7

(* What is not taken up: the put of an address when n is 0, any change of  *)
(* it when n is 1.                                                         *)
LEMMA NotTakenUp ==
  ASSUME NEW s, NEW e \in Event, NEW v \in View, NEW n \in {0, 1}, n = 0 => e.type = "PUT"
  PROVE  Near(e.host, n, v, After(s, e, v))
<1>1. v.surplus \in Int /\ Held(e.host, v) \in {0, 1}
  BY DEF View, Held
<1>2. CASE ServiceOf[e.key] # s
  BY <1>1, <1>2 DEF After, Near, SameButFor
<1>3. CASE ServiceOf[e.key] = s /\ e.type = "PUT"
  <2> DEFINE x == After(s, e, v)
  <2>1. /\ x.known = v.known \cup {e.host} /\ x.surplus = v.surplus + Held(e.host, v)
        /\ x.doubled = IF e.host \in v.known THEN v.doubled \cup {e.host} ELSE v.doubled
    BY <1>1, <1>3 DEF After, Held
  <2> HIDE DEF x
  <2>2. Held(e.host, x) = 1
    BY <2>1 DEF Held
  <2>3. v.surplus <= x.surplus + n /\ v.surplus + Held(e.host, v) <= x.surplus + Held(e.host, x) + n
    BY <1>1, <2>1, <2>2
  <2>4. Near(e.host, n, v, x)
    BY <2>1, <2>3 DEF Near, SameButFor
  <2> QED
    BY <2>4 DEF x
<1>4. CASE ServiceOf[e.key] = s /\ e.type # "PUT"
  <2> DEFINE x == After(s, e, v)
  <2>1. x.known = v.known \ {e.host} /\ x.surplus = v.surplus /\ x.doubled = v.doubled /\ n = 1
    BY <1>4 DEF After
  <2> HIDE DEF x
  <2>2. Held(e.host, x) = 0
    BY <2>1 DEF Held
  <2>3. v.surplus <= x.surplus + n /\ v.surplus + Held(e.host, v) <= x.surplus + Held(e.host, x) + n
    BY <1>1, <2>1, <2>2
  <2>4. Near(e.host, n, v, x)
    BY <2>1, <2>3 DEF Near, SameButFor
  <2> QED
    BY <2>4 DEF x
<1> QED
  BY <1>2, <1>3, <1>4

-----------------------------------------------------------------------------
(* The channels a service has more than addresses, now and after all that  *)
(* is to come, and the addresses that will be known and are registered no  *)
(* more, were caused by a second registration or by a change nobody heard  *)
(* of.  An address of which all was heard will be known when it is         *)
(* registered, and will have no channel too many.                          *)

Now(s) == [known |-> Known(s), surplus |-> Len(channels[s]) - Cardinality(Known(s)),
           doubled |-> Doubled(s)]

AfterCallback(s) == IF callback = NoEvent THEN Now(s) ELSE After(s, callback, Now(s))

Justified(s, v) ==
  phase # "start" =>
    /\ v.surplus + Cardinality(v.known \ Registered(s)) <= reputs + missed
    /\ \A h \in Hosts \ unheard :
         (h \in v.known <=> h \in Registered(s)) /\ h \notin v.doubled

AheadInv ==
  /\ phase = "start" => events = <<>> /\ callback = NoEvent /\ services = {}
  /\ \A s \in Followed : \E v \in View :
       LeadsTo(s, AfterCallback(s), events, v) /\ Justified(s, v)

LEMMA NowTyped ==
  ASSUME TypeOK, NEW s \in Services
  PROVE  Now(s) \in View /\ AfterCallback(s) \in View /\ Now(s).surplus <= AfterCallback(s).surplus
<1>1. channels[s] \in Seq(Channel)
  BY DEF TypeOK
<1>2. Len(channels[s]) \in Nat
  BY <1>1
<1>3. Now(s) \in View
  BY <1>2, KnownFinite DEF Now, View, Doubled
<1>4. Now(s).surplus <= Now(s).surplus
  BY <1>3 DEF View
<1> QED
  BY <1>3, <1>4, AfterTyped DEF AfterCallback, TypeOK

NextRegistered(s) == {key'[i] : i \in {j \in Instances : ServiceOf[j] = s}} \ {NoHost}

LEMMA RegisteredChange ==
  ASSUME TypeOK, KeysAtHome, NEW s, NEW i \in Instances, NEW x \in HostsOf[i] \cup {NoHost},
         key' = [key EXCEPT ![i] = x]
  PROVE  /\ ServiceOf[i] # s => NextRegistered(s) = Registered(s)
         /\ ServiceOf[i] = s =>
              NextRegistered(s) = (Registered(s) \ {key[i]}) \cup ({x} \ {NoHost})
         /\ x # key[i] => x \notin Registered(s)
<1>1. key'[i] = x /\ \A j \in Instances \ {i} : key'[j] = key[j]
  BY DEF TypeOK
<1>2. \A j \in Instances \ {i} : key[j] # NoHost => key[j] # x /\ key[j] # key[i]
  BY DiscoveryAssumption DEF KeysAtHome
<1>3. x # key[i] => x \notin Registered(s)
  BY <1>2 DEF Registered
<1>4. ASSUME ServiceOf[i] # s PROVE NextRegistered(s) = Registered(s)
  BY <1>1, <1>4 DEF Registered, NextRegistered
<1>5. ASSUME ServiceOf[i] = s
      PROVE  NextRegistered(s) = (Registered(s) \ {key[i]}) \cup ({x} \ {NoHost})
  BY <1>1, <1>2, <1>5 DEF Registered, NextRegistered
<1> QED
  BY <1>3, <1>4, <1>5

LEMMA HostSetsFinite ==
  ASSUME NEW T \in SUBSET Hosts
  PROVE  IsFiniteSet(T) /\ Cardinality(T) \in Nat
BY DiscoveryAssumption, FS_Subset, FS_CardinalityType

(* A registration the consumer hears of. *)
LEMMA PutJustified ==
  ASSUME ManagerInv, NEW s \in Followed, NEW v \in View, Justified(s, v), phase = "watching",
         NEW i \in Instances, NEW h \in HostsOf[i], NodeRegisters(i, h), phase' = phase,
         NEW e \in Event, e = [type |-> "PUT", key |-> i, host |-> h]
  PROVE  Justified(s, After(s, e, v))'
<1> DEFINE w == After(s, e, v)
           A == v.known \ Registered(s)
           B == w.known \ Registered(s)'
<1>1. h \in Hosts /\ h # NoHost /\ key[i] \in Hosts \cup {NoHost}
  BY DiscoveryAssumption DEF ManagerInv, TypeOK
<1>2. /\ ServiceOf[i] # s => Registered(s)' = Registered(s)
      /\ ServiceOf[i] = s => Registered(s)' = (Registered(s) \ {key[i]}) \cup {h}
      /\ h # key[i] => h \notin Registered(s)
  <2>1. Registered(s)' = NextRegistered(s)
    BY DEF Registered, NextRegistered
  <2>2. TypeOK /\ KeysAtHome /\ h \in HostsOf[i] \cup {NoHost} /\ key' = [key EXCEPT ![i] = h]
    BY DEF ManagerInv, NodeRegisters
  <2>3. /\ ServiceOf[i] # s => NextRegistered(s) = Registered(s)
        /\ ServiceOf[i] = s =>
              NextRegistered(s) = (Registered(s) \ {key[i]}) \cup ({h} \ {NoHost})
        /\ h # key[i] => h \notin Registered(s)
    BY <2>2, RegisteredChange
  <2> QED
    BY <1>1, <2>1, <2>3
<1>3. /\ v.surplus + Cardinality(A) <= reputs + missed
      /\ \A g \in Hosts \ unheard : (g \in v.known <=> g \in Registered(s)) /\ g \notin v.doubled
  BY DEF Justified
<1>4. /\ missed' = missed /\ reputs' = IF key[i] # NoHost THEN reputs + 1 ELSE reputs
      /\ reputs \in Nat /\ missed \in Nat /\ v.surplus \in Int /\ v.known \in SUBSET Hosts
  BY DEF NodeRegisters, Publish, ManagerInv, TypeOK, View
<1>5. w \in View /\ e.key = i /\ e.host = h /\ e.type = "PUT"
  BY AfterTyped
<1>6. w.surplus + Cardinality(B) <= reputs' + missed'
  <2>1. CASE ServiceOf[i] # s
    <3>1. w = v /\ B = A
      BY <1>2, <1>5, <2>1 DEF After
    <3> HIDE DEF A, B, w
    <3>2. Cardinality(A) \in Nat
      BY <1>4, HostSetsFinite DEF A
    <3> QED
      BY <1>3, <1>4, <3>1, <3>2
  <2>2. CASE ServiceOf[i] = s
    <3>1. /\ w.known = v.known \cup {h}
          /\ w.surplus = IF h \in v.known THEN v.surplus + 1 ELSE v.surplus
      BY <1>5, <2>2 DEF After
    <3>2. Registered(s)' = (Registered(s) \ {key[i]}) \cup {h}
      BY <1>2, <2>2
    <3>3. h \in v.known /\ h # key[i] => h \in A
      BY <1>2
    <3>4. B \subseteq (A \ {h}) \cup ({key[i]} \ {NoHost, h})
      <4>1. NoHost \notin w.known
        BY <1>1, <1>4, <3>1, DiscoveryAssumption
      <4> HIDE DEF w
      <4> QED
        BY <3>1, <3>2, <4>1
    <3> HIDE DEF w
    <3>5. A \in SUBSET Hosts /\ B \in SUBSET Hosts
      BY <1>1, <1>4, <3>1
    <3> HIDE DEF A, B
    <3>6. /\ Cardinality(A) \in Nat /\ Cardinality(B) \in Nat /\ IsFiniteSet(A)
          /\ IsFiniteSet(A \ {h})
          /\ Cardinality(A \ {h}) = IF h \in A THEN Cardinality(A) - 1 ELSE Cardinality(A)
      BY <3>5, HostSetsFinite, FS_RemoveElement
    <3>7. CASE key[i] \in {NoHost, h}
      <4>1. B \in SUBSET (A \ {h})
        BY <3>4, <3>7
      <4>2. Cardinality(B) <= Cardinality(A \ {h})
        BY <3>6, <4>1, FS_Subset
      <4>3. CASE key[i] = NoHost
        BY <1>1, <1>3, <1>4, <3>1, <3>3, <3>6, <4>2, <4>3
      <4>4. CASE key[i] = h
        BY <1>1, <1>3, <1>4, <3>1, <3>6, <4>2, <4>4
      <4> QED
        BY <3>7, <4>3, <4>4
    <3>8. CASE key[i] \notin {NoHost, h}
      <4>1. B \in SUBSET ((A \ {h}) \cup {key[i]})
        BY <3>4
      <4>2. /\ IsFiniteSet((A \ {h}) \cup {key[i]})
            /\ Cardinality((A \ {h}) \cup {key[i]}) = IF key[i] \in A \ {h}
                 THEN Cardinality(A \ {h}) ELSE Cardinality(A \ {h}) + 1
        BY <3>6, FS_AddElement
      <4>3. Cardinality(B) <= Cardinality((A \ {h}) \cup {key[i]})
        BY <4>1, <4>2, FS_Subset
      <4>4. Cardinality(A \ {h}) \in Nat
        BY <3>6, FS_CardinalityType
      <4>5. Cardinality(B) <= Cardinality(A \ {h}) + 1
        BY <3>6, <4>2, <4>3, <4>4
      <4> QED
        BY <1>3, <1>4, <3>1, <3>3, <3>6, <3>8, <4>4, <4>5
    <3> QED
      BY <3>7, <3>8
  <2> QED
    BY <2>1, <2>2
<1>7. ASSUME NEW g \in Hosts \ unheard'
      PROVE  (g \in w.known <=> g \in Registered(s)') /\ g \notin w.doubled
  <2>1. g \in Hosts \ unheard /\ g # key[i]
    BY <1>1, <1>7, DiscoveryAssumption DEF NodeRegisters, Unheard
  <2>2. (g \in v.known <=> g \in Registered(s)) /\ g \notin v.doubled
    BY <1>3, <2>1
  <2>3. CASE ServiceOf[i] # s
    BY <1>2, <1>5, <2>2, <2>3 DEF After
  <2>4. CASE ServiceOf[i] = s
    <3>1. /\ w.known = v.known \cup {h}
          /\ w.doubled = IF h \in v.known THEN v.doubled \cup {h} ELSE v.doubled
          /\ Registered(s)' = (Registered(s) \ {key[i]}) \cup {h}
      BY <1>2, <1>5, <2>4 DEF After
    <3> HIDE DEF w
    <3> QED
      BY <1>2, <2>1, <2>2, <3>1
  <2> QED
    BY <2>3, <2>4
<1> QED
  BY <1>6, <1>7 DEF Justified

(* An expiry the consumer hears of. *)
LEMMA DeleteJustified ==
  ASSUME ManagerInv, NEW s \in Followed, NEW v \in View, Justified(s, v), phase = "watching",
         NEW i \in Instances, LeaseExpires(i), NEW h \in Hosts, h = key[i],
         NEW e \in Event, e = [type |-> "DELETE", key |-> i, host |-> h]
  PROVE  Justified(s, After(s, e, v))'
<1> DEFINE w == After(s, e, v)
           A == v.known \ Registered(s)
           B == w.known \ Registered(s)'
<1>1. /\ ServiceOf[i] # s => Registered(s)' = Registered(s)
      /\ ServiceOf[i] = s => Registered(s)' = Registered(s) \ {h}
  <2>1. Registered(s)' = NextRegistered(s)
    BY DEF Registered, NextRegistered
  <2>2. TypeOK /\ KeysAtHome /\ NoHost \in HostsOf[i] \cup {NoHost}
        /\ key' = [key EXCEPT ![i] = NoHost]
    BY DEF ManagerInv, LeaseExpires
  <2>3. /\ ServiceOf[i] # s => NextRegistered(s) = Registered(s)
        /\ ServiceOf[i] = s =>
              NextRegistered(s) = (Registered(s) \ {key[i]}) \cup ({NoHost} \ {NoHost})
    BY <2>2, RegisteredChange
  <2> QED
    BY <2>1, <2>3
<1>2. /\ v.surplus + Cardinality(A) <= reputs + missed
      /\ \A g \in Hosts \ unheard : (g \in v.known <=> g \in Registered(s)) /\ g \notin v.doubled
  BY DEF Justified
<1>3. /\ missed' = missed /\ reputs' = reputs /\ phase' = phase
      /\ reputs \in Nat /\ missed \in Nat /\ v.surplus \in Int /\ v.known \in SUBSET Hosts
  BY DEF LeaseExpires, Publish, ManagerInv, TypeOK, View
<1>4. /\ w.surplus = v.surplus /\ w.doubled = v.doubled
      /\ w.known = IF ServiceOf[i] = s THEN v.known \ {h} ELSE v.known
  BY DEF After
<1>5. B \in SUBSET A
  BY <1>1, <1>4
<1> HIDE DEF A, B, w
<1>6. IsFiniteSet(A) /\ Cardinality(A) \in Nat /\ Cardinality(B) \in Nat
  <2>1. A \in SUBSET Hosts
    BY <1>3 DEF A
  <2> QED
    BY <1>5, <2>1, HostSetsFinite
<1>7. Cardinality(B) <= Cardinality(A)
  BY <1>5, <1>6, FS_Subset
<1>8. w.surplus + Cardinality(B) <= reputs' + missed'
  BY <1>2, <1>3, <1>4, <1>6, <1>7
<1>9. \A g \in Hosts \ unheard' :
        (g \in w.known <=> g \in Registered(s)') /\ g \notin w.doubled
  <2>1. unheard' = unheard
    BY DEF LeaseExpires
  <2> QED
    BY <1>1, <1>2, <1>4, <2>1
<1> QED
  BY <1>8, <1>9 DEF Justified, B, w

(* A change between the listing and the watch. *)
LEMMA MissedJustified ==
  ASSUME ManagerInv, NEW s \in Followed, NEW v \in View, Justified(s, v), phase = "listing",
         NEW i \in Instances, NEW x \in HostsOf[i] \cup {NoHost}, key' = [key EXCEPT ![i] = x],
         phase' = phase, missed' = missed + 1, reputs' \in {reputs, reputs + 1},
         unheard \cup ({key[i], x} \ {NoHost}) \subseteq unheard'
  PROVE  Justified(s, v)'
<1> DEFINE A == v.known \ Registered(s)
           B == v.known \ Registered(s)'
<1>1. /\ Registered(s) \subseteq Registered(s)' \cup {key[i]}
      /\ Registered(s)' \subseteq Registered(s) \cup ({x} \ {NoHost})
  <2>1. Registered(s)' = NextRegistered(s)
    BY DEF Registered, NextRegistered
  <2>2. TypeOK /\ KeysAtHome
    BY DEF ManagerInv
  <2>3. /\ ServiceOf[i] # s => NextRegistered(s) = Registered(s)
        /\ ServiceOf[i] = s =>
              NextRegistered(s) = (Registered(s) \ {key[i]}) \cup ({x} \ {NoHost})
    BY <2>2, RegisteredChange
  <2> QED
    BY <2>1, <2>3
<1>2. v.surplus + Cardinality(A) <= reputs + missed
  BY DEF Justified
<1>3. reputs \in Nat /\ missed \in Nat /\ v.surplus \in Int /\ v.known \in SUBSET Hosts
  BY DEF ManagerInv, TypeOK, View
<1>4. B \in SUBSET (A \cup {key[i]}) /\ A \in SUBSET Hosts /\ B \in SUBSET Hosts
  BY <1>1, <1>3
<1> HIDE DEF A, B
<1>5. Cardinality(A) \in Nat /\ Cardinality(B) \in Nat /\ IsFiniteSet(A)
  BY <1>4, HostSetsFinite
<1>6. /\ IsFiniteSet(A \cup {key[i]})
      /\ Cardinality(A \cup {key[i]}) = IF key[i] \in A THEN Cardinality(A) ELSE Cardinality(A) + 1
  BY <1>5, FS_AddElement
<1>7. Cardinality(B) <= Cardinality(A) + 1
  <2>1. Cardinality(B) <= Cardinality(A \cup {key[i]})
    BY <1>4, <1>6, FS_Subset
  <2> QED
    BY <1>5, <1>6, <2>1
<1>8. v.surplus + Cardinality(B) <= reputs' + missed'
  BY <1>2, <1>3, <1>5, <1>7
<1>9. ASSUME NEW g \in Hosts \ unheard'
      PROVE  (g \in v.known <=> g \in Registered(s)') /\ g \notin v.doubled
  <2>1. g \in Hosts \ unheard /\ g \notin {key[i], x}
    BY <1>9, DiscoveryAssumption
  <2>2. (g \in v.known <=> g \in Registered(s)) /\ g \notin v.doubled
    BY <2>1 DEF Justified
  <2> QED
    BY <1>1, <2>1, <2>2
<1> QED
  BY <1>8, <1>9 DEF Justified, B

(* A change that was not taken up. *)
LEMMA NearJustified ==
  ASSUME ManagerInv, NEW s \in Followed, NEW x \in View, NEW y \in View, Justified(s, y),
         phase # "start", NEW h \in Hosts, NEW n \in {0, 1}, Near(h, n, x, y),
         UNCHANGED <<key, phase, reputs>>, missed' = missed + n, unheard' = unheard \cup {h}
  PROVE  Justified(s, x)'
<1> DEFINE A == x.known \ Registered(s)
           B == y.known \ Registered(s)
<1>1. Registered(s)' = Registered(s)
  BY DEF Registered
<1>2. /\ y.surplus + Cardinality(B) <= reputs + missed
      /\ \A g \in Hosts \ unheard : (g \in y.known <=> g \in Registered(s)) /\ g \notin y.doubled
  BY DEF Justified
<1>3. /\ SameButFor(h, x, y)
      /\ x.surplus <= y.surplus + n
      /\ x.surplus + Held(h, x) <= y.surplus + Held(h, y) + n
  BY DEF Near
<1>4. /\ x.surplus \in Int /\ y.surplus \in Int /\ reputs \in Nat /\ missed \in Nat
      /\ x.known \in SUBSET Hosts /\ y.known \in SUBSET Hosts
      /\ A \in SUBSET Hosts /\ B \in SUBSET Hosts
  BY DEF View, ManagerInv, TypeOK
<1>5. A \ {h} = B \ {h}
  <2>1. \A g \in Hosts \ {h} : g \in A <=> g \in B
    BY <1>3 DEF SameButFor
  <2> QED
    BY <1>4, <2>1
<1>6. /\ h \in A <=> (h \in x.known /\ h \notin Registered(s))
      /\ h \in B <=> (h \in y.known /\ h \notin Registered(s))
  OBVIOUS
<1> HIDE DEF A, B
<1>7. /\ Cardinality(A) \in Nat /\ Cardinality(B) \in Nat
      /\ Cardinality(A \ {h}) = IF h \in A THEN Cardinality(A) - 1 ELSE Cardinality(A)
      /\ Cardinality(B \ {h}) = IF h \in B THEN Cardinality(B) - 1 ELSE Cardinality(B)
  BY <1>4, HostSetsFinite, FS_RemoveElement
<1>8. x.surplus + Cardinality(A) <= y.surplus + Cardinality(B) + n
  <2>1. CASE h \in Registered(s)
    <3>1. Cardinality(A) = Cardinality(B)
      BY <1>5, <1>6, <1>7, <2>1
    <3> QED
      BY <1>3, <1>4, <1>7, <3>1
  <2>2. CASE h \notin Registered(s)
    <3>1. PICK m \in Nat : m = Cardinality(A \ {h}) /\ m = Cardinality(B \ {h})
      <4>1. IsFiniteSet(A \ {h})
        BY <1>4, HostSetsFinite, FS_RemoveElement
      <4>2. Cardinality(A \ {h}) \in Nat
        BY <4>1, FS_CardinalityType
      <4> QED
        BY <1>5, <4>2
    <3>2. Cardinality(A) = m + Held(h, x) /\ Cardinality(B) = m + Held(h, y)
      BY <1>6, <1>7, <2>2, <3>1 DEF Held
    <3>3. Held(h, x) \in Int /\ Held(h, y) \in Int /\ n \in Int
      BY DEF Held
    <3> QED
      BY <1>3, <1>4, <3>2, <3>3
  <2> QED
    BY <2>1, <2>2
<1>9. x.surplus + Cardinality(A) <= reputs' + missed'
  BY <1>2, <1>4, <1>7, <1>8
<1>10. \A g \in Hosts \ unheard' : (g \in x.known <=> g \in Registered(s)) /\ g \notin x.doubled
  BY <1>2, <1>3 DEF SameButFor
<1> QED
  BY <1>1, <1>9, <1>10 DEF Justified, A

-----------------------------------------------------------------------------
(* Every step keeps AheadInv. *)

AheadOf(s) == \E v \in View : LeadsTo(s, AfterCallback(s), events, v) /\ Justified(s, v)

LEMMA NodeStepAhead ==
  ASSUME ManagerInv, AheadInv, NEW i \in Instances,
         NodeStarts(i) \/ NodeStops(i) \/ KeepAliveLost(i) \/ LeaseExpires(i)
  PROVE  AheadInv'
<1>1. UNCHANGED <<phase, callback, services, hosts, channels>>
  BY NodesLeaveManager DEF manager
<1>2. phase # "watching" => events' = events
  BY DEF NodeStarts, NodeRegisters, NodeFailsToRegister, NodeStops, KeepAliveLost,
         LeaseExpires, Publish
<1>3. ASSUME NEW s \in Followed PROVE AheadOf(s)'
  <2>1. PICK v \in View : LeadsTo(s, AfterCallback(s), events, v) /\ Justified(s, v)
    BY DEF AheadInv
  <2>2. AfterCallback(s)' = AfterCallback(s)
    BY <1>1 DEF AfterCallback, Now, Known, Doubled, ChannelsTo
  <2>3. AfterCallback(s) \in View /\ events \in Seq(Event)
    BY NowTyped, DiscoveryAssumption DEF ManagerInv, TypeOK
  <2>4. CASE events' = events /\ Justified(s, v)'
    BY <2>1, <2>2, <2>4 DEF AheadOf
  <2>5. CASE \E e \in Event : events' = Append(events, e) /\ Justified(s, After(s, e, v))'
    <3>1. PICK e \in Event : events' = Append(events, e) /\ Justified(s, After(s, e, v))'
      BY <2>5
    <3>2. LeadsTo(s, AfterCallback(s), Append(events, e), After(s, e, v))
      BY <2>1, <2>3, AppendLeads
    <3>3. After(s, e, v) \in View
      BY AfterTyped
    <3> QED
      BY <2>2, <3>1, <3>2, <3>3 DEF AheadOf
  <2>6. CASE UNCHANGED <<key, events, reputs, missed, unheard>>
    <3>1. Justified(s, v)'
      BY <1>1, <2>1, <2>6 DEF Justified, Registered
    <3> QED
      BY <2>4, <2>6, <3>1
  <2>7. ASSUME NEW h \in HostsOf[i], NodeRegisters(i, h) PROVE AheadOf(s)'
    <3>1. h \in Hosts /\ phase \in {"start", "listing", "watching"}
      BY DiscoveryAssumption DEF ManagerInv, TypeOK
    <3>2. CASE phase = "watching"
      <4>1. PICK e \in Event : e = [type |-> "PUT", key |-> i, host |-> h]
        BY <3>1, MakesEvent
      <4>2. events' = Append(events, e)
        BY <2>7, <3>2, <4>1 DEF NodeRegisters, Publish
      <4>3. Justified(s, After(s, e, v))'
        BY <1>1, <2>1, <2>7, <3>2, <4>1, PutJustified
      <4> QED
        BY <2>5, <4>2, <4>3
    <3>3. CASE phase = "listing"
      <4>1. /\ key' = [key EXCEPT ![i] = h] /\ h \in HostsOf[i] \cup {NoHost}
            /\ missed' = missed + 1 /\ reputs' \in {reputs, reputs + 1} /\ phase' = phase
            /\ unheard \cup ({key[i], h} \ {NoHost}) \subseteq unheard'
        BY <1>1, <2>7, <3>3 DEF NodeRegisters, Publish, Unheard
      <4>2. Justified(s, v)'
        BY <2>1, <3>3, <4>1, MissedJustified
      <4> QED
        BY <1>2, <2>4, <3>3, <4>2
    <3>4. CASE phase = "start"
      <4>1. Justified(s, v)'
        BY <1>1, <3>4 DEF Justified
      <4> QED
        BY <1>2, <2>4, <3>4, <4>1
    <3> QED
      BY <3>1, <3>2, <3>3, <3>4
  <2>8. CASE LeaseExpires(i)
    <3>1. /\ key[i] \in Hosts /\ phase \in {"start", "listing", "watching"}
          /\ key' = [key EXCEPT ![i] = NoHost] /\ reputs' = reputs
      BY <2>8 DEF LeaseExpires, ManagerInv, TypeOK
    <3>2. CASE phase = "watching"
      <4>1. PICK h \in Hosts : h = key[i]
        BY <3>1
      <4>2. PICK e \in Event : e = [type |-> "DELETE", key |-> i, host |-> h]
        BY MakesEvent
      <4>3. events' = Append(events, e)
        BY <2>8, <3>2, <4>1, <4>2 DEF LeaseExpires, Publish
      <4>4. Justified(s, After(s, e, v))'
        BY <2>1, <2>8, <3>2, <4>1, <4>2, DeleteJustified
      <4> QED
        BY <2>5, <4>3, <4>4
    <3>3. CASE phase = "listing"
      <4>1. /\ missed' = missed + 1 /\ phase' = phase /\ reputs' \in {reputs, reputs + 1}
            /\ NoHost \in HostsOf[i] \cup {NoHost}
            /\ unheard \cup ({key[i], NoHost} \ {NoHost}) \subseteq unheard'
        BY <1>1, <2>8, <3>1, <3>3 DEF LeaseExpires, Publish
      <4>2. Justified(s, v)'
        BY <2>1, <3>1, <3>3, <4>1, MissedJustified
      <4> QED
        BY <1>2, <2>4, <3>3, <4>2
    <3>4. CASE phase = "start"
      <4>1. Justified(s, v)'
        BY <1>1, <3>4 DEF Justified
      <4> QED
        BY <1>2, <2>4, <3>4, <4>1
    <3> QED
      BY <3>1, <3>2, <3>3, <3>4
  <2>9. \/ \E h \in HostsOf[i] : NodeRegisters(i, h)
        \/ LeaseExpires(i)
        \/ UNCHANGED <<key, events, reputs, missed, unheard>>
    BY DEF NodeStarts, NodeFailsToRegister, NodeStops, KeepAliveLost, counts
  <2> QED
    BY <2>6, <2>7, <2>8, <2>9
<1> QED
  BY <1>1, <1>2, <1>3 DEF AheadInv, AheadOf

(* A consumer that holds nothing. *)
LEMMA EmptyAhead ==
  ASSUME ManagerInv, services = {}, callback = NoEvent, NEW s \in Followed
  PROVE  AfterCallback(s) = Plain({}) /\ AfterCallback(s) \in View
<1>1. s \in Services /\ s \notin services
  BY DiscoveryAssumption
<1>2. Known(s) = {} /\ channels[s] = <<>>
  BY <1>1 DEF ManagerInv, ServicesFit
<1>3. Now(s) = Plain({})
  <2>1. Len(channels[s]) = 0 /\ Cardinality(Known(s)) = 0
    BY <1>2, FS_EmptySet
  <2>2. Len(channels[s]) - Cardinality(Known(s)) = 0
    BY <2>1
  <2>3. Doubled(s) = {}
    BY <1>2 DEF Doubled, ChannelsTo, ToSet
  <2> QED
    BY <1>2, <2>2, <2>3 DEF Now, Plain
<1>4. AfterCallback(s) = Plain({})
  BY <1>3 DEF AfterCallback
<1> QED
  BY <1>4 DEF View, Plain

LEMMA ListAhead ==
  ASSUME ManagerInv, AheadInv, ListKeys
  PROVE  AheadInv'
<1>1. /\ phase = "start" /\ phase' = "listing" /\ callback = NoEvent /\ services = {}
      /\ UNCHANGED <<key, callback, services, hosts, channels, reputs, missed, unheard>>
  BY DEF ListKeys, AheadInv, nodes, manager, counts
<1>2. PICK q \in Seq(Event) : /\ q = events' /\ \A x \in Listed : \E k \in 1..Len(q) : q[k] = x
                              /\ \A j, k \in 1..Len(q) : q[j] = q[k] => j = k
                              /\ \A k \in 1..Len(q) : q[k] \in Listed
  <2>1. events' \in SetToSeqs(Listed)
    BY DEF ListKeys, Listed, KeysThere
  <2>2. IsFiniteSet(Listed) /\ Listed \subseteq Event
    BY ListedFinite DEF ManagerInv
  <2>3. /\ events' \in Seq(Listed) /\ \A x \in Listed : \E k \in 1..Len(events') : events'[k] = x
        /\ \A j, k \in 1..Len(events') : events'[j] = events'[k] => j = k
    BY <2>1, <2>2, OrdersOfSet
  <2>4. events' \in Seq(Event) /\ \A k \in 1..Len(events') : events'[k] \in Listed
    BY <2>2, <2>3
  <2> QED
    BY <2>3, <2>4
<1>3. \A x \in Listed : /\ x.type = "PUT" /\ x.key \in Instances /\ x.host = key[x.key]
                        /\ x.host # NoHost /\ x = [type |-> "PUT", key |-> x.key, host |-> x.host]
  BY DEF Listed, KeysThere
<1>4. \A j, k \in 1..Len(q) : q[j].host = q[k].host => j = k
  <2> SUFFICES ASSUME NEW j \in 1..Len(q), NEW k \in 1..Len(q), q[j].host = q[k].host
               PROVE  j = k
    OBVIOUS
  <2>1. q[j] \in Listed /\ q[k] \in Listed
    BY <1>2
  <2>2. q[j].key = q[k].key
    BY <1>3, <2>1, DiscoveryAssumption DEF ManagerInv, KeysAtHome
  <2>3. q[j] = q[k]
    BY <1>3, <2>1, <2>2
  <2> QED
    BY <1>2, <2>3
<1>5. ASSUME NEW s \in Followed PROVE AheadOf(s)'
  <2> DEFINE K == {q[k].host : k \in {j \in 1..Len(q) : ServiceOf[q[j].key] = s}}
  <2>1. PICK w : /\ w = Plain(K)
                 /\ LeadsTo(s, Plain({}), q, w)
    <3>1. \A k \in 1..Len(q) : q[k].type = "PUT"
      BY <1>2, <1>3
    <3>2. LeadsTo(s, Plain({}), q, Plain(K))
      BY <1>4, <3>1, PutsLead
    <3> QED
      BY <3>2
  <2>2. AfterCallback(s) = Plain({}) /\ AfterCallback(s) \in View
    BY <1>1, EmptyAhead
  <2>3. AfterCallback(s)' = AfterCallback(s)
    BY <1>1 DEF AfterCallback, Now, Known, Doubled, ChannelsTo
  <2>4. K = Registered(s)
    <3>1. ASSUME NEW x \in K PROVE x \in Registered(s)
      <4>1. PICK k \in 1..Len(q) : x = q[k].host /\ ServiceOf[q[k].key] = s
        OBVIOUS
      <4>2. q[k] \in Listed
        BY <1>2
      <4> QED
        BY <1>3, <4>1, <4>2 DEF Registered
    <3>2. ASSUME NEW x \in Registered(s) PROVE x \in K
      <4>1. PICK i \in Instances : key[i] = x /\ ServiceOf[i] = s /\ x # NoHost
        BY DEF Registered
      <4>2. PICK e \in Listed : e = [type |-> "PUT", key |-> i, host |-> key[i]]
        BY <4>1 DEF Listed, KeysThere
      <4>3. PICK k \in 1..Len(q) : q[k] = e
        BY <1>2
      <4> QED
        BY <4>1, <4>2, <4>3
    <3> QED
      BY <3>1, <3>2
  <2>5. Registered(s)' = Registered(s)
    BY <1>1 DEF Registered
  <2> HIDE DEF K
  <2>6. w \in View
    BY <1>2, <2>1, <2>2, EventsLeadUp
  <2>7. Justified(s, w)'
    <3>1. w.known = Registered(s) /\ w.surplus = 0 /\ w.doubled = {}
      BY <2>1, <2>4 DEF Plain
    <3>2. 0 <= reputs' + missed'
      BY <1>1 DEF ManagerInv, TypeOK
    <3>3. w.surplus + Cardinality(w.known \ Registered(s)') <= reputs' + missed'
      <4>1. w.known \ Registered(s)' = {}
        BY <2>5, <3>1
      <4>2. Cardinality(w.known \ Registered(s)') = 0
        BY <4>1, FS_EmptySet
      <4>3. w.surplus + Cardinality(w.known \ Registered(s)') = 0
        BY <3>1, <4>2
      <4> QED
        BY <3>2, <4>3
    <3>4. \A h : (h \in w.known <=> h \in Registered(s)') /\ h \notin w.doubled
      BY <2>5, <3>1
    <3> QED
      BY <3>3, <3>4 DEF Justified
  <2> QED
    BY <1>2, <2>1, <2>2, <2>3, <2>6, <2>7 DEF AheadOf
<1> QED
  BY <1>1, <1>5 DEF AheadInv, AheadOf

LEMMA ListFailsAhead ==
  ASSUME ManagerInv, AheadInv, ListFails
  PROVE  AheadInv'
<1>1. /\ phase = "start" /\ phase' = "listing" /\ events = <<>> /\ callback = NoEvent
      /\ services = {} /\ missed' = missed + Cardinality(KeysThere)
      /\ UNCHANGED <<key, events, callback, services, hosts, channels, reputs>>
      /\ unheard' = unheard \cup ({key[i] : i \in Instances} \ {NoHost})
  BY DEF ListFails, AheadInv, nodes, manager, KeysThere
<1>2. reputs \in Nat /\ missed \in Nat /\ Cardinality(KeysThere) \in Nat /\ IsFiniteSet(KeysThere)
  BY ListedFinite DEF ManagerInv, TypeOK
<1>3. ASSUME NEW s \in Followed PROVE AheadOf(s)'
  <2>1. PICK v \in View : v = AfterCallback(s) /\ v = Plain({})
    BY <1>1, EmptyAhead
  <2>2. AfterCallback(s)' = AfterCallback(s)
    BY <1>1 DEF AfterCallback, Now, Known, Doubled, ChannelsTo
  <2>3. LeadsTo(s, v, <<>>, v)
    BY NoEventsLead
  <2>4. Justified(s, v)'
    <3>1. v.known = {} /\ v.surplus = 0 /\ v.doubled = {} /\ Cardinality({}) = 0
          /\ v.known \ Registered(s)' = {}
      BY <2>1, FS_EmptySet DEF Plain
    <3>2. \A h \in Hosts \ unheard' : (h \in v.known <=> h \in Registered(s)') /\ h \notin v.doubled
      BY <1>1, <3>1 DEF Registered
    <3> QED
      BY <1>1, <1>2, <3>1, <3>2 DEF Justified
  <2> QED
    BY <1>1, <2>1, <2>2, <2>3, <2>4 DEF AheadOf
<1> QED
  BY <1>1, <1>3 DEF AheadInv, AheadOf

LEMMA TakeEventAhead ==
  ASSUME ManagerInv, AheadInv, TakeEvent
  PROVE  AheadInv'
<1>1. /\ events # <<>> /\ events' = Tail(events) /\ callback = NoEvent
      /\ events \in Seq(Event) /\ Head(events) \in Event
      /\ UNCHANGED <<key, phase, hosts, channels, reputs, missed, unheard>>
  BY DEF TakeEvent, ManagerInv, TypeOK, nodes, counts
<1>2. PICK e \in Event : e = Head(events) /\ IF e.type = "PUT" THEN Online(e) ELSE Offline(e)
  BY <1>1 DEF TakeEvent
<1>3. phase # "start"
  BY <1>1 DEF AheadInv
<1>4. ASSUME NEW s \in Followed PROVE AheadOf(s)'
  <2>1. PICK v \in View : LeadsTo(s, AfterCallback(s), events, v) /\ Justified(s, v)
    BY DEF AheadInv
  <2>2. s \in Services /\ Now(s) \in View /\ AfterCallback(s) = Now(s)
    BY <1>1, NowTyped, DiscoveryAssumption DEF ManagerInv, AfterCallback
  <2>3. LeadsTo(s, After(s, e, Now(s)), Tail(events), v)
    BY <1>1, <1>2, <2>1, <2>2, TailLeads
  <2>4. Now(s)' = Now(s) /\ Known(s)' = Known(s)
    BY <1>1 DEF Now, Known, Doubled, ChannelsTo
  <2>5. AfterCallback(s)' = After(s, e, Now(s))
    <3>1. CASE callback' = e
      <4>1. e # NoEvent
        BY ObjectAssumption
      <4> QED
        BY <2>4, <3>1, <4>1 DEF AfterCallback
    <3>2. CASE callback' # e
      <4>1. /\ callback' = NoEvent
            /\ ServiceOf[e.key] # s \/ (e.type # "PUT" /\ s \notin services)
        BY <1>1, <1>2, <3>2 DEF Online, Offline
      <4>2. After(s, e, Now(s)) = Now(s)
        <5>1. CASE ServiceOf[e.key] # s
          BY <5>1 DEF After
        <5>2. CASE e.type # "PUT" /\ s \notin services
          <6>1. Known(s) = {}
            BY <2>2, <5>2 DEF ManagerInv, ServicesFit
          <6>2. Now(s).known \ {e.host} = Now(s).known
            BY <6>1 DEF Now
          <6>3. \/ After(s, e, Now(s)) = Now(s)
                \/ After(s, e, Now(s)) = [known |-> Now(s).known, surplus |-> Now(s).surplus,
                                      doubled |-> Now(s).doubled]
            BY <5>2, <6>2 DEF After
          <6> QED
            BY <2>2, <6>3 DEF View
        <5> QED
          BY <4>1, <5>1, <5>2
      <4> QED
        BY <2>4, <4>1, <4>2 DEF AfterCallback
    <3> QED
      BY <3>1, <3>2
  <2>6. Justified(s, v)'
    BY <1>1, <2>1 DEF Justified, Registered
  <2> QED
    BY <1>1, <2>3, <2>5, <2>6 DEF AheadOf
<1> QED
  BY <1>1, <1>3, <1>4 DEF AheadInv, AheadOf

LEMMA UpdateAhead ==
  ASSUME ManagerInv, AheadInv, UpdateChannel
  PROVE  AheadInv'
<1>1. /\ callback # NoEvent /\ callback \in Event /\ callback' = NoEvent
      /\ UNCHANGED <<key, phase, events, services, reputs, missed, unheard>>
  BY DEF UpdateChannel, ManagerInv, TypeOK, nodes, counts
<1>2. PICK e \in Event : e = callback
  BY <1>1
<1>3. PICK t \in Services, h \in Hosts : t = ServiceOf[e.key] /\ h = e.host
  BY EventFields
<1>4. IF e.type = "PUT" THEN AppendChannel(t, h) ELSE RemoveChannel(t, h)
  BY <1>2, <1>3 DEF UpdateChannel
<1>5. ASSUME NEW s \in Followed PROVE Now(s)' = After(s, e, Now(s))
  <2>1. s \in Services /\ Len(channels[s]) \in Nat
    <3>1. s \in Services
      BY DiscoveryAssumption
    <3>2. channels[s] \in Seq(Channel)
      BY <3>1 DEF ManagerInv, TypeOK
    <3> QED
      BY <3>1, <3>2
  <2>2. CASE s # t
    <3>1. hosts'[s] = hosts[s] /\ channels'[s] = channels[s]
      BY <1>4, <2>1, <2>2, AppendEffect, RemoveEffect DEF ManagerInv
    <3>2. Now(s)' = Now(s)
      BY <3>1 DEF Now, Known, Doubled, ChannelsTo
    <3> QED
      BY <1>3, <2>2, <3>2 DEF After
  <2>3. CASE s = t /\ e.type = "PUT"
    <3>1. AppendChannel(s, h)
      BY <1>4, <2>3
    <3>2. /\ Known(s)' = Known(s) \cup {h} /\ Len(channels'[s]) = Len(channels[s]) + 1
          /\ Doubled(s)' = IF h \in Known(s) THEN Doubled(s) \cup {h} ELSE Doubled(s)
      BY <2>1, <3>1, AppendEffect DEF ManagerInv
    <3>3. Cardinality(Known(s)') = IF h \in Known(s) THEN Cardinality(Known(s))
                                   ELSE Cardinality(Known(s)) + 1
      BY <3>2, KnownFinite, FS_AddElement
    <3>4. Now(s)' = [known |-> Known(s)', surplus |-> Len(channels'[s]) - Cardinality(Known(s)'),
                     doubled |-> Doubled(s)']
      BY DEF Now
    <3>5. After(s, e, Now(s)) =
            [known |-> Known(s) \cup {h},
             surplus |-> IF h \in Known(s) THEN Len(channels[s]) - Cardinality(Known(s)) + 1
                         ELSE Len(channels[s]) - Cardinality(Known(s)),
             doubled |-> IF h \in Known(s) THEN Doubled(s) \cup {h} ELSE Doubled(s)]
      BY <1>3, <2>3 DEF After, Now
    <3>6. Len(channels'[s]) - Cardinality(Known(s)') =
            IF h \in Known(s) THEN Len(channels[s]) - Cardinality(Known(s)) + 1
            ELSE Len(channels[s]) - Cardinality(Known(s))
      BY <2>1, <3>2, <3>3, KnownFinite
    <3> QED
      BY <3>2, <3>4, <3>5, <3>6
  <2>4. CASE s = t /\ e.type # "PUT"
    <3>1. RemoveChannel(s, h)
      BY <1>4, <2>4
    <3>2. /\ Known(s)' = Known(s) \ {h}
          /\ Len(channels'[s]) = Len(channels[s]) - (IF h \in Known(s) THEN 1 ELSE 0)
          /\ Doubled(s)' = Doubled(s)
      BY <2>1, <3>1, RemoveEffect DEF ManagerInv
    <3>3. Cardinality(Known(s)') = IF h \in Known(s) THEN Cardinality(Known(s)) - 1
                                   ELSE Cardinality(Known(s))
      BY <3>2, KnownFinite, FS_RemoveElement
    <3>4. Now(s)' = [known |-> Known(s)', surplus |-> Len(channels'[s]) - Cardinality(Known(s)'),
                     doubled |-> Doubled(s)']
      BY DEF Now
    <3>5. After(s, e, Now(s)) = [known |-> Known(s) \ {h},
                                surplus |-> Len(channels[s]) - Cardinality(Known(s)),
                                doubled |-> Doubled(s)]
      BY <1>3, <2>4 DEF After, Now
    <3>6. Len(channels'[s]) - Cardinality(Known(s)') = Len(channels[s]) - Cardinality(Known(s))
      <4>1. Cardinality(Known(s)) \in Nat
        BY KnownFinite
      <4>2. CASE h \in Known(s)
        BY <2>1, <3>2, <3>3, <4>1, <4>2
      <4>3. CASE h \notin Known(s)
        BY <2>1, <3>2, <3>3, <4>1, <4>3
      <4> QED
        BY <4>2, <4>3
    <3> QED
      BY <3>2, <3>4, <3>5, <3>6
  <2> QED
    BY <2>2, <2>3, <2>4
<1>6. ASSUME NEW s \in Followed PROVE AheadOf(s)'
  <2>1. PICK v \in View : LeadsTo(s, AfterCallback(s), events, v) /\ Justified(s, v)
    BY DEF AheadInv
  <2>2. AfterCallback(s)' = AfterCallback(s)
    BY <1>1, <1>2, <1>5 DEF AfterCallback
  <2>3. Justified(s, v)'
    BY <1>1, <2>1 DEF Justified, Registered
  <2> QED
    BY <1>1, <2>1, <2>2, <2>3 DEF AheadOf
<1> QED
  BY <1>1, <1>6 DEF AheadInv, AheadOf

(* A notification that is an error, and an address no channel can be made  *)
(* to.                                                                     *)
LEMMA ErrorAhead ==
  ASSUME ManagerInv, AheadInv, ErrorNotified
  PROVE  AheadInv'
<1>1. /\ events # <<>> /\ events' = Tail(events) /\ phase = "watching"
      /\ events \in Seq(Event) /\ missed' = missed + 1
      /\ UNCHANGED <<key, phase, callback, services, hosts, channels, reputs>>
  BY DEF ErrorNotified, ManagerInv, TypeOK, nodes, manager
<1>2. PICK e \in Event : e = Head(events)
  BY <1>1
<1>3. PICK h \in Hosts : h = e.host
  BY EventFields
<1>4. unheard' = unheard \cup {h} /\ phase # "start"
  BY <1>1, <1>2, <1>3 DEF ErrorNotified
<1>5. ASSUME NEW s \in Followed PROVE AheadOf(s)'
  <2>1. PICK y \in View : LeadsTo(s, AfterCallback(s), events, y) /\ Justified(s, y)
    BY DEF AheadInv
  <2>2. PICK v \in View : v = AfterCallback(s)
    BY NowTyped, DiscoveryAssumption DEF ManagerInv
  <2>3. LeadsTo(s, After(s, e, v), Tail(events), y)
    BY <1>1, <1>2, <2>1, <2>2, TailLeads
  <2>4. Near(h, 1, v, After(s, e, v)) /\ After(s, e, v) \in View
    BY <1>3, AfterTyped, NotTakenUp
  <2>5. Tail(events) \in Seq(Event)
    BY <1>1
  <2>6. PICK x \in View : LeadsTo(s, v, Tail(events), x) /\ Near(h, 1, x, y)
    BY <2>3, <2>4, <2>5, NearLeads
  <2>7. Justified(s, x)'
    BY <1>1, <1>4, <2>1, <2>6, NearJustified
  <2>8. AfterCallback(s)' = AfterCallback(s)
    BY <1>1 DEF AfterCallback, Now, Known, Doubled, ChannelsTo
  <2> QED
    BY <1>1, <2>2, <2>6, <2>7, <2>8 DEF AheadOf
<1> QED
  BY <1>1, <1>5 DEF AheadInv, AheadOf

LEMMA AppendFailsAhead ==
  ASSUME ManagerInv, AheadInv, AppendFails
  PROVE  AheadInv'
<1>1. /\ callback # NoEvent /\ callback \in Event /\ callback' = NoEvent
      /\ UNCHANGED <<key, phase, events, services, hosts, channels, reputs, missed>>
  BY DEF AppendFails, ManagerInv, TypeOK, nodes, manager
<1>2. PICK e \in Event : e = callback /\ e.type = "PUT"
  BY <1>1 DEF AppendFails
<1>3. PICK h \in Hosts : h = e.host
  BY EventFields
<1>4. unheard' = unheard \cup {h} /\ phase # "start" /\ missed' = missed + 0
  BY <1>1, <1>2, <1>3 DEF AppendFails, AheadInv, ManagerInv, TypeOK
<1>5. ASSUME NEW s \in Followed PROVE AheadOf(s)'
  <2>1. PICK y \in View : LeadsTo(s, AfterCallback(s), events, y) /\ Justified(s, y)
    BY DEF AheadInv
  <2>2. PICK v \in View : v = Now(s)
    BY NowTyped, DiscoveryAssumption DEF ManagerInv
  <2>3. LeadsTo(s, After(s, e, v), events, y)
    BY <1>1, <1>2, <2>1, <2>2 DEF AfterCallback
  <2>4. Near(h, 0, v, After(s, e, v)) /\ After(s, e, v) \in View
    BY <1>2, <1>3, AfterTyped, NotTakenUp
  <2>5. events \in Seq(Event)
    BY DEF ManagerInv, TypeOK
  <2>6. PICK x \in View : LeadsTo(s, v, events, x) /\ Near(h, 0, x, y)
    BY <2>3, <2>4, <2>5, NearLeads
  <2>7. Justified(s, x)'
    BY <1>1, <1>4, <2>1, <2>6, NearJustified
  <2>8. AfterCallback(s)' = Now(s)
    BY <1>1 DEF AfterCallback, Now, Known, Doubled, ChannelsTo
  <2> QED
    BY <1>1, <2>2, <2>6, <2>7, <2>8 DEF AheadOf
<1> QED
  BY <1>1, <1>4, <1>5 DEF AheadInv, AheadOf

(* A consumer that has just started. *)
LEMMA StartAhead ==
  ASSUME ManagerInv, phase = "start", events = <<>>, callback = NoEvent, services = {}
  PROVE  AheadInv
<1>1. ASSUME NEW s \in Followed PROVE AheadOf(s)
  <2>1. AfterCallback(s) \in View
    BY EmptyAhead
  <2>2. LeadsTo(s, AfterCallback(s), <<>>, AfterCallback(s))
    BY <2>1, NoEventsLead
  <2>3. Justified(s, AfterCallback(s))
    BY DEF Justified
  <2> QED
    BY <2>1, <2>2, <2>3 DEF AheadOf
<1> QED
  BY <1>1 DEF AheadInv, AheadOf

LEMMA QuietStepAhead ==
  ASSUME ManagerInv, AheadInv, phase' = phase \/ (phase = "listing" /\ phase' = "watching"),
         UNCHANGED <<key, events, callback, services, hosts, channels, reputs, missed, unheard>>
  PROVE  AheadInv'
<1>1. ASSUME NEW s \in Followed PROVE AheadOf(s)'
  <2>1. PICK v \in View : LeadsTo(s, AfterCallback(s), events, v) /\ Justified(s, v)
    BY DEF AheadInv
  <2>2. AfterCallback(s)' = AfterCallback(s)
    BY DEF AfterCallback, Now, Known, Doubled, ChannelsTo
  <2>3. Justified(s, v)'
    BY <2>1 DEF Justified, Registered
  <2> QED
    BY <2>1, <2>2, <2>3 DEF AheadOf
<1> QED
  BY <1>1 DEF AheadInv, AheadOf

LEMMA Ahead == Spec => [](ManagerInv /\ AheadInv)
<1>1. Init => ManagerInv /\ AheadInv
  <2>1. Init => phase = "start" /\ events = <<>> /\ callback = NoEvent /\ services = {}
    BY DEF Init
  <2> QED
    BY <2>1, InitManagerInv, StartAhead
<1>2. ManagerInv /\ AheadInv /\ [Next]_vars => (ManagerInv /\ AheadInv)'
  <2> SUFFICES ASSUME ManagerInv, AheadInv, [Next]_vars PROVE AheadInv'
    BY StepManager
  <2>1. CASE ConsumerRestarts
    <3>1. (phase = "start" /\ events = <<>> /\ callback = NoEvent /\ services = {})'
      BY <2>1 DEF ConsumerRestarts
    <3>2. ManagerInv'
      BY StepManager
    <3>3. ManagerInv /\ phase = "start" /\ events = <<>> /\ callback = NoEvent /\ services = {}
          => AheadInv
      BY StartAhead
    <3> QED
      BY <3>1, <3>2, StartAhead, PTL
  <2>2. CASE OpenWatch \/ (\E s \in Services : Choose(s)) \/ UNCHANGED vars
    BY <2>2, QuietStepAhead DEF OpenWatch, Choose, vars, nodes, manager, counts
  <2> QED
    BY <2>1, <2>2, NodeStepAhead, ListAhead, ListFailsAhead, TakeEventAhead, UpdateAhead,
       ErrorAhead, AppendFailsAhead
       DEF Next, DiscoveryStep
<1> QED
  BY <1>1, <1>2, PTL DEF Spec

(* Of a service without ServiceChannel there is nothing. *)
LEMMA NothingUncreated ==
  ASSUME ManagerInv, NEW s \in Services, s \notin services
  PROVE  Known(s) = {} /\ channels[s] = <<>> /\ Len(channels[s]) = 0 /\ Cardinality(Known(s)) = 0
<1>1. Known(s) = {} /\ channels[s] = <<>>
  BY DEF ManagerInv, ServicesFit
<1> QED
  BY <1>1, FS_EmptySet

(* What the view that is to come says of now. *)
LEMMA SurplusBounded ==
  ASSUME ManagerInv, AheadInv, NEW s \in Followed, phase # "start"
  PROVE  Now(s).surplus <= reputs + missed
<1>1. PICK v \in View : LeadsTo(s, AfterCallback(s), events, v) /\ Justified(s, v)
  BY DEF AheadInv
<1>2. /\ Now(s) \in View /\ AfterCallback(s) \in View /\ events \in Seq(Event)
      /\ Now(s).surplus <= AfterCallback(s).surplus
  BY NowTyped, DiscoveryAssumption DEF ManagerInv, TypeOK
<1>3. AfterCallback(s).surplus <= v.surplus
  BY <1>1, <1>2, EventsLeadUp
<1>4. /\ Now(s).surplus \in Int /\ AfterCallback(s).surplus \in Int /\ v.surplus \in Int
      /\ v.known \ Registered(s) \in SUBSET Hosts
  BY <1>2 DEF View
<1>5. Cardinality(v.known \ Registered(s)) \in Nat
  BY <1>4, HostSetsFinite
<1>6. v.surplus + Cardinality(v.known \ Registered(s)) <= reputs + missed
  BY <1>1 DEF Justified
<1>7. reputs \in Nat /\ missed \in Nat
  BY DEF ManagerInv, TypeOK
<1> QED
  BY <1>2, <1>3, <1>4, <1>5, <1>6, <1>7

(* However often nodes and consumer start and stop, channels nothing leads *)
(* to are at most as many as second registrations and missed changes.      *)
THEOREM StraysHaveCauses == Spec => []StrayChannelsAreBounded
<1>1. ASSUME ManagerInv, AheadInv PROVE StrayChannelsAreBounded
  <2> SUFFICES ASSUME NEW s \in Services
               PROVE  Len(channels[s]) <= Cardinality(Known(s)) + reputs + missed
    BY DEF StrayChannelsAreBounded
  <2>1. reputs \in Nat /\ missed \in Nat
    BY <1>1 DEF ManagerInv, TypeOK
  <2>2. CASE s \notin services
    BY <1>1, <2>1, <2>2, NothingUncreated
  <2>3. CASE s \in services
    <3>1. s \in Followed /\ phase # "start"
      BY <1>1, <2>3 DEF ManagerInv, TypeOK, AheadInv
    <3>2. /\ Now(s).surplus <= reputs + missed
          /\ Now(s).surplus = Len(channels[s]) - Cardinality(Known(s))
      BY <1>1, <3>1, SurplusBounded DEF Now
    <3>3. channels[s] \in Seq(Channel) /\ Cardinality(Known(s)) \in Nat
      BY <1>1, KnownFinite DEF ManagerInv, TypeOK
    <3>4. Len(channels[s]) \in Nat
      BY <3>3
    <3> QED
      BY <2>1, <3>2, <3>3, <3>4
  <2> QED
    BY <2>2, <2>3
<1> QED
  BY <1>1, Ahead, PTL

(* Of what was heard of, channels and registry agree exactly once nothing  *)
(* is left to handle, whatever happened to other addresses.                *)
THEOREM ViewsAreExact == Spec => []ViewIsExact
<1>1. ASSUME ManagerInv, AheadInv PROVE ViewIsExact
  <2> SUFFICES ASSUME Quiet, NEW s \in Services, NEW h \in Hosts \ unheard
               PROVE  ChannelsTo(s, h) =
                        IF s \in Followed /\ h \in Registered(s) THEN {hosts[s][h]} ELSE {}
    BY DEF ViewIsExact
  <2>1. CASE s \notin Followed
    <3>1. s \notin services
      BY <1>1, <2>1 DEF ManagerInv, TypeOK
    <3>2. channels[s] = <<>>
      BY <1>1, <3>1, NothingUncreated
    <3> QED
      BY <2>1, <3>2 DEF ChannelsTo, ToSet
  <2>2. CASE s \in Followed
    <3>1. phase # "start" /\ events = <<>> /\ AfterCallback(s) = Now(s) /\ Now(s) \in View
      BY <1>1, NowTyped DEF Quiet, AfterCallback, ManagerInv
    <3>2. PICK v \in View : LeadsTo(s, AfterCallback(s), events, v) /\ Justified(s, v)
      BY <1>1, <2>2 DEF AheadInv
    <3>3. v = Now(s)
      BY <3>1, <3>2, NoEventsLead
    <3>4. (h \in Known(s) <=> h \in Registered(s)) /\ h \notin Doubled(s)
      BY <3>1, <3>2, <3>3 DEF Justified, Now
    <3>5. ChannelsTo(s, h) \subseteq {hosts[s][h]}
      BY <3>4 DEF Doubled
    <3>6. CASE h \in Registered(s)
      <4>1. hosts[s][h].host = h /\ hosts[s][h] \in ToSet(channels[s])
        BY <1>1, <3>4, <3>6 DEF ManagerInv, ChannelsFit
      <4>2. hosts[s][h] \in ChannelsTo(s, h)
        BY <4>1 DEF ChannelsTo
      <4> QED
        BY <2>2, <3>5, <3>6, <4>2
    <3>7. CASE h \notin Registered(s)
      <4>1. hosts[s][h] = NoChannel
        BY <3>4, <3>7 DEF Known
      <4>2. channels[s] \in Seq(Channel)
        BY <1>1 DEF ManagerInv, TypeOK
      <4>3. NoChannel \notin ToSet(channels[s])
        BY <4>2, InToSet, ObjectAssumption
      <4>4. ChannelsTo(s, h) = {}
        BY <3>5, <4>1, <4>3 DEF ChannelsTo
      <4> QED
        BY <3>7, <4>4
    <3> QED
      BY <3>6, <3>7
  <2> QED
    BY <2>1, <2>2
<1> QED
  BY <1>1, Ahead, PTL

=============================================================================
