---------------------------- MODULE GatewayProofs ----------------------------
(***************************************************************************)
(* Theorems about Gateway, for any users, threads, connections and bounds. *)
(***************************************************************************)
EXTENDS Gateway, TLAPS

Requests == PairRequest \cup GroupRequest \cup ListRequest

(* Which request it is tells its kind, and the other way round. *)
LEMMA RequestKinds ==
  ASSUME NEW r \in Requests
  PROVE  /\ r # NoRequest /\ r.uid \in Users
         /\ r \in PairRequest <=> r.kind \in {"add", "agree", "decline", "remove"}
         /\ r \in PairRequest => r.pid \in Users /\ r.uid # r.pid
         /\ r \in GroupRequest <=> r.kind = "create"
         /\ r \in GroupRequest => r.list \subseteq Users
         /\ r \in ListRequest <=> r.kind \in {"friend_list", "pending_list"}
BY RequestAssumption, GatewayAssumption DEF Requests, PairRequest, GroupRequest, ListRequest

-----------------------------------------------------------------------------
(* Types. *)

ServiceTyped ==
  /\ pending \subseteq Users \X Users
  /\ friends \subseteq {{u, p} : u, p \in Users}
  /\ late \subseteq PairRequest
ConnectionsTyped ==
  /\ connection \in [Users -> Conns \cup {NoConn}]
  /\ client \in [Conns -> Users \cup {NoUser}]
  /\ link \in [Users -> Conns \cup {NoConn}]
ToldTyped == told \in [Users -> [Users -> News]]

(* The request of a handler fits its step. *)
ProgressTyped ==
  /\ pc \in [Threads -> Steps]
  /\ req \in [Threads -> Requests \cup {NoRequest}]
  /\ \A t \in Threads : pc[t] = "idle" <=> req[t] = NoRequest
  /\ \A t \in Threads : pc[t] \in {"lookup", "info", "send"} => req[t] \in PairRequest
  /\ \A t \in Threads : pc[t] = "announce" => req[t] \in GroupRequest
NotesTyped ==
  /\ todo \in [Threads -> SUBSET Users]
  /\ conns \in [Threads -> [Users -> Conns \cup {NoConn}]]
  /\ answer \in [Threads -> SUBSET Users]
  /\ nameless \subseteq Threads
  /\ due \in [Threads -> SUBSET Users]
HistoryTyped ==
  /\ stale \subseteq Users \X Users /\ overlapped \subseteq Users
  /\ requests \in Nat /\ troubles \in Nat

TypeInv ==
  ServiceTyped /\ ConnectionsTyped /\ ToldTyped /\ ProgressTyped /\ NotesTyped /\ HistoryTyped

LEMMA InitTypeInv == Init => TypeInv
<1> SUFFICES ASSUME Init PROVE TypeInv
  OBVIOUS
<1>1. ServiceTyped
  BY DEF Init, ServiceTyped
<1>2. ConnectionsTyped /\ ToldTyped /\ NotesTyped
  BY DEF Init, ConnectionsTyped, ToldTyped, NotesTyped, Nothing, NoConns, NoClients, News
<1>3. ProgressTyped /\ HistoryTyped
  BY DEF Init, ProgressTyped, HistoryTyped, Steps
<1> QED
  BY <1>1, <1>2, <1>3 DEF TypeInv

LEMMA HandlerHasRequest ==
  ASSUME ProgressTyped, NEW t \in Threads, pc[t] # "idle"
  PROVE  req[t] \in Requests
BY DEF ProgressTyped

LEMMA ReturnTyped ==
  ASSUME ProgressTyped, NotesTyped, NEW t \in Threads, Return(t)
  PROVE  ProgressTyped' /\ NotesTyped'
<1>1. ProgressTyped'
  BY DEF ProgressTyped, Return, Steps
<1>2. NotesTyped'
  BY DEF NotesTyped, Return, NoConns
<1> QED
  BY <1>1, <1>2

LEMMA GotoTyped ==
  ASSUME ProgressTyped, NEW t \in Threads, NEW step \in Steps, pc[t] # "idle", step # "idle",
         Goto(t, step),
         step \in {"lookup", "info", "send"} => req[t] \in PairRequest,
         step = "announce" => req[t] \in GroupRequest
  PROVE  ProgressTyped'
BY DEF ProgressTyped, Goto

LEMMA ServeTyped ==
  ASSUME ProgressTyped, NotesTyped, NEW t \in Threads, pc[t] = "call",
         NEW list \in SUBSET Users, Serve(t, list)
  PROVE  ProgressTyped' /\ NotesTyped'
<1> DEFINE r == req[t]
<1>1. r \in Requests
  BY HandlerHasRequest
<1>2. ProgressTyped'
  <2>1. /\ AfterCall(r) \in Steps /\ AfterCall(r) # "idle"
        /\ AfterCall(r) \in {"lookup", "info", "send"} => r \in PairRequest
        /\ AfterCall(r) = "announce" => r \in GroupRequest
    BY <1>1, RequestKinds DEF AfterCall, Steps, Requests
  <2> QED
    BY <1>1, <2>1, GotoTyped DEF Serve
<1>3. NotesTyped'
  <2>1. ToNotify(r) \subseteq Users
    BY <1>1, RequestKinds DEF ToNotify
  <2> QED
    BY <2>1 DEF Serve, NotesTyped
<1> QED
  BY <1>2, <1>3

(* Some, or all, of what a request does to applications and friendships. *)
LEMMA EffectTyped ==
  ASSUME ServiceTyped, NEW r \in Requests, Effect(r) \/ HalfEffect(r), late' \subseteq PairRequest
  PROVE  ServiceTyped'
<1>1. CASE Effect(r) /\ r \in PairRequest
  <2>1. r.uid \in Users /\ r.pid \in Users
    BY <1>1, RequestKinds
  <2>2. /\ pending' \subseteq pending \cup {<<r.uid, r.pid>>}
        /\ friends' \subseteq friends \cup {{r.uid, r.pid}}
    BY <1>1, RequestKinds DEF Effect
  <2> QED
    BY <2>1, <2>2 DEF ServiceTyped
<1>2. CASE Effect(r) /\ r \notin PairRequest
  <2>1. UNCHANGED <<pending, friends>>
    BY <1>2, RequestKinds DEF Effect
  <2> QED
    BY <2>1 DEF ServiceTyped
<1>3. CASE HalfEffect(r)
  BY <1>3 DEF HalfEffect, ServiceTyped
<1> QED
  BY <1>1, <1>2, <1>3

LEMMA DeliverTyped ==
  ASSUME TypeInv, NEW t \in Threads, req[t] \in PairRequest, NEW u \in Users, NEW c,
         Deliver(t, u, c)
  PROVE  ToldTyped' /\ due' \in [Threads -> SUBSET Users]
<1>1. due' \in [Threads -> SUBSET Users]
  BY DEF Deliver, TypeInv, NotesTyped
<1>2. ToldTyped'
  <2> DEFINE r == req[t]
             p == IF u = r.pid THEN r.uid ELSE r.pid
  <2>1. r \in Requests /\ r.kind \in {"add", "agree", "decline", "remove"} /\ p \in Users
    BY RequestKinds DEF Requests
  <2>2. CASE UNCHANGED told
    BY <2>2 DEF TypeInv, ToldTyped
  <2>3. CASE link[u] = c
    <3>1. told' = [told EXCEPT ![u][p] =
                     CASE r.kind = "add" -> "applied"
                       [] r.kind = "agree" -> "friend"
                       [] r.kind = "decline" -> Declined(@)
                       [] r.kind = "remove" -> "stranger"]
      BY <2>3 DEF Deliver
    <3>2. Declined(told[u][p]) \in News
      BY <2>1 DEF Declined, TypeInv, ToldTyped, News
    <3> QED
      BY <2>1, <3>1, <3>2 DEF TypeInv, ToldTyped, News
  <2> QED
    BY <2>2, <2>3 DEF Deliver
<1> QED
  BY <1>1, <1>2

LEMMA LearnTyped ==
  ASSUME NEW r \in Requests, NEW list, NEW old \in [Users -> News]
  PROVE  Learn(r, list, old) \in [Users -> News]
<1>1. CASE r \in PairRequest
  <2>1. r.pid \in Users /\ Declined(old[r.pid]) \in News
    BY <1>1, RequestKinds DEF Declined, News
  <2> QED
    BY <1>1, <2>1, RequestKinds DEF Learn, News
<1>2. CASE r \in GroupRequest
  BY <1>2, RequestKinds DEF Learn
<1>3. CASE r.kind = "friend_list"
  BY <1>3 DEF Learn, News
<1>4. CASE r.kind = "pending_list"
  BY <1>4 DEF Learn, News
<1> QED
  BY <1>1, <1>2, <1>3, <1>4, RequestKinds DEF Requests

LEMMA GoOnlineTyped ==
  ASSUME TypeInv, NEW u \in Users, GoOnline(u)
  PROVE  TypeInv'
<1>1. UNCHANGED <<service, handlers, due, requests>> /\ stale' \subseteq stale
  BY DEF GoOnline
<1>2. ServiceTyped' /\ ProgressTyped' /\ NotesTyped'
  BY <1>1 DEF TypeInv, ServiceTyped, ProgressTyped, NotesTyped, service, handlers
<1>3. HistoryTyped'
  BY <1>1 DEF GoOnline, Trouble, TypeInv, HistoryTyped
<1>4. ConnectionsTyped' /\ ToldTyped'
  BY DEF GoOnline, TypeInv, ConnectionsTyped, ToldTyped, Nothing, News
<1> QED
  BY <1>2, <1>3, <1>4 DEF TypeInv

LEMMA GoOfflineTyped ==
  ASSUME TypeInv, (\E u \in Users : Disconnect(u)) \/ (\E c \in Conns : OnClose(c))
  PROVE  TypeInv'
<1>1. UNCHANGED <<service, handlers, told, history>>
  BY DEF Disconnect, OnClose
<1>2. due' \in [Threads -> SUBSET Users]
  BY DEF Disconnect, OnClose, TypeInv, NotesTyped
<1>3. ServiceTyped' /\ ProgressTyped' /\ NotesTyped' /\ ToldTyped' /\ HistoryTyped'
  BY <1>1, <1>2 DEF TypeInv, ServiceTyped, ProgressTyped, NotesTyped, ToldTyped, HistoryTyped,
                    service, handlers, history
<1>4. ConnectionsTyped'
  BY DEF Disconnect, OnClose, TypeInv, ConnectionsTyped
<1> QED
  BY <1>3, <1>4 DEF TypeInv

LEMMA LateCallTyped ==
  ASSUME TypeInv, NEW r \in PairRequest, LateCall(r)
  PROVE  TypeInv'
<1>1. ServiceTyped'
  <2>1. r \in Requests /\ late' \subseteq PairRequest
    BY DEF LateCall, TypeInv, ServiceTyped, Requests
  <2>2. CASE Effect(r) \/ HalfEffect(r)
    BY <2>1, <2>2, EffectTyped DEF TypeInv
  <2>3. CASE UNCHANGED <<pending, friends>>
    BY <2>1, <2>3 DEF TypeInv, ServiceTyped
  <2> QED
    BY <2>2, <2>3 DEF LateCall
<1>2. HistoryTyped'
  BY DEF LateCall, Untold, TypeInv, HistoryTyped
<1>3. ConnectionsTyped' /\ ToldTyped' /\ ProgressTyped' /\ NotesTyped'
  BY DEF LateCall, TypeInv, ConnectionsTyped, ToldTyped, ProgressTyped, NotesTyped, connections,
         handlers
<1> QED
  BY <1>1, <1>2, <1>3 DEF TypeInv

LEMMA RequestTyped ==
  ASSUME TypeInv, NEW t \in Threads, Request(t)
  PROVE  TypeInv'
<1>1. PICK r \in Requests : req' = [req EXCEPT ![t] = r]
  BY DEF Request, Requests
<1>2. ProgressTyped'
  BY <1>1, RequestKinds DEF Request, TypeInv, ProgressTyped, Steps
<1>3. HistoryTyped'
  <2>1. stale' \subseteq Users \X Users
    BY DEF Request, Crossed, TypeInv, HistoryTyped
  <2> QED
    BY <2>1 DEF Request, Trouble, TypeInv, HistoryTyped
<1>4. ServiceTyped' /\ ConnectionsTyped' /\ ToldTyped' /\ NotesTyped'
  BY DEF Request, TypeInv, ServiceTyped, ConnectionsTyped, ToldTyped, NotesTyped, service,
         connections
<1> QED
  BY <1>2, <1>3, <1>4 DEF TypeInv

LEMMA ListOfUsers ==
  ASSUME NEW r
  PROVE  ListOf(r) \subseteq Users
BY DEF ListOf, GetFriendList, GetPendingFriendEventList

(* The steps around the call of the friend service. *)
LEMMA CallTyped ==
  ASSUME TypeInv, NEW t \in Threads,
         \/ CallRefused(t) \/ Call(t) \/ CallFails(t) \/ CallMisjudged(t)
         \/ CallAnsweredShort(t) \/ CallUnanswered(t) \/ CallLost(t)
  PROVE  TypeInv'
<1> DEFINE r == req[t]
<1>1. pc[t] = "call" /\ r \in Requests /\ r.uid \in Users
  BY HandlerHasRequest, RequestKinds
    DEF TypeInv, CallRefused, Call, CallFails, CallMisjudged, CallAnsweredShort, CallUnanswered,
        CallLost
<1>2. UNCHANGED <<connections, told>>
  BY DEF CallRefused, Call, CallFails, CallMisjudged, CallAnsweredShort, CallUnanswered, CallLost,
         Serve
<1>3. ConnectionsTyped' /\ ToldTyped'
  BY <1>2 DEF TypeInv, ConnectionsTyped, ToldTyped, connections
<1>4. ServiceTyped'
  <2>1. CASE UNCHANGED service
    BY <2>1 DEF TypeInv, ServiceTyped, service
  <2>2. CASE (Effect(r) \/ HalfEffect(r)) /\ UNCHANGED late
    <3>1. late' \subseteq PairRequest
      BY <2>2 DEF TypeInv, ServiceTyped
    <3> QED
      BY <1>1, <2>2, <3>1, EffectTyped DEF TypeInv
  <2>3. CASE CallLost(t)
    BY <2>3 DEF CallLost, TypeInv, ServiceTyped
  <2> QED
    BY <2>1, <2>2, <2>3 DEF CallRefused, Call, CallFails, CallMisjudged, CallAnsweredShort,
                            CallUnanswered
<1>5. HistoryTyped'
  <2>1. \/ stale' \subseteq stale \cup Untold(r)
        \/ stale' \subseteq stale \cup {<<r.uid, p>> : p \in ListOf(r)}
    BY DEF history, CallRefused, Call, CallFails, CallMisjudged, CallAnsweredShort,
           CallUnanswered, CallLost
  <2>2. Untold(r) \subseteq Users \X Users /\ {<<r.uid, p>> : p \in ListOf(r)} \subseteq Users \X Users
    BY <1>1, ListOfUsers DEF Untold
  <2>3. UNCHANGED <<overlapped, requests, troubles>> \/ Fault
    BY DEF history, CallRefused, Call, CallFails, CallMisjudged, CallAnsweredShort,
           CallUnanswered, CallLost
  <2> QED
    BY <2>1, <2>2, <2>3 DEF TypeInv, HistoryTyped, Fault, Trouble
<1>6. ProgressTyped' /\ NotesTyped'
  <2>1. CASE Return(t)
    BY <2>1, ReturnTyped DEF TypeInv
  <2>2. ASSUME NEW list \in SUBSET Users, Serve(t, list) PROVE ProgressTyped' /\ NotesTyped'
    BY <1>1, <2>2, ServeTyped DEF TypeInv
  <2>3. {} \in SUBSET Users /\ SUBSET ListOf(r) \subseteq SUBSET Users
    BY ListOfUsers
  <2>4. CASE UNCHANGED <<handlers, due>>
    BY <2>4 DEF TypeInv, ProgressTyped, NotesTyped, handlers
  <2> QED
    BY <2>1, <2>2, <2>3, <2>4 DEF CallRefused, Call, CallFails, CallMisjudged,
                                  CallAnsweredShort, CallUnanswered, CallLost
<1> QED
  BY <1>3, <1>4, <1>5, <1>6 DEF TypeInv

(* The other steps of a handler that leave what clients have heard alone.  *)
LEMMA QuietTyped ==
  ASSUME TypeInv, NEW t \in Threads,
         \/ Authenticate(t) \/ Info(t) \/ InfoFails(t) \/ InfoBlank(t) \/ ApplicantInfoFails(t)
         \/ Lookup(t) \/ Announce(t)
  PROVE  TypeInv'
<1> DEFINE r == req[t]
<1>1. pc[t] # "idle" /\ r \in Requests
  BY HandlerHasRequest DEF TypeInv, Authenticate, Info, InfoFails, InfoBlank, ApplicantInfoFails,
                           Lookup, Announce
<1>2. UNCHANGED <<service, connections, told>>
  BY DEF Authenticate, Info, InfoFails, InfoBlank, ApplicantInfoFails, Lookup, Announce
<1>3. ServiceTyped' /\ ConnectionsTyped' /\ ToldTyped'
  BY <1>2 DEF TypeInv, ServiceTyped, ConnectionsTyped, ToldTyped, service, connections
<1>4. pc[t] \in {"info", "lookup"} => r \in PairRequest /\ r.uid \in Users /\ r.pid \in Users
  BY <1>1, RequestKinds DEF TypeInv, ProgressTyped
<1>5. HistoryTyped'
  <2>1. \/ stale' \subseteq stale \cup Untold(r)
        \/ InfoBlank(t) /\ stale' = stale \cup {<<r.pid, r.uid>>}
    BY DEF history, Authenticate, Info, InfoFails, InfoBlank, ApplicantInfoFails, Lookup, Announce
  <2>2. Untold(r) \subseteq Users \X Users /\ (InfoBlank(t) => <<r.pid, r.uid>> \in Users \X Users)
    BY <1>4 DEF Untold, InfoBlank
  <2>3. UNCHANGED <<overlapped, requests, troubles>> \/ Fault
    BY DEF history, Authenticate, Info, InfoFails, InfoBlank, ApplicantInfoFails, Lookup, Announce
  <2> QED
    BY <2>1, <2>2, <2>3 DEF TypeInv, HistoryTyped, Fault, Trouble
<1>6. CASE Return(t)
  BY <1>3, <1>5, <1>6, ReturnTyped DEF TypeInv
<1>7. CASE Authenticate(t) /\ ~Return(t)
  <2>1. Goto(t, "call") /\ UNCHANGED <<todo, conns, answer, nameless, due>>
    BY <1>7 DEF Authenticate
  <2>2. ProgressTyped'
    BY <1>1, <2>1, GotoTyped DEF TypeInv, Steps
  <2> QED
    BY <1>3, <1>5, <2>1, <2>2 DEF TypeInv, NotesTyped
<1>8. CASE Info(t) \/ InfoBlank(t) \/ ApplicantInfoFails(t)
  <2>1. ProgressTyped'
    <3>1. r \in PairRequest
      BY <1>4, <1>8 DEF Info, InfoBlank, ApplicantInfoFails
    <3> QED
      BY <1>1, <1>8, <3>1, GotoTyped DEF Info, InfoBlank, ApplicantInfoFails, TypeInv, Steps
  <2>2. NotesTyped'
    BY <1>8 DEF Info, InfoBlank, ApplicantInfoFails, TypeInv, NotesTyped
  <2> QED
    BY <1>3, <1>5, <2>1, <2>2 DEF TypeInv
<1>9. CASE Lookup(t)
  <2>1. ProgressTyped'
    <3>1. r \in PairRequest
      BY <1>4, <1>9 DEF Lookup
    <3> QED
      BY <1>1, <1>9, <3>1, GotoTyped DEF Lookup, TypeInv, Steps
  <2>2. NotesTyped'
    BY <1>9 DEF Lookup, TypeInv, NotesTyped, ConnectionsTyped
  <2> QED
    BY <1>3, <1>5, <2>1, <2>2 DEF TypeInv
<1>10. CASE Announce(t)
  <2>1. ProgressTyped'
    <3>1. CASE Goto(t, "reply")
      BY <1>1, <3>1, GotoTyped DEF TypeInv, Steps
    <3>2. CASE UNCHANGED <<pc, req>>
      BY <3>2 DEF TypeInv, ProgressTyped
    <3> QED
      BY <1>10, <3>1, <3>2 DEF Announce
  <2>2. NotesTyped'
    <3>1. CASE UNCHANGED <<todo, due>>
      BY <1>10, <3>1 DEF Announce, TypeInv, NotesTyped
    <3>2. CASE todo[t] # {}
      <4>1. PICK u \in todo[t] : /\ todo' = [todo EXCEPT ![t] = @ \ {u}]
                                 /\ due' = [due EXCEPT ![t] = @ \ {u}] \/ due' = due
        BY <1>10, <3>2 DEF Announce
      <4>2. todo' \in [Threads -> SUBSET Users] /\ due' \in [Threads -> SUBSET Users]
        BY <4>1 DEF TypeInv, NotesTyped
      <4> QED
        BY <1>10, <4>2 DEF Announce, TypeInv, NotesTyped
    <3> QED
      BY <1>10, <3>1, <3>2 DEF Announce
  <2> QED
    BY <1>3, <1>5, <2>1, <2>2 DEF TypeInv
<1> QED
  BY <1>6, <1>7, <1>8, <1>9, <1>10 DEF InfoFails

LEMMA TurnIsUser ==
  ASSUME TypeInv, NEW t \in Threads, req[t] \in PairRequest
  PROVE  Turn(t) \in {req[t].uid, req[t].pid} /\ Turn(t) \in Users
BY RequestKinds DEF Turn, Requests

LEMMA TellingTyped ==
  ASSUME TypeInv, NEW t \in Threads, Send(t) \/ SendNameless(t) \/ Reply(t)
  PROVE  TypeInv'
<1>1. UNCHANGED service /\ UNCHANGED history
  BY DEF Send, SendNameless, Reply, history
<1>2. ServiceTyped' /\ HistoryTyped'
  BY <1>1 DEF TypeInv, ServiceTyped, HistoryTyped, service, history
<1>3. CASE Send(t)
  <2>1. req[t] \in PairRequest /\ pc[t] # "idle"
    BY <1>3 DEF Send, TypeInv, ProgressTyped
  <2>2. ToldTyped' /\ due' \in [Threads -> SUBSET Users]
    BY <1>3, <2>1, TurnIsUser, DeliverTyped DEF Send
  <2>3. ProgressTyped'
    <3>1. Goto(t, "reply") \/ Goto(t, "send")
      BY <1>3 DEF Send, Goto
    <3> QED
      BY <2>1, <3>1, GotoTyped DEF TypeInv, Steps
  <2>4. NotesTyped' /\ ConnectionsTyped'
    BY <1>3, <2>2 DEF Send, TypeInv, NotesTyped, ConnectionsTyped, connections
  <2> QED
    BY <1>2, <2>2, <2>3, <2>4 DEF TypeInv
<1>4. CASE SendNameless(t)
  <2>1. ProgressTyped' /\ NotesTyped'
    BY <1>4 DEF SendNameless, TypeInv, ProgressTyped, NotesTyped, Steps, NoConns
  <2>2. ConnectionsTyped' /\ ToldTyped'
    BY <1>4 DEF SendNameless, TypeInv, ConnectionsTyped, ToldTyped, NoConns, NoClients
  <2> QED
    BY <1>2, <2>1, <2>2 DEF TypeInv
<1>5. CASE Reply(t)
  <2>1. req[t] \in Requests /\ req[t].uid \in Users
    BY <1>5, HandlerHasRequest, RequestKinds DEF Reply, TypeInv
  <2>2. ToldTyped'
    BY <1>5, <2>1, LearnTyped DEF Reply, TypeInv, ToldTyped
  <2>3. ConnectionsTyped'
    BY <1>5 DEF Reply, TypeInv, ConnectionsTyped, connections
  <2> QED
    BY <1>2, <1>5, <2>2, <2>3, ReturnTyped DEF Reply, TypeInv
<1> QED
  BY <1>3, <1>4, <1>5

LEMMA StepTyped == TypeInv /\ [Next]_vars => TypeInv'
<1>1. TypeInv /\ UNCHANGED vars => TypeInv'
  BY DEF TypeInv, ServiceTyped, ConnectionsTyped, ToldTyped, ProgressTyped, NotesTyped,
         HistoryTyped, vars, service, connections, handlers, history
<1> QED
  BY <1>1, GoOnlineTyped, GoOfflineTyped, LateCallTyped, RequestTyped, CallTyped, QuietTyped,
     TellingTyped DEF Next, HandlerStep

LEMMA TypeInvHolds == Spec => []TypeInv
BY InitTypeInv, StepTyped, PTL DEF Spec

(* The service, connections, handlers and what is told have their types.   *)
THEOREM TypeCorrect == Spec => []TypeOK
<1>1. TypeInv => TypeOK
  BY DEF TypeInv, ServiceTyped, ConnectionsTyped, ToldTyped, ProgressTyped, NotesTyped,
         HistoryTyped, Requests, TypeOK
<1> QED
  BY <1>1, TypeInvHolds, PTL

-----------------------------------------------------------------------------
(* Whoever is online and due is still to be notified, on the connection it *)
(* has, if it was not let in while an old connection was known.            *)

(* Known connections are those of their users, and a user that did not     *)
(* overlap has no other one than it has open.                              *)
Maps ==
  /\ \A u \in Users : connection[u] # NoConn => client[connection[u]] = u
  /\ \A u \in Users : link[u] # NoConn => client[link[u]] = u
  /\ \A u \in Users :
       (Online(u) /\ u \notin overlapped) =>
         (connection[u] = link[u] /\ \A c \in Conns : client[c] = u => c = link[u])

LEMMA GoOnlineMaps ==
  ASSUME TypeInv, Maps, NEW u \in Users, GoOnline(u)
  PROVE  Maps'
<1>1. PICK c \in Conns :
        /\ client[c] = NoUser
        /\ link' = [link EXCEPT ![u] = c]
        /\ client' = [client EXCEPT ![c] = u]
        /\ connection' = [connection EXCEPT ![u] = IF @ = NoConn THEN c ELSE @]
  BY DEF GoOnline
<1>2. /\ link \in [Users -> Conns \cup {NoConn}] /\ client \in [Conns -> Users \cup {NoUser}]
      /\ connection \in [Users -> Conns \cup {NoConn}]
  BY DEF TypeInv, ConnectionsTyped
<1>3. /\ link'[u] = c /\ client'[c] = u
      /\ connection'[u] = IF connection[u] = NoConn THEN c ELSE connection[u]
  BY <1>1, <1>2
<1>4. /\ \A v \in Users \ {u} : link'[v] = link[v] /\ connection'[v] = connection[v]
      /\ \A d \in Conns \ {c} : client'[d] = client[d]
  BY <1>1, <1>2
<1>5. \A v \in Users : v # NoUser /\ connection[v] # c /\ link[v] # c
  BY <1>1, GatewayAssumption DEF Maps
<1>6. ASSUME NEW v \in Users PROVE connection'[v] # NoConn => client'[connection'[v]] = v
  <2>1. CASE v = u
    <3>1. CASE connection[u] = NoConn
      BY <1>3, <2>1, <3>1
    <3>2. CASE connection[u] # NoConn
      <4>1. connection[u] \in Conns \ {c} /\ client[connection[u]] = u
        BY <1>2, <1>5, <3>2 DEF Maps
      <4> QED
        BY <1>3, <1>4, <2>1, <3>2, <4>1
    <3> QED
      BY <3>1, <3>2
  <2>2. CASE v # u
    BY <1>2, <1>4, <1>5, <2>2 DEF Maps
  <2> QED
    BY <2>1, <2>2
<1>7. ASSUME NEW v \in Users PROVE link'[v] # NoConn => client'[link'[v]] = v
  <2>1. CASE v = u
    BY <1>3, <2>1
  <2>2. CASE v # u
    BY <1>2, <1>4, <1>5, <2>2 DEF Maps
  <2> QED
    BY <2>1, <2>2
<1>8. ASSUME NEW v \in Users, link'[v] # NoConn, v \notin overlapped'
      PROVE  connection'[v] = link'[v] /\ \A d \in Conns : client'[d] = v => d = link'[v]
  <2>1. CASE v = u
    <3>1. \A d \in Conns : client[d] # u
      BY <1>8, <2>1 DEF GoOnline
    <3>2. connection[u] = NoConn
      BY <1>2, <3>1 DEF Maps
    <3>3. \A d \in Conns : client'[d] = u => d = c
      BY <1>4, <3>1
    <3> QED
      BY <1>3, <2>1, <3>2, <3>3
  <2>2. CASE v # u
    <3>1. v \notin overlapped
      BY <1>8, <2>2 DEF GoOnline
    <3>2. link[v] # NoConn
      BY <1>4, <1>8, <2>2
    <3>3. connection[v] = link[v] /\ \A d \in Conns : client[d] = v => d = link[v]
      BY <3>1, <3>2 DEF Maps, Online
    <3>4. \A d \in Conns : client'[d] = v => client[d] = v
      BY <1>3, <1>4, <2>2
    <3> QED
      BY <1>4, <2>2, <3>3, <3>4
  <2> QED
    BY <2>1, <2>2
<1> QED
  BY <1>6, <1>7, <1>8 DEF Maps, Online

LEMMA OnCloseMaps ==
  ASSUME TypeInv, Maps, NEW c \in Conns, OnClose(c)
  PROVE  Maps'
<1>1. PICK u \in Users : /\ client[c] = u /\ link[u] # c
                         /\ connection' = [connection EXCEPT ![u] = NoConn]
  BY DEF OnClose
<1>2. client' = [client EXCEPT ![c] = NoUser] /\ UNCHANGED <<link, overlapped>>
  BY DEF OnClose, history
<1>3. /\ link \in [Users -> Conns \cup {NoConn}] /\ client \in [Conns -> Users \cup {NoUser}]
      /\ connection \in [Users -> Conns \cup {NoConn}]
  BY DEF TypeInv, ConnectionsTyped
<1>4. /\ connection'[u] = NoConn /\ \A v \in Users \ {u} : connection'[v] = connection[v]
      /\ client'[c] = NoUser /\ \A d \in Conns \ {c} : client'[d] = client[d]
  BY <1>1, <1>2, <1>3
<1>5. \A v \in Users : v # NoUser /\ (v # u => connection[v] # c) /\ link[v] # c
  BY <1>1, GatewayAssumption DEF Maps
<1>6. \A v \in Users : connection'[v] # NoConn => client'[connection'[v]] = v
  BY <1>3, <1>4, <1>5 DEF Maps
<1>7. \A v \in Users : link[v] # NoConn => client'[link[v]] = v
  BY <1>3, <1>4, <1>5 DEF Maps
<1>8. ASSUME NEW v \in Users, Online(v), v \notin overlapped
      PROVE  connection'[v] = link[v] /\ \A d \in Conns : client'[d] = v => d = link[v]
  <2>1. connection[v] = link[v] /\ \A d \in Conns : client[d] = v => d = link[v]
    BY <1>8 DEF Maps
  <2>2. v # u
    BY <1>1, <2>1
  <2>3. \A d \in Conns : client'[d] = v => client[d] = v
    BY <1>4, <1>5
  <2> QED
    BY <1>4, <2>1, <2>2, <2>3
<1> QED
  BY <1>2, <1>6, <1>7, <1>8 DEF Maps, Online

(* A handler has found the connections it will send on. *)
Looked(t) == pc[t] = "send" \/ (pc[t] = "info" /\ req[t].kind = "add")

DueFits(t) ==
  /\ \A u \in due[t] : Online(u)
  /\ \A u \in due[t] \ overlapped : u \in todo[t] /\ (Looked(t) => conns[t][u] = link[u])
  /\ pc[t] \in {"idle", "authenticate", "call"} => due[t] = {}
  /\ pc[t] = "reply" => due[t] \subseteq overlapped

DueInv == Maps /\ \A t \in Threads : DueFits(t)

LEMMA MapsKept ==
  ASSUME Maps, UNCHANGED <<connections, overlapped>>
  PROVE  Maps'
BY DEF Maps, Online, connections

(* A step of another handler. *)
LEMMA DueAlone ==
  ASSUME DueInv, NEW s \in Threads, UNCHANGED <<link, overlapped>>,
         pc'[s] = pc[s], req'[s] = req[s], todo'[s] = todo[s], conns'[s] = conns[s],
         due'[s] = due[s]
  PROVE  DueFits(s)'
BY DEF DueInv, DueFits, Looked, Online

LEMMA GoOnlineDue ==
  ASSUME TypeInv, DueInv, NEW u \in Users, GoOnline(u)
  PROVE  DueInv'
<1>1. UNCHANGED <<handlers, due>> /\ \A v \in Users \ {u} : link'[v] = link[v]
  BY DEF GoOnline, TypeInv, ConnectionsTyped
<1>2. overlapped \subseteq overlapped' \cup {u}
  BY DEF GoOnline
<1>3. ASSUME NEW t \in Threads PROVE DueFits(t)'
  <2>1. due[t] \subseteq Users /\ u \notin due[t]
    BY DEF GoOnline, DueInv, DueFits, TypeInv, NotesTyped
  <2> QED
    BY <1>1, <1>2, <2>1 DEF DueInv, DueFits, Looked, Online, handlers
<1> QED
  BY <1>3, GoOnlineMaps DEF DueInv

LEMMA GoOfflineDue ==
  ASSUME TypeInv, DueInv, (\E u \in Users : Disconnect(u)) \/ (\E c \in Conns : OnClose(c))
  PROVE  DueInv'
<1>1. CASE \E u \in Users : Disconnect(u)
  <2>1. PICK u \in Users : Disconnect(u)
    BY <1>1
  <2>2. UNCHANGED <<handlers, connection, client, overlapped>> /\ link'[u] = NoConn
    BY <2>1 DEF Disconnect, TypeInv, ConnectionsTyped, history
  <2>3. \A v \in Users \ {u} : link'[v] = link[v]
    BY <2>1 DEF Disconnect, TypeInv, ConnectionsTyped
  <2>4. Maps'
    BY <2>2, <2>3 DEF DueInv, Maps, Online
  <2>5. ASSUME NEW t \in Threads PROVE DueFits(t)'
    <3>1. due'[t] = due[t] \ {u} /\ due[t] \subseteq Users
      BY <2>1 DEF Disconnect, TypeInv, NotesTyped
    <3> QED
      BY <2>2, <2>3, <3>1 DEF DueInv, DueFits, Looked, Online, handlers
  <2> QED
    BY <2>4, <2>5 DEF DueInv
<1>2. CASE \E c \in Conns : OnClose(c)
  <2>1. UNCHANGED <<link, handlers, due, overlapped>>
    BY <1>2 DEF OnClose, history
  <2> QED
    BY <1>2, <2>1, OnCloseMaps, DueAlone DEF DueInv, handlers
<1> QED
  BY <1>1, <1>2

LEMMA ReturnDue ==
  ASSUME TypeInv, DueInv, NEW t \in Threads, Return(t), UNCHANGED <<connections, overlapped>>
  PROVE  DueInv'
<1>1. ASSUME NEW s \in Threads PROVE DueFits(s)'
  <2>1. CASE s = t
    BY <2>1 DEF Return, DueFits, TypeInv, ProgressTyped, NotesTyped
  <2>2. CASE s # t
    BY <2>2, DueAlone DEF Return, TypeInv, ProgressTyped, NotesTyped, connections
  <2> QED
    BY <2>1, <2>2
<1> QED
  BY <1>1, MapsKept DEF DueInv

(* Another step of a handler, which leaves the connections alone. *)
LEMMA OwnDue ==
  ASSUME TypeInv, DueInv, NEW t \in Threads, UNCHANGED <<connections, overlapped>>, DueFits(t)',
         \A s \in Threads \ {t} :
           /\ pc'[s] = pc[s] /\ req'[s] = req[s] /\ todo'[s] = todo[s] /\ conns'[s] = conns[s]
           /\ due'[s] = due[s]
  PROVE  DueInv'
<1>1. ASSUME NEW s \in Threads \ {t} PROVE DueFits(s)'
  BY DueAlone DEF connections
<1> QED
  BY <1>1, MapsKept DEF DueInv

LEMMA ServeDue ==
  ASSUME TypeInv, DueInv, NEW t \in Threads, pc[t] = "call", NEW list, Serve(t, list),
         UNCHANGED overlapped
  PROVE  DueInv'
<1> DEFINE r == req[t]
<1>1. r \in Requests /\ UNCHANGED <<req, connections, conns>>
  BY HandlerHasRequest DEF Serve, Goto, TypeInv
<1>2. /\ todo'[t] = ToNotify(r)
      /\ due'[t] = {u \in ToNotify(r) : Online(u)}
      /\ pc'[t] = AfterCall(r)
  BY DEF Serve, Goto, TypeInv, NotesTyped, ProgressTyped
<1>3. DueFits(t)'
  <2>1. ~Looked(t)'
    BY <1>1, <1>2 DEF Looked, AfterCall
  <2>2. pc'[t] = "reply" => ToNotify(r) = {}
    BY <1>1, <1>2, RequestKinds DEF AfterCall, ToNotify, Requests
  <2>3. pc'[t] \notin {"idle", "authenticate", "call"}
    BY <1>2 DEF AfterCall
  <2> QED
    BY <1>1, <1>2, <2>1, <2>2, <2>3 DEF DueFits, Online, connections
<1>4. \A s \in Threads \ {t} :
        /\ pc'[s] = pc[s] /\ req'[s] = req[s] /\ todo'[s] = todo[s] /\ conns'[s] = conns[s]
        /\ due'[s] = due[s]
  BY <1>1 DEF Serve, Goto, TypeInv, NotesTyped, ProgressTyped
<1> QED
  BY <1>1, <1>3, <1>4, OwnDue

LEMMA HandlerDue ==
  ASSUME TypeInv, DueInv, NEW t \in Threads,
         \/ Request(t) \/ (Authenticate(t) /\ ~Return(t)) \/ Info(t) \/ InfoBlank(t)
         \/ ApplicantInfoFails(t) \/ Lookup(t) \/ Send(t) \/ Announce(t)
  PROVE  DueInv'
<1>1. UNCHANGED <<connections, overlapped>>
  BY DEF Request, Authenticate, Info, InfoBlank, ApplicantInfoFails, Lookup, Send, Announce,
         history, Fault
<1>2. \A s \in Threads \ {t} : pc'[s] = pc[s] /\ req'[s] = req[s]
  BY DEF Request, Authenticate, Info, InfoBlank, ApplicantInfoFails, Lookup, Send, Announce, Goto,
         TypeInv, ProgressTyped
<1>3. \A s \in Threads \ {t} : todo'[s] = todo[s] /\ conns'[s] = conns[s] /\ due'[s] = due[s]
  BY DEF Request, Authenticate, Info, InfoBlank, ApplicantInfoFails, Lookup, Send, Announce,
         Deliver, TypeInv, NotesTyped
<1>4. DueFits(t)'
  <2>1. due[t] \subseteq Users /\ todo[t] \subseteq Users
    BY DEF TypeInv, NotesTyped
  <2>2. CASE Request(t) \/ (Authenticate(t) /\ ~Return(t))
    <3>1. UNCHANGED <<todo, due>> /\ due[t] = {}
      BY <2>2 DEF Request, Authenticate, DueInv, DueFits
    <3> QED
      BY <3>1 DEF DueInv, DueFits
  <2>3. CASE Info(t) \/ ApplicantInfoFails(t)
    <3>1. /\ UNCHANGED <<req, todo, conns, due>>
          /\ pc'[t] = IF req[t].kind = "add" THEN "send" ELSE "lookup"
      BY <2>3 DEF Info, ApplicantInfoFails, Goto, TypeInv, ProgressTyped
    <3>2. Looked(t)' => Looked(t)
      BY <2>3, <3>1 DEF Looked, Info, ApplicantInfoFails
    <3> QED
      BY <1>1, <3>1, <3>2 DEF DueInv, DueFits, Online, connections
  <2>4. CASE InfoBlank(t)
    BY <2>4 DEF InfoBlank, Goto, DueFits, TypeInv, NotesTyped, ProgressTyped
  <2>5. CASE Lookup(t)
    <3> DEFINE found == {u \in todo[t] : connection[u] # NoConn}
    <3>1. /\ UNCHANGED due /\ todo'[t] = found
          /\ \A u \in found : conns'[t][u] = connection[u]
          /\ found = {} => pc'[t] = "reply"
          /\ found # {} => pc'[t] \in {"info", "send"}
      BY <2>1, <2>5 DEF Lookup, Goto, TypeInv, NotesTyped, ProgressTyped
    <3>2. \A u \in due[t] \ overlapped : connection[u] = link[u] /\ u \in found
      BY <2>1 DEF DueInv, DueFits, Maps, Online
    <3>3. \A u \in due[t] : Online(u)
      BY DEF DueInv, DueFits
    <3> QED
      BY <1>1, <3>1, <3>2, <3>3 DEF DueFits, Online, connections
  <2>6. CASE Send(t)
    <3> DEFINE u == Turn(t)
    <3>1. /\ todo'[t] = todo[t] \ {u} /\ UNCHANGED <<req, conns>>
          /\ pc[t] = "send"
          /\ pc'[t] = IF todo[t] = {u} THEN "reply" ELSE "send"
      BY <2>6 DEF Send, Goto, TypeInv, NotesTyped, ProgressTyped
    <3>2. due'[t] \subseteq due[t] /\ (u \notin overlapped => u \notin due'[t])
      <4>1. CASE link[u] = conns[t][u]
        BY <2>6, <4>1 DEF Send, Deliver, TypeInv, NotesTyped
      <4>2. CASE link[u] # conns[t][u]
        BY <2>6, <3>1, <4>2 DEF Send, Deliver, DueInv, DueFits, Looked
      <4> QED
        BY <4>1, <4>2
    <3>3. /\ \A v \in due[t] : Online(v)
          /\ \A v \in due[t] \ overlapped : v \in todo[t] /\ conns[t][v] = link[v]
      BY <3>1 DEF DueInv, DueFits, Looked
    <3> QED
      BY <1>1, <3>1, <3>2, <3>3 DEF DueFits, Looked, Online, connections
  <2>7. CASE Announce(t)
    <3>1. CASE todo[t] = {}
      <4>1. pc'[t] = "reply" /\ UNCHANGED <<todo, due>> /\ due[t] \subseteq overlapped
        BY <2>7, <3>1 DEF Announce, Goto, DueInv, DueFits, TypeInv, ProgressTyped
      <4> QED
        BY <1>1, <4>1 DEF DueInv, DueFits, Looked, Online, connections
    <3>2. CASE todo[t] # {}
      <4>1. PICK u \in todo[t] :
              /\ todo' = [todo EXCEPT ![t] = @ \ {u}]
              /\ due' = IF connection[u] # NoConn /\ link[u] = connection[u]
                        THEN [due EXCEPT ![t] = @ \ {u}] ELSE due
              /\ UNCHANGED <<pc, req>>
        BY <2>7, <3>2 DEF Announce
      <4>2. (u \in due[t] /\ u \notin overlapped)
              => (connection[u] # NoConn /\ link[u] = connection[u])
        BY <2>1, <4>1 DEF DueInv, DueFits, Maps, Online
      <4>3. /\ todo'[t] = todo[t] \ {u} /\ due'[t] \subseteq due[t]
            /\ u \notin overlapped => u \notin due'[t]
        BY <4>1, <4>2 DEF TypeInv, NotesTyped
      <4>4. pc[t] = "announce" /\ UNCHANGED conns
        BY <2>7 DEF Announce
      <4> QED
        BY <1>1, <4>1, <4>3, <4>4 DEF DueInv, DueFits, Looked, Online, connections
    <3> QED
      BY <3>1, <3>2
  <2> QED
    BY <2>2, <2>3, <2>4, <2>5, <2>6, <2>7
<1> QED
  BY <1>1, <1>2, <1>3, <1>4, OwnDue

LEMMA StepDue == TypeInv /\ DueInv /\ [Next]_vars => DueInv'
<1> SUFFICES ASSUME TypeInv, DueInv, [Next]_vars
             PROVE  DueInv'
  OBVIOUS
<1>1. ASSUME NEW t \in Threads,
             \/ (Authenticate(t) /\ Return(t)) \/ CallRefused(t) \/ CallFails(t)
             \/ CallUnanswered(t) \/ (CallLost(t) /\ Return(t)) \/ InfoFails(t) \/ Reply(t)
      PROVE  DueInv'
  BY <1>1, ReturnDue
    DEF Authenticate, CallRefused, CallFails, CallUnanswered, CallLost, InfoFails, Reply, history,
        Fault
<1>2. ASSUME NEW t \in Threads, Call(t) \/ CallMisjudged(t) \/ CallAnsweredShort(t)
      PROVE  DueInv'
  BY <1>2, ServeDue DEF Call, CallMisjudged, CallAnsweredShort, history, Fault
<1>3. ASSUME NEW t \in Threads, SendNameless(t) PROVE DueInv'
  BY <1>3 DEF SendNameless, DueInv, DueFits, Maps, Online, NoConns
<1>4. CASE UNCHANGED <<connections, handlers, due, overlapped>>
  <2>1. \A t \in Threads : DueFits(t)'
    BY <1>4, DueAlone DEF connections, handlers
  <2> QED
    BY <1>4, <2>1, MapsKept DEF DueInv
<1>5. ASSUME NEW t \in Threads, CallLost(t), ~Return(t) PROVE DueInv'
  BY <1>4, <1>5 DEF CallLost, Fault
<1>6. ASSUME NEW r \in PairRequest, LateCall(r) PROVE DueInv'
  BY <1>4, <1>6 DEF LateCall
<1>7. CASE UNCHANGED vars
  BY <1>4, <1>7 DEF vars, history
<1> QED
  BY <1>1, <1>2, <1>3, <1>5, <1>6, <1>7, GoOnlineDue, GoOfflineDue, HandlerDue
    DEF Next, HandlerStep

LEMMA DueInvHolds == Spec => []DueInv
<1>1. Init => DueInv
  BY DEF Init, DueInv, DueFits, Maps, Online, NoConns
<1> QED
  BY <1>1, StepDue, TypeInvHolds, PTL DEF Spec

(* Whoever a request concerns and is online from its effect until its      *)
(* success is answered has been notified by then, whatever other requests  *)
(* do and whatever fails, or was let in while an old connection was known. *)
THEOREM OnlineAreTold == Spec => []OnlineIsTold
<1>1. DueInv => OnlineIsTold
  BY DEF DueInv, DueFits, OnlineIsTold
<1> QED
  BY <1>1, DueInvHolds, PTL

-----------------------------------------------------------------------------
(* What was told is true, but for stale news.  A pair is settled but for   *)
(* the handler that has changed it and has not answered yet; that handler  *)
(* knows the change, which nobody else undoes, and the peer has heard of   *)
(* it or is due to.  Two handlers that concern the same news have crossed  *)
(* over it, and it is stale.                                               *)

Fresh(u, p) == <<u, p>> \notin stale
Heard(u) == Online(u) /\ u \notin overlapped

FriendTrue(u, p) ==
  /\ told[u][p] = "friend" => {u, p} \in friends
  /\ told[u][p] = "stranger" => {u, p} \notin friends
ToldTrue(u, p) ==
  /\ FriendTrue(u, p)
  /\ told[u][p] = "asked" => <<u, p>> \in pending
  /\ told[u][p] = "applied" => <<p, u>> \in pending

(* The handler of t has changed the pair and is not done. *)
Changing(t) ==
  pc[t] \in {"lookup", "info", "send", "reply"} /\ req[t] \in PairRequest
IsPair(r, u, p) == (u = r.uid /\ p = r.pid) \/ (u = r.pid /\ p = r.uid)

NoCrossing ==
  \A s, t \in Threads : \A u, p \in Users :
    (s # t /\ pc[s] # "idle" /\ pc[t] # "idle" /\ Changes(req[s], u, p) /\ Concerns(req[t], u, p))
      => ~Fresh(u, p)
OthersSettled ==
  \A u, p \in Users :
    (Heard(u) /\ Fresh(u, p) /\ \A t \in Threads : ~(Changing(t) /\ IsPair(req[t], u, p)))
      => ToldTrue(u, p)

ChangeStands(r) ==
  /\ (Fresh(r.uid, r.pid) \/ Fresh(r.pid, r.uid)) =>
       /\ r.kind = "add" => <<r.uid, r.pid>> \in pending
       /\ r.kind = "agree" => {r.uid, r.pid} \in friends
       /\ r.kind = "remove" => {r.uid, r.pid} \notin friends
  /\ r.kind = "decline" =>
       \A u, p \in Users : (IsPair(r, u, p) /\ Heard(u) /\ Fresh(u, p)) => FriendTrue(u, p)
PeerKnows(t) ==
  (Heard(req[t].pid) /\ req[t].pid \notin due[t] /\ Fresh(req[t].pid, req[t].uid))
    => ToldTrue(req[t].pid, req[t].uid)
HandlerTrue(t) == Changing(t) => ChangeStands(req[t]) /\ PeerKnows(t)

(* A list is still right when it is answered. *)
ListTrue(t) ==
  (pc[t] = "reply" /\ req[t] \in ListRequest) =>
    \A p \in Users : Fresh(req[t].uid, p) => (p \in answer[t] <=> p \in ListOf(req[t]))

Truth == NoCrossing /\ OthersSettled /\ \A t \in Threads : HandlerTrue(t) /\ ListTrue(t)

(* The service holds the same of two users after a step. *)
SameNews(u, p) ==
  /\ {u, p} \in friends' <=> {u, p} \in friends
  /\ <<u, p>> \in pending' <=> <<u, p>> \in pending
  /\ <<p, u>> \in pending' <=> <<p, u>> \in pending

LEMMA TruthKept ==
  ASSUME NEW u \in Users, NEW p \in Users, told'[u][p] = told[u][p], SameNews(u, p)
  PROVE  /\ FriendTrue(u, p) => FriendTrue(u, p)'
         /\ ToldTrue(u, p) => ToldTrue(u, p)'
BY DEF FriendTrue, ToldTrue, SameNews

LEMMA NoCrossingKept ==
  ASSUME NoCrossing, stale \subseteq stale',
         \A s \in Threads : pc'[s] # "idle" => pc[s] # "idle" /\ req'[s] = req[s]
  PROVE  NoCrossing'
<1> SUFFICES ASSUME NEW s \in Threads, NEW t \in Threads, NEW u \in Users, NEW p \in Users,
                    s # t, pc'[s] # "idle", pc'[t] # "idle",
                    Changes(req'[s], u, p), Concerns(req'[t], u, p)
             PROVE  <<u, p>> \in stale'
  BY DEF NoCrossing, Changes, Concerns, Fresh
<1>1. /\ pc[s] # "idle" /\ req'[s] = req[s]
      /\ pc[t] # "idle" /\ req'[t] = req[t]
  OBVIOUS
<1>2. ~Fresh(u, p)
  BY <1>1 DEF NoCrossing
<1> QED
  BY <1>2 DEF Fresh

(* Which news a request changes, and which it concerns. *)
LEMMA ConcernedNews ==
  ASSUME NEW r \in Requests, NEW u \in Users, NEW p \in Users
  PROVE  /\ Changes(r, u, p) <=> (r \in PairRequest /\ IsPair(r, u, p))
         /\ Changes(r, u, p) <=> Changes(r, p, u)
         /\ r \in PairRequest => (Concerns(r, u, p) <=> IsPair(r, u, p))
         /\ r \in ListRequest => (Concerns(r, u, p) <=> u = r.uid)
         /\ Changes(r, u, p) => Concerns(r, u, p)
<1>1. r \in PairRequest <=> r.kind \in {"add", "agree", "decline", "remove"}
  BY RequestKinds
<1>2. r \in ListRequest <=> r.kind \in {"friend_list", "pending_list"}
  BY RequestKinds
<1>3. {u, p} = {r.uid, r.pid} <=> IsPair(r, u, p)
  BY DEF IsPair
<1>4. {u, p} = {p, u}
  OBVIOUS
<1> QED
  BY <1>1, <1>2, <1>3, <1>4 DEF Changes, Concerns

(* A change is the pair's alone. *)
LEMMA EffectIsLocal ==
  ASSUME NEW r \in Requests, Effect(r) \/ HalfEffect(r), NEW u \in Users, NEW p \in Users,
         r \in PairRequest => ~IsPair(r, u, p)
  PROVE  SameNews(u, p)
<1>1. CASE r \in PairRequest
  <2>1. {u, p} # {r.uid, r.pid} /\ <<u, p>> # <<r.uid, r.pid>> /\ <<u, p>> # <<r.pid, r.uid>>
    BY <1>1 DEF IsPair
  <2>2. <<p, u>> # <<r.uid, r.pid>> /\ <<p, u>> # <<r.pid, r.uid>>
    BY <1>1 DEF IsPair
  <2> QED
    BY <1>1, <2>1, <2>2, RequestKinds DEF Effect, HalfEffect, SameNews
<1>2. CASE r \notin PairRequest
  BY <1>2, RequestKinds DEF Effect, HalfEffect, SameNews
<1> QED
  BY <1>1, <1>2

(* A handler that is not idle concerns no fresh news that another changes, *)
(* and changes none that another concerns.                                 *)
LEMMA NotCrossed ==
  ASSUME TypeInv, Truth, NEW s \in Threads, NEW t \in Threads, s # t,
         pc[s] # "idle", pc[t] # "idle", NEW u \in Users, NEW p \in Users, Fresh(u, p)
  PROVE  /\ Changes(req[s], u, p) => ~Concerns(req[t], u, p) /\ ~Changes(req[t], u, p)
         /\ Concerns(req[s], u, p) => ~Changes(req[t], u, p)
<1>1. req[s] \in Requests /\ req[t] \in Requests
  BY HandlerHasRequest DEF TypeInv
<1>2. Changes(req[t], u, p) => Concerns(req[t], u, p)
  BY <1>1, ConcernedNews
<1> QED
  BY <1>2 DEF Truth, NoCrossing

(* A handler that takes no step is not concerned by one that leaves its    *)
(* fresh news alone.                                                       *)
LEMMA HandlerKept ==
  ASSUME TypeInv, Truth, NEW s \in Threads,
         pc'[s] = pc[s], req'[s] = req[s], answer'[s] = answer[s], due'[s] = due[s],
         UNCHANGED <<link, overlapped>>, stale \subseteq stale',
         \A u, p \in Users :
           (pc[s] # "idle" /\ Concerns(req[s], u, p) /\ <<u, p>> \notin stale') =>
             (SameNews(u, p) /\ (Changes(req[s], u, p) => told'[u][p] = told[u][p]))
  PROVE  HandlerTrue(s)' /\ ListTrue(s)'
<1> DEFINE r == req[s]
<1>1. pc[s] # "idle" => r \in Requests /\ r.uid \in Users
  BY HandlerHasRequest, RequestKinds DEF TypeInv
<1>2. HandlerTrue(s)'
  <2> SUFFICES ASSUME Changing(s)'
               PROVE  ChangeStands(r)' /\ PeerKnows(s)'
    BY DEF HandlerTrue, ChangeStands, IsPair
  <2>1. Changing(s) /\ pc[s] # "idle" /\ r \in PairRequest /\ r \in Requests
    BY DEF Changing, Requests
  <2>2. PICK a \in Users, b \in Users : a = r.uid /\ b = r.pid
    BY <2>1, RequestKinds
  <2>3. ChangeStands(r) /\ PeerKnows(s)
    BY <2>1 DEF Truth, HandlerTrue
  <2>4. ASSUME NEW u \in Users, NEW p \in Users, IsPair(r, u, p), <<u, p>> \notin stale'
        PROVE  told'[u][p] = told[u][p] /\ SameNews(u, p)
    <3>1. Changes(r, u, p) /\ Concerns(r, u, p)
      BY <2>1, <2>4, ConcernedNews
    <3> QED
      BY <2>1, <2>4, <3>1
  <2>5. \A u, p \in Users : <<u, p>> \notin stale' => Fresh(u, p)
    BY DEF Fresh
  <2>6. \A u \in Users : Heard(u)' <=> Heard(u)
    BY DEF Heard, Online
  <2>7. IsPair(r, a, b) /\ IsPair(r, b, a)
    BY <2>2 DEF IsPair
  <2>8. ChangeStands(r)'
    <3>1. (<<a, b>> \notin stale' \/ <<b, a>> \notin stale') => SameNews(a, b)
      <4>1. {a, b} = {b, a}
        OBVIOUS
      <4> QED
        BY <2>4, <2>7, <4>1 DEF SameNews
    <3>2. (<<a, b>> \notin stale' \/ <<b, a>> \notin stale') =>
            /\ r.kind = "add" => <<a, b>> \in pending'
            /\ r.kind = "agree" => {a, b} \in friends'
            /\ r.kind = "remove" => {a, b} \notin friends'
      BY <2>2, <2>3, <2>5, <3>1 DEF ChangeStands, SameNews
    <3>3. ASSUME r.kind = "decline", NEW u \in Users, NEW p \in Users, IsPair(r, u, p),
                 Heard(u)', <<u, p>> \notin stale'
          PROVE  FriendTrue(u, p)'
      <4>1. Heard(u) /\ Fresh(u, p)
        BY <2>5, <2>6, <3>3
      <4>2. FriendTrue(u, p)
        BY <2>3, <3>3, <4>1 DEF ChangeStands
      <4>3. told'[u][p] = told[u][p] /\ SameNews(u, p)
        BY <2>4, <3>3
      <4> QED
        BY <4>2, <4>3, TruthKept
    <3> QED
      BY <2>2, <3>2, <3>3 DEF ChangeStands, IsPair, Fresh
  <2>9. PeerKnows(s)'
    <3>1. ASSUME Heard(b)', b \notin due'[s], <<b, a>> \notin stale' PROVE ToldTrue(b, a)'
      <4>1. Heard(b) /\ Fresh(b, a)
        BY <2>5, <2>6, <3>1
      <4>2. ToldTrue(b, a)
        BY <2>2, <2>3, <3>1, <4>1 DEF PeerKnows
      <4>3. told'[b][a] = told[b][a] /\ SameNews(b, a)
        BY <2>4, <2>7, <3>1
      <4> QED
        BY <4>2, <4>3, TruthKept
    <3> QED
      BY <2>2, <3>1 DEF PeerKnows, ToldTrue, FriendTrue, Heard, Online, Fresh
  <2> QED
    BY <2>8, <2>9
<1>3. ListTrue(s)'
  <2> SUFFICES ASSUME pc[s] = "reply", r \in ListRequest
               PROVE  \A p \in Users : <<r.uid, p>> \notin stale' =>
                        (p \in answer[s] <=> p \in ListOf(r)')
    BY DEF ListTrue, ListOf, Fresh
  <2> TAKE p \in Users
  <2> HAVE <<r.uid, p>> \notin stale'
  <2>1. PICK u \in Users : u = r.uid
    BY <1>1
  <2>2. <<u, p>> \notin stale' /\ Fresh(u, p)
    BY <2>1 DEF Fresh
  <2>3. p \in answer[s] <=> p \in ListOf(r)
    BY <2>1, <2>2 DEF Truth, ListTrue
  <2>4. SameNews(u, p)
    <3>1. Concerns(r, u, p)
      BY <1>1, <2>1, ConcernedNews
    <3> QED
      BY <2>2, <3>1
  <2>5. p \in ListOf(r)' <=> p \in ListOf(r)
    BY <2>1, <2>4 DEF ListOf, GetFriendList, GetPendingFriendEventList, SameNews
  <2> QED
    BY <2>3, <2>5
<1> QED
  BY <1>2, <1>3

(* A handler is not concerned by what another one does. *)
LEMMA OtherHandler ==
  ASSUME TypeInv, Truth, NEW t \in Threads, pc[t] # "idle", NEW s \in Threads \ {t},
         pc'[s] = pc[s], req'[s] = req[s], answer'[s] = answer[s], due'[s] = due[s],
         UNCHANGED <<link, overlapped>>, stale \subseteq stale',
         \A u, p \in Users : ~Concerns(req[t], u, p) => told'[u][p] = told[u][p],
         \A u, p \in Users : ~Changes(req[t], u, p) => SameNews(u, p)
  PROVE  HandlerTrue(s)' /\ ListTrue(s)'
<1>1. ASSUME NEW u \in Users, NEW p \in Users, pc[s] # "idle", Concerns(req[s], u, p),
             <<u, p>> \notin stale'
      PROVE  SameNews(u, p) /\ (Changes(req[s], u, p) => told'[u][p] = told[u][p])
  <2>1. Fresh(u, p)
    BY <1>1 DEF Fresh
  <2>2. ~Changes(req[t], u, p) /\ (Changes(req[s], u, p) => ~Concerns(req[t], u, p))
    BY <1>1, <2>1, NotCrossed
  <2> QED
    BY <2>2
<1> QED
  BY <1>1, HandlerKept

(* The steps by which nothing changes that was told, or would be. *)
LEMMA QuietTruth ==
  ASSUME TypeInv, Truth, UNCHANGED <<pending, friends, told, link, overlapped>>,
         stale \subseteq stale',
         \A s \in Threads : pc'[s] # "idle" => pc[s] # "idle" /\ req'[s] = req[s],
         \A s \in Threads : Changing(s)' <=> Changing(s),
         \A s \in Threads : Changing(s) =>
           /\ req'[s] = req[s]
           /\ \/ due'[s] = due[s]
              \/ <<req[s].pid, req[s].uid>> \in stale',
         \A s \in Threads : (pc'[s] = "reply" /\ req'[s] \in ListRequest)
                              => pc[s] = "reply" /\ answer'[s] = answer[s]
  PROVE  Truth'
<1>1. \A u, p \in Users : /\ ToldTrue(u, p)' <=> ToldTrue(u, p)
                          /\ FriendTrue(u, p)' <=> FriendTrue(u, p)
                          /\ Fresh(u, p)' => Fresh(u, p)
  BY DEF ToldTrue, FriendTrue, Fresh
<1>2. \A u : Heard(u)' <=> Heard(u)
  BY DEF Heard, Online
<1>3. NoCrossing'
  BY NoCrossingKept DEF Truth
<1>4. OthersSettled'
  <2> SUFFICES ASSUME NEW u \in Users, NEW p \in Users, Heard(u)', Fresh(u, p)',
                      \A s \in Threads : ~(Changing(s)' /\ IsPair(req'[s], u, p))
               PROVE  ToldTrue(u, p)'
    BY DEF OthersSettled, IsPair, Changing
  <2>1. \A s \in Threads : ~(Changing(s) /\ IsPair(req[s], u, p))
    OBVIOUS
  <2>2. Heard(u) /\ Fresh(u, p)
    BY <1>1, <1>2
  <2>3. ToldTrue(u, p)
    BY <2>1, <2>2 DEF Truth, OthersSettled
  <2> QED
    BY <1>1, <2>3
<1>5. ASSUME NEW s \in Threads PROVE HandlerTrue(s)'
  <2> SUFFICES ASSUME Changing(s)'
               PROVE  ChangeStands(req[s])' /\ PeerKnows(s)'
    BY DEF HandlerTrue
  <2>1. /\ Changing(s) /\ req'[s] = req[s]
        /\ due'[s] = due[s] \/ <<req[s].pid, req[s].uid>> \in stale'
    BY DEF Truth
  <2>2. ChangeStands(req[s]) /\ PeerKnows(s)
    BY <2>1 DEF Truth, HandlerTrue
  <2>3. PICK a \in Users, b \in Users : a = req[s].uid /\ b = req[s].pid
    BY <2>1, RequestKinds DEF Changing, Requests
  <2>4. ChangeStands(req[s])'
    <3>1. (Fresh(a, b) \/ Fresh(b, a))' =>
            /\ req[s].kind = "add" => <<a, b>> \in pending'
            /\ req[s].kind = "agree" => {a, b} \in friends'
            /\ req[s].kind = "remove" => {a, b} \notin friends'
      BY <1>1, <2>2, <2>3 DEF ChangeStands
    <3>2. req[s].kind = "decline" =>
            \A u, p \in Users :
              (IsPair(req[s], u, p) /\ Heard(u)' /\ Fresh(u, p)') => FriendTrue(u, p)'
      BY <1>1, <1>2, <2>2 DEF ChangeStands
    <3> QED
      BY <2>1, <2>3, <3>1, <3>2 DEF ChangeStands, IsPair, Fresh
  <2>5. PeerKnows(s)'
    <3>1. (Heard(b)' /\ b \notin due'[s] /\ Fresh(b, a)') => ToldTrue(b, a)'
      BY <1>1, <1>2, <2>1, <2>2, <2>3 DEF PeerKnows, Fresh
    <3> QED
      BY <2>1, <2>3, <3>1 DEF PeerKnows, ToldTrue, FriendTrue, Fresh, Heard, Online
  <2> QED
    BY <2>4, <2>5
<1>6. ASSUME NEW s \in Threads PROVE ListTrue(s)'
  <2>1. pc'[s] = "reply" => req'[s] = req[s]
    OBVIOUS
  <2>2. stale \subseteq stale'
    OBVIOUS
  <2> QED
    BY <2>1, <2>2
      DEF Truth, ListTrue, ListOf, GetFriendList, GetPendingFriendEventList, Fresh
<1> QED
  BY <1>3, <1>4, <1>5, <1>6 DEF Truth

(* Coming online heals no news that a handler concerns. *)
LEMMA HealedIsIdle ==
  ASSUME TypeInv, NEW u \in Users, GoOnline(u), NEW v \in Users, NEW p \in Users,
         Fresh(v, p)'
  PROVE  /\ v # u => Fresh(v, p)
         /\ Fresh(v, p) \/ \A t \in Threads : pc[t] # "idle" => ~Concerns(req[t], v, p)
<1>1. stale' = {q \in stale : q[1] # u \/ Busy(u, q[2])}
  BY DEF GoOnline
<1>2. CASE <<v, p>> \in stale
  <2>1. v = u /\ ~Busy(u, p)
    BY <1>1, <1>2 DEF Fresh
  <2> QED
    BY <2>1 DEF Busy
<1>3. CASE <<v, p>> \notin stale
  BY <1>3 DEF Fresh
<1> QED
  BY <1>2, <1>3

LEMMA DeviceTruth ==
  ASSUME TypeInv, Truth, NEW u \in Users, GoOnline(u) \/ Disconnect(u)
  PROVE  Truth'
<1>1. UNCHANGED <<service, handlers>>
  BY DEF GoOnline, Disconnect
<1>2. \A v, p \in Users : Heard(v)' =>
        /\ ToldTrue(v, p) \/ v = u => ToldTrue(v, p)'
        /\ FriendTrue(v, p) \/ v = u => FriendTrue(v, p)'
        /\ v # u => Heard(v)
  BY <1>1 DEF GoOnline, Disconnect, Heard, Online, history, ToldTrue, FriendTrue, Nothing, TypeInv,
                    ConnectionsTyped, ToldTyped, service
<1>3. \A s \in Threads : \A v \in Users \ {u} : v \in due[s] => v \in due'[s]
  BY DEF GoOnline, Disconnect, TypeInv, NotesTyped
<1>4. \A v, p \in Users :
        Fresh(v, p)' => /\ v # u => Fresh(v, p)
                        /\ Fresh(v, p) \/ \A t \in Threads :
                                            pc[t] # "idle" => ~Concerns(req[t], v, p)
  <2>1. CASE GoOnline(u)
    BY <2>1, HealedIsIdle
  <2>2. CASE Disconnect(u)
    BY <2>2 DEF Disconnect, history, Fresh
  <2> QED
    BY <2>1, <2>2
<1>5. NoCrossing'
  <2> SUFFICES ASSUME NEW s \in Threads, NEW t \in Threads, NEW v \in Users, NEW p \in Users,
                      s # t, pc[s] # "idle", pc[t] # "idle",
                      Changes(req[s], v, p), Concerns(req[t], v, p), Fresh(v, p)'
               PROVE  FALSE
    BY <1>1 DEF NoCrossing, Changes, Concerns, Fresh, handlers
  <2>1. Fresh(v, p)
    BY <1>4
  <2> QED
    BY <2>1 DEF Truth, NoCrossing
<1>6. OthersSettled'
  BY <1>1, <1>2, <1>4 DEF Truth, OthersSettled, Changing, IsPair, handlers
<1>7. ASSUME NEW s \in Threads, Changing(s)'
      PROVE  ChangeStands(req[s])' /\ PeerKnows(s)'
  <2>1. Changing(s) /\ req'[s] = req[s] /\ pc[s] # "idle"
    BY <1>1, <1>7 DEF Changing, handlers
  <2>2. ChangeStands(req[s]) /\ PeerKnows(s)
    BY <2>1 DEF Truth, HandlerTrue
  <2>3. PICK v \in Users, p \in Users : v = req[s].pid /\ p = req[s].uid
    BY <2>1, RequestKinds DEF Changing, Requests
  <2>4. \A a, b \in Users : (IsPair(req[s], a, b) /\ Fresh(a, b)') => Fresh(a, b)
    <3> SUFFICES ASSUME NEW a \in Users, NEW b \in Users, IsPair(req[s], a, b), Fresh(a, b)'
                 PROVE  Fresh(a, b)
      OBVIOUS
    <3>1. Concerns(req[s], a, b)
      BY <2>1, ConcernedNews DEF Changing, Requests
    <3> QED
      BY <1>4, <2>1, <3>1
  <2>5. IsPair(req[s], v, p) /\ IsPair(req[s], p, v)
    BY <2>3 DEF IsPair
  <2>6. Fresh(v, p)' => Fresh(v, p)
    BY <2>4, <2>5
  <2>7. Fresh(p, v)' => Fresh(p, v)
    BY <2>4, <2>5
  <2>8. ChangeStands(req[s])'
    <3>1. (Fresh(p, v) \/ Fresh(v, p))' =>
            /\ req[s].kind = "add" => <<p, v>> \in pending'
            /\ req[s].kind = "agree" => {p, v} \in friends'
            /\ req[s].kind = "remove" => {p, v} \notin friends'
      BY <1>1, <2>2, <2>3, <2>6, <2>7 DEF ChangeStands, service
    <3>2. ASSUME req[s].kind = "decline", NEW a \in Users, NEW b \in Users,
                 IsPair(req[s], a, b), Heard(a)', Fresh(a, b)'
          PROVE  FriendTrue(a, b)'
      <4>1. Fresh(a, b)
        BY <2>4, <3>2
      <4>2. a = u \/ (Heard(a) /\ FriendTrue(a, b))
        BY <1>2, <2>2, <3>2, <4>1 DEF ChangeStands
      <4> QED
        BY <1>2, <3>2, <4>2
    <3> QED
      BY <2>1, <2>3, <3>1, <3>2 DEF ChangeStands, IsPair, Fresh
  <2>9. PeerKnows(s)'
    <3>1. (Heard(v) /\ v \notin due[s] /\ Fresh(v, p)) => ToldTrue(v, p)
      BY <2>2, <2>3 DEF PeerKnows
    <3>2. (Heard(v)' /\ v \notin due'[s] /\ Fresh(v, p)') => ToldTrue(v, p)'
      BY <1>2, <1>3, <2>6, <3>1
    <3> QED
      BY <2>1, <2>3, <3>2 DEF PeerKnows, ToldTrue, FriendTrue, Heard, Online, Fresh
  <2> QED
    BY <2>8, <2>9
<1>8. ASSUME NEW s \in Threads PROVE ListTrue(s)'
  <2> SUFFICES ASSUME pc[s] = "reply", req[s] \in ListRequest, NEW p \in Users,
                      <<req[s].uid, p>> \notin stale'
               PROVE  p \in answer[s] <=> p \in ListOf(req[s])
    BY <1>1 DEF ListTrue, ListOf, GetFriendList, GetPendingFriendEventList, Fresh, service,
                handlers
  <2>1. PICK v \in Users : v = req[s].uid
    BY RequestKinds DEF Requests
  <2>2. Concerns(req[s], v, p)
    BY <2>1, ConcernedNews DEF Requests
  <2>3. Fresh(v, p)'
    BY <2>1 DEF Fresh
  <2>4. Fresh(v, p)
    BY <1>4, <2>2, <2>3
  <2> QED
    BY <2>1, <2>4 DEF Truth, ListTrue
<1> QED
  BY <1>5, <1>6, <1>7, <1>8 DEF Truth, HandlerTrue

LEMMA RequestTruth ==
  ASSUME TypeInv, Truth, NEW t \in Threads, Request(t)
  PROVE  Truth'
<1>1. PICK r \in Requests :
        req' = [req EXCEPT ![t] = r] /\ stale' = stale \cup Crossed(r)
  BY DEF Request, Requests
<1>2. /\ pc[t] = "idle" /\ pc' = [pc EXCEPT ![t] = "authenticate"]
      /\ UNCHANGED <<service, connections, told, due, answer, overlapped>>
  BY DEF Request
<1>3. pc'[t] = "authenticate" /\ req'[t] = r
      /\ \A s \in Threads \ {t} : pc'[s] = pc[s] /\ req'[s] = req[s]
  BY <1>1, <1>2 DEF TypeInv, ProgressTyped
<1>4. NoCrossing'
  <2> SUFFICES ASSUME NEW s1 \in Threads, NEW s2 \in Threads, NEW u \in Users, NEW p \in Users,
                      s1 # s2, pc'[s1] # "idle", pc'[s2] # "idle",
                      Changes(req'[s1], u, p), Concerns(req'[s2], u, p)
               PROVE  <<u, p>> \in stale'
    BY DEF NoCrossing, Changes, Concerns, Fresh
  <2>1. CASE s1 # t /\ s2 # t
    BY <1>1, <1>3, <2>1 DEF Truth, NoCrossing, Fresh
  <2>2. PICK q \in Users \X Users : q = <<u, p>>
    OBVIOUS
  <2>3. CASE s1 = t
    <3>1. Concerns(r, u, p) /\ Changes(r, u, p)
      BY <1>1, <1>3, <2>3, ConcernedNews
    <3>2. pc[s2] # "idle" /\ Concerns(req[s2], u, p)
      BY <1>3, <2>3
    <3> QED
      BY <1>1, <2>2, <3>1, <3>2 DEF Crossed
  <2>4. CASE s2 = t
    <3>1. pc[s1] # "idle" /\ Changes(req[s1], u, p) /\ req[s1] \in Requests
      BY <1>3, <2>4, HandlerHasRequest DEF TypeInv
    <3>2. Concerns(req[s1], u, p) /\ Concerns(r, u, p)
      BY <1>3, <2>4, <3>1, ConcernedNews
    <3> QED
      BY <1>1, <2>2, <3>1, <3>2 DEF Crossed
  <2> QED
    BY <2>1, <2>3, <2>4
<1>5. \A s \in Threads : Changing(s)' => Changing(s) /\ s # t
  BY <1>3 DEF Changing
<1>6. \A s \in Threads : Changing(s) => Changing(s)' /\ s # t
  BY <1>2, <1>3 DEF Changing
<1>7. \A u, p : Fresh(u, p)' => Fresh(u, p)
  BY <1>1 DEF Fresh
<1>8. OthersSettled'
  BY <1>2, <1>3, <1>5, <1>6, <1>7
    DEF Truth, OthersSettled, ToldTrue, FriendTrue, Heard, Online, IsPair, service, connections
<1>9. ASSUME NEW s \in Threads PROVE HandlerTrue(s)'
  <2> SUFFICES ASSUME Changing(s)' PROVE ChangeStands(req[s])' /\ PeerKnows(s)'
    BY DEF HandlerTrue
  <2>1. req'[s] = req[s] /\ ChangeStands(req[s]) /\ PeerKnows(s)
    BY <1>3, <1>5 DEF Truth, HandlerTrue
  <2>2. stale \subseteq stale'
    BY <1>1
  <2> QED
    BY <1>2, <2>1, <2>2 DEF ChangeStands, PeerKnows, ToldTrue, FriendTrue, Heard, Online, Fresh,
                            IsPair, service, connections
<1>10. ASSUME NEW s \in Threads PROVE ListTrue(s)'
  <2>1. stale \subseteq stale'
    BY <1>1
  <2> QED
    BY <1>2, <1>3, <2>1
      DEF Truth, ListTrue, ListOf, GetFriendList, GetPendingFriendEventList, Fresh, service
<1> QED
  BY <1>4, <1>8, <1>9, <1>10 DEF Truth

(* The steps of a handler before its call, and those that only look for    *)
(* whom to notify.                                                         *)
LEMMA HandlerQuietTruth ==
  ASSUME TypeInv, Truth, NEW t \in Threads,
         \/ Authenticate(t) \/ CallRefused(t) \/ CallFails(t) \/ CallLost(t) \/ Info(t)
         \/ InfoBlank(t) \/ ApplicantInfoFails(t) \/ Lookup(t) \/ Announce(t)
  PROVE  Truth'
<1>1. UNCHANGED <<pending, friends, told, link, overlapped>> /\ pc[t] # "idle"
  BY DEF Authenticate, CallRefused, CallFails, CallLost, Info, InfoBlank, ApplicantInfoFails,
         Lookup, Announce, service, connections, history, Fault
<1>2. stale \subseteq stale'
  BY DEF Authenticate, CallRefused, CallFails, CallLost, Info, InfoBlank, ApplicantInfoFails,
         Lookup, Announce, history
<1>3. \A s \in Threads \ {t} : pc'[s] = pc[s] /\ req'[s] = req[s]
  BY DEF Authenticate, CallRefused, CallFails, CallLost, Info, InfoBlank, ApplicantInfoFails,
         Lookup, Announce, Goto, Return, TypeInv, ProgressTyped, handlers
<1>4. \A s \in Threads \ {t} : due'[s] = due[s] /\ answer'[s] = answer[s]
  BY DEF Authenticate, CallRefused, CallFails, CallLost, Info, InfoBlank, ApplicantInfoFails,
         Lookup, Announce, Return, TypeInv, NotesTyped, handlers
<1>5. /\ pc'[t] # "idle" => req'[t] = req[t]
      /\ Changing(t)' <=> Changing(t)
      /\ Changing(t) => /\ req'[t] = req[t]
                        /\ due'[t] = due[t] \/ <<req[t].pid, req[t].uid>> \in stale'
      /\ ~(pc'[t] = "reply" /\ req'[t] \in ListRequest)
  <2>1. CASE Authenticate(t) \/ CallRefused(t) \/ CallFails(t) \/ CallLost(t)
    <3>1. pc[t] \in {"authenticate", "call"}
      BY <2>1 DEF Authenticate, CallRefused, CallFails, CallLost
    <3>2. \/ pc'[t] = "idle"
          \/ pc'[t] \in {"authenticate", "call"} /\ req'[t] = req[t]
      BY <2>1, <3>1 DEF Authenticate, CallRefused, CallFails, CallLost, Goto, Return, TypeInv,
                        ProgressTyped, handlers
    <3> QED
      BY <3>1, <3>2 DEF Changing
  <2>2. CASE Info(t) \/ InfoBlank(t) \/ ApplicantInfoFails(t) \/ Lookup(t)
    <3>1. /\ pc[t] \in {"info", "lookup"} /\ req[t] \in PairRequest /\ UNCHANGED req
          /\ pc'[t] \in {"lookup", "info", "send", "reply"}
      BY <2>2 DEF Info, InfoBlank, ApplicantInfoFails, Lookup, Goto, TypeInv, ProgressTyped
    <3>2. UNCHANGED due \/ <<req[t].pid, req[t].uid>> \in stale'
      BY <2>2 DEF Info, InfoBlank, ApplicantInfoFails, Lookup
    <3> QED
      BY <3>1, <3>2, RequestKinds DEF Changing, Requests
  <2>3. CASE Announce(t)
    <3>1. req[t] \in GroupRequest /\ UNCHANGED req /\ req[t] \notin PairRequest \cup ListRequest
      BY <2>3, RequestKinds DEF Announce, Goto, TypeInv, ProgressTyped, Requests
    <3> QED
      BY <3>1 DEF Changing
  <2> QED
    BY <2>1, <2>2, <2>3
<1>6. \A s \in Threads : Changing(s)' <=> Changing(s)
  BY <1>3, <1>5 DEF Changing
<1> QED
  BY <1>1, <1>2, <1>3, <1>4, <1>5, <1>6, QuietTruth

(* The handler of t takes a step of its own. *)
LEMMA OthersUnmoved ==
  ASSUME TypeInv, NEW t \in Threads,
         \/ Call(t) \/ CallMisjudged(t) \/ CallAnsweredShort(t) \/ CallUnanswered(t)
         \/ InfoFails(t) \/ Send(t) \/ Reply(t)
  PROVE  /\ UNCHANGED <<link, overlapped>> /\ pc[t] # "idle" /\ stale \subseteq stale'
         /\ \A s \in Threads \ {t} :
              /\ pc'[s] = pc[s] /\ req'[s] = req[s] /\ answer'[s] = answer[s]
              /\ due'[s] = due[s]
              /\ Changing(s)' <=> Changing(s)
         /\ pc'[t] # "idle" => req'[t] = req[t]
<1>1. UNCHANGED <<link, overlapped>> /\ pc[t] # "idle" /\ stale \subseteq stale'
  BY DEF Call, CallMisjudged, CallAnsweredShort, CallUnanswered, InfoFails, Send, Reply, Serve,
         connections, history, Fault
<1>2. \A s \in Threads \ {t} : pc'[s] = pc[s] /\ req'[s] = req[s]
  BY DEF Call, CallMisjudged, CallAnsweredShort, CallUnanswered, InfoFails, Send, Reply, Serve,
         Goto, Return, TypeInv, ProgressTyped
<1>3. \A s \in Threads \ {t} : answer'[s] = answer[s] /\ due'[s] = due[s]
  BY DEF Call, CallMisjudged, CallAnsweredShort, CallUnanswered, InfoFails, Send, Reply, Serve,
         Return, Deliver, TypeInv, NotesTyped
<1>4. pc'[t] # "idle" => req'[t] = req[t]
  BY DEF Call, CallMisjudged, CallAnsweredShort, CallUnanswered, InfoFails, Send, Reply, Serve,
         Goto, Return, TypeInv, ProgressTyped
<1> QED
  BY <1>1, <1>2, <1>3, <1>4 DEF Changing

(* A handler ends without an answer: what it has changed is stale. *)
LEMMA UntoldTruth ==
  ASSUME TypeInv, Truth, NEW t \in Threads, CallUnanswered(t) \/ InfoFails(t)
  PROVE  Truth'
<1> DEFINE r == req[t]
<1>1. /\ r \in Requests /\ pc[t] # "idle" /\ pc'[t] = "idle" /\ UNCHANGED <<told, link>>
      /\ stale' = stale \cup Untold(r)
  BY HandlerHasRequest DEF CallUnanswered, InfoFails, Return, connections, TypeInv, ProgressTyped
<1>2. \A u, p \in Users : ~Changes(r, u, p) => SameNews(u, p)
  <2>1. CASE Effect(r) \/ HalfEffect(r)
    BY <1>1, <2>1, EffectIsLocal, ConcernedNews
  <2>2. CASE UNCHANGED service
    BY <2>2 DEF SameNews, service
  <2> QED
    BY <2>1, <2>2 DEF CallUnanswered, InfoFails
<1>3. NoCrossing'
  BY OthersUnmoved, NoCrossingKept DEF Truth
<1>4. \A s \in Threads \ {t} : HandlerTrue(s)' /\ ListTrue(s)'
  BY <1>1, <1>2, OthersUnmoved, OtherHandler
<1>5. OthersSettled'
  <2> SUFFICES ASSUME NEW u \in Users, NEW p \in Users, Heard(u)', Fresh(u, p)',
                      \A s \in Threads : ~(Changing(s)' /\ IsPair(req'[s], u, p))
               PROVE  ToldTrue(u, p)'
    BY DEF OthersSettled, IsPair, Changing
  <2>1. ~Changes(r, u, p) /\ Fresh(u, p)
    BY <1>1 DEF Fresh, Untold
  <2>2. ~(Changing(t) /\ IsPair(r, u, p))
    BY <1>1, <2>1, ConcernedNews DEF Changing
  <2>3. Heard(u) /\ \A s \in Threads : ~(Changing(s) /\ IsPair(req[s], u, p))
    BY <1>1, <2>2, OthersUnmoved DEF Heard, Online
  <2> QED
    BY <1>1, <1>2, <2>1, <2>3, TruthKept DEF Truth, OthersSettled
<1>6. HandlerTrue(t)' /\ ListTrue(t)'
  BY <1>1 DEF HandlerTrue, ListTrue, Changing
<1> QED
  BY <1>3, <1>4, <1>5, <1>6 DEF Truth

(* So is what the service does for a call that nobody waits for any more.  *)
LEMMA LateTruth ==
  ASSUME TypeInv, Truth, NEW r \in PairRequest, LateCall(r)
  PROVE  Truth'
<1>1. /\ r \in Requests /\ UNCHANGED <<told, link, overlapped, pc, req, answer, due>>
      /\ stale' = stale \cup Untold(r)
  BY DEF LateCall, connections, handlers, Requests
<1>2. \A u, p \in Users : ~Changes(r, u, p) => SameNews(u, p)
  <2>1. CASE Effect(r) \/ HalfEffect(r)
    BY <1>1, <2>1, EffectIsLocal, ConcernedNews
  <2>2. CASE UNCHANGED <<pending, friends>>
    BY <2>2 DEF SameNews
  <2> QED
    BY <2>1, <2>2 DEF LateCall
<1>3. \A u, p \in Users : <<u, p>> \notin stale' => Fresh(u, p) /\ SameNews(u, p)
  <2> SUFFICES ASSUME NEW u \in Users, NEW p \in Users, <<u, p>> \notin stale'
               PROVE  Fresh(u, p) /\ SameNews(u, p)
    OBVIOUS
  <2>1. Fresh(u, p) /\ ~Changes(r, u, p)
    BY <1>1 DEF Fresh, Untold
  <2> QED
    BY <1>2, <2>1
<1>4. NoCrossing'
  BY <1>1, NoCrossingKept DEF Truth
<1>5. \A s \in Threads : HandlerTrue(s)' /\ ListTrue(s)'
  BY <1>1, <1>3, HandlerKept
<1>6. OthersSettled'
  <2> SUFFICES ASSUME NEW u \in Users, NEW p \in Users, Heard(u), <<u, p>> \notin stale',
                      \A s \in Threads : ~(Changing(s) /\ IsPair(req[s], u, p))
               PROVE  ToldTrue(u, p)'
    BY <1>1 DEF OthersSettled, IsPair, Changing, Heard, Online, Fresh
  <2>1. Fresh(u, p) /\ SameNews(u, p)
    BY <1>3
  <2>2. ToldTrue(u, p)
    BY <2>1 DEF Truth, OthersSettled
  <2> QED
    BY <1>1, <2>1, <2>2, TruthKept
<1> QED
  BY <1>4, <1>5, <1>6 DEF Truth

(* A call has its effect and its answer, with a list that is right but for *)
(* what is stale.                                                          *)
LEMMA ServeTruth ==
  ASSUME TypeInv, Truth, NEW t \in Threads,
         Call(t) \/ CallMisjudged(t) \/ CallAnsweredShort(t)
  PROVE  Truth'
<1> DEFINE r == req[t]
<1>1. /\ r \in Requests /\ pc[t] = "call" /\ UNCHANGED <<told, link, overlapped, req>>
      /\ pc'[t] = AfterCall(r) /\ due'[t] = {u \in ToNotify(r) : Online(u)}
      /\ stale \subseteq stale'
  BY HandlerHasRequest
    DEF Call, CallMisjudged, CallAnsweredShort, Serve, Goto, connections, history, Fault, TypeInv,
        ProgressTyped, NotesTyped
<1>2. Effect(r)
  <2>1. CASE Call(t) \/ CallMisjudged(t)
    BY <2>1 DEF Call, CallMisjudged
  <2>2. CASE CallAnsweredShort(t)
    BY <2>2 DEF CallAnsweredShort, Effect, service
  <2> QED
    BY <2>1, <2>2
<1>3. \A u, p \in Users : (r \in PairRequest => ~IsPair(r, u, p)) => SameNews(u, p)
  BY <1>1, <1>2, EffectIsLocal
<1>4. \A u, p \in Users : ~Changes(r, u, p) => SameNews(u, p)
  BY <1>1, <1>3, ConcernedNews
<1>5. NoCrossing'
  BY OthersUnmoved, NoCrossingKept DEF Truth
<1>6. \A s \in Threads \ {t} : HandlerTrue(s)' /\ ListTrue(s)'
  BY <1>1, <1>4, OthersUnmoved, OtherHandler
<1>7. Changing(t)' <=> r \in PairRequest
  BY <1>1, RequestKinds DEF Changing, AfterCall
<1>8. OthersSettled'
  <2> SUFFICES ASSUME NEW u \in Users, NEW p \in Users, Heard(u)', Fresh(u, p)',
                      \A s \in Threads : ~(Changing(s)' /\ IsPair(req'[s], u, p))
               PROVE  ToldTrue(u, p)'
    BY DEF OthersSettled, IsPair, Changing
  <2>1. /\ Heard(u) /\ Fresh(u, p)
        /\ \A s \in Threads : ~(Changing(s) /\ IsPair(req[s], u, p))
    BY <1>1, OthersUnmoved DEF Heard, Online, Changing, Fresh
  <2>2. SameNews(u, p)
    BY <1>1, <1>3, <1>7
  <2> QED
    BY <1>1, <2>1, <2>2, TruthKept DEF Truth, OthersSettled
<1>9. HandlerTrue(t)'
  <2> SUFFICES ASSUME r \in PairRequest
               PROVE  ChangeStands(r)' /\ PeerKnows(t)'
    BY <1>1, <1>7 DEF HandlerTrue, ChangeStands, IsPair
  <2>1. r.uid \in Users /\ r.pid \in Users /\ r.pid \in ToNotify(r)
    BY <1>1, RequestKinds DEF ToNotify
  <2>2. ASSUME r.kind = "decline", NEW u \in Users, NEW p \in Users, IsPair(r, u, p),
               Heard(u)', Fresh(u, p)'
        PROVE  FriendTrue(u, p)'
    <3>1. Heard(u) /\ Fresh(u, p)
      BY <1>1, <2>2 DEF Heard, Online, Fresh
    <3>2. ASSUME NEW s \in Threads, Changing(s) PROVE ~IsPair(req[s], u, p)
      <4>1. s # t /\ pc[s] # "idle" /\ req[s] \in PairRequest /\ req[s] \in Requests
        BY <1>1, <3>2 DEF Changing, Requests
      <4>2. Changes(r, u, p)
        BY <1>1, <2>2, ConcernedNews
      <4>3. ~Changes(req[s], u, p)
        BY <1>1, <3>1, <4>1, <4>2, NotCrossed
      <4> QED
        BY <4>1, <4>3, ConcernedNews
    <3>3. ToldTrue(u, p)
      BY <3>1, <3>2 DEF Truth, OthersSettled
    <3> QED
      BY <1>1, <1>2, <2>2, <3>3 DEF Effect, ToldTrue, FriendTrue
  <2>3. ChangeStands(r)'
    <3>1. /\ r.kind = "add" => <<r.uid, r.pid>> \in pending'
          /\ r.kind = "agree" => {r.uid, r.pid} \in friends'
          /\ r.kind = "remove" => {r.uid, r.pid} \notin friends'
      BY <1>2 DEF Effect
    <3> QED
      BY <1>1, <2>2, <3>1 DEF ChangeStands, IsPair, FriendTrue, Heard, Online, Fresh
  <2>4. PeerKnows(t)'
    BY <1>1, <2>1 DEF PeerKnows, Heard, Online
  <2> QED
    BY <2>3, <2>4
<1>10. ListTrue(t)'
  <2> SUFFICES ASSUME r \in ListRequest, NEW p \in Users, <<r.uid, p>> \notin stale'
               PROVE  p \in answer'[t] <=> p \in ListOf(r)'
    BY <1>1 DEF ListTrue, ListOf, Fresh
  <2>1. ListOf(r)' = ListOf(r)
    BY <1>1, <1>2, RequestKinds DEF Effect, ListOf, GetFriendList, GetPendingFriendEventList
  <2>2. CASE Call(t)
    BY <2>1, <2>2 DEF Call, Serve, TypeInv, NotesTyped
  <2>3. CASE CallMisjudged(t)
    BY <1>1, <2>3, RequestKinds DEF CallMisjudged
  <2>4. CASE CallAnsweredShort(t)
    <3>1. PICK list \in SUBSET ListOf(r) :
            /\ Serve(t, list)
            /\ stale' = stale \cup {<<r.uid, q>> : q \in ListOf(r) \ list}
      BY <2>4 DEF CallAnsweredShort
    <3>2. answer'[t] = list
      BY <3>1 DEF Serve, TypeInv, NotesTyped
    <3> QED
      BY <2>1, <3>1, <3>2
  <2> QED
    BY <2>2, <2>3, <2>4
<1> QED
  BY <1>5, <1>6, <1>8, <1>9, <1>10 DEF Truth

LEMMA SendTruth ==
  ASSUME TypeInv, Truth, NEW t \in Threads, Send(t)
  PROVE  Truth'
<1> DEFINE r == req[t]
           u == Turn(t)
           p == IF u = r.pid THEN r.uid ELSE r.pid
<1>1. /\ r \in PairRequest /\ r \in Requests /\ UNCHANGED <<service, link, overlapped, req, stale>>
      /\ pc[t] = "send" /\ pc'[t] \in {"send", "reply"}
  BY DEF Send, Goto, connections, history, TypeInv, ProgressTyped, Requests
<1>2. /\ r.uid \in Users /\ r.pid \in Users /\ r.uid # r.pid
      /\ IsPair(r, u, p) /\ u \in Users /\ p \in Users
  BY <1>1, RequestKinds, TurnIsUser DEF IsPair
<1>3. \/ UNCHANGED <<told, due>>
      \/ /\ link[u] = conns[t][u] /\ due'[t] = due[t] \ {u}
         /\ told' = [told EXCEPT ![u][p] =
                       CASE r.kind = "add" -> "applied"
                         [] r.kind = "agree" -> "friend"
                         [] r.kind = "decline" -> Declined(@)
                         [] r.kind = "remove" -> "stranger"]
  BY DEF Send, Deliver, TypeInv, NotesTyped
<1>4. \A v, w \in Users : ~(v = u /\ w = p) => told'[v][w] = told[v][w]
  BY <1>2, <1>3 DEF TypeInv, ToldTyped
<1>5. \A v \in Users \ {u} : told'[v] = told[v]
  BY <1>2, <1>3 DEF TypeInv, ToldTyped
<1>6. \A v, w \in Users : SameNews(v, w)
  BY <1>1 DEF SameNews, service
<1>7. NoCrossing'
  BY OthersUnmoved, NoCrossingKept DEF Truth
<1>8. \A s \in Threads \ {t} : HandlerTrue(s)' /\ ListTrue(s)'
  <2>1. \A v, w \in Users : ~Concerns(r, v, w) => told'[v][w] = told[v][w]
    BY <1>1, <1>2, <1>4, ConcernedNews
  <2> QED
    BY <1>1, <1>6, <2>1, OthersUnmoved, OtherHandler
<1>9. Changing(t) /\ Changing(t)'
  BY <1>1 DEF Changing
<1>10. OthersSettled'
  <2> SUFFICES ASSUME NEW v \in Users, NEW w \in Users, Heard(v)', Fresh(v, w)',
                      \A s \in Threads : ~(Changing(s)' /\ IsPair(req'[s], v, w))
               PROVE  ToldTrue(v, w)'
    BY DEF OthersSettled, IsPair, Changing
  <2>1. /\ Heard(v) /\ Fresh(v, w)
        /\ \A s \in Threads : ~(Changing(s) /\ IsPair(req[s], v, w))
    BY <1>1, <1>9, OthersUnmoved DEF Heard, Online, Fresh
  <2>2. ~(v = u /\ w = p)
    BY <1>2, <1>9, <2>1
  <2> QED
    BY <1>4, <1>6, <2>1, <2>2, TruthKept DEF Truth, OthersSettled
<1>11. HandlerTrue(t)'
  <2>1. ChangeStands(r) /\ PeerKnows(t)
    BY <1>9 DEF Truth, HandlerTrue
  <2>2. r.kind \in {"add", "agree", "decline", "remove"}
    BY <1>1, RequestKinds
  <2>3. CASE UNCHANGED <<told, due>>
    BY <1>1, <2>1, <2>3 DEF HandlerTrue, ChangeStands, PeerKnows, IsPair, ToldTrue, FriendTrue,
                            Heard, Online, Fresh, service
  <2>4. CASE ~UNCHANGED <<told, due>>
    <3>1. told'[u][p] = CASE r.kind = "add" -> "applied"
                          [] r.kind = "agree" -> "friend"
                          [] r.kind = "decline" -> Declined(told[u][p])
                          [] r.kind = "remove" -> "stranger"
      <4>1. \A news : [told EXCEPT ![u][p] = news][u][p] = news
        BY <1>2 DEF TypeInv, ToldTyped
      <4> QED
        BY <1>3, <2>4, <4>1
    <3>2. due'[t] = due[t] \ {u}
      BY <1>3, <2>4
    <3>3. r.kind = "decline" =>
            \A v, w \in Users :
              (IsPair(r, v, w) /\ Heard(v) /\ Fresh(v, w)) => FriendTrue(v, w)'
      <4> SUFFICES ASSUME r.kind = "decline", NEW v \in Users, NEW w \in Users,
                          IsPair(r, v, w), Heard(v), Fresh(v, w)
                   PROVE  FriendTrue(v, w)'
        OBVIOUS
      <4>1. FriendTrue(v, w)
        BY <2>1 DEF ChangeStands
      <4>2. CASE v = u /\ w = p
        BY <1>1, <3>1, <4>1, <4>2 DEF FriendTrue, Declined, service
      <4>3. CASE ~(v = u /\ w = p)
        BY <1>4, <1>6, <4>1, <4>3, TruthKept
      <4> QED
        BY <4>2, <4>3
    <3>4. ChangeStands(r)'
      BY <1>1, <2>1, <3>3 DEF ChangeStands, IsPair, FriendTrue, Heard, Online, Fresh, service
    <3>5. PeerKnows(t)'
      <4>1. CASE u = r.pid
        <5>1. p = r.uid
          BY <4>1
        <5>2. r.kind = "decline" /\ Heard(r.pid) /\ Fresh(r.pid, r.uid)
                => FriendTrue(r.pid, r.uid)
          BY <1>2, <2>1 DEF ChangeStands, IsPair
        <5> QED
          BY <1>1, <2>1, <2>2, <3>1, <4>1, <5>1, <5>2
            DEF PeerKnows, ToldTrue, FriendTrue, ChangeStands, Declined, Heard, Online, Fresh,
                service
      <4>2. CASE u # r.pid
        <5>1. told'[r.pid] = told[r.pid] /\ (r.pid \in due[t] => r.pid \in due'[t])
          BY <1>2, <1>5, <3>2, <4>2
        <5> QED
          BY <1>1, <2>1, <5>1 DEF PeerKnows, ToldTrue, FriendTrue, Heard, Online, Fresh, service
      <4> QED
        BY <4>1, <4>2
    <3> QED
      BY <1>1, <3>4, <3>5 DEF HandlerTrue, ChangeStands, IsPair, FriendTrue, Heard, Online, Fresh
  <2> QED
    BY <2>3, <2>4
<1>12. ListTrue(t)'
  BY <1>1, RequestKinds DEF ListTrue
<1> QED
  BY <1>7, <1>8, <1>10, <1>11, <1>12 DEF Truth

(* What the device of a handler's user makes of its answer. *)
LEMMA LearnTruth ==
  ASSUME TypeInv, Truth, NEW t \in Threads, pc[t] = "reply",
         NEW u \in Users, u = req[t].uid, Heard(u), NEW p \in Users, Fresh(u, p),
         told'[u][p] = Learn(req[t], answer[t], told[u])[p], UNCHANGED service,
         ToldTrue(u, p) \/ (req[t] \in PairRequest /\ p = req[t].pid)
  PROVE  ToldTrue(u, p)'
<1> DEFINE r == req[t]
<1>1. r \in Requests /\ told[u] \in [Users -> News]
  BY HandlerHasRequest DEF TypeInv, ToldTyped
<1>2. CASE told'[u][p] = told[u][p] /\ ToldTrue(u, p)
  BY <1>2 DEF ToldTrue, FriendTrue, service
<1>3. CASE r \in PairRequest /\ p = r.pid
  <2>1. ChangeStands(r)
    BY <1>3 DEF Truth, HandlerTrue, Changing
  <2>2. r.kind = "decline" => FriendTrue(u, p)
    BY <1>3, <2>1 DEF ChangeStands, IsPair
  <2>3. told'[u][p] = CASE r.kind = "add" -> "asked"
                        [] r.kind = "agree" -> "friend"
                        [] r.kind = "decline" -> Declined(told[u][p])
                        [] r.kind = "remove" -> "stranger"
    BY <1>1, <1>3, RequestKinds DEF Learn
  <2>4. r.kind \in {"add", "agree", "decline", "remove"}
    BY <1>1, <1>3, RequestKinds
  <2> QED
    BY <1>3, <2>1, <2>2, <2>3, <2>4 DEF ToldTrue, FriendTrue, ChangeStands, Declined, service
<1>4. CASE r \in PairRequest /\ p # r.pid
  <2>1. Learn(r, answer[t], told[u])[p] = told[u][p]
    BY <1>1, <1>4, RequestKinds DEF Learn
  <2> QED
    BY <1>2, <1>4, <2>1
<1>5. CASE r \in GroupRequest
  <2>1. Learn(r, answer[t], told[u])[p] = told[u][p] /\ r \notin PairRequest
    BY <1>1, <1>5, RequestKinds DEF Learn
  <2> QED
    BY <1>2, <2>1
<1>6. CASE r \in ListRequest
  <2>1. /\ p \in answer[t] <=> p \in ListOf(r)
        /\ ToldTrue(u, p) /\ r.kind \in {"friend_list", "pending_list"}
    BY <1>1, <1>6, RequestKinds DEF Truth, ListTrue
  <2>2. CASE r.kind = "friend_list"
    <3>1. p \in answer[t] <=> {u, p} \in friends
      BY <2>1, <2>2 DEF ListOf, GetFriendList
    <3>2. told'[u][p] = IF p \in answer[t] THEN "friend"
                        ELSE IF told[u][p] = "friend" THEN "stranger" ELSE told[u][p]
      BY <2>2 DEF Learn
    <3> QED
      BY <2>1, <3>1, <3>2 DEF ToldTrue, FriendTrue, service
  <2>3. CASE r.kind = "pending_list"
    <3>1. p \in answer[t] <=> <<p, u>> \in pending
      BY <2>1, <2>3 DEF ListOf, GetPendingFriendEventList
    <3>2. told'[u][p] = IF p \in answer[t] /\ told[u][p] # "friend" THEN "applied"
                        ELSE IF told[u][p] = "applied" THEN "nothing" ELSE told[u][p]
      BY <2>3 DEF Learn
    <3> QED
      BY <2>1, <3>1, <3>2 DEF ToldTrue, FriendTrue, service
  <2> QED
    BY <2>1, <2>2, <2>3
<1> QED
  BY <1>1, <1>3, <1>4, <1>5, <1>6 DEF Requests

LEMMA ReplyTruth ==
  ASSUME TypeInv, DueInv, Truth, NEW t \in Threads, Reply(t)
  PROVE  Truth'
<1> DEFINE r == req[t]
<1>1. /\ r \in Requests /\ pc[t] = "reply" /\ pc'[t] = "idle" /\ r.uid \in Users
      /\ UNCHANGED <<service, link, overlapped, stale>>
  BY HandlerHasRequest, RequestKinds
    DEF Reply, Return, connections, history, TypeInv, ProgressTyped
<1>2. told' = [told EXCEPT ![r.uid] = Learn(r, answer[t], @)]
  BY DEF Reply
<1>3. \A v, w \in Users : told'[v][w] = IF v = r.uid THEN Learn(r, answer[t], told[v])[w]
                                        ELSE told[v][w]
  BY <1>1, <1>2 DEF TypeInv, ToldTyped
<1>4. \A v, w \in Users : SameNews(v, w)
  BY <1>1 DEF SameNews, service
<1>5. NoCrossing'
  BY OthersUnmoved, NoCrossingKept DEF Truth
<1>6. \A s \in Threads \ {t} : HandlerTrue(s)' /\ ListTrue(s)'
  <2> SUFFICES ASSUME NEW v \in Users, NEW w \in Users, ~Concerns(r, v, w), v = r.uid
               PROVE  Learn(r, answer[t], told[v])[w] = told[v][w]
    BY <1>1, <1>3, <1>4, OthersUnmoved, OtherHandler
  <2>1. told[v] \in [Users -> News]
    BY DEF TypeInv, ToldTyped
  <2>2. CASE r \in PairRequest
    <3>1. w # r.pid
      BY <1>1, <2>2, ConcernedNews DEF IsPair
    <3> QED
      BY <1>1, <2>1, <2>2, <3>1, RequestKinds DEF Learn
  <2>3. CASE r \in GroupRequest
    BY <1>1, <2>3, RequestKinds DEF Learn
  <2>4. CASE r \in ListRequest
    BY <1>1, <2>4, ConcernedNews
  <2> QED
    BY <1>1, <2>2, <2>3, <2>4 DEF Requests
<1>7. OthersSettled'
  <2> SUFFICES ASSUME NEW v \in Users, NEW w \in Users, Heard(v)', Fresh(v, w)',
                      \A s \in Threads : ~(Changing(s)' /\ IsPair(req'[s], v, w))
               PROVE  ToldTrue(v, w)'
    BY DEF OthersSettled, IsPair, Changing
  <2>1. /\ Heard(v) /\ Fresh(v, w)
        /\ \A s \in Threads \ {t} : ~(Changing(s) /\ IsPair(req[s], v, w))
    BY <1>1, OthersUnmoved DEF Heard, Online, Fresh
  <2>2. (Changing(t) /\ IsPair(r, v, w)) \/ ToldTrue(v, w)
    BY <2>1 DEF Truth, OthersSettled
  <2>3. CASE v = r.uid
    <3>1. told'[v][w] = Learn(r, answer[t], told[v])[w]
      BY <1>3, <2>3
    <3>2. ToldTrue(v, w) \/ (r \in PairRequest /\ w = r.pid)
      BY <1>1, <2>2, <2>3, RequestKinds DEF IsPair, Changing
    <3> QED
      BY <1>1, <2>1, <2>3, <3>1, <3>2, LearnTruth
  <2>4. CASE v # r.uid
    <3>1. ASSUME Changing(t), IsPair(r, v, w) PROVE ToldTrue(v, w)
      <4>1. PeerKnows(t) /\ due[t] \subseteq overlapped
        BY <1>1, <3>1 DEF Truth, HandlerTrue, DueInv, DueFits
      <4>2. v = r.pid /\ w = r.uid
        BY <2>4, <3>1 DEF IsPair
      <4> QED
        BY <2>1, <4>1, <4>2 DEF PeerKnows, Heard
    <3> QED
      BY <1>3, <1>4, <2>2, <2>4, <3>1, TruthKept
  <2> QED
    BY <2>3, <2>4
<1>8. HandlerTrue(t)' /\ ListTrue(t)'
  BY <1>1 DEF HandlerTrue, ListTrue, Changing
<1> QED
  BY <1>5, <1>6, <1>7, <1>8 DEF Truth

LEMMA StepTruth == TypeInv /\ DueInv /\ Truth /\ [Next]_vars => Truth'
<1> SUFFICES ASSUME TypeInv, DueInv, Truth, [Next]_vars
             PROVE  Truth'
  OBVIOUS
<1>1. ASSUME NEW t \in Threads, SendNameless(t) PROVE Truth'
  BY <1>1 DEF SendNameless, Truth, NoCrossing, OthersSettled, HandlerTrue, ListTrue, Changing,
              Heard, Online, NoConns
<1>2. ASSUME NEW t \in Threads, HandlerStep(t) PROVE Truth'
  BY <1>1, <1>2, HandlerQuietTruth, UntoldTruth, ServeTruth, SendTruth, ReplyTruth
    DEF HandlerStep
<1>3. CASE (\E c \in Conns : OnClose(c)) \/ UNCHANGED vars
  <2>1. UNCHANGED <<pending, friends, told, link, overlapped, stale, pc, req, answer, due>>
    BY <1>3 DEF OnClose, vars, service, connections, handlers, history
  <2> QED
    BY <2>1, QuietTruth DEF Changing
<1> QED
  BY <1>2, <1>3, DeviceTruth, LateTruth, RequestTruth DEF Next

(* Whatever fails and whoever comes and goes: what a device that is online *)
(* and was not let in while an old connection was known has heard last     *)
(* about another user is true, if no request under way concerns it and,    *)
(* since the device came online, no change of it went untold and no two    *)
(* requests crossed over it.                                               *)
THEOREM ToldAreTrue == Spec => []ToldIsTrue
<1>1. Init => Truth
  BY DEF Init, Truth, NoCrossing, OthersSettled, HandlerTrue, ListTrue, Changing, Heard, Online,
         NoConns
<1>2. TypeInv /\ Truth => ToldIsTrue
  <2> SUFFICES ASSUME TypeInv, Truth, NEW u \in Users, NEW p \in Users, Heard(u), ~Busy(u, p),
                      Fresh(u, p)
               PROVE  ToldTrue(u, p)
    BY DEF ToldIsTrue, ToldTrue, FriendTrue, Fresh, Heard
  <2>1. ASSUME NEW t \in Threads, Changing(t) PROVE ~IsPair(req[t], u, p)
    <3>1. pc[t] # "idle" /\ req[t] \in Requests /\ req[t] \in PairRequest
      BY <2>1 DEF Changing, Requests
    <3> QED
      BY <3>1, ConcernedNews DEF Busy
  <2> QED
    BY <2>1 DEF Truth, OthersSettled
<1> QED
  BY <1>1, <1>2, StepTruth, DueInvHolds, TypeInvHolds, PTL DEF Spec
=============================================================================
