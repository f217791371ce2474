------------------------------ MODULE Gateway ------------------------------
(***************************************************************************)
(* What the clients of line_chat are told about friendships and groups:    *)
(* the http handlers of server/gateway/source/gateway_server.hpp that ask  *)
(* the friend service and notify other users over their websockets, with   *)
(* the connections of connection.hpp.                                      *)
(*                                                                         *)
(* Each request has a thread of the http server.  A handler looks up the   *)
(* login session, calls the friend service, looks up connections, fetches  *)
(* names from the user service, sends notifications and answers; other     *)
(* threads and the websocket thread run in between.                        *)
(*                                                                         *)
(* Of the friend service, applications and friendships are modelled as     *)
(* they are before and after its transactions; chats and groups are left   *)
(* out because nothing here depends on them.  Whether redis knows a login  *)
(* session is left open: LoginSession says when it does.                   *)
(***************************************************************************)
EXTENDS Naturals, FiniteSets

CONSTANTS
  Users, Threads,
  Conns,         \* websocket connections
  NoUser, NoConn, NoRequest,
  Lists,         \* member_id_list of ChatSessionCreate
  MaxRequests,   \* bound: requests
  MaxTroubles    \* bound: calls that fail or go unanswered, and crossings

ASSUME GatewayAssumption ==
  /\ NoUser \notin Users /\ NoConn \notin Conns /\ Lists \subseteq SUBSET Users
  /\ MaxRequests \in Nat /\ MaxTroubles \in Nat

(* Requests that change something between two users, those that create a   *)
(* group, and those that read a list.                                      *)
PairRequest == {r \in [kind : {"add", "agree", "decline", "remove"}, uid : Users, pid : Users] :
                  r.uid # r.pid}
GroupRequest == [kind : {"create"}, uid : Users, list : Lists]
ListRequest == [kind : {"friend_list", "pending_list"}, uid : Users]

ASSUME RequestAssumption == NoRequest \notin PairRequest \cup GroupRequest \cup ListRequest

VARIABLES
  pending, friends,  \* friend service: applications <<from, to>>, pairs {u, p}
  late,              \* calls it still handles and the gateway has given up
  connection,        \* Connection: _uid_connections
  client,            \* Connection: _conn_clients
  link,              \* the connection a device has open
  told,              \* what the device of a user last heard about another user
  pc, req,           \* a handler: its next step, its request
  todo, conns,       \* whom it still has to notify, the connections it found
  answer,            \* the list it will answer
  nameless,          \* handlers that go on without the applicant's data
  due,               \* users online since its effect, and not yet notified
  stale,             \* <<u, p>>: news about p that u may have missed or heard late
  overlapped,        \* users let in on a new connection while an old one was known
  requests, troubles

service == <<pending, friends, late>>
connections == <<connection, client, link>>
handlers == <<pc, req, todo, conns, answer, nameless>>
history == <<stale, overlapped, requests, troubles>>
vars == <<service, connections, told, handlers, due, history>>

Steps == {"idle", "authenticate", "call", "lookup", "info", "send", "announce", "reply"}
News == {"nothing", "asked", "applied", "friend", "stranger"}

TypeOK ==
  /\ pending \subseteq Users \X Users
  /\ friends \subseteq {{u, p} : u, p \in Users}
  /\ late \subseteq PairRequest
  /\ connection \in [Users -> Conns \cup {NoConn}]
  /\ client \in [Conns -> Users \cup {NoUser}]
  /\ link \in [Users -> Conns \cup {NoConn}]
  /\ told \in [Users -> [Users -> News]]
  /\ pc \in [Threads -> Steps]
  /\ req \in [Threads -> PairRequest \cup GroupRequest \cup ListRequest \cup {NoRequest}]
  /\ \A t \in Threads : pc[t] = "idle" <=> req[t] = NoRequest
  /\ todo \in [Threads -> SUBSET Users]
  /\ conns \in [Threads -> [Users -> Conns \cup {NoConn}]]
  /\ answer \in [Threads -> SUBSET Users]
  /\ nameless \subseteq Threads
  /\ due \in [Threads -> SUBSET Users]
  /\ stale \subseteq Users \X Users /\ overlapped \subseteq Users
  /\ requests \in Nat /\ troubles \in Nat

Nothing == [p \in Users |-> "nothing"]
NoConns == [u \in Users |-> NoConn]
NoClients == [c \in Conns |-> NoUser]

(* A gateway that starts, on whatever the database holds. *)
Init ==
  /\ pending \in SUBSET {q \in Users \X Users : q[1] # q[2]}
  /\ friends \in SUBSET {{q[1], q[2]} : q \in {a \in Users \X Users : a[1] # a[2]}}
  /\ late = {}
  /\ connection = NoConns /\ client = NoClients /\ link = NoConns
  /\ told = [u \in Users |-> Nothing]
  /\ pc = [t \in Threads |-> "idle"] /\ req = [t \in Threads |-> NoRequest]
  /\ todo = [t \in Threads |-> {}] /\ conns = [t \in Threads |-> NoConns]
  /\ answer = [t \in Threads |-> {}] /\ nameless = {}
  /\ due = [t \in Threads |-> {}]
  /\ stale = {} /\ overlapped = {} /\ requests = 0 /\ troubles = 0

Trouble == troubles < MaxTroubles /\ troubles' = troubles + 1
Fault == Trouble /\ UNCHANGED <<overlapped, requests>>

(* A request changes what two users are to each other, or concerns what u  *)
(* hears about p because it changes that or lists it.                      *)
Changes(r, u, p) ==
  r.kind \in {"add", "agree", "decline", "remove"} /\ {u, p} = {r.uid, r.pid}
Concerns(r, u, p) ==
  Changes(r, u, p) \/ (r.kind \in {"friend_list", "pending_list"} /\ r.uid = u)

Busy(u, p) == \E t \in Threads : pc[t] # "idle" /\ Concerns(req[t], u, p)

-----------------------------------------------------------------------------
(* The devices, and the websocket thread. *)

Online(u) == link[u] # NoConn

(* A device opens a connection and is let in (onMessage): see              *)
(* LoginSession.  It has one connection at a time, but the gateway may not *)
(* have seen the old one go: insert then keeps that one for the user.  The *)
(* device starts with an empty screen, so nothing on it is stale but what  *)
(* a request under way may still put there.  Bound: how often it overlaps. *)
GoOnline(u) ==
  /\ ~Online(u)
  /\ \E c \in Conns :
       /\ client[c] = NoUser /\ \A t \in Threads : \A v \in Users : conns[t][v] # c
       /\ link' = [link EXCEPT ![u] = c]
       /\ client' = [client EXCEPT ![c] = u]
       /\ connection' = [connection EXCEPT ![u] = IF @ = NoConn THEN c ELSE @]
  /\ \/ \A c \in Conns : client[c] # u
        /\ overlapped' = overlapped \ {u} /\ UNCHANGED troubles
     \/ \E c \in Conns : client[c] = u
        /\ overlapped' = overlapped \cup {u} /\ Trouble
  /\ told' = [told EXCEPT ![u] = Nothing]
  /\ stale' = {q \in stale : q[1] # u \/ Busy(u, q[2])}
  /\ UNCHANGED <<service, handlers, due, requests>>

Disconnect(u) ==
  /\ Online(u)
  /\ link' = [link EXCEPT ![u] = NoConn]
  /\ due' = [t \in Threads |-> due[t] \ {u}]
  /\ UNCHANGED <<service, connection, client, told, handlers, history>>

(* onClose of a connection its device has left: Connection::remove erases  *)
(* the entry of the user, whichever connection that holds.                 *)
OnClose(c) ==
  /\ \E u \in Users :
       /\ client[c] = u /\ link[u] # c
       /\ connection' = [connection EXCEPT ![u] = NoConn]
  /\ client' = [client EXCEPT ![c] = NoUser]
  /\ UNCHANGED <<service, link, told, handlers, due, history>>

-----------------------------------------------------------------------------
(* Requests. *)

(* Two requests cross: one changes what the other changes or lists.        *)
Crossed(r) ==
  {q \in Users \X Users :
     \E s \in Threads :
       /\ pc[s] # "idle"
       /\ Concerns(r, q[1], q[2]) /\ Concerns(req[s], q[1], q[2])
       /\ Changes(r, q[1], q[2]) \/ Changes(req[s], q[1], q[2])}

(* A device sends a request.  Bound: how often it crosses another one.     *)
Request(t) ==
  /\ pc[t] = "idle"
  /\ requests < MaxRequests /\ requests' = requests + 1
  /\ \E r \in PairRequest \cup GroupRequest \cup ListRequest :
       /\ Online(r.uid)
       /\ req' = [req EXCEPT ![t] = r]
       /\ stale' = stale \cup Crossed(r)
       /\ \/ Crossed(r) = {} /\ UNCHANGED troubles
          \/ Crossed(r) # {} /\ Trouble
  /\ pc' = [pc EXCEPT ![t] = "authenticate"]
  /\ UNCHANGED <<service, connections, told, todo, conns, answer, nameless, due, overlapped>>

Goto(t, step) ==
  /\ pc' = [pc EXCEPT ![t] = step]
  /\ UNCHANGED req

(* A bug: the handler is done and its request is not. *)
ReturnWithRequest(t) ==
  /\ pc' = [pc EXCEPT ![t] = "idle"]
  /\ todo' = [todo EXCEPT ![t] = {}]
  /\ conns' = [conns EXCEPT ![t] = NoConns]
  /\ answer' = [answer EXCEPT ![t] = {}]
  /\ nameless' = nameless \ {t}
  /\ due' = [due EXCEPT ![t] = {}]
  /\ UNCHANGED req

Return(t) ==
  /\ pc' = [pc EXCEPT ![t] = "idle"]
  /\ req' = [req EXCEPT ![t] = NoRequest]
  /\ todo' = [todo EXCEPT ![t] = {}]
  /\ conns' = [conns EXCEPT ![t] = NoConns]
  /\ answer' = [answer EXCEPT ![t] = {}]
  /\ nameless' = nameless \ {t}
  /\ due' = [due EXCEPT ![t] = {}]

(* Redis knows the login session, or an error is the answer. *)
Authenticate(t) ==
  /\ pc[t] = "authenticate"
  /\ \/ Goto(t, "call") /\ UNCHANGED <<todo, conns, answer, nameless, due>>
     \/ Return(t)
  /\ UNCHANGED <<service, connections, told, history>>

-----------------------------------------------------------------------------
(* The call of the friend service. *)

ToNotify(r) ==
  CASE r.kind \in {"add", "decline", "remove"} -> {r.pid}
    [] r.kind = "agree" -> {r.pid, r.uid}
    [] r.kind = "create" -> r.list
    [] OTHER -> {}

(* The friend service goes through with it.  A removal does so for who is  *)
(* no friend as well, if a removal before it failed half way.              *)
Accepts(r) ==
  CASE r.kind = "add" -> {r.uid, r.pid} \notin friends /\ <<r.uid, r.pid>> \notin pending
    [] r.kind \in {"agree", "decline"} -> <<r.pid, r.uid>> \in pending
    [] OTHER -> TRUE

Effect(r) ==
  /\ pending' = CASE r.kind = "add" -> pending \cup {<<r.uid, r.pid>>}
                  [] r.kind \in {"agree", "decline"} -> pending \ {<<r.pid, r.uid>>}
                  [] OTHER -> pending
  /\ friends' = CASE r.kind = "agree" -> friends \cup {{r.uid, r.pid}}
                  [] r.kind = "remove" -> friends \ {{r.uid, r.pid}}
                  [] OTHER -> friends

(* FriendAddProcess ends after the transaction that removes the            *)
(* application and before the one that inserts the relation.               *)
HalfEffect(r) ==
  /\ r.kind = "agree"
  /\ pending' = pending \ {<<r.pid, r.uid>>}
  /\ UNCHANGED friends

GetFriendList(u) == {p \in Users : {u, p} \in friends}
GetPendingFriendEventList(u) == {p \in Users : <<p, u>> \in pending}

ListOf(r) ==
  CASE r.kind = "friend_list" -> GetFriendList(r.uid)
    [] r.kind = "pending_list" -> GetPendingFriendEventList(r.uid)
    [] OTHER -> {}

AfterCall(r) ==
  CASE r.kind \in {"add", "remove"} -> "lookup"
    [] r.kind \in {"agree", "decline"} -> "info"
    [] r.kind = "create" -> "announce"
    [] OTHER -> "reply"

(* The service answers with success, and with this list. *)
Serve(t, list) ==
  /\ todo' = [todo EXCEPT ![t] = ToNotify(req[t])]
  /\ due' = [due EXCEPT ![t] = {u \in ToNotify(req[t]) : Online(u)}]
  /\ answer' = [answer EXCEPT ![t] = list]
  /\ Goto(t, AfterCall(req[t]))
  /\ UNCHANGED <<connections, told, conns, nameless>>

(* It refuses, or does not survive the removal of a chat that is not there. *)
Refuses(r) == ~Accepts(r) \/ (r.kind = "remove" /\ {r.uid, r.pid} \notin friends)

(* A bug: the notifications go out although the service refused. *)
CallNotChecked(t) ==
  /\ pc[t] = "call" /\ Refuses(req[t])
  /\ Serve(t, {})
  /\ UNCHANGED <<service, history>>

CallRefused(t) ==
  /\ pc[t] = "call" /\ Refuses(req[t])
  /\ Return(t)
  /\ UNCHANGED <<service, connections, told, history>>

Call(t) ==
  /\ pc[t] = "call" /\ Accepts(req[t])
  /\ Effect(req[t])
  /\ Serve(t, ListOf(req[t]))
  /\ UNCHANGED <<late, history>>

(* No node of the service is known, the call fails, or a query or a        *)
(* transaction of the service does before anything has changed.            *)
CallFails(t) ==
  /\ pc[t] = "call"
  /\ Fault
  /\ Return(t)
  /\ UNCHANGED <<service, connections, told, stale>>

(* The query of an exists() throws, which means no: somebody who is a      *)
(* friend or has applied applies (again).                                  *)
CallMisjudged(t) ==
  /\ pc[t] = "call" /\ req[t].kind = "add" /\ ~Accepts(req[t])
  /\ Effect(req[t])
  /\ Serve(t, {})
  /\ Fault
  /\ UNCHANGED <<late, stale>>

(* The query of a list throws, and the list ends where it did, before its  *)
(* first entry or after some: an answer like any other.                    *)
CallAnsweredShort(t) ==
  /\ pc[t] = "call" /\ req[t].kind \in {"friend_list", "pending_list"}
  /\ \E list \in SUBSET ListOf(req[t]) :
       /\ Serve(t, list)
       /\ stale' = stale \cup {<<req[t].uid, p>> : p \in ListOf(req[t]) \ list}
  /\ Fault
  /\ UNCHANGED service

(* What a request has changed is not told to anybody. *)
Untold(r) == {q \in Users \X Users : Changes(r, q[1], q[2])}

(* The call has its effect, or half of it, and is answered with an error   *)
(* or not at all: a later transaction fails, or the service ends.          *)
CallUnanswered(t) ==
  /\ pc[t] = "call" /\ req[t].kind \notin {"friend_list", "pending_list"}
  /\ Accepts(req[t])
  /\ Effect(req[t]) \/ HalfEffect(req[t])
  /\ Fault
  /\ stale' = stale \cup Untold(req[t])
  /\ Return(t)
  /\ UNCHANGED <<late, connections, told>>

(* The connection to the service breaks under a call it goes on with: the  *)
(* gateway's channel sends it once more, or gives up.                      *)
CallLost(t) ==
  /\ pc[t] = "call" /\ req[t] \in PairRequest
  /\ late' = late \cup {req[t]}
  /\ Fault
  /\ Return(t) \/ UNCHANGED <<handlers, due>>
  /\ UNCHANGED <<pending, friends, connections, told, stale>>

(* The service gets to it. *)
LateCall(r) ==
  /\ r \in late
  /\ late' = late \ {r}
  /\ \/ Accepts(r) /\ (Effect(r) \/ HalfEffect(r))
     \/ UNCHANGED <<pending, friends>>
  /\ stale' = stale \cup Untold(r)
  /\ UNCHANGED <<connections, told, handlers, due, overlapped, requests, troubles>>

-----------------------------------------------------------------------------
(* Notifications. *)

(* _GetUserInfo of the user who acts, and of the applicant. *)
Info(t) ==
  /\ pc[t] = "info"
  /\ Goto(t, IF req[t].kind = "add" THEN "send" ELSE "lookup")
  /\ UNCHANGED <<service, connections, told, todo, conns, answer, nameless, due, history>>

(* Without it an error is the answer, whatever the friend service has done. *)
InfoFails(t) ==
  /\ pc[t] = "info"
  /\ Fault
  /\ stale' = stale \cup Untold(req[t])
  /\ Return(t)
  /\ UNCHANGED <<service, connections, told>>

(* The user service answers with an error, which nobody looks at: the      *)
(* notification goes out without saying of whom it speaks.  (An agreement  *)
(* does say it: the chat that comes with it has the id of the other.)      *)
InfoBlank(t) ==
  /\ pc[t] = "info" /\ req[t].kind \in {"add", "decline"}
  /\ Fault
  /\ stale' = stale \cup {<<req[t].pid, req[t].uid>>}
  /\ todo' = [todo EXCEPT ![t] = {}]
  /\ due' = [due EXCEPT ![t] = {}]
  /\ Goto(t, "reply")
  /\ UNCHANGED <<service, connections, told, conns, answer, nameless>>

(* FriendAddProcess looks at the first response again instead of at the    *)
(* applicant's, and goes on without it.                                    *)
ApplicantInfoFails(t) ==
  /\ pc[t] = "info" /\ req[t].kind \in {"agree", "decline"}
  /\ Fault
  /\ nameless' = nameless \cup {t}
  /\ Goto(t, "lookup")
  /\ UNCHANGED <<service, connections, told, todo, conns, answer, due, stale>>

(* A bug: the connection of the user who acts is taken for the other's. *)
LookupOwn(t) ==
  /\ pc[t] = "lookup"
  /\ conns' = [conns EXCEPT ![t] = [NoConns EXCEPT ![req[t].pid] = connection[req[t].uid]]]
  /\ Goto(t, IF req[t].kind = "add" THEN "info" ELSE "send")
  /\ UNCHANGED <<service, connections, told, todo, answer, nameless, due, history>>

(* Connection::connection for those to be notified; who is not found is    *)
(* passed over.                                                            *)
Lookup(t) ==
  /\ pc[t] = "lookup"
  /\ LET found == {u \in todo[t] : connection[u] # NoConn} IN
       /\ todo' = [todo EXCEPT ![t] = found]
       /\ conns' = [conns EXCEPT ![t] =
                      [u \in Users |-> IF u \in found THEN connection[u] ELSE NoConn]]
       /\ Goto(t, IF found = {} THEN "reply"
                  ELSE IF req[t].kind = "add" THEN "info" ELSE "send")
  /\ UNCHANGED <<service, connections, told, answer, nameless, due, history>>

(* What a user hears of p when it learns that the application is declined. *)
Declined(old) == IF old \in {"asked", "applied"} THEN "nothing" ELSE old

(* Sending never fails for the handler; it reaches the device if that      *)
(* still has the connection.                                               *)
Deliver(t, u, c) ==
  IF link[u] = c
  THEN /\ due' = [due EXCEPT ![t] = @ \ {u}]
       /\ LET r == req[t]
              p == IF u = r.pid THEN r.uid ELSE r.pid
          IN told' = [told EXCEPT ![u][p] =
                        CASE r.kind = "add" -> "applied"
                          [] r.kind = "agree" -> "friend"
                          [] r.kind = "decline" -> Declined(@)
                          [] r.kind = "remove" -> "stranger"]
  ELSE UNCHANGED <<due, told>>

(* The other user first, then (with an agreement) the one who acts. *)
Turn(t) == IF req[t].pid \in todo[t] THEN req[t].pid ELSE req[t].uid

Send(t) ==
  /\ pc[t] = "send"
  /\ ~(t \in nameless /\ Turn(t) = req[t].uid)
  /\ Deliver(t, Turn(t), conns[t][Turn(t)])
  /\ todo' = [todo EXCEPT ![t] = @ \ {Turn(t)}]
  /\ Goto(t, IF todo[t] = {Turn(t)} THEN "reply" ELSE "send")
  /\ UNCHANGED <<service, connections, conns, answer, nameless, history>>

(* The applicant's name is read from a null pointer: the gateway ends, and *)
(* docker starts it again.                                                 *)
SendNameless(t) ==
  /\ pc[t] = "send"
  /\ t \in nameless /\ Turn(t) = req[t].uid
  /\ connection' = NoConns /\ client' = NoClients /\ link' = NoConns
  /\ pc' = [s \in Threads |-> "idle"] /\ req' = [s \in Threads |-> NoRequest]
  /\ todo' = [s \in Threads |-> {}] /\ conns' = [s \in Threads |-> NoConns]
  /\ answer' = [s \in Threads |-> {}] /\ nameless' = {}
  /\ due' = [s \in Threads |-> {}]
  /\ UNCHANGED <<service, told, history>>

(* ChatSessionCreate: one member after the other is looked up and told. *)
Announce(t) ==
  /\ pc[t] = "announce"
  /\ IF todo[t] = {}
     THEN Goto(t, "reply") /\ UNCHANGED <<todo, due>>
     ELSE \E u \in todo[t] :
            /\ todo' = [todo EXCEPT ![t] = @ \ {u}]
            /\ due' = IF connection[u] # NoConn /\ link[u] = connection[u]
                      THEN [due EXCEPT ![t] = @ \ {u}] ELSE due
            /\ UNCHANGED <<pc, req>>
  /\ UNCHANGED <<service, connections, told, conns, answer, nameless, history>>

(* What a device makes of a successful answer. *)
Learn(r, list, old) ==
  CASE r.kind = "add" -> [old EXCEPT ![r.pid] = "asked"]
    [] r.kind = "agree" -> [old EXCEPT ![r.pid] = "friend"]
    [] r.kind = "decline" -> [old EXCEPT ![r.pid] = Declined(@)]
    [] r.kind = "remove" -> [old EXCEPT ![r.pid] = "stranger"]
    [] r.kind = "create" -> old
    [] r.kind = "friend_list" ->
         [p \in Users |-> IF p \in list THEN "friend"
                          ELSE IF old[p] = "friend" THEN "stranger" ELSE old[p]]
    [] r.kind = "pending_list" ->
         [p \in Users |-> IF p \in list /\ old[p] # "friend" THEN "applied"
                          ELSE IF old[p] = "applied" THEN "nothing" ELSE old[p]]

Reply(t) ==
  /\ pc[t] = "reply"
  /\ told' = [told EXCEPT ![req[t].uid] = Learn(req[t], answer[t], @)]
  /\ Return(t)
  /\ UNCHANGED <<service, connections, history>>

-----------------------------------------------------------------------------

HandlerStep(t) ==
  \/ Authenticate(t) \/ CallRefused(t) \/ Call(t) \/ CallFails(t) \/ CallMisjudged(t)
  \/ CallAnsweredShort(t) \/ CallUnanswered(t) \/ CallLost(t)
  \/ Info(t) \/ InfoFails(t) \/ InfoBlank(t) \/ ApplicantInfoFails(t) \/ Lookup(t)
  \/ Send(t) \/ SendNameless(t) \/ Announce(t) \/ Reply(t)

Next ==
  \/ \E u \in Users : GoOnline(u) \/ Disconnect(u)
  \/ \E c \in Conns : OnClose(c)
  \/ \E r \in PairRequest : LateCall(r)
  \/ \E t \in Threads : Request(t) \/ HandlerStep(t)

Spec == Init /\ [][Next]_vars

-----------------------------------------------------------------------------
(* Properties. *)

(* What a device that is online has heard last about another user is true, *)
(* whatever fails and whoever comes and goes, if no request under way      *)
(* concerns it, unless                                                     *)
(*   - the news is stale: since the device came online a call that changed *)
(*     it went untold (or the list was not read), or two requests crossed  *)
(*     over it (notifications and answers carry no order, so of two that   *)
(*     cross, the older may arrive last);                                  *)
(*   - the device was let in while the gateway still knew an old           *)
(*     connection of its user, so notifications look for that one.         *)
ToldIsTrue ==
  \A u, p \in Users :
    (Online(u) /\ u \notin overlapped /\ ~Busy(u, p) /\ <<u, p>> \notin stale) =>
      /\ told[u][p] = "friend" => {u, p} \in friends
      /\ told[u][p] = "stranger" => {u, p} \notin friends
      /\ told[u][p] = "asked" => <<u, p>> \in pending
      /\ told[u][p] = "applied" => <<p, u>> \in pending

(* Whoever a request concerns and is online from its effect until its      *)
(* success is answered has been sent a notification by then, whatever      *)
(* fails and whatever other requests do; only who was let in while an old  *)
(* connection was known may miss it.  (An error promises nothing.)         *)
OnlineIsTold == \A t \in Threads : pc[t] = "reply" => due[t] \subseteq overlapped
=============================================================================
