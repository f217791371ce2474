---------------------------- MODULE LoginSession ----------------------------
(***************************************************************************)
(* Who is logged in, and over which connection a user is notified.         *)
(*                                                                         *)
(* Three parties share this: the login handlers of the user service        *)
(* (server/user/source/user_server.hpp), redis with one key per login      *)
(* session, one per logged-in user and one per verify code                 *)
(* (server/common/data_redis.hpp), and the websocket thread of the gateway *)
(* with its two connection maps (server/gateway/source/gateway_server.hpp  *)
(* and connection.hpp).                                                    *)
(*                                                                         *)
(* A redis command is one step; the login handlers run in bthreads, the    *)
(* websocket thread handles one event at a time.  A redis command that     *)
(* throws is caught by neither, so it ends the process like a kill.        *)
(*                                                                         *)
(* A device logs in when it has no login session, opens a connection with  *)
(* the session it was given and sends it once per connection; it may lose  *)
(* the connection, and open another one with the same session before the   *)
(* gateway has noticed.                                                    *)
(***************************************************************************)
EXTENDS Naturals, FiniteSets

CONSTANTS
  Users, Devices,
  Ssids,         \* the uuids that name login sessions
  Conns,         \* websocket connections
  CodeIds,       \* the uuids that name verify codes
  UserOf,        \* the user of a device
  NoUser, NoSsid, NoConn, NoCode,
  MaxTroubles    \* bound: races, overlaps, lost sessions and kills (see below)

ASSUME LoginAssumption ==
  /\ UserOf \in [Devices -> Users]
  /\ NoUser \notin Users /\ NoSsid \notin Ssids
  /\ NoConn \notin Conns /\ NoCode \notin CodeIds
  /\ MaxTroubles \in Nat

VARIABLES
  session,          \* redis: the user of a login session id
  status,           \* redis: the users that have a login mark
  codes,            \* redis: the verify codes that are kept
  pc, ssid, code,   \* the login handler serving a device
  token,            \* the login session id a device holds
  link,             \* the connection a device has open
  open,             \* the connections the gateway has not closed
  greeting,         \* the session id sent over a connection and not yet read
  uid_connections,  \* Connection: the connection of a user
  conn_clients,     \* Connection: the session id of a connection
  ws,               \* the websocket thread: what it does, for which connection
  raced,            \* users with logins that passed the check together
  overlapped,       \* users with a connection beside another one
  halved,           \* users with a login that was killed between its two keys
  bereft,           \* users with a session that nobody knows any more
  troubles          \* how often one of these happened, or a kill

redis == <<session, status, codes>>
logins == <<pc, ssid, code>>
devices == <<token, link>>
maps == <<uid_connections, conn_clients>>
gateway == <<open, greeting, maps, ws>>
history == <<raced, overlapped, halved, bereft, troubles>>
vars == <<redis, logins, devices, gateway, history>>

LoginSteps == {"code_get", "code_remove", "status_exists",
               "session_append", "status_append"}
CloseSteps == {"session_remove", "status_remove", "connections_remove"}
Idle == [step |-> "idle", conn |-> NoConn]

TypeOK ==
  /\ session \in [Ssids -> Users \cup {NoUser}]
  /\ status \in SUBSET Users
  /\ codes \in SUBSET CodeIds
  /\ pc \in [Devices -> LoginSteps \cup {"idle"}]
  /\ ssid \in [Devices -> Ssids \cup {NoSsid}]
  /\ code \in [Devices -> CodeIds \cup {NoCode}]
  /\ token \in [Devices -> Ssids \cup {NoSsid}]
  /\ link \in [Devices -> Conns \cup {NoConn}]
  /\ open \in SUBSET Conns
  /\ greeting \in [Conns -> Ssids \cup {NoSsid}]
  /\ uid_connections \in [Users -> Conns \cup {NoConn}]
  /\ conn_clients \in [Conns -> [uid : Users, ssid : Ssids]
                                  \cup {[uid |-> NoUser, ssid |-> NoSsid]}]
  /\ ws \in [step : CloseSteps, conn : Conns] \cup {Idle}
  /\ {raced, overlapped, halved, bereft} \subseteq SUBSET Users
  /\ troubles \in Nat

NoClient == [uid |-> NoUser, ssid |-> NoSsid]

Init ==
  /\ session = [s \in Ssids |-> NoUser]
  /\ status = {}
  /\ codes = {}
  /\ pc = [d \in Devices |-> "idle"]
  /\ ssid = [d \in Devices |-> NoSsid]
  /\ code = [d \in Devices |-> NoCode]
  /\ token = [d \in Devices |-> NoSsid]
  /\ link = [d \in Devices |-> NoConn]
  /\ open = {}
  /\ greeting = [c \in Conns |-> NoSsid]
  /\ uid_connections = [u \in Users |-> NoConn]
  /\ conn_clients = [c \in Conns |-> NoClient]
  /\ ws = Idle
  /\ raced = {} /\ overlapped = {} /\ halved = {} /\ bereft = {} /\ troubles = 0

(* Something that a property below excepts happens; how often is bounded. *)
Trouble == troubles < MaxTroubles /\ troubles' = troubles + 1

-----------------------------------------------------------------------------
(* The user service. *)

(* The code is sent by SMS, then kept in redis for five minutes. *)
GetPhoneVerifyCode(c) ==
  /\ c \notin codes
  /\ codes' = codes \cup {c}
  /\ UNCHANGED <<session, status, logins, devices, gateway, history>>

CodeExpires(c) ==
  /\ c \in codes
  /\ codes' = codes \ {c}
  /\ UNCHANGED <<session, status, logins, devices, gateway, history>>

Return(d) ==
  /\ pc' = [pc EXCEPT ![d] = "idle"]
  /\ ssid' = [ssid EXCEPT ![d] = NoSsid]
  /\ code' = [code EXCEPT ![d] = NoCode]

Continue(d, step) ==
  /\ pc' = [pc EXCEPT ![d] = step]
  /\ UNCHANGED <<ssid, code>>

(* Name and password are right: otherwise the handler changes nothing. *)
UserLogin(d) ==
  /\ pc[d] = "idle" /\ token[d] = NoSsid
  /\ Continue(d, "status_exists")
  /\ UNCHANGED <<redis, devices, gateway, history>>

(* The phone is registered; the device sends a code, which may have expired. *)
PhoneLogin(d) ==
  /\ pc[d] = "idle" /\ token[d] = NoSsid
  /\ \E c \in CodeIds : code' = [code EXCEPT ![d] = c]
  /\ pc' = [pc EXCEPT ![d] = "code_get"]
  /\ UNCHANGED <<redis, ssid, devices, gateway, history>>

CodeGet(d) ==
  /\ pc[d] = "code_get"
  /\ IF code[d] \in codes THEN Continue(d, "code_remove") ELSE Return(d)
  /\ UNCHANGED <<redis, devices, gateway, history>>

CodeRemove(d) ==
  /\ pc[d] = "code_remove"
  /\ codes' = codes \ {code[d]}
  /\ Continue(d, "status_exists")
  /\ UNCHANGED <<session, status, devices, gateway, history>>

(* Handlers of a user that have found no mark and not set it yet. *)
Passed(u) == {d \in Devices : UserOf[d] = u /\ pc[d] \in {"session_append", "status_append"}}

(* A bug: the mark is not looked at. *)
StatusIgnored(d) ==
  /\ pc[d] = "status_exists"
  /\ Continue(d, "session_append")
  /\ UNCHANGED <<redis, devices, gateway, history>>

StatusExists(d) ==
  /\ pc[d] = "status_exists"
  /\ IF UserOf[d] \in status
     THEN Return(d) /\ UNCHANGED <<raced, troubles>>
     ELSE /\ Continue(d, "session_append")
          /\ \/ Passed(UserOf[d]) = {} /\ UNCHANGED <<raced, troubles>>
             \/ Passed(UserOf[d]) # {} /\ Trouble /\ raced' = raced \cup {UserOf[d]}
  /\ UNCHANGED <<redis, devices, gateway, overlapped, halved, bereft>>

(* uuid(): an id that nobody holds stands for one nobody has ever held.    *)
Unused(s) ==
  /\ session[s] = NoUser
  /\ \A d \in Devices : token[d] # s /\ ssid[d] # s
  /\ \A c \in Conns : greeting[c] # s /\ conn_clients[c].ssid # s

SessionAppend(d) ==
  /\ pc[d] = "session_append"
  /\ \E s \in Ssids :
       /\ Unused(s)
       /\ session' = [session EXCEPT ![s] = UserOf[d]]
       /\ ssid' = [ssid EXCEPT ![d] = s]
  /\ pc' = [pc EXCEPT ![d] = "status_append"]
  /\ UNCHANGED <<status, codes, code, devices, gateway, history>>

(* A bug: the mark is left out. *)
StatusNotAppended(d) ==
  /\ pc[d] = "status_append"
  /\ token' = [token EXCEPT ![d] = ssid[d]]
  /\ Return(d)
  /\ UNCHANGED <<redis, link, gateway, history>>

(* The last command; then the answer, which may not reach the device. *)
StatusAppend(d) ==
  /\ pc[d] = "status_append"
  /\ status' = status \cup {UserOf[d]}
  /\ Return(d)
  /\ \/ token' = [token EXCEPT ![d] = ssid[d]] /\ UNCHANGED <<bereft, troubles>>
     \/ Trouble /\ bereft' = bereft \cup {UserOf[d]} /\ UNCHANGED token
  /\ UNCHANGED <<session, codes, link, gateway, raced, overlapped, halved>>

-----------------------------------------------------------------------------
(* Devices. *)

(* Opens a connection and sends ClientAuthenticationReq. *)
Connect(d) ==
  /\ token[d] # NoSsid /\ link[d] = NoConn
  /\ \E c \in Conns :
       /\ c \notin open
       /\ open' = open \cup {c}
       /\ greeting' = [greeting EXCEPT ![c] = token[d]]
       /\ link' = [link EXCEPT ![d] = c]
  /\ UNCHANGED <<redis, logins, token, maps, ws, history>>

(* Closes or loses the connection; the gateway will hear of it. *)
Disconnect(d) ==
  /\ link[d] # NoConn
  /\ link' = [link EXCEPT ![d] = NoConn]
  /\ UNCHANGED <<redis, logins, token, gateway, history>>

(* Forgets the login session, which is lost if no connection knows it. *)
Forget(d) ==
  /\ token[d] # NoSsid /\ link[d] = NoConn
  /\ token' = [token EXCEPT ![d] = NoSsid]
  /\ LET unused == /\ session[token[d]] # NoUser
                   /\ \A c \in Conns : conn_clients[c].ssid # token[d]
     IN  \/ ~unused /\ UNCHANGED <<bereft, troubles>>
         \/ unused /\ Trouble /\ bereft' = bereft \cup {UserOf[d]}
  /\ UNCHANGED <<redis, logins, link, gateway, raced, overlapped, halved>>

-----------------------------------------------------------------------------
(* The websocket thread of the gateway. *)

Alive(c) == \E d \in Devices : link[d] = c
Registered(c) == conn_clients[c] # NoClient

(* Both maps insert, and neither replaces what it has. *)
Insert(c, u, s) ==
  /\ uid_connections' = [uid_connections EXCEPT ![u] = IF @ = NoConn THEN c ELSE @]
  /\ conn_clients' = [conn_clients EXCEPT ![c] =
                        IF @ = NoClient THEN [uid |-> u, ssid |-> s] ELSE @]

(* A bug: a session that redis does not know is let in. *)
OnMessageUnchecked(c) ==
  /\ ws = Idle /\ c \in open /\ greeting[c] # NoSsid
  /\ greeting' = [greeting EXCEPT ![c] = NoSsid]
  /\ Insert(c, session[greeting[c]], greeting[c])
  /\ UNCHANGED <<redis, logins, devices, open, ws, history>>

(* onMessage.  Only this thread deletes sessions, so nothing comes between *)
(* its look at redis and its insert.                                       *)
OnMessage(c) ==
  /\ ws = Idle /\ c \in open /\ greeting[c] # NoSsid
  /\ greeting' = [greeting EXCEPT ![c] = NoSsid]
  /\ LET u == session[greeting[c]] IN
       IF u = NoUser
       THEN /\ link' = [d \in Devices |-> IF link[d] = c THEN NoConn ELSE link[d]]
            /\ UNCHANGED <<maps, overlapped, troubles>>
       ELSE /\ Insert(c, u, greeting[c])
            /\ LET beside == \E b \in Conns : conn_clients[b].uid = u
               IN  \/ ~beside /\ UNCHANGED <<overlapped, troubles>>
                   \/ beside /\ Trouble /\ overlapped' = overlapped \cup {u}
            /\ UNCHANGED link
  /\ UNCHANGED <<redis, logins, token, open, ws, raced, halved, bereft>>

(* onClose of a connection that never named a session it could use. *)
OnCloseUnknown(c) ==
  /\ ws = Idle /\ c \in open /\ ~Alive(c) /\ ~Registered(c)
  /\ open' = open \ {c}
  /\ greeting' = [greeting EXCEPT ![c] = NoSsid]
  /\ UNCHANGED <<redis, logins, devices, maps, ws, history>>

OnClose(c) ==
  /\ ws = Idle /\ c \in open /\ ~Alive(c) /\ Registered(c)
  /\ ws' = [step |-> "session_remove", conn |-> c]
  /\ UNCHANGED <<redis, logins, devices, open, greeting, maps, history>>

CloseSessionRemove ==
  /\ ws.step = "session_remove"
  /\ session' = [session EXCEPT ![conn_clients[ws.conn].ssid] = NoUser]
  /\ ws' = [ws EXCEPT !.step = "status_remove"]
  /\ UNCHANGED <<status, codes, logins, devices, open, greeting, maps, history>>

(* A bug: the mark of the user stays. *)
CloseStatusKept ==
  /\ ws.step = "status_remove"
  /\ ws' = [ws EXCEPT !.step = "connections_remove"]
  /\ UNCHANGED <<redis, logins, devices, open, greeting, maps, history>>

CloseStatusRemove ==
  /\ ws.step = "status_remove"
  /\ status' = status \ {conn_clients[ws.conn].uid}
  /\ ws' = [ws EXCEPT !.step = "connections_remove"]
  /\ UNCHANGED <<session, codes, logins, devices, open, greeting, maps, history>>

(* A bug: the user's entry stays. *)
RemoveClientOnly(c) ==
  /\ conn_clients' = [conn_clients EXCEPT ![c] = NoClient]
  /\ UNCHANGED uid_connections

(* Connection::remove: the entry of the user goes, whatever it points to. *)
Remove(c) ==
  /\ uid_connections' = [uid_connections EXCEPT ![conn_clients[c].uid] = NoConn]
  /\ conn_clients' = [conn_clients EXCEPT ![c] = NoClient]

(* A bug: the connection stays in the maps. *)
CloseConnectionsKept ==
  /\ ws.step = "connections_remove"
  /\ open' = open \ {ws.conn}
  /\ ws' = Idle
  /\ UNCHANGED <<redis, logins, devices, greeting, maps, history>>

CloseConnectionsRemove ==
  /\ ws.step = "connections_remove"
  /\ Remove(ws.conn)
  /\ open' = open \ {ws.conn}
  /\ ws' = Idle
  /\ UNCHANGED <<redis, logins, devices, greeting, history>>

-----------------------------------------------------------------------------
(* Failures: docker starts the process again, with nothing in its memory.  *)

UserServiceKilled ==
  /\ Trouble
  /\ \E d \in Devices : pc[d] # "idle"
  /\ halved' = halved \cup {UserOf[d] : d \in {e \in Devices : pc[e] = "status_append"}}
  /\ pc' = [d \in Devices |-> "idle"]
  /\ ssid' = [d \in Devices |-> NoSsid]
  /\ code' = [d \in Devices |-> NoCode]
  /\ UNCHANGED <<redis, devices, gateway, raced, overlapped, bereft>>

GatewayKilled ==
  /\ Trouble
  /\ open # {}
  /\ bereft' = bereft \cup {u \in Users : \E c \in Conns : conn_clients[c].uid = u}
  /\ open' = {}
  /\ greeting' = [c \in Conns |-> NoSsid]
  /\ link' = [d \in Devices |-> NoConn]
  /\ uid_connections' = [u \in Users |-> NoConn]
  /\ conn_clients' = [c \in Conns |-> NoClient]
  /\ ws' = Idle
  /\ UNCHANGED <<redis, logins, token, raced, overlapped, halved>>

-----------------------------------------------------------------------------

LoginStep(d) ==
  CodeGet(d) \/ CodeRemove(d) \/ StatusExists(d) \/ SessionAppend(d) \/ StatusAppend(d)

CloseStep == CloseSessionRemove \/ CloseStatusRemove \/ CloseConnectionsRemove

WebsocketEvent(c) == OnMessage(c) \/ OnCloseUnknown(c) \/ OnClose(c)

Next ==
  \/ \E d \in Devices : \/ UserLogin(d) \/ PhoneLogin(d) \/ LoginStep(d)
                        \/ Connect(d) \/ Disconnect(d) \/ Forget(d)
  \/ \E c \in Conns : WebsocketEvent(c)
  \/ CloseStep
  \/ \E c \in CodeIds : GetPhoneVerifyCode(c) \/ CodeExpires(c)
  \/ UserServiceKilled \/ GatewayKilled

Spec == Init /\ [][Next]_vars

(* The websocket thread serves every event and ends what it has begun; the *)
(* ping that keepAlive repeats lets it notice a connection that is gone.   *)
FairSpec ==
  /\ Spec
  /\ WF_vars(CloseStep)
  /\ \A c \in Conns : SF_vars(WebsocketEvent(c))

-----------------------------------------------------------------------------
(* Properties. *)

(* The two maps agree.  The connection found for a user is registered for  *)
(* that user, whatever connections come, go and overlap; and a registered  *)
(* connection is the one found for its user, so that notifications arrive, *)
(* unless this user had another connection at the same time.               *)
MapsAgree ==
  /\ \A u \in Users :
       uid_connections[u] # NoConn => conn_clients[uid_connections[u]].uid = u
  /\ \A c \in Conns :
       (Registered(c) /\ conn_clients[c].uid \notin overlapped)
         => uid_connections[conn_clients[c].uid] = c

Closing(c) == ws.conn = c

(* While a user's connection is registered and the gateway is not closing  *)
(* it, its session is valid, so its http requests are accepted, with the   *)
(* same exception.                                                         *)
ConnectedIsLoggedIn ==
  \A c \in Conns :
    (Registered(c) /\ ~Closing(c) /\ conn_clients[c].uid \notin overlapped)
      => session[conn_clients[c].ssid] = conn_clients[c].uid

(* What spoils the agreement of a user's session and mark. *)
Disturbed == raced \cup overlapped \cup halved

(* A user has at most one login session, if no two logins of this user     *)
(* passed the check together, none was killed between its two keys, and no *)
(* connection of this user overlapped another: whatever other users do,    *)
(* and however often the gateway is killed.                                *)
OneSessionPerUser ==
  \A s, t \in Ssids :
    (session[s] = session[t] /\ session[s] \in Users \ Disturbed) => s = t

(* PhoneLogin judges by the mark in redis whether a user is logged in: so  *)
(* a session has a mark, but for the moment in which a handler or the      *)
(* websocket thread is between the two keys; with the same exceptions.     *)
MarkTellsLogin ==
  \A s \in Ssids : session[s] \in Users \ Disturbed =>
    \/ session[s] \in status
    \/ \E d \in Devices : pc[d] = "status_append" /\ ssid[d] = s

(* No mark is left behind: a marked user holds a session that still works, *)
(* or has a connection registered, whose closing will delete the mark.     *)
(* Excepted are users whose session was lost: in an answer, by the device, *)
(* or with the connections of a gateway that was killed.                   *)
MarkHasOwner ==
  \A u \in status \ bereft :
    \/ \E d \in Devices : token[d] # NoSsid /\ session[token[d]] = u
    \/ \E c \in Conns : conn_clients[c].uid = u

(* Once every device of a marked user is gone, the mark goes too, and the  *)
(* user can log in again; with the same exceptions.                        *)
NobodyStaysLockedOut ==
  \A u \in Users :
    (u \in status /\ \A d \in Devices :
                       UserOf[d] = u => pc[d] = "idle" /\ token[d] = NoSsid)
    ~> (u \notin status \/ u \in bereft)
=============================================================================
