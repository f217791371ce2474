------------------------- MODULE LoginSessionProofs -------------------------
(***************************************************************************)
(* Theorems about LoginSession, for any users, devices, connections and    *)
(* bounds.                                                                 *)
(***************************************************************************)
EXTENDS LoginSession, TLAPS

-----------------------------------------------------------------------------
(* Type correctness, by the party that takes the step. *)

LEMMA InitTypeOK == Init => TypeOK
BY LoginAssumption DEF Init, TypeOK, NoClient, Idle, LoginSteps

LEMMA LoginStepTyped ==
  ASSUME TypeOK, NEW d \in Devices, UserLogin(d) \/ PhoneLogin(d) \/ LoginStep(d)
  PROVE  TypeOK'
<1>1. UserOf[d] \in Users
  BY LoginAssumption
<1>2. CASE UserLogin(d)
  BY <1>2 DEF UserLogin, Continue, TypeOK, LoginSteps, redis, devices, gateway, maps, history
<1>3. CASE PhoneLogin(d)
  BY <1>3 DEF PhoneLogin, TypeOK, LoginSteps, redis, devices, gateway, maps, history
<1>4. CASE CodeGet(d) \/ CodeRemove(d)
  BY <1>4 DEF CodeGet, CodeRemove, Continue, Return, TypeOK, LoginSteps,
              redis, devices, gateway, maps, history
<1>5. CASE StatusExists(d)
  BY <1>1, <1>5 DEF StatusExists, Trouble, Continue, Return, TypeOK, LoginSteps,
                    redis, devices, gateway, maps
<1>6. CASE SessionAppend(d)
  BY <1>1, <1>6 DEF SessionAppend, TypeOK, LoginSteps, devices, gateway, maps, history
<1>7. CASE StatusAppend(d)
  BY <1>1, <1>7 DEF StatusAppend, Trouble, Return, TypeOK, LoginSteps, gateway, maps
<1> QED
  BY <1>2, <1>3, <1>4, <1>5, <1>6, <1>7 DEF LoginStep

LEMMA DeviceStepTyped ==
  ASSUME TypeOK, NEW d \in Devices, Connect(d) \/ Disconnect(d) \/ Forget(d)
  PROVE  TypeOK'
<1>1. CASE Connect(d)
  BY <1>1 DEF Connect, TypeOK, redis, logins, maps, history
<1>2. CASE Disconnect(d)
  BY <1>2 DEF Disconnect, TypeOK, redis, logins, gateway, maps, history
<1>3. CASE Forget(d)
  <2>1. UserOf[d] \in Users
    BY LoginAssumption
  <2>2. /\ UNCHANGED <<redis, logins, link, gateway, raced, overlapped, halved>>
        /\ token' = [token EXCEPT ![d] = NoSsid]
        /\ \/ UNCHANGED <<bereft, troubles>>
           \/ Trouble /\ bereft' = bereft \cup {UserOf[d]}
    BY <1>3 DEF Forget
  <2>3. bereft' \subseteq Users /\ troubles' \in Nat
    BY <2>1, <2>2 DEF Trouble, TypeOK
  <2> QED
    BY <2>2, <2>3 DEF TypeOK, redis, logins, gateway, maps
<1> QED
  BY <1>1, <1>2, <1>3

LEMMA WebsocketTyped ==
  ASSUME TypeOK, NEW c \in Conns, WebsocketEvent(c)
  PROVE  TypeOK'
<1>1. CASE OnMessage(c)
  <2>1. greeting[c] \in Ssids
    BY <1>1 DEF OnMessage, TypeOK
  <2>2. session[greeting[c]] \in Users \cup {NoUser}
    BY <2>1 DEF TypeOK
  <2> QED
    BY <1>1, <2>1, <2>2 DEF OnMessage, Trouble, Insert, TypeOK, redis, logins, maps
<1>2. CASE OnCloseUnknown(c)
  BY <1>2 DEF OnCloseUnknown, TypeOK, redis, logins, devices, maps, history
<1>3. CASE OnClose(c)
  BY <1>3 DEF OnClose, TypeOK, CloseSteps, redis, logins, devices, maps, history
<1> QED
  BY <1>1, <1>2, <1>3 DEF WebsocketEvent

LEMMA CloseStepTyped ==
  ASSUME TypeOK, CloseStep
  PROVE  TypeOK'
<1>1. ws \in [step : CloseSteps, conn : Conns]
  BY DEF CloseStep, CloseSessionRemove, CloseStatusRemove, CloseConnectionsRemove, TypeOK, Idle
<1>2. CASE CloseSessionRemove
  BY <1>1, <1>2 DEF CloseSessionRemove, TypeOK, CloseSteps, logins, devices, maps, history
<1>3. CASE CloseStatusRemove
  BY <1>1, <1>3 DEF CloseStatusRemove, TypeOK, CloseSteps, logins, devices, maps, history
<1>4. CASE CloseConnectionsRemove
  BY <1>1, <1>4 DEF CloseConnectionsRemove, Remove, NoClient, TypeOK, redis, logins, devices, history
<1> QED
  BY <1>2, <1>3, <1>4 DEF CloseStep

LEMMA OtherStepTyped ==
  ASSUME TypeOK, \/ \E c \in CodeIds : GetPhoneVerifyCode(c) \/ CodeExpires(c)
                 \/ UserServiceKilled \/ GatewayKilled
  PROVE  TypeOK'
<1>1. ASSUME NEW c \in CodeIds, GetPhoneVerifyCode(c) \/ CodeExpires(c) PROVE TypeOK'
  BY <1>1 DEF GetPhoneVerifyCode, CodeExpires, TypeOK, logins, devices, gateway, maps, history
<1>2. CASE UserServiceKilled
  BY <1>2, LoginAssumption DEF UserServiceKilled, Trouble, TypeOK, redis, devices, gateway, maps
<1>3. CASE GatewayKilled
  BY <1>3 DEF GatewayKilled, Trouble, NoClient, TypeOK, redis, logins
<1> QED
  BY <1>1, <1>2, <1>3

LEMMA StepTyped == TypeOK /\ [Next]_vars => TypeOK'
<1>1. TypeOK /\ Next => TypeOK'
  BY LoginStepTyped, DeviceStepTyped, WebsocketTyped, CloseStepTyped, OtherStepTyped DEF Next
<1>2. TypeOK /\ UNCHANGED vars => TypeOK'
  BY DEF TypeOK, vars, redis, logins, devices, gateway, maps, history
<1> QED
  BY <1>1, <1>2

(* Keys in redis, handlers, connection maps and the websocket thread have  *)
(* their types: nothing is looked up under the name of nobody.             *)
THEOREM TypeCorrect == Spec => []TypeOK
BY InitTypeOK, StepTyped, PTL DEF Spec

-----------------------------------------------------------------------------
(* The connections of the gateway.  A connection that is not open is       *)
(* nowhere, one whose greeting is not read is not registered, and the one  *)
(* being closed is.                                                        *)

ConnectionsFit ==
  /\ \A c \in Conns : c \notin open => conn_clients[c] = NoClient /\ greeting[c] = NoSsid
  /\ \A c \in Conns : greeting[c] # NoSsid => conn_clients[c] = NoClient
  /\ ws # Idle => Registered(ws.conn)

(* The connection found for a user is registered for that user. *)
FoundRegistered ==
  \A u \in Users :
    uid_connections[u] # NoConn => conn_clients[uid_connections[u]].uid = u

ConnectionInv == TypeOK /\ ConnectionsFit /\ FoundRegistered

LEMMA ClientFields ==
  ASSUME TypeOK, NEW c \in Conns
  PROVE  /\ NoClient.uid = NoUser /\ NoClient.ssid = NoSsid
         /\ Registered(c) <=> conn_clients[c].uid \in Users
         /\ Registered(c) <=> conn_clients[c].ssid \in Ssids
BY LoginAssumption DEF TypeOK, Registered, NoClient

LEMMA ClosingFields ==
  ASSUME TypeOK
  PROVE  /\ Idle.step = "idle" /\ Idle.conn \notin Conns
         /\ ws # Idle => ws.conn \in Conns /\ ws.step \in CloseSteps
         /\ ws # Idle <=> ws.step \in CloseSteps
BY LoginAssumption DEF TypeOK, Idle, CloseSteps

(* Steps that leave the maps alone. *)
LEMMA MapsKept ==
  ASSUME FoundRegistered, UNCHANGED maps
  PROVE  FoundRegistered'
BY DEF FoundRegistered, maps

LEMMA MessageConnections ==
  ASSUME ConnectionInv, NEW c \in Conns, OnMessage(c)
  PROVE  ConnectionsFit' /\ FoundRegistered'
<1> DEFINE u == session[greeting[c]]
<1>1. greeting[c] \in Ssids /\ conn_clients[c] = NoClient
  BY DEF ConnectionInv, ConnectionsFit, OnMessage, TypeOK
<1>2. u \in Users \cup {NoUser}
  BY <1>1 DEF ConnectionInv, TypeOK
<1>3. greeting' = [greeting EXCEPT ![c] = NoSsid] /\ UNCHANGED <<open, ws>> /\ ws = Idle
  BY DEF OnMessage
<1>4. CASE u = NoUser
  <2>1. UNCHANGED maps
    BY <1>4 DEF OnMessage
  <2> QED
    BY <1>3, <2>1, MapsKept DEF ConnectionInv, ConnectionsFit, Registered, maps, TypeOK
<1>5. CASE u # NoUser
  <2>1. Insert(c, u, greeting[c])
    BY <1>5 DEF OnMessage
  <2>2. conn_clients'[c].uid = u /\ \A b \in Conns \ {c} : conn_clients'[b] = conn_clients[b]
    BY <1>1, <2>1 DEF Insert, ConnectionInv, TypeOK
  <2>3. \A v \in Users : \/ uid_connections'[v] = uid_connections[v]
                         \/ v = u /\ uid_connections'[v] = c
    BY <2>1 DEF Insert, ConnectionInv, TypeOK
  <2>4. ConnectionsFit'
    BY <1>3, <2>2 DEF ConnectionInv, ConnectionsFit, Registered, TypeOK, OnMessage, NoClient
  <2>5. \A v \in Users : uid_connections[v] # c
    BY <1>1, LoginAssumption DEF ConnectionInv, FoundRegistered, NoClient
  <2>6. FoundRegistered'
    BY <2>2, <2>3, <2>5 DEF ConnectionInv, FoundRegistered, TypeOK
  <2> QED
    BY <2>4, <2>6
<1> QED
  BY <1>4, <1>5

LEMMA CloseConnections ==
  ASSUME ConnectionInv, CloseStep
  PROVE  ConnectionsFit' /\ FoundRegistered'
<1>1. ws.conn \in Conns /\ ws # Idle
  BY ClosingFields DEF ConnectionInv, CloseStep, CloseSteps, CloseSessionRemove,
                       CloseStatusRemove, CloseConnectionsRemove
<1>2. CASE CloseSessionRemove \/ CloseStatusRemove
  <2>1. UNCHANGED <<open, greeting, maps>> /\ ws'.conn = ws.conn
    BY <1>1, <1>2 DEF CloseSessionRemove, CloseStatusRemove, ConnectionInv, TypeOK
  <2> QED
    BY <1>1, <2>1, MapsKept DEF ConnectionInv, ConnectionsFit, Registered, maps
<1>3. CASE CloseConnectionsRemove
  <2>1. /\ conn_clients'[ws.conn] = NoClient
        /\ \A b \in Conns \ {ws.conn} : conn_clients'[b] = conn_clients[b]
        /\ open' = open \ {ws.conn} /\ UNCHANGED greeting /\ ws' = Idle
    BY <1>1, <1>3 DEF CloseConnectionsRemove, Remove, ConnectionInv, TypeOK
  <2>2. greeting[ws.conn] = NoSsid
    BY <1>1 DEF ConnectionInv, ConnectionsFit, Registered
  <2>3. ConnectionsFit'
    BY <2>1, <2>2 DEF ConnectionInv, ConnectionsFit
  <2>4. \A u \in Users : \/ uid_connections'[u] = NoConn
                         \/ /\ uid_connections'[u] = uid_connections[u]
                            /\ u # conn_clients[ws.conn].uid
    BY <1>3 DEF CloseConnectionsRemove, Remove, ConnectionInv, TypeOK
  <2>5. FoundRegistered'
    BY <2>1, <2>4 DEF ConnectionInv, FoundRegistered, TypeOK
  <2> QED
    BY <2>3, <2>5
<1> QED
  BY <1>2, <1>3 DEF CloseStep

LEMMA StepConnections == ConnectionInv /\ [Next]_vars => ConnectionsFit' /\ FoundRegistered'
<1> SUFFICES ASSUME ConnectionInv, [Next]_vars
             PROVE  ConnectionsFit' /\ FoundRegistered'
  OBVIOUS
<1>1. CASE UNCHANGED gateway
  BY <1>1, MapsKept DEF ConnectionInv, ConnectionsFit, Registered, gateway, maps
<1>2. ASSUME NEW d \in Devices, Connect(d) PROVE ConnectionsFit' /\ FoundRegistered'
  BY <1>2, MapsKept DEF Connect, ConnectionInv, ConnectionsFit, Registered, maps, TypeOK
<1>3. ASSUME NEW c \in Conns, OnCloseUnknown(c) PROVE ConnectionsFit' /\ FoundRegistered'
  BY <1>3, MapsKept DEF OnCloseUnknown, ConnectionInv, ConnectionsFit, Registered, maps, TypeOK
<1>4. ASSUME NEW c \in Conns, OnClose(c) PROVE ConnectionsFit' /\ FoundRegistered'
  BY <1>4, MapsKept DEF OnClose, ConnectionInv, ConnectionsFit, Registered, maps
<1>5. ASSUME GatewayKilled PROVE ConnectionsFit' /\ FoundRegistered'
  BY <1>5 DEF GatewayKilled, ConnectionsFit, FoundRegistered
<1>6. \/ UNCHANGED gateway
      \/ \E d \in Devices : Connect(d)
      \/ \E c \in Conns : OnMessage(c) \/ OnCloseUnknown(c) \/ OnClose(c)
      \/ CloseStep
      \/ GatewayKilled
  BY DEF Next, vars, WebsocketEvent, LoginStep, UserLogin, PhoneLogin, CodeGet, CodeRemove,
         StatusExists, SessionAppend, StatusAppend, Disconnect, Forget, GetPhoneVerifyCode,
         CodeExpires, UserServiceKilled
<1> QED
  BY <1>1, <1>2, <1>3, <1>4, <1>5, <1>6, MessageConnections, CloseConnections

LEMMA ConnectionInvHolds == Spec => []ConnectionInv
<1>1. Init => ConnectionsFit /\ FoundRegistered
  BY DEF Init, ConnectionsFit, FoundRegistered
<1> QED
  BY <1>1, InitTypeOK, StepTyped, StepConnections, PTL DEF Spec, ConnectionInv

-----------------------------------------------------------------------------
(* The sessions in redis.  Until it is answered, the id of a new session   *)
(* is known to its handler alone; and what a registered connection knows   *)
(* of its session is what redis has, or redis has it no more.              *)

HandlersFit ==
  \A d \in Devices :
    /\ pc[d] = "status_append" => session[ssid[d]] = UserOf[d]
    /\ pc[d] = "status_append" <=> ssid[d] # NoSsid

AloneWith(d, s) ==
  /\ \A e \in Devices : token[e] # s /\ (e # d => ssid[e] # s)
  /\ \A c \in Conns : greeting[c] # s /\ conn_clients[c].ssid # s

SessionsHeld == \A d \in Devices : ssid[d] # NoSsid => AloneWith(d, ssid[d])

ClientsKnow ==
  \A c \in Conns :
    Registered(c) => session[conn_clients[c].ssid] \in {conn_clients[c].uid, NoUser}

ClosingRemoved ==
  ws.step \in {"status_remove", "connections_remove"}
    => session[conn_clients[ws.conn].ssid] = NoUser

SessionInv ==
  ConnectionInv /\ HandlersFit /\ SessionsHeld /\ ClientsKnow /\ ClosingRemoved

LEMMA SessionParts ==
  ASSUME SessionInv
  PROVE  TypeOK /\ ConnectionsFit /\ HandlersFit /\ SessionsHeld /\ ClientsKnow /\ ClosingRemoved
BY DEF SessionInv, ConnectionInv

(* Steps of handlers before there is a session, and of devices. *)
LEMMA EarlyStepSessions ==
  ASSUME SessionInv, NEW d \in Devices,
         \/ UserLogin(d) \/ PhoneLogin(d) \/ CodeGet(d) \/ CodeRemove(d) \/ StatusExists(d)
         \/ Disconnect(d)
  PROVE  HandlersFit' /\ SessionsHeld' /\ ClientsKnow' /\ ClosingRemoved'
<1>1. UNCHANGED <<session, token, greeting, conn_clients, ws>>
  BY DEF UserLogin, PhoneLogin, CodeGet, CodeRemove, StatusExists, Disconnect,
         redis, devices, gateway, maps
<1>2. /\ \A e \in Devices : ssid'[e] = ssid[e]
      /\ \A e \in Devices : pc'[e] = "status_append" <=> pc[e] = "status_append"
  BY SessionParts
    DEF UserLogin, PhoneLogin, CodeGet, CodeRemove, StatusExists, Disconnect,
        Continue, Return, TypeOK, HandlersFit, logins
<1>3. HandlersFit'
  BY <1>1, <1>2, SessionParts DEF HandlersFit
<1>4. SessionsHeld'
  BY <1>1, <1>2, SessionParts DEF SessionsHeld, AloneWith
<1>5. ClientsKnow' /\ ClosingRemoved'
  BY <1>1, SessionParts DEF ClientsKnow, ClosingRemoved, Registered
<1> QED
  BY <1>3, <1>4, <1>5

LEMMA AppendSessions ==
  ASSUME SessionInv, NEW d \in Devices, SessionAppend(d)
  PROVE  HandlersFit' /\ SessionsHeld' /\ ClientsKnow' /\ ClosingRemoved'
<1>1. PICK s \in Ssids : /\ Unused(s)
                         /\ session' = [session EXCEPT ![s] = UserOf[d]]
                         /\ ssid' = [ssid EXCEPT ![d] = s]
  BY DEF SessionAppend
<1>2. pc' = [pc EXCEPT ![d] = "status_append"] /\ UNCHANGED <<token, greeting, conn_clients, ws>>
  BY DEF SessionAppend, devices, gateway, maps
<1>3. HandlersFit'
  BY <1>1, <1>2, SessionParts, LoginAssumption DEF HandlersFit, Unused, TypeOK
<1>4. SessionsHeld'
  BY <1>1, <1>2, SessionParts, LoginAssumption DEF SessionsHeld, AloneWith, Unused, TypeOK
<1>5. ClientsKnow'
  BY <1>1, <1>2, SessionParts DEF ClientsKnow, Registered, Unused, TypeOK
<1>6. ClosingRemoved'
  <2>1. CASE ws = Idle
    BY <1>2, <2>1 DEF ClosingRemoved, Idle
  <2>2. CASE ws # Idle
    <3>1. ws.conn \in Conns
      BY <2>2, ClosingFields, SessionParts
    <3>2. conn_clients[ws.conn].ssid # s
      BY <1>1, <3>1 DEF Unused
    <3> QED
      BY <1>1, <1>2, <3>2, SessionParts DEF ClosingRemoved, TypeOK
  <2> QED
    BY <2>1, <2>2
<1> QED
  BY <1>3, <1>4, <1>5, <1>6

LEMMA AnswerSessions ==
  ASSUME SessionInv, NEW d \in Devices, StatusAppend(d)
  PROVE  HandlersFit' /\ SessionsHeld' /\ ClientsKnow' /\ ClosingRemoved'
<1>1. /\ pc' = [pc EXCEPT ![d] = "idle"] /\ ssid' = [ssid EXCEPT ![d] = NoSsid]
      /\ token' = [token EXCEPT ![d] = ssid[d]] \/ UNCHANGED token
      /\ UNCHANGED <<session, greeting, conn_clients, ws>>
  BY DEF StatusAppend, Return, gateway, maps
<1>2. HandlersFit'
  BY <1>1, SessionParts DEF HandlersFit, TypeOK
<1>3. SessionsHeld'
  BY <1>1, SessionParts DEF SessionsHeld, AloneWith, TypeOK
<1>4. ClientsKnow' /\ ClosingRemoved'
  BY <1>1, SessionParts DEF ClientsKnow, ClosingRemoved, Registered
<1> QED
  BY <1>2, <1>3, <1>4

LEMMA DeviceSessions ==
  ASSUME SessionInv, NEW d \in Devices, Connect(d) \/ Forget(d)
  PROVE  HandlersFit' /\ SessionsHeld' /\ ClientsKnow' /\ ClosingRemoved'
<1>1. UNCHANGED <<session, pc, ssid, conn_clients, ws>>
  BY DEF Connect, Forget, redis, logins, gateway, maps
<1>2. \A e \in Devices : token'[e] \in {token[e], NoSsid}
  BY SessionParts DEF Connect, Forget, TypeOK
<1>3. \A c \in Conns : greeting'[c] = greeting[c] \/ greeting'[c] = token[d]
  BY SessionParts DEF Connect, Forget, TypeOK, gateway
<1>4. SessionsHeld'
  BY <1>1, <1>2, <1>3, SessionParts DEF SessionsHeld, AloneWith
<1> QED
  BY <1>1, <1>4, SessionParts DEF HandlersFit, ClientsKnow, ClosingRemoved, Registered

LEMMA WebsocketSessions ==
  ASSUME SessionInv, NEW c \in Conns, WebsocketEvent(c)
  PROVE  HandlersFit' /\ SessionsHeld' /\ ClientsKnow' /\ ClosingRemoved'
<1>1. UNCHANGED <<session, pc, ssid, token>>
  BY DEF WebsocketEvent, OnMessage, OnCloseUnknown, OnClose, redis, logins, devices
<1>2. HandlersFit'
  BY <1>1, SessionParts DEF HandlersFit
<1>3. CASE OnMessage(c)
  <2>1. \A b \in Conns : /\ greeting'[b] \in {greeting[b], NoSsid}
                         /\ \/ conn_clients'[b] = conn_clients[b]
                            \/ /\ conn_clients'[b].uid = session[greeting[c]]
                               /\ conn_clients'[b].ssid = greeting[c]
    BY <1>3, SessionParts DEF OnMessage, Insert, TypeOK, maps
  <2>2. SessionsHeld'
    BY <1>1, <2>1, SessionParts DEF SessionsHeld, AloneWith
  <2>3. ClientsKnow'
    BY <1>1, <2>1, SessionParts DEF ClientsKnow, Registered
  <2>4. ClosingRemoved'
    BY <1>3 DEF ClosingRemoved, OnMessage, Idle
  <2> QED
    BY <1>2, <2>2, <2>3, <2>4
<1>4. CASE OnCloseUnknown(c) \/ OnClose(c)
  <2>1. /\ UNCHANGED conn_clients
        /\ \A b \in Conns : greeting'[b] \in {greeting[b], NoSsid}
    BY <1>4, SessionParts DEF OnCloseUnknown, OnClose, TypeOK, maps
  <2>2. SessionsHeld'
    BY <1>1, <2>1, SessionParts DEF SessionsHeld, AloneWith
  <2>3. ClientsKnow'
    BY <1>1, <2>1, SessionParts DEF ClientsKnow, Registered
  <2>4. ClosingRemoved'
    BY <1>4 DEF ClosingRemoved, OnCloseUnknown, OnClose, Idle
  <2> QED
    BY <1>2, <2>2, <2>3, <2>4
<1> QED
  BY <1>3, <1>4 DEF WebsocketEvent

LEMMA CloseSessions ==
  ASSUME SessionInv, CloseStep
  PROVE  HandlersFit' /\ SessionsHeld' /\ ClientsKnow' /\ ClosingRemoved'
<1>1. ws.conn \in Conns /\ ws # Idle
  BY ClosingFields, SessionParts DEF CloseStep, CloseSteps, CloseSessionRemove,
                                     CloseStatusRemove, CloseConnectionsRemove
<1>2. Registered(ws.conn) /\ conn_clients[ws.conn].ssid \in Ssids
  BY <1>1, ClientFields, SessionParts DEF ConnectionsFit
<1>3. UNCHANGED <<pc, ssid, token, greeting>>
  BY DEF CloseStep, CloseSessionRemove, CloseStatusRemove, CloseConnectionsRemove, logins, devices
<1>4. CASE CloseSessionRemove
  <2>1. /\ session' = [session EXCEPT ![conn_clients[ws.conn].ssid] = NoUser]
        /\ ws'.conn = ws.conn /\ UNCHANGED conn_clients
    BY <1>1, <1>4, SessionParts DEF CloseSessionRemove, TypeOK, maps
  <2>2. \A d \in Devices : ssid[d] # NoSsid => ssid[d] # conn_clients[ws.conn].ssid
    BY <1>1, SessionParts DEF SessionsHeld, AloneWith
  <2>3. HandlersFit'
    BY <1>3, <2>1, <2>2, SessionParts DEF HandlersFit, TypeOK
  <2>4. SessionsHeld'
    BY <1>3, <2>1, SessionParts DEF SessionsHeld, AloneWith
  <2>5. ClientsKnow'
    BY <2>1, SessionParts DEF ClientsKnow, Registered, TypeOK
  <2>6. ClosingRemoved'
    BY <1>2, <2>1, SessionParts DEF ClosingRemoved, TypeOK
  <2> QED
    BY <2>3, <2>4, <2>5, <2>6
<1>5. CASE CloseStatusRemove
  <2>1. /\ ws.step = "status_remove" /\ ws'.conn = ws.conn
        /\ UNCHANGED <<session, conn_clients>>
    BY <1>1, <1>5, SessionParts DEF CloseStatusRemove, TypeOK, maps
  <2> QED
    BY <1>3, <2>1, SessionParts
      DEF HandlersFit, SessionsHeld, AloneWith, ClientsKnow, Registered, ClosingRemoved
<1>6. CASE CloseConnectionsRemove
  <2>1. \A b \in Conns : conn_clients'[b] \in {conn_clients[b], NoClient}
    BY <1>6, SessionParts DEF CloseConnectionsRemove, Remove, TypeOK
  <2>2. UNCHANGED session /\ ws' = Idle
    BY <1>6 DEF CloseConnectionsRemove, redis
  <2>3. SessionsHeld'
    BY <1>3, <2>1, SessionParts DEF SessionsHeld, AloneWith, NoClient
  <2>4. ClientsKnow'
    BY <2>1, <2>2, SessionParts DEF ClientsKnow, Registered
  <2> QED
    BY <1>3, <2>2, <2>3, <2>4, SessionParts DEF HandlersFit, ClosingRemoved, Idle
<1> QED
  BY <1>4, <1>5, <1>6 DEF CloseStep

LEMMA KillSessions ==
  ASSUME SessionInv, UserServiceKilled \/ GatewayKilled
  PROVE  HandlersFit' /\ SessionsHeld' /\ ClientsKnow' /\ ClosingRemoved'
<1>1. CASE UserServiceKilled
  <2>1. UNCHANGED <<session, conn_clients, ws>>
    BY <1>1 DEF UserServiceKilled, redis, gateway, maps
  <2> QED
    BY <1>1, <2>1, SessionParts
      DEF UserServiceKilled, HandlersFit, SessionsHeld, ClientsKnow, ClosingRemoved, Registered
<1>2. CASE GatewayKilled
  <2>1. /\ UNCHANGED <<session, pc, ssid, token>> /\ ws' = Idle
        /\ \A c \in Conns : greeting'[c] = NoSsid /\ conn_clients'[c] = NoClient
    BY <1>2 DEF GatewayKilled, redis, logins
  <2> QED
    BY <2>1, SessionParts
      DEF HandlersFit, SessionsHeld, AloneWith, ClientsKnow, ClosingRemoved, Registered,
          NoClient, Idle
<1> QED
  BY <1>1, <1>2

LEMMA StepSessions ==
  SessionInv /\ [Next]_vars => HandlersFit' /\ SessionsHeld' /\ ClientsKnow' /\ ClosingRemoved'
<1> SUFFICES ASSUME SessionInv, [Next]_vars
             PROVE  HandlersFit' /\ SessionsHeld' /\ ClientsKnow' /\ ClosingRemoved'
  OBVIOUS
<1>1. CASE UNCHANGED <<session, pc, ssid, token, greeting, conn_clients, ws>>
  BY <1>1, SessionParts
    DEF HandlersFit, SessionsHeld, AloneWith, ClientsKnow, ClosingRemoved, Registered
<1>2. ASSUME NEW c \in CodeIds, GetPhoneVerifyCode(c) \/ CodeExpires(c)
      PROVE  UNCHANGED <<session, pc, ssid, token, greeting, conn_clients, ws>>
  BY <1>2 DEF GetPhoneVerifyCode, CodeExpires, logins, devices, gateway, maps
<1>3. UNCHANGED vars => UNCHANGED <<session, pc, ssid, token, greeting, conn_clients, ws>>
  BY DEF vars, redis, logins, devices, gateway, maps
<1> QED
  BY <1>1, <1>2, <1>3, EarlyStepSessions, AppendSessions, AnswerSessions, DeviceSessions,
     WebsocketSessions, CloseSessions, KillSessions DEF Next, LoginStep

LEMMA SessionInvHolds == Spec => []SessionInv
<1>1. Init => HandlersFit /\ SessionsHeld /\ ClientsKnow /\ ClosingRemoved
  BY DEF Init, HandlersFit, SessionsHeld, ClientsKnow, ClosingRemoved, Registered, Idle
<1> QED
  BY <1>1, ConnectionInvHolds, StepSessions, PTL DEF Spec, SessionInv

-----------------------------------------------------------------------------
(* A user with one connection at a time. *)

(* This user never had two connections. *)
Single(c) == Registered(c) /\ conn_clients[c].uid \notin overlapped

OneConnection ==
  \A b, c \in Conns : (Single(b) /\ conn_clients[b].uid = conn_clients[c].uid) => b = c

(* The session of a registered connection is there until its closing       *)
(* deletes it.                                                             *)
SessionThere ==
  \A c \in Conns :
    (Single(c) /\ (Closing(c) => ws.step = "session_remove"))
      => session[conn_clients[c].ssid] = conn_clients[c].uid

Reachable == \A c \in Conns : Single(c) => uid_connections[conn_clients[c].uid] = c

AloneInv == OneConnection /\ SessionThere /\ Reachable

LEMMA AloneKept ==
  ASSUME SessionInv, AloneInv, UNCHANGED <<maps, ws, overlapped>>,
         \A s \in Ssids : session[s] # NoUser => session'[s] = session[s]
  PROVE  AloneInv'
<1>1. UNCHANGED <<conn_clients, uid_connections>>
  BY DEF maps
<1>2. \A c \in Conns : Registered(c) => /\ conn_clients[c].ssid \in Ssids
                                        /\ conn_clients[c].uid # NoUser
  BY ClientFields, SessionParts, LoginAssumption
<1> QED
  BY <1>1, <1>2 DEF AloneInv, OneConnection, SessionThere, Reachable, Single, Registered, Closing

LEMMA MessageAlone ==
  ASSUME SessionInv, AloneInv, NEW c \in Conns, OnMessage(c)
  PROVE  AloneInv'
<1> DEFINE u == session[greeting[c]]
<1>1. greeting[c] \in Ssids /\ conn_clients[c] = NoClient
  BY SessionParts DEF ConnectionsFit, OnMessage, TypeOK
<1>2. u \in Users \cup {NoUser}
  BY <1>1, SessionParts DEF TypeOK
<1>3. UNCHANGED <<session, ws>> /\ ws = Idle
  BY DEF OnMessage, redis
<1>4. CASE u = NoUser
  <2>1. UNCHANGED <<maps, overlapped>>
    BY <1>4 DEF OnMessage
  <2> QED
    BY <1>3, <2>1, AloneKept
<1>5. CASE u # NoUser
  <2>1. /\ overlapped \subseteq overlapped'
        /\ u \in overlapped' \/ \A b \in Conns : conn_clients[b].uid # u
    BY <1>5 DEF OnMessage
  <2>2. Insert(c, u, greeting[c])
    BY <1>5 DEF OnMessage
  <2>3. /\ conn_clients'[c].uid = u /\ conn_clients'[c].ssid = greeting[c]
        /\ \A b \in Conns \ {c} : conn_clients'[b] = conn_clients[b]
    BY <1>1, <2>2, SessionParts DEF Insert, TypeOK
  <2>4. \A b \in Conns : Single(b)' => (b = c /\ u \notin overlapped') \/ (b # c /\ Single(b))
    BY <2>1, <2>3 DEF Single, Registered
  <2>5. OneConnection'
    BY <2>1, <2>3, <2>4 DEF AloneInv, OneConnection, Single
  <2>6. SessionThere'
    BY <1>3, <2>3, <2>4 DEF AloneInv, SessionThere, Closing
  <2>7. Reachable'
    <3>1. \A v \in Users \ {u} : uid_connections'[v] = uid_connections[v]
      BY <1>2, <1>5, <2>2, SessionParts DEF Insert, TypeOK
    <3>2. u \notin overlapped' => uid_connections'[u] = c
      <4>1. SUFFICES ASSUME u \notin overlapped' PROVE uid_connections'[u] = c
        OBVIOUS
      <4>2. uid_connections[u] = NoConn
        BY <1>2, <1>5, <2>1, <4>1 DEF SessionInv, ConnectionInv, FoundRegistered, TypeOK
      <4> QED
        BY <1>2, <1>5, <2>2, <4>2, SessionParts DEF Insert, TypeOK
    <3>3. ASSUME NEW b \in Conns, Single(b)'
          PROVE  uid_connections'[conn_clients'[b].uid] = b
      <4>1. CASE b = c
        BY <2>3, <2>4, <3>2, <3>3, <4>1
      <4>2. CASE b # c
        <5>1. Single(b) /\ conn_clients'[b] = conn_clients[b]
          BY <2>3, <2>4, <3>3, <4>2
        <5>2. conn_clients[b].uid \in Users
          BY <5>1, ClientFields, SessionParts DEF Single
        <5>3. conn_clients[b].uid # u
          BY <2>1, <3>3, <5>1 DEF Single
        <5> QED
          BY <3>1, <5>1, <5>2, <5>3 DEF AloneInv, Reachable
      <4> QED
        BY <4>1, <4>2
    <3> QED
      BY <3>3 DEF Reachable
  <2> QED
    BY <2>5, <2>6, <2>7 DEF AloneInv
<1> QED
  BY <1>4, <1>5

LEMMA CloseAlone ==
  ASSUME SessionInv, AloneInv, CloseStep
  PROVE  AloneInv'
<1>1. ws.conn \in Conns /\ ws # Idle
  BY ClosingFields, SessionParts DEF CloseStep, CloseSteps, CloseSessionRemove,
                                     CloseStatusRemove, CloseConnectionsRemove
<1>2. Registered(ws.conn) /\ conn_clients[ws.conn].ssid \in Ssids
  BY <1>1, ClientFields, SessionParts DEF ConnectionsFit
<1>3. UNCHANGED overlapped
  BY DEF CloseStep, CloseSessionRemove, CloseStatusRemove, CloseConnectionsRemove, history
<1>4. OneConnection /\ SessionThere /\ Reachable
  BY DEF AloneInv
<1>5. CASE CloseSessionRemove
  <2>1. /\ session' = [session EXCEPT ![conn_clients[ws.conn].ssid] = NoUser]
        /\ ws.step = "session_remove" /\ ws'.conn = ws.conn /\ ws'.step = "status_remove"
        /\ UNCHANGED <<uid_connections, conn_clients>>
    BY <1>1, <1>5, SessionParts DEF CloseSessionRemove, TypeOK, maps
  <2>2. \A c \in Conns \ {ws.conn} :
          Single(c) => conn_clients[c].ssid # conn_clients[ws.conn].ssid
    <3>1. SUFFICES ASSUME NEW c \in Conns \ {ws.conn}, Single(c),
                          conn_clients[c].ssid = conn_clients[ws.conn].ssid
                   PROVE  FALSE
      OBVIOUS
    <3>2. session[conn_clients[c].ssid] = conn_clients[c].uid
      BY <1>4, <3>1 DEF SessionThere, Closing
    <3>3. conn_clients[c].uid \in Users
      BY <3>1, ClientFields, SessionParts DEF Single
    <3>4. conn_clients[ws.conn].uid = conn_clients[c].uid
      BY <1>1, <1>2, <3>1, <3>2, <3>3, SessionParts, LoginAssumption DEF ClientsKnow
    <3> QED
      BY <1>1, <1>4, <3>1, <3>4 DEF OneConnection
  <2>3. SessionThere'
    BY <1>3, <1>4, <2>1, <2>2, ClientFields, SessionParts
      DEF SessionThere, Single, Registered, Closing, TypeOK
  <2> QED
    BY <1>3, <1>4, <2>1, <2>3 DEF AloneInv, OneConnection, Reachable, Single, Registered
<1>6. CASE CloseStatusRemove
  <2>1. /\ UNCHANGED <<session, uid_connections, conn_clients>>
        /\ ws.step = "status_remove" /\ ws'.conn = ws.conn /\ ws'.step = "connections_remove"
    BY <1>1, <1>6, SessionParts DEF CloseStatusRemove, TypeOK, maps
  <2> QED
    BY <1>3, <1>4, <2>1
      DEF AloneInv, OneConnection, SessionThere, Reachable, Single, Registered, Closing
<1>7. CASE CloseConnectionsRemove
  <2>1. /\ conn_clients'[ws.conn] = NoClient
        /\ \A c \in Conns \ {ws.conn} : conn_clients'[c] = conn_clients[c]
        /\ UNCHANGED session /\ ws' = Idle
    BY <1>1, <1>7, SessionParts DEF CloseConnectionsRemove, Remove, TypeOK, redis
  <2>2. \A u \in Users : \/ uid_connections'[u] = uid_connections[u]
                         \/ u = conn_clients[ws.conn].uid
    BY <1>7, SessionParts DEF CloseConnectionsRemove, Remove, TypeOK
  <2>3. \A c \in Conns : Single(c)' => c # ws.conn /\ Single(c)
    BY <1>3, <2>1 DEF Single, Registered
  <2>4. \A c \in Conns : Single(c) => conn_clients[c].uid # NoUser
    BY ClientFields, SessionParts, LoginAssumption DEF Single
  <2>5. OneConnection'
    BY <1>1, <1>4, <2>1, <2>3, <2>4, ClientFields, SessionParts DEF OneConnection
  <2>6. SessionThere'
    BY <1>4, <2>1, <2>3 DEF SessionThere, Closing
  <2>7. \A c \in Conns : Single(c)' => conn_clients[c].uid # conn_clients[ws.conn].uid
    BY <1>1, <1>4, <2>3 DEF OneConnection
  <2>8. \A c \in Conns : Single(c) => conn_clients[c].uid \in Users
    BY ClientFields, SessionParts DEF Single
  <2>9. Reachable'
    BY <1>4, <2>1, <2>2, <2>3, <2>7, <2>8 DEF Reachable
  <2> QED
    BY <2>5, <2>6, <2>9 DEF AloneInv
<1> QED
  BY <1>5, <1>6, <1>7 DEF CloseStep

LEMMA StepAlone == SessionInv /\ AloneInv /\ [Next]_vars => AloneInv'
<1> SUFFICES ASSUME SessionInv, AloneInv, [Next]_vars
             PROVE  AloneInv'
  OBVIOUS
<1>1. CASE UNCHANGED <<session, maps, ws, overlapped>>
  BY <1>1, AloneKept
<1>2. ASSUME NEW d \in Devices, SessionAppend(d) PROVE AloneInv'
  <2>1. \A s \in Ssids : session[s] # NoUser => session'[s] = session[s]
    BY <1>2, SessionParts DEF SessionAppend, Unused, TypeOK
  <2> QED
    BY <1>2, <2>1, AloneKept DEF SessionAppend, gateway, history
<1>3. ASSUME NEW c \in Conns, OnClose(c) PROVE AloneInv'
  <2>1. UNCHANGED <<session, maps, overlapped>> /\ ws' = [step |-> "session_remove", conn |-> c]
    BY <1>3 DEF OnClose, redis, history
  <2>2. ws = Idle
    BY <1>3 DEF OnClose
  <2>3. SessionThere'
    BY <2>1, <2>2, ClosingFields, SessionParts
      DEF AloneInv, SessionThere, Single, Registered, Closing, maps
  <2> QED
    BY <2>1, <2>3 DEF AloneInv, OneConnection, Reachable, Single, Registered, maps
<1>4. ASSUME GatewayKilled PROVE AloneInv'
  BY <1>4 DEF GatewayKilled, AloneInv, OneConnection, SessionThere, Reachable, Single, Registered
<1>5. \/ UNCHANGED <<session, maps, ws, overlapped>>
      \/ \E d \in Devices : SessionAppend(d)
      \/ \E c \in Conns : OnMessage(c) \/ OnClose(c)
      \/ CloseStep
      \/ GatewayKilled
  BY DEF Next, vars, WebsocketEvent, LoginStep, UserLogin, PhoneLogin, CodeGet, CodeRemove,
         StatusExists, StatusAppend, Connect, Disconnect, Forget, GetPhoneVerifyCode,
         CodeExpires, UserServiceKilled, OnCloseUnknown, redis, gateway, history
<1> QED
  BY <1>1, <1>2, <1>3, <1>4, <1>5, MessageAlone, CloseAlone

LEMMA AloneInvHolds == Spec => []AloneInv
<1>1. Init => AloneInv
  BY DEF Init, AloneInv, OneConnection, SessionThere, Reachable, Single, Registered
<1> QED
  BY <1>1, SessionInvHolds, StepAlone, PTL DEF Spec

(* Although insert replaces nothing and remove deletes what it did not     *)
(* enter: the connection found for a user is registered for that user,     *)
(* whatever connections come, go and overlap, and a registered connection  *)
(* is found, unless this user had two at once.                             *)
THEOREM ConnectionMapsAgree == Spec => []MapsAgree
<1>1. ConnectionInv /\ AloneInv => MapsAgree
  BY DEF ConnectionInv, FoundRegistered, AloneInv, Reachable, Single, MapsAgree
<1> QED
  BY <1>1, ConnectionInvHolds, AloneInvHolds, PTL

(* A registered connection that is not being closed has a valid session,   *)
(* unless this user had two at once.                                       *)
THEOREM ConnectedHasSession == Spec => []ConnectedIsLoggedIn
<1>1. AloneInv => ConnectedIsLoggedIn
  BY DEF AloneInv, SessionThere, Single, ConnectedIsLoggedIn
<1> QED
  BY <1>1, AloneInvHolds, PTL

-----------------------------------------------------------------------------
(* Marks and sessions in redis, for users without a race, an overlap or a  *)
(* kill between the two keys.  Such a user with a handler past the check   *)
(* has no mark yet and one such handler.                                   *)

Passing(d) == /\ pc[d] \in {"session_append", "status_append"}
              /\ UserOf[d] \notin Disturbed
Holder(s) == \E d \in Devices : pc[d] = "status_append" /\ ssid[d] = s
Live(s) == session[s] \in Users \ Disturbed
Steady(c) == Registered(c) /\ conn_clients[c].uid \notin Disturbed

OnePassing ==
  \A d, e \in Devices : (Passing(d) /\ Passing(e) /\ UserOf[d] = UserOf[e]) => d = e
PassingUnmarked == \A d \in Devices : Passing(d) => UserOf[d] \notin status
SessionMarked == \A s \in Ssids : Live(s) => session[s] \in status \/ Holder(s)
OneSession == \A s, t \in Ssids : (Live(s) /\ session[s] = session[t]) => s = t
RegisteredMarked ==
  \A c \in Conns :
    (Steady(c) /\ (Closing(c) => ws.step # "connections_remove"))
      => conn_clients[c].uid \in status
MarkGoesLast ==
  (ws.step = "status_remove" /\ Steady(ws.conn))
    => \A s \in Ssids : session[s] # conn_clients[ws.conn].uid

MarkInv == /\ OnePassing /\ PassingUnmarked /\ SessionMarked
           /\ OneSession /\ RegisteredMarked /\ MarkGoesLast

(* Steps that leave the marks, and who is past the check, alone.  A user   *)
(* once disturbed remains so.                                              *)
LEMMA MarksKept ==
  ASSUME MarkInv, UNCHANGED <<session, status, conn_clients, ws>>,
         Disturbed \subseteq Disturbed',
         \A d \in Devices : Passing(d)' => Passing(d),
         \A s : Live(s)' /\ Holder(s) => Holder(s)'
  PROVE  MarkInv'
<1>1. \A s : Live(s)' => Live(s)
  BY DEF Live
<1>2. \A c : Steady(c)' => Steady(c)
  BY DEF Steady, Registered
<1>3. OnePassing' /\ PassingUnmarked'
  BY DEF MarkInv, OnePassing, PassingUnmarked
<1>4. SessionMarked' /\ OneSession'
  BY <1>1 DEF MarkInv, SessionMarked, OneSession
<1>5. RegisteredMarked' /\ MarkGoesLast'
  BY <1>2 DEF MarkInv, RegisteredMarked, MarkGoesLast, Closing
<1> QED
  BY <1>3, <1>4, <1>5 DEF MarkInv

LEMMA DisturbedGrows ==
  ASSUME [Next]_vars
  PROVE  Disturbed \subseteq Disturbed'
BY DEF Disturbed, Next, vars, LoginStep, UserLogin, PhoneLogin, CodeGet, CodeRemove, StatusExists,
       SessionAppend, StatusAppend, Connect, Disconnect, Forget, WebsocketEvent,
       OnMessage, OnCloseUnknown, OnClose, CloseStep, CloseSessionRemove,
       CloseStatusRemove, CloseConnectionsRemove, GetPhoneVerifyCode, CodeExpires,
       UserServiceKilled, GatewayKilled, history

LEMMA LoginMarks ==
  ASSUME SessionInv, MarkInv, Disturbed \subseteq Disturbed', NEW d \in Devices,
         UserLogin(d) \/ PhoneLogin(d) \/ CodeGet(d) \/ CodeRemove(d) \/ StatusExists(d)
  PROVE  MarkInv'
<1>1. UNCHANGED <<session, status, conn_clients, ws>>
  BY DEF UserLogin, PhoneLogin, CodeGet, CodeRemove, StatusExists, redis, gateway, maps
<1>2. \A e \in Devices : /\ ssid'[e] = ssid[e]
                         /\ pc'[e] = "status_append" <=> pc[e] = "status_append"
  BY SessionParts DEF UserLogin, PhoneLogin, CodeGet, CodeRemove, StatusExists,
                      Continue, Return, TypeOK, HandlersFit
<1>3. \A s : Holder(s) => Holder(s)'
  BY <1>2 DEF Holder
<1>4. CASE \A e \in Devices : Passing(e)' => Passing(e)
  BY <1>1, <1>3, <1>4, MarksKept
<1>5. CASE /\ UserOf[d] \notin status
           /\ Passed(UserOf[d]) = {} \/ UserOf[d] \in Disturbed'
           /\ \A e \in Devices \ {d} : Passing(e)' => Passing(e)
  <2>1. \A e \in Devices \ {d} : (Passing(d)' /\ Passing(e)') => UserOf[e] # UserOf[d]
    BY <1>5 DEF Passed, Passing
  <2>2. OnePassing' /\ PassingUnmarked'
    BY <1>1, <1>5, <2>1 DEF MarkInv, OnePassing, PassingUnmarked
  <2>3. \A s : Live(s)' => Live(s)
    BY <1>1 DEF Live
  <2>4. SessionMarked' /\ OneSession'
    BY <1>1, <1>3, <2>3 DEF MarkInv, SessionMarked, OneSession
  <2>5. \A c : Steady(c)' => Steady(c)
    BY <1>1 DEF Steady, Registered
  <2>6. RegisteredMarked' /\ MarkGoesLast'
    BY <1>1, <2>5 DEF MarkInv, RegisteredMarked, MarkGoesLast, Closing
  <2> QED
    BY <2>2, <2>4, <2>6 DEF MarkInv
<1>6. \/ \A e \in Devices : Passing(e)' => Passing(e)
      \/ /\ UserOf[d] \notin status
         /\ Passed(UserOf[d]) = {} \/ UserOf[d] \in Disturbed'
         /\ \A e \in Devices \ {d} : Passing(e)' => Passing(e)
  <2>1. CASE StatusExists(d)
    <3>1. CASE UserOf[d] \in status
      BY <2>1, <3>1, SessionParts DEF StatusExists, Return, Passing, TypeOK
    <3>2. CASE UserOf[d] \notin status
      <4>1. Passed(UserOf[d]) = {} \/ UserOf[d] \in Disturbed'
        BY <2>1, <3>2 DEF StatusExists, Disturbed
      <4>2. \A e \in Devices \ {d} : Passing(e)' => Passing(e)
        BY <2>1, <3>2, SessionParts DEF StatusExists, Continue, Passing, TypeOK
      <4> QED
        BY <3>2, <4>1, <4>2
    <3> QED
      BY <3>1, <3>2
  <2>2. CASE UserLogin(d) \/ PhoneLogin(d) \/ CodeGet(d) \/ CodeRemove(d)
    BY <2>2, SessionParts DEF UserLogin, PhoneLogin, CodeGet, CodeRemove,
                              Continue, Return, Passing, TypeOK
  <2> QED
    BY <2>1, <2>2
<1> QED
  BY <1>4, <1>5, <1>6

LEMMA AppendMarks ==
  ASSUME SessionInv, MarkInv, NEW d \in Devices, SessionAppend(d)
  PROVE  MarkInv'
<1> DEFINE u == UserOf[d]
<1>1. PICK s \in Ssids : /\ Unused(s)
                         /\ session' = [session EXCEPT ![s] = u]
                         /\ ssid' = [ssid EXCEPT ![d] = s]
  BY DEF SessionAppend
<1>2. /\ pc[d] = "session_append" /\ pc' = [pc EXCEPT ![d] = "status_append"]
      /\ UNCHANGED <<status, conn_clients, ws, Disturbed>>
  BY DEF SessionAppend, gateway, maps, history, Disturbed
<1>3. u \in Users /\ (u \notin Disturbed => Passing(d) /\ u \notin status)
  BY <1>2, LoginAssumption DEF MarkInv, PassingUnmarked, Passing
<1>4. u \notin Disturbed => \A t \in Ssids : session[t] # u
  <2>1. SUFFICES ASSUME u \notin Disturbed, NEW t \in Ssids, session[t] = u PROVE FALSE
    OBVIOUS
  <2>2. PICK e \in Devices : pc[e] = "status_append" /\ ssid[e] = t
    BY <1>3, <2>1 DEF MarkInv, SessionMarked, Live, Holder
  <2>3. UserOf[e] = u
    BY <2>1, <2>2, SessionParts DEF HandlersFit
  <2> QED
    BY <1>2, <1>3, <2>1, <2>2, <2>3 DEF MarkInv, OnePassing, Passing
<1>5. \A e \in Devices : Passing(e)' <=> Passing(e)
  BY <1>2, SessionParts DEF Passing, TypeOK
<1>6. OnePassing' /\ PassingUnmarked'
  BY <1>2, <1>5 DEF MarkInv, OnePassing, PassingUnmarked
<1>7. \A t \in Ssids : /\ t # s => session'[t] = session[t] /\ (Live(t)' <=> Live(t))
                       /\ t = s => session'[t] = u
  BY <1>1, <1>2, SessionParts DEF Live, TypeOK
<1>8. SessionMarked'
  <2>1. Holder(s)'
    BY <1>1, <1>2, SessionParts DEF Holder, TypeOK
  <2>2. \A t \in Ssids : Holder(t) => Holder(t)'
    BY <1>1, <1>2, SessionParts DEF Holder, TypeOK
  <2> QED
    BY <1>2, <1>7, <2>1, <2>2 DEF MarkInv, SessionMarked
<1>9. OneSession'
  <2>1. Live(s)' => u \notin Disturbed
    BY <1>2, <1>7 DEF Live
  <2>2. SUFFICES ASSUME NEW a \in Ssids, NEW b \in Ssids, Live(a)', session'[a] = session'[b]
                 PROVE  a = b
    BY DEF OneSession
  <2>3. CASE a = s \/ b = s
    <3>1. u \notin Disturbed
      BY <1>2, <1>7, <2>2, <2>3 DEF Live
    <3> QED
      BY <1>4, <1>7, <2>2, <2>3, <3>1
  <2>4. CASE a # s /\ b # s
    BY <1>7, <2>2, <2>4 DEF MarkInv, OneSession
  <2> QED
    BY <2>3, <2>4
<1>10. \A c : Steady(c)' <=> Steady(c)
  BY <1>2 DEF Steady, Registered
<1>11. RegisteredMarked'
  BY <1>2, <1>10 DEF MarkInv, RegisteredMarked, Closing
<1>12. MarkGoesLast'
  <2>1. SUFFICES ASSUME ws.step = "status_remove", Steady(ws.conn)
                 PROVE  \A t \in Ssids : session'[t] # conn_clients[ws.conn].uid
    BY <1>2, <1>10 DEF MarkGoesLast
  <2>2. ws.conn \in Conns
    BY <2>1, ClosingFields, SessionParts DEF CloseSteps
  <2>3. conn_clients[ws.conn].uid \in status \ Disturbed
    BY <2>1, <2>2 DEF MarkInv, RegisteredMarked, Steady
  <2>4. conn_clients[ws.conn].uid # u
    BY <1>3, <2>3
  <2> QED
    BY <1>7, <2>1, <2>4 DEF MarkInv, MarkGoesLast
<1> QED
  BY <1>6, <1>8, <1>9, <1>11, <1>12 DEF MarkInv

LEMMA AnswerMarks ==
  ASSUME SessionInv, MarkInv, NEW d \in Devices, StatusAppend(d)
  PROVE  MarkInv'
<1>1. /\ pc[d] = "status_append" /\ pc' = [pc EXCEPT ![d] = "idle"]
      /\ ssid' = [ssid EXCEPT ![d] = NoSsid] /\ status' = status \cup {UserOf[d]}
      /\ UNCHANGED <<session, conn_clients, ws, Disturbed>>
  BY DEF StatusAppend, Return, gateway, maps, Disturbed
<1>2. \A e \in Devices : Passing(e)' => Passing(e) /\ e # d
  BY <1>1, SessionParts DEF Passing, TypeOK
<1>3. OnePassing' /\ PassingUnmarked'
  BY <1>1, <1>2 DEF MarkInv, OnePassing, PassingUnmarked, Passing
<1>4. \A s : Live(s)' <=> Live(s)
  BY <1>1 DEF Live
<1>5. SessionMarked' /\ OneSession'
  <2>1. session[ssid[d]] = UserOf[d]
    BY <1>1, SessionParts DEF HandlersFit
  <2>2. \A s \in Ssids : Holder(s) => s = ssid[d] \/ Holder(s)'
    BY <1>1, SessionParts DEF Holder, TypeOK
  <2> QED
    BY <1>1, <1>4, <2>1, <2>2 DEF MarkInv, SessionMarked, OneSession
<1>6. \A c : Steady(c)' <=> Steady(c)
  BY <1>1 DEF Steady, Registered
<1>7. RegisteredMarked' /\ MarkGoesLast'
  BY <1>1, <1>6 DEF MarkInv, RegisteredMarked, MarkGoesLast, Closing
<1> QED
  BY <1>3, <1>5, <1>7 DEF MarkInv

(* A connection is registered or begins to be closed. *)
LEMMA EventMarks ==
  ASSUME SessionInv, MarkInv, Disturbed \subseteq Disturbed', NEW c \in Conns,
         OnMessage(c) \/ OnClose(c)
  PROVE  MarkInv'
<1>1. UNCHANGED <<session, status, pc, ssid>>
  BY DEF OnMessage, OnClose, redis, logins
<1>2. /\ \A d : Passing(d)' => Passing(d)
      /\ \A s : (Live(s)' => Live(s)) /\ (Holder(s)' <=> Holder(s))
  BY <1>1 DEF Passing, Live, Holder
<1>3. OnePassing' /\ PassingUnmarked' /\ SessionMarked' /\ OneSession'
  BY <1>1, <1>2 DEF MarkInv, OnePassing, PassingUnmarked, SessionMarked, OneSession
<1>4. CASE OnMessage(c)
  <2>1. greeting[c] \in Ssids
    BY <1>4, SessionParts DEF OnMessage, TypeOK
  <2>2. ~Holder(greeting[c])
    BY <2>1, SessionParts, LoginAssumption DEF Holder, SessionsHeld, AloneWith
  <2>3. Live(greeting[c]) => session[greeting[c]] \in status
    BY <2>1, <2>2 DEF MarkInv, SessionMarked
  <2>4. \A b \in Conns : \/ conn_clients'[b] = conn_clients[b]
                         \/ /\ conn_clients'[b].uid = session[greeting[c]]
                            /\ session[greeting[c]] \in Users
    BY <1>4, <2>1, SessionParts DEF OnMessage, Insert, TypeOK, maps
  <2>5. ws' = ws /\ ws = Idle
    BY <1>4 DEF OnMessage
  <2>6. RegisteredMarked'
    <3>1. SUFFICES ASSUME NEW b \in Conns, Steady(b)' PROVE conn_clients'[b].uid \in status
      BY <1>1 DEF RegisteredMarked
    <3>2. CASE conn_clients'[b] = conn_clients[b]
      BY <2>5, <3>1, <3>2 DEF MarkInv, RegisteredMarked, Steady, Registered, Closing, Idle
    <3>3. CASE /\ conn_clients'[b].uid = session[greeting[c]]
               /\ session[greeting[c]] \in Users
      BY <2>3, <3>1, <3>3 DEF Steady, Live
    <3> QED
      BY <2>4, <3>2, <3>3
  <2>7. MarkGoesLast'
    BY <2>5 DEF MarkGoesLast, Idle
  <2> QED
    BY <1>3, <2>6, <2>7 DEF MarkInv
<1>5. CASE OnClose(c)
  <2>1. UNCHANGED conn_clients /\ ws = Idle /\ ws' = [step |-> "session_remove", conn |-> c]
    BY <1>5 DEF OnClose, maps
  <2>2. \A b : Steady(b)' => Steady(b)
    BY <2>1 DEF Steady, Registered
  <2>3. RegisteredMarked'
    BY <1>1, <2>1, <2>2, ClosingFields, SessionParts DEF MarkInv, RegisteredMarked, Closing
  <2>4. MarkGoesLast'
    BY <2>1 DEF MarkGoesLast
  <2> QED
    BY <1>3, <2>3, <2>4 DEF MarkInv
<1> QED
  BY <1>4, <1>5

LEMMA CloseMarks ==
  ASSUME SessionInv, MarkInv, AloneInv, CloseStep
  PROVE  MarkInv'
<1> DEFINE u == conn_clients[ws.conn].uid
<1>1. ws.conn \in Conns /\ ws # Idle
  BY ClosingFields, SessionParts DEF CloseStep, CloseSteps, CloseSessionRemove,
                                     CloseStatusRemove, CloseConnectionsRemove
<1>2. Registered(ws.conn) /\ conn_clients[ws.conn].ssid \in Ssids /\ u \in Users
  BY <1>1, ClientFields, SessionParts DEF ConnectionsFit
<1>3. UNCHANGED <<pc, ssid, Disturbed>>
  BY DEF CloseStep, CloseSessionRemove, CloseStatusRemove, CloseConnectionsRemove, logins,
         history, Disturbed
<1>4. /\ \A d : Passing(d)' <=> Passing(d)
      /\ \A s : Holder(s)' <=> Holder(s)
  BY <1>3 DEF Passing, Holder
<1>5. CASE CloseSessionRemove
  <2>1. /\ session' = [session EXCEPT ![conn_clients[ws.conn].ssid] = NoUser]
        /\ ws.step = "session_remove" /\ ws'.conn = ws.conn /\ ws'.step = "status_remove"
        /\ UNCHANGED <<status, conn_clients>>
    BY <1>1, <1>5, SessionParts DEF CloseSessionRemove, TypeOK, maps
  <2>2. \A s \in Ssids : Live(s)' => Live(s) /\ session'[s] = session[s]
    BY <1>2, <1>3, <2>1, SessionParts, LoginAssumption DEF Live, TypeOK
  <2>3. \A s, t \in Ssids : (Live(s)' /\ session'[s] = session'[t]) => session[s] = session[t]
    BY <1>2, <2>1, <2>2, SessionParts, LoginAssumption DEF Live, TypeOK
  <2>4. MarkGoesLast'
    <3>1. SUFFICES ASSUME u \notin Disturbed, NEW s \in Ssids, session'[s] = u PROVE FALSE
      BY <1>3, <2>1 DEF MarkGoesLast, Steady, Registered
    <3>2. session[conn_clients[ws.conn].ssid] = u
      BY <1>1, <1>2, <2>1, <3>1 DEF AloneInv, SessionThere, Single, Disturbed
    <3>3. session[s] = u /\ s # conn_clients[ws.conn].ssid
      BY <1>2, <2>1, <3>1, SessionParts, LoginAssumption DEF TypeOK
    <3> QED
      BY <1>2, <3>1, <3>2, <3>3 DEF MarkInv, OneSession, Live
  <2>5. SessionMarked' /\ OneSession'
    BY <1>4, <2>1, <2>2, <2>3 DEF MarkInv, SessionMarked, OneSession
  <2>6. OnePassing' /\ PassingUnmarked'
    BY <1>4, <2>1 DEF MarkInv, OnePassing, PassingUnmarked
  <2>7. RegisteredMarked'
    BY <1>3, <2>1 DEF MarkInv, RegisteredMarked, Steady, Registered, Closing
  <2> QED
    BY <2>4, <2>5, <2>6, <2>7 DEF MarkInv
<1>6. CASE CloseStatusRemove
  <2>1. /\ status' = status \ {u} /\ UNCHANGED <<session, conn_clients>>
        /\ ws.step = "status_remove" /\ ws'.conn = ws.conn /\ ws'.step = "connections_remove"
    BY <1>1, <1>6, SessionParts DEF CloseStatusRemove, TypeOK, maps
  <2>2. u \notin Disturbed => \A s \in Ssids : session[s] # u
    BY <1>2, <2>1 DEF MarkInv, MarkGoesLast, Steady
  <2>3. SessionMarked' /\ OneSession'
    BY <1>3, <1>4, <2>1, <2>2 DEF MarkInv, SessionMarked, OneSession, Live
  <2>4. OnePassing' /\ PassingUnmarked'
    BY <1>4, <2>1 DEF MarkInv, OnePassing, PassingUnmarked
  <2>5. \A c \in Conns \ {ws.conn} : Steady(c) => conn_clients[c].uid # u
    BY <1>1 DEF AloneInv, OneConnection, Single, Steady, Disturbed
  <2>6. RegisteredMarked'
    BY <1>3, <2>1, <2>5 DEF MarkInv, RegisteredMarked, Steady, Registered, Closing
  <2> QED
    BY <2>1, <2>3, <2>4, <2>6 DEF MarkInv, MarkGoesLast
<1>7. CASE CloseConnectionsRemove
  <2>1. /\ conn_clients'[ws.conn] = NoClient
        /\ \A c \in Conns \ {ws.conn} : conn_clients'[c] = conn_clients[c]
        /\ UNCHANGED <<session, status>> /\ ws' = Idle
    BY <1>1, <1>7, SessionParts DEF CloseConnectionsRemove, Remove, TypeOK, redis
  <2>2. RegisteredMarked'
    BY <1>3, <2>1 DEF MarkInv, RegisteredMarked, Steady, Registered, Closing
  <2>3. OnePassing' /\ PassingUnmarked' /\ SessionMarked' /\ OneSession'
    BY <1>3, <1>4, <2>1 DEF MarkInv, OnePassing, PassingUnmarked, SessionMarked, OneSession, Live
  <2> QED
    BY <2>1, <2>2, <2>3 DEF MarkInv, MarkGoesLast, Idle
<1> QED
  BY <1>5, <1>6, <1>7 DEF CloseStep

(* The login of a user is ended between its two keys; or all connections   *)
(* are gone, which leaves sessions and marks as they are.                  *)
LEMMA KillMarks ==
  ASSUME SessionInv, MarkInv, Disturbed \subseteq Disturbed', UserServiceKilled \/ GatewayKilled
  PROVE  MarkInv'
<1>1. CASE UserServiceKilled
  <2>1. /\ UNCHANGED <<session, status, conn_clients, ws>>
        /\ pc' = [d \in Devices |-> "idle"]
        /\ \A d \in Devices : pc[d] = "status_append" => UserOf[d] \in Disturbed'
    BY <1>1 DEF UserServiceKilled, redis, gateway, maps, Disturbed
  <2>2. \A d \in Devices : ~Passing(d)'
    BY <2>1 DEF Passing
  <2>3. \A s : Holder(s) => ~Live(s)'
    BY <2>1, SessionParts DEF Holder, Live, HandlersFit
  <2> QED
    BY <2>1, <2>2, <2>3, MarksKept
<1>2. CASE GatewayKilled
  <2>1. /\ UNCHANGED <<session, status, pc, ssid, Disturbed>> /\ ws' = Idle
        /\ \A c \in Conns : conn_clients'[c] = NoClient
    BY <1>2 DEF GatewayKilled, redis, logins, Disturbed
  <2>2. RegisteredMarked' /\ MarkGoesLast'
    BY <2>1 DEF RegisteredMarked, MarkGoesLast, Steady, Registered, Idle
  <2>3. OnePassing' /\ PassingUnmarked' /\ SessionMarked' /\ OneSession'
    BY <2>1 DEF MarkInv, OnePassing, PassingUnmarked, Passing, SessionMarked, OneSession, Live,
                Holder
  <2> QED
    BY <2>2, <2>3 DEF MarkInv
<1> QED
  BY <1>1, <1>2

LEMMA StepMarks == SessionInv /\ AloneInv /\ MarkInv /\ [Next]_vars => MarkInv'
<1> SUFFICES ASSUME SessionInv, AloneInv, MarkInv, [Next]_vars PROVE MarkInv'
  OBVIOUS
<1>1. Disturbed \subseteq Disturbed'
  BY DisturbedGrows
<1>2. CASE UNCHANGED <<session, status, pc, ssid, conn_clients, ws>>
  BY <1>1, <1>2, MarksKept DEF Passing, Holder
<1>3. \/ UNCHANGED <<session, status, pc, ssid, conn_clients, ws>>
      \/ \E d \in Devices : \/ UserLogin(d) \/ PhoneLogin(d) \/ CodeGet(d) \/ CodeRemove(d)
                            \/ StatusExists(d) \/ SessionAppend(d) \/ StatusAppend(d)
      \/ \E c \in Conns : OnMessage(c) \/ OnClose(c)
      \/ CloseStep \/ UserServiceKilled \/ GatewayKilled
  BY DEF Next, vars, LoginStep, Connect, Disconnect, Forget, WebsocketEvent, OnCloseUnknown,
         GetPhoneVerifyCode, CodeExpires, redis, logins, gateway, maps
<1> QED
  BY <1>1, <1>2, <1>3, LoginMarks, AppendMarks, AnswerMarks, EventMarks, CloseMarks, KillMarks

LEMMA MarkInvHolds == Spec => []MarkInv
<1>1. Init => MarkInv
  BY LoginAssumption
    DEF Init, MarkInv, OnePassing, PassingUnmarked, Passing, SessionMarked, OneSession, Live,
        RegisteredMarked, Steady, Registered, MarkGoesLast, Idle
<1> QED
  BY <1>1, SessionInvHolds, AloneInvHolds, StepMarks, PTL DEF Spec

(* A user has at most one session, if no two logins of this user raced,    *)
(* none was killed between its keys and no two connections overlapped.     *)
THEOREM LoggedInOnce == Spec => []OneSessionPerUser
<1>1. MarkInv => OneSessionPerUser
  BY DEF MarkInv, OneSession, Live, OneSessionPerUser
<1> QED
  BY <1>1, MarkInvHolds, PTL

(* Under the same condition, a session has its mark but for the moment in  *)
(* which its handler is between the two keys.                              *)
THEOREM SessionHasMark == Spec => []MarkTellsLogin
<1>1. MarkInv => MarkTellsLogin
  BY DEF MarkInv, SessionMarked, Live, Holder, MarkTellsLogin
<1> QED
  BY <1>1, MarkInvHolds, PTL

-----------------------------------------------------------------------------
(* Who will delete a mark: the argument follows a session from its handler *)
(* to the device and on to the connection, whose closing deletes the mark. *)

TokenFree == \A d \in Devices : pc[d] # "idle" => token[d] = NoSsid

DeviceOwns(u) == \E d \in Devices : token[d] # NoSsid /\ session[token[d]] = u
ConnectionOwns(u) ==
  \E c \in Conns : /\ conn_clients[c].uid = u
                   /\ ws.step = "connections_remove" => ws.conn # c
Owned(u) == DeviceOwns(u) \/ ConnectionOwns(u)

OwnerInv == \A u \in status \ bereft : Owned(u)

LEMMA StepTokens == TypeOK /\ TokenFree /\ [Next]_vars => TokenFree'
BY DEF TypeOK, TokenFree, Next, vars, LoginStep, UserLogin, PhoneLogin, CodeGet, CodeRemove,
       StatusExists, SessionAppend, StatusAppend, Return, Continue, Connect, Disconnect, Forget,
       WebsocketEvent, OnMessage, OnCloseUnknown, OnClose, CloseStep, CloseSessionRemove,
       CloseStatusRemove, CloseConnectionsRemove, GetPhoneVerifyCode, CodeExpires,
       UserServiceKilled, GatewayKilled, redis, logins, devices, gateway

(* What a device holds is a session of its user, or one deleted since. *)
DevicesFit == \A d \in Devices : token[d] # NoSsid => session[token[d]] \in {UserOf[d], NoUser}

LEMMA StepDevicesFit == SessionInv /\ DevicesFit /\ [Next]_vars => DevicesFit'
<1> SUFFICES ASSUME SessionInv, DevicesFit, [Next]_vars PROVE DevicesFit'
  OBVIOUS
<1>1. ASSUME NEW d \in Devices, SessionAppend(d) PROVE DevicesFit'
  BY <1>1, SessionParts DEF SessionAppend, Unused, DevicesFit, TypeOK, devices
<1>2. ASSUME NEW d \in Devices, StatusAppend(d) PROVE DevicesFit'
  BY <1>2, SessionParts DEF StatusAppend, HandlersFit, DevicesFit, TypeOK
<1>3. CASE CloseSessionRemove
  BY <1>3, SessionParts DEF CloseSessionRemove, DevicesFit, TypeOK, devices
<1>4. CASE UNCHANGED session /\ \A d \in Devices : token'[d] \in {token[d], NoSsid}
  BY <1>4 DEF DevicesFit
<1>5. ASSUME NEW d \in Devices,
             \/ UserLogin(d) \/ PhoneLogin(d) \/ CodeGet(d) \/ CodeRemove(d) \/ StatusExists(d)
             \/ Connect(d) \/ Disconnect(d) \/ Forget(d)
      PROVE  UNCHANGED session /\ \A e \in Devices : token'[e] \in {token[e], NoSsid}
  BY <1>5, SessionParts DEF UserLogin, PhoneLogin, CodeGet, CodeRemove, StatusExists, Connect,
                            Disconnect, Forget, TypeOK, redis, devices
<1>6. ASSUME NEW c \in Conns, WebsocketEvent(c)
      PROVE  UNCHANGED <<session, token>>
  BY <1>6 DEF WebsocketEvent, OnMessage, OnCloseUnknown, OnClose, redis, devices
<1>7. ASSUME NEW c \in CodeIds, GetPhoneVerifyCode(c) \/ CodeExpires(c)
      PROVE  UNCHANGED <<session, token>>
  BY <1>7 DEF GetPhoneVerifyCode, CodeExpires, devices
<1>8. CloseStatusRemove \/ CloseConnectionsRemove \/ UserServiceKilled \/ GatewayKilled
      \/ UNCHANGED vars => UNCHANGED <<session, token>>
  BY DEF CloseStatusRemove, CloseConnectionsRemove, UserServiceKilled, GatewayKilled, vars,
         redis, devices
<1>9. UNCHANGED <<session, token>> => DevicesFit'
  BY DEF DevicesFit
<1> QED
  BY <1>1, <1>2, <1>3, <1>4, <1>5, <1>6, <1>7, <1>8, <1>9 DEF Next, LoginStep, CloseStep

LEMMA LoginOwners ==
  ASSUME SessionInv, TokenFree, OwnerInv, NEW d \in Devices,
         UserLogin(d) \/ PhoneLogin(d) \/ LoginStep(d)
  PROVE  OwnerInv'
<1>1. UNCHANGED <<conn_clients, ws>>
  BY DEF UserLogin, PhoneLogin, LoginStep, CodeGet, CodeRemove, StatusExists, SessionAppend,
         StatusAppend, gateway, maps
<1>2. \A u \in Users : ConnectionOwns(u) => ConnectionOwns(u)'
  BY <1>1 DEF ConnectionOwns
<1>3. bereft \subseteq bereft' /\ status \subseteq Users
  BY SessionParts
    DEF UserLogin, PhoneLogin, LoginStep, CodeGet, CodeRemove, StatusExists, SessionAppend,
        StatusAppend, TypeOK, history
<1>4. \A u \in status \ bereft : u \in Users /\ Owned(u)
  BY <1>3 DEF OwnerInv
<1>5. CASE StatusAppend(d)
  <2>1. /\ pc[d] = "status_append" /\ status' = status \cup {UserOf[d]}
        /\ pc' = [pc EXCEPT ![d] = "idle"] /\ UNCHANGED session
        /\ \/ token' = [token EXCEPT ![d] = ssid[d]]
           \/ UNCHANGED token /\ UserOf[d] \in bereft'
    BY <1>5 DEF StatusAppend, Return
  <2>2. token[d] = NoSsid
    BY <2>1 DEF TokenFree
  <2>3. \A u \in Users : DeviceOwns(u) => DeviceOwns(u)'
    BY <2>1, <2>2, SessionParts DEF DeviceOwns, TypeOK
  <2>4. UserOf[d] \in bereft' \/ DeviceOwns(UserOf[d])'
    BY <2>1, SessionParts DEF DeviceOwns, HandlersFit, TypeOK
  <2> QED
    BY <1>2, <1>3, <1>4, <2>1, <2>3, <2>4 DEF Owned, OwnerInv
<1>6. CASE ~StatusAppend(d)
  <2>1. UNCHANGED <<status, token>>
    BY <1>6 DEF UserLogin, PhoneLogin, LoginStep, CodeGet, CodeRemove, StatusExists,
                SessionAppend, redis, devices
  <2>2. \A e \in Devices : token[e] # NoSsid => session'[token[e]] = session[token[e]]
    BY <1>6, SessionParts
      DEF UserLogin, PhoneLogin, LoginStep, CodeGet, CodeRemove, StatusExists,
          SessionAppend, Unused, TypeOK, redis
  <2>3. \A u \in Users : DeviceOwns(u) => DeviceOwns(u)'
    BY <2>1, <2>2 DEF DeviceOwns
  <2> QED
    BY <1>2, <1>3, <1>4, <2>1, <2>3 DEF Owned, OwnerInv
<1> QED
  BY <1>5, <1>6

(* A session a device forgets is that of a connection, unless it is lost.  *)
LEMMA DeviceOwners ==
  ASSUME SessionInv, DevicesFit, OwnerInv, NEW d \in Devices,
         Connect(d) \/ Disconnect(d) \/ Forget(d)
  PROVE  OwnerInv'
<1>1. UNCHANGED <<session, status, pc, conn_clients, ws>>
  BY DEF Connect, Disconnect, Forget, redis, logins, gateway, maps
<1>2. bereft \subseteq bereft' /\ status \subseteq Users
  BY SessionParts DEF Connect, Disconnect, Forget, TypeOK, history
<1>3. \A u \in status \ bereft : u \in Users /\ Owned(u)
  BY <1>2 DEF OwnerInv
<1>4. \A u \in Users : ConnectionOwns(u) => ConnectionOwns(u)'
  BY <1>1 DEF ConnectionOwns
<1>5. \A u \in Users \ bereft' : DeviceOwns(u) => DeviceOwns(u)' \/ ConnectionOwns(u)'
  <2>1. CASE Connect(d) \/ Disconnect(d)
    <3>1. UNCHANGED token
      BY <2>1 DEF Connect, Disconnect
    <3> QED
      BY <1>1, <3>1 DEF DeviceOwns
  <2>2. CASE Forget(d)
    <3>1. SUFFICES ASSUME NEW u \in Users \ bereft', NEW e \in Devices,
                          token[e] # NoSsid, session[token[e]] = u
                   PROVE  DeviceOwns(u)' \/ ConnectionOwns(u)'
      BY DEF DeviceOwns
    <3>2. CASE e # d
      BY <1>1, <2>2, <3>1, <3>2, SessionParts DEF Forget, DeviceOwns, TypeOK
    <3>3. CASE e = d
      <4>0. u = UserOf[d]
        BY <3>1, <3>3, LoginAssumption DEF DevicesFit
      <4>1. PICK c \in Conns : conn_clients[c].ssid = token[d]
        BY <2>2, <3>1, <3>3, <4>0, LoginAssumption, SessionParts DEF Forget, TypeOK
      <4>2. Registered(c) /\ conn_clients[c].uid = u
        BY <3>1, <3>3, <4>1, ClientFields, SessionParts, LoginAssumption
          DEF ClientsKnow, TypeOK
      <4>3. ws.step = "connections_remove" => ws.conn # c
        BY <3>1, <3>3, <4>1, SessionParts, LoginAssumption DEF ClosingRemoved
      <4> QED
        BY <1>1, <4>2, <4>3 DEF ConnectionOwns
    <3> QED
      BY <3>2, <3>3
  <2> QED
    BY <2>1, <2>2
<1> QED
  BY <1>1, <1>2, <1>3, <1>4, <1>5 DEF Owned, OwnerInv

LEMMA WebsocketOwners ==
  ASSUME SessionInv, OwnerInv, NEW c \in Conns, WebsocketEvent(c)
  PROVE  OwnerInv'
<1>1. UNCHANGED <<session, status, token, bereft>> /\ ws = Idle
  BY DEF WebsocketEvent, OnMessage, OnCloseUnknown, OnClose, redis, logins, devices, history
<1>2. \A u \in status \ bereft : u \in Users /\ Owned(u)
  BY SessionParts DEF OwnerInv, TypeOK
<1>3. \A b \in Conns : conn_clients'[b] = conn_clients[b] \/ conn_clients[b] = NoClient
  BY SessionParts DEF WebsocketEvent, OnMessage, OnCloseUnknown, OnClose, Insert,
                      ConnectionsFit, TypeOK, maps
<1>4. ws'.step # "connections_remove"
  BY <1>1 DEF WebsocketEvent, OnMessage, OnCloseUnknown, OnClose, Idle
<1>5. \A u \in Users : ConnectionOwns(u) => ConnectionOwns(u)'
  BY <1>3, <1>4, LoginAssumption DEF ConnectionOwns, NoClient
<1>6. \A u \in Users : DeviceOwns(u) => DeviceOwns(u)'
  BY <1>1 DEF DeviceOwns
<1> QED
  BY <1>1, <1>2, <1>5, <1>6 DEF Owned, OwnerInv

LEMMA CloseOwners ==
  ASSUME SessionInv, OwnerInv, CloseStep
  PROVE  OwnerInv'
<1>1. ws.conn \in Conns /\ ws # Idle
  BY ClosingFields, SessionParts DEF CloseStep, CloseSteps, CloseSessionRemove,
                                     CloseStatusRemove, CloseConnectionsRemove
<1>2. Registered(ws.conn) /\ conn_clients[ws.conn].ssid \in Ssids
  BY <1>1, ClientFields, SessionParts DEF ConnectionsFit
<1>3. UNCHANGED <<token, bereft>>
  BY DEF CloseStep, CloseSessionRemove, CloseStatusRemove, CloseConnectionsRemove,
         logins, devices, history
<1>4. \A u \in status \ bereft : u \in Users /\ Owned(u)
  BY SessionParts DEF OwnerInv, TypeOK
<1>6. CASE CloseSessionRemove
  <2>1. /\ session' = [session EXCEPT ![conn_clients[ws.conn].ssid] = NoUser]
        /\ ws.step = "session_remove" /\ ws'.step = "status_remove"
        /\ UNCHANGED <<status, conn_clients>>
    BY <1>1, <1>6, SessionParts DEF CloseSessionRemove, TypeOK, maps
  <2>2. \A u \in Users : ConnectionOwns(u) => ConnectionOwns(u)'
    BY <2>1 DEF ConnectionOwns
  <2>3. \A u \in Users : DeviceOwns(u) => DeviceOwns(u)' \/ ConnectionOwns(u)'
    <3>1. SUFFICES ASSUME NEW u \in Users, NEW d \in Devices,
                          token[d] # NoSsid, session[token[d]] = u
                   PROVE  DeviceOwns(u)' \/ ConnectionOwns(u)'
      BY DEF DeviceOwns
    <3>2. CASE token[d] # conn_clients[ws.conn].ssid
      BY <1>3, <2>1, <3>1, <3>2, SessionParts DEF DeviceOwns, TypeOK
    <3>3. CASE token[d] = conn_clients[ws.conn].ssid
      <4>1. conn_clients[ws.conn].uid = u
        BY <1>1, <1>2, <3>1, <3>3, SessionParts, LoginAssumption DEF ClientsKnow
      <4> QED
        BY <1>1, <2>1, <4>1 DEF ConnectionOwns
    <3> QED
      BY <3>2, <3>3
  <2> QED
    BY <1>3, <1>4, <2>1, <2>2, <2>3 DEF Owned, OwnerInv
<1>7. CASE CloseStatusRemove
  <2>1. /\ status' = status \ {conn_clients[ws.conn].uid}
        /\ UNCHANGED <<session, conn_clients>> /\ ws'.conn = ws.conn
    BY <1>1, <1>7, SessionParts DEF CloseStatusRemove, TypeOK, maps
  <2>2. \A u \in status' : ConnectionOwns(u) => ConnectionOwns(u)'
    BY <2>1 DEF ConnectionOwns
  <2>3. \A u \in Users : DeviceOwns(u) => DeviceOwns(u)'
    BY <1>3, <2>1 DEF DeviceOwns
  <2> QED
    BY <1>3, <1>4, <2>1, <2>2, <2>3 DEF Owned, OwnerInv
<1>8. CASE CloseConnectionsRemove
  <2>1. /\ \A c \in Conns \ {ws.conn} : conn_clients'[c] = conn_clients[c]
        /\ UNCHANGED <<session, status>> /\ ws' = Idle /\ ws.step = "connections_remove"
    BY <1>8, SessionParts DEF CloseConnectionsRemove, Remove, TypeOK, redis
  <2>2. \A u \in Users : ConnectionOwns(u) => ConnectionOwns(u)'
    BY <2>1, ClosingFields, SessionParts DEF ConnectionOwns
  <2>3. \A u \in Users : DeviceOwns(u) => DeviceOwns(u)'
    BY <1>3, <2>1 DEF DeviceOwns
  <2> QED
    BY <1>3, <1>4, <2>1, <2>2, <2>3 DEF Owned, OwnerInv
<1> QED
  BY <1>6, <1>7, <1>8 DEF CloseStep

(* A user whose session dies with its connection is bereft. *)
LEMMA KillOwners ==
  ASSUME SessionInv, OwnerInv, UserServiceKilled \/ GatewayKilled
  PROVE  OwnerInv'
<1>1. UNCHANGED <<session, status, token>> /\ bereft \subseteq bereft'
  BY DEF UserServiceKilled, GatewayKilled, redis, devices
<1>2. \A u \in Users : DeviceOwns(u) => DeviceOwns(u)'
  BY <1>1 DEF DeviceOwns
<1>3. \A u \in Users \ bereft' : ConnectionOwns(u) => ConnectionOwns(u)'
  BY DEF UserServiceKilled, GatewayKilled, ConnectionOwns, gateway, maps
<1> QED
  BY <1>1, <1>2, <1>3, SessionParts DEF OwnerInv, Owned, TypeOK

LEMMA StepOwners ==
  SessionInv /\ TokenFree /\ DevicesFit /\ OwnerInv /\ [Next]_vars => OwnerInv'
<1> SUFFICES ASSUME SessionInv, TokenFree, DevicesFit, OwnerInv, [Next]_vars
             PROVE  OwnerInv'
  OBVIOUS
<1>1. CASE \E c \in CodeIds : GetPhoneVerifyCode(c) \/ CodeExpires(c)
  BY <1>1 DEF GetPhoneVerifyCode, CodeExpires, OwnerInv, Owned, DeviceOwns,
              ConnectionOwns, devices, gateway, maps, history
<1>2. CASE UNCHANGED vars
  BY <1>2 DEF OwnerInv, Owned, DeviceOwns, ConnectionOwns, vars, redis, devices,
              gateway, maps, history
<1> QED
  BY <1>1, <1>2, LoginOwners, DeviceOwners, WebsocketOwners, CloseOwners, KillOwners DEF Next

(* No mark is left behind: a marked user has a device with a session that  *)
(* works, or a connection whose closing deletes the mark, whatever races,  *)
(* overlaps, kills and other users do; only users whose session was lost,  *)
(* or died with the gateway, are excepted.                                 *)
THEOREM MarksAreOwned == Spec => []MarkHasOwner
<1>1. Init => TokenFree /\ DevicesFit /\ OwnerInv
  BY DEF Init, TokenFree, DevicesFit, OwnerInv
<1>2. OwnerInv => MarkHasOwner
  BY DEF OwnerInv, MarkHasOwner, Owned, DeviceOwns, ConnectionOwns
<1> QED
  BY <1>1, <1>2, SessionInvHolds, StepTokens, StepDevicesFit, StepOwners, PTL
    DEF Spec, SessionInv, ConnectionInv
=============================================================================
