--------------------------- MODULE FriendService ---------------------------
(***************************************************************************)
(* The friend service of line_chat: FriendServiceImpl in                   *)
(* server/friend/source/friend_server.hpp over the four MySQL tables of    *)
(* server/common/mysql_*.hpp.                                              *)
(*                                                                         *)
(* brpc runs every request in a bthread of its own.  Inside a handler each *)
(* call of a table object is one MySQL transaction, so that is the grain   *)
(* of a step here; between two calls any other handler may run.  A call    *)
(* that throws rolls its transaction back and returns false (an exists()   *)
(* that throws also returns false, which its caller reads as "no row").    *)
(* The process may be killed at any point, and docker restarts it.         *)
(*                                                                         *)
(* A table is the number of its rows per key: no table but chat_session    *)
(* has a unique index, and the rows of one key are told apart by nothing   *)
(* that a handler reads.                                                   *)
(***************************************************************************)
EXTENDS Naturals, FiniteSets

CONSTANTS
  Users,         \* user ids
  SessionIds,    \* the uuids that name chat sessions
  Workers,       \* the bthreads that run handlers
  MemberLists,   \* member_id_list of ChatSessionCreate: occurrences per user
  MaxRows,       \* bound: no application is accepted beyond so many rows
  MaxFaults,     \* bound: table calls that throw
  MaxCrashes,    \* bound: kills of the process from outside
  NoRequest,     \* an idle worker has no request
  NoSession      \* and no session id

ASSUME FriendAssumption ==
  /\ MemberLists \subseteq [Users -> Nat]
  /\ IsFiniteSet(Workers)
  /\ NoSession \notin SessionIds
  /\ MaxRows \in Nat /\ MaxFaults \in Nat /\ MaxCrashes \in Nat

Pairs == Users \X Users

(* A client names somebody else as the peer; the gateway fills in uid from *)
(* the login session.                                                      *)
PairRequest == {r \in [uid : Users, pid : Users, agree : BOOLEAN] : r.uid # r.pid}
GroupRequest == [list : MemberLists]

(* The next table call of a handler. *)
PairSteps == {"add_relation_exists", "add_apply_exists", "add_apply_insert",
              "process_apply_exists", "process_apply_remove",
              "process_relation_insert", "process_session_insert",
              "process_member_append",
              "remove_relation", "remove_session_find", "remove_session_erase"}
GroupSteps == {"create_session_insert", "create_member_append"}

(* Calls whose failure the handler answers with an error at once. *)
FailableSteps == (PairSteps \ {"add_relation_exists", "add_apply_exists"}) \cup GroupSteps

VARIABLES
  friend_apply,         \* rows of friend_apply per <<user_id, peer_id>>
  relation,             \* rows of relation per <<user_id, peer_id>>
  chat_session,         \* type of the chat_session row of an id, if there is one
  chat_session_member,  \* rows of chat_session_member per session and user
  pc, req, cssid,       \* each handler: its next table call, request, session
  faults, crashes,      \* how many table calls threw, how many kills
  aborted               \* the process has ended on a session query without one answer

tables == <<friend_apply, relation, chat_session, chat_session_member>>
handlers == <<pc, req, cssid>>
failures == <<faults, crashes, aborted>>
vars == <<tables, handlers, failures>>

NoRows == [u \in Users |-> 0]

TablesTyped ==
  /\ friend_apply \in [Pairs -> Nat]
  /\ relation \in [Pairs -> Nat]
  /\ chat_session \in [SessionIds -> {"unused", "SINGLE", "GROUP", "erased"}]
  /\ chat_session_member \in [SessionIds -> [Users -> Nat]]

HandlersTyped ==
  /\ pc \in [Workers -> PairSteps \cup GroupSteps \cup {"idle"}]
  /\ req \in [Workers -> PairRequest \cup GroupRequest \cup {NoRequest}]
  /\ cssid \in [Workers -> SessionIds \cup {NoSession}]
  /\ \A w \in Workers :
       /\ pc[w] \in PairSteps => req[w] \in PairRequest
       /\ pc[w] \in GroupSteps => req[w] \in GroupRequest
       /\ pc[w] = "idle" => req[w] = NoRequest /\ cssid[w] = NoSession

FailuresTyped == faults \in Nat /\ crashes \in Nat /\ aborted \in BOOLEAN

TypeOK == TablesTyped /\ HandlersTyped /\ FailuresTyped

Init ==
  /\ friend_apply = [p \in Pairs |-> 0]
  /\ relation = [p \in Pairs |-> 0]
  /\ chat_session = [s \in SessionIds |-> "unused"]
  /\ chat_session_member = [s \in SessionIds |-> NoRows]
  /\ pc = [w \in Workers |-> "idle"]
  /\ req = [w \in Workers |-> NoRequest]
  /\ cssid = [w \in Workers |-> NoSession]
  /\ faults = 0 /\ crashes = 0 /\ aborted = FALSE

-----------------------------------------------------------------------------
(* The table objects: what one call reads, and what its transaction does.  *)

RelationExists(u, p) == relation[<<u, p>>] > 0
RelationInsert(u, p) ==
  relation' = [relation EXCEPT ![<<u, p>>] = @ + 1, ![<<p, u>>] = @ + 1]
(* A bug: only the remover's own direction is deleted. *)
RelationRemoveOneWay(u, p) ==
  relation' = [relation EXCEPT ![<<u, p>>] = 0]
RelationRemove(u, p) ==
  relation' = [relation EXCEPT ![<<u, p>>] = 0, ![<<p, u>>] = 0]
Friends(u) == {p \in Users : relation[<<u, p>>] > 0}

ApplyExists(u, p) == friend_apply[<<u, p>>] > 0
ApplyInsert(u, p) == friend_apply' = [friend_apply EXCEPT ![<<u, p>>] = @ + 1]
ApplyRemove(u, p) == friend_apply' = [friend_apply EXCEPT ![<<u, p>>] = 0]
ApplyUsers(u) == {p \in Users : friend_apply[<<p, u>>] > 0}

HasRow(s) == chat_session[s] \in {"SINGLE", "GROUP"}
Unused == {s \in SessionIds : chat_session[s] = "unused"}

(* uuid() names a session nobody has used. *)
SessionInsert(s, type) ==
  /\ s \in Unused
  /\ chat_session' = [chat_session EXCEPT ![s] = type]

(* A bug: the type of the session is left out of the condition. *)
SingleSessionsOfAnyType(u, p) ==
  {s \in SessionIds : /\ HasRow(s)
                      /\ chat_session_member[s][u] > 0
                      /\ chat_session_member[s][p] > 0}

(* The rows of the view SingleChatSession for two members.  Each such      *)
(* session contributes one row: see SingleSessionsArePairs.                *)
SingleSessions(u, p) ==
  {s \in SessionIds : /\ chat_session[s] = "SINGLE"
                      /\ chat_session_member[s][u] > 0
                      /\ chat_session_member[s][p] > 0}

(* singleChatSession: the private chats of u, each with the other member. *)
SingleChatSession(u) ==
  {c \in SessionIds \X Users : /\ chat_session[c[1]] = "SINGLE"
                               /\ chat_session_member[c[1]][u] > 0
                               /\ chat_session_member[c[1]][c[2]] > 0
                               /\ c[2] # u}

(* groupChatSession: the groups u is a member of. *)
GroupChatSession(u) ==
  {s \in SessionIds : chat_session[s] = "GROUP" /\ chat_session_member[s][u] > 0}

(* A bug: the members of the erased session stay. *)
SessionEraseAlone(s) ==
  /\ chat_session' = [chat_session EXCEPT ![s] = "erased"]
  /\ UNCHANGED chat_session_member

(* One transaction erases the session's row and all its members' rows. *)
SessionErase(s) ==
  /\ chat_session' = [chat_session EXCEPT ![s] = "erased"]
  /\ chat_session_member' = [chat_session_member EXCEPT ![s] = NoRows]

MemberAppend(s, list) ==
  chat_session_member' =
    [chat_session_member EXCEPT ![s] = [u \in Users |-> @[u] + list[u]]]

Members(s) == {u \in Users : chat_session_member[s][u] > 0}

-----------------------------------------------------------------------------
(* Handlers that only read: what their answers show. *)

GetFriendList(u) == Friends(u)
GetPendingFriendEventList(u) == ApplyUsers(u)
GetChatSessionMember(s) == Members(s)

(* The other services' data about the users, and the last message of each  *)
(* chat, are put beside these.                                             *)
GetChatSessionList(u) == [single |-> SingleChatSession(u), group |-> GroupChatSession(u)]

(* Of the users that elasticsearch finds. *)
FriendSearch(u, found) == found \ (Friends(u) \cup {u})

-----------------------------------------------------------------------------
(* Handlers that write. *)

Goto(w, step) ==
  /\ pc' = [pc EXCEPT ![w] = step]
  /\ UNCHANGED <<req, cssid, failures>>

GotoWith(w, step, s) ==
  /\ pc' = [pc EXCEPT ![w] = step]
  /\ cssid' = [cssid EXCEPT ![w] = s]
  /\ UNCHANGED <<req, failures>>

(* A bug: the handler is done and its request is not. *)
IdleWithRequest(w) ==
  /\ pc' = [pc EXCEPT ![w] = "idle"]
  /\ UNCHANGED <<req, cssid>>

Idle(w) ==
  /\ pc' = [pc EXCEPT ![w] = "idle"]
  /\ req' = [req EXCEPT ![w] = NoRequest]
  /\ cssid' = [cssid EXCEPT ![w] = NoSession]

(* The handler answers its client, with success or with an error. *)
Reply(w) == Idle(w) /\ UNCHANGED failures

(* A request of one of the four handlers reaches an idle worker. *)
Start(w, step, r) ==
  /\ pc[w] = "idle"
  /\ pc' = [pc EXCEPT ![w] = step]
  /\ req' = [req EXCEPT ![w] = r]
  /\ UNCHANGED <<tables, cssid, failures>>

(* Bound: a request that will create a session finds an id left for it. *)
IdLeft ==
  Cardinality(Unused) >
    Cardinality({w \in Workers : pc[w] \in GroupSteps \cup
                   {"process_apply_exists", "process_apply_remove",
                    "process_relation_insert", "process_session_insert"}})

(* --- FriendAdd: apply to a user for friendship --- *)

FriendAdd(w) ==
  \E r \in PairRequest :
    /\ r.agree = FALSE
    /\ Start(w, "add_relation_exists", r)

AddRelationExists(w) ==
  /\ pc[w] = "add_relation_exists"
  /\ IF RelationExists(req[w].uid, req[w].pid)
     THEN Reply(w)
     ELSE Goto(w, "add_apply_exists")
  /\ UNCHANGED tables

(* A bug: the application is inserted whether there is one or not. *)
AddApplyUnchecked(w) ==
  /\ pc[w] = "add_apply_exists"
  /\ Goto(w, "add_apply_insert")
  /\ UNCHANGED tables

AddApplyExists(w) ==
  /\ pc[w] = "add_apply_exists"
  /\ IF ApplyExists(req[w].uid, req[w].pid)
     THEN Reply(w)
     ELSE Goto(w, "add_apply_insert")
  /\ UNCHANGED tables

AddApplyInsert(w) ==
  /\ pc[w] = "add_apply_insert"
  /\ ApplyInsert(req[w].uid, req[w].pid)
  /\ Reply(w)
  /\ UNCHANGED <<relation, chat_session, chat_session_member>>

(* --- FriendAddProcess: the applied-to user agrees or declines --- *)

FriendAddProcess(w) ==
  \E r \in PairRequest :
    /\ r.agree => (IdLeft /\ relation[<<r.uid, r.pid>>] < MaxRows)
    /\ Start(w, "process_apply_exists", r)

(* A bug: an agreement goes on without removing the application. *)
ProcessApplyKept(w) ==
  /\ pc[w] = "process_apply_exists"
  /\ IF ApplyExists(req[w].pid, req[w].uid)
     THEN Goto(w, IF req[w].agree THEN "process_relation_insert" ELSE "process_apply_remove")
     ELSE Reply(w)
  /\ UNCHANGED tables

ProcessApplyExists(w) ==
  /\ pc[w] = "process_apply_exists"
  /\ IF ApplyExists(req[w].pid, req[w].uid)
     THEN Goto(w, "process_apply_remove")
     ELSE Reply(w)
  /\ UNCHANGED tables

ProcessApplyRemove(w) ==
  /\ pc[w] = "process_apply_remove"
  /\ ApplyRemove(req[w].pid, req[w].uid)
  /\ IF req[w].agree THEN Goto(w, "process_relation_insert") ELSE Reply(w)
  /\ UNCHANGED <<relation, chat_session, chat_session_member>>

ProcessRelationInsert(w) ==
  /\ pc[w] = "process_relation_insert"
  /\ RelationInsert(req[w].uid, req[w].pid)
  /\ Goto(w, "process_session_insert")
  /\ UNCHANGED <<friend_apply, chat_session, chat_session_member>>

(* A bug: the handler returns before it appends the members. *)
ProcessSessionWithoutMembers(w) ==
  /\ pc[w] = "process_session_insert"
  /\ \E s \in SessionIds : SessionInsert(s, "SINGLE")
  /\ Reply(w)
  /\ UNCHANGED <<friend_apply, relation, chat_session_member>>

ProcessSessionInsert(w) ==
  /\ pc[w] = "process_session_insert"
  /\ \E s \in SessionIds :
       /\ SessionInsert(s, "SINGLE")
       /\ GotoWith(w, "process_member_append", s)
  /\ UNCHANGED <<friend_apply, relation, chat_session_member>>

(* csm1 and csm2, in one transaction. *)
Both(r) == [u \in Users |-> IF u \in {r.uid, r.pid} THEN 1 ELSE 0]

(* A bug: csm2 is left out. *)
ProcessMemberAppendOne(w) ==
  /\ pc[w] = "process_member_append"
  /\ MemberAppend(cssid[w], [NoRows EXCEPT ![req[w].uid] = 1])
  /\ Reply(w)
  /\ UNCHANGED <<friend_apply, relation, chat_session>>

ProcessMemberAppend(w) ==
  /\ pc[w] = "process_member_append"
  /\ MemberAppend(cssid[w], Both(req[w]))
  /\ Reply(w)
  /\ UNCHANGED <<friend_apply, relation, chat_session>>

(* --- FriendRemove: drop the friendship and the chat of the two --- *)

FriendRemove(w) ==
  \E r \in PairRequest :
    /\ r.agree = FALSE
    /\ Start(w, "remove_relation", r)

RemoveRelation(w) ==
  /\ pc[w] = "remove_relation"
  /\ RelationRemove(req[w].uid, req[w].pid)
  /\ Goto(w, "remove_session_find")
  /\ UNCHANGED <<friend_apply, chat_session, chat_session_member>>

(* query_one found one session.  It reads a snapshot and takes no lock, so *)
(* the erasing statements of the transaction are a step of their own.      *)
RemoveSessionFind(w) ==
  /\ pc[w] = "remove_session_find"
  /\ \E s \in SessionIds :
       /\ SingleSessions(req[w].uid, req[w].pid) = {s}
       /\ GotoWith(w, "remove_session_erase", s)
  /\ UNCHANGED tables

(* The process ends, and docker starts it again with empty hands. *)
ProcessAborts ==
  /\ pc' = [w \in Workers |-> "idle"]
  /\ req' = [w \in Workers |-> NoRequest]
  /\ cssid' = [w \in Workers |-> NoSession]
  /\ aborted' = TRUE
  /\ UNCHANGED <<tables, faults, crashes>>

(* query_one returned no object, and res->chat_session_id is read from a   *)
(* null pointer.                                                           *)
RemoveSessionFindNone(w) ==
  /\ pc[w] = "remove_session_find"
  /\ SingleSessions(req[w].uid, req[w].pid) = {}
  /\ ProcessAborts

(* query_one found several, which result<T>::one() of odb asserts against; *)
(* the builds of CMakeLists.txt leave assertions in.                       *)
RemoveSessionFindMany(w) ==
  /\ pc[w] = "remove_session_find"
  /\ \E s, t \in SingleSessions(req[w].uid, req[w].pid) : s # t
  /\ ProcessAborts

RemoveSessionErase(w) ==
  /\ pc[w] = "remove_session_erase"
  /\ SessionErase(cssid[w])
  /\ Reply(w)
  /\ UNCHANGED <<friend_apply, relation>>

(* --- ChatSessionCreate: a group, with the members the client lists --- *)

ChatSessionCreate(w) ==
  \E l \in MemberLists : IdLeft /\ Start(w, "create_session_insert", [list |-> l])

CreateSessionInsert(w) ==
  /\ pc[w] = "create_session_insert"
  /\ \E s \in SessionIds :
       /\ SessionInsert(s, "GROUP")
       /\ GotoWith(w, "create_member_append", s)
  /\ UNCHANGED <<friend_apply, relation, chat_session_member>>

CreateMemberAppend(w) ==
  /\ pc[w] = "create_member_append"
  /\ MemberAppend(cssid[w], req[w].list)
  /\ Reply(w)
  /\ UNCHANGED <<friend_apply, relation, chat_session>>

-----------------------------------------------------------------------------
(* Failures. *)

CountFault ==
  /\ faults < MaxFaults
  /\ faults' = faults + 1
  /\ UNCHANGED <<crashes, aborted>>

(* The table call throws; earlier transactions of the handler stay. *)
TableCallFails(w) ==
  /\ pc[w] \in FailableSteps
  /\ CountFault
  /\ Idle(w)
  /\ UNCHANGED tables

(* exists() throws and returns false: FriendAdd goes on as if it found no  *)
(* row.                                                                    *)
ExistsFails(w) ==
  /\ CountFault
  /\ \/ /\ pc[w] = "add_relation_exists"
        /\ pc' = [pc EXCEPT ![w] = "add_apply_exists"]
     \/ /\ pc[w] = "add_apply_exists"
        /\ pc' = [pc EXCEPT ![w] = "add_apply_insert"]
  /\ UNCHANGED <<tables, req, cssid>>

(* The process is killed, and started again with empty hands. *)
ProcessKilled ==
  /\ crashes < MaxCrashes
  /\ \E w \in Workers : pc[w] # "idle"
  /\ pc' = [w \in Workers |-> "idle"]
  /\ req' = [w \in Workers |-> NoRequest]
  /\ cssid' = [w \in Workers |-> NoSession]
  /\ crashes' = crashes + 1
  /\ UNCHANGED <<tables, faults, aborted>>

-----------------------------------------------------------------------------

NewRequest(w) ==
  FriendAdd(w) \/ FriendAddProcess(w) \/ FriendRemove(w) \/ ChatSessionCreate(w)

HandlerStep(w) ==
  \/ AddRelationExists(w) \/ AddApplyExists(w) \/ AddApplyInsert(w)
  \/ ProcessApplyExists(w) \/ ProcessApplyRemove(w) \/ ProcessRelationInsert(w)
  \/ ProcessSessionInsert(w) \/ ProcessMemberAppend(w)
  \/ RemoveRelation(w) \/ RemoveSessionFind(w) \/ RemoveSessionFindNone(w)
  \/ RemoveSessionFindMany(w) \/ RemoveSessionErase(w)
  \/ CreateSessionInsert(w) \/ CreateMemberAppend(w)

Next ==
  \/ \E w \in Workers : NewRequest(w) \/ HandlerStep(w)
                        \/ TableCallFails(w) \/ ExistsFails(w)
  \/ ProcessKilled

Spec == Init /\ [][Next]_vars

-----------------------------------------------------------------------------
(* Properties. *)

(* Friendship is symmetric: RelationTable::insert and ::remove write both  *)
(* directions in one transaction, so no interleaving of handlers, failure  *)
(* or kill leaves u a friend of p and p not a friend of u.                 *)
RelationSymmetric ==
  \A u, p \in Users : relation[<<u, p>>] = relation[<<p, u>>]

(* Every row of chat_session_member belongs to a session that exists,      *)
(* although FriendAddProcess and ChatSessionCreate add the session and its *)
(* members in two transactions that a FriendRemove may come between.       *)
NoDanglingMembers ==
  \A s \in SessionIds : HasRow(s) \/ chat_session_member[s] = NoRows

(* A SINGLE session has the rows of exactly two users, one each, or none   *)
(* yet: no interleaving appends a second pair to it.                       *)
SingleSessionsArePairs ==
  \A s \in SessionIds :
    chat_session[s] = "SINGLE" =>
      \/ chat_session_member[s] = NoRows
      \/ \E r \in PairRequest : chat_session_member[s] = Both(r)

(* A SINGLE session without members is in the hands of a handler that is   *)
(* about to append them, unless something failed: only a failed call or a  *)
(* dead process leaves such a session behind.                              *)
MemberlessOnlyByFailure ==
  (faults = 0 /\ crashes = 0 /\ ~aborted) =>
    \A s \in SessionIds :
      (chat_session[s] = "SINGLE" /\ chat_session_member[s] = NoRows) =>
        \E w \in Workers : pc[w] = "process_member_append" /\ cssid[w] = s

(* FriendAdd checks for an application and inserts one in two              *)
(* transactions, so applications may double; but never beyond one per      *)
(* handler that can be between the two, and one per failed exists().       *)
ApplicationsBounded ==
  \A p \in Pairs : friend_apply[p] <= Cardinality(Workers) + faults

(* Why: the rows there are, and the handlers about to add one.             *)
Inserting(p) ==
  {w \in Workers : pc[w] = "add_apply_insert" /\ <<req[w].uid, req[w].pid>> = p}

ApplicationsAndInserters ==
  \A p \in Pairs :
    friend_apply[p] + Cardinality(Inserting(p)) <= Cardinality(Workers) + faults

(* What makes the session properties inductive.  A handler about to append *)
(* members holds a session that is in place, empty, and held by nobody     *)
(* else; one about to erase a session holds a SINGLE session that has its  *)
(* members, or that a concurrent FriendRemove has erased in between.       *)
AppendSteps == {"process_member_append", "create_member_append"}

AppendersHoldEmptySessions ==
  \A w \in Workers :
    pc[w] \in AppendSteps =>
      /\ cssid[w] \in SessionIds
      /\ chat_session[cssid[w]] = IF pc[w] = "process_member_append" THEN "SINGLE" ELSE "GROUP"
      /\ chat_session_member[cssid[w]] = NoRows

AppendersHoldDifferentSessions ==
  \A v, w \in Workers :
    (v # w /\ pc[v] \in AppendSteps /\ pc[w] \in AppendSteps) => cssid[v] # cssid[w]

ErasersHoldPairs ==
  \A w \in Workers :
    pc[w] = "remove_session_erase" =>
      /\ cssid[w] \in SessionIds
      /\ \/ chat_session[cssid[w]] = "erased"
         \/ /\ chat_session[cssid[w]] = "SINGLE"
            /\ \E r \in PairRequest : chat_session_member[cssid[w]] = Both(r)

SessionInv ==
  /\ NoDanglingMembers
  /\ SingleSessionsArePairs
  /\ AppendersHoldEmptySessions
  /\ AppendersHoldDifferentSessions
  /\ ErasersHoldPairs

(* No step of FriendRemove, which looks sessions up by their two members,  *)
(* touches a group: once it has members it keeps them.                     *)
GroupsKeepMembers ==
  [][\A s \in SessionIds :
       (chat_session[s] = "GROUP" /\ chat_session_member[s] # NoRows) =>
         /\ chat_session'[s] = "GROUP"
         /\ chat_session_member'[s] = chat_session_member[s]]_vars

(* A handler between two table calls of a request about u and p.           *)
PairOf(w) == {req[w].uid, req[w].pid}
WorkedOn(steps, u, p) == \E w \in Workers : pc[w] \in steps /\ PairOf(w) = {u, p}

(* The lists of a user agree about everybody no handler is working on with *)
(* him: whoever is in the friend list has a private chat with the two of   *)
(* them in the session list; and a private chat is one with a friend,      *)
(* never with somebody the search offers to apply to, unless something     *)
(* failed or FriendRemove has ended the process between the relation and   *)
(* the session.  So it is as long as steps are orderly.                    *)
FriendsHaveChat ==
  \A u, p \in Users :
    ~WorkedOn(PairSteps, u, p) =>
      LET chats == {c \in GetChatSessionList(u).single : c[2] = p} IN
        /\ p \in GetFriendList(u) =>
             \E c \in chats : GetChatSessionMember(c[1]) = {u, p}
        /\ (faults = 0 /\ crashes = 0 /\ ~aborted) =>
             (chats # {} => p \notin FriendSearch(u, Users))

(* FriendRemove reports a session it cannot delete as an error; it does    *)
(* not end the process.                                                    *)
ServiceSurvivesFriendRemove == ~aborted

(* The service as its clients see it.  Until the members of the chat are   *)
(* in place, an agreement has not happened: its application still counts   *)
(* and its relation row does not.                                          *)
Agreeing(w) ==
  pc[w] \in {"process_relation_insert", "process_session_insert", "process_member_append"}

Pending ==
  {p \in Pairs : \/ p[1] \in GetPendingFriendEventList(p[2])
                 \/ \E w \in Workers : Agreeing(w) /\ p = <<req[w].pid, req[w].uid>>}

HalfMade(u, p) == WorkedOn({"process_session_insert", "process_member_append"}, u, p)

FriendCouples ==
  {{x[1], x[2]} : x \in
     {y \in Pairs : relation[y] > (IF HalfMade(y[1], y[2]) THEN 1 ELSE 0)}}

ChatCouples ==
  {{r.uid, r.pid} : r \in {x \in PairRequest : SingleSessions(x.uid, x.pid) # {}}}

Promise == INSTANCE Friendship WITH
  pending <- Pending, friends <- FriendCouples, chats <- ChatCouples

(* While steps are orderly, each handler takes effect in one step of       *)
(* Friendship, whatever runs beside it or fails.                           *)
ImplementsFriendship == Promise!Spec

(* Steps that are orderly: no two handlers work on the same two users, in  *)
(* whatever roles; an agreement that has removed its application is        *)
(* carried through, so neither its calls fail nor does the process end     *)
(* meanwhile; and no exists() throws.                                      *)
PairsApart ==
  \A v, w \in Workers :
    (v # w /\ pc[v] \in PairSteps /\ pc[w] \in PairSteps) => PairOf(v) # PairOf(w)

Orderly ==
  /\ PairsApart'
  /\ \A w \in Workers : Agreeing(w) => (Agreeing(w)' \/ ProcessMemberAppend(w))
  /\ \A w \in Workers : ~ExistsFails(w)

OrderlySpec == Init /\ [][Next /\ Orderly]_vars
=============================================================================
