---------------------------- MODULE UserProfile ----------------------------
(***************************************************************************)
(* Registration and profile of users: UserRegister, PhoneRegister and the  *)
(* four setters of server/user/source/user_server.hpp, which keep a user's *)
(* row in MySQL (server/common/mysql_user.hpp, odb/user.hxx), the copy of  *)
(* it that FriendSearch finds in elasticsearch (server/common/data_es.hpp) *)
(* and the avatar in the file service.                                     *)
(*                                                                         *)
(* Each call of a store is one step, and handlers run concurrently.  A     *)
(* setter reads the whole row, changes one field of its copy, and writes   *)
(* the whole row back.  Requests that fail a check of their own (length,   *)
(* characters, verify code) change nothing and are left out.               *)
(***************************************************************************)
EXTENDS Naturals, FiniteSets

CONSTANTS
  Users,         \* the uuids that name users
  Nicknames, Phones, Descriptions,
  Files,         \* the uuids that name files
  Workers,       \* the bthreads that run handlers
  NoValue,       \* a column that is null
  NoUser, NoRow,
  MaxRequests,   \* bound: requests
  MaxFaults,     \* bound: calls of a store that fail
  MaxKills       \* bound: kills of the user service

ASSUME ProfileAssumption ==
  /\ NoUser \notin Users
  /\ NoValue \notin Users \cup Nicknames \cup Phones \cup Descriptions \cup Files
  /\ {MaxRequests, MaxFaults, MaxKills} \subseteq Nat

(* A user who registers by phone is called by the user id. *)
Row == [nickname : Nicknames \cup Users,
        phone : Phones \cup {NoValue},
        description : Descriptions \cup {NoValue},
        avatar_id : Files \cup {NoValue}]

ASSUME RowAssumption == NoRow \notin Row

(* What the setters may be asked for; PutSingleFile names the avatar. *)
Settings == ({"nickname"} \X Nicknames) \cup ({"phone"} \X Phones)
              \cup ({"description"} \X Descriptions) \cup {<<"avatar_id", NoValue>>}

VARIABLES
  user,        \* MySQL: the row of a user
  es,          \* elasticsearch: the document of a user
  files,       \* the file service: the files there are
  pc, uid,     \* each handler: its next call and its user,
  field,       \* the column it looks up or sets,
  copy,        \* and its User object
  registered,  \* users whose registration was answered with success
  set,         \* the value a column was last set to with success, or NoValue
               \* if a later setter wrote the row and was not answered so
  requests, faults, kills,
  overlapped,  \* users with a setter begun while another handler served them
  unindexed    \* users whose row was written and, since then, no document

stores == <<user, es, files>>
handlers == <<pc, uid, field, copy>>
answers == <<registered, set>>
vars == <<stores, handlers, answers, requests, faults, kills, overlapped, unindexed>>

Fields == {"nickname", "phone", "description", "avatar_id"}
Values == Users \cup Nicknames \cup Phones \cup Descriptions \cup Files \cup {NoValue}
Steps == {"idle", "register_check", "register_insert", "register_index",
          "set_select", "put_file", "set_update", "set_index"}

TypeOK ==
  /\ user \in [Users -> Row \cup {NoRow}]
  /\ es \in [Users -> Row \cup {NoRow}]
  /\ files \in SUBSET Files
  /\ pc \in [Workers -> Steps]
  /\ uid \in [Workers -> Users \cup {NoUser}]
  /\ field \in [Workers -> Fields \cup {NoValue}]
  /\ copy \in [Workers -> Row \cup {NoRow}]
  /\ \A w \in Workers : pc[w] = "idle" <=> uid[w] = NoUser
  /\ registered \in SUBSET Users
  /\ set \in [Users -> [Fields -> Values]]
  /\ {overlapped, unindexed} \subseteq SUBSET Users
  /\ {requests, faults, kills} \subseteq Nat

Init ==
  /\ user = [u \in Users |-> NoRow] /\ es = [u \in Users |-> NoRow] /\ files = {}
  /\ pc = [w \in Workers |-> "idle"]
  /\ uid = [w \in Workers |-> NoUser]
  /\ field = [w \in Workers |-> NoValue]
  /\ copy = [w \in Workers |-> NoRow]
  /\ registered = {}
  /\ set = [u \in Users |-> [f \in Fields |-> NoValue]]
  /\ overlapped = {} /\ unindexed = {}
  /\ requests = 0 /\ faults = 0 /\ kills = 0

-----------------------------------------------------------------------------
(* The table, with its unique indexes on nickname and phone. *)

Exists(u) == user[u] # NoRow
SelectBy(f, v) == {u \in Users : Exists(u) /\ user[u][f] = v}

(* A bug: the index on nickname is not unique. *)
PhoneConflicts(u, row) == row.phone # NoValue /\ SelectBy("phone", row.phone) \ {u} # {}

Conflicts(u, row) ==
  \/ SelectBy("nickname", row.nickname) \ {u} # {}
  \/ row.phone # NoValue /\ SelectBy("phone", row.phone) \ {u} # {}

-----------------------------------------------------------------------------
(* Steps of handlers. *)

Fault == faults < MaxFaults /\ faults' = faults + 1

Begin(w, step, u, f, row) ==
  /\ pc[w] = "idle"
  /\ requests < MaxRequests
  /\ requests' = requests + 1
  /\ pc' = [pc EXCEPT ![w] = step]
  /\ uid' = [uid EXCEPT ![w] = u]
  /\ field' = [field EXCEPT ![w] = f]
  /\ copy' = [copy EXCEPT ![w] = row]
  /\ UNCHANGED <<stores, answers, faults, kills, unindexed>>

Continue(w, step) ==
  /\ pc' = [pc EXCEPT ![w] = step]
  /\ UNCHANGED <<uid, field, requests, kills, overlapped>>

Return(w) ==
  /\ pc' = [pc EXCEPT ![w] = "idle"]
  /\ uid' = [uid EXCEPT ![w] = NoUser]
  /\ field' = [field EXCEPT ![w] = NoValue]
  /\ copy' = [copy EXCEPT ![w] = NoRow]
  /\ UNCHANGED <<requests, kills, overlapped>>

Fresh(u) == ~Exists(u) /\ \A w \in Workers : uid[w] # u

NewRow(nickname, phone) ==
  [nickname |-> nickname, phone |-> phone, description |-> NoValue, avatar_id |-> NoValue]

UserRegister(w) ==
  \E u \in Users, n \in Nicknames :
    /\ Fresh(u)
    /\ Begin(w, "register_check", u, "nickname", NewRow(n, NoValue))
    /\ UNCHANGED overlapped

PhoneRegister(w) ==
  \E u \in Users, p \in Phones :
    /\ Fresh(u)
    /\ Begin(w, "register_check", u, "phone", NewRow(u, p))
    /\ UNCHANGED overlapped

(* A bug: the new user can be searched before there is a row. *)
RegisterIndexFirst(w) ==
  /\ pc[w] = "register_check"
  /\ es' = [es EXCEPT ![uid[w]] = copy[w]]
  /\ Continue(w, "register_insert")
  /\ UNCHANGED <<user, files, copy, answers, faults, unindexed>>

(* A select that throws finds nobody. *)
RegisterCheck(w) ==
  /\ pc[w] = "register_check"
  /\ IF SelectBy(field[w], copy[w][field[w]]) = {}
     THEN Continue(w, "register_insert") /\ UNCHANGED <<copy, faults>>
     ELSE \/ Return(w) /\ UNCHANGED faults
          \/ Fault /\ Continue(w, "register_insert") /\ UNCHANGED copy
  /\ UNCHANGED <<stores, answers, unindexed>>

(* The insert, which the table may refuse. *)
RegisterInsert(w) ==
  /\ pc[w] = "register_insert"
  /\ IF Conflicts(uid[w], copy[w])
     THEN Return(w) /\ UNCHANGED user
     ELSE /\ user' = [user EXCEPT ![uid[w]] = copy[w]]
          /\ Continue(w, "register_index")
          /\ UNCHANGED copy
  /\ UNCHANGED <<es, files, answers, faults, unindexed>>

(* A bug: the new user is not indexed. *)
RegisterNotIndexed(w) ==
  /\ pc[w] = "register_index"
  /\ registered' = registered \cup {uid[w]}
  /\ Return(w)
  /\ UNCHANGED <<stores, set, faults, unindexed>>

(* What appendData answers is not kept, so success is answered either way. *)
RegisterIndex(w) ==
  /\ pc[w] = "register_index"
  /\ \/ es' = [es EXCEPT ![uid[w]] = copy[w]] /\ UNCHANGED <<faults, unindexed>>
     \/ Fault /\ unindexed' = unindexed \cup {uid[w]} /\ UNCHANGED es
  /\ registered' = registered \cup {uid[w]}
  /\ Return(w)
  /\ UNCHANGED <<user, files, set>>

(* SetUserNickname, SetUserPhoneNumber, SetUserDescription, SetUserAvatar: *)
(* copy holds the value until the row is read.                             *)
SetUser(w) ==
  \E u \in Users : \E s \in Settings :
    /\ Exists(u)
    /\ Begin(w, "set_select", u, s[1], [user[u] EXCEPT ![s[1]] = s[2]])
    /\ overlapped' = IF \E x \in Workers : uid[x] = u THEN overlapped \cup {u} ELSE overlapped

(* A bug: the object is filled with the one new value, not from the row. *)
SetUnread(w) ==
  /\ pc[w] = "set_select"
  /\ copy' = [copy EXCEPT ![w] =
                [NewRow(@.nickname, NoValue) EXCEPT ![field[w]] = copy[w][field[w]]]]
  /\ Continue(w, IF field[w] = "avatar_id" THEN "put_file" ELSE "set_update")
  /\ UNCHANGED <<stores, answers, faults, unindexed>>

SetSelect(w) ==
  /\ pc[w] = "set_select"
  /\ copy' = [copy EXCEPT ![w] = [user[uid[w]] EXCEPT ![field[w]] = copy[w][field[w]]]]
  /\ Continue(w, IF field[w] = "avatar_id" THEN "put_file" ELSE "set_update")
  /\ UNCHANGED <<stores, answers, faults, unindexed>>

PutFile(w) ==
  /\ pc[w] = "put_file"
  /\ \E f \in Files \ files :
       /\ files' = files \cup {f}
       /\ copy' = [copy EXCEPT ![w].avatar_id = f]
  /\ Continue(w, "set_update")
  /\ UNCHANGED <<user, es, answers, faults, unindexed>>

SetUpdate(w) ==
  /\ pc[w] = "set_update"
  /\ IF Conflicts(uid[w], copy[w])
     THEN Return(w) /\ UNCHANGED user
     ELSE /\ user' = [user EXCEPT ![uid[w]] = copy[w]]
          /\ Continue(w, "set_index")
          /\ UNCHANGED copy
  /\ UNCHANGED <<es, files, answers, faults, unindexed>>

(* A bug: the values get into each other's columns. *)
SetIndexSwapped(w) ==
  /\ pc[w] = "set_index"
  /\ es' = [es EXCEPT ![uid[w]] = [copy[w] EXCEPT !.phone = copy[w].description]]
  /\ set' = [set EXCEPT ![uid[w]][field[w]] = copy[w][field[w]]]
  /\ unindexed' = unindexed \ {uid[w]}
  /\ Return(w)
  /\ UNCHANGED <<user, files, registered, faults>>

SetIndex(w) ==
  /\ pc[w] = "set_index"
  /\ es' = [es EXCEPT ![uid[w]] = copy[w]]
  /\ set' = [set EXCEPT ![uid[w]][field[w]] = copy[w][field[w]]]
  /\ unindexed' = unindexed \ {uid[w]}
  /\ Return(w)
  /\ UNCHANGED <<user, files, registered, faults>>

(* Handlers that have written a row and answered nothing. *)
Unanswered(W) ==
  set' = [u \in Users |-> [f \in Fields |->
           IF \E w \in W : pc[w] = "set_index" /\ uid[w] = u /\ field[w] = f
           THEN NoValue ELSE set[u][f]]]

(* A store fails and the handler answers with an error. *)
StoreFails(w) ==
  /\ pc[w] \in {"register_insert", "set_select", "put_file", "set_update", "set_index"}
  /\ Fault
  /\ Unanswered({w})
  /\ unindexed' = IF pc[w] = "set_index" THEN unindexed \cup {uid[w]} ELSE unindexed
  /\ Return(w)
  /\ UNCHANGED <<stores, registered>>

(* The file is stored, or the document written, and the answer is lost. *)
StoreUnanswered(w) ==
  /\ Fault
  /\ \/ /\ pc[w] = "put_file"
        /\ \E f \in Files \ files : files' = files \cup {f}
        /\ UNCHANGED <<es, unindexed>>
     \/ /\ pc[w] = "set_index"
        /\ es' = [es EXCEPT ![uid[w]] = copy[w]]
        /\ unindexed' = unindexed \ {uid[w]}
        /\ UNCHANGED files
  /\ Unanswered({w})
  /\ Return(w)
  /\ UNCHANGED <<user, registered>>

UserServiceKilled ==
  /\ kills < MaxKills
  /\ \E w \in Workers : pc[w] # "idle"
  /\ kills' = kills + 1
  /\ Unanswered(Workers)
  /\ unindexed' = unindexed \cup
       {uid[w] : w \in {x \in Workers : pc[x] \in {"register_index", "set_index"}}}
  /\ pc' = [w \in Workers |-> "idle"]
  /\ uid' = [w \in Workers |-> NoUser]
  /\ field' = [w \in Workers |-> NoValue]
  /\ copy' = [w \in Workers |-> NoRow]
  /\ UNCHANGED <<stores, registered, requests, faults, overlapped>>

-----------------------------------------------------------------------------

Next ==
  \/ \E w \in Workers :
       \/ UserRegister(w) \/ PhoneRegister(w) \/ SetUser(w)
       \/ RegisterCheck(w) \/ RegisterInsert(w) \/ RegisterIndex(w)
       \/ SetSelect(w) \/ PutFile(w) \/ SetUpdate(w) \/ SetIndex(w)
       \/ StoreFails(w) \/ StoreUnanswered(w)
  \/ UserServiceKilled

Spec == Init /\ [][Next]_vars

-----------------------------------------------------------------------------
(* Properties. *)

(* Two users never have one nickname or one phone, although a registration *)
(* looks first and inserts later, and a setter does not look at all.       *)
NamesAndPhonesUnique ==
  \A u, v \in {x \in Users : Exists(x)} :
    u # v => /\ user[u].nickname # user[v].nickname
             /\ user[u].phone = NoValue \/ user[u].phone # user[v].phone

Served(u) == \E w \in Workers : uid[w] = u

(* When no handler serves a user, a search shows the user's row as it is,  *)
(* unless a handler stopped between this user's row and its document: then *)
(* the next setter that gets through repairs the document.  Excepted are   *)
(* users whom two handlers served at once.                                 *)
IndexIsCurrent ==
  \A u \in Users \ (overlapped \cup unindexed) : ~Served(u) => es[u] = user[u]

(* A value that was set with success is still in its column, whatever      *)
(* fails, is killed or happens to other columns and users: writing back    *)
(* the whole row for one column loses no other.  The same users are        *)
(* excepted.                                                               *)
SettingSticks ==
  \A u \in Users \ overlapped : \A f \in Fields :
    (set[u][f] # NoValue /\ ~Served(u)) => user[u][f] = set[u][f]

(* Nothing names what is not there, whatever fails or is killed: whoever a *)
(* search finds has a row, since handlers write MySQL first, and the       *)
(* avatar of a row or of a document has a file, since it is stored before. *)
NothingDangles ==
  \A u \in Users :
    /\ es[u] # NoRow => Exists(u) /\ es[u].avatar_id \in files \cup {NoValue}
    /\ Exists(u) => user[u].avatar_id \in files \cup {NoValue}
=============================================================================
