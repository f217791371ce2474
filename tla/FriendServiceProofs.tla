------------------------ MODULE FriendServiceProofs ------------------------
(***************************************************************************)
(* Theorems about FriendService, for any users, workers, session ids and   *)
(* bounds.                                                                 *)
(***************************************************************************)
EXTENDS FriendService, FiniteSetTheorems, TLAPS

(* Tables are functions to row counts. *)

LEMMA CountUp ==
  ASSUME NEW S, NEW f \in [S -> Nat], NEW a \in S, NEW b \in S
  PROVE  /\ [f EXCEPT ![a] = @ + 1] \in [S -> Nat]
         /\ [f EXCEPT ![a] = @ + 1, ![b] = @ + 1] \in [S -> Nat]
<1> DEFINE g == [f EXCEPT ![a] = @ + 1]
<1>1. g \in [S -> Nat]
  OBVIOUS
<1>2. [g EXCEPT ![b] = @ + 1] \in [S -> Nat]
  BY <1>1
<1> QED
  BY <1>1, <1>2

LEMMA RowInsertTyped ==
  ASSUME TablesTyped, NEW r \in PairRequest
  PROVE  /\ ApplyInsert(r.uid, r.pid) => friend_apply' \in [Pairs -> Nat]
         /\ RelationInsert(r.uid, r.pid) => relation' \in [Pairs -> Nat]
<1> DEFINE a == <<r.uid, r.pid>>
           b == <<r.pid, r.uid>>
<1>1. a \in Pairs /\ b \in Pairs
  BY DEF PairRequest, Pairs
<1>2. /\ ApplyInsert(r.uid, r.pid) => friend_apply' = [friend_apply EXCEPT ![a] = @ + 1]
      /\ RelationInsert(r.uid, r.pid) =>
           relation' = [relation EXCEPT ![a] = @ + 1, ![b] = @ + 1]
  BY DEF ApplyInsert, RelationInsert
<1> HIDE DEF a, b
<1>3. friend_apply \in [Pairs -> Nat] /\ relation \in [Pairs -> Nat]
  BY DEF TablesTyped
<1>4. [friend_apply EXCEPT ![a] = @ + 1] \in [Pairs -> Nat]
  BY <1>1, <1>3, CountUp
<1>5. [relation EXCEPT ![a] = @ + 1, ![b] = @ + 1] \in [Pairs -> Nat]
  BY <1>1, <1>3, CountUp
<1> QED
  BY <1>2, <1>4, <1>5

LEMMA MemberAppendTyped ==
  ASSUME TablesTyped, NEW s, NEW list \in [Users -> Nat], MemberAppend(s, list)
  PROVE  chat_session_member' \in [SessionIds -> [Users -> Nat]]
<1> DEFINE new(x) == [u \in Users |-> x[u] + list[u]]
<1>1. \A x \in [Users -> Nat] : new(x) \in [Users -> Nat]
  OBVIOUS
<1> HIDE DEF new
<1>2. chat_session_member' = [chat_session_member EXCEPT ![s] = new(@)]
  BY DEF MemberAppend, new
<1> QED
  BY <1>1, <1>2 DEF TablesTyped

(* Type correctness: first what each way of moving a handler does to the   *)
(* handlers' variables.                                                    *)

LEMMA GotoTyped ==
  ASSUME HandlersTyped, FailuresTyped, NEW w \in Workers,
         pc[w] \in PairSteps, NEW step \in PairSteps, Goto(w, step)
  PROVE  HandlersTyped' /\ FailuresTyped'
BY DEF HandlersTyped, FailuresTyped, failures, Goto, PairSteps, GroupSteps

LEMMA GotoWithTyped ==
  ASSUME HandlersTyped, FailuresTyped, NEW w \in Workers, NEW step, NEW s \in SessionIds,
         \/ pc[w] \in PairSteps /\ step \in PairSteps
         \/ pc[w] \in GroupSteps /\ step \in GroupSteps,
         GotoWith(w, step, s)
  PROVE  HandlersTyped' /\ FailuresTyped'
BY DEF HandlersTyped, FailuresTyped, failures, GotoWith, PairSteps, GroupSteps

LEMMA IdleTyped ==
  ASSUME HandlersTyped, NEW w \in Workers, Idle(w)
  PROVE  HandlersTyped'
BY DEF HandlersTyped, Idle, PairSteps, GroupSteps

LEMMA ReplyTyped ==
  ASSUME HandlersTyped, FailuresTyped, NEW w \in Workers, Reply(w)
  PROVE  HandlersTyped' /\ FailuresTyped'
BY IdleTyped DEF FailuresTyped, failures, Reply

LEMMA StartTyped ==
  ASSUME TypeOK, NEW w \in Workers, NEW step, NEW r,
         \/ step \in PairSteps /\ r \in PairRequest
         \/ step \in GroupSteps /\ r \in GroupRequest,
         Start(w, step, r)
  PROVE  TypeOK'
<1>1. TablesTyped'
  BY DEF TypeOK, TablesTyped, Start, tables
<1>2. HandlersTyped'
  BY DEF TypeOK, HandlersTyped, Start, PairSteps, GroupSteps
<1>3. FailuresTyped'
  BY DEF TypeOK, FailuresTyped, Start, failures
<1> QED
  BY <1>1, <1>2, <1>3 DEF TypeOK

LEMMA AllIdleTyped ==
  ASSUME pc' = [x \in Workers |-> "idle"], req' = [x \in Workers |-> NoRequest],
         cssid' = [x \in Workers |-> NoSession]
  PROVE  HandlersTyped'
BY DEF HandlersTyped, PairSteps, GroupSteps

(* The two requests of a pair of users are two different rows. *)
LEMMA PairRequestOK ==
  ASSUME NEW r \in PairRequest
  PROVE  /\ r.uid \in Users /\ r.pid \in Users /\ r.uid # r.pid
         /\ r.agree \in BOOLEAN
         /\ <<r.uid, r.pid>> \in Pairs /\ <<r.pid, r.uid>> \in Pairs
BY DEF PairRequest, Pairs

LEMMA InitTypeOK == Init => TypeOK
<1> SUFFICES ASSUME Init PROVE TypeOK
  OBVIOUS
<1>1. TablesTyped
  BY DEF Init, TablesTyped, NoRows
<1>2. HandlersTyped
  BY DEF Init, HandlersTyped, PairSteps, GroupSteps
<1>3. FailuresTyped
  BY DEF Init, FailuresTyped
<1> QED
  BY <1>1, <1>2, <1>3 DEF TypeOK

(* Each step keeps the type invariant. *)
LEMMA StepTypeOK == TypeOK /\ [Next]_vars => TypeOK'
<1> SUFFICES ASSUME TypeOK, [Next]_vars PROVE TypeOK'
  OBVIOUS
<1> USE DEF TypeOK
<1>1. ASSUME NEW w \in Workers, NewRequest(w) PROVE TypeOK'
  <2>1. CASE FriendAdd(w)
    BY <2>1, StartTyped DEF FriendAdd, PairSteps
  <2>2. CASE FriendAddProcess(w)
    BY <2>2, StartTyped DEF FriendAddProcess, PairSteps
  <2>3. CASE FriendRemove(w)
    BY <2>3, StartTyped DEF FriendRemove, PairSteps
  <2>4. CASE ChatSessionCreate(w)
    BY <2>4, StartTyped DEF ChatSessionCreate, GroupSteps, GroupRequest
  <2> QED BY <1>1, <2>1, <2>2, <2>3, <2>4 DEF NewRequest
<1>2. ASSUME NEW w \in Workers, HandlerStep(w) PROVE TypeOK'
  <2>1. CASE AddRelationExists(w) \/ AddApplyExists(w) \/ ProcessApplyExists(w)
    <3>1. TablesTyped'
      BY <2>1 DEF AddRelationExists, AddApplyExists, ProcessApplyExists, tables, TablesTyped
    <3>2. pc[w] \in PairSteps
      BY <2>1 DEF AddRelationExists, AddApplyExists, ProcessApplyExists, PairSteps
    <3>3. Reply(w) \/ \E step \in PairSteps : Goto(w, step)
      BY <2>1 DEF AddRelationExists, AddApplyExists, ProcessApplyExists, PairSteps
    <3> QED
      BY <3>1, <3>2, <3>3, ReplyTyped, GotoTyped
  <2>2. CASE AddApplyInsert(w)
    <3>1. req[w] \in PairRequest
      BY <2>2 DEF HandlersTyped, AddApplyInsert, PairSteps
    <3>2. friend_apply' \in [Pairs -> Nat]
      BY <2>2, <3>1, RowInsertTyped DEF AddApplyInsert
    <3>3. TablesTyped'
      BY <2>2, <3>2 DEF TablesTyped, AddApplyInsert
    <3> QED
      BY <2>2, <3>3, ReplyTyped DEF AddApplyInsert
  <2>3. CASE ProcessApplyRemove(w)
    <3>1. pc[w] \in PairSteps /\ req[w] \in PairRequest
      BY <2>3 DEF HandlersTyped, ProcessApplyRemove, PairSteps
    <3>2. TablesTyped'
      BY <2>3, <3>1, PairRequestOK DEF TablesTyped, ProcessApplyRemove, ApplyRemove
    <3>3. Reply(w) \/ \E step \in PairSteps : Goto(w, step)
      BY <2>3 DEF ProcessApplyRemove, PairSteps
    <3> QED
      BY <3>1, <3>2, <3>3, ReplyTyped, GotoTyped
  <2>4. CASE ProcessRelationInsert(w) \/ RemoveRelation(w)
    <3>1. pc[w] \in PairSteps /\ req[w] \in PairRequest
      BY <2>4 DEF HandlersTyped, ProcessRelationInsert, RemoveRelation, PairSteps
    <3>2. CASE ProcessRelationInsert(w)
      <4>1. relation' \in [Pairs -> Nat]
        BY <3>1, <3>2, RowInsertTyped DEF ProcessRelationInsert
      <4>2. TablesTyped'
        BY <3>2, <4>1 DEF TablesTyped, ProcessRelationInsert
      <4> QED
        BY <3>1, <3>2, <4>2, GotoTyped DEF ProcessRelationInsert, PairSteps
    <3>3. CASE RemoveRelation(w)
      <4>1. TablesTyped'
        BY <3>1, <3>3 DEF TablesTyped, RemoveRelation, RelationRemove
      <4> QED
        BY <3>1, <3>3, <4>1, GotoTyped DEF RemoveRelation, PairSteps
    <3> QED
      BY <2>4, <3>2, <3>3
  <2>5. CASE ProcessSessionInsert(w)
    <3>1. TablesTyped'
      BY <2>5 DEF TablesTyped, ProcessSessionInsert, SessionInsert
    <3> QED
      BY <2>5, <3>1, GotoWithTyped DEF ProcessSessionInsert, PairSteps
  <2>6. CASE CreateSessionInsert(w)
    <3>1. TablesTyped'
      BY <2>6 DEF TablesTyped, CreateSessionInsert, SessionInsert
    <3> QED
      BY <2>6, <3>1, GotoWithTyped DEF CreateSessionInsert, GroupSteps
  <2>7. CASE ProcessMemberAppend(w)
    <3>1. Both(req[w]) \in [Users -> Nat]
      BY DEF Both
    <3>2. TablesTyped'
      BY <2>7, <3>1, MemberAppendTyped DEF TablesTyped, ProcessMemberAppend
    <3> QED
      BY <2>7, <3>2, ReplyTyped DEF ProcessMemberAppend
  <2>8. CASE CreateMemberAppend(w)
    <3>1. req[w].list \in [Users -> Nat]
      BY <2>8, FriendAssumption DEF HandlersTyped, CreateMemberAppend, GroupSteps, GroupRequest
    <3>2. TablesTyped'
      BY <2>8, <3>1, MemberAppendTyped DEF TablesTyped, CreateMemberAppend
    <3> QED
      BY <2>8, <3>2, ReplyTyped DEF CreateMemberAppend
  <2>9. CASE RemoveSessionFind(w)
    <3>1. TablesTyped'
      BY <2>9 DEF TablesTyped, RemoveSessionFind, tables
    <3> QED
      BY <2>9, <3>1, GotoWithTyped DEF RemoveSessionFind, PairSteps
  <2>10. CASE RemoveSessionFindNone(w)
    BY <2>10, AllIdleTyped DEF RemoveSessionFindNone, ProcessAborts, tables, TablesTyped, FailuresTyped
  <2>11. CASE RemoveSessionFindMany(w)
    BY <2>11, AllIdleTyped DEF RemoveSessionFindMany, ProcessAborts, tables, TablesTyped, FailuresTyped
  <2>12. CASE RemoveSessionErase(w)
    <3>1. TablesTyped'
      BY <2>12 DEF TablesTyped, RemoveSessionErase, SessionErase, NoRows
    <3> QED
      BY <2>12, <3>1, ReplyTyped DEF RemoveSessionErase
  <2> QED
    BY <1>2, <2>1, <2>2, <2>3, <2>4, <2>5, <2>6, <2>7, <2>8, <2>9, <2>10, <2>11, <2>12
    DEF HandlerStep
<1>3. ASSUME NEW w \in Workers, TableCallFails(w) PROVE TypeOK'
  BY <1>3, IdleTyped DEF TableCallFails, CountFault, tables, TablesTyped, FailuresTyped
<1>4. ASSUME NEW w \in Workers, ExistsFails(w) PROVE TypeOK'
  <2>1. HandlersTyped'
    BY <1>4 DEF ExistsFails, HandlersTyped, PairSteps, GroupSteps
  <2> QED
    BY <1>4, <2>1 DEF ExistsFails, CountFault, tables, TablesTyped, FailuresTyped
<1>5. CASE ProcessKilled
  BY <1>5, AllIdleTyped DEF ProcessKilled, tables, TablesTyped, FailuresTyped
<1>6. CASE UNCHANGED vars
  BY <1>6 DEF vars, tables, handlers, failures, TablesTyped, HandlersTyped, FailuresTyped
<1> QED
  BY <1>1, <1>2, <1>3, <1>4, <1>5, <1>6 DEF Next

(* The tables hold counts of rows, and a handler between two table calls   *)
(* holds a request of the kind its next call needs, whatever fails or dies *)
(* in between.                                                             *)
THEOREM TypeCorrect == Spec => []TypeOK
BY InitTypeOK, StepTypeOK, PTL DEF Spec

-----------------------------------------------------------------------------
(* Symmetry of friendship. *)

LEMMA InsertKeepsSymmetry ==
  ASSUME TablesTyped, RelationSymmetric, NEW r \in PairRequest,
         RelationInsert(r.uid, r.pid)
  PROVE  RelationSymmetric'
<1> DEFINE a == <<r.uid, r.pid>>
           b == <<r.pid, r.uid>>
<1>1. a \in Pairs /\ b \in Pairs /\ a # b
  BY DEF PairRequest, Pairs
<1>2. relation' = [relation EXCEPT ![a] = @ + 1, ![b] = @ + 1]
  BY DEF RelationInsert
<1>3. \A x, y \in Users : (<<x, y>> \in {a, b}) <=> (<<y, x>> \in {a, b})
  OBVIOUS
<1> HIDE DEF a, b
<1>4. \A z \in Pairs : relation'[z] = IF z \in {a, b} THEN relation[z] + 1 ELSE relation[z]
  BY <1>1, <1>2 DEF TablesTyped
<1>5. \A x, y \in Users : <<x, y>> \in Pairs
  BY DEF Pairs
<1> SUFFICES ASSUME NEW x \in Users, NEW y \in Users
             PROVE  relation'[<<x, y>>] = relation'[<<y, x>>]
  BY DEF RelationSymmetric
<1>6. relation[<<x, y>>] = relation[<<y, x>>]
  BY DEF RelationSymmetric
<1>7. (<<x, y>> \in {a, b}) <=> (<<y, x>> \in {a, b})
  BY <1>3
<1>8. <<x, y>> \in Pairs /\ <<y, x>> \in Pairs
  BY <1>5
<1> QED
  BY <1>4, <1>6, <1>7, <1>8

LEMMA RemoveKeepsSymmetry ==
  ASSUME TablesTyped, RelationSymmetric, NEW r \in PairRequest,
         RelationRemove(r.uid, r.pid)
  PROVE  RelationSymmetric'
<1> DEFINE a == <<r.uid, r.pid>>
           b == <<r.pid, r.uid>>
<1>1. a \in Pairs /\ b \in Pairs
  BY DEF PairRequest, Pairs
<1>2. relation' = [relation EXCEPT ![a] = 0, ![b] = 0]
  BY DEF RelationRemove
<1>3. \A x, y \in Users : (<<x, y>> \in {a, b}) <=> (<<y, x>> \in {a, b})
  OBVIOUS
<1> HIDE DEF a, b
<1>4. \A z \in Pairs : relation'[z] = IF z \in {a, b} THEN 0 ELSE relation[z]
  BY <1>1, <1>2 DEF TablesTyped
<1>5. \A x, y \in Users : <<x, y>> \in Pairs
  BY DEF Pairs
<1> SUFFICES ASSUME NEW x \in Users, NEW y \in Users
             PROVE  relation'[<<x, y>>] = relation'[<<y, x>>]
  BY DEF RelationSymmetric
<1>6. relation[<<x, y>>] = relation[<<y, x>>]
  BY DEF RelationSymmetric
<1>7. (<<x, y>> \in {a, b}) <=> (<<y, x>> \in {a, b})
  BY <1>3
<1>8. <<x, y>> \in Pairs /\ <<y, x>> \in Pairs
  BY <1>5
<1> QED
  BY <1>4, <1>6, <1>7, <1>8

(* Two steps write the table relation; every other leaves it alone. *)
LEMMA RelationWriters ==
  ASSUME [Next]_vars
  PROVE  \/ UNCHANGED relation
         \/ \E w \in Workers : ProcessRelationInsert(w) \/ RemoveRelation(w)
<1>1. ASSUME NEW w \in Workers, NewRequest(w) PROVE UNCHANGED relation
  BY <1>1 DEF NewRequest, FriendAdd, FriendAddProcess, FriendRemove, ChatSessionCreate,
              Start, tables
<1>2. ASSUME NEW w \in Workers, HandlerStep(w), ~ProcessRelationInsert(w), ~RemoveRelation(w)
      PROVE  UNCHANGED relation
  BY <1>2 DEF HandlerStep, AddRelationExists, AddApplyExists, AddApplyInsert,
       ProcessApplyExists, ProcessApplyRemove, ProcessSessionInsert, ProcessMemberAppend,
       RemoveSessionFind, RemoveSessionFindNone, RemoveSessionFindMany, RemoveSessionErase,
       ProcessAborts, CreateSessionInsert, CreateMemberAppend, tables
<1>3. ASSUME NEW w \in Workers, TableCallFails(w) \/ ExistsFails(w) PROVE UNCHANGED relation
  BY <1>3 DEF TableCallFails, ExistsFails, tables
<1>4. CASE ProcessKilled \/ UNCHANGED vars
  BY <1>4 DEF ProcessKilled, tables, vars
<1> QED
  BY <1>1, <1>2, <1>3, <1>4 DEF Next

(* RelationTable::insert and ::remove each write both directions in one    *)
(* transaction: a user's friends always have that user as a friend.        *)
THEOREM FriendshipIsSymmetric == Spec => []RelationSymmetric
<1>1. Init => RelationSymmetric
  BY DEF Init, RelationSymmetric, Pairs
<1>2. TypeOK /\ RelationSymmetric /\ [Next]_vars => RelationSymmetric'
  <2> SUFFICES ASSUME TypeOK, RelationSymmetric, [Next]_vars PROVE RelationSymmetric'
    OBVIOUS
  <2>1. ASSUME NEW w \in Workers, ProcessRelationInsert(w) PROVE RelationSymmetric'
    <3>1. req[w] \in PairRequest
      BY <2>1 DEF TypeOK, HandlersTyped, ProcessRelationInsert, PairSteps
    <3> QED
      BY <2>1, <3>1, InsertKeepsSymmetry DEF TypeOK, ProcessRelationInsert
  <2>2. ASSUME NEW w \in Workers, RemoveRelation(w) PROVE RelationSymmetric'
    <3>1. req[w] \in PairRequest
      BY <2>2 DEF TypeOK, HandlersTyped, RemoveRelation, PairSteps
    <3> QED
      BY <2>2, <3>1, RemoveKeepsSymmetry DEF TypeOK, RemoveRelation
  <2>3. CASE UNCHANGED relation
    BY <2>3 DEF RelationSymmetric
  <2> QED
    BY <2>1, <2>2, <2>3, RelationWriters
<1> QED
  BY <1>1, <1>2, TypeCorrect, PTL DEF Spec

-----------------------------------------------------------------------------
(* Sessions and their members.  What a step does to the two session tables *)
(* is one of five things.                                                  *)

NoFailure == faults = 0 /\ crashes = 0 /\ ~aborted

HoldSteps == AppendSteps \cup {"remove_session_erase"}

OthersStay(w) ==
  /\ \A x \in Workers \ {w} : pc'[x] = pc[x] /\ cssid'[x] = cssid[x]
  /\ NoFailure' => NoFailure

(* Nothing; nobody gets hold of a session, and only a failure makes an     *)
(* appending handler let go of its own.                                    *)
Quiet ==
  /\ UNCHANGED <<chat_session, chat_session_member>>
  /\ \A x \in Workers : pc'[x] \in HoldSteps => pc'[x] = pc[x] /\ cssid'[x] = cssid[x]
  /\ NoFailure' =>
       /\ NoFailure
       /\ \A x \in Workers : pc[x] \in AppendSteps => pc'[x] = pc[x] /\ cssid'[x] = cssid[x]

Opens(w, s) ==
  /\ chat_session[s] = "unused"
  /\ \/ /\ chat_session' = [chat_session EXCEPT ![s] = "SINGLE"]
        /\ pc'[w] = "process_member_append"
     \/ /\ chat_session' = [chat_session EXCEPT ![s] = "GROUP"]
        /\ pc'[w] = "create_member_append"
  /\ UNCHANGED chat_session_member
  /\ cssid'[w] = s
  /\ pc[w] \notin HoldSteps
  /\ OthersStay(w)

Fills(w, list) ==
  /\ pc[w] \in AppendSteps
  /\ pc[w] = "process_member_append" => \E r \in PairRequest : list = Both(r)
  /\ UNCHANGED chat_session
  /\ MemberAppend(cssid[w], list)
  /\ pc'[w] = "idle"
  /\ OthersStay(w)

Finds(w, s) ==
  /\ chat_session[s] = "SINGLE" /\ chat_session_member[s] # NoRows
  /\ UNCHANGED <<chat_session, chat_session_member>>
  /\ pc[w] \notin HoldSteps
  /\ pc'[w] = "remove_session_erase" /\ cssid'[w] = s
  /\ OthersStay(w)

Erases(w) ==
  /\ pc[w] = "remove_session_erase"
  /\ SessionErase(cssid[w])
  /\ pc'[w] = "idle"
  /\ OthersStay(w)

SessionStep ==
  \/ Quiet
  \/ \E w \in Workers, s \in SessionIds : Opens(w, s) \/ Finds(w, s)
  \/ \E w \in Workers, list \in [Users -> Nat] : Fills(w, list)
  \/ \E w \in Workers : Erases(w)

(* A handler that answers lets go of what it holds, and the others do not  *)
(* notice.                                                                 *)
LEMMA ReplyEffect ==
  ASSUME TypeOK, NEW w \in Workers, Reply(w)
  PROVE  pc'[w] = "idle" /\ OthersStay(w)
BY DEF TypeOK, HandlersTyped, Reply, Idle, failures, OthersStay, NoFailure

LEMMA ReplyIsQuiet ==
  ASSUME TypeOK, NEW w \in Workers, Reply(w), pc[w] \notin AppendSteps,
         UNCHANGED <<chat_session, chat_session_member>>
  PROVE  Quiet
BY ReplyEffect DEF Quiet, OthersStay, HoldSteps, AppendSteps

LEMMA GotoIsQuiet ==
  ASSUME TypeOK, NEW w \in Workers, NEW step \in PairSteps \ HoldSteps, Goto(w, step),
         pc[w] \notin AppendSteps,
         UNCHANGED <<chat_session, chat_session_member>>
  PROVE  Quiet
BY DEF TypeOK, HandlersTyped, Goto, failures, NoFailure, Quiet, HoldSteps, AppendSteps

LEMMA StartIsQuiet ==
  ASSUME TypeOK, NEW w \in Workers, NEW step, step \notin HoldSteps, NEW r, Start(w, step, r)
  PROVE  Quiet
BY DEF TypeOK, HandlersTyped, Start, tables, failures, NoFailure, Quiet, HoldSteps, AppendSteps

LEMMA GotoWithEffect ==
  ASSUME TypeOK, NEW w \in Workers, NEW step, NEW s, GotoWith(w, step, s)
  PROVE  pc'[w] = step /\ cssid'[w] = s /\ OthersStay(w)
BY DEF TypeOK, HandlersTyped, GotoWith, failures, OthersStay, NoFailure

LEMMA BothHasRows ==
  ASSUME NEW r \in PairRequest
  PROVE  Both(r) # NoRows /\ Both(r) \in [Users -> Nat]
<1>1. r.uid \in Users
  BY DEF PairRequest
<1>2. Both(r)[r.uid] = 1 /\ NoRows[r.uid] = 0
  BY <1>1 DEF Both, NoRows
<1> QED
  BY <1>2 DEF Both

LEMMA EveryStepIsSessionStep ==
  ASSUME TypeOK, [Next]_vars
  PROVE  SessionStep
<1>1. ASSUME NEW w \in Workers, NewRequest(w) PROVE Quiet
  <2>1. \E step, r : step \notin HoldSteps /\ Start(w, step, r)
    BY <1>1 DEF NewRequest, FriendAdd, FriendAddProcess, FriendRemove, ChatSessionCreate,
         HoldSteps, AppendSteps
  <2> QED
    BY <2>1, StartIsQuiet
<1>2. ASSUME NEW w \in Workers, HandlerStep(w) PROVE SessionStep
  <2>1. CASE \/ AddRelationExists(w) \/ AddApplyExists(w) \/ AddApplyInsert(w)
             \/ ProcessApplyExists(w) \/ ProcessApplyRemove(w) \/ ProcessRelationInsert(w)
             \/ RemoveRelation(w)
    <3>1. pc[w] \notin AppendSteps /\ UNCHANGED <<chat_session, chat_session_member>>
      BY <2>1 DEF AddRelationExists, AddApplyExists, AddApplyInsert, ProcessApplyExists,
           ProcessApplyRemove, ProcessRelationInsert, RemoveRelation,
           AppendSteps, tables
    <3>2. Reply(w) \/ \E step \in PairSteps \ HoldSteps : Goto(w, step)
      BY <2>1 DEF AddRelationExists, AddApplyExists, AddApplyInsert, ProcessApplyExists,
           ProcessApplyRemove, ProcessRelationInsert, RemoveRelation,
           PairSteps, HoldSteps, AppendSteps
    <3> QED
      BY <3>1, <3>2, ReplyIsQuiet, GotoIsQuiet DEF SessionStep
  <2>2. CASE ProcessSessionInsert(w)
    <3> PICK s \in SessionIds : /\ SessionInsert(s, "SINGLE")
                                /\ GotoWith(w, "process_member_append", s)
      BY <2>2 DEF ProcessSessionInsert
    <3>1. pc[w] \notin HoldSteps /\ UNCHANGED chat_session_member
      BY <2>2 DEF ProcessSessionInsert, HoldSteps, AppendSteps
    <3> QED
      BY <3>1, GotoWithEffect DEF SessionStep, Opens, SessionInsert, Unused
  <2>3. CASE CreateSessionInsert(w)
    <3> PICK s \in SessionIds : /\ SessionInsert(s, "GROUP")
                                /\ GotoWith(w, "create_member_append", s)
      BY <2>3 DEF CreateSessionInsert
    <3>1. pc[w] \notin HoldSteps /\ UNCHANGED chat_session_member
      BY <2>3 DEF CreateSessionInsert, HoldSteps, AppendSteps
    <3> QED
      BY <3>1, GotoWithEffect DEF SessionStep, Opens, SessionInsert, Unused
  <2>4. CASE ProcessMemberAppend(w)
    <3>1. req[w] \in PairRequest
      BY <2>4 DEF TypeOK, HandlersTyped, ProcessMemberAppend, PairSteps
    <3>2. Both(req[w]) \in [Users -> Nat]
      BY <3>1, BothHasRows
    <3>3. Fills(w, Both(req[w]))
      BY <2>4, <3>1, ReplyEffect DEF ProcessMemberAppend, Fills, AppendSteps
    <3> QED
      BY <3>2, <3>3 DEF SessionStep
  <2>5. CASE CreateMemberAppend(w)
    <3>1. req[w].list \in [Users -> Nat]
      BY <2>5, FriendAssumption
      DEF TypeOK, HandlersTyped, CreateMemberAppend, GroupSteps, GroupRequest
    <3>2. Fills(w, req[w].list)
      BY <2>5, ReplyEffect DEF CreateMemberAppend, Fills, AppendSteps
    <3> QED
      BY <3>1, <3>2 DEF SessionStep
  <2>6. CASE RemoveSessionFind(w)
    <3> PICK s \in SessionIds : /\ SingleSessions(req[w].uid, req[w].pid) = {s}
                                /\ GotoWith(w, "remove_session_erase", s)
      BY <2>6 DEF RemoveSessionFind
    <3>1. pc[w] \notin HoldSteps /\ UNCHANGED <<chat_session, chat_session_member>>
      BY <2>6 DEF RemoveSessionFind, HoldSteps, AppendSteps, tables
    <3>2. req[w].uid \in Users
      BY <2>6 DEF TypeOK, HandlersTyped, RemoveSessionFind, PairSteps, PairRequest
    <3>3. chat_session[s] = "SINGLE" /\ chat_session_member[s][req[w].uid] > 0
      BY DEF SingleSessions
    <3>4. chat_session_member[s] # NoRows
      BY <3>2, <3>3 DEF NoRows
    <3> QED
      BY <3>1, <3>3, <3>4, GotoWithEffect DEF SessionStep, Finds
  <2>7. CASE RemoveSessionFindNone(w) \/ RemoveSessionFindMany(w)
    BY <2>7 DEF RemoveSessionFindNone, RemoveSessionFindMany, ProcessAborts, tables, SessionStep, Quiet, HoldSteps, AppendSteps,
         NoFailure
  <2>8. CASE RemoveSessionErase(w)
    BY <2>8, ReplyEffect DEF RemoveSessionErase, SessionStep, Erases
  <2> QED
    BY <1>2, <2>1, <2>2, <2>3, <2>4, <2>5, <2>6, <2>7, <2>8 DEF HandlerStep
<1>3. ASSUME NEW w \in Workers, TableCallFails(w) PROVE Quiet
  BY <1>3 DEF TableCallFails, CountFault, Idle, tables, TypeOK, HandlersTyped, FailuresTyped,
       Quiet, HoldSteps, AppendSteps, NoFailure
<1>4. ASSUME NEW w \in Workers, ExistsFails(w) PROVE Quiet
  BY <1>4 DEF ExistsFails, CountFault, tables, TypeOK, HandlersTyped, FailuresTyped,
       Quiet, HoldSteps, AppendSteps, NoFailure
<1>5. CASE ProcessKilled
  BY <1>5 DEF ProcessKilled, tables, TypeOK, FailuresTyped, SessionStep,
       Quiet, HoldSteps, AppendSteps, NoFailure
<1>6. CASE UNCHANGED vars
  BY <1>6 DEF vars, tables, handlers, failures, SessionStep, Quiet, NoFailure
<1> QED
  BY <1>1, <1>2, <1>3, <1>4, <1>5, <1>6 DEF Next, SessionStep

LEMMA QuietKeepsSessions ==
  ASSUME SessionInv, Quiet
  PROVE  SessionInv'
<1> USE DEF SessionInv, Quiet, HoldSteps, AppendSteps
<1>1. NoDanglingMembers' /\ SingleSessionsArePairs'
  BY DEF NoDanglingMembers, SingleSessionsArePairs, HasRow
<1>2. AppendersHoldEmptySessions' /\ AppendersHoldDifferentSessions'
  BY DEF AppendersHoldEmptySessions, AppendersHoldDifferentSessions
<1>3. ErasersHoldPairs'
  BY DEF ErasersHoldPairs
<1> QED
  BY <1>1, <1>2, <1>3

LEMMA OpensKeepsSessions ==
  ASSUME TypeOK, SessionInv, NEW w \in Workers, NEW s \in SessionIds, Opens(w, s)
  PROVE  SessionInv'
<1> USE DEF SessionInv, Opens, OthersStay, TypeOK, TablesTyped
<1>1. chat_session_member[s] = NoRows
  BY DEF NoDanglingMembers, HasRow
<1>2. /\ chat_session'[s] \in {"SINGLE", "GROUP"}
      /\ \A t \in SessionIds \ {s} : chat_session'[t] = chat_session[t]
  OBVIOUS
<1>3. NoDanglingMembers' /\ SingleSessionsArePairs'
  BY <1>1, <1>2 DEF NoDanglingMembers, SingleSessionsArePairs, HasRow
<1>4. \A x \in Workers \ {w} : pc[x] \in HoldSteps => cssid[x] # s
  BY DEF AppendersHoldEmptySessions, ErasersHoldPairs, HoldSteps, AppendSteps
<1>5. AppendersHoldEmptySessions' /\ AppendersHoldDifferentSessions'
  <2>1. cssid'[w] = s /\ chat_session_member'[s] = NoRows
        /\ chat_session'[s] = IF pc'[w] = "process_member_append" THEN "SINGLE" ELSE "GROUP"
    BY <1>1
  <2>2. ASSUME NEW x \in Workers \ {w}, pc'[x] \in AppendSteps
        PROVE  /\ pc[x] \in AppendSteps /\ cssid'[x] = cssid[x] /\ cssid[x] \in SessionIds \ {s}
               /\ chat_session'[cssid[x]] = chat_session[cssid[x]]
    BY <1>2, <1>4, <2>2 DEF AppendersHoldEmptySessions, HoldSteps
  <2>3. AppendersHoldEmptySessions'
    BY <2>1, <2>2 DEF AppendersHoldEmptySessions
  <2> QED
    BY <2>1, <2>2, <2>3 DEF AppendersHoldDifferentSessions
<1>6. ErasersHoldPairs'
  BY <1>2, <1>4 DEF ErasersHoldPairs, HoldSteps, AppendSteps
<1> QED
  BY <1>3, <1>5, <1>6

LEMMA FillsKeepsSessions ==
  ASSUME TypeOK, SessionInv, NEW w \in Workers, NEW list \in [Users -> Nat], Fills(w, list)
  PROVE  SessionInv'
<1> USE DEF SessionInv, Fills, OthersStay, TypeOK, TablesTyped
<1> DEFINE s == cssid[w]
<1>1. /\ s \in SessionIds
      /\ chat_session[s] = IF pc[w] = "process_member_append" THEN "SINGLE" ELSE "GROUP"
      /\ chat_session_member[s] = NoRows
  BY DEF AppendersHoldEmptySessions
<1>2. chat_session_member' = [chat_session_member EXCEPT ![s] = list]
  <2>1. [u \in Users |-> NoRows[u] + list[u]] = list
    BY DEF NoRows
  <2> QED
    BY <1>1, <2>1 DEF MemberAppend
<1>3. NoDanglingMembers' /\ SingleSessionsArePairs'
  <2>1. chat_session_member'[s] = list /\ chat_session'[s] = chat_session[s]
    BY <1>1, <1>2
  <2>2. \A t \in SessionIds \ {s} : chat_session_member'[t] = chat_session_member[t]
    BY <1>2
  <2>3. chat_session[s] = "SINGLE" => \E r \in PairRequest : list = Both(r)
    BY <1>1 DEF AppendSteps
  <2>4. NoDanglingMembers'
    BY <1>1, <2>1, <2>2 DEF NoDanglingMembers, HasRow
  <2>5. SingleSessionsArePairs'
    BY <2>1, <2>2, <2>3 DEF SingleSessionsArePairs
  <2> QED
    BY <2>4, <2>5
<1>4. \A x \in Workers \ {w} : pc[x] \in HoldSteps => cssid[x] # s
  <2>1. ASSUME NEW x \in Workers \ {w}, pc[x] = "remove_session_erase" PROVE cssid[x] # s
    BY <1>1, <2>1, BothHasRows DEF ErasersHoldPairs
  <2> QED
    BY <2>1 DEF AppendersHoldDifferentSessions, HoldSteps
<1>5. AppendersHoldEmptySessions' /\ AppendersHoldDifferentSessions'
  <2>1. ASSUME NEW x \in Workers, pc'[x] \in AppendSteps
        PROVE  /\ x # w /\ pc[x] = pc'[x] /\ cssid'[x] = cssid[x]
               /\ cssid[x] \in SessionIds \ {s}
               /\ chat_session_member'[cssid[x]] = chat_session_member[cssid[x]]
    BY <1>2, <1>4, <2>1 DEF AppendersHoldEmptySessions, HoldSteps, AppendSteps
  <2>2. AppendersHoldEmptySessions'
    BY <2>1 DEF AppendersHoldEmptySessions
  <2> QED
    BY <2>1, <2>2 DEF AppendersHoldDifferentSessions
<1>6. ErasersHoldPairs'
  BY <1>2, <1>4 DEF ErasersHoldPairs, HoldSteps, AppendSteps
<1> QED
  BY <1>3, <1>5, <1>6

LEMMA FindsKeepsSessions ==
  ASSUME SessionInv, NEW w \in Workers, NEW s \in SessionIds, Finds(w, s)
  PROVE  SessionInv'
<1> USE DEF SessionInv, Finds, OthersStay
<1>1. NoDanglingMembers' /\ SingleSessionsArePairs'
  BY DEF NoDanglingMembers, SingleSessionsArePairs, HasRow
<1>2. AppendersHoldEmptySessions' /\ AppendersHoldDifferentSessions'
  BY DEF AppendersHoldEmptySessions, AppendersHoldDifferentSessions, AppendSteps
<1>3. \E r \in PairRequest : chat_session_member[s] = Both(r)
  BY DEF SingleSessionsArePairs
<1>4. ErasersHoldPairs'
  BY <1>3 DEF ErasersHoldPairs
<1> QED
  BY <1>1, <1>2, <1>4

LEMMA ErasesKeepsSessions ==
  ASSUME TypeOK, SessionInv, NEW w \in Workers, Erases(w)
  PROVE  SessionInv'
<1> USE DEF SessionInv, Erases, SessionErase, OthersStay, TypeOK, TablesTyped
<1> DEFINE s == cssid[w]
<1>1. /\ s \in SessionIds
      /\ chat_session[s] = "erased" \/ chat_session_member[s] # NoRows
  BY BothHasRows DEF ErasersHoldPairs
<1>2. /\ chat_session'[s] = "erased" /\ chat_session_member'[s] = NoRows
      /\ \A t \in SessionIds \ {s} : /\ chat_session'[t] = chat_session[t]
                                     /\ chat_session_member'[t] = chat_session_member[t]
  BY <1>1
<1>3. NoDanglingMembers' /\ SingleSessionsArePairs'
  BY <1>2 DEF NoDanglingMembers, SingleSessionsArePairs, HasRow
<1>4. \A x \in Workers : pc[x] \in AppendSteps => cssid[x] # s
  BY <1>1 DEF AppendersHoldEmptySessions, AppendSteps
<1>5. AppendersHoldEmptySessions' /\ AppendersHoldDifferentSessions'
  BY <1>2, <1>4 DEF AppendersHoldEmptySessions, AppendersHoldDifferentSessions, AppendSteps
<1>6. ErasersHoldPairs'
  BY <1>2 DEF ErasersHoldPairs
<1> QED
  BY <1>3, <1>5, <1>6

LEMMA InitSessions == Init => SessionInv
BY DEF Init, SessionInv, NoDanglingMembers, SingleSessionsArePairs, AppendersHoldEmptySessions,
       AppendersHoldDifferentSessions, ErasersHoldPairs, AppendSteps

LEMMA StepSessions == TypeOK /\ SessionInv /\ [Next]_vars => SessionInv'
BY EveryStepIsSessionStep, QuietKeepsSessions, OpensKeepsSessions, FillsKeepsSessions,
   FindsKeepsSessions, ErasesKeepsSessions DEF SessionStep

LEMMA SessionsInductive == Spec => [](TypeOK /\ SessionInv)
<1>1. Init => SessionInv
  BY InitSessions
<1>2. TypeOK /\ SessionInv /\ [Next]_vars => SessionInv'
  BY StepSessions
<1> QED
  BY <1>1, <1>2, TypeCorrect, PTL DEF Spec

(* No interleaving of FriendAddProcess, ChatSessionCreate and FriendRemove *)
(* and no failure leaves member rows whose session is gone.                *)
THEOREM MembersHaveSessions == Spec => []NoDanglingMembers
<1>1. SessionInv => NoDanglingMembers
  BY DEF SessionInv
<1> QED
  BY <1>1, SessionsInductive, PTL

(* A private chat has its two users as members or, before FriendAddProcess *)
(* has come that far, nobody.                                              *)
THEOREM PrivateChatsArePairs == Spec => []SingleSessionsArePairs
<1>1. SessionInv => SingleSessionsArePairs
  BY DEF SessionInv
<1> QED
  BY <1>1, SessionsInductive, PTL

(* A group keeps its members: FriendRemove erases private chats only.      *)
THEOREM GroupsAreKept == Spec => GroupsKeepMembers
<1> DEFINE Kept ==
      \A s \in SessionIds :
        (chat_session[s] = "GROUP" /\ chat_session_member[s] # NoRows) =>
          /\ chat_session'[s] = "GROUP"
          /\ chat_session_member'[s] = chat_session_member[s]
<1>1. TypeOK /\ SessionInv /\ [Next]_vars => [Kept]_vars
  <2> SUFFICES ASSUME TypeOK, SessionInv, [Next]_vars PROVE Kept
    OBVIOUS
  <2> USE DEF TypeOK, TablesTyped, SessionInv
  <2>1. CASE Quiet
    BY <2>1 DEF Quiet
  <2>2. ASSUME NEW w \in Workers, NEW s \in SessionIds, Opens(w, s) \/ Finds(w, s) PROVE Kept
    BY <2>2 DEF Opens, Finds
  <2>3. ASSUME NEW w \in Workers, NEW list \in [Users -> Nat], Fills(w, list) PROVE Kept
    BY <2>3 DEF Fills, MemberAppend, AppendersHoldEmptySessions
  <2>4. ASSUME NEW w \in Workers, Erases(w) PROVE Kept
    BY <2>4 DEF Erases, SessionErase, ErasersHoldPairs
  <2> QED
    BY <2>1, <2>2, <2>3, <2>4, EveryStepIsSessionStep DEF SessionStep
<1> QED
  BY <1>1, SessionsInductive, PTL DEF Spec, GroupsKeepMembers

-----------------------------------------------------------------------------
(* Private chats that never got their members. *)

LEMMA StepMemberless ==
  ASSUME TypeOK, SessionInv, MemberlessOnlyByFailure, [Next]_vars
  PROVE  MemberlessOnlyByFailure'
<1> DEFINE Held(s) == \E w \in Workers : pc[w] = "process_member_append" /\ cssid[w] = s
           Memberless(s) == chat_session[s] = "SINGLE" /\ chat_session_member[s] = NoRows
<1> SUFFICES ASSUME NoFailure', NEW s \in SessionIds, Memberless(s)' PROVE Held(s)'
  BY DEF MemberlessOnlyByFailure, NoFailure
<1>1. ASSUME NoFailure, Memberless(s) PROVE Held(s)
  BY <1>1 DEF MemberlessOnlyByFailure, NoFailure
<1>2. CASE Quiet
  BY <1>1, <1>2 DEF Quiet, AppendSteps
<1>3. ASSUME NEW w \in Workers, NEW t \in SessionIds, Opens(w, t) PROVE Held(s)'
  <2>1. CASE s = t
    BY <1>3, <2>1 DEF Opens, TypeOK, TablesTyped
  <2>2. CASE s # t
    BY <1>1, <1>3, <2>2 DEF Opens, OthersStay, HoldSteps, AppendSteps, TypeOK, TablesTyped
  <2> QED
    BY <2>1, <2>2
<1>4. ASSUME NEW w \in Workers, NEW t \in SessionIds, Finds(w, t) PROVE Held(s)'
  BY <1>1, <1>4 DEF Finds, OthersStay, HoldSteps, AppendSteps
<1>5. ASSUME NEW w \in Workers, NEW list \in [Users -> Nat], Fills(w, list) PROVE Held(s)'
  <2> USE <1>5 DEF Fills, OthersStay
  <2>1. /\ cssid[w] \in SessionIds /\ chat_session_member[cssid[w]] = NoRows
        /\ pc[w] # "process_member_append" => chat_session[cssid[w]] = "GROUP"
    BY DEF SessionInv, AppendersHoldEmptySessions
  <2>2. chat_session_member' = [chat_session_member EXCEPT ![cssid[w]] = list]
    <3>1. [u \in Users |-> NoRows[u] + list[u]] = list
      BY DEF NoRows
    <3> QED
      BY <2>1, <3>1 DEF MemberAppend
  <2>3. s # cssid[w]
    BY <2>1, <2>2, BothHasRows DEF TypeOK, TablesTyped
  <2>4. Memberless(s)
    BY <2>2, <2>3
  <2> QED
    BY <1>1, <2>3, <2>4
<1>6. ASSUME NEW w \in Workers, Erases(w) PROVE Held(s)'
  <2>1. Memberless(s)
    BY <1>6 DEF Erases, SessionErase, TypeOK, TablesTyped
  <2> QED
    BY <1>1, <1>6, <2>1 DEF Erases, OthersStay
<1>7. CASE SessionStep
  BY <1>2, <1>3, <1>4, <1>5, <1>6, <1>7 DEF SessionStep
<1> QED
  BY <1>7, EveryStepIsSessionStep

(* While nothing has failed, a private chat without members has a handler  *)
(* of FriendAddProcess at work on it: concurrency alone orphans none.      *)
THEOREM OrphansNeedFailure == Spec => []MemberlessOnlyByFailure
<1>1. Init => MemberlessOnlyByFailure
  BY DEF Init, MemberlessOnlyByFailure
<1>2. TypeOK /\ SessionInv /\ MemberlessOnlyByFailure /\ [Next]_vars => MemberlessOnlyByFailure'
  BY StepMemberless
<1> QED
  BY <1>1, <1>2, SessionsInductive, PTL DEF Spec

-----------------------------------------------------------------------------
(* How many rows one application can have. *)

(* No new row, no new handler about to add one. *)
NoMore ==
  /\ friend_apply' \in [Pairs -> Nat]
  /\ \A p \in Pairs : friend_apply'[p] <= friend_apply[p]
  /\ \A x \in Workers : pc'[x] = "add_apply_insert" => pc[x] = "add_apply_insert" /\ req'[x] = req[x]
  /\ faults' \in Nat /\ faults' >= faults

LEMMA InsertingFinite ==
  ASSUME NEW p
  PROVE  /\ IsFiniteSet(Inserting(p)) /\ Cardinality(Inserting(p)) \in Nat
         /\ Cardinality(Inserting(p)) <= Cardinality(Workers)
         /\ Cardinality(Workers) \in Nat
<1>1. Inserting(p) \in SUBSET Workers
  BY DEF Inserting
<1> QED
  BY <1>1, FS_Subset, FS_CardinalityType, FriendAssumption

LEMMA InsertingFiniteNext ==
  ASSUME NEW p
  PROVE  /\ IsFiniteSet(Inserting(p)') /\ Cardinality(Inserting(p)') \in Nat
         /\ Cardinality(Inserting(p)') <= Cardinality(Workers)
<1>1. Inserting(p)' \in SUBSET Workers
  BY DEF Inserting
<1> QED
  BY <1>1, FS_Subset, FS_CardinalityType, FriendAssumption

LEMMA NoMoreKeepsCount ==
  ASSUME TypeOK, ApplicationsAndInserters, NoMore
  PROVE  ApplicationsAndInserters'
<1> SUFFICES ASSUME NEW p \in Pairs
             PROVE  friend_apply'[p] + Cardinality(Inserting(p)') <= Cardinality(Workers) + faults'
  BY DEF ApplicationsAndInserters, Inserting
<1>1. Inserting(p)' \in SUBSET Inserting(p)
  BY DEF Inserting, NoMore
<1>2. Cardinality(Inserting(p)') <= Cardinality(Inserting(p))
  BY <1>1, InsertingFinite, FS_Subset
<1>3. friend_apply[p] + Cardinality(Inserting(p)) <= Cardinality(Workers) + faults
  BY DEF ApplicationsAndInserters
<1> QED
  BY <1>2, <1>3, InsertingFinite, InsertingFiniteNext
  DEF NoMore, TypeOK, TablesTyped, FailuresTyped

LEMMA InsertKeepsCount ==
  ASSUME TypeOK, ApplicationsAndInserters, NEW w \in Workers, AddApplyInsert(w)
  PROVE  ApplicationsAndInserters'
<1>1. PICK q \in Pairs : q = <<req[w].uid, req[w].pid>>
  BY PairRequestOK DEF TypeOK, HandlersTyped, AddApplyInsert, PairSteps
<1>2. /\ friend_apply' = [friend_apply EXCEPT ![q] = @ + 1]
      /\ faults' = faults
      /\ pc' = [pc EXCEPT ![w] = "idle"] /\ req' = [req EXCEPT ![w] = NoRequest]
  BY <1>1 DEF AddApplyInsert, ApplyInsert, Reply, Idle, failures
<1>3. pc[w] = "add_apply_insert" /\ w \in Inserting(q)
  BY <1>1 DEF AddApplyInsert, Inserting
<1>4. \A p : Inserting(p)' = Inserting(p) \ {w}
  BY <1>2, <1>3 DEF Inserting, TypeOK, HandlersTyped
<1>5. \A p : p # q => Inserting(p)' = Inserting(p)
  BY <1>1, <1>4 DEF Inserting
<1>6. Cardinality(Inserting(q)') = Cardinality(Inserting(q)) - 1
  BY <1>3, <1>4, InsertingFinite, FS_RemoveElement
<1>7. ASSUME NEW p \in Pairs
      PROVE  friend_apply'[p] + Cardinality(Inserting(p)') <= Cardinality(Workers) + faults'
  <2>0. friend_apply[p] \in Nat
    BY DEF TypeOK, TablesTyped
  <2>1. friend_apply'[p] = friend_apply[p] + (IF p = q THEN 1 ELSE 0)
    <3>1. friend_apply'[p] = IF p = q THEN friend_apply[p] + 1 ELSE friend_apply[p]
      BY <1>2 DEF TypeOK, TablesTyped
    <3> QED
      BY <2>0, <3>1
  <2>2. friend_apply[p] + Cardinality(Inserting(p)) <= Cardinality(Workers) + faults
    BY DEF ApplicationsAndInserters
  <2>3. Cardinality(Inserting(p)') = Cardinality(Inserting(p)) - (IF p = q THEN 1 ELSE 0)
    BY <1>5, <1>6, InsertingFinite
  <2> QED
    BY <1>2, <2>0, <2>1, <2>2, <2>3, InsertingFinite DEF TypeOK, FailuresTyped
<1> QED
  BY <1>7 DEF ApplicationsAndInserters, Inserting

(* exists() found no row: then only the handlers past the check count.     *)
LEMMA CheckKeepsCount ==
  ASSUME TypeOK, ApplicationsAndInserters, NEW w \in Workers, AddApplyExists(w)
  PROVE  ApplicationsAndInserters'
<1>1. CASE ApplyExists(req[w].uid, req[w].pid)
  <2>1. NoMore
    BY <1>1 DEF AddApplyExists, Reply, Idle, tables, failures, NoMore, TypeOK, TablesTyped,
         HandlersTyped, FailuresTyped
  <2> QED
    BY <2>1, NoMoreKeepsCount
<1>2. CASE ~ApplyExists(req[w].uid, req[w].pid)
  <2>1. PICK q \in Pairs : q = <<req[w].uid, req[w].pid>>
    BY PairRequestOK DEF TypeOK, HandlersTyped, AddApplyExists, PairSteps
  <2>2. /\ friend_apply[q] = 0
        /\ friend_apply' = friend_apply /\ faults' = faults
        /\ pc' = [pc EXCEPT ![w] = "add_apply_insert"] /\ req' = req
    BY <1>2, <2>1 DEF AddApplyExists, ApplyExists, Goto, tables, failures, TypeOK, TablesTyped
  <2>3. \A p : p # q => Inserting(p)' \in SUBSET Inserting(p)
    BY <2>1, <2>2 DEF Inserting, TypeOK, HandlersTyped
  <2>4. ASSUME NEW p \in Pairs
        PROVE  friend_apply'[p] + Cardinality(Inserting(p)') <= Cardinality(Workers) + faults'
    <3>1. CASE p = q
      BY <2>2, <3>1, InsertingFinite, InsertingFiniteNext DEF TypeOK, FailuresTyped
    <3>2. CASE p # q
      <4>1. Cardinality(Inserting(p)') <= Cardinality(Inserting(p))
        BY <2>3, <3>2, InsertingFinite, FS_Subset
      <4>2. friend_apply[p] + Cardinality(Inserting(p)) <= Cardinality(Workers) + faults
        BY DEF ApplicationsAndInserters
      <4>3. friend_apply[p] \in Nat
        BY DEF TypeOK, TablesTyped
      <4> QED
        BY <2>2, <4>1, <4>2, <4>3, InsertingFinite, InsertingFiniteNext DEF TypeOK, FailuresTyped
    <3> QED
      BY <3>1, <3>2
  <2> QED
    BY <2>4 DEF ApplicationsAndInserters, Inserting
<1> QED
  BY <1>1, <1>2

(* exists() threw: one handler more past the check, one fault more. *)
LEMMA FaultKeepsCount ==
  ASSUME TypeOK, ApplicationsAndInserters, NEW w \in Workers, ExistsFails(w)
  PROVE  ApplicationsAndInserters'
<1>1. faults' = faults + 1 /\ friend_apply' = friend_apply
  BY DEF ExistsFails, CountFault, tables
<1>2. \A p : Inserting(p)' \in SUBSET (Inserting(p) \cup {w})
  BY DEF ExistsFails, Inserting, TypeOK, HandlersTyped
<1>3. ASSUME NEW p \in Pairs
      PROVE  friend_apply'[p] + Cardinality(Inserting(p)') <= Cardinality(Workers) + faults'
  <2>1. /\ IsFiniteSet(Inserting(p) \cup {w})
        /\ Cardinality(Inserting(p) \cup {w}) \in Nat
        /\ Cardinality(Inserting(p) \cup {w}) <= Cardinality(Inserting(p)) + 1
    BY InsertingFinite, FS_AddElement
  <2>2. Cardinality(Inserting(p)') <= Cardinality(Inserting(p) \cup {w})
    BY <1>2, <2>1, FS_Subset
  <2>3. friend_apply[p] + Cardinality(Inserting(p)) <= Cardinality(Workers) + faults
    BY DEF ApplicationsAndInserters
  <2>4. friend_apply[p] \in Nat
    BY DEF TypeOK, TablesTyped
  <2> QED
    BY <1>1, <2>1, <2>2, <2>3, <2>4, InsertingFinite, InsertingFiniteNext DEF TypeOK, FailuresTyped
<1> QED
  BY <1>3 DEF ApplicationsAndInserters, Inserting

LEMMA StepCount ==
  ASSUME TypeOK, ApplicationsAndInserters, [Next]_vars
  PROVE  ApplicationsAndInserters'
<1> USE DEF TypeOK, TablesTyped, HandlersTyped, FailuresTyped, NoMore
<1>1. ASSUME NEW w \in Workers, NewRequest(w) PROVE NoMore
  <2>1. \E step, r : step # "add_apply_insert" /\ Start(w, step, r)
    BY <1>1 DEF NewRequest, FriendAdd, FriendAddProcess, FriendRemove, ChatSessionCreate
  <2> QED
    BY <1>1, <2>1 DEF Start, tables, failures
<1>2. ASSUME NEW w \in Workers, HandlerStep(w), ~AddApplyInsert(w), ~AddApplyExists(w) PROVE NoMore
  <2>1. \/ Idle(w) /\ faults' = faults
        \/ \E step : step # "add_apply_insert" /\ Goto(w, step)
        \/ \E step, s : step # "add_apply_insert" /\ GotoWith(w, step, s)
        \/ ProcessAborts
    BY <1>2 DEF HandlerStep, AddRelationExists, ProcessApplyExists, ProcessApplyRemove,
         ProcessRelationInsert, ProcessSessionInsert, ProcessMemberAppend, RemoveRelation,
         RemoveSessionFind, RemoveSessionFindNone, RemoveSessionFindMany, RemoveSessionErase,
         CreateSessionInsert, CreateMemberAppend, Reply, failures
  <2>2. UNCHANGED friend_apply \/ \E u, p : ApplyRemove(u, p)
    BY <1>2 DEF HandlerStep, AddRelationExists, ProcessApplyExists, ProcessApplyRemove,
         ProcessRelationInsert, ProcessSessionInsert, ProcessMemberAppend, RemoveRelation,
         RemoveSessionFind, RemoveSessionFindNone, RemoveSessionFindMany, RemoveSessionErase,
         ProcessAborts, CreateSessionInsert, CreateMemberAppend, tables
  <2>3. friend_apply' \in [Pairs -> Nat] /\ \A p \in Pairs : friend_apply'[p] <= friend_apply[p]
    <3>1. UNCHANGED friend_apply \/ \E q : friend_apply' = [friend_apply EXCEPT ![q] = 0]
      BY <2>2 DEF ApplyRemove
    <3> QED
      BY <3>1
  <2>4. faults' = faults
    BY <2>1 DEF Goto, GotoWith, ProcessAborts, failures
  <2>5. \A x \in Workers : pc'[x] = "add_apply_insert" => pc[x] = "add_apply_insert" /\ req'[x] = req[x]
    BY <2>1 DEF Goto, GotoWith, ProcessAborts, Idle
  <2> QED
    BY <2>3, <2>4, <2>5
<1>3. ASSUME NEW w \in Workers, TableCallFails(w) PROVE NoMore
  BY <1>3 DEF TableCallFails, CountFault, Idle, tables
<1>4. ASSUME ProcessKilled PROVE NoMore
  BY <1>4 DEF ProcessKilled, tables
<1>5. ASSUME UNCHANGED vars PROVE NoMore
  BY <1>5 DEF vars, tables, handlers, failures
<1> HIDE DEF TypeOK, TablesTyped, HandlersTyped, FailuresTyped, NoMore
<1> QED
  BY <1>1, <1>2, <1>3, <1>4, <1>5, NoMoreKeepsCount, InsertKeepsCount, CheckKeepsCount,
     FaultKeepsCount DEF Next

(* Concurrent applications and failing checks double an application, but   *)
(* never past one row per handler and one per failure.                     *)
THEOREM DuplicatesAreBounded == Spec => []ApplicationsBounded
<1>1. Init => ApplicationsAndInserters
  <2> SUFFICES ASSUME Init, NEW p \in Pairs
               PROVE  friend_apply[p] + Cardinality(Inserting(p)) <= Cardinality(Workers) + faults
    BY DEF ApplicationsAndInserters
  <2> QED
    BY InsertingFinite DEF Init
<1>2. TypeOK /\ ApplicationsAndInserters /\ [Next]_vars => ApplicationsAndInserters'
  BY StepCount
<1>3. TypeOK /\ ApplicationsAndInserters => ApplicationsBounded
  <2> SUFFICES ASSUME TypeOK, ApplicationsAndInserters, NEW p \in Pairs
               PROVE  friend_apply[p] <= Cardinality(Workers) + faults
    BY DEF ApplicationsBounded
  <2> QED
    BY InsertingFinite DEF ApplicationsAndInserters, TypeOK, TablesTyped, FailuresTyped
<1> QED
  BY <1>1, <1>2, <1>3, TypeCorrect, PTL DEF Spec

-----------------------------------------------------------------------------
(* Orderly steps.  The friendships and chats of the abstract state are told *)
(* pair by pair.                                                           *)

HalfSteps == {"process_session_insert", "process_member_append"}
EndSteps == {"remove_session_find", "remove_session_erase"}

Befriended(u, p) == relation[<<u, p>>] > (IF HalfMade(u, p) THEN 1 ELSE 0)
HaveChat(u, p) == u # p /\ SingleSessions(u, p) # {}
Removing(u, p) == WorkedOn(EndSteps, u, p)

(* Friends have a chat; who has a chat is a friend or about to lose it.    *)
NobodyOwnFriend == \A u \in Users : relation[<<u, u>>] = 0
FriendsChat == \A u, p \in Users : Befriended(u, p) => HaveChat(u, p)
ChatsOfFriends ==
  NoFailure => \A u, p \in Users : HaveChat(u, p) => relation[<<u, p>>] > 0 \/ Removing(u, p)

TablesFit == NobodyOwnFriend /\ FriendsChat /\ ChatsOfFriends

(* What a handler has found out about its pair is still so.                *)
Applicable(w) ==
  LET mine == <<req[w].uid, req[w].pid>>
  IN  /\ pc[w] = "add_apply_exists" => relation[mine] = 0
      /\ pc[w] = "add_apply_insert" => relation[mine] = 0 /\ friend_apply[mine] = 0

Answerable(w) ==
  LET theirs == <<req[w].pid, req[w].uid>>
  IN  /\ pc[w] = "process_apply_remove" => friend_apply[theirs] > 0
      /\ Agreeing(w) => friend_apply[theirs] = 0
      /\ pc[w] \in HalfSteps => relation[theirs] > 0

Removable(w) ==
  /\ pc[w] \in EndSteps => relation[<<req[w].uid, req[w].pid>>] = 0
  /\ pc[w] = "remove_session_erase" => SingleSessions(req[w].uid, req[w].pid) = {cssid[w]}

Found(w) == Applicable(w) /\ Answerable(w) /\ Removable(w)
FoundStands == \A w \in Workers : Found(w)

OrderlyInv == PairsApart /\ TablesFit /\ FoundStands

(* Sets of pairs are told apart by their pairs. *)
Couples == {{u, p} : u, p \in Users}

LEMMA SameCouples ==
  ASSUME NEW X, NEW Y,
         X \subseteq Couples, Y \subseteq Couples,
         \A u, p \in Users : {u, p} \in X <=> {u, p} \in Y
  PROVE  X = Y
BY DEF Couples

LEMMA AddedCouple ==
  ASSUME NEW X, NEW Y, X \subseteq Couples, Y \subseteq Couples, NEW c \in Couples,
         \A u, p \in Users : {u, p} \in Y <=> {u, p} \in X \/ {u, p} = c
  PROVE  Y = X \cup {c}
<1>1. ASSUME NEW d \in Couples PROVE d \in Y <=> d \in X \cup {c}
  <2> PICK u, p \in Users : d = {u, p}
    BY <1>1 DEF Couples
  <2> QED
    OBVIOUS
<1> QED
  BY <1>1

LEMMA PairOfSet ==
  ASSUME NEW u, NEW p, NEW x, NEW y
  PROVE  {u, p} = {x, y} <=> ((u = x /\ p = y) \/ (u = y /\ p = x))
OBVIOUS

LEMMA CouplesAreCouples ==
  FriendCouples \subseteq Couples /\ ChatCouples \subseteq Couples
BY DEF FriendCouples, ChatCouples, Couples, Pairs, PairRequest

LEMMA HalfMadeEitherWay ==
  ASSUME NEW u, NEW p
  PROVE  HalfMade(u, p) <=> HalfMade(p, u)
<1>1. {u, p} = {p, u}
  OBVIOUS
<1> QED
  BY <1>1 DEF HalfMade, WorkedOn

LEMMA FriendsByPair ==
  ASSUME RelationSymmetric, NEW u \in Users, NEW p \in Users
  PROVE  {u, p} \in FriendCouples <=> Befriended(u, p)
<1>1. <<u, p>> \in Pairs /\ <<u, p>>[1] = u /\ <<u, p>>[2] = p
  BY DEF Pairs
<1>2. Befriended(u, p) => {u, p} \in FriendCouples
  BY <1>1 DEF FriendCouples, Befriended
<1>3. ASSUME {u, p} \in FriendCouples PROVE Befriended(u, p)
  <2> PICK y \in Pairs : /\ relation[y] > (IF HalfMade(y[1], y[2]) THEN 1 ELSE 0)
                         /\ {u, p} = {y[1], y[2]}
    BY <1>3 DEF FriendCouples
  <2>1. y = <<y[1], y[2]>>
    BY DEF Pairs
  <2>2. Befriended(y[1], y[2])
    BY <2>1 DEF Befriended
  <2>3. (y[1] = u /\ y[2] = p) \/ (y[1] = p /\ y[2] = u)
    BY PairOfSet
  <2>4. Befriended(p, u) => Befriended(u, p)
    BY HalfMadeEitherWay DEF Befriended, RelationSymmetric
  <2> QED
    BY <2>2, <2>3, <2>4
<1> QED
  BY <1>2, <1>3

LEMMA SessionsEitherWay ==
  ASSUME NEW u, NEW p
  PROVE  SingleSessions(u, p) = SingleSessions(p, u)
BY DEF SingleSessions

LEMMA ChatsByPair ==
  ASSUME NEW u \in Users, NEW p \in Users
  PROVE  {u, p} \in ChatCouples <=> HaveChat(u, p)
<1>1. HaveChat(u, p) => {u, p} \in ChatCouples
  <2> SUFFICES ASSUME HaveChat(u, p) PROVE {u, p} \in ChatCouples
    OBVIOUS
  <2> DEFINE r == [uid |-> u, pid |-> p, agree |-> FALSE]
  <2>1. r \in PairRequest /\ r.uid = u /\ r.pid = p
    BY DEF PairRequest, HaveChat
  <2> HIDE DEF r
  <2> QED
    BY <2>1 DEF ChatCouples, HaveChat
<1>2. ASSUME {u, p} \in ChatCouples PROVE HaveChat(u, p)
  <2> PICK r \in PairRequest : SingleSessions(r.uid, r.pid) # {} /\ {u, p} = {r.uid, r.pid}
    BY <1>2 DEF ChatCouples
  <2>1. (r.uid = u /\ r.pid = p) \/ (r.uid = p /\ r.pid = u)
    BY PairOfSet
  <2> QED
    BY <2>1, SessionsEitherWay DEF HaveChat, PairRequest
<1> QED
  BY <1>1, <1>2

(* What the abstract state is made of, pair by pair.                       *)
AgreedOn(x) == \E w \in Workers : Agreeing(w) /\ x = <<req[w].pid, req[w].uid>>
IsPending(x) == friend_apply[x] > 0 \/ AgreedOn(x)

LEMMA PendingByPair ==
  ASSUME NEW x \in Pairs
  PROVE  x \in Pending <=> IsPending(x)
<1>1. x = <<x[1], x[2]>> /\ x[1] \in Users /\ x[2] \in Users
  BY DEF Pairs
<1>2. x[1] \in GetPendingFriendEventList(x[2]) <=> friend_apply[x] > 0
  BY <1>1 DEF GetPendingFriendEventList, ApplyUsers
<1> QED
  BY <1>2 DEF Pending, IsPending, AgreedOn

(* A step that changes none of it stutters.                                *)
SamePending == \A x \in Pairs : IsPending(x)' = IsPending(x)
SameFriends == \A u, p \in Users : Befriended(u, p)' = Befriended(u, p)
SameChats == \A u, p \in Users : HaveChat(u, p)' = HaveChat(u, p)

ByPairs ==
  /\ \A x \in Pairs : x \in Pending <=> IsPending(x)
  /\ \A u, p \in Users : /\ {u, p} \in FriendCouples <=> Befriended(u, p)
                         /\ {u, p} \in ChatCouples <=> HaveChat(u, p)
  /\ Pending \subseteq Pairs
  /\ FriendCouples \subseteq Couples /\ ChatCouples \subseteq Couples

LEMMA StateByPairs == RelationSymmetric => ByPairs
<1>1. Pending \subseteq Pairs
  BY DEF Pending
<1> QED
  BY <1>1, PendingByPair, FriendsByPair, ChatsByPair, CouplesAreCouples DEF ByPairs

LEMMA SameIsSame ==
  ASSUME RelationSymmetric, RelationSymmetric'
  PROVE  /\ SamePending => UNCHANGED Pending
         /\ SameFriends => UNCHANGED FriendCouples
         /\ SameChats => UNCHANGED ChatCouples
<1>1. ByPairs /\ ByPairs'
  BY StateByPairs, PTL
<1>2. SamePending => UNCHANGED Pending
  BY <1>1 DEF ByPairs, SamePending
<1>3. ASSUME SameFriends PROVE UNCHANGED FriendCouples
  <2>1. \A u, p \in Users : {u, p} \in FriendCouples' <=> {u, p} \in FriendCouples
    BY <1>1, <1>3 DEF ByPairs, SameFriends
  <2> QED
    BY <1>1, <2>1, SameCouples DEF ByPairs, Couples
<1>4. ASSUME SameChats PROVE UNCHANGED ChatCouples
  <2>1. \A u, p \in Users : {u, p} \in ChatCouples' <=> {u, p} \in ChatCouples
    BY <1>1, <1>4 DEF ByPairs, SameChats
  <2> QED
    BY <1>1, <2>1, SameCouples DEF ByPairs, Couples
<1> QED
  BY <1>2, <1>3, <1>4

(* What the steps of a handler do to the private chats of two users.       *)
LEMMA InsertKeepsChats ==
  ASSUME TypeOK, SessionInv, NEW s \in SessionIds, NEW type, SessionInsert(s, type),
         UNCHANGED chat_session_member, NEW u \in Users, NEW p \in Users
  PROVE  SingleSessions(u, p)' = SingleSessions(u, p)
<1>1. chat_session_member[s] = NoRows
  BY DEF SessionInv, NoDanglingMembers, SessionInsert, Unused, HasRow
<1>2. \A t \in SessionIds \ {s} : chat_session'[t] = chat_session[t]
  BY DEF TypeOK, TablesTyped, SessionInsert
<1>3. chat_session_member[s][u] = 0
  BY <1>1 DEF NoRows
<1> QED
  BY <1>2, <1>3 DEF SingleSessions

LEMMA GroupKeepsChats ==
  ASSUME TypeOK, NEW s \in SessionIds, chat_session[s] = "GROUP", NEW list,
         MemberAppend(s, list), UNCHANGED chat_session, NEW u \in Users, NEW p \in Users
  PROVE  SingleSessions(u, p)' = SingleSessions(u, p)
<1>1. \A t \in SessionIds \ {s} : chat_session_member'[t] = chat_session_member[t]
  BY DEF TypeOK, TablesTyped, MemberAppend
<1> QED
  BY <1>1 DEF SingleSessions

LEMMA MembersOfBoth ==
  ASSUME NEW r \in PairRequest, NEW u \in Users, NEW p \in Users, u # p
  PROVE  Both(r)[u] > 0 /\ Both(r)[p] > 0 <=> {r.uid, r.pid} = {u, p}
<1>1. \A x \in Users : Both(r)[x] = IF x \in {r.uid, r.pid} THEN 1 ELSE 0
  BY DEF Both
<1>2. {r.uid, r.pid} = {u, p} <=> u \in {r.uid, r.pid} /\ p \in {r.uid, r.pid}
  BY DEF PairRequest
<1> QED
  BY <1>1, <1>2

LEMMA AppendAddsChat ==
  ASSUME TypeOK, NEW s \in SessionIds, NEW r \in PairRequest,
         chat_session[s] = "SINGLE", chat_session_member[s] = NoRows,
         MemberAppend(s, Both(r)), UNCHANGED chat_session,
         NEW u \in Users, NEW p \in Users, u # p
  PROVE  SingleSessions(u, p)' =
           IF {r.uid, r.pid} = {u, p} THEN SingleSessions(u, p) \cup {s} ELSE SingleSessions(u, p)
<1>1. chat_session_member' = [chat_session_member EXCEPT ![s] = Both(r)]
  <2>1. [x \in Users |-> NoRows[x] + Both(r)[x]] = Both(r)
    BY DEF NoRows, Both
  <2> QED
    BY <2>1 DEF MemberAppend
<1>2. /\ chat_session_member'[s] = Both(r)
      /\ \A t \in SessionIds \ {s} : chat_session_member'[t] = chat_session_member[t]
  BY <1>1 DEF TypeOK, TablesTyped
<1>3. s \notin SingleSessions(u, p)
  BY DEF SingleSessions, NoRows
<1>4. s \in SingleSessions(u, p)' <=> {r.uid, r.pid} = {u, p}
  BY <1>2, MembersOfBoth DEF SingleSessions
<1>5. \A t \in SessionIds \ {s} : t \in SingleSessions(u, p)' <=> t \in SingleSessions(u, p)
  BY <1>2 DEF SingleSessions
<1>6. SingleSessions(u, p)' \subseteq SessionIds /\ SingleSessions(u, p) \subseteq SessionIds
  BY DEF SingleSessions
<1> QED
  BY <1>3, <1>4, <1>5, <1>6

LEMMA EraseTakesChat ==
  ASSUME TypeOK, SessionInv, NEW r \in PairRequest, NEW s \in SingleSessions(r.uid, r.pid),
         SessionErase(s), NEW u \in Users, NEW p \in Users, u # p
  PROVE  SingleSessions(u, p)' =
           IF {r.uid, r.pid} = {u, p} THEN SingleSessions(u, p) \ {s} ELSE SingleSessions(u, p)
<1>1. s \in SessionIds /\ r.uid \in Users /\ r.pid \in Users /\ r.uid # r.pid
  BY DEF SingleSessions, PairRequest
<1>2. PICK q \in PairRequest : chat_session_member[s] = Both(q)
  BY <1>1 DEF SingleSessions, SessionInv, SingleSessionsArePairs, NoRows
<1>3. s \in SingleSessions(u, p) <=> {q.uid, q.pid} = {u, p}
  BY <1>1, <1>2, MembersOfBoth DEF SingleSessions
<1>4. {q.uid, q.pid} = {r.uid, r.pid}
  BY <1>1, <1>2, MembersOfBoth DEF SingleSessions
<1>5. /\ chat_session'[s] = "erased"
      /\ \A t \in SessionIds \ {s} : /\ chat_session'[t] = chat_session[t]
                                     /\ chat_session_member'[t] = chat_session_member[t]
  BY <1>1 DEF TypeOK, TablesTyped, SessionErase
<1>6. s \notin SingleSessions(u, p)'
  BY <1>5 DEF SingleSessions
<1>7. \A t \in SessionIds \ {s} : t \in SingleSessions(u, p)' <=> t \in SingleSessions(u, p)
  BY <1>5 DEF SingleSessions
<1>8. SingleSessions(u, p)' \subseteq SessionIds /\ SingleSessions(u, p) \subseteq SessionIds
  BY DEF SingleSessions
<1> QED
  BY <1>3, <1>4, <1>6, <1>7, <1>8

-----------------------------------------------------------------------------
(* Who works on a pair, before and after a step of one handler.            *)

OthersGoOn(w) ==
  \A v \in Workers \ {w} : pc'[v] = pc[v] /\ req'[v] = req[v] /\ cssid'[v] = cssid[v]

(* A handler in a request about a pair that goes on with it or answers. *)
GoesOn(w) ==
  /\ pc[w] \in PairSteps /\ OthersGoOn(w)
  /\ pc'[w] = "idle" \/ (pc'[w] \in PairSteps /\ req'[w] = req[w])

LEMMA WorkAfter ==
  ASSUME NEW w \in Workers, PairsApart, GoesOn(w), NEW S, S \subseteq PairSteps, NEW u, NEW p
  PROVE  IF PairOf(w) = {u, p}
         THEN (WorkedOn(S, u, p) <=> pc[w] \in S) /\ (WorkedOn(S, u, p)' <=> pc'[w] \in S)
         ELSE WorkedOn(S, u, p)' <=> WorkedOn(S, u, p)
<1>1. "idle" \notin S
  BY DEF PairSteps
<1>2. CASE PairOf(w) = {u, p}
  <2>1. \A v \in Workers \ {w} : pc[v] \in S => PairOf(v) # {u, p}
    BY <1>2 DEF PairsApart, GoesOn
  <2>2. \A v \in Workers \ {w} : pc'[v] \in S => PairOf(v)' # {u, p}
    BY <2>1 DEF GoesOn, OthersGoOn, PairOf
  <2>3. pc'[w] \in S => PairOf(w)' = {u, p}
    BY <1>1, <1>2 DEF GoesOn, PairOf
  <2> QED
    BY <1>2, <2>1, <2>2, <2>3 DEF WorkedOn
<1>3. CASE PairOf(w) # {u, p}
  <2>1. pc'[w] \in S => PairOf(w)' # {u, p}
    BY <1>1, <1>3 DEF GoesOn, PairOf
  <2> QED
    BY <1>3, <2>1 DEF WorkedOn, GoesOn, OthersGoOn, PairOf
<1> QED
  BY <1>2, <1>3

LEMMA AgreedAfter ==
  ASSUME NEW w \in Workers, TypeOK, PairsApart, GoesOn(w), NEW x
  PROVE  /\ AgreedOn(x) /\ {x[1], x[2]} = PairOf(w) => Agreeing(w) /\ x = <<req[w].pid, req[w].uid>>
         /\ IF x = <<req[w].pid, req[w].uid>>
            THEN (AgreedOn(x) <=> Agreeing(w)) /\ (AgreedOn(x)' <=> Agreeing(w)')
            ELSE AgreedOn(x)' <=> AgreedOn(x)
<1>1. \A v \in Workers : Agreeing(v) => pc[v] \in PairSteps
  BY DEF Agreeing, PairSteps
<1>2. \A v \in Workers \ {w} : Agreeing(v) => PairOf(v) # PairOf(w)
  BY <1>1 DEF PairsApart, GoesOn
<1>3. \A v \in Workers : x = <<req[v].pid, req[v].uid>> => {x[1], x[2]} = PairOf(v)
  BY DEF PairOf
<1>4. \A v \in Workers \ {w} : (Agreeing(v)' <=> Agreeing(v)) /\ req'[v] = req[v]
  BY DEF GoesOn, OthersGoOn, Agreeing
<1>5. Agreeing(w)' => req'[w] = req[w]
  BY DEF GoesOn, Agreeing
<1>6. AgreedOn(x) /\ {x[1], x[2]} = PairOf(w) => Agreeing(w) /\ x = <<req[w].pid, req[w].uid>>
  BY <1>2, <1>3 DEF AgreedOn
<1>7. CASE x = <<req[w].pid, req[w].uid>>
  <2>1. \A v \in Workers \ {w} : ~(Agreeing(v) /\ x = <<req[v].pid, req[v].uid>>)
    BY <1>2, <1>3, <1>7
  <2> QED
    BY <1>4, <1>5, <1>6, <1>7, <2>1 DEF AgreedOn
<1>8. CASE x # <<req[w].pid, req[w].uid>>
  BY <1>4, <1>5, <1>6, <1>8 DEF AgreedOn
<1> QED
  BY <1>6, <1>7, <1>8

(* What a handler has found stands while the rows of its pair do.          *)
SamePair(u, p) ==
  /\ relation'[<<u, p>>] = relation[<<u, p>>]
  /\ friend_apply'[<<u, p>>] = friend_apply[<<u, p>>]
  /\ SingleSessions(u, p)' = SingleSessions(u, p)

LEMMA FoundKept ==
  ASSUME TypeOK, NEW v \in Workers, Found(v),
         pc'[v] = pc[v], req'[v] = req[v], cssid'[v] = cssid[v],
         pc[v] \in PairSteps =>
           \A u, p \in Users : (u # p /\ {u, p} = PairOf(v)) => SamePair(u, p)
  PROVE  Found(v)'
<1>1. CASE pc[v] \notin PairSteps
  BY <1>1 DEF Found, Applicable, Answerable, Removable, Agreeing, HalfSteps, EndSteps, PairSteps
<1>2. CASE pc[v] \in PairSteps
  <2> DEFINE u == req[v].uid
             p == req[v].pid
  <2>1. u \in Users /\ p \in Users /\ u # p /\ {u, p} = PairOf(v) /\ {p, u} = PairOf(v)
    BY <1>2, PairRequestOK DEF TypeOK, HandlersTyped, PairOf
  <2>2. SamePair(u, p) /\ SamePair(p, u)
    BY <1>2, <2>1
  <2> QED
    BY <2>2 DEF SamePair, Found, Applicable, Answerable, Removable, Agreeing
<1> QED
  BY <1>1, <1>2

LEMMA IdleFound ==
  ASSUME NEW v, pc'[v] = "idle"
  PROVE  Found(v)'
BY DEF Found, Applicable, Answerable, Removable, Agreeing, HalfSteps, EndSteps

(* A step in a request about a pair touches the rows of no other.          *)
OnlyMine(w) ==
  \A u, p \in Users : (u # p /\ {u, p} # PairOf(w)) => SamePair(u, p)

LEMMA OthersFound ==
  ASSUME TypeOK, PairsApart, FoundStands, NEW w \in Workers, GoesOn(w), OnlyMine(w), Found(w)'
  PROVE  FoundStands'
<1>1. ASSUME NEW v \in Workers \ {w} PROVE Found(v)'
  <2>1. pc[v] \in PairSteps => PairOf(v) # PairOf(w)
    BY DEF PairsApart, GoesOn
  <2>2. pc[v] \in PairSteps =>
          \A u, p \in Users : (u # p /\ {u, p} = PairOf(v)) => SamePair(u, p)
    BY <2>1 DEF OnlyMine
  <2> QED
    BY <2>2, FoundKept DEF GoesOn, OthersGoOn, FoundStands
<1> QED
  BY <1>1 DEF FoundStands

-----------------------------------------------------------------------------
(* Steps that no client notices: the rows stay, and so do the pairs that   *)
(* are half way through an agreement.                                      *)
Silent ==
  /\ UNCHANGED <<relation, friend_apply>>
  /\ \A u, p \in Users : SingleSessions(u, p)' = SingleSessions(u, p)
  /\ \A u, p : HalfMade(u, p)' <=> HalfMade(u, p)
  /\ \A x : AgreedOn(x)' <=> AgreedOn(x)
  /\ NoFailure' => NoFailure /\ \A u, p : Removing(u, p) => Removing(u, p)'

LEMMA SilentKeeps ==
  ASSUME TablesFit, Silent
  PROVE  TablesFit' /\ SamePending /\ SameFriends /\ SameChats
<1>1. SamePending /\ SameFriends /\ SameChats
  BY DEF Silent, SamePending, IsPending, SameFriends, Befriended, SameChats, HaveChat
<1>2. NobodyOwnFriend' /\ FriendsChat'
  BY <1>1 DEF Silent, TablesFit, NobodyOwnFriend, FriendsChat, SameFriends, SameChats
<1>3. ChatsOfFriends'
  <2> SUFFICES ASSUME NoFailure', NEW u \in Users, NEW p \in Users, HaveChat(u, p)'
               PROVE  relation'[<<u, p>>] > 0 \/ Removing(u, p)'
    BY DEF ChatsOfFriends
  <2>1. HaveChat(u, p)
    BY <1>1 DEF SameChats
  <2> QED
    BY <2>1 DEF Silent, TablesFit, ChatsOfFriends
<1> QED
  BY <1>1, <1>2, <1>3 DEF TablesFit

(* One handler goes on, and its place in an agreement is the same.         *)
SilentMove(w) ==
  /\ OthersGoOn(w)
  /\ UNCHANGED <<relation, friend_apply>>
  /\ \A u, p \in Users : SingleSessions(u, p)' = SingleSessions(u, p)
  /\ Agreeing(w)' = Agreeing(w)
  /\ (pc'[w] \in HalfSteps) = (pc[w] \in HalfSteps)
  /\ Agreeing(w) => req'[w] = req[w]
  /\ NoFailure' => NoFailure /\ (pc[w] \in EndSteps => pc'[w] \in EndSteps /\ req'[w] = req[w])

LEMMA SilentMoveIsSilent ==
  ASSUME NEW w \in Workers, SilentMove(w)
  PROVE  Silent
<1>1. \A v \in Workers \ {w} : pc'[v] = pc[v] /\ req'[v] = req[v]
  BY DEF SilentMove, OthersGoOn
<1>2. pc[w] \in HalfSteps => req'[w] = req[w]
  BY DEF SilentMove, Agreeing, HalfSteps
<1>3. \A u, p : HalfMade(u, p)' <=> HalfMade(u, p)
  BY <1>1, <1>2 DEF SilentMove, HalfMade, WorkedOn, PairOf, HalfSteps
<1>4. \A x : AgreedOn(x)' <=> AgreedOn(x)
  BY <1>1 DEF SilentMove, AgreedOn, Agreeing
<1>5. NoFailure' => NoFailure /\ \A u, p : Removing(u, p) => Removing(u, p)'
  BY <1>1 DEF SilentMove, Removing, WorkedOn, PairOf
<1> QED
  BY <1>3, <1>4, <1>5 DEF SilentMove, Silent

LEMMA SilentMoveFound ==
  ASSUME TypeOK, FoundStands, NEW w \in Workers, SilentMove(w), Found(w)'
  PROVE  FoundStands'
<1>1. \A u, p \in Users : SamePair(u, p)
  BY DEF SilentMove, SamePair
<1>2. ASSUME NEW v \in Workers \ {w} PROVE Found(v)'
  BY <1>1, FoundKept DEF SilentMove, OthersGoOn, FoundStands
<1> QED
  BY <1>2 DEF FoundStands

(* What keeps OrderlyInv, but for PairsApart, and is seen as a step of     *)
(* Friendship or as none.                                                  *)
Faithful == TablesFit' /\ FoundStands' /\ [Promise!Next]_(Promise!vars)

LEMMA SilentIsFaithful ==
  ASSUME RelationSymmetric, RelationSymmetric', TablesFit, Silent, FoundStands'
  PROVE  Faithful
BY SilentKeeps, SameIsSame DEF Faithful, Promise!vars

LEMMA SilentMoveIsFaithful ==
  ASSUME TypeOK, RelationSymmetric, RelationSymmetric', TablesFit, FoundStands,
         NEW w \in Workers, SilentMove(w), Found(w)'
  PROVE  Faithful
BY SilentMoveIsSilent, SilentMoveFound, SilentIsFaithful

(* How the other handlers and the failures fare in a step.                 *)
LEMMA MoveKinds ==
  ASSUME TypeOK, NEW w \in Workers
  PROVE  /\ Reply(w) => OthersGoOn(w) /\ pc'[w] = "idle" /\ (NoFailure' = NoFailure)
         /\ \A step : Goto(w, step) =>
              OthersGoOn(w) /\ pc'[w] = step /\ req'[w] = req[w] /\ (NoFailure' = NoFailure)
         /\ \A step, s : GotoWith(w, step, s) =>
              /\ OthersGoOn(w) /\ pc'[w] = step /\ req'[w] = req[w] /\ cssid'[w] = s
              /\ NoFailure' = NoFailure
         /\ \A step, r : Start(w, step, r) =>
              /\ OthersGoOn(w) /\ pc[w] = "idle" /\ pc'[w] = step /\ UNCHANGED tables
              /\ NoFailure' = NoFailure
BY DEF TypeOK, HandlersTyped, Reply, Idle, Goto, GotoWith, Start, OthersGoOn, NoFailure, failures

LEMMA StartIsFaithful ==
  ASSUME TypeOK, RelationSymmetric, RelationSymmetric', TablesFit, FoundStands,
         NEW w \in Workers, NewRequest(w)
  PROVE  Faithful
<1>1. PICK step, r : /\ Start(w, step, r)
                     /\ step \in {"add_relation_exists", "process_apply_exists", "remove_relation",
                                  "create_session_insert"}
  BY DEF NewRequest, FriendAdd, FriendAddProcess, FriendRemove, ChatSessionCreate
<1>2. /\ pc[w] = "idle" /\ pc'[w] = step /\ UNCHANGED tables /\ OthersGoOn(w) /\ NoFailure' = NoFailure
  BY <1>1, MoveKinds
<1>3. \A u, p \in Users : SingleSessions(u, p)' = SingleSessions(u, p)
  BY <1>2 DEF SingleSessions, tables
<1>4. SilentMove(w) /\ Found(w)'
  BY <1>1, <1>2, <1>3
  DEF SilentMove, Found, Applicable, Answerable, Removable, Agreeing, HalfSteps, EndSteps, tables
<1> QED
  BY <1>4, SilentMoveIsFaithful

LEMMA LookIsFaithful ==
  ASSUME TypeOK, RelationSymmetric, RelationSymmetric', TablesFit, FoundStands,
         NEW w \in Workers, AddRelationExists(w) \/ AddApplyExists(w) \/ ProcessApplyExists(w)
  PROVE  Faithful
<1>1. req[w] \in PairRequest /\ UNCHANGED tables
  BY DEF AddRelationExists, AddApplyExists, ProcessApplyExists, TypeOK, HandlersTyped, PairSteps
<1>2. \A u, p \in Users : SingleSessions(u, p)' = SingleSessions(u, p)
  BY <1>1 DEF SingleSessions, tables
<1>3. pc[w] \in {"add_relation_exists", "add_apply_exists", "process_apply_exists"}
  BY DEF AddRelationExists, AddApplyExists, ProcessApplyExists
<1>4. CASE Reply(w)
  <2>1. OthersGoOn(w) /\ pc'[w] = "idle" /\ NoFailure' = NoFailure
    BY <1>4, MoveKinds
  <2>2. SilentMove(w)
    BY <1>1, <1>2, <1>3, <2>1 DEF SilentMove, Agreeing, HalfSteps, EndSteps, tables
  <2> QED
    BY <2>1, <2>2, IdleFound, SilentMoveIsFaithful
<1>5. CASE \/ AddRelationExists(w) /\ ~RelationExists(req[w].uid, req[w].pid) /\ Goto(w, "add_apply_exists")
           \/ AddApplyExists(w) /\ ~ApplyExists(req[w].uid, req[w].pid) /\ Goto(w, "add_apply_insert")
           \/ ProcessApplyExists(w) /\ ApplyExists(req[w].pid, req[w].uid) /\ Goto(w, "process_apply_remove")
  <2>1. /\ OthersGoOn(w) /\ req'[w] = req[w] /\ NoFailure' = NoFailure
        /\ \/ pc[w] = "add_relation_exists" /\ pc'[w] = "add_apply_exists" /\ ~RelationExists(req[w].uid, req[w].pid)
           \/ pc[w] = "add_apply_exists" /\ pc'[w] = "add_apply_insert" /\ ~ApplyExists(req[w].uid, req[w].pid)
           \/ pc[w] = "process_apply_exists" /\ pc'[w] = "process_apply_remove" /\ ApplyExists(req[w].pid, req[w].uid)
    BY <1>5, MoveKinds DEF AddRelationExists, AddApplyExists, ProcessApplyExists
  <2>2. SilentMove(w)
    BY <1>1, <1>2, <2>1 DEF SilentMove, Agreeing, HalfSteps, EndSteps, tables
  <2>3. /\ relation[<<req[w].uid, req[w].pid>>] \in Nat
        /\ friend_apply[<<req[w].uid, req[w].pid>>] \in Nat
    BY <1>1, PairRequestOK DEF TypeOK, TablesTyped
  <2>4. Found(w)'
    BY <1>1, <2>1, <2>3
    DEF FoundStands, Found, Applicable, Answerable, Removable, Agreeing, HalfSteps, EndSteps,
        RelationExists, ApplyExists, tables
  <2> QED
    BY <2>2, <2>4, SilentMoveIsFaithful
<1> QED
  BY <1>4, <1>5 DEF AddRelationExists, AddApplyExists, ProcessApplyExists

LEMMA SessionStepsAreFaithful ==
  ASSUME TypeOK, SessionInv, RelationSymmetric, RelationSymmetric', TablesFit, FoundStands,
         NEW w \in Workers, ProcessSessionInsert(w) \/ CreateSessionInsert(w) \/ CreateMemberAppend(w)
  PROVE  Faithful
<1>1. CASE ProcessSessionInsert(w) \/ CreateSessionInsert(w)
  <2>1. PICK s \in SessionIds, type \in {"SINGLE", "GROUP"} :
          /\ SessionInsert(s, type)
          /\ \/ pc[w] = "process_session_insert" /\ GotoWith(w, "process_member_append", s)
             \/ pc[w] = "create_session_insert" /\ GotoWith(w, "create_member_append", s)
          /\ UNCHANGED <<friend_apply, relation, chat_session_member>>
    BY <1>1 DEF ProcessSessionInsert, CreateSessionInsert
  <2>2. /\ OthersGoOn(w) /\ req'[w] = req[w] /\ NoFailure' = NoFailure
        /\ \/ pc[w] = "process_session_insert" /\ pc'[w] = "process_member_append"
           \/ pc[w] = "create_session_insert" /\ pc'[w] = "create_member_append"
    BY <2>1, MoveKinds
  <2>3. \A u, p \in Users : SingleSessions(u, p)' = SingleSessions(u, p)
    BY <2>1, InsertKeepsChats
  <2>4. SilentMove(w)
    BY <2>1, <2>2, <2>3 DEF SilentMove, Agreeing, HalfSteps, EndSteps
  <2>5. Found(w)'
    BY <2>1, <2>2 DEF FoundStands, Found, Applicable, Answerable, Removable, Agreeing, HalfSteps, EndSteps
  <2> QED
    BY <2>4, <2>5, SilentMoveIsFaithful
<1>2. CASE CreateMemberAppend(w)
  <2>1. /\ cssid[w] \in SessionIds /\ chat_session[cssid[w]] = "GROUP"
        /\ MemberAppend(cssid[w], req[w].list) /\ UNCHANGED chat_session
    BY <1>2 DEF CreateMemberAppend, SessionInv, AppendersHoldEmptySessions, AppendSteps
  <2>2. /\ pc[w] = "create_member_append" /\ pc'[w] = "idle" /\ OthersGoOn(w)
        /\ NoFailure' = NoFailure /\ UNCHANGED <<friend_apply, relation>>
    BY <1>2, MoveKinds DEF CreateMemberAppend
  <2>3. \A u, p \in Users : SingleSessions(u, p)' = SingleSessions(u, p)
    BY <2>1, GroupKeepsChats
  <2>4. SilentMove(w)
    BY <2>2, <2>3 DEF SilentMove, Agreeing, HalfSteps, EndSteps
  <2> QED
    BY <2>2, <2>4, IdleFound, SilentMoveIsFaithful
<1> QED
  BY <1>1, <1>2

(* The process ends with no agreement under way: nobody has found anything *)
(* any more.                                                               *)
LEMMA EndIsFaithful ==
  ASSUME RelationSymmetric, RelationSymmetric', TablesFit,
         UNCHANGED tables, pc' = [x \in Workers |-> "idle"], ~NoFailure',
         \A x \in Workers : ~Agreeing(x)
  PROVE  Faithful
<1>1. \A x \in Workers : pc'[x] = "idle" /\ ~Agreeing(x)' /\ pc[x] \notin HalfSteps
  BY DEF Agreeing, HalfSteps
<1>2. \A u, p : ~HalfMade(u, p) /\ ~HalfMade(u, p)'
  BY <1>1 DEF HalfMade, WorkedOn, HalfSteps
<1>3. \A x : ~AgreedOn(x) /\ ~AgreedOn(x)'
  BY <1>1 DEF AgreedOn
<1>4. \A u, p \in Users : SingleSessions(u, p)' = SingleSessions(u, p)
  BY DEF SingleSessions, tables
<1>5. Silent
  BY <1>2, <1>3, <1>4 DEF Silent, tables
<1>6. FoundStands'
  BY <1>1, IdleFound DEF FoundStands
<1> QED
  BY <1>5, <1>6, SilentIsFaithful

LEMMA FindIsFaithful ==
  ASSUME TypeOK, RelationSymmetric, RelationSymmetric', TablesFit, FoundStands, Orderly,
         NEW w \in Workers,
         RemoveSessionFind(w) \/ RemoveSessionFindNone(w) \/ RemoveSessionFindMany(w)
  PROVE  Faithful
<1>1. UNCHANGED tables /\ pc[w] = "remove_session_find"
  BY DEF RemoveSessionFind, RemoveSessionFindNone, RemoveSessionFindMany, ProcessAborts
<1>2. \A u, p : SingleSessions(u, p)' = SingleSessions(u, p)
  BY <1>1 DEF SingleSessions, tables
<1>3. CASE RemoveSessionFind(w)
  <2> PICK s \in SessionIds : /\ SingleSessions(req[w].uid, req[w].pid) = {s}
                              /\ GotoWith(w, "remove_session_erase", s)
    BY <1>3 DEF RemoveSessionFind
  <2>1. /\ OthersGoOn(w) /\ pc'[w] = "remove_session_erase" /\ cssid'[w] = s /\ req'[w] = req[w]
        /\ NoFailure' = NoFailure
    BY MoveKinds
  <2>2. SilentMove(w)
    BY <1>1, <1>2, <2>1 DEF SilentMove, Agreeing, HalfSteps, EndSteps, tables
  <2>3. Found(w)'
    BY <1>1, <1>2, <2>1
    DEF FoundStands, Found, Applicable, Answerable, Removable, Agreeing, HalfSteps, EndSteps, tables
  <2> QED
    BY <2>2, <2>3, SilentMoveIsFaithful
<1>4. CASE RemoveSessionFindNone(w) \/ RemoveSessionFindMany(w)
  <2>1. ProcessAborts
    BY <1>4 DEF RemoveSessionFindNone, RemoveSessionFindMany
  <2>2. ASSUME NEW v \in Workers, Agreeing(v) PROVE FALSE
    <3>1. ProcessMemberAppend(v)
      BY <2>1, <2>2 DEF Orderly, ProcessAborts, Agreeing
    <3>2. pc'[w] = pc[w]
      BY <1>1, <3>1, MoveKinds DEF ProcessMemberAppend, OthersGoOn
    <3> QED
      BY <1>1, <2>1, <3>2 DEF ProcessAborts
  <2> QED
    BY <1>1, <2>1, <2>2, EndIsFaithful DEF ProcessAborts, NoFailure
<1> QED
  BY <1>3, <1>4

(* A call that fails leaves no agreement half way, and neither does a kill. *)
LEMMA FailureIsFaithful ==
  ASSUME TypeOK, RelationSymmetric, RelationSymmetric', TablesFit, FoundStands, Orderly,
         NEW w \in Workers, TableCallFails(w)
  PROVE  Faithful
<1>1. /\ UNCHANGED tables /\ pc'[w] = "idle" /\ OthersGoOn(w) /\ faults' = faults + 1 /\ faults \in Nat
  BY DEF TableCallFails, CountFault, Idle, OthersGoOn, TypeOK, HandlersTyped, FailuresTyped
<1>2. ~Agreeing(w)
  <2> SUFFICES ASSUME Agreeing(w) PROVE FALSE
    OBVIOUS
  <2>1. ProcessMemberAppend(w)
    BY <1>1 DEF Orderly, Agreeing
  <2>2. faults' = faults
    BY <2>1 DEF ProcessMemberAppend, Reply, failures
  <2> QED
    BY <1>1, <2>2
<1>3. ~NoFailure'
  BY <1>1 DEF NoFailure
<1>4. \A u, p \in Users : SingleSessions(u, p)' = SingleSessions(u, p)
  BY <1>1 DEF SingleSessions, tables
<1>5. SilentMove(w)
  BY <1>1, <1>2, <1>3, <1>4 DEF SilentMove, Agreeing, HalfSteps, tables
<1> QED
  BY <1>1, <1>5, IdleFound, SilentMoveIsFaithful

LEMMA KillIsFaithful ==
  ASSUME TypeOK, RelationSymmetric, RelationSymmetric', TablesFit, Orderly, ProcessKilled
  PROVE  Faithful
<1>1. UNCHANGED tables /\ pc' = [x \in Workers |-> "idle"] /\ crashes' = crashes + 1 /\ crashes \in Nat
  BY DEF ProcessKilled, TypeOK, FailuresTyped
<1>2. ASSUME NEW v \in Workers, Agreeing(v) PROVE FALSE
  <2>1. ProcessMemberAppend(v)
    BY <1>1, <1>2 DEF Orderly, Agreeing
  <2>2. crashes' = crashes
    BY <2>1 DEF ProcessMemberAppend, Reply, failures
  <2> QED
    BY <1>1, <2>2
<1> QED
  BY <1>1, <1>2, EndIsFaithful DEF NoFailure

-----------------------------------------------------------------------------
(* The steps that clients notice, each in a request about a pair.          *)

(* What such a handler is.                                                 *)
LEMMA PairHandler ==
  ASSUME TypeOK, NEW w \in Workers, pc[w] \in PairSteps
  PROVE  /\ req[w] \in PairRequest /\ req[w].uid # req[w].pid
         /\ req[w].uid \in Users /\ req[w].pid \in Users
         /\ <<req[w].uid, req[w].pid>> \in Pairs /\ <<req[w].pid, req[w].uid>> \in Pairs
         /\ PairOf(w) = {req[w].uid, req[w].pid}
BY PairRequestOK DEF TypeOK, HandlersTyped, PairOf

LEMMA StepsOfPairs == HalfSteps \subseteq PairSteps /\ EndSteps \subseteq PairSteps
BY DEF HalfSteps, EndSteps, PairSteps

(* Of the abstract state only what concerns its own pair can change.       *)
LEMMA HalfAfter ==
  ASSUME NEW w \in Workers, PairsApart, GoesOn(w), NEW u, NEW p
  PROVE  IF PairOf(w) = {u, p}
         THEN (HalfMade(u, p) <=> pc[w] \in HalfSteps) /\ (HalfMade(u, p)' <=> pc'[w] \in HalfSteps)
         ELSE HalfMade(u, p)' <=> HalfMade(u, p)
BY WorkAfter, StepsOfPairs DEF HalfMade, HalfSteps

LEMMA RemovingAfter ==
  ASSUME NEW w \in Workers, PairsApart, GoesOn(w), NEW u, NEW p
  PROVE  IF PairOf(w) = {u, p}
         THEN (Removing(u, p) <=> pc[w] \in EndSteps) /\ (Removing(u, p)' <=> pc'[w] \in EndSteps)
         ELSE Removing(u, p)' <=> Removing(u, p)
BY WorkAfter, StepsOfPairs DEF Removing

LEMMA ApplyIsFaithful ==
  ASSUME TypeOK, RelationSymmetric, RelationSymmetric', PairsApart, TablesFit, FoundStands,
         NEW w \in Workers, AddApplyInsert(w)
  PROVE  Faithful
<1> DEFINE me == req[w].uid
           peer == req[w].pid
<1>1. /\ pc[w] = "add_apply_insert" /\ pc[w] \in PairSteps /\ me \in Users /\ peer \in Users
      /\ <<me, peer>> \in Pairs /\ PairOf(w) = {me, peer} /\ me # peer
  BY PairHandler DEF AddApplyInsert, PairSteps
<1>2. /\ friend_apply' = [friend_apply EXCEPT ![<<me, peer>>] = @ + 1]
      /\ UNCHANGED <<relation, chat_session, chat_session_member>>
      /\ pc'[w] = "idle" /\ OthersGoOn(w) /\ NoFailure' = NoFailure
  BY MoveKinds DEF AddApplyInsert, ApplyInsert
<1>3. relation[<<me, peer>>] = 0 /\ friend_apply[<<me, peer>>] = 0
  BY <1>1 DEF FoundStands, Found, Applicable
<1>4. GoesOn(w) /\ \A u, p \in Users : SingleSessions(u, p)' = SingleSessions(u, p)
  BY <1>1, <1>2 DEF GoesOn, SingleSessions
<1>5. /\ \A u, p : HalfMade(u, p)' <=> HalfMade(u, p)
      /\ \A u, p : Removing(u, p)' <=> Removing(u, p)
      /\ ~HalfMade(me, peer)
  BY <1>1, <1>2, <1>4, HalfAfter, RemovingAfter DEF HalfSteps, EndSteps
<1>6. /\ \A x : AgreedOn(x)' <=> AgreedOn(x)
      /\ ~AgreedOn(<<me, peer>>)
  <2>1. ~Agreeing(w) /\ ~Agreeing(w)'
    BY <1>1, <1>2 DEF Agreeing
  <2>2. <<me, peer>>[1] = me /\ <<me, peer>>[2] = peer
    OBVIOUS
  <2> QED
    BY <1>1, <1>4, <2>1, <2>2, AgreedAfter
<1>7. SameFriends /\ SameChats
  BY <1>2, <1>4, <1>5 DEF SameFriends, SameChats, Befriended, HaveChat
<1>8. TablesFit'
  <2>1. ChatsOfFriends'
    BY <1>2, <1>5, <1>7 DEF TablesFit, ChatsOfFriends, SameChats
  <2>2. NobodyOwnFriend' /\ FriendsChat'
    BY <1>2, <1>7 DEF TablesFit, NobodyOwnFriend, FriendsChat, SameFriends, SameChats
  <2> QED
    BY <2>1, <2>2 DEF TablesFit
<1>9. FoundStands'
  <2>1. OnlyMine(w)
    BY <1>1, <1>2, <1>4 DEF OnlyMine, SamePair, TypeOK, TablesTyped
  <2> QED
    BY <1>2, <1>4, <2>1, IdleFound, OthersFound
<1>10. ByPairs /\ ByPairs'
  BY StateByPairs, PTL
<1>11. \A x \in Pairs : IsPending(x)' <=> IsPending(x) \/ x = <<me, peer>>
  BY <1>1, <1>2, <1>3, <1>6 DEF IsPending, TypeOK, TablesTyped
<1>12. ~IsPending(<<me, peer>>) /\ ~Befriended(me, peer)
  BY <1>3, <1>5, <1>6 DEF IsPending, Befriended
<1>13. Pending' = Pending \cup {<<me, peer>>}
  BY <1>1, <1>10, <1>11 DEF ByPairs
<1>14. UNCHANGED <<FriendCouples, ChatCouples>>
  BY <1>7, SameIsSame
<1>15. Promise!Apply(me, peer)
  BY <1>1, <1>10, <1>12, <1>13, <1>14 DEF ByPairs, Promise!Apply
<1> QED
  BY <1>1, <1>8, <1>9, <1>15 DEF Faithful, Promise!Next

LEMMA AnswerIsFaithful ==
  ASSUME TypeOK, RelationSymmetric, RelationSymmetric', PairsApart, TablesFit, FoundStands,
         NEW w \in Workers, ProcessApplyRemove(w)
  PROVE  Faithful
<1> DEFINE me == req[w].uid
           peer == req[w].pid
<1>1. /\ pc[w] = "process_apply_remove" /\ pc[w] \in PairSteps /\ me \in Users /\ peer \in Users
      /\ <<peer, me>> \in Pairs /\ PairOf(w) = {me, peer} /\ me # peer
  BY PairHandler DEF ProcessApplyRemove, PairSteps
<1>2. /\ friend_apply' = [friend_apply EXCEPT ![<<peer, me>>] = 0]
      /\ \/ req[w].agree /\ pc'[w] = "process_relation_insert" /\ req'[w] = req[w]
         \/ ~req[w].agree /\ pc'[w] = "idle"
      /\ UNCHANGED <<relation, chat_session, chat_session_member>>
      /\ OthersGoOn(w) /\ NoFailure' = NoFailure
  BY MoveKinds DEF ProcessApplyRemove, ApplyRemove
<1>3. friend_apply[<<peer, me>>] > 0 /\ friend_apply'[<<peer, me>>] = 0
  BY <1>1, <1>2 DEF FoundStands, Found, Answerable, TypeOK, TablesTyped
<1>4. GoesOn(w) /\ \A u, p \in Users : SingleSessions(u, p)' = SingleSessions(u, p)
  BY <1>1, <1>2 DEF GoesOn, SingleSessions, PairSteps
<1>5. /\ \A u, p : HalfMade(u, p)' <=> HalfMade(u, p)
      /\ \A u, p : Removing(u, p)' <=> Removing(u, p)
  BY <1>1, <1>2, <1>4, HalfAfter, RemovingAfter DEF HalfSteps, EndSteps
<1>6. \A x : IF x = <<peer, me>> THEN ~AgreedOn(x) /\ (AgreedOn(x)' <=> Agreeing(w)')
             ELSE AgreedOn(x)' <=> AgreedOn(x)
  <2>1. ~Agreeing(w)
    BY <1>1 DEF Agreeing
  <2> QED
    BY <1>4, <2>1, AgreedAfter
<1>7. SameFriends /\ SameChats
  BY <1>2, <1>4, <1>5 DEF SameFriends, SameChats, Befriended, HaveChat
<1>8. TablesFit'
  <2>1. ChatsOfFriends'
    BY <1>2, <1>5, <1>7 DEF TablesFit, ChatsOfFriends, SameChats
  <2>2. NobodyOwnFriend' /\ FriendsChat'
    BY <1>2, <1>7 DEF TablesFit, NobodyOwnFriend, FriendsChat, SameFriends, SameChats
  <2> QED
    BY <2>1, <2>2 DEF TablesFit
<1>9. FoundStands'
  <2>1. OnlyMine(w)
    BY <1>1, <1>2, <1>4 DEF OnlyMine, SamePair, TypeOK, TablesTyped
  <2>2. Found(w)'
    BY <1>2, <1>3 DEF Found, Applicable, Answerable, Removable, Agreeing, HalfSteps, EndSteps
  <2> QED
    BY <1>4, <2>1, <2>2, OthersFound
<1>10. ByPairs /\ ByPairs'
  BY StateByPairs, PTL
<1>11. UNCHANGED <<FriendCouples, ChatCouples>>
  BY <1>7, SameIsSame
<1>12. CASE req[w].agree
  <2>1. Agreeing(w)'
    BY <1>2, <1>12 DEF Agreeing
  <2>2. SamePending
    BY <1>1, <1>2, <1>3, <1>6, <2>1 DEF SamePending, IsPending, TypeOK, TablesTyped
  <2> QED
    BY <1>8, <1>9, <1>11, <2>2, SameIsSame DEF Faithful, Promise!vars
<1>13. CASE ~req[w].agree
  <2>1. ~Agreeing(w)'
    BY <1>2, <1>13 DEF Agreeing
  <2>2. \A x \in Pairs : IsPending(x)' <=> IsPending(x) /\ x # <<peer, me>>
    BY <1>1, <1>2, <1>3, <1>6, <2>1 DEF IsPending, TypeOK, TablesTyped
  <2>3. Pending' = Pending \ {<<peer, me>>} /\ <<peer, me>> \in Pending
    BY <1>1, <1>3, <1>10, <2>2 DEF ByPairs, IsPending
  <2>4. Promise!Decline(me, peer)
    BY <1>11, <2>3 DEF Promise!Decline
  <2> QED
    BY <1>1, <1>8, <1>9, <2>4 DEF Faithful, Promise!Next
<1> QED
  BY <1>12, <1>13

LEMMA BefriendIsFaithful ==
  ASSUME TypeOK, RelationSymmetric, RelationSymmetric', PairsApart, TablesFit, FoundStands,
         NEW w \in Workers, ProcessRelationInsert(w)
  PROVE  Faithful
<1> DEFINE me == req[w].uid
           peer == req[w].pid
<1>1. /\ pc[w] = "process_relation_insert" /\ pc[w] \in PairSteps /\ me \in Users /\ peer \in Users
      /\ <<me, peer>> \in Pairs /\ <<peer, me>> \in Pairs /\ PairOf(w) = {me, peer} /\ me # peer
  BY PairHandler DEF ProcessRelationInsert, PairSteps
<1>2. /\ relation' = [relation EXCEPT ![<<me, peer>>] = @ + 1, ![<<peer, me>>] = @ + 1]
      /\ UNCHANGED <<friend_apply, chat_session, chat_session_member>>
      /\ pc'[w] = "process_session_insert" /\ req'[w] = req[w]
      /\ OthersGoOn(w) /\ NoFailure' = NoFailure
  BY MoveKinds DEF ProcessRelationInsert, RelationInsert
<1>3. \A u, p \in Users : /\ relation[<<u, p>>] \in Nat
                         /\ relation'[<<u, p>>] =
                              IF {u, p} = {me, peer} THEN relation[<<u, p>>] + 1 ELSE relation[<<u, p>>]
  <2> TAKE u \in Users, p \in Users
  <2>1. <<u, p>> \in Pairs /\ relation[<<u, p>>] \in Nat
    BY DEF Pairs, TypeOK, TablesTyped
  <2>2. {u, p} = {me, peer} <=> (<<u, p>> = <<me, peer>> \/ <<u, p>> = <<peer, me>>)
    BY PairOfSet
  <2>3. <<me, peer>> # <<peer, me>>
    BY <1>1
  <2> QED
    BY <1>1, <1>2, <2>1, <2>2, <2>3 DEF TypeOK, TablesTyped
<1>4. GoesOn(w) /\ \A u, p \in Users : SingleSessions(u, p)' = SingleSessions(u, p)
  BY <1>1, <1>2 DEF GoesOn, SingleSessions, PairSteps
<1>5. /\ \A u, p : IF {u, p} = {me, peer} THEN ~HalfMade(u, p) /\ HalfMade(u, p)'
                   ELSE HalfMade(u, p)' <=> HalfMade(u, p)
      /\ \A u, p : Removing(u, p)' <=> Removing(u, p)
  BY <1>1, <1>2, <1>4, HalfAfter, RemovingAfter DEF HalfSteps, EndSteps
<1>6. \A x : AgreedOn(x)' <=> AgreedOn(x)
  <2>1. Agreeing(w) /\ Agreeing(w)'
    BY <1>1, <1>2 DEF Agreeing
  <2> QED
    BY <1>4, <2>1, AgreedAfter
<1>7. SameFriends
  <2> SUFFICES ASSUME NEW u \in Users, NEW p \in Users
               PROVE  Befriended(u, p)' = Befriended(u, p)
    BY DEF SameFriends
  <2>1. /\ relation[<<u, p>>] \in Nat
        /\ relation'[<<u, p>>] = IF {u, p} = {me, peer} THEN relation[<<u, p>>] + 1 ELSE relation[<<u, p>>]
    BY <1>3
  <2>2. CASE {u, p} = {me, peer}
    <3>1. Befriended(u, p) <=> relation[<<u, p>>] > 0
      BY <1>5, <2>2 DEF Befriended
    <3>2. Befriended(u, p)' <=> relation'[<<u, p>>] > 1
      BY <1>5, <2>2 DEF Befriended
    <3>3. Befriended(u, p)' <=> Befriended(u, p)
      BY <2>1, <2>2, <3>1, <3>2
    <3> QED
      BY <3>3 DEF Befriended
  <2>3. CASE {u, p} # {me, peer}
    BY <1>5, <2>1, <2>3 DEF Befriended
  <2> QED
    BY <2>2, <2>3
<1>8. SameChats /\ SamePending
  BY <1>2, <1>4, <1>6 DEF SameChats, HaveChat, SamePending, IsPending
<1>9. NobodyOwnFriend' /\ FriendsChat'
  <2>1. \A x \in Users : {x, x} # {me, peer}
    BY <1>1
  <2> QED
    BY <1>3, <1>7, <1>8, <2>1 DEF TablesFit, NobodyOwnFriend, FriendsChat, SameFriends, SameChats
<1>10. ChatsOfFriends'
  <2>1. \A u, p \in Users : relation[<<u, p>>] > 0 => relation'[<<u, p>>] > 0
    BY <1>3
  <2> QED
    BY <1>2, <1>5, <1>8, <2>1 DEF TablesFit, ChatsOfFriends, SameChats
<1>11. FoundStands'
  <2>1. OnlyMine(w)
    <3> SUFFICES ASSUME NEW u \in Users, NEW p \in Users, {u, p} # {me, peer} PROVE SamePair(u, p)
      BY <1>1 DEF OnlyMine
    <3> QED
      BY <1>2, <1>3, <1>4 DEF SamePair
  <2>2. relation'[<<peer, me>>] > 0
    <3>1. {peer, me} = {me, peer}
      OBVIOUS
    <3> QED
      BY <1>1, <1>3, <3>1
  <2>3. friend_apply'[<<peer, me>>] = 0
    BY <1>1, <1>2 DEF FoundStands, Found, Answerable, Agreeing
  <2>4. Found(w)'
    BY <1>2, <2>2, <2>3 DEF Found, Applicable, Answerable, Removable, Agreeing, EndSteps
  <2> QED
    BY <1>4, <2>1, <2>4, OthersFound
<1> QED
  BY <1>7, <1>8, <1>9, <1>10, <1>11, SameIsSame DEF TablesFit, Faithful, Promise!vars

LEMMA AgreeIsFaithful ==
  ASSUME TypeOK, SessionInv, RelationSymmetric, RelationSymmetric', PairsApart, TablesFit, FoundStands,
         NEW w \in Workers, ProcessMemberAppend(w)
  PROVE  Faithful
<1> DEFINE me == req[w].uid
           peer == req[w].pid
           s == cssid[w]
<1>1. /\ pc[w] = "process_member_append" /\ pc[w] \in PairSteps /\ me \in Users /\ peer \in Users
      /\ <<me, peer>> \in Pairs /\ <<peer, me>> \in Pairs /\ PairOf(w) = {me, peer} /\ me # peer
      /\ req[w] \in PairRequest
  BY PairHandler DEF ProcessMemberAppend, PairSteps
<1>2. s \in SessionIds /\ chat_session[s] = "SINGLE" /\ chat_session_member[s] = NoRows
  BY <1>1 DEF SessionInv, AppendersHoldEmptySessions, AppendSteps
<1>3. /\ MemberAppend(s, Both(req[w])) /\ UNCHANGED <<friend_apply, relation, chat_session>>
      /\ pc'[w] = "idle" /\ OthersGoOn(w) /\ NoFailure' = NoFailure
  BY MoveKinds DEF ProcessMemberAppend
<1>4. \A u, p \in Users :
        u # p => SingleSessions(u, p)' =
                   IF {u, p} = {me, peer} THEN SingleSessions(u, p) \cup {s} ELSE SingleSessions(u, p)
  <2> SUFFICES ASSUME NEW u \in Users, NEW p \in Users, u # p
               PROVE  SingleSessions(u, p)' =
                        IF {u, p} = {me, peer} THEN SingleSessions(u, p) \cup {s} ELSE SingleSessions(u, p)
    OBVIOUS
  <2> DEFINE r == req[w]
  <2>1. /\ r \in PairRequest /\ MemberAppend(s, Both(r)) /\ UNCHANGED chat_session
        /\ r.uid = me /\ r.pid = peer
    BY <1>1, <1>3
  <2> HIDE DEF r, s, me, peer
  <2>2. SingleSessions(u, p)' =
          IF {r.uid, r.pid} = {u, p} THEN SingleSessions(u, p) \cup {s} ELSE SingleSessions(u, p)
    BY <1>2, <2>1, AppendAddsChat
  <2> QED
    BY <2>1, <2>2
<1>5. \A u, p \in Users : HaveChat(u, p)' <=> HaveChat(u, p) \/ {u, p} = {me, peer}
  <2> TAKE u \in Users, p \in Users
  <2>1. CASE u = p
    BY <1>1, <2>1 DEF HaveChat
  <2>2. CASE u # p
    <3>1. SingleSessions(u, p)' # {} <=> SingleSessions(u, p) # {} \/ {u, p} = {me, peer}
      BY <1>4, <2>2
    <3> QED
      BY <2>2, <3>1 DEF HaveChat
  <2> QED
    BY <2>1, <2>2
<1>6. GoesOn(w)
  BY <1>1, <1>3 DEF GoesOn
<1>7. /\ \A u, p : IF {u, p} = {me, peer} THEN HalfMade(u, p) /\ ~HalfMade(u, p)'
                   ELSE HalfMade(u, p)' <=> HalfMade(u, p)
      /\ \A u, p : Removing(u, p)' <=> Removing(u, p)
  BY <1>1, <1>3, <1>6, HalfAfter, RemovingAfter DEF HalfSteps, EndSteps
<1>8. \A x : IF x = <<peer, me>> THEN AgreedOn(x) /\ ~AgreedOn(x)'
             ELSE AgreedOn(x)' <=> AgreedOn(x)
  <2>1. Agreeing(w) /\ ~Agreeing(w)'
    BY <1>1, <1>3 DEF Agreeing
  <2> QED
    BY <1>6, <2>1, AgreedAfter
<1>9. relation[<<me, peer>>] > 0 /\ relation[<<peer, me>>] > 0 /\ friend_apply[<<peer, me>>] = 0
  BY <1>1 DEF FoundStands, Found, Answerable, RelationSymmetric, Agreeing, HalfSteps
<1>10. \A u, p \in Users : {u, p} = {me, peer} => relation[<<u, p>>] > 0
  BY <1>9, PairOfSet
<1>11. \A u, p \in Users : Befriended(u, p)' <=> Befriended(u, p) \/ {u, p} = {me, peer}
  <2> TAKE u \in Users, p \in Users
  <2>1. CASE {u, p} = {me, peer}
    BY <1>3, <1>7, <1>10, <2>1 DEF Befriended
  <2>2. CASE {u, p} # {me, peer}
    BY <1>3, <1>7, <2>2 DEF Befriended
  <2> QED
    BY <2>1, <2>2
<1>12. \A x \in Pairs : IsPending(x)' <=> IsPending(x) /\ x # <<peer, me>>
  BY <1>3, <1>8, <1>9 DEF IsPending
<1>13. ByPairs /\ ByPairs'
  BY StateByPairs, PTL
<1>14. FriendCouples' = FriendCouples \cup {{me, peer}} /\ ChatCouples' = ChatCouples \cup {{me, peer}}
  <2>1. {me, peer} \in Couples
    BY <1>1 DEF Couples
  <2>2. \A u, p \in Users : {u, p} \in FriendCouples' <=> {u, p} \in FriendCouples \/ {u, p} = {me, peer}
    BY <1>11, <1>13 DEF ByPairs
  <2>3. \A u, p \in Users : {u, p} \in ChatCouples' <=> {u, p} \in ChatCouples \/ {u, p} = {me, peer}
    BY <1>5, <1>13 DEF ByPairs
  <2>4. /\ FriendCouples \subseteq Couples /\ ChatCouples \subseteq Couples
        /\ FriendCouples' \subseteq Couples /\ ChatCouples' \subseteq Couples
    BY <1>13 DEF ByPairs, Couples
  <2> HIDE DEF me, peer
  <2>5. FriendCouples' = FriendCouples \cup {{me, peer}}
    BY <2>1, <2>2, <2>4, AddedCouple
  <2>6. ChatCouples' = ChatCouples \cup {{me, peer}}
    BY <2>1, <2>3, <2>4, AddedCouple
  <2> QED
    BY <2>5, <2>6
<1>15. Pending' = Pending \ {<<peer, me>>} /\ <<peer, me>> \in Pending
  <2>1. IsPending(<<peer, me>>)
    BY <1>8 DEF IsPending
  <2> QED
    BY <1>1, <1>12, <1>13, <2>1 DEF ByPairs
<1>16. Promise!Next
  BY <1>1, <1>14, <1>15 DEF Promise!Agree, Promise!Next
<1>17. NobodyOwnFriend' /\ FriendsChat'
  BY <1>3, <1>5, <1>11 DEF TablesFit, NobodyOwnFriend, FriendsChat
<1>18. ChatsOfFriends'
  <2> SUFFICES ASSUME NoFailure, NEW u \in Users, NEW p \in Users, HaveChat(u, p)'
               PROVE  relation[<<u, p>>] > 0 \/ Removing(u, p)'
    BY <1>3 DEF ChatsOfFriends
  <2>1. HaveChat(u, p) \/ {u, p} = {me, peer}
    BY <1>5
  <2> QED
    BY <1>7, <1>10, <2>1 DEF TablesFit, ChatsOfFriends
<1>19. FoundStands'
  <2>1. OnlyMine(w)
    <3> SUFFICES ASSUME NEW u \in Users, NEW p \in Users, u # p, {u, p} # {me, peer} PROVE SamePair(u, p)
      BY <1>1 DEF OnlyMine
    <3> QED
      BY <1>3, <1>4 DEF SamePair
  <2> QED
    BY <1>3, <1>6, <2>1, IdleFound, OthersFound
<1> QED
  BY <1>16, <1>17, <1>18, <1>19 DEF TablesFit, Faithful

LEMMA RemoveIsFaithful ==
  ASSUME TypeOK, RelationSymmetric, RelationSymmetric', PairsApart, TablesFit, FoundStands,
         NEW w \in Workers, RemoveRelation(w)
  PROVE  Faithful
<1> DEFINE me == req[w].uid
           peer == req[w].pid
<1>1. /\ pc[w] = "remove_relation" /\ pc[w] \in PairSteps /\ me \in Users /\ peer \in Users
      /\ <<me, peer>> \in Pairs /\ <<peer, me>> \in Pairs /\ PairOf(w) = {me, peer} /\ me # peer
  BY PairHandler DEF RemoveRelation, PairSteps
<1>2. /\ relation' = [relation EXCEPT ![<<me, peer>>] = 0, ![<<peer, me>>] = 0]
      /\ UNCHANGED <<friend_apply, chat_session, chat_session_member>>
      /\ pc'[w] = "remove_session_find" /\ req'[w] = req[w]
      /\ OthersGoOn(w) /\ NoFailure' = NoFailure
  BY MoveKinds DEF RemoveRelation, RelationRemove
<1>3. \A u, p \in Users : relation'[<<u, p>>] = IF {u, p} = {me, peer} THEN 0 ELSE relation[<<u, p>>]
  <2> TAKE u \in Users, p \in Users
  <2>1. <<u, p>> \in Pairs
    BY DEF Pairs
  <2>2. {u, p} = {me, peer} <=> (<<u, p>> = <<me, peer>> \/ <<u, p>> = <<peer, me>>)
    BY PairOfSet
  <2> QED
    BY <1>1, <1>2, <2>1, <2>2 DEF TypeOK, TablesTyped
<1>4. GoesOn(w) /\ \A u, p \in Users : SingleSessions(u, p)' = SingleSessions(u, p)
  BY <1>1, <1>2 DEF GoesOn, SingleSessions, PairSteps
<1>5. /\ \A u, p : HalfMade(u, p)' <=> HalfMade(u, p)
      /\ \A u, p : IF {u, p} = {me, peer} THEN ~Removing(u, p) /\ Removing(u, p)' /\ ~HalfMade(u, p)
                   ELSE Removing(u, p)' <=> Removing(u, p)
  BY <1>1, <1>2, <1>4, HalfAfter, RemovingAfter DEF HalfSteps, EndSteps
<1>6. \A x : AgreedOn(x)' <=> AgreedOn(x)
  <2>1. ~Agreeing(w) /\ ~Agreeing(w)'
    BY <1>1, <1>2 DEF Agreeing
  <2> QED
    BY <1>4, <2>1, AgreedAfter
<1>7. \A u, p \in Users : Befriended(u, p)' <=> Befriended(u, p) /\ {u, p} # {me, peer}
  <2> TAKE u \in Users, p \in Users
  <2>1. CASE {u, p} = {me, peer}
    <3>1. relation'[<<u, p>>] = 0 /\ ~HalfMade(u, p)'
      BY <1>3, <1>5, <2>1
    <3> QED
      BY <2>1, <3>1 DEF Befriended
  <2>2. CASE {u, p} # {me, peer}
    BY <1>3, <1>5, <2>2 DEF Befriended
  <2> QED
    BY <2>1, <2>2
<1>8. SameChats /\ SamePending
  BY <1>2, <1>4, <1>6 DEF SameChats, HaveChat, SamePending, IsPending
<1>9. NobodyOwnFriend' /\ FriendsChat'
  <2>1. \A u \in Users : relation'[<<u, u>>] = 0
    BY <1>3 DEF TablesFit, NobodyOwnFriend
  <2> QED
    BY <1>7, <1>8, <2>1 DEF TablesFit, NobodyOwnFriend, FriendsChat, SameChats
<1>10. ChatsOfFriends'
  <2> SUFFICES ASSUME NoFailure, NEW u \in Users, NEW p \in Users, HaveChat(u, p)
               PROVE  relation'[<<u, p>>] > 0 \/ Removing(u, p)'
    BY <1>2, <1>8 DEF ChatsOfFriends, SameChats
  <2>1. relation[<<u, p>>] > 0 \/ Removing(u, p)
    BY DEF TablesFit, ChatsOfFriends
  <2> QED
    BY <1>3, <1>5, <2>1
<1>11. FoundStands'
  <2>1. OnlyMine(w)
    <3> SUFFICES ASSUME NEW u \in Users, NEW p \in Users, {u, p} # {me, peer} PROVE SamePair(u, p)
      BY <1>1 DEF OnlyMine
    <3> QED
      BY <1>2, <1>3, <1>4 DEF SamePair
  <2>2. relation'[<<me, peer>>] = 0
    BY <1>1, <1>3
  <2>3. Found(w)'
    BY <1>2, <2>2 DEF Found, Applicable, Answerable, Removable, Agreeing, HalfSteps
  <2> QED
    BY <1>4, <2>1, <2>3, OthersFound
<1>12. FriendCouples' = FriendCouples \ {{me, peer}}
  <2>1. ByPairs /\ ByPairs'
    BY StateByPairs, PTL
  <2>2. \A u, p \in Users : {u, p} \in FriendCouples' <=> {u, p} \in FriendCouples /\ {u, p} # {me, peer}
    BY <1>7, <2>1 DEF ByPairs
  <2>3. FriendCouples \subseteq Couples /\ FriendCouples' \subseteq Couples
    BY <2>1 DEF ByPairs, Couples
  <2>4. {me, peer} \in Couples
    BY <1>1 DEF Couples
  <2> PICK c \in Couples : c = {me, peer}
    BY <2>4
  <2> HIDE DEF me, peer
  <2>5. \A u, p \in Users : {u, p} \in FriendCouples' <=> {u, p} \in FriendCouples /\ {u, p} # c
    BY <2>2
  <2>6. \A d \in Couples : d \in FriendCouples' <=> d \in FriendCouples /\ d # c
    <3> TAKE d \in Couples
    <3> PICK u \in Users, p \in Users : d = {u, p}
      BY DEF Couples
    <3> QED
      BY <2>5
  <2>7. FriendCouples' = FriendCouples \ {c}
    BY <2>3, <2>6
  <2> QED
    BY <2>7
<1>13. Promise!Remove(me, peer)
  BY <1>8, <1>12, SameIsSame DEF Promise!Remove
<1> QED
  BY <1>1, <1>9, <1>10, <1>11, <1>13 DEF TablesFit, Faithful, Promise!Next

LEMMA EraseIsFaithful ==
  ASSUME TypeOK, SessionInv, RelationSymmetric, RelationSymmetric', PairsApart, TablesFit, FoundStands,
         NEW w \in Workers, RemoveSessionErase(w)
  PROVE  Faithful
<1> DEFINE me == req[w].uid
           peer == req[w].pid
           s == cssid[w]
<1>1. /\ pc[w] = "remove_session_erase" /\ pc[w] \in PairSteps /\ me \in Users /\ peer \in Users
      /\ <<me, peer>> \in Pairs /\ PairOf(w) = {me, peer} /\ me # peer /\ req[w] \in PairRequest
  BY PairHandler DEF RemoveSessionErase, PairSteps
<1>2. relation[<<me, peer>>] = 0 /\ relation[<<peer, me>>] = 0 /\ SingleSessions(me, peer) = {s}
  BY <1>1 DEF FoundStands, Found, Removable, RelationSymmetric, EndSteps
<1>3. /\ SessionErase(s) /\ UNCHANGED <<friend_apply, relation>>
      /\ pc'[w] = "idle" /\ OthersGoOn(w) /\ NoFailure' = NoFailure
  BY MoveKinds DEF RemoveSessionErase
<1>4. \A u, p \in Users :
        u # p => SingleSessions(u, p)' = IF {u, p} = {me, peer} THEN {} ELSE SingleSessions(u, p)
  <2> SUFFICES ASSUME NEW u \in Users, NEW p \in Users, u # p
               PROVE  SingleSessions(u, p)' = IF {u, p} = {me, peer} THEN {} ELSE SingleSessions(u, p)
    OBVIOUS
  <2> DEFINE r == req[w]
  <2>1. r \in PairRequest /\ s \in SingleSessions(r.uid, r.pid) /\ r.uid = me /\ r.pid = peer
    BY <1>1, <1>2
  <2>2. {u, p} = {me, peer} => SingleSessions(u, p) = {s}
    <3>1. {u, p} = {me, peer} => (u = me /\ p = peer) \/ (u = peer /\ p = me)
      BY PairOfSet
    <3> QED
      BY <1>2, <3>1, SessionsEitherWay
  <2> HIDE DEF r, s, me, peer
  <2>3. SingleSessions(u, p)' =
          IF {r.uid, r.pid} = {u, p} THEN SingleSessions(u, p) \ {s} ELSE SingleSessions(u, p)
    BY <1>3, <2>1, EraseTakesChat
  <2> QED
    BY <2>1, <2>2, <2>3
<1>5. \A u, p \in Users : HaveChat(u, p)' <=> HaveChat(u, p) /\ {u, p} # {me, peer}
  <2> TAKE u \in Users, p \in Users
  <2>1. CASE u = p
    BY <2>1 DEF HaveChat
  <2>2. CASE u # p
    <3>1. SingleSessions(u, p)' # {} <=> SingleSessions(u, p) # {} /\ {u, p} # {me, peer}
      BY <1>4, <2>2
    <3> QED
      BY <2>2, <3>1 DEF HaveChat
  <2> QED
    BY <2>1, <2>2
<1>6. GoesOn(w)
  BY <1>1, <1>3 DEF GoesOn
<1>7. /\ \A u, p : HalfMade(u, p)' <=> HalfMade(u, p)
      /\ \A u, p : IF {u, p} = {me, peer} THEN ~HalfMade(u, p) ELSE Removing(u, p)' <=> Removing(u, p)
  BY <1>1, <1>3, <1>6, HalfAfter, RemovingAfter DEF HalfSteps, EndSteps
<1>8. \A x : AgreedOn(x)' <=> AgreedOn(x)
  <2>1. ~Agreeing(w) /\ ~Agreeing(w)'
    BY <1>1, <1>3 DEF Agreeing
  <2> QED
    BY <1>6, <2>1, AgreedAfter
<1>9. SameFriends /\ SamePending
  BY <1>3, <1>7, <1>8 DEF SameFriends, Befriended, SamePending, IsPending
<1>10. \A u, p \in Users : {u, p} = {me, peer} => ~Befriended(u, p)
  <2>1. \A u, p \in Users : {u, p} = {me, peer} => relation[<<u, p>>] = 0
    BY <1>2, PairOfSet
  <2> QED
    BY <1>7, <2>1 DEF Befriended
<1>11. NobodyOwnFriend' /\ FriendsChat'
  <2> SUFFICES ASSUME NEW u \in Users, NEW p \in Users, Befriended(u, p)'
               PROVE  HaveChat(u, p)'
    BY <1>3 DEF TablesFit, NobodyOwnFriend, FriendsChat
  <2>1. Befriended(u, p)
    BY <1>9 DEF SameFriends
  <2> QED
    BY <1>5, <1>10, <2>1 DEF TablesFit, FriendsChat
<1>12. ChatsOfFriends'
  <2> SUFFICES ASSUME NoFailure, NEW u \in Users, NEW p \in Users, HaveChat(u, p)'
               PROVE  relation[<<u, p>>] > 0 \/ Removing(u, p)'
    BY <1>3 DEF ChatsOfFriends
  <2>1. HaveChat(u, p) /\ {u, p} # {me, peer}
    BY <1>5
  <2> QED
    BY <1>7, <2>1 DEF TablesFit, ChatsOfFriends
<1>13. FoundStands'
  <2>1. OnlyMine(w)
    <3> SUFFICES ASSUME NEW u \in Users, NEW p \in Users, u # p, {u, p} # {me, peer} PROVE SamePair(u, p)
      BY <1>1 DEF OnlyMine
    <3> QED
      BY <1>3, <1>4 DEF SamePair
  <2> QED
    BY <1>3, <1>6, <2>1, IdleFound, OthersFound
<1>14. ByPairs /\ ByPairs'
  BY StateByPairs, PTL
<1>15. ChatCouples' = ChatCouples \ {{me, peer}}
  <2>1. \A u, p \in Users : {u, p} \in ChatCouples' <=> {u, p} \in ChatCouples /\ {u, p} # {me, peer}
    BY <1>5, <1>14 DEF ByPairs
  <2>2. ChatCouples \subseteq Couples /\ ChatCouples' \subseteq Couples
    BY <1>14 DEF ByPairs, Couples
  <2>3. {me, peer} \in Couples
    BY <1>1 DEF Couples
  <2> PICK c \in Couples : c = {me, peer}
    BY <2>3
  <2> HIDE DEF me, peer
  <2>5. \A u, p \in Users : {u, p} \in ChatCouples' <=> {u, p} \in ChatCouples /\ {u, p} # c
    BY <2>1
  <2>6. \A d \in Couples : d \in ChatCouples' <=> d \in ChatCouples /\ d # c
    <3> TAKE d \in Couples
    <3> PICK u \in Users, p \in Users : d = {u, p}
      BY DEF Couples
    <3> QED
      BY <2>5
  <2>7. ChatCouples' = ChatCouples \ {c}
    BY <2>2, <2>6
  <2> QED
    BY <2>7
<1>16. {me, peer} \notin FriendCouples
  BY <1>1, <1>10, <1>14 DEF ByPairs
<1>17. Promise!CloseChat(me, peer)
  BY <1>9, <1>15, <1>16, SameIsSame DEF Promise!CloseChat
<1> QED
  BY <1>1, <1>11, <1>12, <1>13, <1>17 DEF TablesFit, Faithful, Promise!Next


-----------------------------------------------------------------------------
(* Every orderly step.                                                     *)
LEMMA StutterIsFaithful ==
  ASSUME RelationSymmetric, RelationSymmetric', TablesFit, FoundStands, UNCHANGED vars
  PROVE  Faithful
<1>1. UNCHANGED <<friend_apply, relation, chat_session, chat_session_member, pc, req, cssid,
                  faults, crashes, aborted>>
  BY DEF vars, tables, handlers, failures
<1>2. \A u, p : SingleSessions(u, p)' = SingleSessions(u, p)
  BY <1>1 DEF SingleSessions
<1>3. Silent
  BY <1>1, <1>2 DEF Silent, HalfMade, Removing, WorkedOn, PairOf, AgreedOn, Agreeing, NoFailure
<1>4. FoundStands'
  BY <1>1, <1>2 DEF FoundStands, Found, Applicable, Answerable, Removable, Agreeing
<1> QED
  BY <1>3, <1>4, SilentIsFaithful

LEMMA StepIsFaithful ==
  ASSUME TypeOK, SessionInv, RelationSymmetric, RelationSymmetric', OrderlyInv, Next, Orderly
  PROVE  Faithful
<1> USE DEF OrderlyInv
<1>1. ASSUME NEW w \in Workers, NewRequest(w) PROVE Faithful
  BY <1>1, StartIsFaithful
<1>2. ASSUME NEW w \in Workers, HandlerStep(w) PROVE Faithful
  <2>1. CASE AddRelationExists(w) \/ AddApplyExists(w) \/ ProcessApplyExists(w)
    BY <2>1, LookIsFaithful
  <2>2. CASE ProcessSessionInsert(w) \/ CreateSessionInsert(w) \/ CreateMemberAppend(w)
    BY <2>2, SessionStepsAreFaithful
  <2>3. CASE RemoveSessionFind(w) \/ RemoveSessionFindNone(w) \/ RemoveSessionFindMany(w)
    BY <2>3, FindIsFaithful
  <2>4. CASE AddApplyInsert(w)
    BY <2>4, ApplyIsFaithful
  <2>5. CASE ProcessApplyRemove(w)
    BY <2>5, AnswerIsFaithful
  <2>6. CASE ProcessRelationInsert(w)
    BY <2>6, BefriendIsFaithful
  <2>7. CASE ProcessMemberAppend(w)
    BY <2>7, AgreeIsFaithful
  <2>8. CASE RemoveRelation(w)
    BY <2>8, RemoveIsFaithful
  <2>9. CASE RemoveSessionErase(w)
    BY <2>9, EraseIsFaithful
  <2> QED
    BY <1>2, <2>1, <2>2, <2>3, <2>4, <2>5, <2>6, <2>7, <2>8, <2>9 DEF HandlerStep
<1>3. ASSUME NEW w \in Workers, TableCallFails(w) PROVE Faithful
  BY <1>3, FailureIsFaithful
<1>4. \A w \in Workers : ~ExistsFails(w)
  BY DEF Orderly
<1>5. CASE ProcessKilled
  BY <1>5, KillIsFaithful
<1> QED
  BY <1>1, <1>2, <1>3, <1>4, <1>5 DEF Next

LEMMA StepOrderly ==
  TypeOK /\ SessionInv /\ RelationSymmetric /\ RelationSymmetric' /\ OrderlyInv
    /\ [Next /\ Orderly]_vars
  => OrderlyInv' /\ [Promise!Next]_(Promise!vars)
<1> SUFFICES ASSUME TypeOK, SessionInv, RelationSymmetric, RelationSymmetric', OrderlyInv,
                    [Next /\ Orderly]_vars
             PROVE  PairsApart' /\ Faithful
  BY DEF Faithful, OrderlyInv
<1>1. CASE Next /\ Orderly
  BY <1>1, StepIsFaithful DEF Orderly
<1>2. CASE UNCHANGED vars
  <2>1. PairsApart'
    BY <1>2 DEF OrderlyInv, PairsApart, PairOf, vars, handlers
  <2> QED
    BY <1>2, <2>1, StutterIsFaithful DEF OrderlyInv
<1> QED
  BY <1>1, <1>2

LEMMA InitOrderly == Init => OrderlyInv /\ Promise!Init
<1> SUFFICES ASSUME Init PROVE OrderlyInv /\ Promise!Init
  OBVIOUS
<1>1. \A w \in Workers : pc[w] = "idle"
  BY DEF Init
<1>2. \A u, p : ~HalfMade(u, p)
  BY <1>1 DEF HalfMade, WorkedOn
<1>3. \A u, p \in Users : relation[<<u, p>>] = 0 /\ SingleSessions(u, p) = {}
  BY DEF Init, Pairs, SingleSessions
<1>4. \A u, p \in Users : ~Befriended(u, p) /\ ~HaveChat(u, p)
  <2> TAKE u \in Users, p \in Users
  <2>1. relation[<<u, p>>] = 0 /\ ~HalfMade(u, p)
    BY <1>2, <1>3
  <2>2. ~Befriended(u, p)
    BY <2>1 DEF Befriended
  <2> QED
    BY <1>3, <2>2 DEF HaveChat
<1>5. PairsApart
  BY <1>1 DEF PairsApart, PairSteps
<1>6. TablesFit
  BY <1>3, <1>4 DEF TablesFit, NobodyOwnFriend, FriendsChat, ChatsOfFriends
<1>7. FoundStands
  BY <1>1 DEF FoundStands, Found, Applicable, Answerable, Removable, Agreeing, HalfSteps, EndSteps
<1>8. \A x \in Pairs : ~IsPending(x)
  BY <1>1 DEF Init, IsPending, AgreedOn, Agreeing
<1>9. ByPairs
  BY <1>3, StateByPairs DEF RelationSymmetric
<1>10. Pending = {}
  BY <1>8, <1>9 DEF ByPairs
<1>11. FriendCouples = {} /\ ChatCouples = {}
  BY <1>4, <1>9 DEF ByPairs, Couples
<1> QED
  BY <1>5, <1>6, <1>7, <1>10, <1>11 DEF OrderlyInv, Promise!Init

LEMMA OrderlyIsSpec == OrderlySpec => Spec
<1>1. [Next /\ Orderly]_vars => [Next]_vars
  OBVIOUS
<1> QED
  BY <1>1, PTL DEF OrderlySpec, Spec

LEMMA OrderlyInductive ==
  OrderlySpec => []OrderlyInv /\ [][Promise!Next]_(Promise!vars)
BY OrderlyIsSpec, InitOrderly, StepOrderly, SessionsInductive, FriendshipIsSymmetric, PTL
DEF OrderlySpec

(* While steps are orderly, whoever is in the friend list of a user has a  *)
(* private chat with him in the session list, unless a handler is working  *)
(* on the two; and if nothing has failed a private chat is one with a      *)
(* friend.                                                                 *)
THEOREM FriendsCanTalk == OrderlySpec => []FriendsHaveChat
<1>1. TypeOK /\ SessionInv /\ OrderlyInv => FriendsHaveChat
  <2> SUFFICES ASSUME TypeOK, SessionInv, TablesFit, NEW u \in Users, NEW p \in Users,
                      ~WorkedOn(PairSteps, u, p)
               PROVE  LET chats == {c \in GetChatSessionList(u).single : c[2] = p} IN
                        /\ p \in GetFriendList(u) =>
                             \E c \in chats : GetChatSessionMember(c[1]) = {u, p}
                        /\ (faults = 0 /\ crashes = 0 /\ ~aborted) =>
                             (chats # {} => p \notin FriendSearch(u, Users))
    BY DEF FriendsHaveChat, OrderlyInv
  <2>1. ~HalfMade(u, p) /\ ~Removing(u, p)
    BY StepsOfPairs DEF HalfMade, Removing, WorkedOn, HalfSteps
  <2>2. ASSUME p \in GetFriendList(u)
        PROVE  \E c \in SingleChatSession(u) : c[2] = p /\ GetChatSessionMember(c[1]) = {u, p}
    <3>1. Befriended(u, p)
      BY <2>1, <2>2 DEF GetFriendList, Friends, Befriended
    <3>2. HaveChat(u, p)
      BY <3>1 DEF TablesFit, FriendsChat
    <3>3. PICK s : s \in SingleSessions(u, p)
      BY <3>2 DEF HaveChat
    <3>4. PICK r \in PairRequest : chat_session_member[s] = Both(r)
      BY <3>3 DEF SingleSessions, SessionInv, SingleSessionsArePairs, NoRows
    <3>5. {r.uid, r.pid} = {u, p}
      BY <3>2, <3>3, <3>4, MembersOfBoth DEF SingleSessions, HaveChat
    <3>6. Members(s) = {r.uid, r.pid}
      BY <3>4 DEF Members, Both, PairRequest
    <3>7. <<s, p>> \in SingleChatSession(u)
      BY <3>2, <3>3 DEF SingleSessions, SingleChatSession, HaveChat
    <3> QED
      BY <3>5, <3>6, <3>7 DEF GetChatSessionMember
  <2>3. ASSUME faults = 0 /\ crashes = 0 /\ ~aborted, NEW c \in SingleChatSession(u), c[2] = p
        PROVE  p \notin FriendSearch(u, Users)
    <3>1. HaveChat(u, p)
      BY <2>3 DEF SingleChatSession, SingleSessions, HaveChat
    <3>2. relation[<<u, p>>] > 0
      BY <2>1, <2>3, <3>1 DEF TablesFit, ChatsOfFriends, NoFailure
    <3> QED
      BY <3>2 DEF FriendSearch, Friends
  <2> QED
    BY <2>2, <2>3 DEF GetChatSessionList
<1> QED
  BY <1>1, OrderlyInductive, OrderlyIsSpec, SessionsInductive, PTL

(* While steps are orderly, the service implements Friendship: whatever    *)
(* runs beside a handler or fails, its client sees one step or none.       *)
THEOREM KeepsItsPromise == OrderlySpec => ImplementsFriendship
<1>1. OrderlySpec => Promise!Init
  BY InitOrderly, PTL DEF OrderlySpec
<1> QED
  BY <1>1, OrderlyInductive, PTL DEF ImplementsFriendship, Promise!Spec
=============================================================================
