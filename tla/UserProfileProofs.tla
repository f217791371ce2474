------------------------- MODULE UserProfileProofs -------------------------
(***************************************************************************)
(* Theorems about UserProfile, for any users, values, handlers and bounds. *)
(***************************************************************************)
EXTENDS UserProfile, TLAPS

(* What a handler that is not idle holds: a User object, a column, and,    *)
(* once it is past its insert or setting a column, a user who has a row.   *)
PastInsert == {"register_index", "set_select", "put_file", "set_update", "set_index"}

HandlerHolds(w) ==
  pc[w] # "idle" => /\ field[w] \in Fields
                    /\ copy[w] \in Row
                    /\ pc[w] \in PastInsert => Exists(uid[w])

HandlersHold == \A w \in Workers : HandlerHolds(w)

TypeInv == TypeOK /\ HandlersHold

-----------------------------------------------------------------------------
(* Rows. *)

LEMMA RowFields ==
  ASSUME NEW row \in Row
  PROVE  /\ row.nickname \in Nicknames \cup Users
         /\ row.phone \in Phones \cup {NoValue}
         /\ row.description \in Descriptions \cup {NoValue}
         /\ row.avatar_id \in Files \cup {NoValue}
BY DEF Row

LEMMA FieldIsValue ==
  ASSUME NEW row \in Row, NEW f \in Fields
  PROVE  row[f] \in Values
<1>1. CASE f = "nickname"    BY <1>1 DEF Row, Values
<1>2. CASE f = "phone"       BY <1>2 DEF Row, Values
<1>3. CASE f = "description" BY <1>3 DEF Row, Values
<1>4. CASE f = "avatar_id"   BY <1>4 DEF Row, Values
<1> QED
  BY <1>1, <1>2, <1>3, <1>4 DEF Fields

(* One column of a row taken from another row. *)
LEMMA MergedRow ==
  ASSUME NEW row \in Row, NEW other \in Row, NEW f \in Fields
  PROVE  /\ [row EXCEPT ![f] = other[f]] \in Row
         /\ f # "avatar_id" => [row EXCEPT ![f] = other[f]].avatar_id = row.avatar_id
<1>1. CASE f = "nickname"    BY <1>1 DEF Row
<1>2. CASE f = "phone"       BY <1>2 DEF Row
<1>3. CASE f = "description" BY <1>3 DEF Row
<1>4. CASE f = "avatar_id"   BY <1>4 DEF Row
<1> QED
  BY <1>1, <1>2, <1>3, <1>4 DEF Fields

(* A row in which a setter has put its value. *)
LEMMA SetRow ==
  ASSUME NEW row \in Row, NEW s \in Settings
  PROVE  s[1] \in Fields /\ [row EXCEPT ![s[1]] = s[2]] \in Row
<1>1. CASE s \in {"nickname"} \X Nicknames       BY <1>1 DEF Row, Fields
<1>2. CASE s \in {"phone"} \X Phones             BY <1>2 DEF Row, Fields
<1>3. CASE s \in {"description"} \X Descriptions BY <1>3 DEF Row, Fields
<1>4. CASE s = <<"avatar_id", NoValue>>          BY <1>4 DEF Row, Fields
<1> QED
  BY <1>1, <1>2, <1>3, <1>4 DEF Settings

LEMMA NewRowIsRow ==
  ASSUME NEW n \in Nicknames \cup Users, NEW p \in Phones \cup {NoValue}
  PROVE  NewRow(n, p) \in Row /\ NewRow(n, p).avatar_id = NoValue
BY DEF NewRow, Row

-----------------------------------------------------------------------------
(* Type correctness, by what a step does to the handler that takes it. *)

LEMMA InitTypeInv == Init => TypeInv
BY ProfileAssumption DEF Init, TypeInv, TypeOK, HandlersHold, HandlerHolds, Steps, Fields, Values

(* A request begins: its object is a row, and a setter's user has one. *)
LEMMA BeginTyped ==
  ASSUME TypeInv, NEW w \in Workers, NEW step \in Steps \ {"idle"},
         NEW u \in Users, NEW f \in Fields, NEW row \in Row,
         Begin(w, step, u, f, row), step \in PastInsert => Exists(u),
         overlapped' \subseteq Users
  PROVE  TypeInv'
<1>1. \A x \in Workers : pc'[x] = "idle" <=> uid'[x] = NoUser
  BY ProfileAssumption DEF TypeInv, TypeOK, Begin, Steps
<1>2. TypeOK'
  BY <1>1 DEF TypeInv, TypeOK, Begin, stores, answers, Fields
<1>3. ASSUME NEW x \in Workers PROVE HandlerHolds(x)'
  BY DEF TypeInv, TypeOK, HandlersHold, HandlerHolds, Begin, stores, Exists
<1> QED
  BY <1>2, <1>3 DEF TypeInv, HandlersHold

LEMMA RegisterTyped ==
  ASSUME TypeInv, NEW w \in Workers, UserRegister(w) \/ PhoneRegister(w)
  PROVE  TypeInv'
<1>1. CASE UserRegister(w)
  <2>1. PICK u \in Users, n \in Nicknames :
          Begin(w, "register_check", u, "nickname", NewRow(n, NoValue))
    BY <1>1 DEF UserRegister
  <2>2. NewRow(n, NoValue) \in Row
    BY NewRowIsRow
  <2>3. overlapped' \subseteq Users
    BY <1>1 DEF UserRegister, TypeInv, TypeOK
  <2> QED
    BY <2>1, <2>2, <2>3, BeginTyped DEF Steps, PastInsert, Fields
<1>2. CASE PhoneRegister(w)
  <2>1. PICK u \in Users, p \in Phones :
          Begin(w, "register_check", u, "phone", NewRow(u, p))
    BY <1>2 DEF PhoneRegister
  <2>2. NewRow(u, p) \in Row
    BY NewRowIsRow
  <2>3. overlapped' \subseteq Users
    BY <1>2 DEF PhoneRegister, TypeInv, TypeOK
  <2> QED
    BY <2>1, <2>2, <2>3, BeginTyped DEF Steps, PastInsert, Fields
<1> QED
  BY <1>1, <1>2

LEMMA SetUserTyped ==
  ASSUME TypeInv, NEW w \in Workers, SetUser(w)
  PROVE  TypeInv'
<1>1. PICK u \in Users, s \in Settings :
        /\ Exists(u)
        /\ Begin(w, "set_select", u, s[1], [user[u] EXCEPT ![s[1]] = s[2]])
        /\ overlapped' = IF \E x \in Workers : uid[x] = u
                          THEN overlapped \cup {u} ELSE overlapped
  BY DEF SetUser
<1>2. user[u] \in Row
  BY <1>1 DEF TypeInv, TypeOK, Exists
<1>3. s[1] \in Fields /\ [user[u] EXCEPT ![s[1]] = s[2]] \in Row
  BY <1>2, SetRow
<1>4. overlapped' \subseteq Users
  BY <1>1 DEF TypeInv, TypeOK
<1>5. "set_select" \in Steps \ {"idle"}
  BY DEF Steps
<1> QED
  BY <1>1, <1>3, <1>4, <1>5, BeginTyped

(* What the stores may hold after a step. *)
StoresTyped ==
  /\ user \in [Users -> Row \cup {NoRow}]
  /\ es \in [Users -> Row \cup {NoRow}]
  /\ files \in SUBSET Files

(* No step deletes a row. *)
RowsStay == \A u \in Users : Exists(u) => Exists(u)'

AnswersTyped ==
  /\ registered \in SUBSET Users
  /\ set \in [Users -> [Fields -> Values]]
  /\ unindexed \in SUBSET Users

LEMMA UnansweredTyped ==
  ASSUME TypeOK, NEW W, Unanswered(W)
  PROVE  set' \in [Users -> [Fields -> Values]]
<1>1. NoValue \in Values
  BY DEF Values
<1> QED
  BY <1>1 DEF TypeOK, Unanswered

LEMMA ReturnTyped ==
  ASSUME TypeInv, NEW w \in Workers, Return(w),
         StoresTyped', RowsStay, AnswersTyped', faults' \in Nat
  PROVE  TypeInv'
<1>1. TypeOK'
  BY ProfileAssumption DEF TypeInv, TypeOK, StoresTyped, AnswersTyped, Return, Steps
<1>2. ASSUME NEW x \in Workers PROVE HandlerHolds(x)'
  <2>1. CASE x = w
    BY <2>1 DEF TypeInv, TypeOK, HandlerHolds, Return
  <2>2. CASE x # w
    <3>1. pc'[x] = pc[x] /\ uid'[x] = uid[x] /\ field'[x] = field[x] /\ copy'[x] = copy[x]
      BY <2>2 DEF TypeInv, TypeOK, Return
    <3>2. pc[x] # "idle" => uid[x] \in Users
      BY DEF TypeInv, TypeOK
    <3> QED
      BY <3>1, <3>2 DEF TypeInv, HandlersHold, HandlerHolds, RowsStay, Exists
  <2> QED
    BY <2>1, <2>2
<1> QED
  BY <1>1, <1>2 DEF TypeInv, HandlersHold

LEMMA ContinueTyped ==
  ASSUME TypeInv, NEW w \in Workers, NEW step \in Steps \ {"idle"},
         pc[w] # "idle", Continue(w, step), step \in PastInsert => Exists(uid[w])',
         copy' \in [Workers -> Row \cup {NoRow}], copy'[w] \in Row,
         \A x \in Workers : x # w => copy'[x] = copy[x],
         StoresTyped', RowsStay, AnswersTyped', faults' \in Nat
  PROVE  TypeInv'
<1>1. TypeOK'
  <2>1. \A x \in Workers : pc'[x] = "idle" <=> uid'[x] = NoUser
    BY DEF TypeInv, TypeOK, Continue
  <2> QED
    BY <2>1 DEF TypeInv, TypeOK, StoresTyped, AnswersTyped, Continue
<1>2. ASSUME NEW x \in Workers PROVE HandlerHolds(x)'
  <2>1. CASE x = w
    BY <2>1 DEF TypeInv, TypeOK, HandlersHold, HandlerHolds, Continue
  <2>2. CASE x # w
    <3>1. pc'[x] = pc[x] /\ uid'[x] = uid[x] /\ field'[x] = field[x] /\ copy'[x] = copy[x]
      BY <2>2 DEF TypeInv, TypeOK, Continue
    <3>2. pc[x] # "idle" => uid[x] \in Users
      BY DEF TypeInv, TypeOK
    <3> QED
      BY <3>1, <3>2 DEF TypeInv, HandlersHold, HandlerHolds, RowsStay, Exists
  <2> QED
    BY <2>1, <2>2
<1> QED
  BY <1>1, <1>2 DEF TypeInv, HandlersHold

LEMMA RegistrationTyped ==
  ASSUME TypeInv, NEW w \in Workers,
         RegisterCheck(w) \/ RegisterInsert(w) \/ RegisterIndex(w)
  PROVE  TypeInv'
<1>1. uid[w] \in Users /\ copy[w] \in Row /\ pc[w] # "idle"
  BY DEF TypeInv, TypeOK, HandlersHold, HandlerHolds, RegisterCheck, RegisterInsert, RegisterIndex
<1>2. CASE RegisterCheck(w)
  <2>1. StoresTyped' /\ RowsStay /\ AnswersTyped' /\ faults' \in Nat
    BY <1>2 DEF TypeInv, TypeOK, StoresTyped, RowsStay, AnswersTyped, RegisterCheck,
                stores, answers, Fault, Exists
  <2>2. CASE Return(w)
    BY <2>1, <2>2, ReturnTyped
  <2>3. CASE Continue(w, "register_insert") /\ UNCHANGED copy
    <3>1. "register_insert" \in Steps \ {"idle"} /\ "register_insert" \notin PastInsert
      BY DEF Steps, PastInsert
    <3> QED
      BY <1>1, <2>1, <2>3, <3>1, ContinueTyped DEF TypeInv, TypeOK
  <2> QED
    BY <1>2, <2>2, <2>3 DEF RegisterCheck
<1>3. CASE RegisterInsert(w)
  <2>1. StoresTyped' /\ RowsStay /\ AnswersTyped' /\ faults' \in Nat
    BY <1>1, <1>3, RowAssumption
      DEF TypeInv, TypeOK, StoresTyped, RowsStay, AnswersTyped, RegisterInsert, answers, Exists
  <2>2. CASE Conflicts(uid[w], copy[w])
    BY <1>3, <2>1, <2>2, ReturnTyped DEF RegisterInsert
  <2>3. CASE ~Conflicts(uid[w], copy[w])
    <3>1. Exists(uid[w])'
      BY <1>1, <1>3, <2>3, RowAssumption DEF RegisterInsert, Exists, TypeInv, TypeOK, Continue
    <3>2. "register_index" \in Steps \ {"idle"}
      BY DEF Steps
    <3>3. Continue(w, "register_index") /\ UNCHANGED copy
      BY <1>3, <2>3 DEF RegisterInsert
    <3> QED
      BY <1>1, <2>1, <3>1, <3>2, <3>3, ContinueTyped DEF TypeInv, TypeOK
  <2> QED
    BY <2>2, <2>3
<1>4. CASE RegisterIndex(w)
  <2>1. StoresTyped' /\ RowsStay /\ AnswersTyped' /\ faults' \in Nat
    BY <1>1, <1>4 DEF TypeInv, TypeOK, StoresTyped, RowsStay, AnswersTyped, RegisterIndex,
                      Fault, Exists
  <2> QED
    BY <1>4, <2>1, ReturnTyped DEF RegisterIndex
<1> QED
  BY <1>2, <1>3, <1>4

LEMMA SettingTyped ==
  ASSUME TypeInv, NEW w \in Workers,
         SetSelect(w) \/ PutFile(w) \/ SetUpdate(w) \/ SetIndex(w)
  PROVE  TypeInv'
<1>1. /\ uid[w] \in Users /\ field[w] \in Fields /\ copy[w] \in Row
      /\ pc[w] # "idle" /\ Exists(uid[w])
  BY DEF TypeInv, TypeOK, HandlersHold, HandlerHolds, PastInsert,
         SetSelect, PutFile, SetUpdate, SetIndex
<1>2. {"put_file", "set_update", "set_index"} \subseteq Steps \ {"idle"}
  BY DEF Steps
<1>3. CASE SetSelect(w)
  <2>1. user[uid[w]] \in Row
    BY <1>1 DEF TypeInv, TypeOK, Exists
  <2>2. [user[uid[w]] EXCEPT ![field[w]] = copy[w][field[w]]] \in Row
    BY <1>1, <2>1, MergedRow
  <2>3. StoresTyped' /\ RowsStay /\ AnswersTyped' /\ faults' \in Nat
    BY <1>3 DEF TypeInv, TypeOK, StoresTyped, RowsStay, AnswersTyped, SetSelect,
                stores, answers, Exists
  <2>4. /\ copy' \in [Workers -> Row \cup {NoRow}] /\ copy'[w] \in Row
        /\ \A x \in Workers : x # w => copy'[x] = copy[x]
    BY <1>3, <2>2 DEF SetSelect, TypeInv, TypeOK
  <2>5. PICK step \in {"put_file", "set_update"} : Continue(w, step)
    BY <1>3 DEF SetSelect
  <2>6. Exists(uid[w])'
    BY <1>1, <1>3 DEF SetSelect, Exists, stores, Continue
  <2>7. step \in Steps \ {"idle"}
    BY <1>2
  <2> QED
    BY <1>1, <2>3, <2>4, <2>5, <2>6, <2>7, ContinueTyped
<1>4. CASE PutFile(w)
  <2>1. PICK f \in Files \ files : /\ files' = files \cup {f}
                                   /\ copy' = [copy EXCEPT ![w].avatar_id = f]
    BY <1>4 DEF PutFile
  <2>2. [copy[w] EXCEPT !.avatar_id = f] \in Row
    BY <1>1 DEF Row
  <2>3. StoresTyped' /\ RowsStay /\ AnswersTyped' /\ faults' \in Nat
    BY <1>4, <2>1 DEF TypeInv, TypeOK, StoresTyped, RowsStay, AnswersTyped, PutFile,
                      answers, Exists
  <2>4. /\ copy' \in [Workers -> Row \cup {NoRow}] /\ copy'[w] \in Row
        /\ \A x \in Workers : x # w => copy'[x] = copy[x]
    BY <2>1, <2>2 DEF TypeInv, TypeOK
  <2>5. Exists(uid[w])'
    BY <1>1, <1>4 DEF PutFile, Exists, Continue
  <2> QED
    BY <1>1, <1>2, <1>4, <2>3, <2>4, <2>5, ContinueTyped DEF PutFile
<1>5. CASE SetUpdate(w)
  <2>1. StoresTyped' /\ RowsStay /\ AnswersTyped' /\ faults' \in Nat
    BY <1>1, <1>5, RowAssumption
      DEF TypeInv, TypeOK, StoresTyped, RowsStay, AnswersTyped, SetUpdate, answers, Exists
  <2>2. CASE Conflicts(uid[w], copy[w])
    BY <1>5, <2>1, <2>2, ReturnTyped DEF SetUpdate
  <2>3. CASE ~Conflicts(uid[w], copy[w])
    <3>1. Exists(uid[w])'
      BY <1>1, <1>5, <2>3, RowAssumption DEF SetUpdate, Exists, TypeInv, TypeOK, Continue
    <3>2. Continue(w, "set_index") /\ UNCHANGED copy
      BY <1>5, <2>3 DEF SetUpdate
    <3> QED
      BY <1>1, <1>2, <2>1, <3>1, <3>2, ContinueTyped DEF TypeInv, TypeOK
  <2> QED
    BY <2>2, <2>3
<1>6. CASE SetIndex(w)
  <2>1. copy[w][field[w]] \in Values
    BY <1>1, FieldIsValue
  <2>2. StoresTyped' /\ RowsStay /\ AnswersTyped' /\ faults' \in Nat
    BY <1>1, <1>6, <2>1 DEF TypeInv, TypeOK, StoresTyped, RowsStay, AnswersTyped, SetIndex,
                            Exists
  <2> QED
    BY <1>6, <2>2, ReturnTyped DEF SetIndex
<1> QED
  BY <1>3, <1>4, <1>5, <1>6

LEMMA FailureTyped ==
  ASSUME TypeInv, NEW w \in Workers, StoreFails(w) \/ StoreUnanswered(w)
  PROVE  TypeInv'
<1>1. pc[w] # "idle" => uid[w] \in Users /\ copy[w] \in Row
  BY DEF TypeInv, TypeOK, HandlersHold, HandlerHolds
<1>2. Return(w)
  BY DEF StoreFails, StoreUnanswered
<1>3. StoresTyped' /\ RowsStay /\ AnswersTyped' /\ faults' \in Nat
  <2>1. set' \in [Users -> [Fields -> Values]]
    BY UnansweredTyped DEF StoreFails, StoreUnanswered, TypeInv
  <2> QED
    BY <1>1, <2>1 DEF TypeInv, TypeOK, StoresTyped, RowsStay, AnswersTyped, StoreFails,
                      StoreUnanswered, stores, Fault, Exists
<1> QED
  BY <1>2, <1>3, ReturnTyped

LEMMA KillTyped == TypeInv /\ UserServiceKilled => TypeInv'
<1> SUFFICES ASSUME TypeInv, UserServiceKilled PROVE TypeInv'
  OBVIOUS
<1>1. set' \in [Users -> [Fields -> Values]]
  BY UnansweredTyped DEF UserServiceKilled, TypeInv
<1>2. unindexed' \in SUBSET Users
  BY DEF UserServiceKilled, TypeInv, TypeOK
<1> QED
  BY <1>1, <1>2 DEF TypeInv, TypeOK, HandlersHold, HandlerHolds, UserServiceKilled, stores, Steps

LEMMA StepTyped == TypeInv /\ [Next]_vars => TypeInv'
<1>1. ASSUME TypeInv, Next PROVE TypeInv'
  BY <1>1, RegisterTyped, SetUserTyped, RegistrationTyped, SettingTyped, FailureTyped, KillTyped
    DEF Next
<1>2. TypeInv /\ UNCHANGED vars => TypeInv'
  BY DEF TypeInv, TypeOK, HandlersHold, HandlerHolds, Exists, vars, stores, handlers, answers
<1> QED
  BY <1>1, <1>2

LEMMA TypeInvHolds == Spec => []TypeInv
BY InitTypeInv, StepTyped, PTL DEF Spec

(* Rows, documents, files and the objects of handlers have their types:    *)
(* no setter writes a value into another column.                           *)
THEOREM TypeCorrect == Spec => []TypeOK
BY TypeInvHolds, PTL DEF TypeInv

-----------------------------------------------------------------------------
(* Unique names and phones: only the insert and the update change the      *)
(* table, and what they write conflicts with no other row.                 *)

LEMMA WriteUnique ==
  ASSUME TypeOK, NamesAndPhonesUnique, NEW t \in Users, NEW row \in Row,
         ~Conflicts(t, row), user' = [user EXCEPT ![t] = row]
  PROVE  NamesAndPhonesUnique'
<1>1. \A u \in Users \ {t} :
        Exists(u) => /\ user[u].nickname # row.nickname
                     /\ row.phone = NoValue \/ user[u].phone # row.phone
  BY DEF Conflicts, SelectBy
<1>2. user'[t] = row /\ \A u \in Users \ {t} : user'[u] = user[u]
  BY DEF TypeOK
<1>3. SUFFICES ASSUME NEW u \in Users, NEW v \in Users, Exists(u)', Exists(v)', u # v
               PROVE  /\ user'[u].nickname # user'[v].nickname
                      /\ user'[u].phone = NoValue \/ user'[u].phone # user'[v].phone
  BY DEF NamesAndPhonesUnique
<1>4. CASE u = t
  BY <1>1, <1>2, <1>3, <1>4 DEF Exists
<1>5. CASE v = t
  BY <1>1, <1>2, <1>3, <1>5 DEF Exists
<1>6. CASE u # t /\ v # t
  BY <1>2, <1>3, <1>6 DEF Exists, NamesAndPhonesUnique
<1> QED
  BY <1>4, <1>5, <1>6

LEMMA StepUnique == TypeInv /\ NamesAndPhonesUnique /\ [Next]_vars => NamesAndPhonesUnique'
<1> SUFFICES ASSUME TypeInv, NamesAndPhonesUnique, [Next]_vars
             PROVE  NamesAndPhonesUnique'
  OBVIOUS
<1>1. CASE UNCHANGED user
  BY <1>1 DEF NamesAndPhonesUnique, Exists
<1>2. ASSUME NEW w \in Workers, RegisterInsert(w) \/ SetUpdate(w)
      PROVE  NamesAndPhonesUnique'
  <2>1. uid[w] \in Users /\ copy[w] \in Row
    BY <1>2 DEF TypeInv, TypeOK, HandlersHold, HandlerHolds, RegisterInsert, SetUpdate
  <2>2. CASE Conflicts(uid[w], copy[w])
    BY <1>1, <1>2, <2>2 DEF RegisterInsert, SetUpdate
  <2>3. CASE ~Conflicts(uid[w], copy[w])
    BY <1>2, <2>1, <2>3, WriteUnique DEF RegisterInsert, SetUpdate, TypeInv
  <2> QED
    BY <2>2, <2>3
<1>3. UNCHANGED user \/ \E w \in Workers : RegisterInsert(w) \/ SetUpdate(w)
  BY DEF Next, vars, stores, UserRegister, PhoneRegister, SetUser, Begin, RegisterCheck,
         RegisterIndex, SetSelect, PutFile, SetIndex, StoreFails, StoreUnanswered,
         UserServiceKilled
<1> QED
  BY <1>1, <1>2, <1>3

(* Two users never have one nickname or one phone, whatever handlers       *)
(* overlap, whichever select throws and whenever the service is killed.    *)
THEOREM UniqueInTable == Spec => []NamesAndPhonesUnique
<1>1. Init => NamesAndPhonesUnique
  BY DEF Init, NamesAndPhonesUnique, Exists
<1> QED
  BY <1>1, StepUnique, TypeInvHolds, PTL DEF Spec

-----------------------------------------------------------------------------
(* Nothing dangles: beside the stores, the invariant follows an avatar's   *)
(* id on its way through the object of a handler.                          *)

Avatars == files \cup {NoValue}

CopyHasFile(w) ==
  /\ pc[w] \in {"register_check", "register_insert", "register_index"}
       => copy[w].avatar_id = NoValue
  /\ pc[w] \in {"set_update", "set_index"} => copy[w].avatar_id \in Avatars

DangleInv == NothingDangles /\ \A w \in Workers : CopyHasFile(w)

(* A step that changes the object of one handler only. *)
OthersKeep(w) == \A x \in Workers \ {w} : pc'[x] = pc[x] /\ copy'[x] = copy[x]

LEMMA OthersHaveFiles ==
  ASSUME DangleInv, NEW w \in Workers, OthersKeep(w), files \subseteq files',
         CopyHasFile(w)', NothingDangles'
  PROVE  DangleInv'
<1>1. ASSUME NEW x \in Workers \ {w} PROVE CopyHasFile(x)'
  BY DEF DangleInv, CopyHasFile, Avatars, OthersKeep
<1> QED
  BY <1>1 DEF DangleInv

LEMMA BeginDangles ==
  ASSUME TypeInv, DangleInv, NEW w \in Workers,
         UserRegister(w) \/ PhoneRegister(w) \/ SetUser(w)
  PROVE  DangleInv'
<1>1. UNCHANGED stores
  BY DEF UserRegister, PhoneRegister, SetUser, Begin
<1>2. OthersKeep(w)
  BY DEF UserRegister, PhoneRegister, SetUser, Begin, OthersKeep, TypeInv, TypeOK
<1>3. CopyHasFile(w)'
  <2>1. CASE UserRegister(w) \/ PhoneRegister(w)
    BY <2>1 DEF UserRegister, PhoneRegister, Begin, CopyHasFile, TypeInv, TypeOK, NewRow
  <2>2. CASE SetUser(w)
    <3>1. pc'[w] = "set_select"
      BY <2>2 DEF SetUser, Begin, TypeInv, TypeOK
    <3> QED
      BY <3>1 DEF CopyHasFile
  <2> QED
    BY <2>1, <2>2
<1>4. NothingDangles'
  BY <1>1 DEF DangleInv, NothingDangles, stores, Exists
<1> QED
  BY <1>1, <1>2, <1>3, <1>4, OthersHaveFiles DEF stores

LEMMA RegistrationDangles ==
  ASSUME TypeInv, DangleInv, NEW w \in Workers,
         RegisterCheck(w) \/ RegisterInsert(w) \/ RegisterIndex(w)
  PROVE  DangleInv'
<1>1. uid[w] \in Users /\ copy[w] \in Row /\ copy[w].avatar_id = NoValue
  BY DEF TypeInv, TypeOK, HandlersHold, HandlerHolds, DangleInv, CopyHasFile,
         RegisterCheck, RegisterInsert, RegisterIndex
<1>2. OthersKeep(w) /\ UNCHANGED files
  BY DEF RegisterCheck, RegisterInsert, RegisterIndex, OthersKeep, Return, Continue,
         TypeInv, TypeOK, stores
<1>3. CopyHasFile(w)'
  BY <1>1 DEF RegisterCheck, RegisterInsert, RegisterIndex, CopyHasFile, Return, Continue,
              TypeInv, TypeOK
<1>4. NothingDangles'
  <2>1. CASE RegisterCheck(w)
    BY <2>1 DEF RegisterCheck, DangleInv, NothingDangles, stores, Exists
  <2>2. CASE RegisterInsert(w)
    <3>1. \/ UNCHANGED user
          \/ user' = [user EXCEPT ![uid[w]] = copy[w]]
      BY <2>2 DEF RegisterInsert
    <3>2. UNCHANGED <<es, files>>
      BY <2>2 DEF RegisterInsert
    <3> QED
      BY <1>1, <3>1, <3>2, RowAssumption DEF DangleInv, NothingDangles, Exists, TypeInv, TypeOK
  <2>3. CASE RegisterIndex(w)
    <3>1. Exists(uid[w])
      BY <2>3 DEF RegisterIndex, TypeInv, HandlersHold, HandlerHolds, PastInsert
    <3>2. \/ UNCHANGED es
          \/ es' = [es EXCEPT ![uid[w]] = copy[w]]
      BY <2>3 DEF RegisterIndex
    <3>3. UNCHANGED <<user, files>>
      BY <2>3 DEF RegisterIndex
    <3> QED
      BY <1>1, <3>1, <3>2, <3>3 DEF DangleInv, NothingDangles, Exists, TypeInv, TypeOK
  <2> QED
    BY <2>1, <2>2, <2>3
<1> QED
  BY <1>2, <1>3, <1>4, OthersHaveFiles

LEMMA SettingDangles ==
  ASSUME TypeInv, DangleInv, NEW w \in Workers,
         SetSelect(w) \/ PutFile(w) \/ SetUpdate(w) \/ SetIndex(w)
  PROVE  DangleInv'
<1>1. /\ uid[w] \in Users /\ field[w] \in Fields /\ copy[w] \in Row
      /\ Exists(uid[w])
  BY DEF TypeInv, TypeOK, HandlersHold, HandlerHolds, PastInsert,
         SetSelect, PutFile, SetUpdate, SetIndex
<1>2. OthersKeep(w) /\ files \subseteq files'
  BY DEF SetSelect, PutFile, SetUpdate, SetIndex, OthersKeep, Return, Continue,
         TypeInv, TypeOK, stores
<1>3. CASE SetSelect(w)
  <2>1. user[uid[w]] \in Row /\ user[uid[w]].avatar_id \in Avatars
    BY <1>1 DEF TypeInv, TypeOK, Exists, DangleInv, NothingDangles, Avatars
  <2>2. CASE field[w] = "avatar_id"
    <3>1. pc'[w] = "put_file"
      BY <1>3, <2>2 DEF SetSelect, Continue, TypeInv, TypeOK
    <3> QED
      BY <1>2, <1>3, <3>1, OthersHaveFiles
        DEF CopyHasFile, SetSelect, stores, DangleInv, NothingDangles, Exists
  <2>3. CASE field[w] # "avatar_id"
    <3>1. copy'[w] = [user[uid[w]] EXCEPT ![field[w]] = copy[w][field[w]]]
      BY <1>3 DEF SetSelect, TypeInv, TypeOK
    <3>2. copy'[w].avatar_id \in Avatars
      BY <1>1, <2>1, <2>3, <3>1, MergedRow
    <3>3. pc'[w] = "set_update" /\ UNCHANGED stores
      BY <1>3, <2>3 DEF SetSelect, Continue, TypeInv, TypeOK
    <3>4. CopyHasFile(w)'
      BY <3>2, <3>3 DEF CopyHasFile, Avatars, stores
    <3>5. NothingDangles'
      BY <3>3 DEF DangleInv, NothingDangles, stores, Exists
    <3> QED
      BY <1>2, <3>4, <3>5, OthersHaveFiles
  <2> QED
    BY <2>2, <2>3
<1>4. CASE PutFile(w)
  <2>1. PICK f \in Files \ files : /\ files' = files \cup {f}
                                   /\ copy' = [copy EXCEPT ![w].avatar_id = f]
    BY <1>4 DEF PutFile
  <2>2. copy'[w].avatar_id = f
    BY <1>1, <2>1 DEF TypeInv, TypeOK, Row
  <2>3. CopyHasFile(w)'
    BY <1>4, <2>1, <2>2 DEF CopyHasFile, Avatars, PutFile, Continue, TypeInv, TypeOK
  <2>4. NothingDangles'
    BY <1>4, <2>1 DEF PutFile, DangleInv, NothingDangles, Exists
  <2> QED
    BY <1>2, <2>3, <2>4, OthersHaveFiles
<1>5. CASE SetUpdate(w)
  <2>1. copy[w].avatar_id \in Avatars
    BY <1>5 DEF SetUpdate, DangleInv, CopyHasFile
  <2>2. UNCHANGED <<es, files>>
    BY <1>5 DEF SetUpdate
  <2>3. \/ UNCHANGED user
        \/ user' = [user EXCEPT ![uid[w]] = copy[w]]
    BY <1>5 DEF SetUpdate
  <2>4. NothingDangles'
    BY <1>1, <2>1, <2>2, <2>3, RowAssumption
      DEF DangleInv, NothingDangles, Exists, Avatars, TypeInv, TypeOK
  <2>5. CopyHasFile(w)'
    BY <1>5, <2>1, <2>2 DEF CopyHasFile, Avatars, SetUpdate, Return, Continue, TypeInv, TypeOK
  <2> QED
    BY <1>2, <2>4, <2>5, OthersHaveFiles
<1>6. CASE SetIndex(w)
  <2>1. copy[w].avatar_id \in Avatars
    BY <1>6 DEF SetIndex, DangleInv, CopyHasFile
  <2>2. NothingDangles'
    BY <1>1, <1>6, <2>1
      DEF SetIndex, DangleInv, NothingDangles, Exists, Avatars, TypeInv, TypeOK
  <2>3. CopyHasFile(w)'
    BY <1>6 DEF CopyHasFile, SetIndex, Return, TypeInv, TypeOK
  <2> QED
    BY <1>2, <2>2, <2>3, OthersHaveFiles
<1> QED
  BY <1>3, <1>4, <1>5, <1>6

(* A lost answer leaves what the store has done. *)
LEMMA FailureDangles ==
  ASSUME TypeInv, DangleInv, NEW w \in Workers, StoreFails(w) \/ StoreUnanswered(w)
  PROVE  DangleInv'
<1>1. OthersKeep(w) /\ files \subseteq files' /\ UNCHANGED user
  BY DEF StoreFails, StoreUnanswered, OthersKeep, Return, TypeInv, TypeOK, stores
<1>2. CopyHasFile(w)'
  BY DEF StoreFails, StoreUnanswered, Return, CopyHasFile, TypeInv, TypeOK
<1>3. CASE UNCHANGED es
  BY <1>1, <1>2, <1>3, OthersHaveFiles DEF DangleInv, NothingDangles, Exists
<1>4. CASE pc[w] = "set_index" /\ es' = [es EXCEPT ![uid[w]] = copy[w]]
  <2>1. uid[w] \in Users /\ Exists(uid[w]) /\ copy[w].avatar_id \in Avatars
    BY <1>4 DEF TypeInv, TypeOK, HandlersHold, HandlerHolds, PastInsert, DangleInv, CopyHasFile
  <2>2. NothingDangles'
    BY <1>1, <1>4, <2>1 DEF DangleInv, NothingDangles, Exists, Avatars, TypeInv, TypeOK
  <2> QED
    BY <1>1, <1>2, <2>2, OthersHaveFiles
<1> QED
  BY <1>3, <1>4 DEF StoreFails, StoreUnanswered, stores

LEMMA StepDangles == TypeInv /\ DangleInv /\ [Next]_vars => DangleInv'
<1>1. ASSUME TypeInv, DangleInv, Next PROVE DangleInv'
  <2>1. ASSUME UserServiceKilled PROVE DangleInv'
    BY <1>1, <2>1 DEF UserServiceKilled, DangleInv, CopyHasFile, NothingDangles, stores, Exists
  <2> QED
    BY <1>1, <2>1, BeginDangles, RegistrationDangles, SettingDangles, FailureDangles DEF Next
<1>2. DangleInv /\ UNCHANGED vars => DangleInv'
  BY DEF DangleInv, CopyHasFile, NothingDangles, Avatars, Exists, vars, stores, handlers
<1> QED
  BY <1>1, <1>2

(* Whoever a search finds has a row, and every avatar of a row or document *)
(* has its file, at whatever call a handler fails or is killed.            *)
THEOREM NamesWhatIsThere == Spec => []NothingDangles
<1>1. Init => DangleInv
  BY DEF Init, DangleInv, NothingDangles, CopyHasFile, Exists
<1>2. DangleInv => NothingDangles
  BY DEF DangleInv
<1> QED
  BY <1>1, <1>2, StepDangles, TypeInvHolds, PTL DEF Spec

-----------------------------------------------------------------------------
(* One handler per user: search and settings.  The invariant says how far  *)
(* the handler of a user has got with row, document and object; whoever is *)
(* not served is settled.  Users whom two handlers served are left out.    *)

Sticks(u) == \A f \in Fields : set[u][f] # NoValue => user[u][f] = set[u][f]
Settled(u) == (u \in unindexed \/ es[u] = user[u]) /\ Sticks(u)

BeforeWrite == {"register_check", "register_insert", "set_select", "put_file", "set_update"}

Progress(w) ==
  /\ pc[w] \in BeforeWrite => Settled(uid[w])
  /\ pc[w] \in {"register_check", "register_insert"} => user[uid[w]] = NoRow
  /\ pc[w] = "register_index" => user[uid[w]] = copy[w] /\ Sticks(uid[w])
  /\ pc[w] = "put_file" => field[w] = "avatar_id"
  /\ pc[w] \in {"put_file", "set_update"}
       => \A f \in Fields \ {field[w]} : copy[w][f] = user[uid[w]][f]
  /\ pc[w] = "set_index"
       => /\ user[uid[w]] = copy[w]
          /\ \A f \in Fields \ {field[w]} :
               set[uid[w]][f] # NoValue => user[uid[w]][f] = set[uid[w]][f]

(* A handler whose user it has to itself. *)
Alone(w) == pc[w] # "idle" /\ uid[w] \notin overlapped

OneHandler == \A w, x \in Workers : (Alone(w) /\ uid[w] = uid[x]) => w = x

CalmFits ==
  /\ OneHandler
  /\ \A u \in Users \ overlapped : ~Served(u) => Settled(u)
  /\ \A w \in Workers : Alone(w) => Progress(w)

(* Only who has a row has settings. *)
SetHaveRows == \A u \in Users : ~Exists(u) => \A f \in Fields : set[u][f] = NoValue

CalmInv == SetHaveRows /\ CalmFits

LEMMA StepSetHaveRows == TypeInv /\ SetHaveRows /\ [Next]_vars => SetHaveRows'
<1> SUFFICES ASSUME TypeInv, SetHaveRows, [Next]_vars
             PROVE  SetHaveRows'
  OBVIOUS
<1>1. ASSUME NEW w \in Workers, SetIndex(w) PROVE SetHaveRows'
  <2>1. /\ Exists(uid[w]) /\ uid[w] \in Users /\ UNCHANGED user
        /\ set' = [set EXCEPT ![uid[w]][field[w]] = copy[w][field[w]]]
    BY <1>1 DEF SetIndex, TypeInv, TypeOK, HandlersHold, HandlerHolds, PastInsert
  <2>2. \A u \in Users \ {uid[w]} : set'[u] = set[u]
    BY <2>1 DEF TypeInv, TypeOK
  <2> QED
    BY <2>1, <2>2 DEF SetHaveRows, Exists
<1>2. ASSUME \A u \in Users : \A f \in Fields : set'[u][f] \in {set[u][f], NoValue}
      PROVE  SetHaveRows'
  <2>1. \A u \in Users : user'[u] = user[u] \/ user'[u] \in Row
    <3>1. \/ UNCHANGED user
          \/ \E w \in Workers : /\ pc[w] # "idle" /\ copy[w] \in Row
                                /\ user' = [user EXCEPT ![uid[w]] = copy[w]]
      BY DEF Next, vars, stores, UserRegister, PhoneRegister, SetUser, Begin, RegisterCheck,
             RegisterInsert, RegisterIndex, SetSelect, PutFile, SetUpdate, SetIndex, StoreFails,
             StoreUnanswered, UserServiceKilled, TypeInv, HandlersHold, HandlerHolds
    <3> QED
      BY <3>1 DEF TypeInv, TypeOK
  <2> QED
    BY <1>2, <2>1, RowAssumption DEF SetHaveRows, Exists
<1>3. ASSUME NEW W, Unanswered(W)
      PROVE  \A u \in Users : \A f \in Fields : set'[u][f] \in {set[u][f], NoValue}
  BY <1>3 DEF Unanswered
<1>4. \/ UNCHANGED set
      \/ \E w \in Workers : SetIndex(w) \/ Unanswered({w})
      \/ Unanswered(Workers)
  BY DEF Next, vars, answers, UserRegister, PhoneRegister, SetUser, Begin, RegisterCheck,
         RegisterInsert, RegisterIndex, SetSelect, PutFile, SetUpdate, StoreFails,
         StoreUnanswered, UserServiceKilled
<1> QED
  BY <1>1, <1>2, <1>3, <1>4

(* A step of the handler w of a user: nothing of another user changes. *)
OwnStep(w) ==
  /\ UNCHANGED overlapped
  /\ \A x \in Workers \ {w} : /\ pc'[x] = pc[x] /\ uid'[x] = uid[x]
                              /\ field'[x] = field[x] /\ copy'[x] = copy[x]
  /\ \A u \in Users \ {uid[w]} :
       /\ user'[u] = user[u] /\ es'[u] = es[u]
       /\ u \in unindexed' <=> u \in unindexed
       /\ \A f \in Fields : set'[u][f] = set[u][f]

LEMMA OthersCalm ==
  ASSUME TypeInv, CalmFits, NEW w \in Workers, pc[w] # "idle", OwnStep(w)
  PROVE  /\ \A u \in Users \ {uid[w]} : Settled(u) => Settled(u)'
         /\ \A x \in Workers \ {w} : Alone(x)' => Progress(x)'
<1>1. uid[w] # NoUser /\ \A x \in Workers : pc[x] # "idle" => uid[x] \in Users
  BY DEF TypeInv, TypeOK
<1>2. \A u \in Users \ {uid[w]} : /\ Settled(u) => Settled(u)'
                                  /\ Sticks(u) => Sticks(u)'
  BY DEF OwnStep, Settled, Sticks
<1>3. ASSUME NEW x \in Workers \ {w}, Alone(x)' PROVE Progress(x)'
  <2>1. /\ uid'[x] = uid[x] /\ pc'[x] = pc[x] /\ field'[x] = field[x] /\ copy'[x] = copy[x]
        /\ Alone(x)
    BY <1>3 DEF OwnStep, Alone
  <2>2. uid[x] \in Users \ {uid[w]} /\ Progress(x)
    BY <1>1, <2>1 DEF CalmFits, OneHandler, Alone
  <2>3. /\ user'[uid[x]] = user[uid[x]]
        /\ \A f \in Fields : set'[uid[x]][f] = set[uid[x]][f]
    BY <2>2 DEF OwnStep
  <2> QED
    BY <1>2, <2>1, <2>2, <2>3 DEF Progress
<1> QED
  BY <1>2, <1>3

LEMMA ReturnCalm ==
  ASSUME TypeInv, CalmFits, NEW w \in Workers, NEW t \in Users, pc[w] # "idle", uid[w] = t,
         OwnStep(w), Return(w), t \in overlapped \/ Settled(t)'
  PROVE  CalmFits'
<1>1. pc'[w] = "idle" /\ uid'[w] = NoUser /\ overlapped' = overlapped
  BY DEF Return, TypeInv, TypeOK
<1>2. OneHandler'
  <2>1. SUFFICES ASSUME NEW x \in Workers, NEW y \in Workers, Alone(x)', uid'[x] = uid'[y]
                 PROVE  x = y
    BY DEF OneHandler
  <2>2. x # w /\ uid'[x] # NoUser
    BY <1>1, <2>1 DEF Alone, OwnStep, TypeInv, TypeOK
  <2>3. y # w
    BY <1>1, <2>1, <2>2
  <2> QED
    BY <1>1, <2>1, <2>2, <2>3 DEF OwnStep, CalmFits, OneHandler, Alone
<1>3. ASSUME NEW u \in Users \ overlapped', ~Served(u)' PROVE Settled(u)'
  <2>1. CASE u = t
    BY <1>1, <2>1
  <2>2. CASE u # t
    <3>1. ~Served(u)
      BY <1>3, <2>2 DEF Served, OwnStep
    <3> QED
      BY <1>1, <2>2, <3>1, OthersCalm DEF CalmFits
  <2> QED
    BY <2>1, <2>2
<1> QED
  BY <1>1, <1>2, <1>3, OthersCalm DEF CalmFits, Alone

LEMMA ContinueCalm ==
  ASSUME TypeInv, CalmFits, NEW w \in Workers, pc[w] # "idle", OwnStep(w),
         UNCHANGED uid, pc'[w] # "idle", uid[w] \in overlapped \/ Progress(w)'
  PROVE  CalmFits'
<1>1. \A x \in Workers : Alone(x)' <=> Alone(x)
  BY DEF Alone, OwnStep
<1>2. OneHandler'
  BY <1>1 DEF CalmFits, OneHandler
<1>3. ASSUME NEW u \in Users \ overlapped', ~Served(u)' PROVE Settled(u)'
  <2>1. ~Served(u) /\ u # uid[w] /\ u \notin overlapped
    BY <1>3 DEF Served, OwnStep
  <2> QED
    BY <2>1, OthersCalm DEF CalmFits
<1>4. Alone(w)' => Progress(w)'
  BY DEF Alone, OwnStep
<1> QED
  BY <1>2, <1>3, <1>4, OthersCalm DEF CalmFits

(* Whatever the handler of a user does whom another served at once. *)
LEMMA OverlappedCalm ==
  ASSUME TypeInv, CalmFits, NEW w \in Workers, pc[w] # "idle", OwnStep(w),
         uid[w] \in overlapped, Return(w) \/ \E step \in Steps \ {"idle"} : Continue(w, step)
  PROVE  CalmFits'
<1>1. PICK t \in Users : uid[w] = t
  BY DEF TypeInv, TypeOK
<1>2. CASE Return(w)
  BY <1>1, <1>2, ReturnCalm
<1>3. CASE \E step \in Steps \ {"idle"} : Continue(w, step)
  <2>1. UNCHANGED uid /\ pc'[w] # "idle"
    BY <1>3 DEF Continue, TypeInv, TypeOK
  <2> QED
    BY <2>1, ContinueCalm
<1> QED
  BY <1>2, <1>3

(* A request begins; nobody else serves its user, or this user is marked. *)
LEMMA BeginCalm ==
  ASSUME TypeInv, CalmFits, NEW w \in Workers, NEW u \in Users,
         NEW step \in {"register_check", "set_select"}, NEW f, NEW row,
         Begin(w, step, u, f, row), u \in overlapped' \/ \A x \in Workers : uid[x] # u,
         overlapped \subseteq overlapped', step = "register_check" => ~Exists(u)
  PROVE  CalmFits'
<1>1. /\ pc[w] = "idle" /\ pc' = [pc EXCEPT ![w] = step] /\ uid' = [uid EXCEPT ![w] = u]
      /\ field' = [field EXCEPT ![w] = f] /\ copy' = [copy EXCEPT ![w] = row]
      /\ UNCHANGED <<user, es, set, unindexed>>
  BY DEF Begin, stores, answers
<1>2. /\ pc'[w] = step /\ uid'[w] = u
      /\ \A x \in Workers \ {w} : pc'[x] = pc[x] /\ uid'[x] = uid[x]
  BY <1>1 DEF TypeInv, TypeOK
<1>3. OneHandler'
  BY <1>2 DEF CalmFits, OneHandler, Alone
<1>4. \A v \in Users : /\ Settled(v) => Settled(v)'
                       /\ Sticks(v) => Sticks(v)'
  BY <1>1 DEF Settled, Sticks
<1>5. \A v \in Users : ~Served(v)' => ~Served(v)
  <2>1. ASSUME NEW v \in Users, NEW x \in Workers, uid[x] = v PROVE uid'[x] = v
    <3>1. uid[w] = NoUser /\ NoUser \notin Users
      BY <1>1, ProfileAssumption DEF TypeInv, TypeOK
    <3> QED
      BY <1>1, <2>1, <3>1 DEF TypeInv, TypeOK
  <2> QED
    BY <2>1 DEF Served
<1>6. ASSUME NEW x \in Workers, Alone(x)' PROVE Progress(x)'
  <2>1. CASE x = w
    <3>1. u \notin overlapped /\ ~Served(u)
      BY <1>2, <1>6, <2>1 DEF Alone, Served
    <3>2. Settled(u)
      BY <3>1 DEF CalmFits
    <3>3. Settled(uid[w])'
      BY <1>1, <1>2, <3>2 DEF Settled, Sticks
    <3> QED
      BY <1>1, <2>1, <1>2, <3>3 DEF Progress, Exists
  <2>2. CASE x # w
    <3>1. /\ pc'[x] = pc[x] /\ uid'[x] = uid[x] /\ field'[x] = field[x] /\ copy'[x] = copy[x]
          /\ Alone(x)
      BY <1>1, <1>6, <2>2 DEF TypeInv, TypeOK, Alone
    <3>2. Progress(x) /\ uid[x] \in Users
      BY <3>1 DEF CalmFits, Alone, TypeInv, TypeOK
    <3> QED
      BY <1>1, <3>1, <3>2 DEF Progress, Settled, Sticks
  <2> QED
    BY <2>1, <2>2
<1>7. \A v \in Users \ overlapped' : ~Served(v)' => Settled(v)'
  BY <1>4, <1>5 DEF CalmFits
<1> QED
  BY <1>3, <1>6, <1>7 DEF CalmFits

LEMMA RequestCalm ==
  ASSUME TypeInv, CalmFits, NEW w \in Workers,
         UserRegister(w) \/ PhoneRegister(w) \/ SetUser(w)
  PROVE  CalmFits'
<1>1. CASE UserRegister(w)
  <2>1. PICK u \in Users, n \in Nicknames :
          /\ Fresh(u) /\ UNCHANGED overlapped
          /\ Begin(w, "register_check", u, "nickname", NewRow(n, NoValue))
    BY <1>1 DEF UserRegister
  <2> QED
    BY <2>1, BeginCalm DEF Fresh
<1>2. CASE PhoneRegister(w)
  <2>1. PICK u \in Users, p \in Phones :
          /\ Fresh(u) /\ UNCHANGED overlapped
          /\ Begin(w, "register_check", u, "phone", NewRow(u, p))
    BY <1>2 DEF PhoneRegister
  <2> QED
    BY <2>1, BeginCalm DEF Fresh
<1>3. CASE SetUser(w)
  <2>1. PICK u \in Users, s \in Settings :
          /\ Begin(w, "set_select", u, s[1], [user[u] EXCEPT ![s[1]] = s[2]])
          /\ overlapped' = IF \E x \in Workers : uid[x] = u
                            THEN overlapped \cup {u} ELSE overlapped
    BY <1>3 DEF SetUser
  <2>2. overlapped \subseteq overlapped' /\ (u \in overlapped' \/ \A x \in Workers : uid[x] # u)
    BY <2>1
  <2> QED
    BY <2>1, <2>2, BeginCalm
<1> QED
  BY <1>1, <1>2, <1>3

LEMMA RegistrationCalm ==
  ASSUME TypeInv, SetHaveRows, CalmFits, NEW w \in Workers,
         RegisterCheck(w) \/ RegisterInsert(w) \/ RegisterIndex(w)
  PROVE  CalmFits'
<1> DEFINE t == uid[w]
<1>1. pc[w] # "idle" /\ t \in Users
  BY DEF RegisterCheck, RegisterInsert, RegisterIndex, TypeInv, TypeOK
<1>2. OwnStep(w)
  BY <1>1 DEF OwnStep, RegisterCheck, RegisterInsert, RegisterIndex, Return, Continue,
              TypeInv, TypeOK, stores, answers
<1>0. CASE t \in overlapped
  <2>1. Return(w) \/ \E step \in Steps \ {"idle"} : Continue(w, step)
    BY DEF RegisterCheck, RegisterInsert, RegisterIndex, Steps
  <2> QED
    BY <1>0, <1>1, <1>2, <2>1, OverlappedCalm
<1> SUFFICES ASSUME t \notin overlapped PROVE CalmFits'
  BY <1>0
<1>9. Progress(w)
  BY <1>1 DEF CalmFits, Alone
<1>3. CASE RegisterCheck(w)
  <2>1. Settled(t) /\ UNCHANGED <<user, es, set, unindexed>>
    BY <1>1, <1>9, <1>3 DEF RegisterCheck, Progress, BeforeWrite, stores, answers
  <2>2. ASSUME Return(w) PROVE CalmFits'
    <3>1. PICK v \in Users : v = uid[w]
      BY <1>1
    <3>2. Settled(v)'
      BY <2>1, <3>1 DEF Settled, Sticks
    <3> QED
      BY <1>1, <1>2, <2>2, <3>1, <3>2, ReturnCalm
  <2>3. ASSUME Continue(w, "register_insert") PROVE CalmFits'
    <3>1. pc'[w] = "register_insert" /\ UNCHANGED uid
      BY <2>3 DEF Continue, TypeInv, TypeOK
    <3>2. user[t] = NoRow
      BY <1>9, <1>3 DEF RegisterCheck, Progress
    <3>3. Progress(w)'
      BY <2>1, <3>1, <3>2 DEF Progress, Settled, Sticks
    <3> QED
      BY <1>1, <1>2, <3>1, <3>3, ContinueCalm
  <2> QED
    BY <1>3, <2>2, <2>3 DEF RegisterCheck
<1>4. CASE RegisterInsert(w)
  <2>1. Settled(t) /\ user[t] = NoRow /\ UNCHANGED <<es, set, unindexed>>
    BY <1>9, <1>4 DEF RegisterInsert, Progress, BeforeWrite, answers
  <2>2. CASE Conflicts(uid[w], copy[w])
    <3>1. PICK v \in Users : v = uid[w]
      BY <1>1
    <3>2. Settled(v)' /\ Return(w)
      BY <1>4, <2>1, <2>2, <3>1 DEF RegisterInsert, Settled, Sticks
    <3> QED
      BY <1>1, <1>2, <3>1, <3>2, ReturnCalm
  <2>3. CASE ~Conflicts(uid[w], copy[w])
    <3>1. /\ user' = [user EXCEPT ![t] = copy[w]] /\ UNCHANGED <<uid, copy>>
          /\ pc' = [pc EXCEPT ![w] = "register_index"]
      BY <1>4, <2>3 DEF RegisterInsert, Continue
    <3>2. \A f \in Fields : set[t][f] = NoValue
      BY <1>1, <2>1 DEF SetHaveRows, Exists
    <3>3. pc'[w] = "register_index" /\ user'[t] = copy[w]
      BY <1>1, <3>1 DEF TypeInv, TypeOK
    <3>4. Progress(w)'
      BY <2>1, <3>1, <3>2, <3>3 DEF Progress, Sticks, BeforeWrite
    <3> QED
      BY <1>1, <1>2, <3>1, <3>3, <3>4, ContinueCalm
  <2> QED
    BY <2>2, <2>3
<1>5. CASE RegisterIndex(w)
  <2>1. /\ user[t] = copy[w] /\ Sticks(t) /\ Return(w)
        /\ es' = [es EXCEPT ![t] = copy[w]] \/ t \in unindexed'
        /\ UNCHANGED <<user, set>>
    BY <1>1, <1>9, <1>5 DEF RegisterIndex, Progress
  <2>2. PICK v \in Users : v = uid[w]
    BY <1>1
  <2>3. Settled(v)'
    BY <2>1, <2>2 DEF Settled, Sticks, TypeInv, TypeOK
  <2> QED
    BY <1>1, <1>2, <2>1, <2>2, <2>3, ReturnCalm
<1> QED
  BY <1>3, <1>4, <1>5

LEMMA SettingCalm ==
  ASSUME TypeInv, CalmFits, NEW w \in Workers,
         SetSelect(w) \/ PutFile(w) \/ SetUpdate(w) \/ SetIndex(w)
  PROVE  CalmFits'
<1> DEFINE t == uid[w]
<1>1. /\ pc[w] # "idle" /\ t \in Users /\ field[w] \in Fields
      /\ copy[w] \in Row /\ Exists(t)
  BY DEF SetSelect, PutFile, SetUpdate, SetIndex, TypeInv, TypeOK, HandlersHold,
         HandlerHolds, PastInsert
<1>2. OwnStep(w)
  BY <1>1 DEF OwnStep, SetSelect, PutFile, SetUpdate, SetIndex, Return, Continue,
              TypeInv, TypeOK, stores, answers
<1>0. CASE t \in overlapped
  <2>1. Return(w) \/ \E step \in Steps \ {"idle"} : Continue(w, step)
    BY DEF SetSelect, PutFile, SetUpdate, SetIndex, Steps
  <2> QED
    BY <1>0, <1>1, <1>2, <2>1, OverlappedCalm
<1> SUFFICES ASSUME t \notin overlapped PROVE CalmFits'
  BY <1>0
<1>9. Progress(w)
  BY <1>1 DEF CalmFits, Alone
<1>3. CASE SetSelect(w)
  <2>1. Settled(t) /\ UNCHANGED <<user, es, set, unindexed, uid, field>> /\ user[t] \in Row
    BY <1>1, <1>9, <1>3 DEF SetSelect, Progress, BeforeWrite, stores, answers, Continue, Exists,
                      TypeInv, TypeOK
  <2>2. /\ pc'[w] \in {"put_file", "set_update"}
        /\ pc'[w] = "put_file" => field[w] = "avatar_id"
    BY <1>3 DEF SetSelect, Continue, TypeInv, TypeOK
  <2>3. copy'[w] = [user[t] EXCEPT ![field[w]] = copy[w][field[w]]]
    BY <1>3 DEF SetSelect, TypeInv, TypeOK
  <2>4. \A f \in Fields \ {field[w]} : copy'[w][f] = user[t][f]
    BY <2>1, <2>3 DEF Fields, Row
  <2>5. Progress(w)'
    BY <2>1, <2>2, <2>4 DEF Progress, Settled, Sticks
  <2> QED
    BY <1>1, <1>2, <2>1, <2>2, <2>5, ContinueCalm
<1>4. CASE PutFile(w)
  <2>1. /\ Settled(t) /\ UNCHANGED <<user, es, set, unindexed, uid, field>> /\ field[w] = "avatar_id"
        /\ \A f \in Fields \ {field[w]} : copy[w][f] = user[t][f]
    BY <1>9, <1>4 DEF PutFile, Progress, BeforeWrite, answers, Continue
  <2>2. pc'[w] = "set_update"
    BY <1>4 DEF PutFile, Continue, TypeInv, TypeOK
  <2>3. PICK a \in Files : copy' = [copy EXCEPT ![w].avatar_id = a]
    BY <1>4 DEF PutFile
  <2>4. \A f \in Fields \ {"avatar_id"} : copy'[w][f] = copy[w][f]
    BY <1>1, <2>3 DEF Fields, Row, TypeInv, TypeOK
  <2>5. Progress(w)'
    BY <2>1, <2>2, <2>4 DEF Progress, Settled, Sticks
  <2> QED
    BY <1>1, <1>2, <2>1, <2>2, <2>5, ContinueCalm
<1>5. CASE SetUpdate(w)
  <2>1. /\ Settled(t) /\ UNCHANGED <<es, set, unindexed>>
        /\ \A f \in Fields \ {field[w]} : copy[w][f] = user[t][f]
    BY <1>9, <1>5 DEF SetUpdate, Progress, BeforeWrite, answers
  <2>2. CASE Conflicts(uid[w], copy[w])
    <3>1. PICK v \in Users : v = uid[w]
      BY <1>1
    <3>2. Settled(v)' /\ Return(w)
      BY <1>5, <2>1, <2>2, <3>1 DEF SetUpdate, Settled, Sticks
    <3> QED
      BY <1>1, <1>2, <3>1, <3>2, ReturnCalm
  <2>3. CASE ~Conflicts(uid[w], copy[w])
    <3>1. /\ user' = [user EXCEPT ![t] = copy[w]] /\ UNCHANGED <<uid, copy, field>>
          /\ pc' = [pc EXCEPT ![w] = "set_index"]
      BY <1>5, <2>3 DEF SetUpdate, Continue
    <3>2. pc'[w] = "set_index" /\ user'[t] = copy[w]
      BY <1>1, <3>1 DEF TypeInv, TypeOK
    <3>3. Progress(w)'
      BY <2>1, <3>1, <3>2 DEF Progress, Settled, Sticks, BeforeWrite
    <3> QED
      BY <1>1, <1>2, <3>1, <3>2, <3>3, ContinueCalm
  <2> QED
    BY <2>2, <2>3
<1>6. CASE SetIndex(w)
  <2>1. /\ user[t] = copy[w] /\ Return(w) /\ UNCHANGED user
        /\ es' = [es EXCEPT ![t] = copy[w]]
        /\ set' = [set EXCEPT ![t][field[w]] = copy[w][field[w]]]
        /\ \A f \in Fields \ {field[w]} : set[t][f] # NoValue => user[t][f] = set[t][f]
    BY <1>9, <1>6 DEF SetIndex, Progress
  <2>2. PICK v \in Users : v = uid[w]
    BY <1>1
  <2>3. es'[v] = user'[v]
    BY <2>1, <2>2 DEF TypeInv, TypeOK
  <2>4. /\ set'[v][field[w]] = copy[w][field[w]]
        /\ \A f \in Fields \ {field[w]} : set'[v][f] = set[v][f]
    BY <1>1, <2>1, <2>2 DEF TypeInv, TypeOK
  <2>5. Settled(v)'
    BY <2>1, <2>2, <2>3, <2>4 DEF Settled, Sticks
  <2> QED
    BY <1>1, <1>2, <2>1, <2>2, <2>5, ReturnCalm
<1> QED
  BY <1>3, <1>4, <1>5, <1>6

(* A handler that fails before the row is written changes nothing of its   *)
(* user; after that its column counts as set by nobody.                    *)
LEMMA FailureCalm ==
  ASSUME TypeInv, CalmFits, NEW w \in Workers, StoreFails(w) \/ StoreUnanswered(w)
  PROVE  CalmFits'
<1> DEFINE t == uid[w]
<1>1. /\ pc[w] # "idle" /\ t \in Users /\ UNCHANGED user /\ Return(w)
      /\ pc[w] # "set_index" => UNCHANGED <<es, unindexed>>
  BY DEF StoreFails, StoreUnanswered, TypeInv, TypeOK, stores
<1>2. \A u \in Users : \A f \in Fields :
        set'[u][f] = IF pc[w] = "set_index" /\ u = t /\ field[w] = f THEN NoValue ELSE set[u][f]
  BY DEF StoreFails, StoreUnanswered, Unanswered
<1>3. OwnStep(w)
  <2>1. \A u \in Users \ {t} : es'[u] = es[u] /\ (u \in unindexed' <=> u \in unindexed)
    BY DEF StoreFails, StoreUnanswered, stores, TypeInv, TypeOK
  <2> QED
    BY <1>1, <1>2, <2>1 DEF OwnStep, Return, TypeInv, TypeOK
<1>4. CASE t \in overlapped
  BY <1>1, <1>3, <1>4, OverlappedCalm
<1>5. CASE t \notin overlapped
  <2>1. Progress(w)
    BY <1>1, <1>5 DEF CalmFits, Alone
  <2>2. PICK v \in Users : v = uid[w]
    BY <1>1
  <2>3. CASE pc[w] # "set_index"
    <3>1. pc[w] \in BeforeWrite
      BY <2>3 DEF StoreFails, StoreUnanswered, BeforeWrite
    <3>2. Settled(v)'
      BY <1>1, <1>2, <2>1, <2>2, <2>3, <3>1 DEF Progress, Settled, Sticks
    <3> QED
      BY <1>1, <1>3, <2>2, <3>2, ReturnCalm
  <2>4. CASE pc[w] = "set_index"
    <3>1. es' = [es EXCEPT ![v] = copy[w]] \/ v \in unindexed'
      BY <2>2, <2>4 DEF StoreFails, StoreUnanswered
    <3>2. user[v] = copy[w]
      BY <2>1, <2>2, <2>4 DEF Progress
    <3>3. v \in unindexed' \/ es'[v] = user'[v]
      BY <1>1, <3>1, <3>2 DEF TypeInv, TypeOK
    <3>4. Sticks(v)'
      BY <1>1, <1>2, <2>1, <2>2, <2>4 DEF Progress, Sticks
    <3> QED
      BY <1>1, <1>3, <2>2, <3>3, <3>4, ReturnCalm DEF Settled
  <2> QED
    BY <2>3, <2>4
<1> QED
  BY <1>4, <1>5

LEMMA KillCalm ==
  ASSUME TypeInv, CalmFits, UserServiceKilled
  PROVE  CalmFits'
<1>1. /\ \A w \in Workers : pc'[w] = "idle"
      /\ UNCHANGED <<user, es, overlapped>> /\ unindexed \subseteq unindexed'
  BY DEF UserServiceKilled, stores
<1>2. \A u \in Users : \A f \in Fields :
        set'[u][f] \in {set[u][f], NoValue}
  BY DEF UserServiceKilled, Unanswered
<1>3. \A w \in Workers : pc[w] = "set_index" /\ uid[w] \in Users
                           => \A f \in Fields : f = field[w] => set'[uid[w]][f] = NoValue
  BY DEF UserServiceKilled, Unanswered
<1>4. \A w \in Workers : pc[w] \in {"register_index", "set_index"} => uid[w] \in unindexed'
  BY DEF UserServiceKilled
<1>5. ASSUME NEW u \in Users \ overlapped PROVE Settled(u)'
  <2>1. CASE ~Served(u)
    BY <1>1, <1>2, <2>1 DEF CalmFits, Settled, Sticks
  <2>2. CASE Served(u)
    <3>1. PICK w \in Workers : uid[w] = u
      BY <2>2 DEF Served
    <3>2. pc[w] # "idle"
      BY <3>1, ProfileAssumption DEF TypeInv, TypeOK
    <3>3. Progress(w)
      BY <3>1, <3>2 DEF CalmFits, Alone
    <3>4. CASE pc[w] \in BeforeWrite
      BY <1>1, <1>2, <3>1, <3>3, <3>4 DEF Progress, Settled, Sticks
    <3>5. CASE pc[w] = "register_index"
      BY <1>1, <1>2, <1>4, <3>1, <3>3, <3>5 DEF Progress, Settled, Sticks
    <3>6. CASE pc[w] = "set_index"
      <4>1. Sticks(u)'
        BY <1>1, <1>2, <1>3, <3>1, <3>3, <3>6 DEF Progress, Sticks
      <4> QED
        BY <1>4, <3>1, <3>6, <4>1 DEF Settled
    <3> QED
      BY <3>2, <3>4, <3>5, <3>6 DEF TypeInv, TypeOK, Steps, BeforeWrite
  <2> QED
    BY <2>1, <2>2
<1> QED
  BY <1>1, <1>5 DEF CalmFits, OneHandler, Alone

LEMMA StepCalm == TypeInv /\ CalmInv /\ [Next]_vars => CalmInv'
<1> SUFFICES ASSUME TypeInv, SetHaveRows, CalmFits, [Next]_vars
             PROVE  CalmFits'
  BY StepSetHaveRows DEF CalmInv
<1>1. CASE UNCHANGED vars
  BY <1>1 DEF CalmFits, OneHandler, Alone, Served, Settled, Sticks, Progress, vars, stores,
              handlers, answers
<1> QED
  BY <1>1, RequestCalm, RegistrationCalm, SettingCalm, FailureCalm, KillCalm DEF Next

LEMMA CalmInvHolds == Spec => []CalmInv
<1>1. Init => CalmInv
  BY DEF Init, CalmInv, SetHaveRows, CalmFits, OneHandler, Alone, Settled, Sticks
<1> QED
  BY <1>1, StepCalm, TypeInvHolds, PTL DEF Spec

(* A search shows the row of a user whom nobody serves, unless a handler   *)
(* stopped between this row and its document, or two served this user.     *)
THEOREM SearchShowsRows == Spec => []IndexIsCurrent
<1>1. CalmInv => IndexIsCurrent
  BY DEF CalmInv, CalmFits, Settled, IndexIsCurrent
<1> QED
  BY <1>1, CalmInvHolds, PTL

(* What was set with success is still in its column, whatever fails or is  *)
(* killed; only users whom two handlers served at once are excepted.       *)
THEOREM SettingsAreKept == Spec => []SettingSticks
<1>1. CalmInv => SettingSticks
  BY DEF CalmInv, CalmFits, Settled, Sticks, SettingSticks
<1> QED
  BY <1>1, CalmInvHolds, PTL
=============================================================================
