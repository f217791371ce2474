----------------------- MODULE MessagePipelineProofs -----------------------
(***************************************************************************)
(* Theorems about MessagePipeline, for any senders, messages and bounds.   *)
(***************************************************************************)
EXTENDS MessagePipeline, TLAPS

-----------------------------------------------------------------------------
(* Sequences. *)

LEMMA InToSet ==
  ASSUME NEW S, NEW q \in Seq(S)
  PROVE  \A x : x \in ToSet(q) <=> \E i \in 1..Len(q) : q[i] = x
<1>1. DOMAIN q = 1..Len(q)
  OBVIOUS
<1> QED
  BY <1>1 DEF ToSet

LEMMA AppendLast ==
  ASSUME NEW S, NEW q \in Seq(S), NEW m \in S
  PROVE  /\ Append(q, m) \in Seq(S)
         /\ Len(Append(q, m)) = Len(q) + 1
         /\ Append(q, m)[Len(q) + 1] = m
         /\ \A i \in 1..Len(q) : Append(q, m)[i] = q[i]
         /\ \A x : x \in ToSet(Append(q, m)) <=> x \in ToSet(q) \/ x = m
<1>1. /\ Append(q, m) \in Seq(S)
      /\ Len(Append(q, m)) = Len(q) + 1
      /\ Append(q, m)[Len(q) + 1] = m
      /\ \A i \in 1..Len(q) : Append(q, m)[i] = q[i]
      /\ Len(q) \in Nat
  OBVIOUS
<1>2. \A x : x \in ToSet(q) <=> \E i \in 1..Len(q) : q[i] = x
  BY InToSet
<1>3. \A x : x \in ToSet(Append(q, m)) <=> \E i \in 1..Len(Append(q, m)) : Append(q, m)[i] = x
  BY <1>1, InToSet
<1> QED
  BY <1>1, <1>2, <1>3

LEMMA HeadTail ==
  ASSUME NEW S, NEW q \in Seq(S), q # <<>>
  PROVE  /\ Head(q) \in S /\ Head(q) = q[1] /\ Len(q) \in Nat \ {0}
         /\ Tail(q) \in Seq(S)
         /\ Len(Tail(q)) = Len(q) - 1
         /\ \A i \in 1..Len(Tail(q)) : Tail(q)[i] = q[i + 1]
         /\ \A x : x \in ToSet(q) <=> x \in ToSet(Tail(q)) \/ x = Head(q)
<1>1. /\ Head(q) \in S /\ Head(q) = q[1] /\ Len(q) \in Nat \ {0}
      /\ Tail(q) \in Seq(S)
      /\ Len(Tail(q)) = Len(q) - 1
      /\ \A i \in 1..Len(Tail(q)) : Tail(q)[i] = q[i + 1]
  OBVIOUS
<1>2. \A x : x \in ToSet(q) <=> \E i \in 1..Len(q) : q[i] = x
  BY InToSet
<1>3. \A x : x \in ToSet(Tail(q)) <=> \E i \in 1..Len(Tail(q)) : Tail(q)[i] = x
  BY <1>1, InToSet
<1>4. ASSUME NEW i \in 1..Len(q), i # 1
      PROVE  i - 1 \in 1..Len(Tail(q)) /\ q[i] = Tail(q)[i - 1]
  BY <1>1, <1>4
<1>5. ASSUME NEW i \in 1..Len(Tail(q))
      PROVE  i + 1 \in 1..Len(q) /\ q[i + 1] = Tail(q)[i]
  BY <1>1
<1>6. \A x : x \in ToSet(q) => x \in ToSet(Tail(q)) \/ x = Head(q)
  BY <1>1, <1>2, <1>3, <1>4
<1>7. \A x : x \in ToSet(Tail(q)) \/ x = Head(q) => x \in ToSet(q)
  BY <1>1, <1>2, <1>3, <1>5
<1> QED
  BY <1>1, <1>6, <1>7

-----------------------------------------------------------------------------
(* Type correctness. *)

RequestsTyped ==
  /\ pc \in [Senders -> RequestSteps]
  /\ msg \in [Senders -> Messages \cup {NoMessage}]
  /\ \A s \in Senders : pc[s] = "idle" <=> msg[s] = NoMessage
TargetsTyped == targets \in [Senders -> SUBSET Members]
ResultsTyped ==
  answered \in SUBSET Messages /\ notified \in [Messages -> SUBSET Members]
BrokerTyped == queue \in Seq(Messages) /\ published \in Seq(Messages)

(* What onMessage has looked at: the type of the message. *)
ConsumerTyped ==
  /\ current \in Messages \cup {NoMessage}
  /\ step \in StoreSteps
  /\ step = "idle" <=> current = NoMessage
  /\ file \in Nat
  /\ step = "index" => current \in Texts
  /\ step = "put_file" => current \notin Texts
StoresTyped ==
  /\ es \in SUBSET Texts
  /\ files \in [Messages -> Nat]
  /\ message \in Seq(Messages)
  /\ file_id \in [Messages -> Nat]
TroublesTyped ==
  /\ refused \in SUBSET Messages /\ lost \in SUBSET Messages
  /\ faults \in Nat /\ drops \in Nat /\ kills \in Nat

TypeInv ==
  /\ RequestsTyped /\ TargetsTyped /\ ResultsTyped /\ BrokerTyped
  /\ ConsumerTyped /\ StoresTyped /\ TroublesTyped

LEMMA TypeInvGivesTypeOK == TypeInv => TypeOK
BY DEF TypeInv, RequestsTyped, TargetsTyped, ResultsTyped, BrokerTyped, ConsumerTyped,
       StoresTyped, TroublesTyped, TypeOK

LEMMA InitTypeInv == Init => TypeInv
<1> SUFFICES ASSUME Init PROVE TypeInv
  OBVIOUS
<1>1. RequestsTyped /\ TargetsTyped /\ TroublesTyped
  BY DEF Init, RequestsTyped, TargetsTyped, TroublesTyped, RequestSteps
<1>2. ResultsTyped /\ BrokerTyped
  BY DEF Init, ResultsTyped, BrokerTyped
<1>3. ConsumerTyped /\ StoresTyped
  BY DEF Init, ConsumerTyped, StoresTyped, StoreSteps
<1> QED
  BY <1>1, <1>2, <1>3 DEF TypeInv

LEMMA TroublesStayTyped == TypeInv /\ [Next]_vars => TroublesTyped'
<1> SUFFICES ASSUME TypeInv, [Next]_vars PROVE TroublesTyped'
  OBVIOUS
<1>1. /\ refused \in SUBSET Messages /\ lost \in SUBSET Messages
      /\ faults \in Nat /\ drops \in Nat /\ kills \in Nat
      /\ step # "idle" => current \in Messages
      /\ ToSet(queue) \subseteq Messages
  BY InToSet DEF TypeInv, TroublesTyped, ConsumerTyped, BrokerTyped
<1>2. \/ UNCHANGED troubles
      \/ Fault({}) \/ (step # "idle" /\ Fault({current}))
      \/ Drop(ToSet(queue)) \/ \E s \in Senders : pc[s] = "publish" /\ Drop({msg[s]})
      \/ Kill
  BY DEF Next, PipelineNext, vars, NewMessage, RequestStep, GetMembers, Publish, PublishRaced,
         PublishFails, ReplyAndNotify, StoreStep, Consume, IndexMessage, PutFile, InsertMessage,
         Ack, StoreFails, PutFileUnanswered, Then, TransmitKilled, BrokerRestarts,
         MessageServiceKilled
<1>3. \A s \in Senders : pc[s] = "publish" => msg[s] \in Messages
  BY DEF TypeInv, RequestsTyped
<1> QED
  BY <1>1, <1>2, <1>3 DEF TroublesTyped, troubles, Fault, Drop, Kill

LEMMA RequestTyped ==
  ASSUME TypeInv, NEW s \in Senders, NewMessage(s) \/ RequestStep(s)
  PROVE  /\ RequestsTyped' /\ TargetsTyped' /\ ResultsTyped' /\ BrokerTyped'
         /\ ConsumerTyped' /\ StoresTyped'
<1>1. pc[s] # "idle" => msg[s] \in Messages
  BY DEF TypeInv, RequestsTyped
<1>2. ConsumerTyped' /\ StoresTyped'
  BY DEF TypeInv, ConsumerTyped, StoresTyped, NewMessage, RequestStep, GetMembers, Publish,
         PublishRaced, PublishFails, ReplyAndNotify, consumer, stores
<1>3. RequestsTyped'
  BY PipelineAssumption
    DEF TypeInv, RequestsTyped, RequestSteps, NewMessage, RequestStep, GetMembers, Publish,
        PublishRaced, PublishFails, ReplyAndNotify, GiveAway, Return
<1>4. TargetsTyped'
  <2>1. \/ UNCHANGED targets
        \/ targets' = [targets EXCEPT ![s] = Members]
        \/ targets' = [targets EXCEPT ![s] = {}]
    BY DEF NewMessage, RequestStep, GetMembers, Publish, PublishRaced, PublishFails,
           ReplyAndNotify, Return
  <2> QED
    BY <2>1 DEF TypeInv, TargetsTyped
<1>5. ResultsTyped'
  <2>1. CASE ReplyAndNotify(s)
    <3>1. targets[s] \ {s} \in SUBSET Members
      BY DEF TypeInv, TargetsTyped
    <3> QED
      BY <1>1, <2>1, <3>1 DEF ReplyAndNotify, TypeInv, ResultsTyped
  <2>2. CASE UNCHANGED results
    BY <2>2 DEF TypeInv, ResultsTyped, results
  <2> QED
    BY <2>1, <2>2 DEF NewMessage, RequestStep, GetMembers, Publish, PublishRaced, PublishFails
<1>6. BrokerTyped'
  <2>1. CASE Publish(s) \/ PublishRaced(s)
    <3>1. msg[s] \in Messages
      BY <1>1, <2>1 DEF Publish, PublishRaced
    <3>2. Append(queue, msg[s]) \in Seq(Messages) /\ Append(published, msg[s]) \in Seq(Messages)
      BY <3>1, AppendLast DEF TypeInv, BrokerTyped
    <3>3. queue' \in {queue, Append(queue, msg[s])} /\ published' = Append(published, msg[s])
      BY <2>1 DEF Publish, PublishRaced, GiveAway
    <3> QED
      BY <3>2, <3>3 DEF TypeInv, BrokerTyped
  <2>2. CASE UNCHANGED <<queue, published>>
    BY <2>2 DEF TypeInv, BrokerTyped
  <2> QED
    BY <2>1, <2>2 DEF NewMessage, RequestStep, GetMembers, PublishFails, ReplyAndNotify
<1> QED
  BY <1>2, <1>3, <1>4, <1>5, <1>6

LEMMA StoreTyped ==
  ASSUME TypeInv, StoreStep \/ StoreFails \/ PutFileUnanswered
  PROVE  /\ RequestsTyped' /\ TargetsTyped' /\ ResultsTyped' /\ BrokerTyped'
         /\ ConsumerTyped' /\ StoresTyped'
<1>1. step # "idle" => current \in Messages
  BY DEF TypeInv, ConsumerTyped
<1>2. RequestsTyped' /\ TargetsTyped' /\ ResultsTyped'
  BY DEF TypeInv, RequestsTyped, TargetsTyped, ResultsTyped, StoreStep, StoreFails,
         PutFileUnanswered, Consume, IndexMessage, PutFile, InsertMessage, Ack, Then,
         requests, results
<1>3. BrokerTyped'
  BY HeadTail DEF TypeInv, BrokerTyped, StoreStep, StoreFails, PutFileUnanswered, Consume,
                  IndexMessage, PutFile, InsertMessage, Ack, Then
<1>4. ConsumerTyped'
  <2>1. CASE Consume
    <3>1. Head(queue) \in Messages
      BY <2>1, HeadTail DEF Consume, TypeInv, BrokerTyped
    <3> QED
      BY <2>1, <3>1, PipelineAssumption DEF Consume, TypeInv, ConsumerTyped, StoreSteps
  <2>2. CASE ~Consume
    BY <1>1, <2>2 DEF TypeInv, ConsumerTyped, StoresTyped, StoreSteps, StoreStep, StoreFails,
                      PutFileUnanswered, IndexMessage, PutFile, InsertMessage, Ack, Then
  <2> QED
    BY <2>1, <2>2
<1>5. StoresTyped'
  <2>1. es' \in SUBSET Texts
    BY <1>1 DEF TypeInv, ConsumerTyped, StoresTyped, StoreStep, StoreFails,
                PutFileUnanswered, Consume, IndexMessage, PutFile, InsertMessage, Ack, Then, stores
  <2>2. files' \in [Messages -> Nat] /\ file_id' \in [Messages -> Nat]
    <3>1. /\ UNCHANGED files \/ files' = [files EXCEPT ![current] = @ + 1]
          /\ UNCHANGED file_id \/ file_id' = [file_id EXCEPT ![current] = file]
      BY DEF StoreStep, StoreFails, PutFileUnanswered, Consume, IndexMessage, PutFile,
             InsertMessage, Ack, stores
    <3>2. \A n \in Messages : files[n] + 1 \in Nat
      BY DEF TypeInv, StoresTyped
    <3> QED
      BY <3>1, <3>2 DEF TypeInv, StoresTyped, ConsumerTyped
  <2>3. message' \in Seq(Messages)
    <3>1. UNCHANGED message \/ (step = "insert" /\ message' = Append(message, current))
      BY DEF StoreStep, StoreFails, PutFileUnanswered, Consume, IndexMessage, PutFile,
             InsertMessage, Ack, stores
    <3>2. step # "idle" => Append(message, current) \in Seq(Messages)
      BY <1>1, AppendLast DEF TypeInv, StoresTyped
    <3> QED
      BY <3>1, <3>2 DEF TypeInv, StoresTyped
  <2> QED
    BY <2>1, <2>2, <2>3 DEF StoresTyped
<1> QED
  BY <1>2, <1>3, <1>4, <1>5

LEMMA FailureTyped ==
  ASSUME TypeInv, TransmitKilled \/ BrokerRestarts \/ MessageServiceKilled
  PROVE  /\ RequestsTyped' /\ TargetsTyped' /\ ResultsTyped' /\ BrokerTyped'
         /\ ConsumerTyped' /\ StoresTyped'
<1>1. RequestsTyped'
  BY DEF TypeInv, RequestsTyped, RequestSteps, TransmitKilled, BrokerRestarts,
         MessageServiceKilled, requests
<1>2. TargetsTyped'
  BY DEF TypeInv, TargetsTyped, TransmitKilled, BrokerRestarts, MessageServiceKilled, requests
<1>3. ResultsTyped' /\ StoresTyped'
  BY DEF TypeInv, ResultsTyped, StoresTyped, TransmitKilled, BrokerRestarts,
         MessageServiceKilled, results, stores
<1>4. BrokerTyped'
  <2>1. (UNCHANGED queue \/ queue' = <<>>) /\ UNCHANGED published
    BY DEF TransmitKilled, BrokerRestarts, MessageServiceKilled
  <2>2. <<>> \in Seq(Messages)
    OBVIOUS
  <2> QED
    BY <2>1, <2>2 DEF TypeInv, BrokerTyped
<1>5. ConsumerTyped'
  BY DEF TypeInv, ConsumerTyped, StoreSteps, TransmitKilled, BrokerRestarts,
         MessageServiceKilled, consumer
<1> QED
  BY <1>1, <1>2, <1>3, <1>4, <1>5

LEMMA StepTyped == TypeInv /\ [Next]_vars => TypeInv'
<1>1. TypeInv /\ Next => TypeInv'
  BY TroublesStayTyped, RequestTyped, StoreTyped, FailureTyped DEF Next, PipelineNext, TypeInv
<1>2. TypeInv /\ UNCHANGED vars => TypeInv'
  BY DEF TypeInv, RequestsTyped, TargetsTyped, ResultsTyped, BrokerTyped, ConsumerTyped,
         StoresTyped, TroublesTyped, vars, requests, results, consumer, stores, troubles
<1> QED
  BY <1>1, <1>2

LEMMA TypeInvHolds == Spec => []TypeInv
BY InitTypeInv, StepTyped, PTL DEF Spec

(* Requests, the queue, onMessage and the stores have their types.         *)
THEOREM TypeCorrect == Spec => []TypeOK
BY TypeInvHolds, TypeInvGivesTypeOK, PTL

-----------------------------------------------------------------------------
(* What the history names.  Beside the stores, the invariant says that     *)
(* onMessage reaches its insert only with the content stored.              *)

ContentStored ==
  step = "insert" => IF current \in Texts THEN current \in es ELSE file \in 1..files[current]

ContentInv == HistoryHasContent /\ ContentStored

(* How the stores may change in a step. *)
LEMMA StoreChanges ==
  ASSUME TypeInv, [Next]_vars
  PROVE  /\ es \subseteq es'
         /\ \A m \in Messages : files[m] \in Nat /\ files'[m] \in Nat /\ files[m] <= files'[m]
         /\ \/ UNCHANGED <<message, file_id>>
            \/ /\ step = "insert" /\ current \in Messages /\ current \notin Rows
               /\ message' = Append(message, current)
               /\ file_id' = [file_id EXCEPT ![current] = file]
<1>1. es' = es \/ es' = es \cup {current}
  BY DEF Next, PipelineNext, vars, stores, NewMessage, RequestStep, GetMembers, Publish,
         PublishRaced, PublishFails, ReplyAndNotify, StoreStep, Consume, IndexMessage, PutFile,
         InsertMessage, Ack, StoreFails, PutFileUnanswered, TransmitKilled, BrokerRestarts,
         MessageServiceKilled
<1>2. files' = files \/ files' = [files EXCEPT ![current] = @ + 1]
  BY DEF Next, PipelineNext, vars, stores, NewMessage, RequestStep, GetMembers, Publish,
         PublishRaced, PublishFails, ReplyAndNotify, StoreStep, Consume, IndexMessage, PutFile,
         InsertMessage, Ack, StoreFails, PutFileUnanswered, TransmitKilled, BrokerRestarts,
         MessageServiceKilled
<1>3. \A m \in Messages : files[m] \in Nat /\ files'[m] \in Nat /\ files[m] <= files'[m]
  BY <1>2 DEF TypeInv, StoresTyped
<1>4. UNCHANGED <<message, file_id>> \/ InsertMessage
  BY DEF Next, PipelineNext, vars, stores, NewMessage, RequestStep, GetMembers, Publish,
         PublishRaced, PublishFails, ReplyAndNotify, StoreStep, Consume, IndexMessage, PutFile,
         Ack, StoreFails, PutFileUnanswered, TransmitKilled, BrokerRestarts,
         MessageServiceKilled
<1>5. step = "insert" => current \in Messages
  BY DEF TypeInv, ConsumerTyped
<1> QED
  BY <1>1, <1>3, <1>4, <1>5 DEF InsertMessage, Rows

LEMMA StepContent == TypeInv /\ ContentInv /\ [Next]_vars => ContentInv'
<1> SUFFICES ASSUME TypeInv, ContentInv, [Next]_vars
             PROVE  ContentInv'
  OBVIOUS
<1>1. message \in Seq(Messages) /\ file_id \in [Messages -> Nat]
  BY DEF TypeInv, StoresTyped
<1>2. Rows \subseteq Messages
  BY <1>1, InToSet DEF Rows
<1>3. HistoryHasContent'
  <2>1. \A m \in Rows : IF m \in Texts THEN m \in es' ELSE file_id[m] \in 1..files'[m]
    BY <1>1, <1>2, StoreChanges DEF ContentInv, HistoryHasContent
  <2>2. CASE UNCHANGED <<message, file_id>>
    BY <2>1, <2>2 DEF HistoryHasContent, Rows
  <2>3. CASE /\ step = "insert" /\ current \in Messages /\ current \notin Rows
             /\ message' = Append(message, current)
             /\ file_id' = [file_id EXCEPT ![current] = file]
    <3>1. \A m : m \in Rows' <=> m \in Rows \/ m = current
      BY <1>1, <2>3, AppendLast DEF Rows
    <3>2. IF current \in Texts THEN current \in es' ELSE file_id'[current] \in 1..files'[current]
      BY <1>1, <2>3, StoreChanges DEF ContentInv, ContentStored, TypeInv, ConsumerTyped
    <3>3. \A m \in Rows : file_id'[m] = file_id[m]
      BY <1>1, <1>2, <2>3
    <3> QED
      BY <2>1, <3>1, <3>2, <3>3 DEF HistoryHasContent
  <2> QED
    BY <2>2, <2>3, StoreChanges
<1>4. ContentStored'
  <2>1. CASE IndexMessage
    BY <2>1 DEF IndexMessage, Then, ContentStored, TypeInv, ConsumerTyped
  <2>2. CASE PutFile
    <3>1. /\ current \in Messages /\ current \notin Texts /\ UNCHANGED current
          /\ file' = files[current] + 1 /\ files' = [files EXCEPT ![current] = @ + 1]
      BY <2>2 DEF PutFile, Then, TypeInv, ConsumerTyped
    <3>2. files'[current] = files[current] + 1 /\ files[current] \in Nat
      BY <3>1 DEF TypeInv, StoresTyped
    <3> QED
      BY <3>1, <3>2 DEF ContentStored
  <2>3. CASE UNCHANGED <<step, current, file, es, files>>
    BY <2>3 DEF ContentInv, ContentStored
  <2>4. CASE step' # "insert"
    BY <2>4 DEF ContentStored
  <2>5. \/ IndexMessage \/ PutFile \/ UNCHANGED <<step, current, file, es, files>>
        \/ step' # "insert"
    BY DEF Next, PipelineNext, vars, consumer, stores, NewMessage, RequestStep, GetMembers,
           Publish, PublishRaced, PublishFails, ReplyAndNotify, StoreStep, Consume,
           InsertMessage, Ack, StoreFails, PutFileUnanswered, Then, TransmitKilled,
           BrokerRestarts, MessageServiceKilled
  <2> QED
    BY <2>1, <2>2, <2>3, <2>4, <2>5
<1> QED
  BY <1>3, <1>4 DEF ContentInv

(* Whatever fails or is killed between the content's store and the row's:  *)
(* a text in the history can be searched, and a medium there has a file.   *)
THEOREM HistoryIsWhole == Spec => []HistoryHasContent
<1>1. Init => ContentInv
  <2>1. ToSet(<<>>) = {}
    BY DEF ToSet
  <2> QED
    BY <2>1 DEF Init, ContentInv, HistoryHasContent, Rows, ContentStored
<1>2. ContentInv => HistoryHasContent
  BY DEF ContentInv
<1> QED
  BY <1>1, <1>2, StepContent, TypeInvHolds, PTL DEF Spec

-----------------------------------------------------------------------------
(* What was published, and in which order.                                 *)

LEMMA SequencesTyped ==
  ASSUME TypeInv
  PROVE  /\ message \in Seq(Messages) /\ queue \in Seq(Messages) /\ published \in Seq(Messages)
         /\ Len(message) \in Nat /\ Len(queue) \in Nat /\ Len(published) \in Nat
         /\ (queue = <<>> <=> Len(queue) = 0)
<1>1. message \in Seq(Messages) /\ queue \in Seq(Messages) /\ published \in Seq(Messages)
  BY DEF TypeInv, StoresTyped, BrokerTyped
<1> QED
  BY <1>1

(* No message is published twice. *)
PublishedOnce ==
  /\ \A i, j \in 1..Len(published) : published[i] = published[j] => i = j
  /\ \A s \in Senders :
       pc[s] \in {"members", "publish"} => \A i \in 1..Len(published) : published[i] # msg[s]
  /\ \A s, t \in Senders : (msg[s] = msg[t] /\ msg[s] # NoMessage) => s = t

Publishes(m) ==
  /\ published' = Append(published, m)
  /\ \A i \in 1..Len(published) : published[i] # m

LEMMA StepPublishes ==
  ASSUME TypeInv, PublishedOnce, [Next]_vars
  PROVE  \/ UNCHANGED published
         \/ \E s \in Senders : /\ Publish(s) \/ PublishRaced(s)
                               /\ msg[s] \in Messages /\ Publishes(msg[s])
<1>1. UNCHANGED published \/ \E s \in Senders : Publish(s) \/ PublishRaced(s)
  BY DEF Next, PipelineNext, vars, NewMessage, RequestStep, GetMembers, PublishFails,
         ReplyAndNotify, StoreStep, Consume, IndexMessage, PutFile, InsertMessage, Ack,
         StoreFails, PutFileUnanswered, Then, TransmitKilled, BrokerRestarts, MessageServiceKilled
<1>2. ASSUME NEW s \in Senders, Publish(s) \/ PublishRaced(s)
      PROVE  msg[s] \in Messages /\ Publishes(msg[s])
  BY <1>2 DEF Publish, PublishRaced, GiveAway, TypeInv, RequestsTyped, PublishedOnce, Publishes
<1> QED
  BY <1>1, <1>2

LEMMA PublishKeepsOnce ==
  ASSUME TypeInv, PublishedOnce, NEW s \in Senders, Publish(s) \/ PublishRaced(s)
  PROVE  PublishedOnce'
<1> DEFINE m == msg[s]
<1>1. /\ m \in Messages /\ m # NoMessage
      /\ published' = Append(published, m)
      /\ pc' = [pc EXCEPT ![s] = "reply"] /\ UNCHANGED msg
      /\ pc[s] = "publish"
  BY PipelineAssumption DEF Publish, PublishRaced, GiveAway, TypeInv, RequestsTyped
<1>2. /\ Len(published') = Len(published) + 1
      /\ \A i \in 1..Len(published) : published'[i] = published[i]
      /\ published'[Len(published) + 1] = m
  BY <1>1, SequencesTyped, AppendLast
<1>3. \A i \in 1..Len(published) : published[i] # m
  BY <1>1 DEF PublishedOnce
<1>4. \A i \in 1..Len(published') : i \in 1..Len(published) \/ i = Len(published) + 1
  BY <1>2, SequencesTyped
<1>5. \A i, j \in 1..Len(published') : published'[i] = published'[j] => i = j
  BY <1>2, <1>3, <1>4 DEF PublishedOnce
<1>6. ASSUME NEW t \in Senders, pc'[t] \in {"members", "publish"}
      PROVE  \A i \in 1..Len(published') : published'[i] # msg'[t]
  <2>1. t # s /\ pc[t] = pc'[t]
    BY <1>1, <1>6 DEF TypeInv, RequestsTyped
  <2>2. msg[t] # m
    BY <1>1, <2>1 DEF PublishedOnce
  <2> QED
    BY <1>1, <1>2, <1>4, <1>6, <2>1, <2>2 DEF PublishedOnce
<1> QED
  BY <1>1, <1>5, <1>6 DEF PublishedOnce

LEMMA StepPublishedOnce == TypeInv /\ PublishedOnce /\ [Next]_vars => PublishedOnce'
<1> SUFFICES ASSUME TypeInv, PublishedOnce, [Next]_vars PROVE PublishedOnce'
  OBVIOUS
<1>1. ASSUME NEW s \in Senders, NewMessage(s) PROVE PublishedOnce'
  <2>1. PICK m \in Messages : ~Named(m) /\ msg' = [msg EXCEPT ![s] = m]
    BY <1>1 DEF NewMessage
  <2>2. \A i \in 1..Len(published) : published[i] # m
    BY <2>1, SequencesTyped, InToSet DEF Named
  <2>3. \A t \in Senders : msg[t] # m
    BY <2>1 DEF Named
  <2>4. pc' = [pc EXCEPT ![s] = "members"] /\ UNCHANGED published
    BY <1>1 DEF NewMessage
  <2> QED
    BY <2>1, <2>2, <2>3, <2>4 DEF PublishedOnce, TypeInv, RequestsTyped
<1>2. ASSUME NEW s \in Senders, Publish(s) \/ PublishRaced(s) PROVE PublishedOnce'
  BY <1>2, PublishKeepsOnce
<1>3. ASSUME NEW s \in Senders, GetMembers(s) PROVE PublishedOnce'
  BY <1>3 DEF GetMembers, PublishedOnce, TypeInv, RequestsTyped
<1>4. ASSUME NEW s \in Senders, PublishFails(s) \/ ReplyAndNotify(s) PROVE PublishedOnce'
  BY <1>4 DEF PublishFails, ReplyAndNotify, Return, PublishedOnce, TypeInv, RequestsTyped
<1>5. CASE TransmitKilled
  BY <1>5 DEF TransmitKilled, PublishedOnce
<1>6. CASE UNCHANGED <<pc, msg, published>>
  BY <1>6 DEF PublishedOnce
<1>7. \/ \E s \in Senders : \/ NewMessage(s) \/ Publish(s) \/ PublishRaced(s) \/ GetMembers(s)
                            \/ PublishFails(s) \/ ReplyAndNotify(s)
      \/ TransmitKilled
      \/ UNCHANGED <<pc, msg, published>>
  BY DEF Next, PipelineNext, vars, requests, RequestStep, StoreStep, Consume, IndexMessage,
         PutFile, InsertMessage, Ack, StoreFails, PutFileUnanswered, Then, BrokerRestarts,
         MessageServiceKilled
<1> QED
  BY <1>1, <1>2, <1>3, <1>4, <1>5, <1>6, <1>7

LEMMA PublishedOnceHolds == Spec => [](TypeInv /\ PublishedOnce)
<1>1. Init => PublishedOnce
  BY DEF Init, PublishedOnce
<1> QED
  BY <1>1, StepPublishedOnce, TypeInvHolds, PTL DEF Spec

Sent == {published[i] : i \in 1..Len(published)}
Before(m, n) ==
  \E k, l \in 1..Len(published) : k < l /\ published[k] = m /\ published[l] = n

(* The order only grows, at its end.                                       *)
LEMMA OrderGrows ==
  ASSUME TypeInv, PublishedOnce, [Next]_vars
  PROVE  /\ Sent \subseteq Sent'
         /\ \A m, n : Before(m, n) => Before(m, n)'
         /\ \A m : \A n \in Sent : Before(m, n)' => Before(m, n)
         /\ \A m \in Sent : \A n \in Sent' \ Sent : Before(m, n)'
<1>1. CASE UNCHANGED published
  BY <1>1 DEF Sent, Before
<1>2. CASE \E s \in Senders : msg[s] \in Messages /\ Publishes(msg[s])
  <2> PICK x \in Messages : Publishes(x)
    BY <1>2
  <2>1. /\ Len(published') = Len(published) + 1 /\ Len(published) \in Nat
        /\ \A i \in 1..Len(published) : published'[i] = published[i]
        /\ published'[Len(published) + 1] = x
    BY SequencesTyped, AppendLast DEF Publishes
  <2>2. /\ \A i \in 1..Len(published) : i \in 1..Len(published') /\ i < Len(published')
        /\ \A i \in 1..Len(published') : i \in 1..Len(published) \/ i = Len(published) + 1
        /\ Len(published') \in 1..Len(published')
    BY <2>1
  <2>3. x \notin Sent
    BY DEF Publishes, Sent
  <2>4. Sent' = Sent \cup {x}
    BY <2>1, <2>2 DEF Sent
  <2>5. \A m, n : Before(m, n) => Before(m, n)'
    BY <2>1, <2>2 DEF Before
  <2>6. ASSUME NEW m, NEW n \in Sent, Before(m, n)' PROVE Before(m, n)
    <3>1. PICK k \in 1..Len(published'), l \in 1..Len(published') :
            k < l /\ published'[k] = m /\ published'[l] = n
      BY <2>6 DEF Before
    <3>2. l \in 1..Len(published)
      BY <2>1, <2>2, <2>3, <3>1
    <3>3. k \in 1..Len(published)
      BY <2>1, <3>1, <3>2
    <3> QED
      BY <2>1, <3>1, <3>2, <3>3 DEF Before
  <2>7. ASSUME NEW m \in Sent PROVE Before(m, x)'
    <3>1. PICK k \in 1..Len(published) : published[k] = m
      BY DEF Sent
    <3> QED
      BY <2>1, <2>2, <3>1 DEF Before
  <2> QED
    BY <2>4, <2>5, <2>6, <2>7
<1> QED
  BY <1>1, <1>2, StepPublishes

LEMMA BeforeNotAfter ==
  ASSUME TypeInv, PublishedOnce, NEW m, NEW n, Before(m, n)
  PROVE  ~Before(n, m)
<1>1. PICK k \in 1..Len(published), l \in 1..Len(published) :
        k < l /\ published[k] = m /\ published[l] = n
  BY DEF Before
<1>2. ASSUME Before(n, m) PROVE FALSE
  <2>1. PICK i \in 1..Len(published), j \in 1..Len(published) :
          i < j /\ published[i] = n /\ published[j] = m
    BY <1>2 DEF Before
  <2>2. i = l /\ j = k
    BY <1>1, <2>1 DEF PublishedOnce
  <2> QED
    BY <1>1, <2>1, <2>2, SequencesTyped
<1> QED
  BY <1>2

-----------------------------------------------------------------------------
(* How the queue, the history and the message in hand may change in a      *)
(* step.                                                                   *)

LEMMA QueueSteps ==
  ASSUME TypeInv, PublishedOnce, [Next]_vars
  PROVE  \/ UNCHANGED queue
         \/ BrokerRestarts /\ queue' = <<>>
         \/ Ack /\ queue # <<>> /\ Head(queue) = current /\ queue' = Tail(queue)
         \/ \E m \in Messages : Publishes(m) /\ queue' = Append(queue, m)
<1>1. \/ UNCHANGED queue \/ BrokerRestarts \/ Ack
      \/ \E s \in Senders : Publish(s)
  BY DEF Next, PipelineNext, vars, NewMessage, RequestStep, GetMembers, PublishRaced,
         PublishFails, ReplyAndNotify, StoreStep, Consume, IndexMessage, PutFile, InsertMessage,
         StoreFails, PutFileUnanswered, Then, TransmitKilled, MessageServiceKilled
<1>2. ASSUME NEW s \in Senders, Publish(s)
      PROVE  msg[s] \in Messages /\ Publishes(msg[s]) /\ queue' = Append(queue, msg[s])
  BY <1>2 DEF Publish, GiveAway, TypeInv, RequestsTyped, PublishedOnce, Publishes
<1>3. BrokerRestarts => queue' = <<>>
  BY DEF BrokerRestarts
<1>4. Ack => UNCHANGED queue \/ (queue # <<>> /\ Head(queue) = current /\ queue' = Tail(queue))
  BY DEF Ack
<1> QED
  BY <1>1, <1>2, <1>3, <1>4

LEMMA CurrentSteps ==
  ASSUME TypeInv, [Next]_vars
  PROVE  \/ step' = "idle"
         \/ step # "idle" /\ UNCHANGED current
         \/ queue # <<>> /\ current' = Head(queue) /\ UNCHANGED <<queue, message, published>>
BY DEF Next, PipelineNext, vars, consumer, stores, NewMessage, RequestStep, GetMembers, Publish,
       PublishRaced, PublishFails, ReplyAndNotify, StoreStep, Consume, IndexMessage, PutFile,
       InsertMessage, Ack, StoreFails, PutFileUnanswered, Then, TransmitKilled, BrokerRestarts,
       MessageServiceKilled

LEMMA SetSteps ==
  ASSUME TypeInv, PublishedOnce, [Next]_vars
  PROVE  /\ ToSet(queue)' \subseteq ToSet(queue) \cup (Sent' \ Sent)
         /\ Rows \subseteq Rows'
         /\ Rows' # Rows => /\ InsertMessage /\ current \notin Rows
                            /\ message' = Append(message, current) /\ Rows' = Rows \cup {current}
<1>1. \A x : x \in Sent <=> \E i \in 1..Len(published) : published[i] = x
  BY DEF Sent
<1>2. ASSUME NEW m \in Messages, Publishes(m) PROVE m \in Sent' \ Sent
  <2>1. m \notin Sent
    BY <1>2 DEF Publishes, Sent
  <2>2. /\ Len(published') = Len(published) + 1 /\ Len(published) \in Nat
        /\ published'[Len(published) + 1] = m
    BY <1>2, SequencesTyped, AppendLast DEF Publishes
  <2>3. m \in Sent'
    BY <2>2 DEF Sent
  <2> QED
    BY <2>1, <2>3
<1>3. ToSet(queue)' \subseteq ToSet(queue) \cup (Sent' \ Sent)
  <2>1. CASE queue' = <<>>
    BY <2>1 DEF ToSet
  <2>2. CASE queue # <<>> /\ queue' = Tail(queue)
    BY <2>2, SequencesTyped, HeadTail
  <2>3. ASSUME NEW m \in Messages, Publishes(m), queue' = Append(queue, m)
        PROVE  ToSet(queue)' \subseteq ToSet(queue) \cup (Sent' \ Sent)
    BY <1>2, <2>3, SequencesTyped, AppendLast
  <2> QED
    BY <2>1, <2>2, <2>3, QueueSteps
<1>4. CASE UNCHANGED message
  BY <1>3, <1>4 DEF Rows
<1>5. CASE InsertMessage /\ current \notin Rows
  <2>1. message' = Append(message, current) /\ current \in Messages
    BY <1>5 DEF InsertMessage, Rows, TypeInv, ConsumerTyped
  <2>2. Rows' = Rows \cup {current}
    BY <2>1, SequencesTyped, AppendLast DEF Rows
  <2> QED
    BY <1>3, <1>5, <2>1, <2>2
<1>6. UNCHANGED message \/ (InsertMessage /\ current \notin Rows)
  BY DEF Next, PipelineNext, vars, stores, NewMessage, RequestStep, GetMembers, Publish,
         PublishRaced, PublishFails, ReplyAndNotify, StoreStep, Consume, IndexMessage, PutFile,
         InsertMessage, Ack, StoreFails, PutFileUnanswered, TransmitKilled, BrokerRestarts,
         MessageServiceKilled, Rows
<1> QED
  BY <1>4, <1>5, <1>6

-----------------------------------------------------------------------------
(* The history is in order, whatever fails: what is in the history was     *)
(* published before what is in hand, and that before the rest of the       *)
(* queue.                                                                  *)

QueueInOrder == \A i, j \in 1..Len(queue) : i < j => Before(queue[i], queue[j])
RowsInOrder == \A i, j \in 1..Len(message) : i < j => Before(message[i], message[j])
RowsFirst == \A m \in Rows : \A n \in ToSet(queue) : m = n \/ Before(m, n)
CurrentBetween ==
  step # "idle" =>
    /\ current \in Sent
    /\ \A m \in Rows : m = current \/ Before(m, current)
    /\ \A n \in ToSet(queue) : current = n \/ Before(current, n)
AllSent == Rows \subseteq Sent /\ ToSet(queue) \subseteq Sent

OrderInv == QueueInOrder /\ RowsInOrder /\ RowsFirst /\ CurrentBetween /\ AllSent

LEMMA StepOrder == TypeInv /\ PublishedOnce /\ OrderInv /\ [Next]_vars => OrderInv'
<1> SUFFICES ASSUME TypeInv, PublishedOnce, OrderInv, [Next]_vars PROVE OrderInv'
  OBVIOUS
<1>1. /\ Sent \subseteq Sent'
      /\ \A m, n : Before(m, n) => Before(m, n)'
      /\ \A m \in Sent : \A n \in Sent' \ Sent : Before(m, n)'
  BY OrderGrows
<1>2. /\ ToSet(queue)' \subseteq ToSet(queue) \cup (Sent' \ Sent)
      /\ Rows \subseteq Rows'
      /\ Rows' # Rows => /\ InsertMessage /\ current \notin Rows
                         /\ message' = Append(message, current) /\ Rows' = Rows \cup {current}
  BY SetSteps
<1>3. InsertMessage => step # "idle" /\ UNCHANGED <<queue, current, published>>
  BY DEF InsertMessage, Then
<1>4. Rows \subseteq Sent /\ ToSet(queue) \subseteq Sent /\ (step # "idle" => current \in Sent)
  BY DEF OrderInv, AllSent, CurrentBetween
<1>5. AllSent'
  BY <1>1, <1>2, <1>3, <1>4 DEF AllSent
<1>6. QueueInOrder'
  <2>1. CASE UNCHANGED queue
    BY <1>1, <2>1 DEF OrderInv, QueueInOrder
  <2>2. CASE queue' = <<>>
    BY <2>2 DEF QueueInOrder
  <2>3. CASE queue # <<>> /\ queue' = Tail(queue)
    <3>1. /\ Len(queue) \in Nat \ {0} /\ Len(queue') = Len(queue) - 1
          /\ \A i \in 1..Len(queue') : queue'[i] = queue[i + 1]
      BY <2>3, SequencesTyped, HeadTail
    <3>2. \A i, j \in 1..Len(queue') :
            i < j => i + 1 \in 1..Len(queue) /\ j + 1 \in 1..Len(queue) /\ i + 1 < j + 1
      BY <3>1
    <3> QED
      BY <1>1, <3>1, <3>2 DEF OrderInv, QueueInOrder
  <2>4. ASSUME NEW m \in Messages, Publishes(m), queue' = Append(queue, m) PROVE QueueInOrder'
    <3>1. /\ Len(queue') = Len(queue) + 1 /\ Len(queue) \in Nat
          /\ \A i \in 1..Len(queue) : queue'[i] = queue[i] /\ queue[i] \in ToSet(queue)
          /\ queue'[Len(queue) + 1] = m
      BY <2>4, SequencesTyped, AppendLast, InToSet
    <3>2. m \in Sent' \ Sent
      <4>1. m \notin Sent
        BY <2>4 DEF Publishes, Sent
      <4>2. /\ Len(published') = Len(published) + 1 /\ Len(published) \in Nat
            /\ published'[Len(published) + 1] = m
        BY <2>4, SequencesTyped, AppendLast DEF Publishes
      <4>3. m \in Sent'
        BY <4>2 DEF Sent
      <4> QED
        BY <4>1, <4>3
    <3>3. ASSUME NEW i \in 1..Len(queue'), NEW j \in 1..Len(queue'), i < j
          PROVE  Before(queue[i], queue[j])'
      <4>1. i \in 1..Len(queue) /\ (j \in 1..Len(queue) \/ j = Len(queue) + 1)
        BY <3>1, <3>3
      <4>2. CASE j \in 1..Len(queue)
        <5>1. Before(queue[i], queue[j])
          BY <3>3, <4>1, <4>2 DEF OrderInv, QueueInOrder
        <5> QED
          BY <1>1, <3>1, <4>1, <4>2, <5>1
      <4>3. CASE j = Len(queue) + 1
        <5>1. queue[i] \in Sent
          BY <1>4, <3>1, <4>1
        <5> QED
          BY <1>1, <3>1, <3>2, <4>1, <4>3, <5>1
      <4> QED
        BY <4>1, <4>2, <4>3
    <3> QED
      BY <3>3 DEF QueueInOrder
  <2> QED
    BY <2>1, <2>2, <2>3, <2>4, QueueSteps
<1>7. RowsInOrder'
  <2>1. CASE UNCHANGED message
    BY <1>1, <2>1 DEF OrderInv, RowsInOrder
  <2>2. CASE InsertMessage /\ current \notin Rows /\ message' = Append(message, current)
    <3>1. current \in Messages
      BY <1>3, <2>2 DEF TypeInv, ConsumerTyped
    <3>2. /\ Len(message') = Len(message) + 1 /\ Len(message) \in Nat
          /\ \A i \in 1..Len(message) : message'[i] = message[i] /\ message[i] \in Rows
          /\ message'[Len(message) + 1] = current
      BY <2>2, <3>1, SequencesTyped, AppendLast, InToSet DEF Rows
    <3>3. \A m \in Rows : Before(m, current)
      BY <1>3, <2>2 DEF OrderInv, CurrentBetween
    <3>4. ASSUME NEW i \in 1..Len(message'), NEW j \in 1..Len(message'), i < j
          PROVE  Before(message[i], message[j])'
      <4>1. i \in 1..Len(message) /\ (j \in 1..Len(message) \/ j = Len(message) + 1)
        BY <3>2, <3>4
      <4>2. Before(message[i], message'[j])
        BY <3>2, <3>3, <3>4, <4>1 DEF OrderInv, RowsInOrder
      <4> QED
        BY <1>1, <3>2, <4>1, <4>2
    <3> QED
      BY <3>4 DEF RowsInOrder
  <2>3. UNCHANGED message \/ (InsertMessage /\ current \notin Rows /\ message' = Append(message, current))
    BY StoreChanges DEF Next, PipelineNext, vars, stores, NewMessage, RequestStep, GetMembers,
         Publish, PublishRaced, PublishFails, ReplyAndNotify, StoreStep, Consume, IndexMessage,
         PutFile, InsertMessage, Ack, StoreFails, PutFileUnanswered, TransmitKilled,
         BrokerRestarts, MessageServiceKilled, Rows
  <2> QED
    BY <2>1, <2>2, <2>3
<1>8. RowsFirst'
  <2> SUFFICES ASSUME NEW m \in Rows', NEW n \in ToSet(queue)' PROVE m = n \/ Before(m, n)'
    BY DEF RowsFirst
  <2>1. CASE m \in Rows
    BY <1>1, <1>2, <1>4, <2>1 DEF OrderInv, RowsFirst
  <2>2. CASE m \notin Rows
    <3>1. InsertMessage /\ m = current
      BY <1>2, <2>2
    <3> QED
      BY <1>1, <1>3, <3>1 DEF OrderInv, CurrentBetween
  <2> QED
    BY <2>1, <2>2
<1>9. CurrentBetween'
  <2>1. CASE step' = "idle"
    BY <2>1 DEF CurrentBetween
  <2>2. CASE step # "idle" /\ UNCHANGED current
    <3>1. current \in Sent'
      BY <1>1, <1>4, <2>2
    <3>2. \A m \in Rows' : m = current \/ Before(m, current)'
      BY <1>1, <1>2, <2>2 DEF OrderInv, CurrentBetween
    <3>3. \A n \in ToSet(queue)' : current = n \/ Before(current, n)'
      BY <1>1, <1>2, <1>4, <2>2 DEF OrderInv, CurrentBetween
    <3> QED
      BY <2>2, <3>1, <3>2, <3>3 DEF CurrentBetween
  <2>3. CASE queue # <<>> /\ current' = Head(queue) /\ UNCHANGED <<queue, message, published>>
    <3>1. Head(queue) = queue[1] /\ Len(queue) \in Nat \ {0}
      BY <2>3, SequencesTyped, HeadTail
    <3>2. \A n \in ToSet(queue) : queue[1] = n \/ Before(queue[1], n)
      <4>1. \A n \in ToSet(queue) : \E i \in 1..Len(queue) : queue[i] = n
        BY SequencesTyped, InToSet
      <4>2. \A i \in 1..Len(queue) : 1 \in 1..Len(queue) /\ (i = 1 \/ 1 < i)
        BY <3>1
      <4> QED
        BY <4>1, <4>2 DEF OrderInv, QueueInOrder
    <3>3. queue[1] \in ToSet(queue)
      BY <3>1, SequencesTyped, InToSet
    <3>4. /\ queue[1] \in Sent
          /\ \A m \in Rows : m = queue[1] \/ Before(m, queue[1])
      BY <1>4, <3>3 DEF OrderInv, RowsFirst
    <3> QED
      BY <2>3, <3>1, <3>2, <3>4 DEF CurrentBetween, Sent, Before, Rows
  <2> QED
    BY <2>1, <2>2, <2>3, CurrentSteps
<1> QED
  BY <1>5, <1>6, <1>7, <1>8, <1>9 DEF OrderInv

LEMMA OrderInvHolds == Spec => [](TypeInv /\ PublishedOnce /\ OrderInv)
<1>1. Init => OrderInv
  <2>1. ToSet(<<>>) = {}
    BY DEF ToSet
  <2> QED
    BY <2>1 DEF Init, OrderInv, QueueInOrder, RowsInOrder, RowsFirst, CurrentBetween, AllSent, Rows
<1> QED
  BY <1>1, StepOrder, PublishedOnceHolds, PTL DEF Spec

(* However often messages are delivered again, lost or refused, the        *)
(* history shows them in the order of publication, and none twice.         *)
THEOREM HistoriesAreInOrder == Spec => []HistoryInOrder
<1>1. TypeInv /\ OrderInv => HistoryInOrder
  <2> SUFFICES ASSUME TypeInv, OrderInv PROVE HistoryInOrder
    OBVIOUS
  <2>1. DOMAIN message = 1..Len(message) /\ DOMAIN published = 1..Len(published)
    BY SequencesTyped
  <2>2. ASSUME NEW i \in DOMAIN message, NEW j \in DOMAIN message, i < j
        PROVE  \E k, l \in DOMAIN published :
                 k < l /\ published[k] = message[i] /\ published[l] = message[j]
    <3>1. Before(message[i], message[j])
      BY <2>1, <2>2 DEF OrderInv, RowsInOrder
    <3> QED
      BY <2>1, <3>1 DEF Before
  <2> QED
    BY <2>2 DEF HistoryInOrder
<1> QED
  BY <1>1, OrderInvHolds, PTL

-----------------------------------------------------------------------------
(* What was published is kept: it is in the queue until its row is written *)
(* or a store has failed on it, unless it is lost.                         *)

Kept(m) == m \in ToSet(queue) \/ m \in Rows \/ m \in refused \/ m \in lost

KeptInv ==
  /\ \A m \in Sent : Kept(m)
  /\ step = "ack" => current \in Rows \cup refused

(* Whoever was told of a message was told of one that was published.       *)
ToldInv ==
  /\ answered \subseteq Sent
  /\ \A m \in Messages : notified[m] # {} => m \in Sent
  /\ \A s \in Senders : pc[s] = "reply" => msg[s] \in Sent

LEMMA TroublesGrow ==
  ASSUME TypeInv, [Next]_vars
  PROVE  refused \subseteq refused' /\ lost \subseteq lost'
BY DEF Next, PipelineNext, vars, troubles, NewMessage, RequestStep, GetMembers, Publish,
       PublishRaced, PublishFails, ReplyAndNotify, StoreStep, Consume, IndexMessage, PutFile,
       InsertMessage, Ack, StoreFails, PutFileUnanswered, Then, TransmitKilled, BrokerRestarts,
       MessageServiceKilled, Fault, Drop, Kill

LEMMA StepKept == TypeInv /\ PublishedOnce /\ KeptInv /\ [Next]_vars => KeptInv'
<1> SUFFICES ASSUME TypeInv, PublishedOnce, KeptInv, [Next]_vars PROVE KeptInv'
  OBVIOUS
<1>1. refused \subseteq refused' /\ lost \subseteq lost' /\ Rows \subseteq Rows'
  BY TroublesGrow, SetSteps
<1>2. ASSUME NEW m \in ToSet(queue) PROVE Kept(m)'
  <2>1. CASE BrokerRestarts
    BY <2>1 DEF BrokerRestarts, Drop, Kept
  <2>2. CASE Ack /\ queue # <<>> /\ Head(queue) = current /\ queue' = Tail(queue)
    <3>1. m \in ToSet(queue') \/ m = current
      BY <2>2, SequencesTyped, HeadTail
    <3>2. current \in Rows \cup refused
      BY <2>2 DEF Ack, KeptInv
    <3> QED
      BY <1>1, <3>1, <3>2 DEF Kept
  <2>3. ASSUME NEW x \in Messages, queue' = Append(queue, x) PROVE Kept(m)'
    BY <2>3, SequencesTyped, AppendLast DEF Kept
  <2>4. CASE UNCHANGED queue
    BY <2>4 DEF Kept
  <2> QED
    BY <2>1, <2>2, <2>3, <2>4, QueueSteps
<1>3. ASSUME NEW m \in Sent PROVE Kept(m)'
  BY <1>1, <1>2 DEF KeptInv, Kept
<1>4. ASSUME NEW m \in Sent' \ Sent PROVE Kept(m)'
  <2>1. PICK s \in Senders : /\ Publish(s) \/ PublishRaced(s)
                             /\ msg[s] \in Messages /\ Publishes(msg[s])
    <3>1. ~UNCHANGED published
      BY <1>4 DEF Sent
    <3> QED
      BY <3>1, StepPublishes
  <2>2. m = msg[s]
    <3>1. \A i \in 1..Len(published') : published'[i] = msg[s] \/ published'[i] \in Sent
      <4>1. /\ Len(published') = Len(published) + 1 /\ Len(published) \in Nat
            /\ \A i \in 1..Len(published) : published'[i] = published[i]
            /\ published'[Len(published) + 1] = msg[s]
        BY <2>1, SequencesTyped, AppendLast DEF Publishes
      <4>2. \A i \in 1..Len(published') : i \in 1..Len(published) \/ i = Len(published) + 1
        BY <4>1
      <4> QED
        BY <4>1, <4>2 DEF Sent
    <3> QED
      BY <1>4, <3>1 DEF Sent
  <2>3. CASE Publish(s)
    BY <2>1, <2>2, <2>3, SequencesTyped, AppendLast DEF Publish, Kept
  <2>4. CASE PublishRaced(s)
    BY <2>2, <2>4 DEF PublishRaced, Drop, Kept
  <2> QED
    BY <2>1, <2>3, <2>4
<1>5. step' = "ack" => current' \in Rows' \cup refused'
  <2>1. CASE InsertMessage
    <3>1. current \in Messages /\ UNCHANGED current
      BY <2>1 DEF InsertMessage, Then, TypeInv, ConsumerTyped
    <3>2. CASE current \in Rows
      BY <1>1, <3>1, <3>2
    <3>3. CASE current \notin Rows
      <4>1. message' = Append(message, current)
        BY <2>1, <3>3 DEF InsertMessage, Rows
      <4>2. current \in ToSet(message')
        BY <3>1, <4>1, SequencesTyped, AppendLast
      <4> QED
        BY <3>1, <4>2 DEF Rows
    <3> QED
      BY <3>2, <3>3
  <2>2. CASE StoreFails \/ PutFileUnanswered
    BY <2>2 DEF StoreFails, PutFileUnanswered, Fault, Then
  <2>3. CASE UNCHANGED <<step, current>>
    BY <1>1, <2>3 DEF KeptInv
  <2>4. \/ InsertMessage \/ StoreFails \/ PutFileUnanswered \/ UNCHANGED <<step, current>>
        \/ step' # "ack"
    BY DEF Next, PipelineNext, vars, consumer, NewMessage, RequestStep, GetMembers, Publish,
           PublishRaced, PublishFails, ReplyAndNotify, StoreStep, Consume, IndexMessage, PutFile,
           Ack, Then, TransmitKilled, BrokerRestarts, MessageServiceKilled
  <2> QED
    BY <2>1, <2>2, <2>3, <2>4
<1> QED
  BY <1>3, <1>4, <1>5 DEF KeptInv

LEMMA StepTold == TypeInv /\ PublishedOnce /\ ToldInv /\ [Next]_vars => ToldInv'
<1> SUFFICES ASSUME TypeInv, PublishedOnce, ToldInv, [Next]_vars PROVE ToldInv'
  OBVIOUS
<1>1. Sent \subseteq Sent'
  BY OrderGrows
<1>2. answered' \subseteq Sent' /\ \A m \in Messages : notified'[m] # {} => m \in Sent'
  <2>1. ASSUME NEW s \in Senders, ReplyAndNotify(s)
        PROVE  answered' \subseteq Sent' /\ \A m \in Messages : notified'[m] # {} => m \in Sent'
    <3>1. /\ msg[s] \in Sent /\ answered' = answered \cup {msg[s]}
          /\ notified' = [notified EXCEPT ![msg[s]] = targets[s] \ {s}]
      BY <2>1 DEF ReplyAndNotify, ToldInv
    <3> QED
      BY <1>1, <3>1 DEF ToldInv, TypeInv, ResultsTyped
  <2>2. CASE UNCHANGED results
    BY <1>1, <2>2 DEF ToldInv, results
  <2>3. UNCHANGED results \/ \E s \in Senders : ReplyAndNotify(s)
    BY DEF Next, PipelineNext, vars, NewMessage, RequestStep, GetMembers, Publish, PublishRaced,
           PublishFails, StoreStep, Consume, IndexMessage, PutFile, InsertMessage, Ack,
           StoreFails, PutFileUnanswered, Then, TransmitKilled, BrokerRestarts,
           MessageServiceKilled
  <2> QED
    BY <2>1, <2>2, <2>3
<1>3. ASSUME NEW s \in Senders, pc'[s] = "reply" PROVE msg'[s] \in Sent'
  <2>1. CASE pc[s] = "reply" /\ msg'[s] = msg[s]
    BY <1>1, <2>1 DEF ToldInv
  <2>2. CASE Publish(s) \/ PublishRaced(s)
    <3>1. published' = Append(published, msg[s]) /\ msg[s] \in Messages /\ UNCHANGED msg
      BY <2>2 DEF Publish, PublishRaced, GiveAway, TypeInv, RequestsTyped
    <3>2. /\ Len(published') = Len(published) + 1 /\ Len(published) \in Nat
          /\ published'[Len(published) + 1] = msg[s]
      BY <3>1, SequencesTyped, AppendLast
    <3> QED
      BY <3>1, <3>2 DEF Sent
  <2>3. (pc[s] = "reply" /\ msg'[s] = msg[s]) \/ Publish(s) \/ PublishRaced(s)
    BY <1>3 DEF Next, PipelineNext, vars, requests, NewMessage, RequestStep, GetMembers, Publish,
                PublishRaced, PublishFails, GiveAway, ReplyAndNotify, Return, StoreStep, Consume,
                IndexMessage, PutFile, InsertMessage, Ack, StoreFails, PutFileUnanswered, Then,
                TransmitKilled, BrokerRestarts, MessageServiceKilled, TypeInv, RequestsTyped
  <2> QED
    BY <2>1, <2>2, <2>3
<1> QED
  BY <1>2, <1>3 DEF ToldInv

LEMMA KeptInvHolds == Spec => [](KeptInv /\ ToldInv)
<1>1. Init => KeptInv /\ ToldInv
  BY DEF Init, KeptInv, ToldInv, Sent
<1> QED
  BY <1>1, StepKept, StepTold, PublishedOnceHolds, PTL DEF Spec

(* What a sender was told has been sent, or a member was told of, is in    *)
(* the queue or in the history, whatever was killed and whatever happened  *)
(* to other messages, unless a store failed on it or it was lost.          *)
THEOREM ToldAreKept == Spec => []ToldIsKept
<1>1. KeptInv /\ ToldInv => ToldIsKept
  BY DEF KeptInv, ToldInv, ToldIsKept, Kept
<1> QED
  BY <1>1, KeptInvHolds, PTL

-----------------------------------------------------------------------------
(* The pipeline as a log.  The queue is the end of what was published, the *)
(* history its beginning; they meet, or overlap in the one message whose   *)
(* row is written and which is not acknowledged.                           *)

Taken == Len(published) - Len(queue)

QueueIsEnd ==
  /\ Len(queue) <= Len(published)
  /\ \A j \in 1..Len(queue) : queue[j] = published[Taken + j]

HistoryIsBeginning ==
  /\ Len(message) <= Len(published)
  /\ \A i \in 1..Len(message) : message[i] = published[i]
  /\ Len(message) = Taken \/ Len(message) = Taken + 1

CurrentIsNext ==
  /\ step # "idle" => queue # <<>> /\ current = queue[1]
  /\ step = "ack" => Len(message) = Taken + 1

LogInv == QueueIsEnd /\ HistoryIsBeginning /\ CurrentIsNext

(* Without a failing store and without a loss, a step is none of those.    *)
LEMMA UntroubledStep ==
  ASSUME TypeInv, [Next]_vars, faults' = 0, drops' = 0
  PROVE  /\ faults = 0 /\ drops = 0 /\ ~StoreFails /\ ~PutFileUnanswered /\ ~BrokerRestarts
         /\ \A s \in Senders : ~PublishRaced(s) /\ ~PublishFails(s)
<1>1. faults \in Nat /\ drops \in Nat
  BY DEF TypeInv, TroublesTyped
<1>2. \A x : ~Fault(x) /\ ~Drop(x)
  BY <1>1 DEF Fault, Drop
<1>3. /\ ~StoreFails /\ ~PutFileUnanswered /\ ~BrokerRestarts
      /\ \A s \in Senders : ~PublishRaced(s) /\ ~PublishFails(s)
  BY <1>2 DEF StoreFails, PutFileUnanswered, BrokerRestarts, PublishRaced, PublishFails
<1>4. UNCHANGED <<faults, drops>>
  BY <1>2, <1>3 DEF Next, PipelineNext, vars, troubles, NewMessage, RequestStep, GetMembers,
                    Publish, ReplyAndNotify, StoreStep, Consume, IndexMessage, PutFile,
                    InsertMessage, Ack, Then, TransmitKilled, MessageServiceKilled, Kill
<1> QED
  BY <1>2, <1>3, <1>4

LEMMA PublishLog ==
  ASSUME TypeInv, PublishedOnce, LogInv, NEW s \in Senders, Publish(s)
  PROVE  LogInv' /\ Log!Accept(msg[s])
<1> DEFINE m == msg[s]
<1>1. /\ m \in Messages /\ m # NoMessage
      /\ published' = Append(published, m) /\ queue' = Append(queue, m)
      /\ pc' = [pc EXCEPT ![s] = "reply"]
      /\ UNCHANGED <<msg, message, step, current>>
  BY PipelineAssumption
    DEF Publish, GiveAway, TypeInv, RequestsTyped, consumer, stores
<1>2. /\ Len(published') = Len(published) + 1 /\ Len(queue') = Len(queue) + 1
      /\ \A i \in 1..Len(published) : published'[i] = published[i]
      /\ \A j \in 1..Len(queue) : queue'[j] = queue[j]
      /\ published'[Len(published) + 1] = m /\ queue'[Len(queue) + 1] = m
  BY <1>1, SequencesTyped, AppendLast
<1>3. \A i \in 1..Len(published) : published[i] # m
  BY DEF PublishedOnce, Publish
<1>5. Taken' = Taken
  BY <1>2, SequencesTyped DEF Taken
<1>6. QueueIsEnd'
  <2>1. Taken \in Nat /\ Taken + Len(queue) = Len(published)
    BY SequencesTyped DEF LogInv, QueueIsEnd, Taken
  <2>2. ASSUME NEW j \in 1..Len(queue') PROVE queue'[j] = published'[Taken + j]
    <3>1. CASE j \in 1..Len(queue)
      <4>1. Taken + j \in 1..Len(published)
        BY <2>1, <3>1, SequencesTyped
      <4> QED
        BY <1>2, <3>1, <4>1 DEF LogInv, QueueIsEnd
    <3>2. CASE j = Len(queue) + 1
      <4>1. Taken + j = Len(published) + 1
        BY <2>1, <3>2, SequencesTyped
      <4> QED
        BY <1>2, <3>2, <4>1
    <3> QED
      BY <1>2, <2>2, <3>1, <3>2, SequencesTyped
  <2>3. Len(queue') <= Len(published')
    BY <1>2, SequencesTyped DEF LogInv, QueueIsEnd
  <2> QED
    BY <1>5, <2>2, <2>3 DEF QueueIsEnd
<1>7. HistoryIsBeginning'
  <2>1. \A i \in 1..Len(message) : i \in 1..Len(published)
    BY SequencesTyped DEF LogInv, HistoryIsBeginning
  <2>2. \A i \in 1..Len(message) : message[i] = published'[i]
    BY <1>2, <2>1 DEF LogInv, HistoryIsBeginning
  <2>3. Len(message) <= Len(published')
    BY <1>2, SequencesTyped DEF LogInv, HistoryIsBeginning
  <2> QED
    BY <1>1, <1>5, <2>2, <2>3 DEF LogInv, HistoryIsBeginning
<1>8. CurrentIsNext'
  <2>1. step # "idle" => 1 \in 1..Len(queue) /\ current = queue[1]
    BY SequencesTyped DEF LogInv, CurrentIsNext
  <2>2. Len(queue') # 0 /\ queue' # <<>>
    BY <1>1, <1>2, SequencesTyped
  <2> QED
    BY <1>1, <1>2, <1>5, <2>1, <2>2 DEF LogInv, CurrentIsNext
<1>9. Log!Accept(m)
  BY <1>1, <1>3 DEF Log!Accept
<1> QED
  BY <1>6, <1>7, <1>8, <1>9 DEF LogInv

LEMMA InsertLog ==
  ASSUME TypeInv, PublishedOnce, LogInv, InsertMessage
  PROVE  LogInv' /\ (Log!Store \/ UNCHANGED Log!vars)
<1>1. /\ current \in Messages /\ step = "insert" /\ step' = "ack"
      /\ UNCHANGED <<pc, msg, published, queue, current>>
  BY DEF InsertMessage, Then, TypeInv, ConsumerTyped, requests
<1>2. Len(queue) \in Nat \ {0} /\ current = published[Taken + 1]
  BY <1>1, SequencesTyped DEF LogInv, CurrentIsNext, QueueIsEnd
<1>3. Taken \in Nat /\ Taken + 1 \in 1..Len(published) /\ Taken' = Taken
  BY <1>1, <1>2, SequencesTyped DEF LogInv, QueueIsEnd, Taken
<1>4. QueueIsEnd'
  BY <1>1, <1>3 DEF LogInv, QueueIsEnd
<1>5. CASE current \in ToSet(message)
  <2>1. UNCHANGED message
    BY <1>5 DEF InsertMessage
  <2>2. PICK i \in 1..Len(message) : message[i] = current
    BY <1>5, SequencesTyped, InToSet
  <2>3. i = Taken + 1
    BY <1>2, <1>3, <2>2, SequencesTyped DEF LogInv, PublishedOnce, HistoryIsBeginning
  <2>4. Len(message) = Taken + 1
    BY <1>3, <2>2, <2>3, SequencesTyped DEF LogInv, HistoryIsBeginning
  <2>5. HistoryIsBeginning' /\ CurrentIsNext'
    BY <1>1, <1>3, <2>1, <2>4 DEF LogInv, HistoryIsBeginning, CurrentIsNext
  <2> QED
    BY <1>1, <1>4, <2>1, <2>5 DEF LogInv, Log!vars
<1>6. CASE current \notin ToSet(message)
  <2>1. message' = Append(message, current)
    BY <1>6 DEF InsertMessage
  <2>2. /\ Len(message') = Len(message) + 1 /\ message'[Len(message) + 1] = current
        /\ \A i \in 1..Len(message) : message'[i] = message[i]
    BY <1>1, <2>1, SequencesTyped, AppendLast
  <2>3. Len(message) = Taken
    <3>1. CASE Len(message) = Taken + 1
      <4>1. message[Taken + 1] = current
        BY <1>2, <1>3, <3>1, SequencesTyped DEF LogInv, HistoryIsBeginning
      <4> QED
        BY <1>3, <1>6, <3>1, <4>1, SequencesTyped, InToSet
    <3> QED
      BY <3>1 DEF LogInv, HistoryIsBeginning
  <2>4. HistoryIsBeginning' /\ CurrentIsNext'
    BY <1>1, <1>2, <1>3, <2>2, <2>3, SequencesTyped DEF LogInv, HistoryIsBeginning, CurrentIsNext
  <2>5. Log!Store
    BY <1>1, <1>2, <1>3, <2>1, <2>3, SequencesTyped DEF Log!Store
  <2> QED
    BY <1>4, <2>4, <2>5 DEF LogInv
<1> QED
  BY <1>5, <1>6

LEMMA AckLog ==
  ASSUME TypeInv, PublishedOnce, LogInv, Ack
  PROVE  LogInv' /\ UNCHANGED Log!vars
<1>1. /\ step = "ack" /\ queue # <<>> /\ current = queue[1] /\ Len(message) = Taken + 1
      /\ UNCHANGED <<pc, msg, published, message>> /\ step' = "idle"
  BY DEF Ack, LogInv, CurrentIsNext, requests, stores
<1>2. queue' = Tail(queue)
  BY <1>1, SequencesTyped, HeadTail DEF Ack
<1>3. /\ Len(queue') = Len(queue) - 1 /\ Len(queue) \in Nat \ {0}
      /\ \A j \in 1..Len(queue') : queue'[j] = queue[j + 1]
  BY <1>1, <1>2, SequencesTyped, HeadTail
<1>4. Taken' = Taken + 1
  BY <1>1, <1>3, SequencesTyped DEF Taken
<1>5. QueueIsEnd'
  BY <1>1, <1>3, <1>4, SequencesTyped DEF LogInv, QueueIsEnd, Taken
<1>6. HistoryIsBeginning' /\ CurrentIsNext'
  BY <1>1, <1>4 DEF LogInv, HistoryIsBeginning, CurrentIsNext
<1> QED
  BY <1>1, <1>5, <1>6 DEF LogInv, Log!vars

(* The other steps leave the three sequences alone. *)
LEMMA QuietLog ==
  ASSUME TypeInv, LogInv, UNCHANGED <<published, queue, message>>, CurrentIsNext'
  PROVE  LogInv' /\ UNCHANGED Log!vars
BY DEF LogInv, QueueIsEnd, HistoryIsBeginning, Taken, Log!vars

LEMMA RequestLog ==
  ASSUME TypeInv, PublishedOnce, LogInv, NEW s \in Senders,
         NewMessage(s) \/ GetMembers(s) \/ ReplyAndNotify(s)
  PROVE  LogInv' /\ UNCHANGED Log!vars
<1>1. UNCHANGED <<published, queue, message, step, current>>
  BY DEF NewMessage, GetMembers, ReplyAndNotify, consumer, stores
<1>2. CurrentIsNext'
  BY <1>1 DEF LogInv, CurrentIsNext, Taken
<1> QED
  BY <1>1, <1>2, QuietLog

LEMMA ConsumerLog ==
  ASSUME TypeInv, PublishedOnce, LogInv, Consume \/ IndexMessage \/ PutFile \/ MessageServiceKilled
  PROVE  LogInv' /\ UNCHANGED Log!vars
<1>1. UNCHANGED <<published, queue, message>>
  BY DEF Consume, IndexMessage, PutFile, MessageServiceKilled, Then, stores
<1>2. CurrentIsNext'
  <2>1. queue # <<>> => Head(queue) = queue[1]
    BY SequencesTyped, HeadTail
  <2> QED
    BY <1>1, <2>1 DEF LogInv, CurrentIsNext, Taken, Consume, IndexMessage, PutFile,
                      MessageServiceKilled, Then
<1> QED
  BY <1>1, <1>2, QuietLog

LEMMA TransmitKilledLog ==
  ASSUME TypeInv, PublishedOnce, LogInv, TransmitKilled
  PROVE  LogInv' /\ UNCHANGED Log!vars
<1>1. UNCHANGED <<published, queue, message, step, current>>
  BY DEF TransmitKilled, consumer, stores
<1>2. CurrentIsNext'
  BY <1>1 DEF LogInv, CurrentIsNext, Taken
<1> QED
  BY <1>1, <1>2, QuietLog

LEMMA StepLog ==
  ASSUME TypeInv, PublishedOnce, LogInv, [Next]_vars, faults' = 0, drops' = 0
  PROVE  LogInv' /\ [Log!Next]_(Log!vars)
<1>1. ASSUME NEW s \in Senders, Publish(s) PROVE LogInv' /\ Log!Next
  <2>1. msg[s] \in Messages
    BY <1>1 DEF Publish, TypeInv, RequestsTyped
  <2> QED
    BY <1>1, <2>1, PublishLog DEF Log!Next
<1>2. ASSUME InsertMessage PROVE LogInv' /\ [Log!Next]_(Log!vars)
  BY <1>2, InsertLog DEF Log!Next
<1>3. CASE UNCHANGED vars
  <2>1. UNCHANGED <<published, queue, message, step, current>>
    BY <1>3 DEF vars, consumer, stores
  <2>2. CurrentIsNext'
    BY <2>1 DEF LogInv, CurrentIsNext, Taken
  <2> QED
    BY <2>1, <2>2, QuietLog
<1> QED
  BY <1>1, <1>2, <1>3, UntroubledStep, RequestLog, ConsumerLog, TransmitKilledLog, AckLog
    DEF Next, PipelineNext, RequestStep, StoreStep

CalmLogInv == (faults = 0 /\ drops = 0) => LogInv

LEMMA CalmLogInvHolds == Spec => []CalmLogInv
<1>1. Init => CalmLogInv
  BY DEF Init, CalmLogInv, LogInv, QueueIsEnd, HistoryIsBeginning,
         CurrentIsNext, Taken
<1>2. TypeInv /\ PublishedOnce /\ CalmLogInv /\ [Next]_vars => CalmLogInv'
  BY StepLog, UntroubledStep DEF CalmLogInv
<1> QED
  BY <1>1, <1>2, PublishedOnceHolds, PTL DEF Spec

NoTrouble == MaxFaults = 0 /\ MaxDrops = 0
Untroubled == faults = 0 /\ drops = 0

LEMMA StepUntroubled ==
  ASSUME NoTrouble, Untroubled, [Next]_vars
  PROVE  Untroubled'
<1>1. \A x : ~Fault(x) /\ ~Drop(x)
  BY DEF NoTrouble, Untroubled, Fault, Drop
<1> QED
  BY <1>1 DEF Untroubled, Next, PipelineNext, vars, troubles, NewMessage, RequestStep, GetMembers,
              Publish, PublishRaced, PublishFails, ReplyAndNotify, StoreStep, Consume,
              IndexMessage, PutFile, InsertMessage, Ack, StoreFails, PutFileUnanswered, Then,
              TransmitKilled, BrokerRestarts, MessageServiceKilled, Kill

(* Without failing stores and losses, and with kills of both services at   *)
(* any point, the pipeline takes the steps of the log of ChatLog only:     *)
(* every message is accepted once, and the history shows messages in the   *)
(* order of their acceptance, none twice and none left out.                *)
THEOREM StepsAreOfChatLog ==
  ASSUME NoTrouble
  PROVE  Spec => Log!Init /\ [][Log!Next]_(Log!vars)
<1>1. Init => Untroubled /\ Log!Init
  BY DEF Init, Untroubled, Log!Init
<1>2. Untroubled /\ [Next]_vars => Untroubled'
  BY StepUntroubled
<1>3. TypeInv /\ PublishedOnce /\ CalmLogInv /\ Untroubled /\ Untroubled' /\ [Next]_vars => [Log!Next]_(Log!vars)
  BY StepLog DEF CalmLogInv, Untroubled
<1> QED
  BY <1>1, <1>2, <1>3, CalmLogInvHolds, PublishedOnceHolds, PTL DEF Spec
=============================================================================
