-------------------------- MODULE MessagePipeline --------------------------
(***************************************************************************)
(* A chat message from the sender's request to the stores: NewMessage in   *)
(* the gateway (server/gateway/source/gateway_server.hpp), which calls     *)
(* GetTransmitTarget of the transmit service                               *)
(* (server/transmit/source/transmit_server.hpp), whose publish() hands the *)
(* message to RabbitMQ (server/common/rabbitmq.hpp), and onMessage of the  *)
(* message service (server/message/source/message_server.hpp), which       *)
(* writes it to elasticsearch or the file service, and to MySQL.           *)
(*                                                                         *)
(* Requests run in threads of their own; the message service takes the     *)
(* messages of the queue one at a time in its event loop and acknowledges  *)
(* each one after onMessage has returned, whatever onMessage did.          *)
(***************************************************************************)
EXTENDS Integers, SequencesExt

CONSTANTS
  Senders,       \* users that send; a user waits for the answer
  Members,       \* the members of the chat session
  Messages,      \* the uuids that name messages
  Texts,         \* those that are text; the others are image, file or speech
  NoMessage,
  MaxFaults,     \* bound: calls to a store or a table that fail
  MaxDrops,      \* bound: losses by the broker, or by a race in publish()
  MaxKills       \* bound: kills of the transmit or the message service

ASSUME PipelineAssumption ==
  /\ Texts \subseteq Messages
  /\ NoMessage \notin Messages
  /\ MaxFaults \in Nat /\ MaxDrops \in Nat /\ MaxKills \in Nat

VARIABLES
  pc, msg, targets,   \* GetTransmitTarget for a sender: step, message, list
  queue,              \* RabbitMQ: the messages not yet acknowledged
  current, step,      \* onMessage: its message, the next call of a store
  file,               \* its file_id: the number of the file, 0 for none
  es,                 \* elasticsearch: the texts that can be searched
  files,              \* file service: how many files were put for a message
  message,            \* MySQL: the messages, by their automatic id
  file_id,            \* MySQL: the file a message's row names
  answered,           \* messages whose sender got success
  notified,           \* who was sent a notification of a message
  published,          \* messages in the order publish() gave them away
  refused, lost,      \* messages a store failed on, messages that got lost
  faults, drops, kills

requests == <<pc, msg, targets>>
consumer == <<current, step, file>>
stores == <<es, files, message, file_id>>
results == <<answered, notified>>
troubles == <<refused, lost, faults, drops, kills>>
vars == <<requests, queue, consumer, stores, results, published, troubles>>

RequestSteps == {"idle", "members", "publish", "reply"}
StoreSteps == {"idle", "index", "put_file", "insert", "ack"}

TypeOK ==
  /\ pc \in [Senders -> RequestSteps]
  /\ msg \in [Senders -> Messages \cup {NoMessage}]
  /\ targets \in [Senders -> SUBSET Members]
  /\ queue \in Seq(Messages)
  /\ current \in Messages \cup {NoMessage}
  /\ step \in StoreSteps
  /\ step = "idle" <=> current = NoMessage
  /\ file \in Nat
  /\ es \in SUBSET Texts
  /\ files \in [Messages -> Nat]
  /\ message \in Seq(Messages)
  /\ file_id \in [Messages -> Nat]
  /\ answered \in SUBSET Messages
  /\ notified \in [Messages -> SUBSET Members]
  /\ published \in Seq(Messages)
  /\ refused \in SUBSET Messages /\ lost \in SUBSET Messages
  /\ faults \in Nat /\ drops \in Nat /\ kills \in Nat

Init ==
  /\ pc = [s \in Senders |-> "idle"]
  /\ msg = [s \in Senders |-> NoMessage]
  /\ targets = [s \in Senders |-> {}]
  /\ queue = <<>> /\ current = NoMessage /\ step = "idle" /\ file = 0
  /\ es = {} /\ files = [m \in Messages |-> 0]
  /\ message = <<>> /\ file_id = [m \in Messages |-> 0]
  /\ answered = {} /\ notified = [m \in Messages |-> {}]
  /\ published = <<>>
  /\ refused = {} /\ lost = {} /\ faults = 0 /\ drops = 0 /\ kills = 0

(* A call fails, for good for these messages. *)
Fault(messages) ==
  /\ faults < MaxFaults
  /\ faults' = faults + 1
  /\ refused' = refused \cup messages
  /\ UNCHANGED <<lost, drops, kills>>

(* These messages never arrive. *)
Drop(messages) ==
  /\ drops < MaxDrops
  /\ drops' = drops + 1
  /\ lost' = lost \cup messages
  /\ UNCHANGED <<refused, faults, kills>>

Kill ==
  /\ kills < MaxKills
  /\ kills' = kills + 1
  /\ UNCHANGED <<refused, lost, faults, drops>>

-----------------------------------------------------------------------------
(* NewMessage and GetTransmitTarget. *)

Named(m) == m \in ToSet(published) \/ \E s \in Senders : msg[s] = m

Return(s) ==
  /\ pc' = [pc EXCEPT ![s] = "idle"]
  /\ msg' = [msg EXCEPT ![s] = NoMessage]
  /\ targets' = [targets EXCEPT ![s] = {}]

(* The user service knows the sender: otherwise an error is the answer.    *)
(* The message gets its id and its time.                                   *)
NewMessage(s) ==
  /\ pc[s] = "idle"
  /\ \E m \in Messages : ~Named(m) /\ msg' = [msg EXCEPT ![s] = m]
  /\ pc' = [pc EXCEPT ![s] = "members"]
  /\ UNCHANGED <<targets, queue, consumer, stores, results, published, troubles>>

(* members() gives nobody when its query throws. *)
GetMembers(s) ==
  /\ pc[s] = "members"
  /\ pc' = [pc EXCEPT ![s] = "publish"]
  /\ \/ targets' = [targets EXCEPT ![s] = Members] /\ UNCHANGED troubles
     \/ targets' = [targets EXCEPT ![s] = {}] /\ Fault({})
  /\ UNCHANGED <<msg, queue, consumer, stores, results, published>>

GiveAway(s) ==
  /\ pc' = [pc EXCEPT ![s] = "reply"]
  /\ published' = Append(published, msg[s])

(* A bug: the answer is given and the message is not handed over. *)
ReplyUnpublished(s) ==
  /\ pc[s] = "publish"
  /\ answered' = answered \cup {msg[s]}
  /\ notified' = [notified EXCEPT ![msg[s]] = targets[s] \ {s}]
  /\ Return(s)
  /\ UNCHANGED <<queue, consumer, stores, published, troubles>>

(* publish() puts the message on the channel, and asks for no confirmation. *)
Publish(s) ==
  /\ pc[s] = "publish"
  /\ GiveAway(s)
  /\ queue' = Append(queue, msg[s])
  /\ UNCHANGED <<msg, targets, consumer, stores, results, troubles>>

(* The channel is shared by the request threads and the loop thread without *)
(* a lock: when two handlers publish, the message of one may be ruined.     *)
PublishRaced(s) ==
  /\ pc[s] = "publish"
  /\ \E t \in Senders \ {s} : pc[t] = "publish"
  /\ GiveAway(s)
  /\ Drop({msg[s]})
  /\ UNCHANGED <<msg, targets, queue, consumer, stores, results>>

(* publish() returns false. *)
PublishFails(s) ==
  /\ pc[s] = "publish"
  /\ Fault({})
  /\ Return(s)
  /\ UNCHANGED <<queue, consumer, stores, results, published>>

(* Success: the gateway notifies the other members and answers the sender. *)
ReplyAndNotify(s) ==
  /\ pc[s] = "reply"
  /\ answered' = answered \cup {msg[s]}
  /\ notified' = [notified EXCEPT ![msg[s]] = targets[s] \ {s}]
  /\ Return(s)
  /\ UNCHANGED <<queue, consumer, stores, published, troubles>>

-----------------------------------------------------------------------------
(* The event loop of the message service. *)

(* A bug: every message is taken for a text. *)
ConsumeAsText ==
  /\ step = "idle" /\ queue # <<>>
  /\ current' = Head(queue)
  /\ step' = "index"
  /\ UNCHANGED <<requests, queue, file, stores, results, published, troubles>>

(* A bug: the broker is told to forget the message when it delivers it. *)
ConsumeNoAck ==
  /\ step = "idle" /\ queue # <<>>
  /\ current' = Head(queue)
  /\ queue' = Tail(queue)
  /\ step' = IF Head(queue) \in Texts THEN "index" ELSE "put_file"
  /\ UNCHANGED <<requests, file, stores, results, published, troubles>>

(* A message is delivered, and onMessage looks at its type. *)
Consume ==
  /\ step = "idle" /\ queue # <<>>
  /\ current' = Head(queue)
  /\ step' = IF Head(queue) \in Texts THEN "index" ELSE "put_file"
  /\ UNCHANGED <<requests, queue, file, stores, results, published, troubles>>

Then(next) ==
  /\ step' = next
  /\ UNCHANGED <<requests, queue, current, results, published>>

(* The document's id is the message's, so a second one replaces the first. *)
IndexMessage ==
  /\ step = "index"
  /\ es' = es \cup {current}
  /\ Then("insert")
  /\ UNCHANGED <<file, files, message, file_id, troubles>>

(* Every call of _PutFile makes a file of its own. *)
PutFile ==
  /\ step = "put_file"
  /\ files' = [files EXCEPT ![current] = @ + 1]
  /\ file' = files[current] + 1
  /\ Then("insert")
  /\ UNCHANGED <<es, message, file_id, troubles>>

(* A bug: the row is written again when the message comes again. *)
InsertAgain ==
  /\ step = "insert"
  /\ message' = Append(message, current)
  /\ file_id' = [file_id EXCEPT ![current] = file]
  /\ Then("ack")
  /\ UNCHANGED <<file, es, files, troubles>>

(* message_id is unique: a row that exists already stays as it is.  Either *)
(* way onMessage returns next.                                             *)
InsertMessage ==
  /\ step = "insert"
  /\ IF current \in ToSet(message)
     THEN UNCHANGED <<message, file_id>>
     ELSE /\ message' = Append(message, current)
          /\ file_id' = [file_id EXCEPT ![current] = file]
  /\ Then("ack")
  /\ UNCHANGED <<file, es, files, troubles>>

(* ack() after the callback, even after one that returned with an error.   *)
(* A broker that has restarted meanwhile does not know the delivery.       *)
Ack ==
  /\ step = "ack"
  /\ queue' = IF queue # <<>> /\ Head(queue) = current THEN Tail(queue) ELSE queue
  /\ current' = NoMessage /\ step' = "idle" /\ file' = 0
  /\ UNCHANGED <<requests, stores, results, published, troubles>>

(* A bug: what the store answers is not looked at. *)
StoreFailureIgnored ==
  /\ step \in {"index", "put_file", "insert"}
  /\ Fault({current})
  /\ Then(IF step = "insert" THEN "ack" ELSE "insert")
  /\ UNCHANGED <<file, stores>>

(* The store refuses, and onMessage returns. *)
StoreFails ==
  /\ step \in {"index", "put_file", "insert"}
  /\ Fault({current})
  /\ Then("ack")
  /\ UNCHANGED <<file, stores>>

(* The file was stored, but its answer did not arrive. *)
PutFileUnanswered ==
  /\ step = "put_file"
  /\ Fault({current})
  /\ files' = [files EXCEPT ![current] = @ + 1]
  /\ Then("ack")
  /\ UNCHANGED <<file, es, message, file_id>>

-----------------------------------------------------------------------------
(* Failures of processes. *)

(* The answers of the requests in hand are lost. *)
TransmitKilled ==
  /\ \E s \in Senders : pc[s] # "idle"
  /\ Kill
  /\ pc' = [s \in Senders |-> "idle"]
  /\ msg' = [s \in Senders |-> NoMessage]
  /\ targets' = [s \in Senders |-> {}]
  /\ UNCHANGED <<queue, consumer, stores, results, published>>

(* What was not acknowledged is delivered again after the restart. *)
MessageServiceKilled ==
  /\ step # "idle"
  /\ Kill
  /\ current' = NoMessage /\ step' = "idle" /\ file' = 0
  /\ UNCHANGED <<requests, queue, stores, results, published>>

(* The queue is not durable: the broker restarts without it, and the two   *)
(* services are connected to the new one.                                  *)
BrokerRestarts ==
  /\ queue # <<>>
  /\ Drop(ToSet(queue))
  /\ queue' = <<>>
  /\ UNCHANGED <<requests, consumer, stores, results, published>>

-----------------------------------------------------------------------------

RequestStep(s) ==
  GetMembers(s) \/ Publish(s) \/ PublishRaced(s) \/ PublishFails(s) \/ ReplyAndNotify(s)

StoreStep == Consume \/ IndexMessage \/ PutFile \/ InsertMessage \/ Ack

(* Everything but a kill of the message service, which ends its other      *)
(* handlers too: see MessageReading.                                       *)
PipelineNext ==
  \/ \E s \in Senders : NewMessage(s) \/ RequestStep(s)
  \/ StoreStep \/ StoreFails \/ PutFileUnanswered
  \/ TransmitKilled \/ BrokerRestarts

Next == PipelineNext \/ MessageServiceKilled

Spec == Init /\ [][Next]_vars

-----------------------------------------------------------------------------
(* Properties. *)

Rows == ToSet(message)

(* onMessage indexes a text, or puts a file, before it writes the row: a   *)
(* text in the history can be searched and a medium there names a file     *)
(* that was put, whatever fails or is killed in between.                   *)
HistoryHasContent ==
  \A m \in Rows : IF m \in Texts THEN m \in es ELSE file_id[m] \in 1..files[m]

(* What a member was told of, or a sender was told has been sent, is on    *)
(* its way or stored: whatever is killed, and whatever happens to other    *)
(* messages, unless a store failed on it or it was lost itself.            *)
ToldIsKept ==
  \A m \in Messages \ (refused \cup lost) :
    (m \in answered \/ notified[m] # {}) => m \in ToSet(queue) \cup Rows

(* The history is in the order of publication and shows no message twice,  *)
(* however often messages are delivered again, lost or refused.            *)
HistoryInOrder ==
  \A i, j \in DOMAIN message :
    i < j => \E k, l \in DOMAIN published :
               k < l /\ published[k] = message[i] /\ published[l] = message[j]

(* transmit_server.hpp says that the message is given to the queue to be   *)
(* made persistent: a message whose sender was told of success is in the   *)
(* queue or in the history.                                                *)
AnsweredIsPersisted == answered \subseteq (ToSet(queue) \cup Rows)

(* Without store failures and losses, but with kills at any point, the     *)
(* pipeline is a log, if its event loop is fair: see MessageReading.       *)
Log == INSTANCE ChatLog WITH accepted <- published, history <- message

ImplementsChatLog == Log!Spec
=============================================================================
