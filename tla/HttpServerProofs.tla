-------------------------- MODULE HttpServerProofs --------------------------
(***************************************************************************)
(* Theorems about HttpServer, for any connections, threads, nodes and      *)
(* bounds.                                                                 *)
(***************************************************************************)
EXTENDS HttpServer, FiniteSetTheorems, TLAPS

(* Type correctness, by the actors of a step. *)

LEMMA InitTypeOK == Init => TypeOK
BY HttpAssumption DEF Init, TypeOK, ClientsTyped, ThreadsTyped, Places, Calls, NoCall

LEMMA ClientStepTyped ==
  ASSUME TypeOK, NEW c \in Conns, Send(c) \/ Leave(c)
  PROVE  TypeOK'
<1>1. ThreadsTyped'
  BY DEF TypeOK, ThreadsTyped, Send, Leave, threads
<1>2. ClientsTyped'
  BY DEF TypeOK, ClientsTyped, Send, Leave
<1>3. troubles' \in 0..MaxTroubles
  BY HttpAssumption DEF TypeOK, Send, Leave, outside
<1> QED
  BY <1>1, <1>2, <1>3 DEF TypeOK, Send, Leave, pool, outside

LEMMA ListenerStepTyped ==
  ASSUME TypeOK, \/ \E c \in Conns : Accept(c)
                 \/ Notify
  PROVE  TypeOK'
<1>1. ASSUME NEW c \in Conns, Accept(c) PROVE TypeOK'
  <2>1. jobs' \in Seq(Conns)
    BY <1>1 DEF TypeOK, Accept, Enqueue
  <2> QED
    BY <1>1, <2>1 DEF TypeOK, ClientsTyped, ThreadsTyped, Accept, Enqueue, threads, outside
<1>2. CASE Notify
  <2>1. at' \in [Threads -> Places]
    BY <1>2 DEF TypeOK, ThreadsTyped, Notify, In, Places
  <2>2. \A t \in Threads :
          \/ at'[t] = at[t]
          \/ at[t] = "asleep" /\ at'[t] = "pool"
    BY <1>2 DEF TypeOK, ThreadsTyped, Notify, In
  <2>3. ThreadsTyped'
    BY <1>2, <2>1, <2>2 DEF TypeOK, ThreadsTyped, Notify
  <2> QED
    BY <1>2, <2>3 DEF TypeOK, ClientsTyped, Notify, clients, outside
<1> QED
  BY <1>1, <1>2

(* A thread on its way through the pool and its connection. *)
LEMMA PoolStepTyped ==
  ASSUME TypeOK, NEW t \in Threads,
         Take(t) \/ Sleep(t) \/ WakeSpuriously(t) \/ StopReading(t) \/ CloseSocket(t)
  PROVE  TypeOK'
<1>1. CASE Take(t)
  <2>1. Head(jobs) \in Conns /\ Tail(jobs) \in Seq(Conns)
    BY <1>1 DEF TypeOK, Take
  <2>2. ThreadsTyped'
    BY <1>1, <2>1, HttpAssumption DEF TypeOK, ThreadsTyped, Take, Places
  <2> QED
    BY <1>1, <2>1, <2>2 DEF TypeOK, ClientsTyped, Take, outside
<1>2. CASE Sleep(t) \/ WakeSpuriously(t) \/ StopReading(t)
  <2>1. ThreadsTyped'
    BY <1>2 DEF TypeOK, ThreadsTyped, Sleep, WakeSpuriously, StopReading, Places
  <2> QED
    BY <1>2, <2>1 DEF TypeOK, ClientsTyped, Sleep, WakeSpuriously, StopReading,
                      pool, clients, outside
<1>3. CASE CloseSocket(t)
  <2>1. ThreadsTyped'
    BY <1>3, HttpAssumption DEF TypeOK, ThreadsTyped, CloseSocket, Places
  <2> QED
    BY <1>3, <2>1 DEF TypeOK, ClientsTyped, CloseSocket, pool, outside
<1> QED
  BY <1>1, <1>2, <1>3

LEMMA ForwardTyped ==
  ASSUME TypeOK, NEW t \in Threads, NEW service \in Services, NEW puts \in 0..MaxList,
         Forward(t, service, puts)
  PROVE  TypeOK'
<1>1. ThreadsTyped'
  <2>1. CASE at' = [at EXCEPT ![t] = "refused"] /\ UNCHANGED call
    BY <2>1 DEF TypeOK, ThreadsTyped, Forward, Places
  <2>2. ASSUME NEW n \in NodesOf[service], at' = [at EXCEPT ![t] = "called"],
               call' = [call EXCEPT ![t] = [node |-> n, puts |-> puts, tries |-> 0]]
        PROVE  ThreadsTyped'
    <3> DEFINE new == [node |-> n, puts |-> puts, tries |-> 0]
    <3>1. n \in Nodes
      BY HttpAssumption
    <3>2. new \in Calls /\ new # NoCall
      BY <3>1, HttpAssumption DEF Calls, NoCall
    <3> HIDE DEF new
    <3>3. call' = [call EXCEPT ![t] = new]
      BY <2>2 DEF new
    <3> QED
      BY <2>2, <3>2, <3>3 DEF TypeOK, ThreadsTyped, Forward, Places
  <2> QED
    BY <2>1, <2>2 DEF Forward
<1> QED
  BY <1>1 DEF TypeOK, ClientsTyped, Forward, pool, clients, outside

LEMMA HandleTyped ==
  ASSUME TypeOK, NEW t \in Threads, Handle(t)
  PROVE  TypeOK'
<1>1. \E service \in Services : Forward(t, service, 0) \/ PutSingleFile(t) \/ PutMultiFile(t)
  BY DEF Services, Handle, GetPhoneVerifyCode, UserRegister, UserLogin, PhoneRegister,
         PhoneLogin, GetUserInfo, SetUserAvatar, SetUserNickname, SetUserDescription,
         SetUserPhoneNumber, GetFriendList, FriendSearch, GetPendingFriendEventList,
         GetChatSessionList, GetChatSessionMember, GetHistoryMsg, GetRecentMsg, MsgSearch,
         GetSingleFile, GetMultiFile, SpeechRecognition
<1>2. \E service \in Services, puts \in 0..MaxList : Forward(t, service, puts)
  BY <1>1, HttpAssumption DEF Services, PutSingleFile, PutMultiFile
<1> QED
  BY <1>2, ForwardTyped

LEMMA ServeTyped ==
  ASSUME TypeOK, NEW t \in Threads, Serve(t) \/ StoreFiles(t) \/ StoreFails(t)
  PROVE  TypeOK'
<1>1. at' = [at EXCEPT ![t] = "served"] /\ UNCHANGED <<sock, left, call>>
  BY DEF Serve, StoreFiles, StoreFails
<1>2. call[t].puts \in 0..MaxList
  BY HttpAssumption DEF TypeOK, ThreadsTyped, Calls, NoCall
<1>3. named' \in [Threads -> 0..MaxList]
  BY <1>2 DEF TypeOK, ThreadsTyped, Serve, StoreFiles, StoreFails
<1>4. ThreadsTyped'
  BY <1>1, <1>3 DEF TypeOK, ThreadsTyped, Serve, StoreFiles, StoreFails, Places
<1>5. troubles' \in 0..MaxTroubles
  BY HttpAssumption DEF TypeOK, Serve, StoreFiles, StoreFails, outside
<1> QED
  BY <1>4, <1>5 DEF TypeOK, ClientsTyped, Serve, StoreFiles, StoreFails, pool, clients, outside

LEMMA NodeHangsTyped ==
  ASSUME TypeOK, NEW n \in Nodes, NodeHangs(n)
  PROVE  TypeOK'
<1>1. troubles' \in 0..MaxTroubles
  BY HttpAssumption DEF TypeOK, NodeHangs
<1> QED
  BY <1>1 DEF TypeOK, ClientsTyped, ThreadsTyped, NodeHangs, pool, threads, clients

LEMMA NodeRestartsTyped ==
  ASSUME TypeOK, NEW n \in Nodes, NodeRestarts(n)
  PROVE  TypeOK'
<1> DEFINE broken == {t \in Threads : Waiting(t) /\ call[t].node = n}
           retryable == {t \in broken : call[t].tries < MaxRetry}
<1>1. PICK again \in SUBSET retryable :
        /\ at' = [t \in Threads |-> IF t \in again THEN "called"
                                    ELSE IF t \in broken THEN "refused" ELSE at[t]]
        /\ call' = [t \in Threads |-> IF t \in again THEN [call[t] EXCEPT !.tries = @ + 1]
                                      ELSE IF t \in broken THEN NoCall ELSE call[t]]
  BY DEF NodeRestarts
<1>2. \A t \in again : [call[t] EXCEPT !.tries = @ + 1] \in Calls \ {NoCall}
  <2> SUFFICES ASSUME NEW t \in again
               PROVE  [call[t] EXCEPT !.tries = @ + 1] \in Calls \ {NoCall}
    OBVIOUS
  <2> t \in Threads /\ at[t] \in {"called", "served"}
    BY DEF Waiting
  <2>1. call[t] \in Calls /\ call[t] # NoCall
    BY DEF TypeOK, ThreadsTyped
  <2>2. call[t] \in [node : Nodes, puts : 0..MaxList, tries : 0..MaxRetry]
    BY <2>1 DEF Calls
  <2>3. call[t].tries + 1 \in 0..MaxRetry /\ call[t].node # NoNode
    BY <2>2, HttpAssumption
  <2> QED
    BY <2>2, <2>3 DEF Calls, NoCall
<1>3. named' = [t \in Threads |-> IF t \in broken THEN 0 ELSE named[t]]
  BY DEF NodeRestarts
<1>4. \A t \in broken : at[t] \in {"called", "served"}
  BY DEF Waiting
<1> HIDE DEF broken, retryable
<1>5. again \subseteq broken /\ broken \subseteq Threads
  BY DEF broken, retryable
<1>6. /\ at' \in [Threads -> Places]
      /\ \A t \in Threads : at'[t] = IF t \in again THEN "called"
                                     ELSE IF t \in broken THEN "refused" ELSE at[t]
  BY <1>1 DEF TypeOK, ThreadsTyped, Places
<1>7. /\ call' \in [Threads -> Calls]
      /\ \A t \in again : call'[t] # NoCall
      /\ \A t \in Threads \ again : call'[t] = IF t \in broken THEN NoCall ELSE call[t]
  BY <1>1, <1>2, <1>5 DEF TypeOK, ThreadsTyped, Calls
<1>8. named' \in [Threads -> 0..MaxList]
  BY <1>3, HttpAssumption DEF TypeOK, ThreadsTyped
<1>9. ThreadsTyped'
  BY <1>4, <1>5, <1>6, <1>7, <1>8 DEF TypeOK, ThreadsTyped, NodeRestarts
<1>10. troubles' \in 0..MaxTroubles
  BY HttpAssumption DEF TypeOK, NodeRestarts
<1>11. stray' = [t \in Threads |-> IF t \in broken THEN stray[t] + named[t] ELSE stray[t]]
  BY DEF NodeRestarts, broken
<1>12. stray' \in [Threads -> Nat]
  BY <1>11, HttpAssumption DEF TypeOK, ThreadsTyped
<1> QED
  BY <1>9, <1>10, <1>12 DEF TypeOK, ClientsTyped, NodeRestarts, pool, clients

LEMMA AnswerTyped ==
  ASSUME TypeOK, NEW t \in Threads, Answer(t)
  PROVE  TypeOK'
<1>1. left[t] \in 1..KeepAliveMax
  BY HttpAssumption DEF TypeOK, ThreadsTyped, Answer, Respond
<1>2. /\ left' = [left EXCEPT ![t] = left[t] - 1]
      /\ call' = [call EXCEPT ![t] = NoCall] /\ named' = [named EXCEPT ![t] = 0]
      /\ sock' = sock
  BY DEF Answer, Respond
<1>3. left' \in [Threads -> 0..KeepAliveMax] /\ named' \in [Threads -> 0..MaxList]
  BY <1>1, <1>2, HttpAssumption DEF TypeOK, ThreadsTyped
<1>4. \/ at' = [at EXCEPT ![t] = "closing"]
      \/ at' = [at EXCEPT ![t] = "reading"] /\ left'[t] > 0
  <2>1. CASE left[t] = 1 \/ sock[t] \in gone
    BY <2>1 DEF Answer, Respond
  <2>2. CASE ~(left[t] = 1 \/ sock[t] \in gone)
    <3>1. left[t] - 1 > 0
      BY <1>1, <2>2, HttpAssumption
    <3>2. left'[t] = left[t] - 1
      BY <1>2 DEF TypeOK, ThreadsTyped
    <3>3. at' = [at EXCEPT ![t] = "reading"]
      BY <2>2 DEF Answer, Respond
    <3> QED
      BY <3>1, <3>2, <3>3
  <2> QED
    BY <2>1, <2>2
<1>5. ThreadsTyped'
  BY <1>2, <1>3, <1>4 DEF TypeOK, ThreadsTyped, Places, Calls, Answer, Respond
<1>6. stray' \in [Threads -> Nat]
  BY HttpAssumption DEF TypeOK, ThreadsTyped, Answer, Respond
<1> QED
  BY <1>5, <1>6 DEF TypeOK, ClientsTyped, Answer, Respond, pool

LEMMA NextTypeOK == TypeOK /\ [Next]_vars => TypeOK'
<1> SUFFICES ASSUME TypeOK, [Next]_vars PROVE TypeOK'
  OBVIOUS
<1>1. CASE \E c \in Conns : Send(c) \/ Leave(c) \/ Accept(c)
  BY <1>1, ClientStepTyped, ListenerStepTyped
<1>2. CASE Notify
  BY <1>2, ListenerStepTyped
<1>3. ASSUME NEW t \in Threads, ThreadStep(t) \/ WakeSpuriously(t) \/ StoreFails(t)
      PROVE  TypeOK'
  BY <1>3, PoolStepTyped, HandleTyped, ServeTyped, AnswerTyped DEF ThreadStep
<1>4. ASSUME NEW n \in Nodes, NodeHangs(n) \/ NodeRestarts(n)
      PROVE  TypeOK'
  BY <1>4, NodeHangsTyped, NodeRestartsTyped
<1>5. CASE UNCHANGED vars
  BY <1>5 DEF TypeOK, ClientsTyped, ThreadsTyped, vars, pool, threads, clients, outside
<1> QED
  BY <1>1, <1>2, <1>3, <1>4, <1>5 DEF Next

(* Every variable keeps its type, a thread has a connection exactly while  *)
(* it serves one and a call exactly while it waits for one, and it never   *)
(* waits for a request its connection may no longer send.                  *)
THEOREM TypeCorrect == Spec => []TypeOK
BY InitTypeOK, NextTypeOK, PTL DEF Spec

-----------------------------------------------------------------------------
(* NoJobForgotten counts jobs against the threads in the pool and a        *)
(* notification to come.                                                   *)

LEMMA InFinite ==
  ASSUME NEW place
  PROVE  IsFiniteSet(In(place)) /\ Cardinality(In(place)) \in Nat
<1>1. In(place) \subseteq Threads
  BY DEF In
<1> QED
  BY <1>1, HttpAssumption, FS_Subset, FS_CardinalityType

(* A thread that moves enters a place, or leaves it.                       *)
LEMMA Moves ==
  ASSUME ThreadsTyped, NEW t \in Threads, NEW to, at' = [at EXCEPT ![t] = to]
  PROVE  \A place : In(place)' = IF place = to THEN In(place) \cup {t} ELSE In(place) \ {t}
BY DEF ThreadsTyped, In

LEMMA PoolShrinks ==
  ASSUME ThreadsTyped, NEW t \in Threads, at[t] = "pool", NEW to, to # "pool",
         at' = [at EXCEPT ![t] = to]
  PROVE  Cardinality(In("pool")') = Cardinality(In("pool")) - 1
<1>1. t \in In("pool")
  BY DEF In
<1>2. In("pool")' = In("pool") \ {t}
  BY Moves
<1> QED
  BY <1>1, <1>2, InFinite, FS_RemoveElement

LEMMA PoolGrows ==
  ASSUME ThreadsTyped, NEW t \in Threads, at[t] # "pool", at' = [at EXCEPT ![t] = "pool"]
  PROVE  Cardinality(In("pool")') = Cardinality(In("pool")) + 1
<1>1. t \notin In("pool") /\ In("pool")' = In("pool") \cup {t}
  BY Moves DEF In
<1> QED
  BY <1>1, InFinite, FS_AddElement

(* A step that leaves the pool alone: its threads, the sleepers, the jobs  *)
(* and the listener.                                                       *)
LEMMA ElsewhereStep ==
  ASSUME NoJobForgotten, In("pool")' = In("pool"), In("asleep")' = In("asleep"),
         UNCHANGED pool
  PROVE  NoJobForgotten'
BY DEF NoJobForgotten, pool

LEMMA BusyThreadStep ==
  ASSUME TypeOK, NoJobForgotten, NEW t \in Threads, NEW to \in Places,
         at[t] \notin {"pool", "asleep"}, to \notin {"pool", "asleep"},
         at' = [at EXCEPT ![t] = to], UNCHANGED pool
  PROVE  NoJobForgotten'
<1>1. In("pool")' = In("pool") /\ In("asleep")' = In("asleep")
  BY Moves DEF TypeOK, In
<1> QED
  BY <1>1, ElsewhereStep

LEMMA NotifyKeepsNoJobForgotten ==
  ASSUME TypeOK, NoJobForgotten, Notify
  PROVE  NoJobForgotten'
<1>1. CASE In("asleep") = {} /\ UNCHANGED at
  BY <1>1 DEF NoJobForgotten, In
<1>2. ASSUME NEW t \in In("asleep"), at' = [at EXCEPT ![t] = "pool"]
      PROVE  NoJobForgotten'
  <2>1. Cardinality(In("pool")') = Cardinality(In("pool")) + 1
    BY <1>2, PoolGrows DEF TypeOK, In
  <2>2. Len(jobs) <= Cardinality(In("pool")) + 1
    BY <1>2 DEF NoJobForgotten, Notify
  <2> QED
    BY <2>1, <2>2, InFinite DEF NoJobForgotten, Notify
<1> QED
  BY <1>1, <1>2 DEF Notify

LEMMA ThreadKeepsNoJobForgotten ==
  ASSUME TypeOK, NoJobForgotten, NEW t \in Threads,
         ThreadStep(t) \/ WakeSpuriously(t) \/ StoreFails(t)
  PROVE  NoJobForgotten'
<1> USE DEF TypeOK
<1>1. CASE Take(t)
  <2>1. Cardinality(In("pool")') = Cardinality(In("pool")) - 1
    BY <1>1, PoolShrinks DEF Take
  <2>2. In("asleep")' \subseteq In("asleep")
    BY <1>1 DEF Take, In, ThreadsTyped
  <2>3. Len(jobs') = Len(jobs) - 1 /\ Len(jobs) \in Nat
    BY <1>1 DEF Take
  <2> QED
    BY <1>1, <2>1, <2>2, <2>3, InFinite DEF NoJobForgotten, Take
<1>2. CASE Sleep(t)
  <2>1. Len(jobs') = 0
    BY <1>2 DEF Sleep, pool
  <2>2. Cardinality(In("pool")') \in Nat
    <3>1. In("pool")' = In("pool") \ {t}
      BY <1>2, Moves DEF Sleep
    <3> QED
      BY <3>1, InFinite, FS_RemoveElement, FS_CardinalityType
  <2> QED
    BY <2>1, <2>2 DEF NoJobForgotten
<1>3. CASE WakeSpuriously(t) \/ CloseSocket(t)
  <2>1. Cardinality(In("pool")') = Cardinality(In("pool")) + 1
    BY <1>3, PoolGrows DEF WakeSpuriously, CloseSocket
  <2>2. In("asleep")' \subseteq In("asleep")
    BY <1>3 DEF WakeSpuriously, CloseSocket, In, ThreadsTyped
  <2>3. UNCHANGED pool
    BY <1>3 DEF WakeSpuriously, CloseSocket
  <2>4. Len(jobs) \in Nat
    OBVIOUS
  <2> QED
    BY <2>1, <2>2, <2>3, <2>4, InFinite DEF NoJobForgotten, pool
<1>4. CASE StopReading(t)
  BY <1>4, BusyThreadStep DEF StopReading, Places
<1>5. CASE Serve(t) \/ StoreFiles(t) \/ StoreFails(t)
  BY <1>5, BusyThreadStep DEF Serve, StoreFiles, StoreFails, Places
<1>6. CASE Answer(t)
  BY <1>6, BusyThreadStep DEF Answer, Respond, Places
<1>7. CASE Handle(t)
  <2>1. \E service, puts : Forward(t, service, puts)
    BY <1>7 DEF Handle, GetPhoneVerifyCode, UserRegister, UserLogin, PhoneRegister,
         PhoneLogin, GetUserInfo, SetUserAvatar, SetUserNickname, SetUserDescription,
         SetUserPhoneNumber, GetFriendList, FriendSearch, GetPendingFriendEventList,
         GetChatSessionList, GetChatSessionMember, GetHistoryMsg, GetRecentMsg, MsgSearch,
         GetSingleFile, GetMultiFile, PutSingleFile, PutMultiFile, SpeechRecognition
  <2> QED
    BY <2>1, BusyThreadStep DEF Forward, Places
<1> QED
  BY <1>1, <1>2, <1>3, <1>4, <1>5, <1>6, <1>7 DEF ThreadStep

LEMMA RestartKeepsNoJobForgotten ==
  ASSUME TypeOK, NoJobForgotten, NEW n \in Nodes, NodeRestarts(n)
  PROVE  NoJobForgotten'
<1>1. \A t \in Threads : \/ at'[t] = at[t]
                        \/ {at[t], at'[t]} \subseteq {"called", "served", "refused"}
  BY DEF NodeRestarts, Waiting
<1>2. In("pool")' = In("pool") /\ In("asleep")' = In("asleep")
  BY <1>1 DEF In
<1> QED
  BY <1>2, ElsewhereStep DEF NodeRestarts

LEMMA NextNoJobForgotten == TypeOK /\ NoJobForgotten /\ [Next]_vars => NoJobForgotten'
<1> SUFFICES ASSUME TypeOK, NoJobForgotten, [Next]_vars PROVE NoJobForgotten'
  OBVIOUS
<1>1. ASSUME NEW c \in Conns, Send(c) \/ Leave(c)
      PROVE  NoJobForgotten'
  BY <1>1, ElsewhereStep DEF Send, Leave, threads, In
<1>2. ASSUME NEW c \in Conns, Accept(c)
      PROVE  NoJobForgotten'
  <2>1. Len(jobs') = Len(jobs) + 1 /\ Len(jobs) \in Nat
    BY <1>2 DEF Accept, Enqueue, TypeOK
  <2>2. UNCHANGED at /\ listener = "accept" /\ listener' = "notify"
    BY <1>2 DEF Accept, Enqueue, threads
  <2>3. In("pool")' = In("pool") /\ In("asleep")' = In("asleep")
    BY <2>2 DEF In
  <2> QED
    BY <2>1, <2>2, <2>3, InFinite DEF NoJobForgotten
<1>3. CASE Notify
  BY <1>3, NotifyKeepsNoJobForgotten
<1>4. ASSUME NEW t \in Threads, ThreadStep(t) \/ WakeSpuriously(t) \/ StoreFails(t)
      PROVE  NoJobForgotten'
  BY <1>4, ThreadKeepsNoJobForgotten
<1>5. ASSUME NEW n \in Nodes, NodeHangs(n)
      PROVE  NoJobForgotten'
  BY <1>5, ElsewhereStep DEF NodeHangs, threads, In
<1>6. ASSUME NEW n \in Nodes, NodeRestarts(n)
      PROVE  NoJobForgotten'
  BY <1>6, RestartKeepsNoJobForgotten
<1>7. CASE UNCHANGED vars
  BY <1>7, ElsewhereStep DEF vars, threads, In
<1> QED
  BY <1>1, <1>2, <1>3, <1>4, <1>5, <1>6, <1>7 DEF Next

(* While a thread of the pool sleeps, each queued connection has a thread  *)
(* that is about to look at the queue or a notification under way: no      *)
(* wakeup is lost, whatever the number of threads and connections.         *)
THEOREM NoWakeupLost == Spec => []NoJobForgotten
<1>1. Init => NoJobForgotten
  <2> SUFFICES ASSUME Init PROVE NoJobForgotten
    OBVIOUS
  <2>1. In("asleep") = {}
    BY DEF Init, In
  <2> QED
    BY <2>1 DEF NoJobForgotten
<1> QED
  BY <1>1, NextNoJobForgotten, TypeCorrect, PTL DEF Spec

-----------------------------------------------------------------------------
(* Whose a connection is.  It is queued once and with a request, then it   *)
(* has one thread, which works on a request the client has out.            *)

JobsAreQueued ==
  /\ \A i \in DOMAIN jobs : line[jobs[i]] = "queued" /\ sent[jobs[i]]
  /\ \A i, j \in DOMAIN jobs : jobs[i] = jobs[j] => i = j

SocketsAreServed ==
  /\ \A t \in Threads : sock[t] # NoConn => line[sock[t]] \in {"open", "last"}
  /\ \A s, t \in Threads : (sock[s] = sock[t] /\ sock[t] # NoConn) => s = t

RequestsAreSent ==
  /\ \A t \in Threads : at[t] \in {"called", "served", "refused"} => sent[sock[t]]
  /\ \A c \in Conns : sent[c] => line[c] # "closed"

(* A client that has left waits for an answer nobody will read, or has had *)
(* it.                                                                     *)
GoneAreServed == \A c \in gone : line[c] # "closed" /\ (sent[c] \/ line[c] = "last")

ConnInv == JobsAreQueued /\ SocketsAreServed /\ RequestsAreSent /\ GoneAreServed

LEMMA WhoseConnection ==
  ASSUME TypeOK, ConnInv
  PROVE  /\ \A t \in Threads, c \in Conns : sock[t] = c => line[c] \in {"open", "last"}
         /\ \A s, t \in Threads, c \in Conns : sock[s] = c /\ sock[t] = c => s = t
         /\ \A i \in DOMAIN jobs, c \in Conns : jobs[i] = c => line[c] = "queued"
<1>1. \A c \in Conns : c # NoConn
  BY HttpAssumption
<1> QED
  BY <1>1 DEF ConnInv, SocketsAreServed, JobsAreQueued

LEMMA ClientKeepsConnInv ==
  ASSUME TypeOK, ConnInv, NEW c \in Conns, Send(c) \/ Leave(c)
  PROVE  ConnInv'
<1> USE DEF TypeOK, ClientsTyped, ThreadsTyped, ConnInv
<1>1. UNCHANGED <<jobs, line, at, sock>>
  BY DEF Send, Leave, pool, threads
<1>2. JobsAreQueued' /\ SocketsAreServed'
  <2>1. \A d \in Conns : sent[d] => sent'[d]
    BY DEF Send, Leave
  <2>2. \A i \in DOMAIN jobs : jobs[i] \in Conns
    OBVIOUS
  <2> QED
    BY <1>1, <2>1, <2>2 DEF JobsAreQueued, SocketsAreServed
<1>3. RequestsAreSent'
  BY <1>1 DEF RequestsAreSent, Send, Leave
<1>4. GoneAreServed'
  BY <1>1 DEF GoneAreServed, RequestsAreSent, Send, Leave
<1> QED
  BY <1>2, <1>3, <1>4

LEMMA AcceptKeepsConnInv ==
  ASSUME TypeOK, ConnInv, NEW c \in Conns, Accept(c)
  PROVE  ConnInv'
<1> USE DEF TypeOK, ClientsTyped, ThreadsTyped, ConnInv
<1>1. /\ line[c] = "closed" /\ UNCHANGED <<at, sock, gone>> /\ jobs' = Append(jobs, c)
      /\ line' = [line EXCEPT ![c] = "queued"] /\ sent' = [sent EXCEPT ![c] = TRUE]
  BY DEF Accept, Enqueue, threads
<1>2. /\ \A i \in DOMAIN jobs : jobs[i] # c
      /\ \A i \in DOMAIN jobs' : IF i \in DOMAIN jobs THEN jobs'[i] = jobs[i]
                                 ELSE i = Len(jobs) + 1 /\ jobs'[i] = c
  BY <1>1 DEF JobsAreQueued
<1>3. JobsAreQueued'
  BY <1>1, <1>2 DEF JobsAreQueued
<1>4. \A t \in Threads : sock[t] # c
  BY <1>1, WhoseConnection
<1>5. SocketsAreServed'
  BY <1>1, <1>4 DEF SocketsAreServed
<1>6. RequestsAreSent' /\ GoneAreServed'
  BY <1>1 DEF RequestsAreSent, GoneAreServed
<1> QED
  BY <1>3, <1>5, <1>6

LEMMA TakeKeepsConnInv ==
  ASSUME TypeOK, ConnInv, NEW t \in Threads, Take(t)
  PROVE  ConnInv'
<1> USE DEF TypeOK, ClientsTyped, ThreadsTyped, ConnInv
<1> DEFINE c == Head(jobs)
<1>1. /\ c \in Conns /\ 1 \in DOMAIN jobs /\ jobs[1] = c /\ UNCHANGED <<sent, gone>>
      /\ at' = [at EXCEPT ![t] = "reading"] /\ sock' = [sock EXCEPT ![t] = c]
      /\ line' = [line EXCEPT ![c] = "open"] /\ jobs' = Tail(jobs)
  BY DEF Take
<1>2. line[c] = "queued" /\ sent[c]
  BY <1>1 DEF JobsAreQueued
<1>3. \A i \in DOMAIN jobs' : i + 1 \in DOMAIN jobs \ {1} /\ jobs'[i] = jobs[i + 1]
  BY <1>1
<1>4. \A i \in DOMAIN jobs' : jobs'[i] # c
  BY <1>1, <1>3 DEF JobsAreQueued
<1> HIDE DEF c
<1>5. JobsAreQueued'
  <2>1. ASSUME NEW i \in DOMAIN jobs' PROVE line'[jobs'[i]] = "queued" /\ sent'[jobs'[i]]
    BY <1>1, <1>3, <1>4, <2>1 DEF JobsAreQueued
  <2>2. ASSUME NEW i \in DOMAIN jobs', NEW j \in DOMAIN jobs', jobs'[i] = jobs'[j] PROVE i = j
    <3>1. i + 1 = j + 1
      BY <1>3, <2>2 DEF JobsAreQueued
    <3>2. i \in Nat /\ j \in Nat
      BY <1>1
    <3> QED
      BY <3>1, <3>2
  <2> QED
    BY <2>1, <2>2 DEF JobsAreQueued
<1>6. \A s \in Threads : sock[s] # c
  BY <1>1, <1>2, WhoseConnection
<1>7. SocketsAreServed'
  BY <1>1, <1>6 DEF SocketsAreServed
<1>8. RequestsAreSent' /\ GoneAreServed'
  BY <1>1, <1>2 DEF RequestsAreSent, GoneAreServed
<1> QED
  BY <1>5, <1>7, <1>8

(* The steps of a thread on its way, and of the node it has called.        *)
LEMMA WayKeepsConnInv ==
  ASSUME TypeOK, ConnInv, UNCHANGED <<jobs, line, sent, gone, sock>>,
         \A t \in Threads :
           at'[t] \in {"called", "served", "refused"} => sock[t] # NoConn /\ sent[sock[t]]
  PROVE  ConnInv'
BY DEF ConnInv, JobsAreQueued, SocketsAreServed, RequestsAreSent, GoneAreServed

LEMMA HandleForwards ==
  ASSUME NEW t \in Threads, Handle(t)
  PROVE  \E service, puts : Forward(t, service, puts)
BY DEF Handle, GetPhoneVerifyCode, UserRegister, UserLogin, PhoneRegister,
     PhoneLogin, GetUserInfo, SetUserAvatar, SetUserNickname, SetUserDescription,
     SetUserPhoneNumber, GetFriendList, FriendSearch, GetPendingFriendEventList,
     GetChatSessionList, GetChatSessionMember, GetHistoryMsg, GetRecentMsg, MsgSearch,
     GetSingleFile, GetMultiFile, PutSingleFile, PutMultiFile, SpeechRecognition

LEMMA BusyKeepsConnInv ==
  ASSUME TypeOK, ConnInv, NEW t \in Threads,
         \/ Sleep(t) \/ WakeSpuriously(t) \/ StopReading(t) \/ Handle(t)
         \/ Serve(t) \/ StoreFiles(t) \/ StoreFails(t)
  PROVE  ConnInv'
<1>1. UNCHANGED <<jobs, line, sent, gone, sock>>
  <2>1. CASE Handle(t)
    BY <2>1, HandleForwards DEF Forward, pool, clients
  <2> QED
    BY <2>1 DEF Sleep, WakeSpuriously, StopReading, Serve, StoreFiles, StoreFails, pool, clients
<1>2. PICK to : /\ at' = [at EXCEPT ![t] = to]
                /\ to \in {"called", "served", "refused"} =>
                     at[t] = "called" \/ (at[t] = "reading" /\ sent[sock[t]])
  <2>1. CASE Handle(t)
    BY <2>1, HandleForwards DEF Forward
  <2> QED
    BY <2>1 DEF Sleep, WakeSpuriously, StopReading, Serve, StoreFiles, StoreFails
<1>3. ASSUME NEW s \in Threads, at'[s] \in {"called", "served", "refused"}
      PROVE  sock[s] # NoConn /\ sent[sock[s]]
  <2>1. CASE s = t
    BY <1>2, <1>3, <2>1 DEF TypeOK, ThreadsTyped, ConnInv, RequestsAreSent
  <2>2. CASE s # t
    BY <1>2, <1>3, <2>2 DEF TypeOK, ThreadsTyped, ConnInv, RequestsAreSent
  <2> QED
    BY <2>1, <2>2
<1> QED
  BY <1>1, <1>3, WayKeepsConnInv

LEMMA CloseKeepsConnInv ==
  ASSUME TypeOK, ConnInv, NEW t \in Threads, CloseSocket(t)
  PROVE  ConnInv'
<1> USE DEF TypeOK, ClientsTyped, ThreadsTyped, ConnInv
<1> DEFINE c == sock[t]
<1>1. /\ c \in Conns /\ UNCHANGED jobs /\ gone' = gone \ {c}
      /\ at' = [at EXCEPT ![t] = "pool"] /\ sock' = [sock EXCEPT ![t] = NoConn]
      /\ line' = [line EXCEPT ![c] = "closed"] /\ sent' = [sent EXCEPT ![c] = FALSE]
  BY DEF CloseSocket, pool
<1>2. /\ line[c] \in {"open", "last"}
      /\ \A i \in DOMAIN jobs : jobs[i] # c
  BY <1>1, WhoseConnection
<1>3. \A s \in Threads \ {t} : sock[s] # c
  BY <1>1, WhoseConnection
<1> HIDE DEF c
<1>4. JobsAreQueued'
  BY <1>1, <1>2 DEF JobsAreQueued
<1>5. SocketsAreServed'
  BY <1>1, <1>3 DEF SocketsAreServed
<1>6. RequestsAreSent'
  BY <1>1, <1>3 DEF RequestsAreSent
<1>7. GoneAreServed'
  BY <1>1 DEF GoneAreServed
<1> QED
  BY <1>4, <1>5, <1>6, <1>7

LEMMA AnswerKeepsConnInv ==
  ASSUME TypeOK, ConnInv, NEW t \in Threads, Answer(t)
  PROVE  ConnInv'
<1> USE DEF TypeOK, ClientsTyped, ThreadsTyped, ConnInv
<1> DEFINE c == sock[t]
<1>1. /\ c \in Conns /\ UNCHANGED <<jobs, gone, sock>>
      /\ sent' = [sent EXCEPT ![c] = FALSE]
      /\ \/ at' = [at EXCEPT ![t] = "closing"] /\ line' = [line EXCEPT ![c] = "last"]
         \/ at' = [at EXCEPT ![t] = "reading"] /\ line' = [line EXCEPT ![c] = "open"] /\ c \notin gone
  <2>1. c \in Conns /\ UNCHANGED <<jobs, gone, sock>> /\ sent' = [sent EXCEPT ![c] = FALSE]
    BY DEF Answer, Respond, pool
  <2>2. CASE left[t] = 1 \/ sock[t] \in gone
    BY <2>1, <2>2 DEF Answer, Respond
  <2>3. CASE ~(left[t] = 1 \/ sock[t] \in gone)
    BY <2>1, <2>3 DEF Answer, Respond
  <2> QED
    BY <2>2, <2>3
<1>2. /\ line[c] \in {"open", "last"}
      /\ \A i \in DOMAIN jobs : jobs[i] # c
  BY <1>1, WhoseConnection
<1>3. \A s \in Threads \ {t} : sock[s] # c
  BY <1>1, WhoseConnection
<1> HIDE DEF c
<1>4. JobsAreQueued'
  BY <1>1, <1>2 DEF JobsAreQueued
<1>5. SocketsAreServed'
  <2>1. \A d \in Conns : line'[d] = line[d] \/ line'[d] \in {"open", "last"}
    BY <1>1
  <2> QED
    BY <1>1, <2>1 DEF SocketsAreServed
<1>6. RequestsAreSent'
  BY <1>1, <1>3 DEF RequestsAreSent
<1>7. GoneAreServed'
  BY <1>1 DEF GoneAreServed
<1> QED
  BY <1>4, <1>5, <1>6, <1>7

LEMMA RestartKeepsConnInv ==
  ASSUME TypeOK, ConnInv, NEW n \in Nodes, NodeRestarts(n)
  PROVE  ConnInv'
<1>1. UNCHANGED <<jobs, line, sent, gone, sock>>
  BY DEF NodeRestarts, pool, clients
<1>2. \A t \in Threads : at'[t] \in {"called", "served", "refused"} =>
                           at[t] \in {"called", "served", "refused"}
  BY DEF NodeRestarts, Waiting
<1>3. \A t \in Threads : at[t] \in {"called", "served", "refused"} =>
                           sock[t] # NoConn /\ sent[sock[t]]
  BY DEF TypeOK, ThreadsTyped, ConnInv, RequestsAreSent
<1> QED
  BY <1>1, <1>2, <1>3, WayKeepsConnInv

LEMMA NextConnInv == TypeOK /\ ConnInv /\ [Next]_vars => ConnInv'
<1> SUFFICES ASSUME TypeOK, ConnInv, [Next]_vars PROVE ConnInv'
  OBVIOUS
<1>1. ASSUME NEW c \in Conns, Send(c) \/ Leave(c) \/ Accept(c) PROVE ConnInv'
  BY <1>1, ClientKeepsConnInv, AcceptKeepsConnInv
<1>2. ASSUME NEW t \in Threads, ThreadStep(t) \/ WakeSpuriously(t) \/ StoreFails(t) PROVE ConnInv'
  BY <1>2, TakeKeepsConnInv, BusyKeepsConnInv, CloseKeepsConnInv, AnswerKeepsConnInv DEF ThreadStep
<1>3. ASSUME NEW n \in Nodes, NodeRestarts(n) PROVE ConnInv'
  BY <1>3, RestartKeepsConnInv
<1>4. CASE Notify \/ (\E n \in Nodes : NodeHangs(n)) \/ UNCHANGED vars
  <2>1. UNCHANGED <<jobs, line, sent, gone, sock>>
    BY <1>4 DEF Notify, NodeHangs, vars, pool, threads, clients
  <2>2. \A t \in Threads : at'[t] \in {"called", "served", "refused"} => at'[t] = at[t]
    BY <1>4 DEF Notify, In, NodeHangs, vars, threads, TypeOK, ThreadsTyped
  <2>3. \A t \in Threads : at[t] \in {"called", "served", "refused"} =>
                             sock[t] # NoConn /\ sent[sock[t]]
    BY DEF TypeOK, ThreadsTyped, ConnInv, RequestsAreSent
  <2> QED
    BY <2>1, <2>2, <2>3, WayKeepsConnInv
<1> QED
  BY <1>1, <1>2, <1>3, <1>4 DEF Next

LEMMA InitConnInv == Init => ConnInv
BY HttpAssumption DEF Init, ConnInv, JobsAreQueued, SocketsAreServed, RequestsAreSent,
     GoneAreServed

-----------------------------------------------------------------------------
(* The troubles that may still cost a thread the files of a call: a node   *)
(* that hangs has not been restarted yet, and the request of a client that *)
(* has left is not answered yet.  The others have left the files they had  *)
(* to leave.                                                               *)
Unread == {c \in gone : sent[c]}
Owed == Cardinality(hung) + Cardinality(Unread)

StrayInv ==
  /\ IsFiniteSet(hung) /\ IsFiniteSet(Unread)
  /\ Owed <= troubles
  /\ \A t \in Threads : stray[t] <= (troubles - Owed) * MaxList

LEMMA OwedCounts ==
  ASSUME StrayInv PROVE Cardinality(hung) \in Nat /\ Cardinality(Unread) \in Nat /\ Owed \in Nat
BY FS_CardinalityType DEF StrayInv, Owed

LEMMA TimesMonotone ==
  ASSUME NEW a \in Nat, NEW b \in Nat, NEW m \in Nat, a <= b
  PROVE  a * m <= b * m /\ (a < b => a * m + m <= b * m)
<1>1. PICK d \in Nat : b = a + d
  <2>1. b - a \in Nat /\ b = a + (b - a)
    OBVIOUS
  <2> QED
    BY <2>1
<1>2. b * m = a * m + d * m /\ d * m \in Nat
  BY <1>1
<1>3. CASE d = 0
  BY <1>1, <1>2, <1>3
<1>4. CASE d # 0
  <2>1. PICK e \in Nat : d = e + 1
    <3>1. d - 1 \in Nat /\ d = (d - 1) + 1
      BY <1>4
    <3> QED
      BY <3>1
  <2>2. d * m = e * m + m /\ e * m \in Nat
    BY <2>1
  <2>3. a * m \in Nat /\ b * m \in Nat
    OBVIOUS
  <2> QED
    BY <1>2, <2>2, <2>3
<1> QED
  BY <1>3, <1>4

(* What a thread may leave: the files of a call for a trouble paid off.    *)
LEMMA StrayStep ==
  ASSUME TypeOK, TypeOK', StrayInv,
         IsFiniteSet(hung)', IsFiniteSet(Unread)',
         troubles + Owed' <= troubles' + Owed,
         \A t \in Threads :
           \/ stray'[t] = stray[t]
           \/ /\ stray'[t] <= stray[t] + MaxList
              /\ troubles + Owed' < troubles' + Owed
  PROVE  StrayInv'
<1>1. /\ Owed \in Nat /\ troubles \in Nat /\ troubles' \in Nat /\ MaxList \in Nat
      /\ Owed <= troubles
  BY OwedCounts, HttpAssumption DEF TypeOK, StrayInv
<1>2. Owed' \in Nat
  <2>1. Cardinality(hung)' \in Nat /\ Cardinality(Unread)' \in Nat
    BY FS_CardinalityType
  <2> QED
    BY <2>1 DEF Owed
<1>3. PICK a \in Nat, b \in Nat :
        /\ a = troubles - Owed /\ b = troubles' - Owed' /\ a <= b
        /\ (troubles + Owed' < troubles' + Owed) => a < b
        /\ Owed' <= troubles'
  <2>1. PICK o \in Nat, p \in Nat, x \in Nat, y \in Nat :
          o = Owed /\ p = Owed' /\ x = troubles /\ y = troubles'
    BY <1>1, <1>2
  <2>2. o <= x /\ x + p <= y + o
    BY <1>1, <2>1
  <2>3. p <= y /\ x - o \in Nat /\ y - p \in Nat /\ x - o <= y - p /\ (x + p < y + o => x - o < y - p)
    BY <2>2
  <2> QED
    BY <2>1, <2>3
<1>4. /\ a * MaxList <= b * MaxList /\ a < b => a * MaxList + MaxList <= b * MaxList
      /\ a * MaxList \in Nat /\ b * MaxList \in Nat
  BY <1>1, TimesMonotone
<1>5. ASSUME NEW t \in Threads PROVE stray'[t] <= b * MaxList
  <2>1. stray[t] \in Nat /\ stray'[t] \in Nat
    BY DEF TypeOK
  <2>2. stray[t] <= a * MaxList
    BY <1>3 DEF StrayInv
  <2> QED
    BY <1>1, <1>3, <1>4, <2>1, <2>2
<1>6. Owed' <= troubles'
  BY <1>3
<1> QED
  BY <1>3, <1>5, <1>6 DEF StrayInv

(* Nothing but the request of a connection that is not lost changes.       *)
LEMMA QuietKeepsStrayInv ==
  ASSUME TypeOK, TypeOK', StrayInv, UNCHANGED <<hung, stray, troubles>>, Unread' \subseteq Unread
  PROVE  StrayInv'
<1>1. IsFiniteSet(Unread)' /\ Cardinality(Unread)' <= Cardinality(Unread)
  BY FS_Subset DEF StrayInv
<1>2. Cardinality(Unread)' \in Nat
  BY <1>1, FS_CardinalityType
<1>3. Owed' <= Owed /\ Owed' \in Nat
  BY <1>1, <1>2, OwedCounts DEF Owed
<1> QED
  BY <1>1, <1>3, OwedCounts, StrayStep DEF TypeOK, StrayInv

LEMMA ClientKeepsStrayInv ==
  ASSUME TypeOK, TypeOK', ConnInv, StrayInv, NEW c \in Conns, Send(c) \/ Leave(c) \/ Accept(c)
  PROVE  StrayInv'
<1>1. CASE Send(c) \/ Accept(c)
  <2>1. c \notin gone /\ sent' = [sent EXCEPT ![c] = TRUE] /\ gone' = gone
    BY <1>1 DEF Send, Accept, Enqueue, ConnInv, GoneAreServed
  <2>2. Unread' \subseteq Unread
    BY <2>1 DEF Unread, TypeOK, ClientsTyped
  <2> QED
    BY <1>1, <2>2, QuietKeepsStrayInv DEF Send, Accept, Enqueue, outside
<1>2. CASE Leave(c)
  <2>1. c \notin Unread /\ Unread' = Unread \cup {c}
    BY <1>2 DEF Leave, Unread
  <2>2. IsFiniteSet(Unread)' /\ Cardinality(Unread)' = Cardinality(Unread) + 1
    BY <2>1, FS_AddElement DEF StrayInv
  <2>3. UNCHANGED <<hung, stray>> /\ troubles' = troubles + 1
    BY <1>2 DEF Leave
  <2>4. Owed' = Owed + 1
    BY <2>2, <2>3, OwedCounts DEF Owed
  <2>5. troubles \in Nat /\ IsFiniteSet(hung)'
    BY <2>3 DEF TypeOK, StrayInv
  <2> QED
    BY <2>2, <2>3, <2>4, <2>5, OwedCounts, StrayStep
<1> QED
  BY <1>1, <1>2

LEMMA NodeKeepsStrayInv ==
  ASSUME TypeOK, TypeOK', StrayInv, NEW n \in Nodes, NodeHangs(n) \/ NodeRestarts(n)
  PROVE  StrayInv'
<1>1. Unread' = Unread /\ IsFiniteSet(hung) /\ IsFiniteSet(Unread) /\ troubles \in Nat
  BY DEF NodeHangs, NodeRestarts, clients, Unread, StrayInv, TypeOK
<1>2. CASE NodeHangs(n)
  <2>1. n \notin hung /\ hung' = hung \cup {n} /\ stray' = stray /\ troubles' = troubles + 1
    BY <1>2 DEF NodeHangs
  <2>2. IsFiniteSet(hung)' /\ Cardinality(hung)' = Cardinality(hung) + 1
    BY <1>1, <2>1, FS_AddElement
  <2>3. Owed' = Owed + 1
    BY <1>1, <2>2, OwedCounts DEF Owed
  <2> QED
    BY <1>1, <2>1, <2>2, <2>3, OwedCounts, StrayStep
<1>3. CASE NodeRestarts(n)
  <2>1. hung' = hung \ {n} /\ IF n \in hung THEN troubles' = troubles ELSE troubles' = troubles + 1
    BY <1>3 DEF NodeRestarts
  <2>2. IsFiniteSet(hung)' /\ Cardinality(hung)' = IF n \in hung THEN Cardinality(hung) - 1
                                                   ELSE Cardinality(hung)
    BY <1>1, <2>1, FS_RemoveElement
  <2>3. Owed' = IF n \in hung THEN Owed - 1 ELSE Owed
    BY <1>1, <2>2, OwedCounts DEF Owed
  <2>4. troubles + Owed' < troubles' + Owed /\ troubles + Owed' <= troubles' + Owed
    BY <1>1, <2>1, <2>3, OwedCounts
  <2>5. ASSUME NEW t \in Threads PROVE stray'[t] <= stray[t] + MaxList
    <3>1. stray'[t] = stray[t] + named[t] \/ stray'[t] = stray[t]
      BY <1>3 DEF NodeRestarts
    <3> QED
      BY <3>1, HttpAssumption DEF TypeOK, ThreadsTyped
  <2> QED
    BY <1>1, <2>2, <2>4, <2>5, StrayStep
<1> QED
  BY <1>2, <1>3

LEMMA StoreFailsKeepsStrayInv ==
  ASSUME TypeOK, TypeOK', StrayInv, NEW t \in Threads, StoreFails(t)
  PROVE  StrayInv'
<1>1. hung' = hung /\ Unread' = Unread /\ troubles' = troubles + 1 /\ troubles \in Nat
  BY DEF StoreFails, clients, Unread, TypeOK
<1>2. Owed' = Owed /\ IsFiniteSet(hung)' /\ IsFiniteSet(Unread)'
  BY <1>1 DEF Owed, StrayInv
<1>3. PICK stored \in 0..MaxList : stray' = [stray EXCEPT ![t] = @ + stored]
  BY DEF StoreFails
<1>4. ASSUME NEW s \in Threads PROVE stray'[s] <= stray[s] + MaxList
  BY <1>3, HttpAssumption DEF TypeOK
<1> QED
  BY <1>1, <1>2, <1>4, OwedCounts, StrayStep

(* The answer to a client that has left is the last of its trouble.        *)
LEMMA AnswerKeepsStrayInv ==
  ASSUME TypeOK, TypeOK', ConnInv, StrayInv, NEW t \in Threads, Answer(t)
  PROVE  StrayInv'
<1> DEFINE c == sock[t]
<1>1. /\ at[t] \in {"served", "refused"} /\ UNCHANGED <<gone, hung, troubles>>
      /\ sent' = [sent EXCEPT ![c] = FALSE]
      /\ stray' = [stray EXCEPT ![t] = IF c \in gone THEN @ + named[t] ELSE @]
  BY DEF Answer, Respond
<1>2. c \in Conns /\ sent[c]
  BY <1>1 DEF TypeOK, ThreadsTyped, ConnInv, RequestsAreSent
<1>3. Unread' = Unread \ {c}
  BY <1>1, <1>2 DEF Unread, TypeOK, ClientsTyped
<1>4. CASE c \notin gone
  <2>1. stray' = stray
    BY <1>1, <1>4 DEF TypeOK
  <2> QED
    BY <1>1, <1>3, <2>1, QuietKeepsStrayInv
<1>5. CASE c \in gone
  <2>1. c \in Unread
    BY <1>2, <1>5 DEF Unread
  <2>2. IsFiniteSet(Unread)' /\ Cardinality(Unread)' = Cardinality(Unread) - 1
    BY <1>3, <2>1, FS_RemoveElement DEF StrayInv
  <2>3. Owed' = Owed - 1 /\ IsFiniteSet(hung)' /\ troubles \in Nat
    BY <1>1, <2>2, OwedCounts DEF Owed, StrayInv, TypeOK
  <2>4. ASSUME NEW s \in Threads PROVE stray'[s] <= stray[s] + MaxList
    BY <1>1, HttpAssumption DEF TypeOK, ThreadsTyped
  <2>5. troubles + Owed' < troubles' + Owed /\ troubles + Owed' <= troubles' + Owed
    BY <1>1, <2>3, OwedCounts
  <2> QED
    BY <2>2, <2>3, <2>4, <2>5, StrayStep
<1> QED
  BY <1>4, <1>5

LEMMA ThreadKeepsStrayInv ==
  ASSUME TypeOK, TypeOK', ConnInv, StrayInv, NEW t \in Threads, ThreadStep(t) \/ WakeSpuriously(t)
  PROVE  StrayInv'
<1>1. CASE Answer(t)
  BY <1>1, AnswerKeepsStrayInv
<1>2. CASE CloseSocket(t)
  <2>1. UNCHANGED <<hung, stray, troubles>> /\ gone' = gone \ {sock[t]}
        /\ sent' = [sent EXCEPT ![sock[t]] = FALSE]
    BY <1>2 DEF CloseSocket, outside
  <2>2. Unread' \subseteq Unread
    BY <2>1 DEF Unread, TypeOK, ClientsTyped
  <2> QED
    BY <2>1, <2>2, QuietKeepsStrayInv
<1>3. CASE ~Answer(t) /\ ~CloseSocket(t)
  <2>1. UNCHANGED <<hung, stray, troubles, sent, gone>>
    <3>1. CASE Handle(t)
      BY <3>1, HandleForwards DEF Forward, clients, outside
    <3> QED
      BY <3>1, <1>3 DEF ThreadStep, WakeSpuriously, Take, Sleep, StopReading, Serve,
         StoreFiles, clients, outside
  <2> QED
    BY <2>1, QuietKeepsStrayInv DEF Unread
<1> QED
  BY <1>1, <1>2, <1>3

LEMMA NextStrayInv == TypeOK /\ TypeOK' /\ ConnInv /\ StrayInv /\ [Next]_vars => StrayInv'
<1> SUFFICES ASSUME TypeOK, TypeOK', ConnInv, StrayInv, [Next]_vars PROVE StrayInv'
  OBVIOUS
<1>1. ASSUME NEW c \in Conns, Send(c) \/ Leave(c) \/ Accept(c) PROVE StrayInv'
  BY <1>1, ClientKeepsStrayInv
<1>2. ASSUME NEW t \in Threads, ThreadStep(t) \/ WakeSpuriously(t) PROVE StrayInv'
  BY <1>2, ThreadKeepsStrayInv
<1>3. ASSUME NEW t \in Threads, StoreFails(t) PROVE StrayInv'
  BY <1>3, StoreFailsKeepsStrayInv
<1>4. ASSUME NEW n \in Nodes, NodeHangs(n) \/ NodeRestarts(n) PROVE StrayInv'
  BY <1>4, NodeKeepsStrayInv
<1>5. CASE Notify \/ UNCHANGED vars
  <2>1. UNCHANGED <<hung, stray, troubles, sent, gone>>
    BY <1>5 DEF Notify, vars, clients, outside
  <2> QED
    BY <2>1, QuietKeepsStrayInv DEF Unread
<1> QED
  BY <1>1, <1>2, <1>3, <1>4, <1>5 DEF Next

(* A thread leaves in the storage, without a client that knows them, at    *)
(* most the files of one call for each thing that went wrong: a node that  *)
(* hung or was killed, a full disk, a client that did not wait.            *)
THEOREM StraysStayBounded == Spec => []StrayFilesAreBounded
<1>1. Init => StrayInv
  <2> SUFFICES ASSUME Init PROVE StrayInv
    OBVIOUS
  <2>1. hung = {} /\ Unread = {} /\ troubles = 0 /\ \A t \in Threads : stray[t] = 0
    BY DEF Init, Unread
  <2>2. Owed = 0
    BY <2>1, FS_EmptySet DEF Owed
  <2> QED
    BY <2>1, <2>2, FS_EmptySet, HttpAssumption DEF StrayInv
<1>2. TypeOK /\ StrayInv => StrayFilesAreBounded
  <2> SUFFICES ASSUME TypeOK, StrayInv, NEW t \in Threads PROVE stray[t] <= troubles * MaxList
    BY DEF StrayFilesAreBounded
  <2>1. /\ Owed \in Nat /\ troubles \in Nat /\ MaxList \in Nat /\ stray[t] \in Nat
        /\ Owed <= troubles /\ stray[t] <= (troubles - Owed) * MaxList
    BY OwedCounts, HttpAssumption DEF TypeOK, StrayInv
  <2>2. PICK a \in Nat : a = troubles - Owed /\ a <= troubles
    BY <2>1
  <2>3. a * MaxList <= troubles * MaxList /\ a * MaxList \in Nat /\ troubles * MaxList \in Nat
    BY <2>1, <2>2, TimesMonotone
  <2> QED
    BY <2>1, <2>2, <2>3
<1> QED
  BY <1>1, <1>2, InitConnInv, NextConnInv, NextStrayInv, TypeCorrect, PTL DEF Spec
=============================================================================
