----------------------------- MODULE HttpServer -----------------------------
(***************************************************************************)
(* The way of an http request through the gateway: the thread pool and the *)
(* keep-alive loop of httplib::Server (third/include/httplib.h), the       *)
(* handlers of server/gateway/source/gateway_server.hpp that forward one   *)
(* call, the call itself (common/channel.hpp: no timeout, some retries),   *)
(* and the file service, whose PutMultiFile may stop half way.             *)
(*                                                                         *)
(* A connection is a job of the pool: a thread of the pool serves its      *)
(* requests one after the other, waits for the next one for some seconds,  *)
(* and closes it after KeepAliveMax requests.  What a call changes in the  *)
(* other services is in their modules; here it is the time it takes.       *)
(***************************************************************************)
EXTENDS Naturals, Sequences, FiniteSets

CONSTANTS
  Conns,         \* connections of clients
  Threads,       \* threads of the pool
  Nodes, NoNode, \* the processes that serve calls
  NodesOf,       \* service -> the nodes it has had
  NoConn,
  KeepAliveMax,  \* CPPHTTPLIB_KEEPALIVE_MAX_COUNT
  MaxRetry,      \* options.max_retry
  MaxList,       \* bound: files in one PutMultiFile
  MaxTroubles    \* bound: hangs, restarts, full disks, clients that do not wait

Services == {"user", "friend", "message", "file", "speech"}

ASSUME HttpAssumption ==
  /\ IsFiniteSet(Threads)
  /\ NodesOf \in [Services -> SUBSET Nodes]
  /\ NoConn \notin Conns /\ NoNode \notin Nodes
  /\ KeepAliveMax \in Nat \ {0} /\ MaxRetry \in Nat
  /\ MaxList \in Nat \ {0} /\ MaxTroubles \in Nat

VARIABLES
  line,      \* where a connection is
  sent,      \* whether its client has a request out
  gone,      \* connections whose client has left
  jobs,      \* ThreadPool::jobs_
  listener,  \* the thread in listen_internal
  at,        \* where a thread of the pool is
  sock,      \* the connection it serves
  left,      \* the requests it will still serve on it
  call,      \* the call it waits for
  named,     \* the files its answer will name
  hung,      \* nodes that do not answer
  stray,     \* per thread, files that are stored and that no client was given the id of
  troubles

pool == <<jobs, listener>>
threads == <<at, sock, left, call, named>>
clients == <<line, sent, gone>>
outside == <<hung, stray, troubles>>
vars == <<pool, threads, clients, outside>>

NoCall == [node |-> NoNode, puts |-> 0, tries |-> 0]
Calls == [node : Nodes, puts : 0..MaxList, tries : 0..MaxRetry] \cup {NoCall}
Places == {"pool", "asleep", "reading", "called", "served", "refused", "closing"}

ClientsTyped ==
  /\ line \in [Conns -> {"closed", "queued", "open", "last"}]
  /\ sent \in [Conns -> BOOLEAN]
  /\ gone \subseteq Conns

(* A thread has a connection while it serves one, with requests left while *)
(* it waits for the next or works on it, and a call while it waits for a   *)
(* node.                                                                   *)
ThreadsTyped ==
  /\ at \in [Threads -> Places]
  /\ sock \in [Threads -> Conns \cup {NoConn}]
  /\ left \in [Threads -> 0..KeepAliveMax]
  /\ call \in [Threads -> Calls]
  /\ named \in [Threads -> 0..MaxList]
  /\ \A t \in Threads :
       /\ sock[t] = NoConn <=> at[t] \in {"pool", "asleep"}
       /\ at[t] \in {"reading", "called", "served", "refused"} => left[t] > 0
       /\ call[t] # NoCall <=> at[t] \in {"called", "served"}

TypeOK ==
  /\ ClientsTyped /\ ThreadsTyped
  /\ jobs \in Seq(Conns) /\ listener \in {"accept", "notify"}
  /\ hung \subseteq Nodes /\ stray \in [Threads -> Nat] /\ troubles \in 0..MaxTroubles

Init ==
  /\ line = [c \in Conns |-> "closed"]
  /\ sent = [c \in Conns |-> FALSE]
  /\ gone = {} /\ jobs = <<>> /\ listener = "accept"
  /\ at = [t \in Threads |-> "pool"]
  /\ sock = [t \in Threads |-> NoConn]
  /\ left = [t \in Threads |-> 0]
  /\ call = [t \in Threads |-> NoCall]
  /\ named = [t \in Threads |-> 0]
  /\ hung = {} /\ stray = [t \in Threads |-> 0] /\ troubles = 0

In(place) == {t \in Threads : at[t] = place}

-----------------------------------------------------------------------------
(* Clients.  A client opens a connection for a request, and has one out at *)
(* a time; it may leave without waiting for the answer.  One that leaves   *)
(* between two requests, or asks for "Connection: close", is as one that   *)
(* sends nothing more.                                                     *)

Send(c) ==
  /\ line[c] = "open" /\ ~sent[c]
  /\ sent' = [sent EXCEPT ![c] = TRUE]
  /\ UNCHANGED <<pool, threads, line, gone, outside>>

Leave(c) ==
  /\ sent[c] /\ c \notin gone /\ troubles < MaxTroubles
  /\ gone' = gone \cup {c}
  /\ troubles' = troubles + 1
  /\ UNCHANGED <<pool, threads, line, sent, hung, stray>>

-----------------------------------------------------------------------------
(* The listening thread: enqueue pushes a job under the mutex and wakes a  *)
(* thread after it has released it.                                        *)

Enqueue(c, next) ==
  /\ listener = "accept" /\ line[c] = "closed"
  /\ line' = [line EXCEPT ![c] = "queued"]
  /\ sent' = [sent EXCEPT ![c] = TRUE]
  /\ jobs' = Append(jobs, c)
  /\ listener' = next
  /\ UNCHANGED <<threads, gone, outside>>

(* A bug: nobody is woken if jobs have been waiting already.               *)
AcceptUnnoticed(c) == Enqueue(c, IF jobs = <<>> THEN "notify" ELSE "accept")

Accept(c) == Enqueue(c, "notify")

(* notify_one: one of the threads that sleep, if there is one. *)
Notify ==
  /\ listener = "notify"
  /\ listener' = "accept"
  /\ \/ In("asleep") = {} /\ UNCHANGED at
     \/ \E t \in In("asleep") : at' = [at EXCEPT ![t] = "pool"]
  /\ UNCHANGED <<jobs, sock, left, call, named, clients, outside>>

(* A thread of the pool that holds the mutex takes a job or goes to sleep. *)
Take(t) ==
  /\ at[t] = "pool" /\ jobs # <<>>
  /\ jobs' = Tail(jobs)
  /\ at' = [at EXCEPT ![t] = "reading"]
  /\ sock' = [sock EXCEPT ![t] = Head(jobs)]
  /\ left' = [left EXCEPT ![t] = KeepAliveMax]
  /\ line' = [line EXCEPT ![Head(jobs)] = "open"]
  /\ UNCHANGED <<listener, call, named, sent, gone, outside>>

Sleep(t) ==
  /\ at[t] = "pool" /\ jobs = <<>>
  /\ at' = [at EXCEPT ![t] = "asleep"]
  /\ UNCHANGED <<pool, sock, left, call, named, clients, outside>>

(* A condition variable may wake a thread for no reason. *)
WakeSpuriously(t) ==
  /\ at[t] = "asleep"
  /\ at' = [at EXCEPT ![t] = "pool"]
  /\ UNCHANGED <<pool, sock, left, call, named, clients, outside>>

-----------------------------------------------------------------------------
(* The loop over the requests of a connection.                             *)

(* No request within the keep-alive timeout, or the client has closed.     *)
StopReading(t) ==
  /\ at[t] = "reading" /\ ~sent[sock[t]]
  /\ at' = [at EXCEPT ![t] = "closing"]
  /\ UNCHANGED <<pool, sock, left, call, named, clients, outside>>

(* A request that has arrived meanwhile is lost with the connection.       *)
CloseSocket(t) ==
  /\ at[t] = "closing"
  /\ at' = [at EXCEPT ![t] = "pool"]
  /\ line' = [line EXCEPT ![sock[t]] = "closed"]
  /\ sent' = [sent EXCEPT ![sock[t]] = FALSE]
  /\ gone' = gone \ {sock[t]}
  /\ sock' = [sock EXCEPT ![t] = NoConn]
  /\ left' = [left EXCEPT ![t] = 0]
  /\ UNCHANGED <<pool, call, named, outside>>

(* A handler answers with an error before it has called anybody (the body  *)
(* cannot be parsed, redis does not know the login session or throws, the  *)
(* service has no node), or calls a node of its service.                   *)
Forward(t, service, puts) ==
  /\ at[t] = "reading" /\ sent[sock[t]]
  /\ \/ at' = [at EXCEPT ![t] = "refused"] /\ UNCHANGED call
     \/ \E n \in NodesOf[service] :
          /\ at' = [at EXCEPT ![t] = "called"]
          /\ call' = [call EXCEPT ![t] = [node |-> n, puts |-> puts, tries |-> 0]]
  /\ UNCHANGED <<pool, sock, left, named, clients, outside>>

GetPhoneVerifyCode(t) == Forward(t, "user", 0)
UserRegister(t) == Forward(t, "user", 0)
UserLogin(t) == Forward(t, "user", 0)
PhoneRegister(t) == Forward(t, "user", 0)
PhoneLogin(t) == Forward(t, "user", 0)
GetUserInfo(t) == Forward(t, "user", 0)
SetUserAvatar(t) == Forward(t, "user", 0)
SetUserNickname(t) == Forward(t, "user", 0)
SetUserDescription(t) == Forward(t, "user", 0)
SetUserPhoneNumber(t) == Forward(t, "user", 0)
GetFriendList(t) == Forward(t, "friend", 0)
FriendSearch(t) == Forward(t, "friend", 0)
GetPendingFriendEventList(t) == Forward(t, "friend", 0)
GetChatSessionList(t) == Forward(t, "friend", 0)
GetChatSessionMember(t) == Forward(t, "friend", 0)
GetHistoryMsg(t) == Forward(t, "message", 0)
GetRecentMsg(t) == Forward(t, "message", 0)
MsgSearch(t) == Forward(t, "message", 0)
GetSingleFile(t) == Forward(t, "file", 0)
GetMultiFile(t) == Forward(t, "file", 0)
PutSingleFile(t) == Forward(t, "file", 1)
PutMultiFile(t) == \E puts \in 0..MaxList : Forward(t, "file", puts)
SpeechRecognition(t) == Forward(t, "speech", 0)

Handle(t) ==
  \/ GetPhoneVerifyCode(t) \/ UserRegister(t) \/ UserLogin(t)
  \/ PhoneRegister(t) \/ PhoneLogin(t) \/ GetUserInfo(t)
  \/ SetUserAvatar(t) \/ SetUserNickname(t)
  \/ SetUserDescription(t) \/ SetUserPhoneNumber(t)
  \/ GetFriendList(t) \/ FriendSearch(t) \/ GetPendingFriendEventList(t)
  \/ GetChatSessionList(t) \/ GetChatSessionMember(t)
  \/ GetHistoryMsg(t) \/ GetRecentMsg(t) \/ MsgSearch(t)
  \/ GetSingleFile(t) \/ GetMultiFile(t)
  \/ PutSingleFile(t) \/ PutMultiFile(t) \/ SpeechRecognition(t)

-----------------------------------------------------------------------------
(* The node that was called.                                               *)

Waiting(t) == at[t] \in {"called", "served"}
Stuck(t) == Waiting(t) /\ call[t].node \in hung

(* A call that stores no file. *)
Serve(t) ==
  /\ at[t] = "called" /\ ~Stuck(t) /\ call[t].puts = 0
  /\ at' = [at EXCEPT ![t] = "served"]
  /\ UNCHANGED <<pool, sock, left, call, named, clients, outside>>

(* A bug: the response of PutMultiFile is not marked as a success.         *)
StoreUnmarked(t) ==
  /\ at[t] = "called" /\ ~Stuck(t) /\ call[t].puts > 0
  /\ at' = [at EXCEPT ![t] = "served"]
  /\ stray' = [stray EXCEPT ![t] = @ + call[t].puts]
  /\ UNCHANGED <<pool, sock, left, call, named, clients, hung, troubles>>

(* PutSingleFile, PutMultiFile of the file service: each file gets a new   *)
(* id.                                                                     *)
StoreFiles(t) ==
  /\ at[t] = "called" /\ ~Stuck(t) /\ call[t].puts > 0
  /\ at' = [at EXCEPT ![t] = "served"]
  /\ named' = [named EXCEPT ![t] = call[t].puts]
  /\ UNCHANGED <<pool, sock, left, call, clients, outside>>

(* A file cannot be written: those before it stay, and the answer says     *)
(* that the request failed.                                                *)
StoreFails(t) ==
  /\ at[t] = "called" /\ ~Stuck(t) /\ troubles < MaxTroubles
  /\ \E stored \in 0..MaxList :
       stored < call[t].puts /\ stray' = [stray EXCEPT ![t] = @ + stored]
  /\ at' = [at EXCEPT ![t] = "served"]
  /\ troubles' = troubles + 1
  /\ UNCHANGED <<pool, sock, left, call, named, clients, hung>>

(* A node that goes on holding its connections and answers nobody.         *)
NodeHangs(n) ==
  /\ n \notin hung /\ troubles < MaxTroubles
  /\ hung' = hung \cup {n}
  /\ troubles' = troubles + 1
  /\ UNCHANGED <<pool, threads, clients, stray>>

(* A node is killed and comes back: the calls that wait for it break, all  *)
(* of them, since they share a connection.  brpc sends a broken call again *)
(* as often as max_retry allows; it fails if the node is not back by then. *)
(* What the node had done for it is not undone.                            *)
NodeRestarts(n) ==
  LET broken == {t \in Threads : Waiting(t) /\ call[t].node = n}
      retryable == {t \in broken : call[t].tries < MaxRetry}
  IN
  /\ IF n \in hung
     THEN UNCHANGED troubles
     ELSE broken # {} /\ troubles < MaxTroubles /\ troubles' = troubles + 1
  /\ \E again \in SUBSET retryable :
       /\ at' = [t \in Threads |-> IF t \in again THEN "called"
                                   ELSE IF t \in broken THEN "refused" ELSE at[t]]
       /\ call' = [t \in Threads |-> IF t \in again THEN [call[t] EXCEPT !.tries = @ + 1]
                                     ELSE IF t \in broken THEN NoCall ELSE call[t]]
  /\ named' = [t \in Threads |-> IF t \in broken THEN 0 ELSE named[t]]
  /\ stray' = [t \in Threads |-> IF t \in broken THEN stray[t] + named[t] ELSE stray[t]]
  /\ hung' = hung \ {n}
  /\ UNCHANGED <<pool, sock, left, clients>>

-----------------------------------------------------------------------------
(* The answer of the node arrives, or the handler has its own, and the     *)
(* thread writes it, says whether it is the last of the connection, and    *)
(* goes on with "rest" more requests.                                      *)
Respond(t, last, rest) ==
  /\ at[t] \in {"served", "refused"} /\ ~Stuck(t)
  /\ at' = [at EXCEPT ![t] = IF last THEN "closing" ELSE "reading"]
  /\ line' = [line EXCEPT ![sock[t]] = IF last THEN "last" ELSE "open"]
  /\ left' = [left EXCEPT ![t] = rest]
  /\ sent' = [sent EXCEPT ![sock[t]] = FALSE]
  /\ call' = [call EXCEPT ![t] = NoCall]
  /\ named' = [named EXCEPT ![t] = 0]
  /\ stray' = [stray EXCEPT ![t] = IF sock[t] \in gone THEN @ + named[t] ELSE @]
  /\ UNCHANGED <<pool, sock, gone, hung, troubles>>

(* A bug: the requests of a connection are not counted.                    *)
AnswerUncounted(t) == Respond(t, sock[t] \in gone, left[t])

Answer(t) == Respond(t, left[t] = 1 \/ sock[t] \in gone, left[t] - 1)

ThreadStep(t) ==
  \/ Take(t) \/ Sleep(t) \/ StopReading(t) \/ CloseSocket(t)
  \/ Handle(t) \/ Serve(t) \/ StoreFiles(t) \/ Answer(t)

Next ==
  \/ \E c \in Conns : Send(c) \/ Leave(c) \/ Accept(c)
  \/ Notify
  \/ \E t \in Threads : ThreadStep(t) \/ WakeSpuriously(t) \/ StoreFails(t)
  \/ \E n \in Nodes : NodeHangs(n) \/ NodeRestarts(n)

Spec == Init /\ [][Next]_vars

(* Threads run, and a node that does not hang answers. *)
FairSpec ==
  /\ Spec
  /\ WF_vars(Notify)
  /\ \A t \in Threads : WF_vars(ThreadStep(t))

-----------------------------------------------------------------------------
(* No connection waits while all that could serve it sleep: notify_one is  *)
(* called after the mutex was released, when other threads may have come   *)
(* and gone, and wakes one thread whether or not it finds a job.  If       *)
(* anybody sleeps, each job has a thread that is about to look, or the     *)
(* call that will wake one is still to come.                               *)
NoJobForgotten ==
  In("asleep") # {} =>
    Len(jobs) <= Cardinality(In("pool")) + (IF listener = "notify" THEN 1 ELSE 0)

(* Every request ends, with an answer or with the closing of its           *)
(* connection, however many requests others go on sending on theirs: or    *)
(* its own call, or the calls of all threads, wait for a node that hangs,  *)
(* and with timeout_ms = -1 do so until it is restarted.                   *)
RequestsEnd ==
  \A c \in Conns :
    sent[c] ~> (\/ ~sent[c]
                \/ \E t \in Threads : sock[t] = c /\ Stuck(t)
                \/ \A t \in Threads : Stuck(t))

(* A file is in the storage for good, since nobody deletes any: one whose  *)
(* id no client has been given is the work of a trouble (a hang and the    *)
(* restart that ends it are one), and each trouble leaves a thread no more *)
(* than the files of one call.                                             *)
StrayFilesAreBounded == \A t \in Threads : stray[t] <= troubles * MaxList
=============================================================================
