# line_chat in TLA+

`line_chat` is a chat server in C++: an http and websocket gateway in front of
small brpc services (user, friend, message, transmit, file, speech), which find
each other through etcd and keep their state in MySQL (by ODB), redis,
elasticsearch and files. Messages reach the message service through RabbitMQ.
This directory holds TLA+ modules of those parts whose correctness depends on
order: of steps of several handlers, of processes, of failures and restarts.

Everything below refers to `src/server`. `src/prev_code` holds learning
experiments with the libraries, `third` vendored code, `depends` binaries: of
these only what serves http requests in `third/include/httplib.h` is modelled.

## 1. Inventory

| part | state it keeps | operations | talks to |
|---|---|---|---|
| gateway, http side (`gateway/source/gateway_server.hpp`) | none of its own | one handler per url: session id to user by redis, forward to a service, notify | every service, redis, the connection maps |
| http server (`third/include/httplib.h`, vendored) | `jobs_`, the threads of the pool, one connection each | accept, enqueue, the worker, the keep-alive loop | the handlers of the gateway |
| gateway, websocket side (`gateway_server.hpp`, `connection.hpp`) | `_uid_connections`, `_conn_clients` | `onOpen`, `onMessage`, `onClose`, `keepAlive` | redis |
| user service (`user/source/user_server.hpp`) | MySQL `user`, redis session, mark and verify codes, elasticsearch documents | register, login (by name, by phone), verify code, get, set | MySQL, redis, elasticsearch, file service, SMS |
| friend service (`friend/source/friend_server.hpp`) | MySQL `relation`, `friend_apply`, `chat_session`, `chat_session_member` | `FriendAdd`, `FriendAddProcess`, `FriendRemove`, `ChatSessionCreate`, and lists | MySQL, elasticsearch, user service, message service |
| transmit service (`transmit/source/transmit_server.hpp`) | none | `GetTransmitTarget`: name the message, read the members, publish | user service, MySQL, RabbitMQ |
| message service (`message/source/message_server.hpp`) | MySQL `message`, elasticsearch documents | `onMessage` (store), `GetHistoryMsg`, `GetRecentMsg`, `MsgSearch` | MySQL, elasticsearch, file and user service |
| file service (`file/source/file_server.hpp`) | one file per uuid | put and get, one or several | disk |
| speech service (`speech/source/speech_server.hpp`) | none | `SpeechRecognition` | an external recogniser |
| discovery (`common/etcd.hpp`, `common/channel.hpp`) | etcd keys with a lease; per consumer `_services`, `_hosts`, `_channels`, `_index` | `registry`, `Discovery` (list, watch), `append`, `remove`, `choose` | etcd |
| RabbitMQ client (`common/rabbitmq.hpp`) | one AMQP channel and its loop thread | `publish`, `consume` | RabbitMQ |

### What is hard about it

* **Interleaving.** brpc runs each request in a bthread. A handler is a series
  of separate MySQL transactions or redis commands with other handlers between
  them: check-then-insert (`FriendAdd`, the registrations, the logins),
  read-then-write-back (the setters), insert in two tables (`FriendAddProcess`).
* **Partial failure and restart.** A table call that throws is turned into
  `false`; earlier transactions of the handler stay. Every container has
  `restart: always`: a killed process comes back with an empty memory, while
  the databases, redis and etcd keep what they had.
* **Order of events.** An etcd lease outlives its process by three seconds; a
  websocket close is seen after the client has come back; RabbitMQ delivers
  again what was not acknowledged.
* **Waiting.** A call of brpc has no timeout and is sent again when its connection
  breaks; it holds one of the few threads of the http server, and so does a client
  that keeps its connection open.
* **Shared state across services.** A login session is a redis key, a redis
  mark, an entry in each of two maps of the gateway, and a token in a client.

`PROJECT.json` lists each place where this bites, with its line and the property
that would catch it going wrong, or the reason why there is none.

### What makes each part correct

* *Friend service*: friendship is symmetric; no member row without session; a
  private session has two members; friends have a chat; a group is never touched
  by what is done to private chats; an agreement reaches its chat.
* *Discovery*: with nothing left to handle, a consumer has exactly one channel to
  each registered address and none to others, but for addresses one of whose own
  changes was not heard or not taken up; dead nodes leave; live ones get their turn.
* *Login and connections*: one session per user; the mark tells whether a user is
  logged in; the maps agree; nobody is locked out for good.
* *Message pipeline*: the history is what was accepted, in that order, once, but for
  what was refused or lost; what is in it can be searched and its file fetched.
* *Profiles*: names and phones are unique; the search shows the row; a setting
  sticks; an avatar has its file.
* *Http server*: no connection waits while threads sleep; every request ends, unless
  it waits for a node that hangs.
* *Gateway*: what a device was told last about another user is true, but where a
  failure left it untold or two requests crossed; whoever is online is told, unless
  he was let in while an old connection of his was known.

## 2. Modules

| module | models | abstract counterpart | instance |
|---|---|---|---|
| `FriendService` | `FriendServiceImpl` and the four tables | `Friendship` | `MCFriendService` |
| `ServiceDiscovery` | `Registry`, `Discovery`, `ServiceManager`, `ServiceChannel` | | `MCServiceDiscovery` |
| `LoginSession` | login handlers, redis keys, websocket thread, `Connection` | | `MCLoginSession` |
| `MessagePipeline` | `NewMessage`, `GetTransmitTarget`, `MQClient`, `onMessage` | `ChatLog` | `MCMessageReading` |
| `MessageReading` | `GetHistoryMsg`, `GetRecentMsg`, `MsgSearch`, beside the pipeline | | `MCMessageReading` |
| `Gateway` | six http handlers of the gateway, notifications, connections that overlap, calls that fail half way or come late | | `MCGateway` |
| `HttpServer` | httplib's pool and keep-alive loop, the 23 handlers that forward one call, calls that hang or break, the file service | | `MCHttpServer` |
| `UserProfile` | registration and setters over MySQL, elasticsearch, files | | `MCUserProfile` |

Theorems about a module `M` are in `MProofs`: `FriendServiceProofs`,
`ServiceDiscoveryProofs`, `LoginSessionProofs`, `MessagePipelineProofs`,
`MessageReadingProofs`, `GatewayProofs`, `HttpServerProofs`, `UserProfileProofs`.

Each component module has one action per call of a store (friend service,
profiles, pipeline), per redis command (login) or per critical section
(discovery), and one action per kind of failure. Definitions keep the source's
names in CamelCase; `PROJECT.json` maps each of them to its lines. An operator that
is introduced by "A bug:" is not part of a specification: it is a wrong form of
the definition next to it, used to show that the properties notice it.

### FriendService

A table is the number of its rows per key, because only `chat_session` has a
unique index, so rows really can double. The state of a handler is the next table
call (`pc`), its request (`req`) and the session it works on (`cssid`).

| code | actions |
|---|---|
| `FriendAdd` | `FriendAdd`, `AddRelationExists`, `AddApplyExists`, `AddApplyInsert` |
| `FriendAddProcess` | `FriendAddProcess`, `ProcessApplyExists`, `ProcessApplyRemove`, `ProcessRelationInsert`, `ProcessSessionInsert`, `ProcessMemberAppend` |
| `FriendRemove` | `FriendRemove`, `RemoveRelation`, `RemoveSessionFind`, `RemoveSessionFindNone`, `RemoveSessionFindMany`, `RemoveSessionErase` |
| `ChatSessionCreate` | `ChatSessionCreate`, `CreateSessionInsert`, `CreateMemberAppend` |
| a table call returns false | `TableCallFails`, `ExistsFails` |
| the container is killed | `ProcessKilled` |

`FriendRemove` calls `ChatSessionTable::remove(uid, pid)`, one transaction of a
plain `SELECT` and two `DELETE`s. InnoDB's repeatable read gives the `SELECT` a
snapshot and no lock, so the lookup and the erasing are two steps. `query_one`
answers null when nothing matches, and the code reads through that pointer; with
more than one row ODB's `result<T>::one()` asserts (`++i == end ()`), and the
CMake files do not switch assertions off. Either way the process ends
(`ProcessAborts`), and docker starts it again.

The lists (`GetFriendList`, `GetPendingFriendEventList`,
`GetChatSessionMember`), `GetChatSessionList` and `FriendSearch` are operators:
the properties speak of what they show.

Assumed: a client does not name itself as the peer (`uid # pid`). The bounds
are `MaxRows` (an agreement is not begun when the two are friends that many times
over), `MaxFaults`, `MaxCrashes`, the session ids (`IdLeft`: a request that needs
one finds one left).

### ServiceDiscovery

One consumer. `key` and `lease` are etcd; `running` is what really runs.
`ListKeys`, `OpenWatch` are the two halves of the constructor of `Discovery`;
`TakeEvent` is the callback up to the release of the manager's mutex and
`UpdateChannel` the rest, under the channel's mutex. `Choose` takes both in
`ServiceManager::choose`. A channel is an object, not an address, because
`append` makes one for every PUT: `_hosts` keeps the first and `_channels` gets
all. `AppendFails` is the other end of `append`: `channel->Init` fails, the line is
logged and nobody tries again. `ErrorNotified` is a notification of the watch that is an
error, which the callback drops with the change it would have brought. `_index` is an `int32_t` that is incremented without bound and turned into a
`size_t` before `%`: `IndexHalf` and `SizeRange` stand for 2^31 and 2^64.

etcd is external: a lease that is not kept alive ends some time later, the watch
reports changes in order, and only those made after it was opened. Assumed: a
node of a key has a fixed address (`access_host` in its .conf), and handlers start
after the constructor of `Discovery` has returned (they are registered later in
`main`). `MaxStarts` bounds the starts of nodes; `MaxTroubles` bounds the
events that the properties except or that cost most states: second
registrations within a lease, changes nobody heard of, lost leases, failed
registrations, listings, notifications and channels, restarts of the consumer.

`unheard` is a history variable: the addresses of which the consumer, since it
started, was not told a change, could not take one up, or was told one out of turn (a
node registered again while its old key was there). What the properties say of one
address excepts only what happened to this address.

### LoginSession

`session`, `status` and `codes` are the redis keys; `uid_connections` and
`conn_clients` are the gateway's maps; `open`, `greeting` and `ws` are the
websocket loop: connections it has, the authentication message in flight, and
the `onClose` it is in the middle of. `token` and `link` are the client.

| code | actions |
|---|---|
| `GetPhoneVerifyCode`, its 5 minutes | `GetPhoneVerifyCode`, `CodeExpires` |
| `UserLogin`, `PhoneLogin` | `UserLogin`, `PhoneLogin`, `CodeGet`, `CodeRemove`, `StatusExists`, `SessionAppend`, `StatusAppend` |
| `onMessage`, `Connection::insert` | `OnMessage` |
| `onClose`, `Connection::remove` | `OnCloseUnknown`, `OnClose`, `CloseSessionRemove`, `CloseStatusRemove`, `CloseConnectionsRemove` |
| processes | `UserServiceKilled`, `GatewayKilled` |
| clients | `Connect`, `Disconnect`, `Forget` |

`onMessage` is one step: the websocket loop is one thread and nobody else deletes
a login session. Assumed: a client authenticates once per connection; a redis
command that throws is caught nowhere and so is a kill.

### MessagePipeline

A request of a sender goes through `NewMessage`, `GetMembers`, `Publish` and
`ReplyAndNotify`; the message service through `Consume`, `IndexMessage` or
`PutFile`, `InsertMessage` and `Ack`. `queue` is what RabbitMQ has and was not
acknowledged: a message stays at its head while it is being stored.
`PublishRaced` models the unguarded use of one AMQP channel by request threads
and loop thread: two publishers at once may ruin a message. `BrokerRestarts`
empties the queue, which is declared without `durable`. `message_id` is unique,
so a redelivered message is refused by MySQL; the elasticsearch document has the
message's id and is replaced; each `_PutFile` makes another file. `refused` and `lost`
remember the messages a store failed on and those that never arrive, so that the
properties except these messages and no others.

### MessageReading

Extends `MessagePipeline` by the handlers that show what it stores: a query
(`GetHistoryMsg`, `GetRecentMsg`, `MsgSearch`), then the files (`GetMultiFile`),
then the users (`GetMultiUserInfo`), with the event loop storing in between. A
query that throws is an empty list and answered with success, which is no step; the
other calls make the answer an error (`CallFails`). A
kill of the service ends both loops, so `PipelineNext` is kept apart from
`MessageServiceKilled`. Times are left out: `create_time` has seconds and is taken
by the transmit service before the message is published, so `Recent` leaves open
which rows are the latest.

### Gateway

Each request has a thread of the http server; `pc` is its next step.

| code | actions |
|---|---|
| a request, its login session | `Request`, `Authenticate` |
| the call of the friend service | `Call`, `CallRefused`, `CallFails`, `CallUnanswered` |
| a query of the service throws: `exists()`, a list | `CallMisjudged`, `CallAnsweredShort` |
| the call's connection breaks | `CallLost`, `LateCall` |
| `_connections->connection(...)` | `Lookup` |
| `_GetUserInfo` | `Info`, `InfoFails`, `InfoBlank`, `ApplicantInfoFails` |
| notifications of `FriendAdd`, `FriendAddProcess`, `FriendRemove` | `Send`, `SendNameless` |
| the loop of `ChatSessionCreate` | `Announce` |
| the answer | `Reply`, `Return` |
| devices, `onMessage`, `onClose` | `GoOnline`, `Disconnect`, `OnClose` |

`FriendAdd` looks up the connection before the data, and asks for the data only
if there is one; `FriendAddProcess` does it the other way round.

*Connections.* `connection` and `client` are the two maps of `Connection`, `link` is the
connection a device has open. A device may come back before the gateway has seen its old
connection close: `insert` then keeps the old entry of the user, notifications go to
a connection nobody reads, and the close of either erases the entry. `overlapped` has
the users let in that way, until they come back with no connection of theirs known. A
new connection starts with an empty screen. `onClose` is one step, since the websocket
loop is one thread; what it does to redis is in `LoginSession`.

*The friend service.* Applications and friendships are what they are before and after its
transactions, chats are left out. A call has its effect and is answered, or it is refused,
or fails before anything has changed; or it has its effect, or half of it
(`HalfEffect`: `FriendAddProcess` has removed the application and not inserted the
relation), and the answer is an error or lost (`CallUnanswered`). An `exists()` that
throws means no, so a friend, or who has applied, applies again (`CallMisjudged`). A list
whose query throws is short, perhaps empty, and answered with success
(`CallAnsweredShort`). A call whose connection breaks goes on at the node while the
gateway sends it again or gives up: it is `late`, and may have its effect, or half of it, at
any later time or never. Init takes any applications and friendships, so a request may
meet whatever earlier requests left: a removal of no friend, an application of a friend.

*News.* `told[u][p]` is what the device of `u` last heard about `p`, by a notification
or an answer. Two requests cross over this news if one changes what the two are to each
other and the other changes or lists it (`Changes`, `Concerns`). `stale` is a history
variable, the news that may be wrong by what the code does: two requests crossed over
it (`Crossed`); a handler or a late call changed it and told nobody (`Untold`); a short
list left it out; or the notification went out without saying of whom it speaks,
because the user service answered with an error that nobody looks at (`InfoBlank`).
It is fresh again when `u` comes online and no request under way concerns it.
`MaxTroubles` bounds the failing calls, the requests that cross another one, and the
connections that overlap.

### HttpServer

A connection is a job of the pool. `line` is where it is (queued, open, told that
it was the last answer), `at` where a thread is, `left` the `count` of
`process_server_socket_core`, `call` the call it waits for.

| code | actions |
|---|---|
| `Server::listen_internal`, `ThreadPool::enqueue` | `Accept`, `Notify` |
| `ThreadPool::worker` | `Take`, `Sleep`, `WakeSpuriously` |
| `process_server_socket_core`, `process_and_close_socket` | `StopReading`, `Answer`, `CloseSocket` |
| the handlers that forward one call | one action each, by `Forward` |
| the file service, and any other | `StoreFiles`, `StoreFails`, `Serve` |
| a node hangs, or is killed and restarted | `NodeHangs`, `NodeRestarts` |
| clients | `Send`, `Leave` |

`enqueue` releases the mutex before `notify_one`, so these are two steps and the
worker's are one each, under the mutex. A handler asks redis for the login session
(but for the first five), chooses a channel and calls; each way to fail before
the call is the same answer here, and what a call changes is in the module of its
service. A node that waits for another one that hangs is itself one that hangs.
brpc keeps one connection to a node, so a kill breaks all calls at it; each is
sent again while `tries` is below `max_retry`, or fails because the node is not
back. `stray` counts, for each thread, the files it had stored whose ids no client was
told in a successful answer.
The thread between `select_read` and the close of the socket is in `"closing"`: a
request that comes in that moment is lost with its connection.

### UserProfile

A handler is `pc`, its user, the column it looks up or sets, and its `User`
object (`copy`). A registration looks for the name or phone, inserts, indexes; a
setter reads the whole row, changes one column of its copy and writes the whole
copy back, then indexes the copy. The unique indexes of `odb/user.hxx` are
`Conflicts`. `registered` and `set` record answers given; `set` forgets a column when
a setter wrote its row and did not answer with success. `overlapped` are the users
with a setter that began while another handler served them, `unindexed` those whose
row was written and whose document was not, until a setter writes it. Requests
refused by a check of their own arguments change nothing and are left out.

## 3. Runs

| run | instance | what it shows |
|---|---|---|
| `MCFriendConcurrent` | 2 users, 2 handlers, 3 sessions, groups, 1 failing call, 1 kill | what the four tables promise each other under any interleaving |
| `MCFriendOrderly` | 3 users, 2 handlers on different pairs, 2 sessions, groups, orderly steps | `FriendService` implements `Friendship`; friend list, session list and search agree |
| `MCFriendRemoveTwice` | 2 users, 2 handlers | **violated**: `FriendRemove` of two users without exactly one chat ends the service |
| `MCDiscovery` | 3 nodes of a followed service, 1 of another, 3 starts, 1 trouble | channels follow the registry, address by address; dead nodes leave, live ones get their turn, over an `_index` of four values that wraps |
| `MCDiscoveryReput` | the same | **violated**: a node that registers again within its lease leaves a channel that nothing removes |
| `MCLogin` | 1 user, 2 devices, 2 sessions, 2 connections, 2 troubles | redis and the maps stay in step, and the user is not locked out |
| `MCMessages` | 2 senders, 2 texts, 1 medium, a reader, 1 failing store, 1 loss, 2 kills | history, index and files belong together; the history is in order; each message that is told is kept, no history has a gap and a search shows what is sent, but for the messages refused or lost |
| `MCMessagesLog` | the same, 2 kills, no failure and no loss | the pipeline implements `ChatLog`, its liveness included |
| `MCMessagesLost` | the same, 1 failing store | **violated**: a message whose store fails once is acknowledged, and its sender was told of success |
| `MCProfile` | 2 users, 2 handlers, 4 requests, 1 failing store, 1 kill | unique names, search follows the row, settings stick, avatars have files |
| `MCHttp` | 3 connections, 2 threads, 2 requests per connection, 2 machines, 1 retry, 1 trouble | no connection is forgotten, every request ends, each trouble leaves a thread at most the files of one call |
| `MCGateway` | 2 users, 2 threads, 3 connections, 2 requests on any applications and friendships, 1 trouble | what users are told is true, but for stale news, and who is online is told, but for users let in over an old connection |

### Why these bounds

* Every hazard named for the tables is a matter of two handlers at two tables
  (or of one handler and a failure); three users are the least for two handlers
  on different pairs, which then share a user. Three sessions let a group and two
  private chats of the same two users exist at once, which is what `FriendRemove`
  has to tell apart; two let two agreements create theirs at the same time.
* Three nodes make `% _channels.size()` meet sizes 1, 2 and 3 while a four-valued
  `_index` wraps; 3 does not divide 4, so the wrap really skips. One trouble is
  enough to break each property that excepts troubles; the properties that bound
  their effect (`StrayChannelsAreBounded`) count them.
* One user is enough for a login: keys, marks and map entries of different users
  do not meet, and the properties, which speak of each user alone, are proved for
  any number of users. Two devices and two connections give an old and a new one, two
  troubles a race on top of a kill, or two kills.
* Three messages are one that is stored, one that waits and one that is sent; two
  kills let the same message come three times. Handlers that read do not meet each
  other, so one reader is enough, and a page of one message is one that leaves
  something out.
* Two users and two threads let two handlers of the same pair meet, or one meet a
  list; three connections give a user who reconnects an old and a new one besides
  the other's. Two requests either meet or follow each other, and since the first finds
  the two users in any state, a third would add no new meeting. One trouble is enough to
  break each property if what it excepts is not excepted.
* Three connections and two threads are the least with one that waits while the
  others are served; two requests per connection make the last one differ from the
  others. The file service has a machine of its own, so a hanging node leaves calls
  that go on. One trouble and the restart that ends it are enough for all threads
  to hang, for a call to be sent twice and for files to go astray.

A set like `raced`, `bereft` or `refused`, or a count like `reputs`, is a history variable. The
property names the events it excepts, because the code gives no protection
against them; without the exception the property is false, and section 6 says so.
Four runs stop at a bound of requests or messages and allow deadlock for that
reason: `MCMessages*` (every message has been sent) and `MCProfile*`.

### Fairness

* `ServiceDiscovery`: weak fairness of the discovery thread and of the expiry of
  each lease that is not kept; `Choose` is fair because `LiveNodesServe` asks for
  a turn among calls that go on being made.
* `LoginSession`: weak fairness of an `onClose` that has begun, strong fairness of
  each websocket event: the loop may be busy with others in between, and
  `keepAlive` pings so that a dead connection is noticed. Clients and logins are not fair.
* `MessageReading`: weak fairness of the message service's event loop. It is restarted
  after a kill (`restart: always`) and the number of kills is bounded.
* `HttpServer`: weak fairness of each thread of the pool, with the node that serves
  its call, and of `Notify`. The keep-alive timeout is a step of the thread, so an idle
  connection is closed. Clients, hangs and restarts are not fair: nothing in the
  code ends a hang.
* `FriendService`, `MessagePipeline`, `UserProfile`, `Gateway`: safety only. (That a
  handler that runs reaches its end is the scheduling of bthreads and no more.)

## 4. Proofs

Every safety property of every passing run is proved for all values of the
constants, the refinements' safety halves included. The constants are constrained by the `...Assumption` of the module that declares them and by nothing
else: names for "nothing" are no values, the sets a proof counts are finite, bounds
are numbers. None of the bounds of section 3 occurs in a proof: theorems hold for any
number of users, handlers, kills and failures.

Each proof module has the same shape: a type invariant, the invariant that carries
the property, a lemma per action or per kind of step that it is kept, a last step
by temporal logic. What differs is why the property is not inductive as it
stands, and that is what the tables and texts below tell.

### Friend service

| theorem | property | argument |
|---|---|---|
| `TypeCorrect` | `TypeOK` | inductive: it holds the type of each request at each step, so later proofs may use `req[w].uid` |
| `FriendshipIsSymmetric` | `RelationSymmetric` | inductive; only two actions write `relation`, each in both directions |
| `MembersHaveSessions`, `PrivateChatsArePairs` | `NoDanglingMembers`, `SingleSessionsArePairs` | conjuncts of `SessionInv` |
| `GroupsAreKept` | `GroupsKeepMembers` | from `SessionInv`: what `FriendRemove` holds is not a group |
| `OrphansNeedFailure` | `MemberlessOnlyByFailure` | inductive with `SessionInv` |
| `DuplicatesAreBounded` | `ApplicationsBounded` | from `ApplicationsAndInserters` |
| `FriendsCanTalk` | `FriendsHaveChat` | of `OrderlySpec`; `OrderlyInv` |
| `KeepsItsPromise` | `ImplementsFriendship` | of `OrderlySpec`; each step is a step of `Friendship` or leaves it alone (`Faithful`) |

A handler that appends members trusts that the session inserted two steps ago is
still there, still empty, and its alone; a handler that erases trusts what it found
in its snapshot. `SessionInv` says so: appenders hold sessions in place and empty,
and different ones (`AppendersHoldEmptySessions`,
`AppendersHoldDifferentSessions`); erasers hold a pair or a session a concurrent
`FriendRemove` has erased meanwhile (`ErasersHoldPairs`). The proof first shows
that every step does one of five things to the two session tables
(`EveryStepIsSessionStep`: leaves them, opens, fills, finds, erases) and then
that each of the five keeps `SessionInv`. `ApplicationsBounded` counts rows
together with the handlers about to add one.

`FriendsCanTalk` and `KeepsItsPromise` are about `OrderlySpec`, the steps of `Spec`
that are `Orderly`: any number of handlers run at once, never two on the same two
users; an agreement that has removed its application is carried through; no
`exists()` throws. Each part is needed: without it crossing requests leave a
relation without a chat, half an agreement stays, an application comes twice
(section 6). Anything else may fail, and the process may be killed, or end on a
`FriendRemove`, between agreements. What the code does least for is the
first.

The tables are looked at pair by pair (`Befriended`, `HaveChat`, `IsPending`).
`TablesFit` says that friends have a chat, that a chat is of friends or about to go
(unless something failed) and that nobody is his own friend; `FoundStands`, that
what a handler has found out about its pair is still so. `WorkAfter` and
`OthersFound` are why any number of handlers is no harder than one: a step in a
request about one pair changes nothing that a handler of another pair relies on, although
the two share tables and perhaps a user. A handler has one step at which the
abstract state changes; `StateByPairs` turns what it does to a pair into the
abstract sets, and every other step is `Silent`.

### Service discovery

| theorem | property | argument |
|---|---|---|
| `TypeCorrect` | `TypeOK` | with `ChannelsFit`: `remove` needs the channel it looks for |
| `KnownAreReachable` | `KnownHostsHaveChannels` | `ManagerInv`: channels of different addresses are different, so removing one leaves the others |
| `StraysHaveCauses` | `StrayChannelsAreBounded` | `AheadInv` |
| `ViewsAreExact` | `ViewIsExact` | `AheadInv`, address by address |

The consumer lags behind the registry by the callback it is in and the events it has
not taken, so nothing about its channels alone is kept by a registration.
`AheadInv` speaks of the view it *will* have: `LeadsTo` replays the events still to
come, and `Justified` compares what comes out with the registry. A view has the
addresses known, the channels in surplus, and the addresses with a channel too many. Two
things are counted together: channels in surplus, and addresses known although
nobody is registered at them (such an address makes the next registration there a
surplus channel). Their sum grows only with `reputs` and `missed`. And of each address
not in `unheard`, the view will know it if and only if it is registered, with one channel.
A step of etcd appends to the replay, a step of the consumer takes its first event off. An
event that is dropped (`ErrorNotified`, `AppendFails`) changes everything that is
replayed after it; `Near` says how little: two views that differ in one address go on
differing in this one only, and by no more channels (`NearLeads`).

### Login and connections

| theorem | property | argument |
|---|---|---|
| `TypeCorrect` | `TypeOK` | inductive |
| `ConnectionMapsAgree` | `MapsAgree` | with `FoundRegistered`: what is found is registered; and `AloneInv` |
| `ConnectedHasSession` | `ConnectedIsLoggedIn` | `SessionInv` and `AloneInv` |
| `LoggedInOnce` | `OneSessionPerUser` | `MarkInv` |
| `SessionHasMark` | `MarkTellsLogin` | `MarkInv` |
| `MarksAreOwned` | `MarkHasOwner` | `OwnerInv` |

`SessionInv` says who may hold a session id: the handler that made it is alone with it
until it answers (`SessionsHeld`); what a registered connection knows of its session is
what redis has, or redis has it no more (`ClientsKnow`); and an `onClose` under way has
taken it out (`ClosingRemoved`).
All properties speak of one user at a time, and except only what happened to this
user: a race of two logins (`raced`), two connections at once (`overlapped`), a login
killed between its two keys (`halved`), a session nobody knows any more (`bereft`).
`AloneInv`: a user that never had two connections is found by the one there is, and its
session is in redis until the closing deletes it. `MarkInv`: of a user with no race,
overlap or half a login, at most one login is past the check of the mark, the mark is
not yet set while it is there, and afterwards session and mark come and go in that
order. A kill of the gateway keeps all of this, for it leaves redis alone. `OwnerInv`: a
marked user who is not bereft has a device with a session that works, or a connection
whose closing clears the mark. That needs to know that a device holds a session of its
own user or one that is deleted (`DevicesFit`), and none while it logs in (`TokenFree`).

### Message pipeline and reading

| theorem | property | argument |
|---|---|---|
| `TypeCorrect`, `ReadingTypeCorrect` | `TypeOK`, `ReadingTypeOK` | inductive |
| `HistoryIsWhole` | `HistoryHasContent` | the consumer past its first store has stored the content (`ContentStored`) |
| `HistoriesAreInOrder` | `HistoryInOrder` | `OrderInv` |
| `ToldAreKept` | `ToldIsKept` | `ToldInv`: who was told, was told of a published message; `KeptInv`: a published message is in the queue until its row is written or a store has failed on it, or it was lost |
| `StepsAreOfChatLog` | the steps of `ImplementsChatLog` | if `NoTrouble`; `LogInv` |
| `HistoriesAreWhole` | `HistoryHasNoGaps` | `HistoryInv` |
| `SearchesAreSent` | `SearchShowsWhatIsSent` | `SearchInv` |

`OrderInv` holds whatever fails: no message is published twice (`PublishedOnce`), the
history and the queue are each in the order of publication, the history before the
queue, and the message in hand between them. It says nothing of the head of the
queue: after a restart of the broker the message in hand is in no queue, or the
queue begins with a later one.

`LogInv` is what, without failures and losses, makes three stores and a queue a log: a
message is published once, the queue is the end of what was published, the history its
beginning, and the message in hand is the head of the queue and may be the last of the
history (after a kill between insert and acknowledgement). `StepsAreOfChatLog` is the
safety half of the refinement: Init, and each step a step of `ChatLog` or none. Its
liveness is checked.
`MessageReadingProofs` extends `MessagePipelineProofs`: a step is a step of the
pipeline or of the reader (`StepIsPipelineStep`), so all of the above holds beside
readers too; `HistoryInv` says that what precedes a message of a page is on the page, refused or
lost (`RowsHaveNoGaps`, from `OrderInv` and `KeptInv`) and stays so while messages are
published after it; `SearchInv` that only published texts are indexed.

### Profiles

| theorem | property | argument |
|---|---|---|
| `TypeCorrect` | `TypeOK` | with `HandlersHold`: past its insert a handler has a row |
| `UniqueInTable` | `NamesAndPhonesUnique` | MySQL's unique columns refuse; every write goes through them |
| `NamesWhatIsThere` | `NothingDangles` | a copy names only files that are stored (`CopyHasFile`) |
| `SearchShowsRows`, `SettingsAreKept` | `IndexIsCurrent`, `SettingSticks` | `CalmInv` |

`CalmInv` speaks of the users that never had two handlers at once, whatever fails or
is killed: one with no handler is settled, and for one with a handler `Progress` says
how far row, document and the handler's copy are apart at each of its steps. It is
kept because nobody else writes this user (`OneHandler`); a handler that fails before
it has written the row leaves its user settled, and one that fails later leaves the
user unindexed and its column set by nobody (`FailureCalm`, `KillCalm`).

### Gateway

| theorem | property | argument |
|---|---|---|
| `TypeCorrect` | `TypeOK` | inductive: a handler's request fits its step |
| `OnlineAreTold` | `OnlineIsTold` | `DueInv`: who is due is still to be told, over the connection he has |
| `ToldAreTrue` | `ToldIsTrue` | `Truth` |

Both hold whatever fails or overlaps; an answer with an error promises nothing. `DueInv`
rests on `Maps`: a connection the gateway finds for a user is one of that user, and of a
user who did not overlap it is the one his device has open, and no other is known. A new
connection has not been found by any handler, so what a handler found earlier is either
still open or of a device that is no longer due.

`Truth` speaks of each piece of news alone, and of devices that are online and not
`overlapped` (`Heard`). Fresh news of `u` about `p` is true, unless a handler is between the
friend service's answer and its own (`OthersSettled`); that handler's change still stands, and
the peer knows of it or is due to (`HandlerTrue`); a list on its way is right where it
is fresh (`ListTrue`). The induction needs `NoCrossing`: of two handlers that are under
way, none changes fresh news that the other concerns. A call that comes late makes stale
whatever it may change (`LateTruth`), and so does every step that changes something and
goes on to tell nobody (`UntoldTruth`). A device that comes online makes
news fresh only where no handler concerns it (`HealedIsIdle`), so this survives.

### Http server

| theorem | property | argument |
|---|---|---|
| `TypeCorrect` | (`TypeOK`) | inductive: which threads have a connection, requests left, a call; proved, so no run repeats it |
| `NoWakeupLost` | `NoJobForgotten` | inductive as it stands, with `TypeOK`: jobs are counted against the threads in the pool and the notification to come, and `PoolGrows`, `PoolShrinks` count the threads that move |
| `StraysStayBounded` | `StrayFilesAreBounded` | `ConnInv` and `StrayInv` |

Files go astray when their answer finds no client, when the call that stored them is
sent again or fails, when a disk is full: the first happens long after its cause. `StrayInv` therefore
counts for each thread what it has stored in vain together with what is `Owed`: the
troubles that have happened and may still cost a call, which are the nodes that hang and the
requests that clients had sent before they left (`Unread`). `ConnInv` says whose a
connection is: a job of the queue is a connection no thread has, two threads never have
the same one, and a client that left is still there for exactly the requests it sent. So
each unread request is answered by one thread once.

### Only model-checked

All liveness (`RequestsEnd`, `DeadNodesLeave`, `LiveNodesServe`,
`NobodyStaysLockedOut`, the liveness of `ImplementsChatLog`), which is out of TLAPS's
reach. No safety property is left to the runs alone.

## 5. What is not modelled

* What is put beside the lists: names, avatars, the last message of a chat.
  `GetUserInfo` and `GetMultiUserInfo` change nothing.
* The speech service but for its call: it keeps no state.
* Contents: texts, files, passwords, times. Checks of the form of an argument.
* Of httplib: parsing, TLS, its client, files served from a directory, and the
  shutdown of a server, which the gateway never asks for. Threads of brpc: a node
  serves a call or hangs.
* A commit of MySQL whose answer is lost: a table call that answers false has changed
  nothing. A truncated file that a failing `writeFile` leaves: nobody has its id.
* Logging, flags, builders and the main functions: they run once, in one thread,
  before there is anything to interleave with, and abort on any error.
* `src/prev_code` and the rest of `third`. They are most of the lines of the
  repository (two copies each of httplib.h and of the SDK of the recogniser), none
  of them is this program's logic, and a model of them would say nothing of
  it. Of the sources of the services themselves (7767 lines) the map covers 46 %;
  the rest is start-up, logging, text of requests to external services, and
  conversions of rows into responses.

## 6. Known limits of the code that the models show

Three have a run (section 3). The others are visible in the exceptions of the
properties:

* Two users who apply to each other and both agree get two relation rows and two
  private sessions: `FriendAdd` looks at one direction and `FriendAddProcess`
  never at the relation. In `MCFriendRemoveTwice` this is the other way to
  abort. While steps are orderly all else still holds (`MCFriendOrderly`).
* Two `FriendAdd` at once, or one whose `exists()` throws, store an application
  twice: hence the bound of `ApplicationsBounded`.
* A change between the listing and the watch of `Discovery` is never heard of, nor is
  one whose notification is an error, and a failed listing leaves the consumer without
  the nodes there are (`missed`). A channel whose `Init` fails is not made again: the
  node is registered and never chosen (`unheard`).
* Two logins at once both pass the check of the mark (`raced`).
* A connection opened before the gateway has noticed that the old one is gone is
  accepted and not found: `insert` keeps the old entry, and closing the old
  connection deletes session, mark and entry. Until the user comes back once more,
  notifications for him go to the old connection or nowhere (`overlapped` of
  `LoginSession` and of `Gateway`).
* A login whose answer or token is lost before a connection was opened leaves its
  mark, and so does a gateway that is killed with a connection registered (`bereft`):
  nothing expires it. A user service killed between the two keys leaves a session
  without a mark (`halved`).
* Two setters that overlap lose one of the two values (`overlapped` of `UserProfile`).
* A user whose document elasticsearch refuses at the registration is told of success
  and cannot be found: lines 129 and 309 of `user_server.hpp` drop what `appendData`
  returns, and the old `ret` is looked at (`unindexed` of `UserProfile`).
* A client is told of an error although its application is stored, when the data
  for the notification cannot be had or the answer of the friend service is lost;
  an applicant without data ends the gateway, because line 829 of
  `gateway_server.hpp` looks at the wrong response and line 875 reads the other (`InfoFails`,
  `CallUnanswered`, `SendNameless`). An answer of the user service with an error is
  taken for data, and the notification names nobody (`InfoBlank`).
* A list whose query throws is answered with success, short or empty, so a device takes
  friends for strangers until it connects again (`CallAnsweredShort`).
* An agreement that fails after its first transaction, and a call that has its effect after
  the gateway has given it up, change what two users are to each other and tell neither
  (`CallUnanswered`, `LateCall`).
* Two notifications, or a notification and a list, that overlap may arrive in the
  wrong order and leave a device with the older news until it connects again
  (`Crossed` of `Gateway`).
* A call to a node that hangs never returns (`timeout_ms = -1`), and one such node
  stops the whole http side when it has caught all threads of the pool: `RequestsEnd`
  has to except both.
* A file stored by a call whose answer was lost, or by a `PutMultiFile` that stopped
  half way, stays for good and nobody can name it (`stray`).
* `docker-compose.yml` lets the user service wait for the port of RabbitMQ, which it
  does not use and does not depend on there, and not for that of redis, which it does.
* A message that is delivered again after a kill puts its file again; the first
  one stays, and no row names it (`files` of `MessagePipeline`).

## 7. Plan

Built, in this order: the friend service with its abstract `Friendship` and its
proofs; discovery; login and connections; the message pipeline with `ChatLog`;
profiles; the gateway's notifications; reading of messages; the http server with
the forwarding handlers and the file service; the proofs of all of them. Next:

1. *Lost commits*: a store call that takes effect and answers false, in
   `FriendService` and `UserProfile`.
2. *Pure checks*: `nickname_check`, `password_check`, `phone_check` against
   reference definitions.
