# Verification of TradingChat

TradingChat is a chat with rooms in which commands (`/ping`, `/stock=CODE`) are
answered by a bot.  It runs as two processes, **WebApp** (ASP.NET, SignalR,
PostgreSQL through Entity Framework) and **ChatBot** (a worker), joined by two
durable RabbitMQ queues, and as scripts in the browser: the page of a room and the
SignalR client it connects with.  This directory models their state-changing code in
TLA+, checks the models with TLC and proves their safety properties with TLAPS.
Paths below are relative to the directory `src/` of the repository.

## 1. Inventory

| Component | State it keeps | Operations | Talks to |
|---|---|---|---|
| Chat rooms: `TradingChat.Domain/Entities/ChatRoom.cs`, use cases `CreateChatRoom`, `JoinChatRoom` | tables `chat_rooms`, `chat_room_users` | create, join | database |
| Sending: `SendMessage`, `ChatController.SendMessage`, `ChatHub.SendMessage` | table of messages | save, publish a command, broadcast | database, queue `ChatCommand`, SignalR group |
| Message queue: `RabbitMqConsumer`, `RabbitMqExtensions`, `QueueConsumerBackgroundService` | queue, unacknowledged delivery, `x-retry-count` | deliver, handle, ack, retry, drop | broker, message handlers |
| Producer and connection: `RabbitMqProducer`, `RabbitMqConnection` | shared connection, a channel per producer | publish, (re)connect | broker |
| Bot: `MessageCommandConsumer`, `ChatMessageCommandInvoker`, `PingPongCommand`, `StockPriceCommand` | none between messages | run a command, publish a reply | both queues, Stooq |
| Stooq adapter: `StooqClient`, `StooqService` | none | look up a price | HTTP service |
| Replies: `ChatMessageConsumer`, `SendMessageFromServer` | table of messages | save a reply, broadcast it | queue `ChatMessage`, database, SignalR group |
| Page and hub: `chat.js`, `Chat.cshtml`, `ChatHub.JoinChat`, `GetChatMessages` | messages on the page, the text box, SignalR groups | render, connect, join a group, append, submit | SignalR client, controller |
| SignalR client (`signalr.js`): `HubConnection` | state, handshake, timers, callbacks | start, invoke, stop, reconnect | `HttpConnection`, application |
| SignalR client: `HttpConnection` | state, transport, send queue, promises of start and stop | negotiate, redirect, fall back, send, stop | transports, server |
| SignalR client: `LongPollingTransport`, `TransportSendQueue` | poll loop, buffer, promises | poll, post batches, delete | server |
| Registration: `CreateChatUser` | identity user and chat user | two saves in a transaction | database |
| Startup: `QueueCreator`, `BotUserCreator`, `Program.cs` | queues, the bot's two users | declare, create | broker, database |
| Validation pipeline, `Result`, `Error` | none | refuse a request | use cases |
| Mappings, migrations, configuration, telemetry, login pages, form scripts | none of their own | - | - |

### Hard behaviours

* Use cases read in one round trip and write in a later one, without a lock, a
  transaction or a concurrency token: requests of several users interleave there.
* The consumer acknowledges by hand, retries by publishing a copy, and shares a
  connection with the producers of its process; connections break at any moment.
* A command crosses two processes, two queues, three saves or broadcasts; each step
  may fail or be cut by a stop of its process, and earlier steps are not undone.
* Executions of one handler overlap after a lost connection: the broker delivers
  again while the first execution, unaware, goes on.
* The page reads the history, connects and joins its group in three steps, and a new
  connection has to join again; messages are stored and sent meanwhile.
* In the SignalR client every `await` lets the server, the network, a timer or the
  application in: `stop()` during a start, a connection that closes before the answer
  to its handshake is looked at, an `onclose` raised inside `connect()`.
* An account is two rows: of a user in one transaction with two saves, of the bot in
  two transactions, with stops in between.

### What makes each component correct

* *Rooms*: an owner is a user of his room; no room exceeds its capacity; names are
  distinct up to case; a reply to a join stays true.
* *Queue*: a published message is handled, dropped after its retries, or still with
  the broker; handled once unless a connection is lost; in order; in the end.
* *Chat*: a reply never precedes its command in the history; nothing is shown twice
  without a disturbance; replies come in the order of the commands; a well-formed
  command is answered.
* *Page*: what is shown twice or missing is confined to the gap between rendering and
  joining; a text is not lost from the box before it is stored.
* *SignalR client*: states, events, timers and answers agree with the connection
  below; data go out whole, in order and truthfully acknowledged; no transport is left
  open; starting and stopping come to an end.
* *Accounts*: an identity user and its chat user exist together; emails are distinct;
  the bot has its account wherever the application runs with a bot.

Every hazard is listed, at its line and with the properties that cover it, in
`PROJECT.json`.

## 2. Modules

| Module | Models | Extends or instantiates |
|---|---|---|
| `ChatRooms` | rooms and membership | - |
| `AtLeastOnce` | what a queue promises to the programs at its ends | - |
| `RabbitQueue` | one queue, its consumer and their connection | implements `AtLeastOnce` |
| `Chat` | a message from the user to the browsers, a command to its reply | composes two instances of `AtLeastOnce` |
| `ChatPage` | the page of one room in one browser, its group and its form | - |
| `Accounts` | registration and the bot's account | - |
| `SendQueue` | `TransportSendQueue` | - |
| `LongPolling` | one life of `LongPollingTransport`, with its owner and its send queue | extends `SendQueue`, which it implements |
| `Connection` | what an `HttpConnection` promises to the hub | - |
| `HttpConnection` | negotiation, transports, start and stop | implements `Connection` |
| `HubConnection` | handshake, invocations, timers, stop, reconnection | uses `Connection` |
| `MCChatRooms`, `MCRabbitQueue`, `MCChat`, `MCHttpConnection` | values of constants for TLC | their module |
| `ChatRoomsProofs`, `RabbitQueueProofs`, `ChatProofs`, `ChatPageProofs`, `AccountsProofs`, `LongPollingProofs`, `HttpConnectionProofs`, `HubConnectionProofs` | theorems | their module |

Two stacks are composed by contract.  `RabbitQueue` implements `AtLeastOnce`, and
`Chat` takes only steps that `AtLeastOnce` allows on its two queues.  `HttpConnection`
implements `Connection`, and `HubConnection` sits on `Connection` alone.  The first
composition and both implementations are theorems as well as runs.

Where a definition is a piece of a larger handler that a slip would change, a mutant
stands in front of it in its module ("the model does not use them"): `PROJECT.json`
pairs each property with a mutant that TLC must find to violate it.

### ChatRooms

`room` is the table of rooms, `members` the table of the users of each room,
`request[w]` what HTTP request `w` is doing.  Each use case is two actions, split at
the database round trip: `CreateChatRoom` (validator, `NameAlreadyTaken`) and
`SaveRoom` (constructor, insert); `JoinChatRoom` (read of the room with its users,
`ContainsUser`, capacity check of `ChatRoom.AddUser`) and `SaveJoin` (insert, refused
by the primary key if the pair is there).  `AbortRequest` is a cancelled, failed or
interrupted write.  A request in between carries what it has read (`seen`), which is
what makes stale decisions visible: a join the users of its room, a creation the rooms the
lookup went through.  A name is a text with two flags, surrounding
blanks and upper case, because the code trims the stored name but not the name it
looks up, and compares in lower case.

### RabbitQueue and AtLeastOnce

`ready` is the queue, `held` the delivery the broker waits for, `execution[e]` the
callback that runs on the consumer's channel number `e`: `handling` the message,
about to ack (`acking`), or about to enter `NackWithRetryIncrement` (`nacking`).
`Deliver` to `Nack` are the steps of the `Received` callback of `RabbitMqConsumer`.
As in the code, the retry branch publishes a copy at the tail *and leaves the
delivery unsettled*, while the exhausted branch rejects it without putting it back.
`ConnectionLost` requeues what is held at the head and leaves the callback running;
its later ack has the delivery tag of a channel that is gone and settles nothing.
`ReplaceConnection` is `RabbitMqConnection.GetConnection` called by a producer in
between: it disposes the connection that the client library is recovering, and the
consumer's channel with it (`orphaned`).  The behaviour of the broker and of the
client library is external: it is modelled from the way this code configures and
calls them (durable queues, `autoAck: false`, prefetch of 1, automatic recovery).

`published`, `started`, `handled` and `failures` are history variables: no guard of
the code reads them, except that a message is published once and that `MaxFailures`
bounds the failures.

`AtLeastOnce` says the same to a program that does not see the broker: messages are
handled in the order sent, one at a time and each once, until the queue is
`disturbed`; afterwards perhaps again, perhaps by several executions at once, but
never past a message that is neither done nor given up.  The refinement
(`KeepsPromise`) maps `done` to the messages some handler returned true for,
`running` to the callbacks that have not come to their end, and `disturbed` to
`epoch > 0`.

### Chat

`request[p]` is the set of steps the request of post `p` has taken (`store`,
`publish`, `show`, or `error`), `log` the table of messages, `shown` what was sent to
the SignalR group.  `bot[s]` and `web[s]` are the progress of the executions in the
two consumers.  The actions follow `SendMessageCommandHandler.Handle` and
`ChatController.SendMessage` (`StorePost`, `PublishPost`, `ShowPost`),
`MessageCommandConsumer` and the commands (`BeginCommand`, `BotReplies`,
`BotReturns`, `BotThrows`), and `ChatMessageConsumer` with
`SendMessageFromServerCommandHandler` (`BeginReply`, `StoreReply`, `ShowReply`,
`FailReply`).  Both queues are instances of `AtLeastOnce`.  `ChatHub.SendMessage` has
the steps of `ChatController.SendMessage`; the page never gets to call it (below).

What a message says is abstracted to its `Kind`, the least that separates the paths
of the code: a text, a ping, a stock command, one whose reply is longer than the 1000
characters the validator admits (a failed lookup repeats the code it was given), one
that does not split in two parts, and a command nobody handles.  `Faults` says what
may go wrong in a run.  Rooms are left out: no message depends on those of another
room except through the two queues, and posts of one room exercise both.
`log` is in the order of the saves; the page sorts by `SentAt`, which is taken just
before the save.  For a command and its reply the two orders agree, since the reply is
created after the command was saved; for two users that post at once they may not,
and `ChatPage` keeps them apart.

### ChatPage

`history` is what the page was rendered with, `live` what it has appended since,
`wire` what the server has sent and the page not yet received; `group` are the
connections in the group of the room, `join` the call of `JoinChat`.  `Load` is
`GET /Chat/{id}` with `GetChatMessages`; `HubStarted` to `HubGivesUp` are the
connection as `chat.js` sees it, including `withAutomaticReconnect`, whose new
connection id nobody adds to the group; `Submit` to `AnswerLost` are the form handler
and the answers of the controller; `Write` to `SendFails` are the steps of any user's
request.  The page also calls `SendMessage` of the hub with two names that nobody
declares, which throws in the browser: only the controller broadcasts (`Broadcasts`).

A message has its `SentAt` before it is stored (`written` against `request`), so the
last fifty by time need not be the last fifty stored.  The order in which a page shows
its history is left out: `history` is a set, and `ChatMessages` says which messages are
in it.  `stored`, `sent` and `excused` are history variables that only the properties
read: what was stored when the page was rendered, what had been sent when it joined,
and the texts that a user or a race is known to have taken out of the box.

### Accounts

`identities` and `chatUsers` are the committed rows of the two tables, `request[r]`
where a registration is: `checked` the email, `created` the identity user, `saved`
the chat user.  Rows of an open transaction show in nothing but the unique index on
the normalised user name, where another insert waits for them (`WaitsForAnother`); an
early return or an exception leaves the transaction to be rolled back.
`StartWeb` to `SaveBotChatUser` are `Program.cs` and `BotUserCreator`, which runs in
two environments only and ignores the result of `CreateAsync`; `StopWeb` cuts
everything in progress.  Emails are equal when they are equal up to case.

### The SignalR client

The client is single-threaded: a step is a call of the application, or an event of the
network or of a timer, with the code that runs until the next `await` of something
that takes time.  Where other code can come between a promise and its continuation the
continuation is an action of its own, and `Quiet` keeps events of the network and of
timers out until no microtask waits.

`SendQueue` is `TransportSendQueue`: the buffer, the two promises (`flush`, `result`),
and the loop that turns what has gathered into one batch.  The data of the n-th call of
`send()` is the number n, and promises are numbered in the order they are made, so
that order and acknowledgement can be told.

`LongPolling` adds `LongPollingTransport` and the parts of `HttpConnection` it runs
into: the GET request (`poll`), the POST request (`posting`), `stop()` with its DELETE
request (`stopping`), and `owner`, the state of the connection that `onclose` changes.
The first poll may be answered with a success other than 200, which raises `onclose`
inside `connect()` (`FirstPollRefused`).

`HttpConnection` has the request or dial that `_startInternal` awaits (`task`), the
transports it has not tried (`offers`), `transport`, `sendQueue`, and the stop in
progress (`stopping`, `leaving`, `stopPromise`).  A transport is identified by the
start that dialled it and its kind, and `live` is what is really open in the browser,
which the code cannot see.  Web sockets and server-sent events are transports that
open, fail, end and are closed.  `stray` becomes true when a transport other than the
one in use ends, or ends inside the start: a first poll as above, or an `EventSource`
that failed, was never closed, and that the browser opened again (`sources`).  From
then on the connection may lose a transport that works: `NoTransportLeft` and
`StartAndStopSettle` are about runs without it.
The contract of `Connection` (`KeepsPromise`) holds with it as well: whatever calls the
handlers, `onclose` comes once for each start that succeeded.

`Connection` is five phases and the five things that may happen between them.
`KeepsPromise` maps the state of `HttpConnection` and `_connectionStarted` to them and
counts the calls of `onclose`.

`HubConnection` has the phase of the connection below, the state of the hub, the
routine `_startInternal` runs in (`routine`: a call of `start()` or the reconnect
loop), what it awaits (`task`), the handshake, the timers and the callbacks.  `timers`
counts server timeouts that will fire and `tracked` whether the handle of one is kept:
a timer whose handle is overwritten cannot be cleared any more.  `keepAlive` is
`inherentKeepAlive` as the code has it, set by the first start over long polling and
never reset.  `slip` marks two cases the hub does not cope with: the connection goes
while the first ping is on its way, and the hub says `Connected` on nothing
(`PingSent`); and `stop()` called from `onreconnecting`, which leaves it
`Disconnecting` for good (`Reconnect`).  Only what is said of the
state of the hub is about runs without them.  The library is modelled for any application
that does not call `start()` again before an earlier start has come to its end, and
`stop()` where it is not ignored.  Streams, `send()`, results the server asks of the
client and the encoding of the protocol are not modelled.

## 3. Runs

| Run | Shows | Bounds and why they are enough |
|---|---|---|
| `rooms_concurrent` | owners are members, replies to a join (a conflict included) are true and stay true, and only stale reads or padded names break capacity and names | 3 users, 2 rooms, capacities 0 and 2, one name in two spellings, one padded and a blank one, 2 requests in flight: a room fills, two joins race for its last place, a third user finds it full, two requests create one name |
| `room_never_full` (violation) | a room exceeds its capacity and is never full again | 4 users: the owner, two that race for the last place, one after them; 2 requests in flight |
| `queue_faults` | no loss, dropped after exactly the retries, wedged only by a retry, implements `AtLeastOnce`, settled unless a handler fails or the connection is replaced | 2 messages (order), 1 retry (a copy is retried and dropped), 3 losses and 4 failures: both messages exhaust their retries, and losses hit each phase of a callback |
| `queue_wedged` (violation) | one failing handler stops the consumer | 1 failure, no loss |
| `chat_faults` | replies after commands, none acknowledged before it was shown, no command acknowledged before its reply is on the queue, nothing that was shown stored or shown again without a disturbance | 1 command, 2 overlapping executions, 2 replies, every fault but a lost reply |
| `chat_calm` | replies in order, commands answered | 3 commands, one of them with a reply that is refused; publications of commands and of replies that fail, nothing else |
| `chat_unanswered` (violation) | a command that is saved is never answered | a ping and an ill-formed command, publications that fail, stops |
| `chat_page` | twice or missed only in the gap, texts kept, stored messages shown | 1 submission and 1 message of another user, a history of 1 (either message pushes the other out), 3 loads, 3 connections, 3 texts: a reload, a reconnection and a text typed while waiting meet every step of both messages |
| `accounts` | whole accounts, distinct emails, the bot's account completed | 3 registrations, 2 emails, one of them the bot's; 3 starts: one stopped half-way, one that repairs, one that fails on a taken email |
| `long_polling` | batches whole, in order and acknowledged; closed once, after the DELETE request | 4 sends (two batches of two), 2 polls with data, a stop and every outcome of each request |
| `http_connection` | implements `Connection`, whatever ends; no transport left, queues fresh, everything ends | 3 starts (a queue and an EventSource of an earlier one), every suffix of the three transports, one alone and none, a second redirect refused |
| `hub_connection` | state, events, timers and answers stay in step; starts and stops end | 2 starts (the second inherits what the first left), 2 attempts to reconnect (one that fails and the last), 1 invocation |

`CHECK_DEADLOCK FALSE` appears where the system may stop: everything is settled, a
consumer is wedged, a page or a hub stays disconnected, or a bound is reached.
Symmetry is used in safety runs only, over users, rooms, requests and slots, which the
actions never tell apart, and never where liveness is checked.

Bounds in the guards: `MaxLosses` and `MaxFailures` in `RabbitQueue`, `MaxReplies`,
`MaxLog` and `MaxShown` in `Chat`, the finite set `Rooms` in `ChatRooms`, `MaxLoads`,
`MaxConnections` and `MaxTexts` in `ChatPage`, `MaxStarts` in `Accounts`,
`HttpConnection` and `HubConnection`, `MaxSends` and `MaxReceived` in `LongPolling`.
None of these is in the code, unlike `MaxRetryCount`, `HistorySize`, `MaxRedirects` and
`Retries`.

The type invariant of every module is a theorem (`TypeCorrect`) rather than a property
of a run.  The second half of `HandledIsShown`, about commands whose reply is on the
queue, would say nothing where `Publish` may lose a reply; `chat_faults` therefore has
every fault but this one, which `chat_calm` has.

### Fairness

`RabbitQueue` has weak fairness of the start of the consumer (the host starts its
background services), delivery by the broker, recovery by the client library, and the
steps of a callback, which awaits calls with timeouts only.  `Chat` has weak fairness
of the steps of a request that has begun and of the steps of each consumer; its
delivery is the one that `queue_faults` shows without failing handlers and
`queue_wedged` refutes with one, and this is why `chat_calm` admits no failing handler.
`ChatPage`: a request that has stored its message goes on, an open connection
delivers.  `Accounts`: a start and a request go on until they are done or the process
stops.  `LongPolling`, `HttpConnection` and `HubConnection`: microtasks run, and every
request or dial is answered, fails or times out; delays pass; a hub that waits for the
handshake hears from the server or its timer fires (over long polling, which arms no
timer, the server limits the handshake).  Nothing obliges anybody to post, send, load,
stop or start, nor anything to fail.

### What the violations say

* `room_never_full`: `ChatRoom.AddUser` decides on the users it has loaded, and nothing
  checks again at the insert, so that two users take the last place.  Since it compares
  with `==`, the room is then no longer full for anybody: a join that has read every
  user is let in, and no bound on the excess can be proved.  The theorem
  `OvershootsAreStale` says that a stale read is the only way past the capacity, and
  `SequentialCapacity` and `SequentialAdmission` that the comparison is exact enough
  where requests do not overlap.
* `queue_wedged`: after the first failing message the consumer receives nothing more
  until its connection is lost: the copy that was published for the retry stays in
  the queue behind a delivery that is never settled.
* `chat_unanswered`: a command that is saved need not get the reply that the README of
  the repository announces, for three reasons the run allows.  The publication fails and
  `SendMessageCommandHandler` ignores what `Publish` returns; the web application stops
  between the save and the publication; or the command is an ill-formed stock command,
  for which its handler returns an `Error` and publishes nothing, and which
  `MessageCommandConsumer` acknowledges.  TLC reports one of them; `chat_calm` excuses a
  publication that fails, and neither of the other two is possible there.

Other behaviours that are visible in the models and have no run of their own:

* `"Stocks "` passes the check and is stored as a second `"Stocks"`; two simultaneous
  requests also create two rooms of one name (`DuplicateNeedsStaleLookup` says that
  there is no third way).
* A second simultaneous join of one user fails on the primary key although a join by a
  member is a success (`ChatRooms.SaveJoin`, result `conflict`); `JoinReplyIsTruthful`
  says that whoever gets it is a user of the room.
* A producer that publishes while the client library recovers the connection replaces
  it and leaves its process without a consumer (`RabbitQueue.ReplaceConnection`,
  `orphaned`): `SettledUnlessFailing` excuses it, `NoLoss` holds all the same.
* A reply that is too long is refused, never shown, and blocks the queue behind it
  (`Chat`, kind `longStock`).
* A reply whose broadcast throws is stored again by the retry: the table of messages
  holds it twice, and browsers were shown it once (`OneReply` speaks of messages that
  were shown).
* A reply can reach the browsers before the command it answers: `ShowPost` comes after
  `PublishPost`.
* A page that has reconnected is in no group and shows nothing more until it is loaded
  again (`ChatPage.HubReconnects`).
* The answer to a submission empties the box whatever has been typed into it meanwhile
  (`ChatPage.SubmitAnswered`).
* Each line break of a message becomes four characters after its length was checked:
  the save may then fail (`ChatPage.Refuse`), and the text stays in the box.
* After one start over long polling a hub has no server timeout and sends no pings,
  whatever transport a later start uses (`HubConnection.keepAlive`).
* A first poll that is answered with a success other than 200 leaves a connection that
  says `Connected` and has no transport (`HttpConnection`, `stray`), against the comment
  in `_stopInternal` that it is always set.
* A start whose connection closes under its first ping makes the hub `Connected` on
  nothing (`HubConnection.PingSent`), and `stop()` called from `onreconnecting` leaves it
  `Disconnecting` for good (`Reconnect`).  In both cases, marked by `slip`, invocations are
  still rejected rather than forgotten, no timer is left, and `stop()` returns
  (`NoOrphanedCall`, `OneServerTimeout`, `StartAndStopEnd`).

## 4. Proofs

`tlapm` proves, for every value of the constants that the named assumptions of the
modules admit (identifiers that stand for "none" are none of the others, bounds are
naturals, users are finitely many):

| Theorem | Statement |
|---|---|
| `ChatRoomsProofs!TypeCorrect`, `OwnersAreMembers`, `JoinRepliesAreTruthful` | `Spec => []TypeOK`, `[]OwnerIsMember`, `[]JoinReplyIsTruthful` |
| `ChatRoomsProofs!OvershootsAreStale`, `DuplicatesAreStale` | `Spec => OvershootNeedsStaleRead`, `DuplicateNeedsStaleLookup` |
| `ChatRoomsProofs!SequentialCapacity`, `SequentialNames` | with one worker: `[]WithinCapacity`; and with no padded name: `[]DistinctNames` |
| `ChatRoomsProofs!SequentialAdmission` | with one worker: `[]JoinsHaveRoom` |
| `RabbitQueueProofs!TypeCorrect`, `NothingIsLost`, `RetriesAreExhausted`, `OnlyRetriesWedge` | `Spec => []TypeOK`, `[]NoLoss`, `[]RetriesAreExact`, `[]WedgedOnlyByRetry` |
| `RabbitQueueProofs!SettlingNeverStalls` | `Spec => []SettlingGoesOn` |
| `RabbitQueueProofs!PromiseIsKept` | `Spec => KeepsPromise`: `RabbitQueue` implements `AtLeastOnce` |
| `ChatProofs!TypeCorrect`, `HistoryIsInOrder`, `RepliesAreShownOnce`, `RepliesKeepOrder` | `Spec => []TypeOK`, `[]ReplyFollowsCommand`, `OneReply`, `[]RepliesInOrder` |
| `ChatProofs!QueuesAreUsedAsPromised` | `Spec => C!Spec /\ R!Spec`: both queues are used as `AtLeastOnce` admits |
| `ChatProofs!NothingIsHalfDone`, `NothingIsShownUnstored` | `Spec => []HandledIsShown`, `[]ShownIsStored` |
| `ChatPageProofs!TypeCorrect`, `ShownTwiceOnlyAcrossLoad`, `NothingElseIsMissed`, `TextsAreKept` | `Spec => []TypeOK`, `[]TwiceOnlyAcrossLoad`, `[]MissedOnlyInGap`, `[]TextKept` |
| `ChatPageProofs!NothingIsLost` | `Spec => [][NothingIsLostOnTheWay]_vars` |
| `AccountsProofs!TypeCorrect`, `RowsAppearTogether`, `EmailsStayDistinct`, `BotIsCompleted`, `StartsFailOnlyForTheEmail` | `Spec => []TypeOK`, `[]AccountsAreWhole`, `[]EmailsAreDistinct`, `[]BotIsThere`, `[]FailsOnlyIfEmailTaken` |
| `LongPollingProofs!ImplementsQueue` | `Spec => QueueSpec`: the transport uses its send queue as the queue is meant to be used |
| `LongPollingProofs!TypeCorrect`, `BatchesHaveData`, `PromisesAreTrue`, `OrderIsKept`, `ClosedOnce`, `NothingPostedLate` | `Spec => []TypeOK`, `[]NoEmptyBatch`, `[]ResolvedMeansAccepted`, `[]AcceptedInOrder`, `[]CloseOnceAfterDelete`, `NoPostAfterDelete` |
| `LongPollingProofs!NoSendIsForgotten`, `NoStopIsForgotten` | `QueueSpec => []SendsAreInHand`, `Spec => []StopIsUnderWay` |
| `HttpConnectionProofs!TypeCorrect`, `QueuesAreFresh`, `NothingLeftOpen` | `Spec => []TypeOK`, `[]QueueIsOfThisStart`, `[]NoTransportLeft` |
| `HttpConnectionProofs!PromiseIsKept` | `Spec => KeepsPromise`: `HttpConnection` implements `Connection` |
| `HttpConnectionProofs!StartsAndStopsAreServed`, `ConnectionIsOpen` | `Spec => [](StartIsServed /\ StopIsServed)`, `[]ConnectedIsOpen` |
| `HubConnectionProofs!TypeCorrect`, `HandshakesAreAnswered`, `ConnectionsAreClosed`, `EventsAreTrue`, `CallsAreAnswered`, `TimeoutsAreSingle` | `Spec => []TypeOK`, `[]ConnectedMeansShaken`, `[]DisconnectedMeansClosed`, `[]ToldTheTruth`, `[]NoOrphanedCall`, `[]OneServerTimeout` |
| `HubConnectionProofs!WaitersAreServed` | `Spec => []NothingWaitsForNobody` |
| `HubConnectionProofs!ConnectionIsUsedAsPromised` | `Spec => C!Init /\ [][C!Next]_phase`: what happens below the hub are steps of `Connection`, whose promise `HttpConnection` keeps |

*Rooms.*  The inductive invariant adds to the types what a request in flight relies
on: a join between its read and its write saw the room, and a free place in it
(`SawFreePlace`), and every reply that was given is true (`Truthful`).  Members
are only ever added, which keeps replies true.  That a step past the capacity needs a
stale read follows: had the room not changed, the free place would still be there.
`DuplicatesAreStale` is about the rooms a creation carries from its lookup: a request
in flight found no such name among them (`SawNoSuchRoom`), so that a room that has it
now was not there, or the name was looked up with its blanks.  With one
worker nothing can change between read and write (`SawPresent`): the insert stays within
the capacity, and, if no name is padded, names stay distinct.

*Queue.*  `NoLoss` alone is not inductive: an ack removes the held delivery, and one
must know that this delivery is the one the acking callback has handled.  The
invariant therefore says that a callback of the present channel works on what is held
(`HoldsWhatRuns`) and that a callback about to ack has handled its message
(`AckedIsHandled`).  For `RetriesAreExact` it says that a copy with `n`
retries stands for at least `n` executions that have begun, and one being handled for
`n + 1` (`RetriesWereStarted`), and that a copy in the queue or held has a count that
`ShouldRetry` admits.  Each conjunct has its own lemma, with a step for each
action that can disturb it.

*Queue, refinement.*  Two things have to be true when a message is delivered.  No
earlier message may be unsettled: `QueueInOrder` says that before a copy of a message,
wherever a retry or a loss has put it, there is a copy of every message published
earlier that is not settled.  And until a channel is lost the message must not have
been handled: `OneCopyUntilLoss` says that there is one copy of each unsettled message
and none of the others, or that a copy was answered with a retry and nothing is
delivered any more.  With `AllPublished` for the domain these are inductive on top of
the invariant above, and each action maps to a step of `AtLeastOnce` or to a stutter.

*Queue, wedge.*  `WedgedOnlyByRetry` says how the consumer comes to stand still, the
state `queue_wedged` reaches: a delivery is held that no callback works on only if a
handler has failed with retries left, and the copy for its retry is then in the queue.
A callback of a lost channel must not be taken for one of the present channel: a new
channel begins with nothing held and nothing running (`ClosedIsIdle`), and on the
present channel only a failed handler leads to `NackWithRetryIncrement`
(`FailuresAreCounted`), since `BasicAck` throws on a lost channel only.  With `NoLoss`
it follows that, before a failure, a message that is not settled has a step to come
(`SettlingGoesOn`).

*Chat.*  What `AtLeastOnce` gives its users is proved once, for a queue as a value
(`QueueOK`), and applied to both queues: nothing is sent twice, what is settled or
runs has everything before it settled, and until a disturbance one execution runs at
a time, of a message that is not settled.  On top of it the invariant follows a
message: a post is stored before it is a command (`RequestsOK`), a reply was published
for a command (`RepliesHaveCommands`); undisturbed, a command has one reply
(`OneReplyEach`), replies are in the order of their commands (`RepliesFollow`), and a
reply that is shown has been handled (`ShownIsHandled`) in that order (`ShownFollow`).

*Chat, half done.*  `HandledIsShown` needs to know what an execution has done when it
is about to return: the bot has published a reply to its command, unless `Publish` may
lose it (`BotHasReplied`), and the web application has stored the reply of its
execution (`WebHasStored`).  A slot that is used again after a stop or a lost
connection starts from the beginning, and what was published, stored or shown stays
so.  That whatever was shown is stored (`ShownIsStored`) follows from the second.

*Page.*  `JoinOK` says that the page is in the group exactly if it has joined on its
present connection, `HistoryOK` that what it was rendered with is still stored,
`ArrivalsOK` that what comes over the connection comes once and was sent after the
join, `GapOK` that everything sent after the join comes.  `FormOK` says that the box
holds the text of each submission that is waited for, or one that is excused.

*Accounts.*  `RequestsNeedWeb` (a stop ends every transaction), and
`BotIdentityOrTaken`: when `BotUserCreator` adds the chat user, the identity user is
there or somebody has its email.  Distinct emails are proved over the committed rows
together with those of open transactions.

*Send queue and long polling.*  The queue's invariant ties data to promises: what is
in the buffer or in the batch has the promise its caller was given
(`DataFollowPromise`), accepted data, the batch and the buffer are in the order of the
calls (`DataInOrder`), open promises are those of the batch and of the next one
(`PromisesOpen`), and the loop is only woken for data (`WokenForData`), so that no batch is empty.  It is
preserved by the actions of `SendQueue` alone; `LongPolling` takes no other steps on
these variables.  `ClosingInv` relates `stop()` to the poll loop, so that only one of
them raises `onclose`.  On top of it, a promise that is not settled is that of the next
batch, while the loop has not ended, or that of the batch under way (`PendingIsHeld`);
with `DataFollowPromise` the data of every unanswered call are where they will be taken
from (`SendsAreInHand`).

*HTTP connection.*  `StateFollowsStart` says that a start that runs has not succeeded
and that `started` goes with the state; `OneTransport` that, unless a stray transport
has ended, only the transport in use is open and none while a start dials.  Each action
then is a step of `Connection` with the right number of calls of `onclose`.  That
nobody waits for nothing is inductive only together with `StopIsOfThisState` (somebody
waits for `stop()` only in `Disconnecting`) and `TransportIsOpen` (outside a start a
connection that is not disconnected has a transport, and it is open): `StopTransport`
without a transport, or with one that has ended, would otherwise leave the promise of
`stop()` pending.

*Hub connection.*  `RoutineFollowsPhase` relates what the routine awaits to the phase
of the connection below, `HandshakeIsFresh` says that a handshake seen as answered
belongs to the present connection, unless `_stopDuringStartError` is set, and
`NothingToldEarly` that nothing is told of a start that still runs.  Timers are
counted by `TimersCounted` (as many run as there are handles) and `TimerFollowsPhase`:
a timer survives its connection only while the start that finds its connection gone
has yet to continue, so that no other start can arm one beside it.  `StopsAreServed`
says who runs the routine and what is left to bring a stop to its end; with the timers
it gives `NothingWaitsForNobody`.

*Model-checked only.*  All liveness properties (`SettledUnlessFailing`,
`EveryCommandAnswered`, `StoredIsShown`, `EveryRegistrationEnds`, `StopCompletes`,
`EverySendSettles`, `StartAndStopSettle`, `StartAndStopEnd`), since liveness under
fairness is out of the prover's reach, and the violations.  Of the first and the
last four of them the safety half is proved: in every state somebody is there who has
the next step (`SettlingNeverStalls`, `NoStopIsForgotten`, `NoSendIsForgotten`,
`StartsAndStopsAreServed`, `WaitersAreServed`), and of `StoredIsShown` that no step loses a message on its way
(`NothingIsLost`).  That the steps are taken and lead on is what the runs show.

## 5. Not modelled, and why

* `GetChatsInfo` reads only.  The order in which a page shows its history is a sort.
* The producers' channels, one per scope and never closed: the limit is the broker's
  and the life of a scope the framework's; a model would be a counter that grows.  The
  lock of `GetConnection` protects nothing but itself, and its retries are delays.
* `QueueCreator` declares two durable queues, which changes nothing the second time.
* Declarative mappings, configuration, telemetry, login pages and views have no state
  of their own; where a mapping matters (a primary key, a missing unique index, a
  maximal length) it appears as what an insert may do.  Validators appear as guards and
  `Result` and `Error` as replies.
* HTTP and CSV of the Stooq adapter are abstracted to price, error or exception, and
  the texts of commands to kinds.
* Of the SignalR client: streams, `send()`, results the server asks for, the encoding
  of the protocol and of web socket and EventSource frames, `skipNegotiation`, access
  tokens, headers, logging.
* The form scripts `index.js` and `site.js` and the other libraries of `wwwroot/lib`:
  no state that outlives a click, or (jQuery, Bootstrap) used for layout only.

## 6. Plan

What would come next, in order of importance:

1. `ChatPage` on top of `HubConnection` instead of its own small hub, so that
   `StoredIsShown` speaks of the server's timeout and of a zombie connection (`slip`).
2. The safety half of `EveryCommandAnswered`, over both queues: what is left to do has
   somebody who does it.
3. Streams and `send()` in `HubConnection`.
4. Functions: `Split('=')` of a stock command, the sort of the history, lengths before
   and after `<br>`.
