# Verification of the KPrime gateway

The gateway (Go) sits between clients (JSON-RPC over WebSocket and HTTP, and FIX) and
a matching engine it talks to through Kafka.  It keeps its state in process memory, in
maps shared by goroutines, and in Redis; MongoDB is read.  This directory holds TLA+
models of its concurrent parts, the TLC configurations that check them, and proofs
checked by TLAPS.

## 1. The system

| Part | Where | State | Operations |
|---|---|---|---|
| Request registry | `pkg/protocol` | `protocolConnections` (key → how to answer), `channelTimeout` (key → channel), `channelResults`, `channelContextStop`; four mutexes | register, upgrade the key after authentication, time out, wait for a result, send an answer, unregister |
| Method handlers | `internal/ws/controller`, `internal/deribit/controller` | none | one per JSON-RPC method: validate, call `requestHelper`, query or produce an order, answer |
| WebSocket connections | `pkg/ws/connection.go`, `client.go` | per client: `mu`, unbuffered `send`, `EnableCancel`, `unsubscribeHandlers` | `readHandler`, `writeHandler`, `closeConnection`, `Send` |
| Subscription sockets | `pkg/ws/trade.go` and six copies | `subscriptions`, `subscriptionsList`, one mutex each | `Subscribe`, `Unsubscribe`, `UnsubscribeChannel`, `BroadcastMessage` |
| Heartbeats | `internal/ws/engine/service`, `pkg/ws/engine.go` | the map `heartbeat` (no lock), the `EngineSocket` | one loop per `set_heartbeat`; `test` |
| Kafka consumer | `pkg/kafka/consumer` | none | one goroutine per message and use; `CANCELLED_ORDER` in the loop itself |
| Book feed | `internal/orderbook/service`, `internal/ws/service/orderbook.go` | Redis `CHANGEID-*`, `SNAPSHOTID-*`; the map `changeId100ms` | a change per saved order, raw, aggregated and every 100 ms; snapshots to new subscribers |
| User changes, tickers, trades | `internal/ws/service` | maps of buffers, flushed every 100 ms | append, flush |
| Engine messages and quotes | `internal/engine/service` | Redis `ENGINE-*`, `QUOTE-*` | append to a list, answer requests, broadcast quotes |
| FIX acceptor | `internal/fix-acceptor` | `userSession` (no lock), four subscription maps and lists, whose writers take a mutex | logon, logout, orders, confirmations, four kinds of subscriptions, reports |
| Users | `internal/user`, `pkg/memdb` | an in-memory copy of MongoDB's users | sync, login, tokens |
| Order connections | `pkg/ws/orders.go`, `client.go` | maps by client | written, hardly read |
| Middleware | `pkg/middleware` | the limiter's store | rate limits, basic authentication |


How they interact:

* A WebSocket message is read by `readHandler` and runs as a goroutine of its own.  The
  method registers the request under its id (and, once authenticated, its user),
  starts `TimeOutProtocol`, and produces an order to Kafka's NEW_ORDER.  The engine's
  answer comes back on ENGINE or CANCELLED_ORDER, is routed to the registry by
  ClOrdID and user, and written to the connection's unbuffered channel, which
  `writeHandler` reads.  HTTP requests do the same, with a channel and a ten second
  context instead of a connection.  FIX orders are not registered at all, but the
  engine's answers to them look the registry up nevertheless.
* The engine answers before anything is saved: another process writes the orders to MongoDB
  and publishes ENGINE_SAVED (or CANCELLED_ORDER_SAVED) afterwards.  On ENGINE the
  gateway appends the message to a list in Redis, confirms orders to FIX sessions and
  sends trades and market data to those that subscribe; on ENGINE_SAVED it sends quotes to FIX
  sessions and WebSocket clients, each from a reading of the book of its own.
* ENGINE_SAVED and CANCELLED_ORDER_SAVED start one goroutine per consumer.  Each queries
  MongoDB, keeps something in Redis or in a map, and broadcasts over the sockets; a
  ticker per instrument (and user) broadcasts every 100 ms what the map holds.
* A subscription is a method that puts the client into a socket and registers an
  unsubscribe handler with its connection, which `closeConnection` runs.
* A broadcast holds its socket's mutex while it waits for each client's writer.

What is hard here: check-then-act on the registry's four maps; tickers and contexts
that race the engine's answers; unbuffered channels awaited with a mutex held; ids
chosen by the clients; read-modify-write of one Redis value by goroutines that no order
is kept between; buffers read under one lock and cleared under another; handlers
registered after the connection has been closed.  `PROJECT.json` lists each of these at
its line, with the property about it.

What makes each part correct:

* *Registry*: a client gets answers with its own ids only; requests with different ids do
  not disturb each other; a request is answered at most once (WebSocket: and once by
  TIME_OUT); it is answered and its id freed in the end; nobody waits on a timeout
  channel that nobody reads.
* *Connections and sockets*: a closed connection's subscriptions go, the others' stay; a
  broadcast reaches every living subscriber; cancel-on-disconnect happens.
* *Heartbeats*: silent clients are cut off, those that answer are not.
* *Book feed*: changes are numbered one after the other, each the difference to the one
  before; a snapshot and the changes after it have no gap; the 100 ms feed goes
  forward and catches up; a "delete" is about a level that is gone.
* *User feeds*: whom an order or trade concerns, and nobody else, is told, once at
  once and once in the 100 ms feed.
* *Engine messages and quotes*: no message of an instrument is lost from its list or is there
  twice; a quote is not older than the change it is sent for; what one client may see is
  not what all are sent.
* *FIX sessions*: orders and confirmations concern users of the session, nothing is left
  subscribed at logout, and who subscribes ends up with the latest book.
* *Users*: every user of MongoDB is found after a sync, with its credentials.

## 2. Modules

| Module | Models | State and its counterpart |
|---|---|---|
| `Protocol` | `pkg/protocol`, the control flow of the handlers, `PublishOrder`, `PublishValidation`, the answers to CANCELLED_ORDER | `conns`, `timers`, `results`, `stops` are `protocolConnections`, `channelTimeout`, `channelResults`, `channelContextStop`; `pc`, `script`, `connKey`, `dup`, `got`, `chn`, `res` are the goroutines' locals |
| `WsHandlers`, `HttpHandlers`, `FixHandlers` | every method: the calls it makes into the registry, per outcome of its validations | constants of `Protocol` ("scripts") |
| `Connection` | `pkg/ws/connection.go`, `Client`, one socket (the seven are copies) | `subscriptions`, `subscriptionsList`, `mu`, `unsubscribeHandlers`, `EnableCancel`; `holder` is who holds `c.mu` |
| `SocketMethods` | what subscribe, unsubscribe and cancel-on-disconnect methods do to a socket, per channel kind | constants of `Connection` |
| `Heartbeat` | `SubscribeHeartbeat`, `AddHeartbeat`, `EngineSocket` | `heartbeat`, `subscribed`, `mu`, one `loop` per `set_heartbeat` |
| `BookFeed` | `HandleConsumeBook`, `...Cancel`, `...Agg`, `Handle100msInterval`, `SubscribeBook` | `redis` is CHANGEID-*, `snapshotId` SNAPSHOTID-*, `changeId100ms` the map, `order` the collection in MongoDB |
| `UserFeeds` | `HandleConsumeUserChange`, `...UserOrder`, `...UserTrades`, `...InstrumentTrades`, `...Ticker`, their `...Cancel` and `...100ms` | `buffer` is `userChanges`, `userOrders`, `userTrades`, `tickerChanges`; `userChangesTrades` itself |
| `EngineMessages` | the engine and the process that saves its messages, as far as the gateway sees them; what `GetOrderBook` and `GetOrderCountByInstrument` find | `msg`, `saved`; `book` and `open` stand for the orders in MongoDB |
| `FixSessions` | `internal/fix-acceptor`: `FromAdmin`, `OnLogout`, every request, `OrderConfirmation`, `OnTradeHappens`, the reports of ENGINE_SAVED | `userSession`; `subscriptions` and `subscriptionsList` are the four maps and lists of `subsManager`; `request`, `job` the goroutines' locals |
| `EngineService` | `HandleConsume`'s list in Redis, `HandleConsumeQuote`, `...QuoteCancel`, `SubscribeQuote`, `GetDataQuote`, `get_order_book` | `engineLog` is ENGINE-*, `quote` QUOTE-*, `subscribed` the `QuoteSocket`; `work` the locals |
| `EngineTopics` | `pkg/kafka/consumer`: both of them in one process | their variables |
| `FreshFeed` | (abstract) what a feed of best prices promises | `shown`: who was sent what for which change |
| `MC*` | instances for TLC | |
| `*_proofs` | theorems | |

An action is one critical section, channel operation, Redis or MongoDB call, or unlocked
access to shared memory; what lies between two of them touches a goroutine's locals
only.  `PROJECT.json` ("map") gives the lines of each definition.  Ghost variables
(marked in each VARIABLES) record what happened, for the properties.

Abstractions, by module:

* *Protocol*: payloads, error codes and validations.  A validation is a choice among the
  scripts of a handler.  Left out: `PublishValidation`'s second answer when a value in
  Redis is corrupt.  A panic outside HTTP ends the process (`Panicked`); over HTTP net/http
  recovers it and the request stays registered.  One is that of `get_account_summary` for a
  user the database does not give (`private.go:594`).
* *Connection*: the payload; the creation of the singleton sockets by the first call;
  the map of authenticated connections (written, not used by this part).
* *Heartbeat*: the interval's length, of which only the order of events matters.
* *BookFeed*: prices and amounts are small numbers; a change is its level's rows.  The
  tickers' `return` after a failed marshal cannot happen with these values;
  `OnMarketDataUpdate` returns at once and is left out; unsubscribing is `Connection`'s.
  Taking the time and the Redis read after it are one step (nothing uses the time before
  the query).  MongoDB's queries succeed and broadcasts end, on which `HundredCatchesUp` rests
  (that they need not is `Connection`'s run `stuck`).
* *UserFeeds*: an order is its version, a trade its maker order.  The five feeds use
  different entries, so a behaviour is one of a single feed, chosen at `Init`.  Broadcasts
  and queries end (that they need not is `Connection`'s run `stuck`).  Maps read
  without a lock while another goroutine writes make the Go runtime end the process, and so
  does a message without `Matches` (the guard `data.Matches == nil && len(data.Matches...)`,
  `orderbook.go:748`, panics on what it should refuse): the module is about the process
  while it runs, and messages have matches.
* *EngineMessages*: a book is the number of the last message that changed it, which is all
  that tells an old one from a new one, or 0 when a query for one of its sides failed; its rows
  are `BookFeed`'s.
* *FixSessions*: a request is what its handler does in turn (`todo`); QuickFIX's store and its
  delivery to sessions that are away are a library's.  A range over a Go map visits what is
  in it throughout, and perhaps what comes meanwhile.
* *EngineService*: a quote is how old the book was it was computed from, and whose view of it.

`EngineTopics` composes `FixSessions` with an instance of `EngineService`.  They share the process
and MongoDB: a panic of the acceptor (`SecurityListPanics`, `MapsClash`) ends both, and what one
reads of the engine's orders the other may read earlier or later.  The quotes both send
implement `FreshFeed` (`QuotesAreFresh`): an abstract feed adds, in one step, receivers of a quote
whose age lies between the change it is sent for and the last saved one, or of one whose book
could not be read.

## 3. Runs

| Run | Checks | Result |
|---|---|---|
| `requests` | Two requests over WebSocket, HTTP or FIX, which reach the engine or not, under one id or two, and a connection that closes and cancels. `TypeOK`, `IdEcho`, `Isolation`, `AnswerBound`, `ZeroNeedsSharedId`, `TimerHasReceiver`, `StuckOnlyByTimeout`, `NeverDropped` | holds |
| `served` | One request of any handler, or two HTTP requests waiting under one id. `WsAnswered`, `KeyReleased`, `HttpReleased` | holds |
| `close` | Two connections, two overlapping requests each, two channels, one closes. `TypeOK`, `ZombieOnlyIfLate`, `Covered`, `OthersUntouched` | holds |
| `live` | A broadcast, PING, requests, cancel-on-disconnect contending. `CancelPublished`, `NobodyWaits` | holds |
| `late` | `connection.go:152`: `ClosedUnsubscribed` | violated (finding) |
| `stuck` | `trade.go:98`: `Streamed` | violated (finding) |
| `heartbeats` | A silent client and one that answers in time, asks twice and may fail. `TypeOK`, `ClosedForAReason`, `SilentClosed` | holds |
| `snapshots` | One message of any kind about a call and its put, one subscriber of any interval. `TypeOK`, `NoChangeMissed` | holds |
| `changes` | Two messages of one instrument, with aggregated books and the ticker. `LastChangeKept`, `HundredOrdered`, `HundredCatchesUp` | holds |
| `deleted` | "check if old price point deleted", `orderbook.go:298`: `DeletesAreGone` | violated (finding) |
| `feeds` | Two messages about two users' orders in each of five feeds, failing queries. `TypeOK`, `StoredUntilSent`, `NoTwice`, `OwnFeed`, `TradesComeAlong`, `AllTold`, `TicksCatchUp` | holds |
| `topics` | Messages saved late; FIX sessions that log on and out, subscribe and order; the lists in Redis; quotes with a subscriber, a client that asks for a book, and a Redis that fails. `TypesOK`, `LoggedOutUnsubscribed`, `UsersOfTheSession`, `UpToDate`, `LogKept`, `QuoteSettles`, `PrivateViewOnlyInitially`, `QuotesAreFresh` | holds |

Several properties hold "unless": they name the races the code really has, and say that
nothing else goes wrong.  `StoredUntilSent`, for instance, lets an entry be dropped only
if it was stored between a ticker's read and its clearing, or beside a consumer that had
also found no entry; `LastChangeKept` excepts a goroutine that overwrites what it has not
read; `StuckOnlyByTimeout` lets a goroutine block on a timeout's channel if the timeout fires at
the same time, or if an order and its cancellation at the connection's end are both
answered.  Each exception is needed: without it TLC finds a violation in the same run.

A query that MongoDB refuses or that times out is taken for a book without orders
(`order.go:666-688`, `WsAggregate`): `Finds` is the last saved change, or 0.  So

* `UpToDate` excepts, one by one (`missed`), the changes that were saved before a snapshot which
  was such a book, or was not asked for, or only for one side of the book, trades
  alone or no MDEntryTypes, or was not sent because it was empty; and those whose own
  report was read from such a book or too early, or came between a session's snapshot of quotes
  and its subscription;
* `QuoteSettles` excepts, one by one (`excused`), the changes a subscriber was not sent because its own
  quote, or the handler's, was of such a book, or because it found in the cache a quote older than a
  handler had put there (the 0/0 of a failed query, one put back by somebody slower,
  or Redis failing), or because it had read an older quote and was not yet subscribed;
* `QuotesAreFresh` allows a quote of no book for a change, never one of an older book;
* `TicksCatchUp` excepts the changes before a tick whose query failed: it is not repeated.

Bounds, and why they are enough:

* *Two requests, one or two ids, one user* (`requests`, `served`): an entry of the registry
  is shared or it is not; every clash is between two goroutines' keys.  Under one id the
  requests are the pairs of handlers that together use the registry in every way the code does
  (`MCPairs`), and no connection closes once they clash: `Isolation` says nothing then, and
  closing only takes steps away from the writers.  Under two ids they are those that reach the
  engine, over the three transports (`MCApart`), with a connection that may close.  `served`
  takes all handlers one at a time, and pairs only where two requests can wait for
  one result (`MCServed`).
* *Two clients, two channels, two calls each* (`close`): a zombie needs one subscription
  and one closing; the second channel and client are who could be hit by mistake.
* *One or two messages* (`snapshots`, `changes`, `feeds`): a message makes up to two
  goroutines per instrument beside the tickers and subscribers, and each overwrites
  whatever another has written; `changes` has the two of them, `snapshots` all kinds of
  messages and intervals with one, and of the cancellations of both instruments the broadcast in
  one order (`MCOne`).  `feeds` has two orders of two users, alike, so the first
  message is about the first (`MCFew`); in the feeds `changes` and `orders` there are three orders
  in all messages, so two consumers meet in one user's entry and one has another
  user to go on with.
* *Up to three messages, four logons and requests* (`topics`): what the gateway does for one topic
  shares no variable with what it does for the others but the engine's messages, so a
  behaviour is one of a single `topic`: one of the four kinds of subscriptions, orders, the
  lists, quotes, or quotes with `get_order_book`.  Orders have two sessions and users
  (a second session is who a confirmation could go to by mistake), they and market data three
  logons and requests; quote reports have a second session that subscribes and stays.  The lists
  have three messages, so that one can be overtaken twice; the rest have one or two.
  The second instrument is the put of the same strike, which shares the book.

Fairness: every goroutine that can run does, and tickers and contexts fire (the Go
scheduler and runtime).  `sync.Mutex` hands over to a waiter within a millisecond, so
waiting for a mutex and for a writer that serves several senders is strongly fair in
`Connection` and `Heartbeat`; elsewhere weak fairness suffices.  Clients and the engine
are never assumed to do anything, nor Redis and MongoDB to succeed where failure is
modelled.  In `BookFeed` and `UserFeeds` a broadcast is one step and fair as a whole: what they
promise of the end assumes that no dead client is subscribed to that channel.
`EngineTopics` states no fairness: what it promises of the end is said of goroutines
that have ended (`Over`, `Done`).

## 4. Findings

1. `late`: a subscribing method may append its unsubscribe handler after both
   `closeConnection`s have walked the list; the dead client stays subscribed.  (`pkg/ws/connection.go:157`)
2. `stuck`: a broadcast that meets a client whose writer has ended blocks for ever
   with the socket's mutex; later subscribers get nothing any more.  (`pkg/ws/trade.go:105`)
3. `deleted`: an amended order's old price point is announced as deleted though another
   order rests there.  (`internal/orderbook/service/orderbook.go:299`)

Observed while modelling, without a run: the books of a call and of its put are one (the
queries do not match `contracts`); cancelled orders are in no `user.changes` or
`user.orders` message (an ObjectID is compared with a string); a Redis error is taken for
an absent CHANGEID and restarts the numbering; the code after `KafkaConsumer` in `main.go` is
never reached.  Of the FIX acceptor: a quote status request that asks to stop subscribes
(`quotestatusreport.go:94`); one for market data never unsubscribes (`VUnsubscribe` has no
caller); `BroadcastTrades` has no subscribers, because nobody enters any; the list of
securities panics with fewer than ten instruments (`securitylist.go:135`); orders cancelled
together are not reported to FIX sessions.  Of the quotes: `get_order_book` caches what
the asking client may see, and the next subscriber is sent it (`PrivateViewOnlyInitially` says
that it goes no further).

## 5. Proofs

Proved with TLAPS for all values of the constants that satisfy each module's
`ConstantsOK` (no bound on requests, clients, channels, instruments, orders, messages):

* `Protocol_proofs`: `TypeCorrect` (`TypeOK`, which says beside the types that requests and results
  are stored under keys of their id: it needs `EntriesOK` and `SameId`);
  `AnswersEchoId` (`IdEcho`).  `IdEcho` is not inductive: an answer is written for the request found under a key, so `SameId` adds that every
  entry of the registry, every held request and every goroutine's key carry the id they are
  stored under, whatever overwrote what.
  `TimersReceived` (`TimerHasReceiver`): `SpawnsOnce` adds that a handler which still has to start
  its one goroutine has not started it, which rests on an assumption on `Handlers` that the
  three handler modules satisfy (no outcome calls both `go TimeOutProtocol` and `RegisterChannel`).
  `ZeroTakesTwo` (`ZeroNeedsSharedId`): `Met` adds that of two requests with one id, either one
  was over when the other came or both are in `clash`; `ZeroOK` follows the zero entry from the
  read that missed to the map.
  `Registered` (`NeverDropped`): `KeptOK` adds, for a request not in `clash`, that whoever else had
  its id is over, that nobody else holds it, and that the goroutine sending to it found it
  under its own key.
  `Isolated` (`Isolation`): `ApartOK` adds that a request whose id nobody else used is the only
  one stored under its keys, held by its goroutines and answered by them.
  `AnsweredOnce` (`AnswerBound`): `ScriptOK` says what may be left of a script, `KeyedOK` that a
  request which met no other is stored under one key at a time, and `BoundOK` counts: who has
  answered has no further answer in its script, or no entry to find.  It rests on `ScriptsOK`,
  an assumption on `Handlers` that the three handler modules satisfy: an outcome answers in one
  way.  The bound is claimed of requests that met no other and of handlers that reply through
  the registry once; a handler that replies twice (`private/subscribe`, which goes on after an
  error) answers twice if another request's registration under the id comes in between.
  `SignalsReceived` (`StuckOnlyByTimeout`): `StuckOK` says who has answered when the goroutine that
  would receive the signal is gone, `PlacesOK` which locations each kind of goroutine has.
* `Connection_proofs`: `TypeCorrect`; `SubscriptionsCovered` (`Covered`); `NoOtherZombies`
  (`ZombieOnlyIfLate`).  The invariant adds `ScriptsRegister`: in what a method has still to
  do, a subscription is followed by its registration (an assumption on `Methods` that
  `SocketMethods` satisfies), so a subscription without handler has a goroutine to come.
  `OnlyOwnLeave` (`OthersUntouched`): the handlers that run are those of closed connections.
* `BookFeed_proofs`: `TypeCorrect`; `ChangesKept` (`LastChangeKept`); `ChangesHeard` (`NoChangeMissed`);
  `HundredForward` (`HundredOrdered`).  `LastChangeKept` adds `Current`: what a goroutine nobody has
  overtaken will write back is built on what Redis still has.  `NoChangeMissed` adds who has still to
  broadcast to whom (`Heard`).  `TypeOK` adds that a message being handled has an instrument
  left (`Forms`), and needs that what is summed up or collected has its type: the sums over orders and
  levels and the fold of `CancelledBooks` are recursive functions, so the module shows by induction
  over the subsets of a finite set (`Subsets`) that such a function exists (`RecursOnce`) and
  where its values stay (`RecursStays`).  It rests on `Prices` and `Orders` being finite.  `HundredOrdered`
  adds `OrderedOK`: while nobody has written over what it had not read, no Id that a goroutine,
  the map or the feed has is ahead of Redis, whose Id grows; a ticker that has read has at
  least the Id it broadcast last and the one it will say it follows.
* `Heartbeat_proofs`: `TypeCorrect`; `AnswersSuffice` (`ClosedForAReason`).  `Answering` adds that the
  only heartbeat of a client that answers in time finds it answering at every step, or an answer
  on its way; `Holding` that who has the mutex is sending, and that only closed connections'
  handlers run.
* `UserFeeds_proofs`: `TypeCorrect`; `OwnFeedOnly` (`OwnFeed`); `KeptUntilSent`
  (`StoredUntilSent`); `SentOnce` (`NoTwice`); `SentTogether` (`TradesComeAlong`).  `FeedOK` is the type
  invariant with what each goroutine's list of rounds may still hold: entries of its own message
  that concern its key, no entry in two rounds.  `StoreOK` says that a consumer about to
  replace an entry and a ticker about to clear one drop only what was stored too late.
  `OnceOK` says that what a consumer has still to store has not been stored, and that a ticker,
  unless another has the same key, finds nothing that was sent.  `AlongOK` follows the trades of an order
  from their map into the ticker that reads both.  `ConstantsOK` adds that `Orders` is finite.
  That a message's orders, without repetitions and split by user or instrument, still are its
  orders is proved for the flattenings of sequences the module is written with, from the library's
  well-founded ordering of finite sets (`FromOneOn` is the induction it gives).
* `EngineTopics_proofs` (the part about `FixSessions`): `TypeCorrect`; `NothingLeft`
  (`LoggedOutUnsubscribed`); `OrdersOfTheirUsers` (`UsersOfTheSession`).  The type invariant adds what
  a goroutine's list of steps may still hold (`Sensible`) and, for the refinement, that a
  goroutine which is to report quotes has read a book with its order in it, or none at all, or
  will read one (`Fresh`).  `NothingLeft` needs that a subscription is in the list as well, and
  that its session is logged on or still has to walk that kind.  `OrdersOfTheirUsers` needs that
  whoever is in `userSession`, or was found there by a goroutine, has logged on there.
  `SubscribersUpToDate` (`UpToDate`): a report is sent by a goroutine that queries the book, copies
  the list of subscribers and then visits them one by one.  `Reported` adds what is known at each
  place (`Due`): it has still to query; or it has a book with the change it reports; or, the
  list copied, who waits for that change has been told, will be visited, or has the change in
  `missed`.  A session begins to wait, between its snapshot and its subscription, only when of
  all that is saved it has been told, or has it in `missed` (`Attends`).
* `EngineService_proofs`: `TypeCorrect`; `ListsKept` (`LogKept`); `PrivateViews`
  (`PrivateViewOnlyInitially`).  `LogOK` adds what makes a list survive: what a goroutine nobody has
  overtaken has read is still all there, and does not have its own message.  `ViewOK` follows a
  quote from the client it was made for into the cache and into the goroutines that
  read it, and says of each who has asked.  `QuotesSettle` (`QuoteSettles`): `SettleOK` says that
  a consumer caches a quote before it broadcasts it, so `newest`, the last change cached by its
  handler, is no older than any announced; and what a subscriber has got by the stage it is
  at: of each change announced so far, its quote has it, or it has been sent it, or the
  change is in `excused`.
* `EngineTopics_proofs` (the process): `ProcessTypes` (`TypesOK`); `ProcessLists` (`LogKept`);
  `ProcessViews` (`PrivateViewOnlyInitially`); `ProcessQuotes` (`QuoteSettles`);
  `ProcessRefinesAcceptor`, that the process implements `FixSessions`, and from it
  `ProcessSessions` (`LoggedOutUnsubscribed`, `UsersOfTheSession`, `UpToDate`);
  `FeedsAreFresh` (`QuotesAreFresh`, the refinement).  The invariant is that of
  both components; a step of one leaves the other's variables, and the engine's steps only
  make books younger.  A step that reports quotes maps to one `Show` of one message and
  version (`OneReport`, `OneQuote`), saving to `Save`, all else to stuttering.

`EngineMessages_proofs` holds the lemmas about the engine's messages that `EngineTopics_proofs`
and `EngineService_proofs` share.

Every invariant and every action property that the runs check has a theorem.  Only model-checked:
liveness under fairness (all leads-to properties), which TLAPS does not reach; what folds over
messages and books compute, beyond their types and the facts named above.

## 6. Not modelled

The Kafka producer, wiring, metrics and documents (I/O); MongoDB's pipelines beyond what
they return; validations, JWT, passwords, signatures (pure functions of strings); the
rate limiter (a library; a refusal is a `Reject`); the GET methods' queries; the `HandleConsume`
functions for ORDER, TRADE and ORDERBOOK, which no consumer calls; PRICES, which passes a
price on.  The users' copy in memory is a transaction of a library per record.
`orderConnections` is written only; `authedConnections` decides whether a method finds its user,
which is a choice among its scripts; `orderRequestRpcIDS` is about an answer's timings.

## 7. Plan

Done: registry and handlers, connections, heartbeats, book feed, user feeds, engine messages,
FIX sessions, quotes, their composition and the refinement of `FreshFeed`.  Next:

1. `authedConnections` in `Connection`: a client that is not found under its own key while a
   message is being sent to it.
2. An abstract request/answer specification that `Protocol` implements for requests with
   an id of their own; a composition of `Connection` with `UserFeeds`.
