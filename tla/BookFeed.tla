------------------------------ MODULE BookFeed ------------------------------
(***************************************************************************)
(* book.<instrument>.{raw,agg2,100ms}: what is broadcast when an order is  *)
(* saved, and the snapshot a new subscriber gets (internal/orderbook/      *)
(* service, SubscribeBook of internal/ws/service).                         *)
(*                                                                         *)
(* Every goroutine reads CHANGEID-<instrument> from Redis, then the open   *)
(* orders from MongoDB, writes the value back with its part replaced, and  *)
(* broadcasts.  Nothing makes the read and the write one step: whoever     *)
(* writes second restores the parts the first one replaced.  The module    *)
(* notes when that happens (lost), and when Redis does not answer          *)
(* (failed), so that what holds otherwise can be told apart.               *)
(***************************************************************************)
EXTENDS Naturals, Sequences, SequencesExt, FiniteSetsExt

CONSTANTS
    Insts,      \* instruments
    Series,     \* underlying, expiry and strike of each, as one value
    Prices,     \* positive numbers
    Orders,     \* orders the engine may get
    Order,      \* what each one asks: [inst, side, price, amount]
    Resting,    \* those that were open before
    Events,     \* what the engine does: of "rest", "trade", "cancel", ...
    MaxMsgs,    \* bound: messages of the engine
    Subs,       \* clients, each subscribes to one channel at most
    Intervals,  \* the channels they choose from
    Replies,    \* {TRUE}, or with FALSE when Redis may fail
    Lags,       \* {1}, or with 0: in the millisecond of the last update
    None        \* no channel

Sides == {"SELL", "BUY"}
Msgs == 1 .. MaxMsgs

ASSUME ConstantsOK ==
    /\ Prices \subseteq Nat \ {0} /\ MaxMsgs \in Nat
    /\ IsFiniteSet(Prices) /\ IsFiniteSet(Orders)
    /\ Order \in [Orders -> [inst : Insts, side : Sides, price : Prices,
                             amount : Nat \ {0}]]
    /\ Resting \subseteq Orders /\ Intervals \subseteq {"raw", "agg2", "100ms"}
    /\ Replies \subseteq BOOLEAN /\ Lags \subseteq {0, 1}
    /\ None \notin Insts \X Intervals

(* The goroutines: one per message, one per instrument of a message for    *)
(* agg2, one ticker per instrument, one per call of SubscribeBook.         *)
Raws == {"raw"} \X Msgs
Aggs == {"agg2"} \X Msgs \X Insts
Tickers == {"100ms"} \X Insts
Snaps == {"snap"} \X Subs
Jobs == Raws \cup Aggs \cup Tickers \cup Snaps

VARIABLES
    order,       \* MongoDB: what is open of each order, where, updatedAt
    clock,       \* the time of the last update
    msg,         \* the messages, with the instruments still to handle
    redis,       \* CHANGEID-<instrument>
    snapshotId,  \* SNAPSHOTID-<instrument>
    changeId100ms,
    changeIdLocalVar,
    job,         \* what each goroutine has read
    chosen,      \* the channel each client asks for
    subscribed,  \* the BookSocket's subscriptions
    last,        \* ghost: the last raw change that was written
    feed,        \* ghost: the last 100ms change that was broadcast
    stale,       \* ghost: goroutines whose value was overwritten meanwhile
    lost,        \* ghost: instruments where one of those wrote it back
    failed,      \* ghost: Redis has failed
    owed         \* ghost: <<client, goroutine>>, a change not in the snapshot

engine == <<order, clock>>
hundred == <<changeId100ms, changeIdLocalVar, feed>>
sockets == <<chosen, subscribed>>
ghosts == <<last, stale, lost, failed, owed>>
vars == <<engine, msg, redis, snapshotId, hundred, job, sockets, ghosts>>

(* A book, like the maps it is stored in, has the levels with something    *)
(* open: from <<side, price>> to an amount.                                *)
Levels == Sides \X Prices
NoBook == [l \in {} |-> 0]
Amount(book, l) == IF l \in DOMAIN book THEN book[l] ELSE 0
Book(amount(_)) ==
    [l \in {k \in Levels : amount(k) # 0} |-> amount(l)]

(* The zero Change, and what an absent key is read as: a stored value has  *)
(* Id >= 1.                                                                *)
NoValue == [id |-> 0, idPrev |-> 0, timestamp |-> 0,
            raw |-> NoBook, agg2 |-> NoBook, hundred |-> NoBook]

(* An order message, as far as the handlers look at it: books is what a    *)
(* CANCELLED_ORDER_SAVED cancels, old the price before the last amendment. *)
NoChange == [status |-> "", side |-> "SELL", price |-> 0, amount |-> 0,
             old |-> 0, books |-> NoBook]

At(place, i) == [place |-> place, inst |-> i, base |-> NoValue,
                 seen |-> NoBook, timestamp |-> 0, prev |-> 0, rows |-> {}]

Init ==
    /\ order = [o \in Orders |->
                  [left |-> IF o \in Resting THEN Order[o].amount ELSE 0,
                   price |-> Order[o].price, old |-> 0, updatedAt |-> 0,
                   new |-> o \notin Resting]]
    /\ clock = 0
    /\ msg = [m \in Msgs |-> [change |-> NoChange, todo |-> << >>]]
    /\ redis = [i \in Insts |-> NoValue]
    /\ snapshotId = [i \in Insts |-> 0]
    /\ changeId100ms = [i \in Insts |-> [id |-> 0, change |-> NoChange]]
    /\ changeIdLocalVar = changeId100ms
    /\ job = [j \in {} |-> At("get", None)]
    /\ chosen = [c \in Subs |-> None]
    /\ subscribed = {}
    /\ last = [i \in Insts |-> [id |-> 0, raw |-> NoBook]]
    /\ feed = [i \in Insts |-> [id |-> 0, idPrev |-> 0]]
    /\ stale = {} /\ lost = {} /\ failed = FALSE /\ owed = {}

(* The goroutines that run. *)
Live == DOMAIN job

-----------------------------------------------------------------------------
(* What is open of some orders.                                            *)
Left(S) == MapThenSumSet(LAMBDA o : order[o].left, S)

(* MongoDB: the open amount per price of the orders updated before t.  The *)
(* query has no "contracts": a call and the put beside it share their book.*)
GetOrderLatestTimestamp(i, t) ==
    Book(LAMBDA l :
        Left({o \in Orders : /\ Series[Order[o].inst] = Series[i]
                             /\ Order[o].side = l[1]
                             /\ order[o].price = l[2] /\ order[o].updatedAt < t}))

(* The amount at some levels.                                              *)
Total(book, levels) == MapThenSumSet(LAMBDA k : book[k], levels)

(* The aggregated book: neighbouring levels in buckets of two, each at its *)
(* lowest price.                                                           *)
Buckets(book) ==
    LET below(l) == {k \in DOMAIN book : k[1] = l[1] /\ k[2] < l[2]}
        second(l, k) ==
            k[1] = l[1] /\ l \in below(k) /\ below(k) = below(l) \cup {l}
    IN  [l \in {k \in DOMAIN book : Cardinality(below(k)) % 2 = 0} |->
            Total(book, {l} \cup {k \in DOMAIN book : second(l, k)})]

(* The rows of a change: levels that are new or changed since base...      *)
Changed(base, seen) ==
    {<<IF l \in DOMAIN base THEN "change" ELSE "new", l, seen[l]>> :
        l \in {k \in DOMAIN seen : seen[k] # Amount(base, k)}}

(* Mutant: the old price of an amended order is not looked up in base.     *)
Deleted_AnyOld(base, seen, c) ==
    {<<"delete", <<c.side, p>>, 0>> : p \in {c.old} \ {c.price}}

(* ... and the levels the order is taken to have emptied.                  *)
Deleted(base, seen, c) ==
    LET other == IF c.side = "BUY" THEN "SELL" ELSE "BUY"
        emptied(sd) == {l \in {<<sd, c.price>>} : Amount(base, l) = c.amount}
    IN  {<<"delete", l, 0>> : l \in
        CASE c.status = "CANCELLED_ALL" ->
                {l \in DOMAIN c.books :
                    /\ Amount(base, l) = c.books[l]
                    /\ \A r \in Changed(base, seen) : r[2] # l}
          [] c.status = "CANCELLED" -> emptied(c.side)
          [] c.status = "FILLED" -> emptied(other)
          [] OTHER -> {l \in {<<c.side, c.old>>} :
                          l \in DOMAIN base /\ c.old # c.price}}

Rows(base, seen, c) == Changed(base, seen) \cup Deleted(base, seen, c)

-----------------------------------------------------------------------------
(* Redis.  GetValue returns "" on an error; Set's error is dropped.        *)
Read(j, ok) ==
    /\ stale' = stale \ {j}
    /\ failed' = (failed \/ ~ok)

Value(j, ok) == IF ok THEN redis[job[j].inst] ELSE NoValue

Channel(j) == IF j[1] = "snap" THEN "none" ELSE j[1]

(* Before it reads CHANGEID-<instrument>...                                *)
Waits(j) == j \in Live /\ job[j].place = "get"

(* ... and between reading it and writing it back.                         *)
Holding == {"read", "set"}

(* The clients that have asked for a channel.                              *)
Asked == {c \in Subs : chosen[c] # None}

Write(j, value, ok) ==
    LET i == job[j].inst
    IN  /\ redis' = IF ok THEN [redis EXCEPT ![i] = value] ELSE redis
        /\ failed' = (failed \/ ~ok)
        /\ stale' = IF ok THEN stale \cup {k \in Live \ {j} :
                                job[k].inst = i /\ job[k].place \in Holding}
                    ELSE stale
        /\ lost' = IF ok /\ j \in stale THEN lost \cup {i} ELSE lost
        /\ owed' = owed \cup
            {<<c, j>> : c \in {d \in Asked :
                /\ chosen[d] = <<i, Channel(j)>>
                /\ ~Waits(<<"snap", d>>)}}

(* Mutant: a client is passed over until it has had its snapshot.          *)
BroadcastMessage_Settled(j) ==
    owed' = owed \ {<<c, j>> : c \in {d \in subscribed :
                        /\ <<"snap", d>> \notin Live
                        /\ chosen[d] = <<job[j].inst, Channel(j)>>}}

(* BroadcastMessage: to everyone subscribed to <instrument>-<interval>.    *)
BroadcastMessage(j) ==
    owed' = owed \ {<<c, j>> : c \in {d \in subscribed :
                        chosen[d] = <<job[j].inst, Channel(j)>>}}

Start(j, new) == job' = [k \in Live \cup {j} |-> IF k = j THEN new ELSE job[k]]

Become(j, new) == job' = [job EXCEPT ![j] = new]

End(j) == job' = [k \in Live \ {j} |-> job[k]]

-----------------------------------------------------------------------------
(* The engine: it saves its orders, then sends ENGINE_SAVED with the taker *)
(* order, or CANCELLED_ORDER_SAVED with all that it cancelled.             *)
Update(o, left, price, old) ==
    [order EXCEPT ![o] = [left |-> left, price |-> price, old |-> old,
                          updatedAt |-> clock + 1, new |-> FALSE]]

Send(change, insts) ==
    \E m \in Msgs :
        /\ \A n \in 1 .. m - 1 : msg[n].change # NoChange
        /\ msg[m].change = NoChange
        /\ msg' = [msg EXCEPT ![m] = [change |-> change, todo |-> insts]]
        /\ Start(<<"raw", m>>, At("get", Head(insts)))
        /\ clock' = clock + 1
        /\ UNCHANGED <<redis, snapshotId, hundred, sockets, ghosts>>

About(o, status, price, old) ==
    [NoChange EXCEPT !.status = status, !.side = Order[o].side,
                     !.price = price, !.amount = Order[o].amount, !.old = old]

Rest(o) ==
    /\ "rest" \in Events /\ order[o].new
    /\ order' = Update(o, Order[o].amount, order[o].price, 0)
    /\ Send(About(o, "OPEN", order[o].price, 0), <<Order[o].inst>>)

Trade(o, maker) ==
    LET filled == Min({Order[o].amount, order[maker].left})
        left == Order[o].amount - filled
    IN  /\ "trade" \in Events /\ order[o].new /\ order[maker].left # 0
        /\ Order[maker].inst = Order[o].inst
        /\ Order[maker].side # Order[o].side
        /\ order' = [Update(o, left, order[o].price, 0) EXCEPT
                       ![maker].left = @ - filled,
                       ![maker].updatedAt = clock + 1]
        /\ Send(About(o, IF left = 0 THEN "FILLED" ELSE "PARTIALLY_FILLED",
                       order[o].price, 0), <<Order[o].inst>>)

Cancel(o) ==
    /\ "cancel" \in Events /\ order[o].left # 0
    /\ order' = Update(o, 0, order[o].price, order[o].old)
    /\ Send(About(o, "CANCELLED", order[o].price, order[o].old),
            <<Order[o].inst>>)

Amend(o) ==
    /\ "amend" \in Events /\ order[o].left # 0
    /\ \E p \in Prices \ {order[o].price} :
        /\ order' = Update(o, order[o].left, p, order[o].price)
        /\ Send(About(o, "OPEN", p, order[o].price), <<Order[o].inst>>)

(* What HandleConsumeBookCancel collects: one map per side, which the      *)
(* instruments share, and where the first order of an instrument replaces  *)
(* what the others have put at its price.                                  *)
Collect(acc, o) ==
    LET l == <<Order[o].side, order[o].price>>
        amount == Order[o].amount
    IN  [insts |-> acc.insts \cup {Order[o].inst},
         books |-> [k \in DOMAIN acc.books \cup {l} |->
            IF k # l THEN acc.books[k]
            ELSE IF Order[o].inst \notin acc.insts THEN amount
            ELSE Amount(acc.books, l) + amount]]

CancelledBooks(orders) ==
    FoldLeft(Collect, [insts |-> {}, books |-> NoBook], orders).books

CancelAll(S) ==
    /\ "cancel_all" \in Events /\ S # {} /\ \A o \in S : order[o].left # 0
    /\ order' = [o \in Orders |->
                    IF o \in S THEN [order[o] EXCEPT !.left = 0,
                                                    !.updatedAt = clock + 1]
                    ELSE order[o]]
    /\ \E orders \in SetToSeqs(S), insts \in SetToSeqs({Order[o].inst : o \in S}) :
        LET first(i) == Min({n \in DOMAIN orders : Order[orders[n]].inst = i})
        IN  /\ \A m, n \in DOMAIN insts : m < n => first(insts[m]) < first(insts[n])
            /\ Send([NoChange EXCEPT !.status = "CANCELLED_ALL",
                                     !.books = CancelledBooks(orders)], insts)

-----------------------------------------------------------------------------
(* HandleConsumeBook, and HandleConsumeBookCancel for each instrument.     *)
MsgOf(j) == msg[j[2]]

rest == <<order, clock, snapshotId, sockets>>

BookGet(j) ==
    /\ j \in Live \cap Raws /\ job[j].place = "get"
    /\ \E ok \in Replies, t \in {clock + d : d \in Lags} :
        /\ Become(j, [job[j] EXCEPT !.place = "read", !.base = Value(j, ok),
                                    !.timestamp = t])
        /\ Read(j, ok)
    /\ UNCHANGED <<rest, msg, redis, hundred, last, lost, owed>>

BookRead(j) ==
    /\ j \in Live \cap Raws /\ job[j].place = "read"
    /\ Become(j, [job[j] EXCEPT !.place = "set",
           !.seen = GetOrderLatestTimestamp(job[j].inst, job[j].timestamp)])
    /\ UNCHANGED <<rest, msg, redis, hundred, ghosts>>

(* Its successor's Id, and go HandleConsumeBookAgg. *)
NewChange(j) ==
    [job[j].base EXCEPT !.id = @ + 1, !.idPrev = job[j].base.id,
                        !.timestamp = job[j].timestamp, !.raw = job[j].seen]

BookSet(j) ==
    LET i == job[j].inst
    IN  /\ j \in Live \cap Raws /\ job[j].place = "set"
        /\ \E ok \in Replies :
            /\ Write(j, NewChange(j), ok)
            /\ last' = IF ok THEN [last EXCEPT ![i] =
                                [id |-> NewChange(j).id, raw |-> job[j].seen]]
                       ELSE last
        /\ job' = [k \in Live \cup {<<"agg2", j[2], i>>} |->
              IF k = j
              THEN [job[j] EXCEPT !.place = "share",
                    !.rows = Rows(job[j].base.raw, job[j].seen, MsgOf(j).change)]
              ELSE IF k \in Live THEN job[k] ELSE At("get", i)]
        /\ UNCHANGED <<rest, msg, hundred>>

(* Mutant: the change is stored for the next tick, the ticker not started. *)
BookShare_NotStarted(j) ==
    /\ j \in Live \cap Raws /\ job[j].place = "share"
    /\ changeId100ms' = [changeId100ms EXCEPT ![job[j].inst] =
            [id |-> job[j].base.id + 1, change |-> MsgOf(j).change]]
    /\ Become(j, [job[j] EXCEPT !.place = "send"])
    /\ UNCHANGED <<rest, msg, redis, changeIdLocalVar, feed, ghosts>>

(* Under changeIdMutex; the first change starts Handle100msInterval.       *)
BookShare(j) ==
    LET i == job[j].inst
    IN  /\ j \in Live \cap Raws /\ job[j].place = "share"
        /\ changeId100ms' = [changeId100ms EXCEPT ![i] =
                [id |-> job[j].base.id + 1, change |-> MsgOf(j).change]]
        /\ job' = [k \in Live \cup {t \in {<<"100ms", i>>} :
                                        changeId100ms[i].id = 0} |->
              IF k = j THEN [job[j] EXCEPT !.place = "send"]
              ELSE IF k \in Live THEN job[k] ELSE At("tick", i)]
        /\ UNCHANGED <<rest, msg, redis, changeIdLocalVar, feed, ghosts>>

BookSend(j) ==
    LET todo == Tail(MsgOf(j).todo)
    IN  /\ j \in Live \cap Raws /\ job[j].place = "send"
        /\ BroadcastMessage(j)
        /\ msg' = [msg EXCEPT ![j[2]].todo = todo]
        /\ IF todo = << >> THEN End(j) ELSE Become(j, At("get", Head(todo)))
        /\ UNCHANGED <<rest, redis, hundred, last, stale, lost, failed>>

-----------------------------------------------------------------------------
(* HandleConsumeBookAgg.                                                   *)
AggGet(j) ==
    /\ j \in Live \cap Aggs /\ job[j].place = "get"
    /\ \E ok \in Replies :
        /\ IF Value(j, ok) = NoValue THEN End(j)
           ELSE Become(j, [job[j] EXCEPT !.place = "read", !.base = Value(j, ok)])
        /\ Read(j, ok)
    /\ UNCHANGED <<rest, msg, redis, hundred, last, lost, owed>>

(* As of the timestamp of the change that was read. *)
AggRead(j) ==
    /\ j \in Live \cap Aggs /\ job[j].place = "read"
    /\ Become(j, [job[j] EXCEPT !.place = "set",
           !.seen = Buckets(GetOrderLatestTimestamp(job[j].inst,
                                                    job[j].base.timestamp))])
    /\ UNCHANGED <<rest, msg, redis, hundred, ghosts>>

(* Mutant: Bids and Asks are not carried over. *)
AggSet_OnlyAgg(j) ==
    /\ j \in Live \cap Aggs /\ job[j].place = "set"
    /\ \E ok \in Replies :
        Write(j, [job[j].base EXCEPT !.agg2 = job[j].seen, !.raw = NoBook], ok)
    /\ Become(j, [job[j] EXCEPT !.place = "send"])
    /\ UNCHANGED <<rest, msg, hundred, last>>

AggSet(j) ==
    /\ j \in Live \cap Aggs /\ job[j].place = "set"
    /\ \E ok \in Replies :
        Write(j, [job[j].base EXCEPT !.agg2 = job[j].seen], ok)
    /\ Become(j, [job[j] EXCEPT !.place = "send",
           !.rows = Rows(job[j].base.agg2, job[j].seen, MsgOf(j).change)])
    /\ UNCHANGED <<rest, msg, hundred, last>>

AggSend(j) ==
    /\ j \in Live \cap Aggs /\ job[j].place = "send"
    /\ BroadcastMessage(j)
    /\ End(j)
    /\ UNCHANGED <<rest, msg, redis, hundred, last, stale, lost, failed>>

-----------------------------------------------------------------------------
(* Handle100msInterval: a tick with nothing new does nothing.              *)
Tick(j) ==
    LET i == job[j].inst
        local == changeIdLocalVar[i].id
    IN  /\ j \in Live \cap Tickers /\ job[j].place = "tick"
        /\ local # changeId100ms[i].id
        /\ changeIdLocalVar' = [changeIdLocalVar EXCEPT ![i] = changeId100ms[i]]
        /\ \E ok \in Replies :
            /\ Become(j, [job[j] EXCEPT !.place = "get",
                   !.prev = IF local # 0 THEN local
                            ELSE IF ok THEN snapshotId[i] ELSE 0])
            /\ failed' = (failed \/ ~ok)
        /\ UNCHANGED <<rest, msg, redis, changeId100ms, feed,
                       last, stale, lost, owed>>

(* Without a value the change is not broadcast. *)
TickGet(j) ==
    /\ j \in Live \cap Tickers /\ job[j].place = "get"
    /\ \E ok \in Replies, t \in {clock + d : d \in Lags} :
        /\ Become(j, IF Value(j, ok) = NoValue THEN At("tick", job[j].inst)
                     ELSE [job[j] EXCEPT !.place = "read", !.timestamp = t,
                                         !.base = Value(j, ok)])
        /\ Read(j, ok)
    /\ UNCHANGED <<rest, msg, redis, hundred, last, lost, owed>>

TickRead(j) ==
    /\ j \in Live \cap Tickers /\ job[j].place = "read"
    /\ Become(j, [job[j] EXCEPT !.place = "set",
           !.seen = GetOrderLatestTimestamp(job[j].inst, job[j].timestamp)])
    /\ UNCHANGED <<rest, msg, redis, hundred, ghosts>>

TickSet(j) ==
    /\ j \in Live \cap Tickers /\ job[j].place = "set"
    /\ \E ok \in Replies :
        Write(j, [job[j].base EXCEPT !.hundred = job[j].seen], ok)
    /\ Become(j, [job[j] EXCEPT !.place = "send",
           !.rows = Rows(job[j].base.hundred, job[j].seen,
                         changeIdLocalVar[job[j].inst].change)])
    /\ UNCHANGED <<rest, msg, hundred, last>>

(* Mutant: the Id of the change that woke the ticker is sent. *)
TickSend_LocalId(j) ==
    LET i == job[j].inst
    IN  /\ j \in Live \cap Tickers /\ job[j].place = "send"
        /\ BroadcastMessage(j)
        /\ feed' = [feed EXCEPT ![i] = [id |-> changeIdLocalVar[i].id,
                                        idPrev |-> job[j].prev]]
        /\ Become(j, At("tick", i))
        /\ UNCHANGED <<rest, msg, redis, changeId100ms, changeIdLocalVar,
                       last, stale, lost, failed>>

TickSend(j) ==
    LET i == job[j].inst
    IN  /\ j \in Live \cap Tickers /\ job[j].place = "send"
        /\ BroadcastMessage(j)
        /\ feed' = [feed EXCEPT ![i] = [id |-> job[j].base.id,
                                        idPrev |-> job[j].prev]]
        /\ Become(j, At("tick", i))
        /\ UNCHANGED <<rest, msg, redis, changeId100ms, changeIdLocalVar,
                       last, stale, lost, failed>>

-----------------------------------------------------------------------------
(* SubscribeBook.                                                          *)
Interval(j) == chosen[j[2]][2]

SubscribeBook(c) ==
    /\ chosen[c] = None
    /\ \E i \in Insts, k \in Intervals :
        /\ chosen' = [chosen EXCEPT ![c] = <<i, k>>]
        /\ Start(<<"snap", c>>, At("get", i))
    /\ subscribed' = subscribed \cup {c}
    /\ UNCHANGED <<engine, msg, redis, snapshotId, hundred, ghosts>>

SnapGet(j) ==
    /\ j \in Live \cap Snaps /\ job[j].place = "get"
    /\ \E ok \in Replies, t \in {clock + d : d \in Lags} :
        /\ Become(j, [job[j] EXCEPT !.place = "read", !.base = Value(j, ok),
               !.timestamp = IF Value(j, ok) = NoValue THEN t
                             ELSE Value(j, ok).timestamp])
        /\ Read(j, ok)
    /\ UNCHANGED <<rest, msg, redis, hundred, last, lost, owed>>

(* agg2 is read whatever the time. *)
SnapRead(j) ==
    /\ j \in Live \cap Snaps /\ job[j].place = "read"
    /\ Become(j, [job[j] EXCEPT !.place = "set",
           !.seen = IF Interval(j) = "agg2"
                    THEN Buckets(GetOrderLatestTimestamp(job[j].inst, clock + 1))
                    ELSE GetOrderLatestTimestamp(job[j].inst, job[j].timestamp)])
    /\ UNCHANGED <<rest, msg, redis, hundred, ghosts>>

(* The value to write: the first one of the instrument, or one with the    *)
(* part of the interval, if it had none.                                   *)
First(j) ==
    LET new == IF job[j].base = NoValue
               THEN [NoValue EXCEPT !.id = 1, !.timestamp = job[j].timestamp]
               ELSE job[j].base
    IN  CASE Interval(j) = "agg2"  -> [new EXCEPT !.agg2 = job[j].seen]
          [] Interval(j) = "100ms" -> [new EXCEPT !.hundred = job[j].seen]
          [] OTHER                 -> [new EXCEPT !.raw = job[j].seen]

Writes(j) ==
    \/ job[j].base = NoValue
    \/ Interval(j) = "agg2" /\ job[j].base.agg2 = NoBook
    \/ Interval(j) = "100ms" /\ job[j].base.hundred = NoBook

SnapSet(j) ==
    /\ j \in Live \cap Snaps /\ job[j].place = "set"
    /\ IF Writes(j) THEN \E ok \in Replies : Write(j, First(j), ok)
                    ELSE UNCHANGED <<redis, stale, lost, failed, owed>>
    /\ Become(j, [job[j] EXCEPT
           !.place = IF Interval(j) = "100ms" THEN "mark" ELSE "send",
           !.base = IF Writes(j) THEN First(j) ELSE @])
    /\ UNCHANGED <<rest, msg, hundred, last>>

SnapMark(j) ==
    /\ j \in Live \cap Snaps /\ job[j].place = "mark"
    /\ \E ok \in Replies :
        /\ snapshotId' = IF ok THEN [snapshotId EXCEPT ![job[j].inst] =
                                        job[j].base.id]
                         ELSE snapshotId
        /\ failed' = (failed \/ ~ok)
    /\ Become(j, [job[j] EXCEPT !.place = "send"])
    /\ UNCHANGED <<engine, sockets, msg, redis, hundred, last, stale, lost, owed>>

SnapSend(j) ==
    /\ j \in Live \cap Snaps /\ job[j].place = "send"
    /\ End(j)
    /\ UNCHANGED <<rest, msg, redis, hundred, ghosts>>

-----------------------------------------------------------------------------
Engine ==
    \/ \E o \in Orders : Rest(o) \/ Cancel(o) \/ Amend(o)
    \/ \E o, maker \in Orders : Trade(o, maker)
    \/ \E S \in SUBSET Orders : CancelAll(S)

Run(j) ==
    \/ BookGet(j) \/ BookRead(j) \/ BookSet(j) \/ BookShare(j) \/ BookSend(j)
    \/ AggGet(j) \/ AggRead(j) \/ AggSet(j) \/ AggSend(j)
    \/ Tick(j) \/ TickGet(j) \/ TickRead(j) \/ TickSet(j) \/ TickSend(j)
    \/ SnapGet(j) \/ SnapRead(j) \/ SnapSet(j) \/ SnapMark(j) \/ SnapSend(j)

Next ==
    \/ Engine
    \/ \E c \in Subs : SubscribeBook(c)
    \/ \E j \in Live : Run(j)

Spec == Init /\ [][Next]_vars

(* A goroutine that can go on does, and the ticker ticks; the engine and   *)
(* the clients promise nothing.                                            *)
FairSpec == Spec /\ \A j \in Jobs : WF_vars(Run(j))

-----------------------------------------------------------------------------
Places == {"tick", "get", "read", "set", "share", "mark", "send"}
Statuses == {"", "OPEN", "PARTIALLY_FILLED", "FILLED", "CANCELLED",
             "CANCELLED_ALL"}

IsBook(b) == DOMAIN b \subseteq Levels /\ \A l \in DOMAIN b : b[l] \in Nat

IsValue(v) ==
    /\ v.id \in Nat /\ v.idPrev \in Nat /\ v.timestamp \in Nat
    /\ IsBook(v.raw) /\ IsBook(v.agg2) /\ IsBook(v.hundred)

IsChange(c) ==
    /\ c.status \in Statuses /\ c.side \in Sides /\ c.price \in Prices \cup {0}
    /\ c.status \in {"CANCELLED", "FILLED"} => c.price \in Prices
    /\ c.amount \in Nat /\ c.old \in Prices \cup {0} /\ IsBook(c.books)

IsJob(j) ==
    /\ j.place \in Places /\ j.inst \in Insts
    /\ IsValue(j.base) /\ IsBook(j.seen)
    /\ j.timestamp \in Nat /\ j.prev \in Nat
    /\ j.rows \subseteq {"new", "change", "delete"} \X Levels \X Nat

(* The state of the model has the shape the code gives it.                 *)
TypeOK ==
    /\ order \in [Orders -> [left : Nat, price : Prices, old : Prices \cup {0},
                             updatedAt : Nat, new : BOOLEAN]]
    /\ clock \in Nat
    /\ \A m \in Msgs : IsChange(msg[m].change) /\ msg[m].todo \in Seq(Insts)
    /\ snapshotId \in [Insts -> Nat]
    /\ \A i \in Insts :
        /\ IsValue(redis[i])
        /\ changeId100ms[i].id \in Nat /\ IsChange(changeId100ms[i].change)
        /\ changeIdLocalVar[i].id \in Nat /\ IsChange(changeIdLocalVar[i].change)
        /\ last[i].id \in Nat /\ IsBook(last[i].raw)
    /\ feed \in [Insts -> [id : Nat, idPrev : Nat]]
    /\ Live \subseteq Jobs /\ \A j \in Live : IsJob(job[j])
    /\ \A c \in Subs : chosen[c] # None => chosen[c] \in Insts \X Intervals
    /\ subscribed \subseteq Subs
    /\ stale \subseteq Jobs /\ lost \subseteq Insts /\ failed \in BOOLEAN
    /\ owed \subseteq Subs \X Jobs

(* Unless a goroutine wrote over what another had written in the meantime, *)
(* or Redis failed, CHANGEID keeps the Id and the levels of the last raw   *)
(* change whoever rewrites it (agg2, 100ms, a subscription): the next one  *)
(* gets the next Id and is the difference to this one's levels.            *)
LastChangeKept ==
    \A i \in Insts : last[i].id # 0 /\ i \notin lost /\ ~failed =>
        redis[i].id = last[i].id /\ redis[i].raw = last[i].raw

(* A change that is written after a subscriber's snapshot has read         *)
(* CHANGEID is broadcast to that subscriber: the snapshot and the changes  *)
(* leave no gap between them, whatever overwrites what.                    *)
NoChangeMissed ==
    \A c \in Subs, j \in Jobs :
        <<c, j>> \in owed => j \in Live /\ job[j].place \in {"share", "send"}

(* The 100ms feed does not go back: a change never has a lower Id than the *)
(* one before it, nor than the one it says it follows.                     *)
HundredOrdered ==
    [][\A i \in Insts : feed'[i] # feed[i] /\ i \notin lost' /\ ~failed' =>
        feed'[i].id >= feed[i].id /\ feed'[i].id >= feed'[i].idPrev]_vars

(* The 100ms feed catches up with the raw one: when the last raw change    *)
(* has not been broadcast every 100ms, it or a later one will be.          *)
HundredCatchesUp ==
    \A i \in Insts :
        feed[i].id < last[i].id ~>
            (feed[i].id >= last[i].id \/ i \in lost \/ failed)

(* What a change deletes is gone ("check if ... price point deleted"): a   *)
(* "delete" names no level of the book that the handler has read.          *)
DeletesAreGone ==
    \A j \in Live : job[j].place \in {"share", "send"} =>
        \A r \in job[j].rows : r[1] = "delete" => r[2] \notin DOMAIN job[j].seen
=============================================================================
