------------------------------ MODULE UserFeeds ------------------------------
(***************************************************************************)
(* What ENGINE_SAVED and CANCELLED_ORDER_SAVED make the gateway broadcast  *)
(* at once (raw) and every 100ms: user.changes, user.trades, trades,       *)
(* user.orders and ticker (internal/ws/service).                           *)
(*                                                                         *)
(* Each of the five has its consumer goroutine per message, a map of what  *)
(* the next tick will broadcast, and one ticker per entry of the map,      *)
(* started by whoever finds no entry.  They share no entry: a behaviour of *)
(* the module is one of a single feed.                                     *)
(*                                                                         *)
(* The maps are looked up without their lock, for which the Go runtime may *)
(* end the process, and the guard of a consumer looks into a message that  *)
(* has no matches, which panics.  A process that has ended takes no more   *)
(* steps, as any behaviour of Spec may; FairSpec is about one that runs.   *)
(***************************************************************************)
EXTENDS Naturals, Sequences, SequencesExt, FiniteSetsExt

CONSTANTS
    Feeds,      \* of "changes", "trades", "market", "orders", "ticker"
    Insts,      \* instruments
    Users,
    Everyone,   \* in a key: the feed is not a user's
    Orders,
    Owner,      \* the user of each order
    InstOf,     \* the instrument of each order
    MaxMsgs,    \* bound: messages of the engine
    Replies     \* {TRUE}, or with FALSE when a query may fail

Msgs == 1 .. MaxMsgs

ASSUME ConstantsOK ==
    /\ Feeds \subseteq {"changes", "trades", "market", "orders", "ticker"}
    /\ IsFiniteSet(Orders)
    /\ Owner \in [Orders -> Users] /\ InstOf \in [Orders -> Insts]
    /\ Everyone \notin Users /\ MaxMsgs \in Nat /\ Replies \subseteq BOOLEAN

(* The index of the maps: <instrument>-<user>, or the instrument. *)
Keys == Insts \X (Users \cup {Everyone})

(* The goroutines: one per message, for the aggregated ticker one per      *)
(* instrument of a message, and the tickers, by the message that started   *)
(* them: two may start one for the same key.                               *)
Consumers == {"consumer"} \X Msgs
Aggs == {"agg2"} \X Msgs \X Insts
Tickers == {"100ms"} \X Keys \X Msgs
Jobs == Consumers \cup Aggs \cup Tickers

(* What is broadcast: <<m, o, v>> is the order o, put into the feed for    *)
(* message m, as version v; <<m, o, 0>> is the trade with maker order o.   *)
Entries == Msgs \X Orders \X (0 .. MaxMsgs)

VARIABLES
    feed,               \* which of the five this is
    msg,                \* the messages, the last change of an order is its
                        \* version in MongoDB
    buffer,             \* userChanges, userTrades, userOrders, tickerChanges
    userChangesTrades,  \* the trades beside userChanges
    job,                \* what each goroutine has read
    stored,             \* ghost: <<key, entry>> put into the map
    raw,                \* ghost: ... broadcast at once
    sent,               \* ghost: ... broadcast every 100ms
    twice,              \* ghost: ... more than once
    late,               \* ghost: ... stored while a ticker was about to
                        \* clear the map, or somebody to overwrite it
    shown,              \* ghost: how many messages the last ticker.*.100ms
                        \* of an instrument has seen
    failed              \* ghost: messages for which a query has failed

maps == <<buffer, userChangesTrades>>
ghosts == <<stored, raw, sent, twice, late, shown, failed>>
vars == <<feed, msg, maps, job, ghosts>>

Live == DOMAIN job

At(place, todo) == [place |-> place, todo |-> todo, new |-> FALSE,
                    found |-> {}, main |-> {}, trades |-> {}, seen |-> 0]

Init ==
    /\ feed \in Feeds
    /\ msg = << >>
    /\ buffer = [k \in {} |-> {}]
    /\ userChangesTrades = [k \in Keys |-> {}]
    /\ job = [j \in {} |-> At("tick", << >>)]
    /\ stored = {} /\ raw = {} /\ sent = {} /\ twice = {} /\ late = {}
    /\ shown = [i \in Insts |-> 0]
    /\ failed = {}

-----------------------------------------------------------------------------
(* A message names the orders it is about: ENGINE_SAVED the makers, then   *)
(* the taker, CANCELLED_ORDER_SAVED all that were cancelled.               *)
Makers(m) ==
    IF msg[m].kind = "saved" THEN ToSet(Front(msg[m].orders)) ELSE {}

Taker(m) == Last(msg[m].orders)

(* Each trade of a message has one of its makers. *)
FindTradesByInstrument(m) == {<<m, o, 0>> : o \in Makers(m)}

(* Those of which the user is the taker; if they are not, those of which   *)
(* they are the maker.                                                     *)
FindTradesEachUser(m, u) ==
    {t \in FindTradesByInstrument(m) : u \in {Owner[Taker(m)], Owner[t[2]]}}

TradesOf(m, u) ==
    IF u = Everyone THEN FindTradesByInstrument(m) ELSE FindTradesEachUser(m, u)

(* GetChangeOrdersByInstrument: the orders of the message as they are now. *)
LastChange(o) ==
    Max({n \in DOMAIN msg : o \in ToSet(msg[n].orders)})

ChangeOrders(m) ==
    {<<m, o, LastChange(o)>> : o \in ToSet(msg[m].orders)}

Each(seq, Of(_)) == [n \in DOMAIN seq |-> Of(seq[n])]

(* A sequence without what it repeats. *)
Distinct(seq) ==
    FlattenSeq([n \in DOMAIN seq |->
        IF \E m \in 1 .. n - 1 : seq[m] = seq[n] THEN << >> ELSE <<seq[n]>>])

(* Mutant: the user comes first. *)
For_Swapped(i, u, orders) == [key |-> <<u, i>>, orders |-> orders]

(* One round of a consumer's loop. *)
For(i, u, orders) == [key |-> <<i, u>>, orders |-> orders]

Owners(seq) == Distinct(Each(seq, LAMBDA o : Owner[o]))

(* What the consumer of a message loops over.  In the two of cancelled     *)
(* orders (HandleConsumeUserChangeCancel, HandleConsumeUserOrderCancel) an *)
(* ObjectID is compared with a string: no order is found to be the user's. *)
HandleConsumeUserChange(i, orders) ==
    Each(Owners(orders), LAMBDA u : For(i, u, ToSet(orders)))

HandleConsumeUserChangeCancel(orders) ==
    Each(orders, LAMBDA o : For(InstOf[o], Owner[o], {}))

HandleConsumeUserOrder(i, orders) ==
    FlattenSeq(Each(Owners(orders), LAMBDA u :
        FlattenSeq(Each(orders, LAMBDA o :
            IF Owner[o] = u THEN <<For(i, u, {o})>> ELSE << >>))))

HandleConsumeUserTrades(i, orders) ==
    Each(Owners(<<Last(orders)>> \o Front(orders)), LAMBDA u : For(i, u, {}))

HandleConsumeInstrumentTrades(i) == <<For(i, Everyone, {})>>

HandleConsumeTicker(orders) ==
    Each(Distinct(Each(orders, LAMBDA o : InstOf[o])),
         LAMBDA i : For(i, Everyone, {}))

Todo(m) ==
    LET orders == msg[m].orders
        i == InstOf[Taker(m)]
        saved == msg[m].kind = "saved"
    IN  CASE feed = "changes" /\ saved  -> HandleConsumeUserChange(i, orders)
          [] feed = "changes" /\ ~saved -> HandleConsumeUserChangeCancel(orders)
          [] feed = "orders" /\ saved   -> HandleConsumeUserOrder(i, orders)
          [] feed = "trades" /\ Makers(m) # {} ->
                HandleConsumeUserTrades(i, orders)
          [] feed = "market" /\ Makers(m) # {} ->
                HandleConsumeInstrumentTrades(i)
          [] feed = "ticker" -> HandleConsumeTicker(orders)
          [] OTHER -> << >>

Item(j) == Head(job[j].todo)

KeyOf(j) == IF j[1] = "100ms" THEN j[2] ELSE Item(j).key

-----------------------------------------------------------------------------
(* The engine: it saves its orders, then sends the message.  A single      *)
(* order that rests, is amended or is cancelled is a taker without makers. *)
Cancelled(o) ==
    \E m \in DOMAIN msg :
        msg[m].kind = "cancelled" /\ o \in ToSet(msg[m].orders)

First == IF feed \in {"changes", "orders"} THEN "find" ELSE "read"

Send(kind, orders) ==
    /\ Len(msg) < MaxMsgs /\ \A o \in ToSet(orders) : ~Cancelled(o)
    /\ msg' = Append(msg, [kind |-> kind, orders |-> orders])
    /\ UNCHANGED <<feed, maps, ghosts>>
    /\ job' = LET todo == Todo(Len(msg))'
              IN  [k \in Live \cup {c \in {<<"consumer", Len(msg) + 1>>} :
                                        todo # << >>} |->
                      IF k \in Live THEN job[k] ELSE At(First, todo)]

Save(makers, taker) ==
    /\ \A o \in makers : o # taker /\ InstOf[o] = InstOf[taker]
    /\ Send("saved", Append(SetToSeq(makers), taker))

CancelAll(orders) ==
    /\ orders # {}
    /\ Send("cancelled", SetToSeq(orders))

-----------------------------------------------------------------------------
Become(j, new) == job' = [job EXCEPT ![j] = new]

(* To the next round of the loop.  A consumer of cancelled orders queries  *)
(* each of them.                                                           *)
NextRound(j) ==
    LET todo == Tail(job[j].todo)
        again == IF msg[j[2]].kind = "cancelled" THEN First ELSE "read"
    IN  IF todo = << >> THEN job' = [k \in Live \ {j} |-> job[k]]
        ELSE Become(j, [At(again, todo) EXCEPT !.found = job[j].found])

Consumer(j, place) == j \in Live \cap Consumers /\ job[j].place = place

Fails(j) ==
    /\ FALSE \in Replies
    /\ failed' = failed \cup {j[2]}
    /\ UNCHANGED <<feed, msg, maps, stored, raw, sent, twice, late, shown>>

Find(j) ==
    /\ Consumer(j, "find")
    /\ \/ /\ TRUE \in Replies
          /\ Become(j, [job[j] EXCEPT !.place = "read",
                                      !.found = ChangeOrders(j[2])])
          /\ UNCHANGED <<feed, msg, maps, ghosts>>
       \/ /\ IF msg[j[2]].kind = "cancelled" THEN NextRound(j)
             ELSE job' = [k \in Live \ {j} |-> job[k]]
          /\ Fails(j)

(* Mutant: every order of the message is the user's. *)
OrdersOf_All(j) == {e \in job[j].found : e[2] \in Item(j).orders}

OrdersOf(j) ==
    {e \in job[j].found : e[2] \in Item(j).orders
                          /\ Owner[e[2]] = Item(j).key[2]}

(* The trades of the user, or the book and prices of the instrument (when  *)
(* these cannot be read, an empty book is broadcast: the next tick reads   *)
(* them again).                                                            *)
Read(j) ==
    LET m == j[2]
        trades == TradesOf(m, Item(j).key[2])
        queries == feed \in {"changes", "trades", "market"} /\ Makers(m) # {}
        ready == [job[j] EXCEPT !.place = "look"]
    IN  /\ Consumer(j, "read")
        /\ \/ /\ TRUE \in Replies \/ ~queries
              /\ Become(j,
                    CASE feed \in {"changes", "orders"} ->
                            [ready EXCEPT !.main = OrdersOf(j),
                                !.trades = IF feed = "changes" THEN trades
                                           ELSE {}]
                      [] feed \in {"trades", "market"} ->
                            [ready EXCEPT !.main = trades]
                      [] OTHER -> [ready EXCEPT !.seen = Len(msg)])
              /\ UNCHANGED <<feed, msg, maps, ghosts>>
           \/ queries /\ NextRound(j) /\ Fails(j)

(* Without the lock.  The ticker has its aggregated one follow. *)
Look(j) ==
    LET aggs == IF feed = "ticker" THEN {<<"agg2", j[2], KeyOf(j)[1]>>} ELSE {}
    IN  /\ Consumer(j, "look")
        /\ job' = [k \in Live \cup aggs |->
                IF k = j THEN [job[j] EXCEPT !.place = "store",
                                   !.new = KeyOf(j) \notin DOMAIN buffer]
                ELSE IF k \in Live THEN job[k] ELSE At("read", << >>)]
        /\ UNCHANGED <<feed, msg, maps, ghosts>>

(* Mutant: the entry is replaced whether it is new or not. *)
Merged_Replaces(old, new, first) == new

Merged(old, new, first) == IF first THEN new ELSE old \cup new

(* tickerChanges only notes that there is something to tell. *)
Mark == {<<0, 0, 0>>}

Main(j) == IF feed = "ticker" THEN Mark ELSE job[j].main

(* A ticker that will clear the map, a goroutine that will replace its     *)
(* entry.                                                                  *)
Clears(key) ==
    \E k \in Live :
        \/ k \in Tickers /\ k[2] = key /\ job[k].place # "tick"
        \/ k \in Consumers /\ job[k].place = "store" /\ job[k].new
           /\ KeyOf(k) = key

(* Mutant: the trades of an existing entry are not appended to. *)
TradesAfter_OnlyNew(j, old) ==
    IF job[j].new THEN Merged(old, job[j].trades, TRUE) ELSE old

(* Whoever consumes cancelled orders leaves the trades alone. *)
TradesAfter(j, old) ==
    IF msg[j[2]].kind = "cancelled" THEN old
    ELSE Merged(old, job[j].trades, job[j].new)

(* Under the lock; who found no entry starts the ticker. *)
Store(j) ==
    LET key == KeyOf(j)
        entries == {<<key, e>> : e \in job[j].main \cup job[j].trades}
        new == job[j].new
    IN  /\ Consumer(j, "store")
        /\ buffer' = [k \in DOMAIN buffer \cup {key} |->
                IF k # key THEN buffer[k]
                ELSE IF key \in DOMAIN buffer
                     THEN Merged(buffer[key], Main(j), new) ELSE Main(j)]
        /\ userChangesTrades' =
                [userChangesTrades EXCEPT ![key] = TradesAfter(j, @)]
        /\ stored' = stored \cup entries
        /\ job' = [k \in Live \cup {t \in {<<"100ms", key, j[2]>>} : new} |->
                IF k = j THEN [job[j] EXCEPT !.place = "send", !.new = FALSE]
                ELSE IF k \in Live THEN job[k] ELSE At("tick", << >>)]
        /\ late' = IF Clears(key)' THEN late \cup entries ELSE late
        /\ UNCHANGED <<feed, msg, raw, sent, twice, shown, failed>>

(* Mutant: return instead of continue. *)
Broadcast_Returns(j) ==
    /\ Consumer(j, "send")
    /\ raw' = raw \cup {<<KeyOf(j), e>> : e \in job[j].main \cup job[j].trades}
    /\ job' = [k \in Live \ {j} |-> job[k]]
    /\ UNCHANGED <<feed, msg, maps, stored, sent, twice, late, shown, failed>>

Broadcast(j) ==
    /\ Consumer(j, "send")
    /\ raw' = raw \cup {<<KeyOf(j), e>> : e \in job[j].main \cup job[j].trades}
    /\ NextRound(j)
    /\ UNCHANGED <<feed, msg, maps, stored, sent, twice, late, shown, failed>>

(* HandleConsumeTicker(instrument, "agg2"): it reads and broadcasts. *)
AggTicker(j) ==
    /\ j \in Live \cap Aggs
    /\ job' = [k \in Live \ {j} |-> job[k]]
    /\ UNCHANGED <<feed, msg, maps, ghosts>>

-----------------------------------------------------------------------------
(* Mutant: the mark is cleared last, as the entries are. *)
Round_ClearedLast ==
    CASE feed = "ticker"  -> <<"tick", "query", "flush", "reset">>
      [] feed = "changes" -> <<"tick", "trades", "flush", "reset">>
      [] OTHER            -> <<"tick", "flush", "reset">>

(* What a ticker does in a round, and what comes after a step of it.       *)
Round ==
    CASE feed = "ticker"  -> <<"tick", "reset", "query", "flush">>
      [] feed = "changes" -> <<"tick", "trades", "flush", "reset">>
      [] OTHER            -> <<"tick", "flush", "reset">>

After(place) ==
    LET at == CHOOSE n \in DOMAIN Round : Round[n] = place
    IN  Round[1 + (at % Len(Round))]

Ticker(j, place) == j \in Live \cap Tickers /\ job[j].place = place

(* Mutant: len(changes) > 1. *)
Tick_OffByOne(j) ==
    /\ Ticker(j, "tick") /\ Cardinality(buffer[j[2]]) > 1
    /\ Become(j, [job[j] EXCEPT !.place = After(@), !.main = buffer[j[2]]])
    /\ UNCHANGED <<feed, msg, maps, ghosts>>

(* A tick with an empty entry does nothing. *)
Tick(j) ==
    /\ Ticker(j, "tick") /\ buffer[j[2]] # {}
    /\ Become(j, [job[j] EXCEPT !.place = After(@), !.main = buffer[j[2]]])
    /\ UNCHANGED <<feed, msg, maps, ghosts>>

(* Without the lock. *)
TickTrades(j) ==
    /\ Ticker(j, "trades")
    /\ Become(j, [job[j] EXCEPT !.place = After(@),
                                !.trades = userChangesTrades[j[2]]])
    /\ UNCHANGED <<feed, msg, maps, ghosts>>

Concerned(i) == {m \in DOMAIN msg : \E o \in ToSet(msg[m].orders) : InstOf[o] = i}

(* The book and the prices, for ticker.*.100ms.  A query that fails is     *)
(* taken for one without orders, and that is broadcast.                    *)
Query(j) ==
    /\ Ticker(j, "query")
    /\ \/ /\ TRUE \in Replies
          /\ Become(j, [job[j] EXCEPT !.place = After(@), !.seen = Len(msg)])
          /\ UNCHANGED failed
       \/ /\ FALSE \in Replies
          /\ Become(j, [job[j] EXCEPT !.place = After(@), !.seen = 0])
          /\ failed' = failed \cup Concerned(j[2][1])
    /\ UNCHANGED <<feed, msg, maps, stored, raw, sent, twice, late, shown>>

Flush(j) ==
    LET key == j[2]
        entries == {<<key, e>> : e \in (job[j].main \cup job[j].trades) \ Mark}
    IN  /\ Ticker(j, "flush")
        /\ sent' = sent \cup entries
        /\ twice' = twice \cup (entries \cap sent)
        /\ shown' = IF feed = "ticker"
                    THEN [shown EXCEPT ![key[1]] = job[j].seen] ELSE shown
        /\ Become(j, At(After("flush"), << >>))
        /\ UNCHANGED <<feed, msg, maps, stored, raw, late, failed>>

(* Mutant: only the trades are cleared. *)
Reset_OnlyTrades(j) ==
    /\ Ticker(j, "reset")
    /\ userChangesTrades' = [userChangesTrades EXCEPT ![j[2]] = {}]
    /\ Become(j, At(After("reset"), << >>))
    /\ UNCHANGED <<feed, msg, buffer, ghosts>>

Reset(j) ==
    /\ Ticker(j, "reset")
    /\ buffer' = [buffer EXCEPT ![j[2]] = {}]
    /\ userChangesTrades' = [userChangesTrades EXCEPT ![j[2]] = {}]
    /\ Become(j, At(After("reset"), << >>))
    /\ UNCHANGED <<feed, msg, ghosts>>

-----------------------------------------------------------------------------
Run(j) ==
    \/ Find(j) \/ Read(j) \/ Look(j) \/ Store(j) \/ Broadcast(j)
    \/ AggTicker(j)
    \/ Tick(j) \/ TickTrades(j) \/ Flush(j) \/ Reset(j) \/ Query(j)

Next ==
    \/ \E makers \in SUBSET Orders, taker \in Orders : Save(makers, taker)
    \/ \E orders \in SUBSET Orders : CancelAll(orders)
    \/ \E j \in Live : Run(j)

Spec == Init /\ [][Next]_vars

(* A goroutine that can go on does, and the tickers tick: broadcasts and   *)
(* queries end.  The engine promises nothing.                              *)
FairSpec == Spec /\ \A j \in Jobs : WF_vars(Run(j))

-----------------------------------------------------------------------------
Places == {"find", "read", "look", "store", "send",
           "tick", "trades", "flush", "reset", "query"}

IsJob(j) ==
    /\ j.place \in Places /\ j.new \in BOOLEAN /\ j.seen \in 0 .. MaxMsgs
    /\ j.todo \in Seq([key : Keys, orders : SUBSET Orders])
    /\ j.found \subseteq Entries /\ j.trades \subseteq Entries
    /\ j.main \subseteq Entries \cup Mark

(* The state of the model has the shape the code gives it. *)
TypeOK ==
    /\ feed \in Feeds
    /\ msg \in Seq([kind : {"saved", "cancelled"}, orders : Seq(Orders)])
    /\ Len(msg) <= MaxMsgs
    /\ DOMAIN buffer \subseteq Keys
    /\ \A k \in DOMAIN buffer : buffer[k] \subseteq Entries \cup Mark
    /\ userChangesTrades \in [Keys -> SUBSET Entries]
    /\ Live \subseteq Jobs /\ \A j \in Live : IsJob(job[j])
    /\ \A s \in {stored, raw, sent, twice, late} : s \subseteq Keys \X Entries
    /\ shown \in [Insts -> 0 .. MaxMsgs] /\ failed \subseteq Msgs

Twins(key) == Cardinality({t \in Live \cap Tickers : t[2] = key}) > 1

Buffered(x) ==
    \/ x[1] \in DOMAIN buffer /\ x[2] \in buffer[x[1]]
    \/ x[2] \in userChangesTrades[x[1]]

(* What a consumer has stored for the next tick stays there until it has   *)
(* been broadcast.  It can only be dropped when it was stored after a      *)
(* ticker had read the entry and before the ticker cleared it, or when     *)
(* another consumer had found no entry before and replaces it after.       *)
StoredUntilSent ==
    \A x \in stored : Buffered(x) \/ x \in sent \/ x \in late

(* Nothing is broadcast in two ticks, unless two consumers of a new key    *)
(* have each started a ticker.                                             *)
NoTwice == \A x \in twice : Twins(x[1])

(* A user is told of no other user's orders and trades, and in the channel *)
(* of their instrument, at once or 100ms later.                            *)
OwnFeed ==
    \A x \in stored \cup raw \cup sent :
        LET m == x[2][1]
            o == x[2][2]
            parties == IF x[2][3] = 0 THEN {Owner[o], Owner[Taker(m)]}
                       ELSE {Owner[o]}
        IN  x[1][1] = InstOf[o] /\ x[1][2] \in parties \cup {Everyone}

(* Although userChanges and userChangesTrades are read one after the other *)
(* and without a common lock, an order is broadcast every 100ms together   *)
(* with the trades of the message that it was put there for.               *)
TradesComeAlong ==
    \A j \in Live \cap Tickers :
        feed = "changes" /\ job[j].place = "flush" /\ ~Twins(j[2]) =>
            \A e \in job[j].main : TradesOf(e[1], j[2][2]) \subseteq job[j].trades

(* Whom a message of ENGINE_SAVED concerns is told at once, of each order  *)
(* in a state not older than the message, unless a query fails.            *)
Told(m) ==
    LET i == InstOf[Taker(m)]
        told(u, e) == <<<<i, u>>, e>> \in raw
    IN  /\ feed \in {"changes", "orders"} =>
            \A o \in ToSet(msg[m].orders) :
                \E v \in m .. MaxMsgs : told(Owner[o], <<m, o, v>>)
        /\ feed \in {"changes", "trades"} =>
            \A o \in Makers(m) : /\ told(Owner[o], <<m, o, 0>>)
                                 /\ told(Owner[Taker(m)], <<m, o, 0>>)
        /\ feed = "market" =>
            \A o \in Makers(m) : told(Everyone, <<m, o, 0>>)

AllTold ==
    \A m \in Msgs :
        m \in DOMAIN msg /\ msg[m].kind = "saved"
            ~> m \in failed \/ (m \in DOMAIN msg /\ Told(m))

(* What a message has put into the feed is broadcast by some tick, but for *)
(* what StoredUntilSent excepts; and the last change of an instrument is   *)
(* in a later ticker.*.100ms, whatever comes between the tick and the      *)
(* clearing of its mark, unless a tick's query fails after the change: it  *)
(* is not made again.                                                      *)
TicksCatchUp ==
    LET done(m) == {x \in stored : x[2][1] = m} \subseteq sent \cup late
    IN  \A m \in Msgs :
            /\ ~done(m) ~> done(m)
            /\ \A i \in Insts :
                feed = "ticker" /\ m \in Concerned(i)
                    ~> shown[i] >= m \/ m \in failed
=============================================================================
