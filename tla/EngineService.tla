--------------------------- MODULE EngineService ----------------------------
(***************************************************************************)
(* What the gateway keeps in Redis of the engine's messages: the list      *)
(* ENGINE-<instrument> of what was answered (HandleConsume), and QUOTE-    *)
(* <instrument>, the best prices, which whoever computes them caches: the  *)
(* consumers that broadcast quote.<instrument>, a subscriber that finds    *)
(* none, and get_order_book (internal/engine/service, internal/ws/service, *)
(* internal/deribit/service).  Nothing keeps their reads and writes        *)
(* together.                                                               *)
(***************************************************************************)
EXTENDS EngineMessages

CONSTANTS
    Subs,       \* clients, each may subscribe to the quotes of an instrument
    Clients,    \* the users with the role of a client: who asks for a book
                \* sees makers' orders and their own
    Expired,    \* instruments that expired more than three days ago
    Public,     \* the book as nobody in particular sees it
    Replies,    \* {TRUE}, or with FALSE when Redis may fail
    MaxAsked    \* bound: calls of get_order_book

(* One goroutine per message of each topic, call of SubscribeQuote and of  *)
(* GetOrderBook.                                                           *)
Asked == {"get_order_book"} \X (1 .. MaxAsked)
Subscribing == {"subscribe"} \X Subs
Jobs == ({"engine", "quote"} \X Msgs) \cup Subscribing \cup Asked

VARIABLES
    engineLog,  \* ENGINE-<instrument>
    quote,      \* QUOTE-<instrument>
    subscribed, \* the QuoteSocket's subscriptions: <<instrument, client>>
    work,       \* what each goroutine has to do, and what it has read
    stale,      \* ghost: goroutines whose list was overwritten meanwhile
    lost,       \* ghost: instruments whose list one of those, or one that
                \* could not read it, has written; or that have expired
    heard,      \* ghost: <<client, message, version, view>>, what was sent
                \* for a message, or with 0 at first
    newest,     \* ghost: the last change whose handler has cached a quote of
                \* an instrument, or failed to
    excused     \* ghost: <<client, change>>, whom the change may not reach

logs == <<engineLog, stale, lost>>
quotes == <<quote, subscribed, heard, newest, excused>>
vars == <<engine, work, logs, quotes>>

Views == {Public} \cup Clients

(* A quote: how old the book is it was computed from, and whose.           *)
NoQuote == [seen |-> 0, view |-> Public, found |-> FALSE]

(* A step is a pair: what to do, for which instrument.                     *)
Idle == [todo |-> << >>, insts |-> << >>, log |-> << >>, quote |-> NoQuote,
         user |-> Public]

Init ==
    /\ InitEngine
    /\ engineLog = [i \in Insts |-> << >>]
    /\ quote = [i \in Insts |-> NoQuote]
    /\ subscribed = {}
    /\ work = [j \in {} |-> Idle]
    /\ stale = {} /\ lost = {} /\ heard = {} /\ excused = {}
    /\ newest = [i \in Insts |-> 0]

-----------------------------------------------------------------------------
At(j, what) ==
    j \in DOMAIN work /\ work[j].todo # << >> /\ work[j].todo[1][1] = what

Becomes(j, new) ==
    work' = [i \in DOMAIN work \cup {j} |-> IF i = j THEN new ELSE work[i]]

(* What is left to do when the first step is done.                         *)
Step(j) == [work[j] EXCEPT !.todo = Tail(@)]

Continues(j) == Becomes(j, Step(j))

Inst(j) == work[j].todo[1][2]

Starts(j, todo, insts) ==
    /\ j \notin DOMAIN work
    /\ Becomes(j, [Idle EXCEPT !.todo = todo, !.insts = insts])
    /\ UNCHANGED <<engine, logs, quotes>>

(* A message of ENGINE is answered (Protocol), deleted if it is too old    *)
(* for its instrument's list, and put into it.                             *)
HandleConsume(m) ==
    /\ m \in Answered /\ msg[m].kind = "order"
    /\ LET i == Instrument(m)
       IN  Starts(<<"engine", m>>,
                  (IF i \in Expired THEN <<<<"delete", i>>>> ELSE << >>)
                    \o <<<<"read", i>>, <<"append", i>>>>,
                  <<i>>)

checkDateToRemoveRedis(j) ==
    /\ At(j, "delete")
    /\ \E ok \in Replies : engineLog' = IF ok THEN [engineLog EXCEPT ![Inst(j)] = << >>]
                                       ELSE engineLog
    /\ lost' = lost \cup {Inst(j)}
    /\ Continues(j)
    /\ UNCHANGED <<engine, stale, quotes>>

Others(j) ==
    {n \in DOMAIN work \ {j} : At(n, "append") /\ Inst(n) = Inst(j)}

(* An error is taken for an empty list.                                    *)
ReadLog(j) ==
    /\ At(j, "read")
    /\ \E ok \in Replies :
        /\ Becomes(j, [Step(j) EXCEPT !.log =
                            IF ok THEN engineLog[Inst(j)] ELSE << >>])
        /\ lost' = IF ok THEN lost ELSE lost \cup {Inst(j)}
    /\ UNCHANGED <<engine, engineLog, stale, quotes>>

(* Mutant: what was there is not written back.                             *)
Appended_Alone(list, m) == <<m>>

Appended(list, m) == Append(list, m)

WriteLog(j) ==
    /\ At(j, "append")
    /\ \E ok \in Replies :
        /\ engineLog' = IF ok THEN [engineLog EXCEPT ![Inst(j)] =
                                        Appended(work[j].log, j[2])]
                        ELSE engineLog
        /\ lost' = IF ok /\ j \notin stale THEN lost ELSE lost \cup {Inst(j)}
        /\ stale' = IF ok THEN stale \cup Others(j) ELSE stale
    /\ Continues(j)
    /\ UNCHANGED <<engine, quotes>>

-----------------------------------------------------------------------------
(* Mutant: broadcast first, cache later.                                   *)
HandleConsumeQuote_Swapped(i) ==
    <<<<"query", i>>, <<"broadcast", i>>, <<"cache", i>>, <<"cache", i>>>>

(* GetDataQuote caches what it finds, and HandleConsumeQuote does, too.    *)
HandleConsumeQuote(i) ==
    <<<<"query", i>>, <<"cache", i>>, <<"cache", i>>, <<"broadcast", i>>>>

(* The same for each order that was cancelled.                             *)
HandleConsumeQuoteCancel(insts) ==
    [n \in 1 .. 4 * Len(insts) |->
        HandleConsumeQuote(insts[((n - 1) \div 4) + 1])[((n - 1) % 4) + 1]]

ConsumeQuote(m) ==
    \/ /\ m \in OrderSaved
       /\ Starts(<<"quote", m>>, HandleConsumeQuote(Instrument(m)), <<Instrument(m)>>)
    \/ /\ m \in CancelSaved
       /\ Starts(<<"quote", m>>, HandleConsumeQuoteCancel(msg[m].insts), msg[m].insts)

(* SubscribeQuote reads first, and subscribes after that.                  *)
SubscribeQuote(c, i) ==
    Starts(<<"subscribe", c>>, <<<<"get", i>>, <<"subscribe", i>>, <<"send", i>>>>,
           <<i>>)

(* get_order_book of user u, whom only the role of a client restricts.     *)
GetOrderBook(j, u, i) ==
    /\ j \in Asked /\ j \notin DOMAIN work
    /\ Becomes(j, [Idle EXCEPT !.todo = <<<<"query", i>>, <<"cache", i>>>>,
                               !.insts = <<i>>, !.user = u])
    /\ UNCHANGED <<engine, logs, quotes>>

(* The changes a client lacks whose quote is of version v and not n.       *)
Lacks(c, v, n) == {c} \X (v + 1 .. n)

(* The cached quote, if there is one; else GetDataQuote.                   *)
GetQuote(j) ==
    /\ At(j, "get")
    /\ \E ok \in Replies :
        LET cached == ok /\ quote[Inst(j)].found
        IN  /\ Becomes(j, IF cached
                          THEN [Step(j) EXCEPT !.quote = quote[Inst(j)]]
                          ELSE [work[j] EXCEPT !.todo =
                                    <<<<"query", Inst(j)>>, <<"cache", Inst(j)>>>> \o Tail(@)])
            /\ excused' = IF ~cached THEN excused
                          ELSE excused \cup Lacks(j[2], quote[Inst(j)].seen, newest[Inst(j)])
    /\ UNCHANGED <<engine, logs, quote, subscribed, heard, newest>>

(* A subscriber for whom the query fails may miss a change.                *)
QueryQuote(j) ==
    /\ At(j, "query")
    /\ \E v \in Finds(Inst(j)) :
        /\ Becomes(j, [Step(j) EXCEPT !.quote =
                        [seen |-> v, view |-> work[j].user, found |-> TRUE]])
        /\ excused' = IF j \notin Subscribing THEN excused
                      ELSE excused \cup Lacks(j[2], v, Version(Inst(j)))
    /\ UNCHANGED <<engine, logs, quote, subscribed, heard, newest>>

(* The last to write wins, who may have read first.                        *)
CacheQuote(j) ==
    LET i == Inst(j)
    IN  /\ At(j, "cache")
        /\ \E ok \in Replies :
            quote' = IF ok THEN [quote EXCEPT ![i] = work[j].quote] ELSE quote
        /\ newest' = IF j[1] = "quote" /\ j[2] > newest[i]
                     THEN [newest EXCEPT ![i] = j[2]] ELSE newest
    /\ Continues(j)
    /\ UNCHANGED <<engine, logs, subscribed, heard, excused>>

(* Mutant: the cached quote is sent.                                       *)
Announced_Cached(j) == quote[Inst(j)]

Announced(j) == work[j].quote

Following(i) == {c \in Subs : <<i, c>> \in subscribed}

(* Clients that have a quote without the change and not yet subscribed.    *)
Between(i, m) ==
    {c \in Subs : LET j == <<"subscribe", c>>
                  IN  /\ At(j, "cache") \/ At(j, "subscribe")
                      /\ Inst(j) = i /\ work[j].quote.seen < m}

(* To all subscribers, under the socket's lock.  If the handler's query    *)
(* failed, they do not get the change.                                     *)
BroadcastMessage(j) ==
    LET q == Announced(j)
        lacking == IF q.seen < j[2] THEN Following(Inst(j)) ELSE {}
    IN  /\ At(j, "broadcast")
        /\ heard' = heard \cup {<<c, j[2], q.seen, q.view>> : c \in Following(Inst(j))}
        /\ excused' = excused \cup (Between(Inst(j), j[2]) \cup lacking) \X {j[2]}
        /\ Continues(j)
        /\ UNCHANGED <<engine, logs, quote, subscribed, newest>>

Subscribe(j) ==
    /\ At(j, "subscribe")
    /\ subscribed' = subscribed \cup {<<Inst(j), j[2]>>}
    /\ Continues(j)
    /\ UNCHANGED <<engine, logs, quote, heard, newest, excused>>

SendInitMessage(j) ==
    LET q == work[j].quote
    IN  /\ At(j, "send")
        /\ heard' = heard \cup {<<j[2], 0, q.seen, q.view>>}
        /\ Continues(j)
        /\ UNCHANGED <<engine, logs, quote, subscribed, newest, excused>>

-----------------------------------------------------------------------------
Start ==
    \/ \E m \in DOMAIN msg : HandleConsume(m) \/ ConsumeQuote(m)
    \/ \E c \in Subs, i \in Insts : SubscribeQuote(c, i)
    \/ \E j \in Asked, u \in Views, i \in Insts : GetOrderBook(j, u, i)

Goroutine(j) ==
    \/ checkDateToRemoveRedis(j) \/ ReadLog(j) \/ WriteLog(j)
    \/ GetQuote(j) \/ QueryQuote(j) \/ CacheQuote(j)
    \/ BroadcastMessage(j) \/ Subscribe(j) \/ SendInitMessage(j)

Service == Start \/ \E j \in Jobs : Goroutine(j)

Next == Service \/ (EngineNext /\ UNCHANGED <<work, logs, quotes>>)

Spec == Init /\ [][Next]_vars

-----------------------------------------------------------------------------
(* Properties.                                                             *)

Steps == {"delete", "read", "append", "get", "query", "cache", "broadcast",
          "subscribe", "send"}

Quotes == [seen : 0 .. saved, view : Views, found : BOOLEAN]

(* Each variable has its type; a quote is computed from what is saved.     *)
TypeOK ==
    /\ engineLog \in [Insts -> Seq(Msgs)]
    /\ quote \in [Insts -> Quotes]
    /\ subscribed \subseteq Insts \X Subs
    /\ DOMAIN work \subseteq Jobs
    /\ \A j \in DOMAIN work : work[j] \in
            [todo : Seq(Steps \X Insts), insts : Seq(Insts), log : Seq(Msgs),
             quote : Quotes, user : Views]
    /\ heard \subseteq Subs \X (0 .. MaxMsgs) \X (0 .. saved) \X Views
    /\ stale \subseteq Jobs /\ lost \subseteq Insts
    /\ newest \in [Insts -> 0 .. saved] /\ excused \subseteq Subs \X Msgs

Done(j) == j \in DOMAIN work /\ work[j].todo = << >>

(* ENGINE-<instrument> has each message that was put into it once, however *)
(* many others were at the same time; and, unless one of those has written *)
(* back what it read before, Redis failed or the instrument expired, every *)
(* message whose handler has ended.                                        *)
LogKept ==
    \A i \in Insts :
        LET list == engineLog[i]
            put == {m \in Msgs : Done(<<"engine", m>>) /\ Instrument(m) = i}
        IN  /\ \A a, b \in DOMAIN list : list[a] = list[b] => a = b
            /\ {list[a] : a \in DOMAIN list} \subseteq put
            /\ i \notin lost => put \subseteq {list[a] : a \in DOMAIN list}

(* Who subscribes to the quotes of an instrument has been sent one with    *)
(* every change whose handler has ended.  This excepts the change for a    *)
(* subscriber that had read an older quote and not yet subscribed when     *)
(* that handler sent its own, for one that found in the cache a quote      *)
(* older than a handler had put there (another one was put back, or Redis  *)
(* failed), and for one whose query, or the handler's, failed: the error   *)
(* is taken for an empty book, whose quote is cached and sent.             *)
QuoteSettles ==
    \A m \in OrderSaved \cup CancelSaved : \A i \in Instruments(m), c \in Subs :
        (/\ Done(<<"quote", m>>) /\ Done(<<"subscribe", c>>)
         /\ c \in Following(i) /\ <<c, m>> \notin excused)
            => \E h \in heard : h[1] = c /\ h[3] >= m

(* The quote a client computes for itself is cached for all.  It reaches   *)
(* others only when they subscribe, and only after the client has asked:   *)
(* what is broadcast is never taken from the cache.                        *)
PrivateViewOnlyInitially ==
    \A h \in heard : h[4] # Public =>
        /\ h[2] = 0
        /\ \E j \in Asked \cap DOMAIN work :
                work[j].user = h[4] /\ work[j].insts = work[<<"subscribe", h[1]>>].insts

(* What is broadcast because of a saved change.                            *)
QuoteUpdates == {<<h[1], h[2], h[3]>> : h \in {x \in heard : x[2] # 0}}
=============================================================================
