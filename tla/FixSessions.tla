---------------------------- MODULE FixSessions -----------------------------
(***************************************************************************)
(* The FIX acceptor (internal/fix-acceptor): which user a session acts     *)
(* for, what the sessions subscribe to, and what the engine's messages     *)
(* make the gateway send to them.                                          *)
(*                                                                         *)
(* QuickFIX calls FromAdmin, FromApp and OnLogout of a session one after   *)
(* the other, in a goroutine of that session; each message of the engine   *)
(* has its goroutines, too.  They share userSession and the subscription   *)
(* maps.  Only those who write the latter take a mutex: a reader that      *)
(* meets a writer may end the process.                                     *)
(***************************************************************************)
EXTENDS EngineMessages

CONSTANTS
    Sessions,
    Nobody,     \* no user, no session
    NoInst,     \* what a request that is not about an instrument is about
    MaxRequests \* bound: logons and requests of all sessions

ASSUME ConstantsOK ==
    /\ MaxRequests \in Nat
    /\ Nobody \notin Users \cup Sessions /\ NoInst \notin Insts

(* Market data, quote status, security list, trade capture.                *)
Kinds == {"V", "A", "X", "AD"}
Types == {"snapshot", "updates", "disable"}
Keys == Insts \cup {NoInst}
Key(k, i) == IF k = "X" THEN NoInst ELSE i

Subscriptions == Kinds \X Keys \X Sessions

(* The goroutines per message: OrderConfirmation, MakerConfirmation,       *)
(* OnTradeHappens and onEngineSavedReceived.                               *)
Jobs == {"taker", "maker", "trade", "saved"} \X Msgs

VARIABLES
    running,            \* the process has not ended
    loggedOn,           \* the sessions QuickFIX has logged on
    userSession,
    subscriptions,      \* <<kind, key, session>>: the four ...Subscriptions
    subscriptionsList,  \* and the four ...SubscriptionsList
    request,            \* what each session's goroutine has to do
    job,                \* what each consumer has to do
    requests,           \* ghost: how many logons and requests so far
    logons,             \* ghost: <<session, user>> of every logon
    acted,              \* ghost: orders, and messages about a user's orders
    reported,           \* ghost: <<kind, key, session, message, version>>,
                        \* message 0 for a snapshot
    missed              \* ghost: <<subscription, message>>: it may have
                        \* missed that change

subs == <<subscriptions, subscriptionsList>>
memory == <<loggedOn, userSession, subs, request, job>>
ghosts == <<requests, logons, acted, reported, missed>>
vars == <<engine, running, memory, ghosts>>

(* A step is a pair: what to do, and for which kind or user.               *)
Idle == [todo |-> << >>, type |-> "", key |-> NoInst, user |-> Nobody,
         seen |-> 0]

NoJob == [todo |-> << >>, seen |-> 0, due |-> {}, visited |-> {}]

NoSession == [u \in Users |-> Nobody]

Init ==
    /\ InitEngine
    /\ running = TRUE
    /\ loggedOn = {}
    /\ userSession = NoSession
    /\ subscriptions = {} /\ subscriptionsList = {}
    /\ request = [s \in Sessions |-> Idle]
    /\ job = [j \in {} |-> NoJob]
    /\ requests = 0
    /\ logons = {} /\ acted = {} /\ reported = {} /\ missed = {}

-----------------------------------------------------------------------------
(* Requests.                                                               *)

At(s, what) == request[s].todo # << >> /\ request[s].todo[1][1] = what
Kind(s) == request[s].todo[1][2]

(* The goroutine of a session goes on, having found a user or a version.   *)
Goes(s, user, seen) ==
    request' = [request EXCEPT ![s] =
        [request[s] EXCEPT !.todo = Tail(@), !.user = user, !.seen = seen]]

Continues(s) == Goes(s, request[s].user, request[s].seen)

Ends(s) == request' = [request EXCEPT ![s] = Idle]

(* Mutant: the market data are read before the subscription is there.      *)
onMarketDataRequest_Swapped(type) ==
    <<<<"query", "V">>>>
        \o (IF type = "updates" THEN <<<<"subscribe", "V">>>> ELSE << >>)

(* A request to stop is answered like one for a snapshot.                  *)
onMarketDataRequest(type) ==
    (IF type = "updates" THEN <<<<"subscribe", "V">>>> ELSE << >>)
        \o <<<<"query", "V">>>>

(* What asks to stop, subscribes.                                          *)
OnQuoteStatusRequest(type) ==
    CASE type = "disable"  -> <<<<"subscribe", "A">>>>
      [] type = "snapshot" -> <<<<"query", "A">>>>
      [] type = "updates"  -> <<<<"query", "A">>, <<"subscribe", "A">>>>

onSecurityListRequest(type) ==
    CASE type = "disable"  -> <<<<"unsubscribe", "X">>>>
      [] type = "snapshot" -> <<<<"user", "X">>, <<"query", "X">>>>
      [] type = "updates"  -> <<<<"user", "X">>, <<"query", "X">>,
                                <<"subscribe", "X">>>>

OnTradeCaptureReportRequest(type) ==
    <<<<"user", "AD">>>> \o
    CASE type = "disable"  -> <<<<"unsubscribe", "AD">>>>
      [] type = "snapshot" -> <<<<"query", "AD">>>>
      [] type = "updates"  -> <<<<"query", "AD">>, <<"subscribe", "AD">>>>

Subscribing(k, type) ==
    CASE k = "V"  -> onMarketDataRequest(type)
      [] k = "A"  -> OnQuoteStatusRequest(type)
      [] k = "X"  -> onSecurityListRequest(type)
      [] k = "AD" -> OnTradeCaptureReportRequest(type)

(* onNewOrderSingle, onOrderUpdateRequest and onOrderCancelRequest alike:  *)
(* the last finds out that nobody owns no order.                           *)
Ordering == <<<<"user", "order">>, <<"place", "order">>>>

onOrderMassCancelRequest == Ordering \o <<<<"reply", "order">>>>

FromApp(s) ==
    /\ s \in loggedOn /\ request[s].todo = << >> /\ requests < MaxRequests
    /\ \/ \E k \in Kinds, t \in Types, i \in Insts :
            request' = [request EXCEPT ![s] =
                [Idle EXCEPT !.todo = Subscribing(k, t), !.type = t,
                             !.key = Key(k, i)]]
       \/ \E todo \in {Ordering, onOrderMassCancelRequest} :
            request' = [request EXCEPT ![s] = [Idle EXCEPT !.todo = todo]]
    /\ requests' = requests + 1
    /\ UNCHANGED <<engine, running, loggedOn, userSession, subs, job, logons,
                   acted, reported, missed>>

(* Mutant: whoever has a session.                                          *)
UsersAt_Any(s) == {u \in Users : userSession[u] # Nobody}

UsersAt(s) == {u \in Users : userSession[u] = s}

(* The range over userSession; it may find any of several users.  Without  *)
(* one, only the list of securities is given out.                          *)
Lookup(s) ==
    /\ At(s, "user")
    /\ IF UsersAt(s) # {} THEN \E u \in UsersAt(s) : Goes(s, u, 0)
       ELSE IF Kind(s) = "X" THEN Continues(s) ELSE Ends(s)
    /\ UNCHANGED <<engine, running, loggedOn, userSession, subs, job, ghosts>>

(* An order of u is placed, or something said about one, at session s.     *)
ActsFor(what, u, s, m) ==
    acted' = acted \cup {[what |-> what, user |-> u, session |-> s, msg |-> m]}

(* DeribitRequest, DeribitParseCancel: the order may be refused.           *)
Place(s) ==
    /\ At(s, "place")
    /\ \/ Continues(s) /\ ActsFor("order", request[s].user, s, 0)
       \/ Ends(s) /\ UNCHANGED acted
    /\ UNCHANGED <<engine, running, loggedOn, userSession, subs, job, requests,
                   logons, reported, missed>>

Reply(s) ==
    LET u == request[s].user
    IN  /\ At(s, "reply")
        /\ ActsFor("cancelled", u, userSession[u], 0)
        /\ Continues(s)
        /\ UNCHANGED <<engine, running, loggedOn, userSession, subs, job, requests,
                       logons, reported, missed>>

(* Market data without entries are not sent.  What is left of a book of    *)
(* which a query failed, or which the request did not ask for as a whole,  *)
(* may have some.                                                          *)
Sends(k, i, v) ==
    CASE k = "A"                       -> {TRUE}
      [] k = "V" /\ Empty(i)           -> {FALSE}
      [] k = "V" /\ ~Empty(i)          -> IF v = Version(i) THEN {TRUE} ELSE BOOLEAN

(* What a subscription that has got no book does not know of.             *)
Unseen(x) == {x} \X {m \in OrderSaved : Instrument(m) = x[2]}

(* Sending is local to QuickFIX: what matters is when the book was read    *)
(* and whether it is all there.  onMarketDataRequest sends only the        *)
(* MDEntryTypes asked for: one side of the book, or none, is like a book   *)
(* of which a query failed.  The query for instruments or trades may fail, *)
(* too, which ends the request.                                            *)
Query(s) ==
    LET k == Kind(s)
        i == request[s].key
    IN  /\ At(s, "query")
        /\ \/ /\ k \in {"V", "A"}
              /\ \E v \in Finds(i) : \E sent \in Sends(k, i, v) :
                    /\ Goes(s, request[s].user, v)
                    /\ reported' = IF sent THEN reported \cup {<<k, i, s, 0, v>>}
                                   ELSE reported
                    /\ missed' = IF sent /\ v = Version(i) THEN missed
                                 ELSE missed \cup Unseen(<<k, i, s>>)
           \/ /\ k \notin {"V", "A"}
              /\ Continues(s) \/ Ends(s)
              /\ UNCHANGED <<reported, missed>>
        /\ UNCHANGED <<engine, running, loggedOn, userSession, subs, job, requests,
                       logons, acted>>

Subscribe(s) ==
    LET x == <<Kind(s), request[s].key, s>>
    IN  /\ At(s, "subscribe")
        /\ subscriptions' = subscriptions \cup {x}
        /\ subscriptionsList' = subscriptionsList \cup {x}
        /\ missed' = IF request[s].type = "disable" THEN missed \cup Unseen(x)
                     ELSE missed
        /\ Continues(s)
        /\ UNCHANGED <<engine, running, loggedOn, userSession, job, requests,
                       logons, acted, reported>>

Unsubscribe(s) ==
    /\ At(s, "unsubscribe")
    /\ subscriptions' = subscriptions \ {<<Kind(s), request[s].key, s>>}
    /\ Continues(s)
    /\ UNCHANGED <<engine, running, loggedOn, userSession, subscriptionsList, job,
                   ghosts>>

(* SecurityListSnapshot takes the first ten instruments: with fewer it     *)
(* panics, and nothing recovers.  A dead process has no memory.            *)
Dies ==
    /\ running' = FALSE
    /\ loggedOn' = {} /\ userSession' = NoSession
    /\ subscriptions' = {} /\ subscriptionsList' = {}
    /\ request' = [s \in Sessions |-> Idle] /\ job' = [j \in {} |-> NoJob]
    /\ UNCHANGED <<engine, ghosts>>

SecurityListPanics(s) == At(s, "query") /\ Kind(s) = "X" /\ Dies

-----------------------------------------------------------------------------
(* Logging on and out.                                                     *)

(* Any user may log on at any session: the credentials name the user.      *)
Logon(s) ==
    /\ s \notin loggedOn /\ request[s].todo = << >> /\ requests < MaxRequests
    /\ \E u \in Users : request' = [request EXCEPT ![s] =
            [Idle EXCEPT !.todo = <<<<"logon", "">>>>, !.user = u]]
    /\ requests' = requests + 1
    /\ UNCHANGED <<engine, running, loggedOn, userSession, subs, job, logons,
                   acted, reported, missed>>

FromAdmin(s) ==
    LET u == request[s].user
    IN  /\ At(s, "logon")
        /\ userSession' = [userSession EXCEPT ![u] = s]
        /\ loggedOn' = loggedOn \cup {s}
        /\ logons' = logons \cup {<<s, u>>}
        /\ Ends(s)
        /\ UNCHANGED <<engine, running, subs, job, requests, acted, reported,
                       missed>>

(* Mutant: a kind of subscription is forgotten.                            *)
Logout_Forgets ==
    <<<<"unsubscribeAll", "AD">>, <<"unsubscribeAll", "A">>,
      <<"unsubscribeAll", "X">>>>

Logout ==
    <<<<"unsubscribeAll", "AD">>, <<"unsubscribeAll", "A">>,
      <<"unsubscribeAll", "X">>, <<"unsubscribeAll", "V">>>>

(* Nothing is removed from userSession.                                    *)
OnLogout(s) ==
    /\ s \in loggedOn /\ request[s].todo = << >>
    /\ loggedOn' = loggedOn \ {s}
    /\ request' = [request EXCEPT ![s] = [Idle EXCEPT !.todo = Logout]]
    /\ UNCHANGED <<engine, running, userSession, subs, job, ghosts>>

(* What the list, which is never shortened, says the session has           *)
(* subscribed to.                                                          *)
UnsubscribeAll(k, s) ==
    {x \in subscriptions : x[1] = k /\ x[3] = s /\ x \in subscriptionsList}

Leave(s) ==
    /\ At(s, "unsubscribeAll")
    /\ subscriptions' = subscriptions \ UnsubscribeAll(Kind(s), s)
    /\ Continues(s)
    /\ UNCHANGED <<engine, running, loggedOn, userSession, subscriptionsList, job,
                   ghosts>>

-----------------------------------------------------------------------------
(* Messages of the engine.                                                 *)

(* One confirmation to each trade's maker.                                 *)
MakerConfirmation(m) ==
    [n \in DOMAIN msg[m].makers |-> <<"confirm", msg[m].makers[n]>>]

OrderConfirmation(m) == <<<<"confirm", msg[m].taker>>>>

(* BroadcastTrades has no subscribers, nobody enters them.                 *)
OnTradeHappens(m) ==
    [n \in DOMAIN msg[m].makers |-> <<"range", "AD">>]
        \o <<<<"query", "V">>, <<"range", "V">>>>

OnEngineSavedReceived ==
    <<<<"query", "A">>, <<"range", "A">>, <<"count", "X">>, <<"range", "X">>>>

Todo(j) ==
    CASE j[1] = "taker" -> OrderConfirmation(j[2])
      [] j[1] = "maker" -> MakerConfirmation(j[2])
      [] j[1] = "trade" -> OnTradeHappens(j[2])
      [] j[1] = "saved" -> OnEngineSavedReceived

(* Mutant: quotes are reported when the engine answers.                    *)
Arrived_Early == {j \in Jobs : j[2] \in Answered}

Arrived == {j \in Jobs : j[2] \in IF j[1] = "saved" THEN OrderSaved ELSE Answered}

(* What a goroutine has to do, whether or not it has run before.           *)
Now(j) ==
    IF j \in DOMAIN job THEN job[j] ELSE [NoJob EXCEPT !.todo = Todo(j)]

Next1(j, what) == j \in Arrived /\ Now(j).todo # << >> /\ Now(j).todo[1][1] = what

Becomes(j, new) ==
    job' = [i \in DOMAIN job \cup {j} |-> IF i = j THEN new ELSE job[i]]

(* A confirmation goes to where the user has logged on last.               *)
Confirm(j) ==
    LET u == Now(j).todo[1][2]
    IN  /\ Next1(j, "confirm")
        /\ IF userSession[u] = Nobody THEN UNCHANGED acted
           ELSE ActsFor("confirmed", u, userSession[u], j[2])
        /\ Becomes(j, [Now(j) EXCEPT !.todo = Tail(@)])
        /\ UNCHANGED <<engine, running, loggedOn, userSession, subs, request,
                       requests, logons, reported, missed>>

(* The book to report.  On ENGINE it may be read too early, the query may  *)
(* fail, and market data without entries are not broadcast: who is         *)
(* subscribed then may have missed the change.                             *)
ReadBook(j) ==
    LET k == Now(j).todo[1][2]
        i == Instrument(j[2])
    IN  /\ Next1(j, "query")
        /\ \E v \in Finds(i) : \E sent \in Sends(k, i, v) :
            /\ Becomes(j, [Now(j) EXCEPT !.todo = IF sent THEN Tail(@) ELSE << >>,
                                         !.seen = v])
            /\ missed' = IF sent /\ v >= j[2] THEN missed
                         ELSE missed \cup {<<<<k, i, s>>, j[2]>> : s \in Sessions}
        /\ UNCHANGED <<engine, running, loggedOn, userSession, subs, request,
                       requests, logons, acted, reported>>

(* An instrument counts as new while it has one open order.                *)
CountOrders(j) ==
    /\ Next1(j, "count")
    /\ Becomes(j, [Now(j) EXCEPT !.todo = IF open[Instrument(j[2])] = 1
                                          THEN Tail(@) ELSE << >>])
    /\ UNCHANGED <<engine, running, loggedOn, userSession, subs, request, ghosts>>

Subscribed(k, i) == {s \in Sessions : <<k, Key(k, i), s>> \in subscriptions}

(* The range over a map of subscribers: it visits all that are in the map  *)
(* throughout, each once, and any of those that come meanwhile.  A session *)
(* that has its snapshot of quotes and is not yet in the map may miss the  *)
(* report; for market data it is in the map before.                        *)
RangeOver(j) ==
    LET k == Now(j).todo[1][2]
        i == Instrument(j[2])
    IN  /\ Next1(j, "range")
        /\ Becomes(j, [Now(j) EXCEPT !.todo = <<<<"visit", k>>>> \o Tail(@),
                                     !.due = Subscribed(k, i), !.visited = {}])
        /\ missed' = missed \cup {<<<<"A", i, s>>, j[2]>> : s \in
                        {t \in Sessions : /\ At(t, "subscribe") /\ Kind(t) = "A"
                                          /\ request[t].key = i /\ k = "A"}}
        /\ UNCHANGED <<engine, running, loggedOn, userSession, subs, request,
                       requests, logons, acted, reported>>

Visit(j) ==
    LET k == Now(j).todo[1][2]
        i == Instrument(j[2])
    IN  /\ Next1(j, "visit")
        /\ \E s \in Subscribed(k, i) \ job[j].visited :
            /\ Becomes(j, [job[j] EXCEPT !.visited = @ \cup {s}])
            /\ reported' = reported \cup {<<k, Key(k, i), s, j[2], job[j].seen>>}
        /\ UNCHANGED <<engine, running, loggedOn, userSession, subs, request,
                       requests, logons, acted, missed>>

RangeEnds(j) ==
    LET k == Now(j).todo[1][2]
    IN  /\ Next1(j, "visit")
        /\ job[j].due \cap Subscribed(k, Instrument(j[2])) \subseteq job[j].visited
        /\ Becomes(j, [job[j] EXCEPT !.todo = Tail(@), !.due = {}, !.visited = {}])
        /\ UNCHANGED <<engine, running, loggedOn, userSession, subs, request, ghosts>>

(* One goroutine ranges over a map, another one is about to write to it.   *)
MapsClash ==
    /\ \/ \E s, t \in Sessions : At(s, "logon") /\ At(t, "user")
       \/ \E s \in Sessions, j \in DOMAIN job :
            /\ At(s, "subscribe") \/ At(s, "unsubscribe") \/ At(s, "unsubscribeAll")
            /\ Next1(j, "visit") /\ job[j].todo[1][2] = Kind(s)
    /\ Dies

-----------------------------------------------------------------------------
Handle(s) ==
    \/ Lookup(s) \/ Place(s) \/ Reply(s) \/ Query(s) \/ Subscribe(s)
    \/ Unsubscribe(s) \/ FromAdmin(s) \/ Leave(s) \/ SecurityListPanics(s)

Consume(j) ==
    \/ Confirm(j) \/ ReadBook(j) \/ CountOrders(j) \/ RangeOver(j) \/ Visit(j) \/ RangeEnds(j)

Peer(s) == FromApp(s) \/ Logon(s) \/ OnLogout(s)

Acceptor ==
    \/ \E s \in Sessions : Peer(s) \/ Handle(s)
    \/ \E j \in Jobs : Consume(j)
    \/ MapsClash

Next ==
    /\ running
    /\ Acceptor \/ (EngineNext /\ UNCHANGED <<running, memory, ghosts>>)

Spec == Init /\ [][Next]_vars

-----------------------------------------------------------------------------
(* Properties.                                                             *)

Steps ==
    ({"user"} \X {"X", "AD", "order"}) \cup ({"place", "reply"} \X {"order"})
        \cup ({"query", "subscribe", "unsubscribe", "unsubscribeAll"} \X Kinds)
        \cup {<<"logon", "">>}

JobSteps ==
    ({"confirm"} \X Users) \cup ({"query"} \X {"V", "A"})
        \cup ({"range", "visit"} \X Kinds) \cup {<<"count", "X">>}

(* Each variable has its type; a book that was read is one that was saved. *)
TypeOK ==
    /\ running \in BOOLEAN /\ loggedOn \subseteq Sessions
    /\ userSession \in [Users -> Sessions \cup {Nobody}]
    /\ subscriptions \subseteq Subscriptions
    /\ subscriptionsList \subseteq Subscriptions
    /\ request \in [Sessions ->
            [todo : Seq(Steps), type : Types \cup {""}, key : Keys,
             user : Users \cup {Nobody}, seen : 0 .. saved]]
    /\ DOMAIN job \subseteq Jobs
    /\ \A j \in DOMAIN job : job[j] \in
            [todo : Seq(JobSteps), seen : 0 .. saved,
             due : SUBSET Sessions, visited : SUBSET Sessions]
    /\ requests \in 0 .. MaxRequests /\ logons \subseteq Sessions \X Users
    /\ reported \subseteq Kinds \X Keys \X Sessions \X (0 .. MaxMsgs) \X (0 .. saved)
    /\ missed \subseteq Subscriptions \X Msgs

(* A session that has logged out has no subscriptions left, whatever it    *)
(* had asked for and given up: OnLogout walks lists that are only ever     *)
(* appended to.                                                            *)
LoggedOutUnsubscribed ==
    \A x \in subscriptions : x[3] \in loggedOn \/ request[x[3]].todo # << >>

(* Nobody removes a user from userSession, who may have logged out, or in  *)
(* at another session since.  All the same an order is placed for, and a   *)
(* confirmation about a user's order sent to, a session only if that user  *)
(* has once logged on there: a session nobody shares is nobody else's.     *)
UsersOfTheSession ==
    \A x \in acted : <<x.session, x.user>> \in logons

Heard(x) == {r[5] : r \in {q \in reported : <<q[1], q[2], q[3]>> = x}}

(* The goroutine that reports m to those who subscribe to k has done so.   *)
Over(k, m) ==
    LET j == <<IF k = "A" THEN "saved" ELSE "trade", m>>
    IN  j \in DOMAIN job /\ \A n \in DOMAIN job[j].todo : job[j].todo[n][2] # k

(* Who subscribes to quotes or market data has been sent, by a report or   *)
(* in the snapshot, a book with every order that is saved and reported.    *)
(* This excepts, each time, the orders saved before a snapshot that was    *)
(* not asked for, not for both sides, or not sent for an empty book; those *)
(* before one, or of a report, for which a query for the book failed (its  *)
(* error is taken for an empty book); and those whose report was read      *)
(* before they were saved or comes between snapshot and subscription.      *)
UpToDate ==
    \A x \in subscriptions : \A m \in OrderSaved :
        (/\ x[1] \in {"A", "V"} /\ x[2] = Instrument(m) /\ <<x, m>> \notin missed
         /\ Over(x[1], m) /\ request[x[3]].todo = << >>)
            => \E v \in Heard(x) : v >= m

(* What is sent as quote status report because of a saved order.           *)
QuoteReports == {<<r[3], r[4], r[5]>> : r \in
                    {q \in reported : q[1] = "A" /\ q[4] # 0}}
=============================================================================
