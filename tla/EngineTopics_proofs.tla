------------------------ MODULE EngineTopics_proofs -------------------------
(***************************************************************************)
(* The acceptor, and the process it shares with the engine service.        *)
(*                                                                         *)
(* First invariants of FixSessions, for any sessions, users, instruments   *)
(* and messages of the engine: types, what a session that logged out       *)
(* leaves behind, whom orders and messages about them concern, how old the *)
(* book in a quote status report may be, and that subscribers miss none.   *)
(*                                                                         *)
(* Then the process: each of the two keeps its invariants, since neither   *)
(* touches what the other has; and what either shows to its subscribers    *)
(* refines FreshFeed.                                                      *)
(***************************************************************************)
EXTENDS EngineTopics, EngineMessages_proofs

-----------------------------------------------------------------------------
(* Types.                                                                  *)

Request == [todo : Seq(Steps), type : Types \cup {""}, key : Keys,
            user : Users \cup {Nobody}, seen : 0 .. saved]

Job == [todo : Seq(JobSteps), seen : 0 .. saved,
        due : SUBSET Sessions, visited : SUBSET Sessions]

(* Books are read of instruments, and it is users who log on.              *)
Sensible(r) ==
    \A n \in DOMAIN r.todo :
        /\ r.todo[n][1] = "query" /\ r.todo[n][2] \in {"V", "A"} => r.key \in Insts
        /\ r.todo[n][1] = "logon" => r.user \in Users

(* Quotes are reported from a book that was read, or whose query failed,   *)
(* after their order was saved, or from one that is still to be read.      *)
Reporting(step) == step[1] \in {"range", "visit"} /\ step[2] = "A"

Fresh(j, r) ==
    \A n \in DOMAIN r.todo : Reporting(r.todo[n]) =>
        /\ j[2] \in OrderSaved
        /\ NoOlder(r.seen, j[2]) \/ (n > 1 /\ r.todo[1] = <<"query", "A">>)

RequestsOK ==
    request \in [Sessions -> Request] /\ \A s \in Sessions : Sensible(request[s])

JobsOK ==
    DOMAIN job \subseteq Jobs /\ \A j \in DOMAIN job : job[j] \in Job /\ Fresh(j, job[j])

(* A quote status report has the change it is about, or its query failed,  *)
(* see FreshFeed.                                                          *)
ReportsOK ==
    /\ reported \subseteq Kinds \X Keys \X Sessions \X (0 .. MaxMsgs) \X (0 .. saved)
    /\ \A q \in QuoteReports :
            q[2] \in 1 .. saved /\ q[3] \in {0} \cup (q[2] .. saved)

OthersOK ==
    /\ running \in BOOLEAN /\ loggedOn \subseteq Sessions
    /\ userSession \in [Users -> Sessions \cup {Nobody}]
    /\ subscriptions \subseteq Subscriptions
    /\ subscriptionsList \subseteq Subscriptions
    /\ requests \in 0 .. MaxRequests /\ logons \subseteq Sessions \X Users
    /\ missed \subseteq Subscriptions \X Msgs

IInv == EngineOK /\ OthersOK /\ RequestsOK /\ JobsOK /\ ReportsOK

-----------------------------------------------------------------------------
(* What there is to do.                                                    *)

StepsOf(k) ==
    {x \in Steps : x[1] \in {"user", "query", "subscribe", "unsubscribe"} /\ x[2] = k}

LEMMA StepKind ==
    ASSUME NEW x \in Steps,
           x[1] \in {"query", "subscribe", "unsubscribe", "unsubscribeAll"}
    PROVE  x[2] \in Kinds
<1>1. CASE x \in {"query", "subscribe", "unsubscribe", "unsubscribeAll"} \X Kinds
  BY <1>1
<1>2. CASE x \in {"user"} \X {"X", "AD", "order"}
  BY <1>2
<1>3. CASE x \in {"place", "reply"} \X {"order"}
  BY <1>3
<1>4. CASE x = <<"logon", "">>
  BY <1>4
<1> QED BY <1>1, <1>2, <1>3, <1>4 DEF Steps

LEMMA SubscribingSteps ==
    ASSUME NEW k \in Kinds, NEW t \in Types
    PROVE  Subscribing(k, t) \in Seq(StepsOf(k))
<1>1. CASE k = "V"
  <2>1. <<<<"subscribe", "V">>>> \in Seq(StepsOf("V"))
        /\ <<<<"query", "V">>>> \in Seq(StepsOf("V")) /\ << >> \in Seq(StepsOf("V"))
    BY DEF StepsOf, Steps, Kinds
  <2> QED BY <1>1, <2>1, Concat DEF Subscribing, onMarketDataRequest
<1>2. CASE k = "A"
  <2>1. /\ <<<<"subscribe", "A">>>> \in Seq(StepsOf("A"))
        /\ <<<<"query", "A">>>> \in Seq(StepsOf("A"))
        /\ <<<<"query", "A">>, <<"subscribe", "A">>>> \in Seq(StepsOf("A"))
    BY DEF StepsOf, Steps, Kinds
  <2> QED BY <1>2, <2>1 DEF Subscribing, OnQuoteStatusRequest, Types
<1>3. CASE k = "X"
  <2>1. /\ <<<<"unsubscribe", "X">>>> \in Seq(StepsOf("X"))
        /\ <<<<"user", "X">>, <<"query", "X">>>> \in Seq(StepsOf("X"))
        /\ <<<<"user", "X">>, <<"query", "X">>, <<"subscribe", "X">>>> \in Seq(StepsOf("X"))
    BY DEF StepsOf, Steps, Kinds
  <2> QED BY <1>3, <2>1 DEF Subscribing, onSecurityListRequest, Types
<1>4. CASE k = "AD"
  <2>1. <<<<"user", "AD">>>> \in Seq(StepsOf("AD"))
        /\ <<<<"unsubscribe", "AD">>>> \in Seq(StepsOf("AD"))
        /\ <<<<"query", "AD">>>> \in Seq(StepsOf("AD"))
        /\ <<<<"query", "AD">>, <<"subscribe", "AD">>>> \in Seq(StepsOf("AD"))
    BY DEF StepsOf, Steps, Kinds
  <2> QED BY <1>4, <2>1, Concat DEF Subscribing, OnTradeCaptureReportRequest, Types
<1> QED BY <1>1, <1>2, <1>3, <1>4 DEF Kinds

OrderSteps == {"user", "place", "reply"} \X {"order"}

LEMMA OrderingSteps ==
    /\ Ordering[1] = <<"user", "order">>
    /\ onOrderMassCancelRequest[1] = <<"user", "order">>
    /\ OrderSteps \subseteq Steps
    /\ Ordering \in Seq(OrderSteps) /\ onOrderMassCancelRequest \in Seq(OrderSteps)
<1>1. /\ Ordering \in Seq(OrderSteps) /\ <<<<"reply", "order">>>> \in Seq(OrderSteps)
      /\ Len(Ordering) = 2 /\ Len(<<<<"reply", "order">>>>) = 1
  BY DEF Ordering, OrderSteps
<1>2. /\ onOrderMassCancelRequest \in Seq(OrderSteps)
      /\ Len(onOrderMassCancelRequest) = 3
      /\ onOrderMassCancelRequest[1] = <<"user", "order">>
  BY <1>1, Concat DEF onOrderMassCancelRequest, Ordering
<1> QED BY <1>1, <1>2 DEF Ordering, Steps, OrderSteps

LEMMA LogoutSteps == Logout \in Seq({"unsubscribeAll"} \X Kinds)
BY DEF Logout, Kinds

(* A goroutine begins with steps that are no visits.                       *)
FirstSteps == {x \in JobSteps : x[1] # "visit"}

LEMMA JobTodo ==
    ASSUME EngineOK, NEW j \in Arrived
    PROVE  /\ Todo(j) \in Seq(FirstSteps)
           /\ Fresh(j, [NoJob EXCEPT !.todo = Todo(j)])
<1>1. j \in Jobs /\ j[2] \in DOMAIN msg /\ (j[1] = "saved" => j[2] \in OrderSaved)
  BY DEF Arrived, Answered, OrderSaved, Jobs
<1>2. msg[j[2]].taker \in Users /\ msg[j[2]].makers \in Seq(Users)
  BY <1>1, MessageType
<1> DEFINE r == [NoJob EXCEPT !.todo = Todo(j)]
           Plain == {x \in FirstSteps : ~Reporting(x)}
<1>3. r.todo = Todo(j)
  BY DEF NoJob
<1>4. ASSUME Todo(j) \in Seq(Plain)
      PROVE  Todo(j) \in Seq(FirstSteps) /\ Fresh(j, r)
  BY <1>3, <1>4 DEF Fresh
<1>5. CASE j[1] = "taker"
  BY <1>2, <1>4, <1>5 DEF Todo, OrderConfirmation, JobSteps, Reporting, FirstSteps
<1>6. CASE j[1] = "maker"
  <2>1. Todo(j) = [n \in DOMAIN msg[j[2]].makers |-> <<"confirm", msg[j[2]].makers[n]>>]
    BY <1>6 DEF Todo, MakerConfirmation
  <2>2. \A n \in DOMAIN msg[j[2]].makers : <<"confirm", msg[j[2]].makers[n]>> \in Plain
    BY <1>2 DEF JobSteps, Reporting, FirstSteps
  <2> QED BY <1>2, <1>4, <2>1, <2>2, MapOfSeq
<1>7. CASE j[1] = "trade"
  <2> DEFINE reports == [n \in DOMAIN msg[j[2]].makers |-> <<"range", "AD">>]
             rest == <<<<"query", "V">>, <<"range", "V">>>>
  <2>1. Todo(j) = reports \o rest
    BY <1>7 DEF Todo, OnTradeHappens
  <2>2. <<"range", "AD">> \in Plain
    BY DEF JobSteps, Kinds, Reporting, FirstSteps
  <2>3. reports \in Seq(Plain)
    BY <1>2, <2>2, MapOfSeq
  <2>4. rest \in Seq(Plain)
    BY DEF JobSteps, Kinds, Reporting, FirstSteps
  <2> QED BY <1>4, <2>1, <2>3, <2>4, Concat
<1>8. CASE j[1] = "saved"
  <2>1. Todo(j) = <<<<"query", "A">>, <<"range", "A">>, <<"count", "X">>, <<"range", "X">>>>
    BY <1>8 DEF Todo, OnEngineSavedReceived
  <2>2. Todo(j) \in Seq(FirstSteps)
    BY <2>1 DEF JobSteps, Kinds, FirstSteps
  <2>3. Fresh(j, r)
    BY <1>1, <1>3, <1>8, <2>1 DEF Fresh, Reporting
  <2> QED BY <2>2, <2>3
<1> QED BY <1>1, <1>5, <1>6, <1>7, <1>8 DEF Jobs

-----------------------------------------------------------------------------
(* How requests and jobs change.                                           *)

LEMMA NewRequest ==
    ASSUME RequestsOK, NEW s \in Sessions, NEW r \in Request,
           request' = [request EXCEPT ![s] = r], Sensible(r), saved' = saved
    PROVE  RequestsOK'
BY DEF RequestsOK, Request

LEMMA IdleRequest ==
    ASSUME saved \in Nat
    PROVE  /\ Idle \in Request /\ Sensible(Idle)
           /\ \A todo : [Idle EXCEPT !.todo = todo].todo = todo
           /\ \A n : n \notin DOMAIN Idle.todo
<1>1. << >> \in Seq(Steps)
  OBVIOUS
<1> QED BY <1>1 DEF Idle, Request, Sensible, Keys

LEMMA GoesOn ==
    ASSUME RequestsOK, saved \in Nat, NEW s \in Sessions, request[s].todo # << >>,
           NEW user \in Users \cup {Nobody}, NEW seen \in 0 .. saved,
           user \in Users \/ user = request[s].user,
           Goes(s, user, seen), saved' = saved
    PROVE  /\ RequestsOK'
           /\ request'[s].todo = Tail(request[s].todo)
           /\ request'[s].user = user /\ request'[s].key = request[s].key
           /\ \A t \in Sessions \ {s} : request'[t] = request[t]
<1> DEFINE r == [request[s] EXCEPT !.todo = Tail(@), !.user = user, !.seen = seen]
<1>1. request' = [request EXCEPT ![s] = r]
  BY DEF Goes
<1>2. request[s] \in Request /\ Sensible(request[s])
  BY DEF RequestsOK
<1>9. request[s].todo \in Seq(Steps)
  BY <1>2 DEF Request
<1>3. /\ Tail(request[s].todo) \in Seq(Steps)
      /\ \A n \in DOMAIN Tail(request[s].todo) :
            /\ n + 1 \in DOMAIN request[s].todo
            /\ Tail(request[s].todo)[n] = request[s].todo[n + 1]
  <2> HIDE DEF r
  <2> QED BY <1>9, TailOfSeq
<1>4. /\ r \in Request /\ r.todo = Tail(request[s].todo) /\ r.user = user
      /\ r.key = request[s].key
  BY <1>2, <1>3 DEF Request
<1> HIDE DEF r
<1>5. Sensible(r)
  BY <1>2, <1>3, <1>4 DEF Sensible
<1>6. RequestsOK'
  BY <1>1, <1>4, <1>5, NewRequest
<1> QED BY <1>1, <1>4, <1>6 DEF RequestsOK

LEMMA EndsNow ==
    ASSUME RequestsOK, saved \in Nat, NEW s \in Sessions, Ends(s), saved' = saved
    PROVE  /\ RequestsOK' /\ request'[s] = Idle
           /\ \A t \in Sessions \ {s} : request'[t] = request[t]
BY NewRequest, IdleRequest DEF Ends, RequestsOK

LEMMA NewTodo ==
    ASSUME RequestsOK, saved \in Nat, NEW s \in Sessions, NEW r \in Request,
           request' = [request EXCEPT ![s] = r], Sensible(r), saved' = saved
    PROVE  /\ RequestsOK' /\ request'[s] = r
           /\ \A t \in Sessions \ {s} : request'[t] = request[t]
BY NewRequest DEF RequestsOK

LEMMA NewJob ==
    ASSUME JobsOK, NEW j \in Jobs, NEW r \in Job, Fresh(j, r), Becomes(j, r),
           saved' = saved, msg' = msg
    PROVE  /\ JobsOK' /\ DOMAIN job' = DOMAIN job \cup {j} /\ job'[j] = r
           /\ \A i \in DOMAIN job \ {j} : job'[i] = job[i]
<1>1. /\ DOMAIN job' = DOMAIN job \cup {j} /\ job'[j] = r
      /\ \A i \in DOMAIN job \ {j} : job'[i] = job[i]
  BY DEF Becomes
<1>2. Job' = Job /\ OrderSaved' = OrderSaved
  BY DEF Job, OrderSaved
<1> QED BY <1>1, <1>2 DEF JobsOK, Fresh

(* What a goroutine has to do now.                                         *)
LEMMA NowType ==
    ASSUME IInv, NEW j \in Arrived
    PROVE  /\ Now(j) \in Job /\ Fresh(j, Now(j)) /\ j \in Jobs
           /\ Now(j).todo # << >> =>
                /\ Now(j).todo[1] \in JobSteps /\ 1 \in DOMAIN Now(j).todo
                /\ Now(j).todo[1][1] = "visit" => j \in DOMAIN job /\ Now(j) = job[j]
<1>1. j \in Jobs
  BY DEF Arrived
<1>2. << >> \in Seq(JobSteps) /\ 0 \in 0 .. saved
  BY DEF IInv, EngineOK
<1>3. CASE j \in DOMAIN job
  <2>1. Now(j) = job[j] /\ Now(j) \in Job /\ Fresh(j, Now(j))
    BY <1>1, <1>3 DEF Now, IInv, JobsOK
  <2>2. Now(j).todo \in Seq(JobSteps)
    BY <2>1 DEF Job
  <2> QED BY <1>1, <1>3, <2>1, <2>2, TailOfSeq
<1>4. CASE j \notin DOMAIN job
  <2>1. Now(j) = [NoJob EXCEPT !.todo = Todo(j)]
    BY <1>4 DEF Now
  <2>2. Todo(j) \in Seq(FirstSteps) /\ Fresh(j, Now(j))
    BY <2>1, JobTodo DEF IInv
  <2>3. Todo(j) \in Seq(JobSteps)
    BY <2>2 DEF FirstSteps
  <2>4. Now(j) \in Job /\ Now(j).todo = Todo(j)
    BY <1>2, <2>1, <2>3 DEF Job, NoJob
  <2>5. Todo(j) # << >> => /\ Todo(j)[1] \in FirstSteps /\ 1 \in DOMAIN Todo(j)
    BY <2>2, TailOfSeq
  <2> QED BY <1>1, <2>2, <2>4, <2>5 DEF FirstSteps
<1> QED BY <1>3, <1>4

(* The next step of a goroutine done, and its book newly read or not.      *)
LEMMA JobGoesOn ==
    ASSUME EngineOK, NEW j \in Jobs, NEW r \in Job, Fresh(j, r), r.todo # << >>,
           NEW new \in Job, new.todo = Tail(r.todo),
           \/ r.todo[1] # <<"query", "A">> /\ new.seen = r.seen
           \/ j[2] \in OrderSaved => NoOlder(new.seen, j[2])
    PROVE  Fresh(j, new)
<1>1. /\ r.todo \in Seq(JobSteps)
      /\ \A n \in DOMAIN new.todo : /\ n \in Nat \ {0} /\ n + 1 \in DOMAIN r.todo
                                    /\ new.todo[n] = r.todo[n + 1]
  BY TailOfSeq DEF Job
<1> SUFFICES ASSUME NEW n \in DOMAIN new.todo, Reporting(new.todo[n])
             PROVE  j[2] \in OrderSaved /\ NoOlder(new.seen, j[2])
  BY DEF Fresh
<1>2. /\ j[2] \in OrderSaved
      /\ NoOlder(r.seen, j[2]) \/ r.todo[1] = <<"query", "A">>
  BY <1>1 DEF Fresh
<1> QED BY <1>2

-----------------------------------------------------------------------------
(* Every step keeps IInv.                                                  *)

LEMMA Frame ==
    ASSUME IInv, UNCHANGED engine, OthersOK', RequestsOK',
           UNCHANGED job \/ JobsOK', UNCHANGED reported \/ ReportsOK'
    PROVE  IInv'
<1>1. UNCHANGED <<msg, saved, book, open>>
  BY DEF engine
<1>2. EngineOK'
  BY <1>1 DEF IInv, EngineOK, BookOK, Instruments
<1>3. JobsOK'
  BY <1>1 DEF IInv, JobsOK, Job, Fresh, OrderSaved
<1>4. ReportsOK'
  BY <1>1 DEF IInv, ReportsOK, QuoteReports
<1> QED BY <1>2, <1>3, <1>4 DEF IInv

(* A step of a session that has found no user, or one who may order.       *)
LEMMA StepType ==
    ASSUME IInv, NEW s \in Sessions
    PROVE  /\ saved \in Nat /\ request[s] \in Request /\ Sensible(request[s])
           /\ request[s].todo # << >> =>
                /\ request[s].todo[1] \in Steps /\ 1 \in DOMAIN request[s].todo
           /\ request[s].user \in Users \cup {Nobody} /\ request[s].seen \in 0 .. saved
           /\ request[s].key \in Keys
<1>1. request[s] \in Request /\ Sensible(request[s]) /\ saved \in Nat
  BY DEF IInv, RequestsOK, EngineOK
<1>2. request[s].todo \in Seq(Steps)
  BY <1>1 DEF Request
<1> QED BY <1>1, <1>2, TailOfSeq DEF Request

LEMMA FromAppKeeps ==
    ASSUME IInv, NEW s \in Sessions, FromApp(s)
    PROVE  IInv'
<1>1. /\ saved' = saved /\ saved \in Nat /\ UNCHANGED <<job, reported>>
      /\ UNCHANGED engine
  BY DEF FromApp, engine, IInv, EngineOK
<1>9. OthersOK'
  <2>1. requests < MaxRequests /\ requests' = requests + 1
    BY DEF FromApp
  <2>2. requests' \in 0 .. MaxRequests
    BY <2>1, ConstantsOK DEF IInv, OthersOK
  <2> QED BY <2>2 DEF FromApp, IInv, OthersOK, subs
<1>2. ASSUME NEW k \in Kinds, NEW t \in Types, NEW i \in Insts,
             request' = [request EXCEPT ![s] =
                [Idle EXCEPT !.todo = Subscribing(k, t), !.type = t,
                             !.key = Key(k, i)]]
      PROVE  RequestsOK'
  <2> DEFINE r == [Idle EXCEPT !.todo = Subscribing(k, t), !.type = t,
                               !.key = Key(k, i)]
  <2>1. Subscribing(k, t) \in Seq(StepsOf(k)) /\ Seq(StepsOf(k)) \subseteq Seq(Steps)
    BY SubscribingSteps DEF StepsOf
  <2>2. Key(k, i) \in Keys /\ (k \in {"V", "A"} => Key(k, i) \in Insts)
    BY DEF Key, Keys
  <2>3. r.todo = Subscribing(k, t) /\ r.key = Key(k, i) /\ r \in Request
    BY <1>1, <2>1, <2>2, IdleRequest DEF Idle, Request
  <2>4. Sensible(r)
    BY <2>1, <2>2, <2>3 DEF Sensible, StepsOf
  <2> QED BY <1>1, <1>2, <2>3, <2>4, NewRequest DEF IInv
<1>3. ASSUME NEW todo \in {Ordering, onOrderMassCancelRequest},
             request' = [request EXCEPT ![s] = [Idle EXCEPT !.todo = todo]]
      PROVE  RequestsOK'
  <2> DEFINE r == [Idle EXCEPT !.todo = todo]
  <2>1. todo \in Seq({"user", "place", "reply"} \X {"order"})
    BY OrderingSteps DEF OrderSteps
  <2>9. todo \in Seq(Steps)
    BY <2>1, OrderingSteps DEF OrderSteps
  <2>2. r \in Request /\ r.todo = todo
    BY <1>1, <2>9, OrderingSteps, IdleRequest DEF Idle, Request
  <2>3. Sensible(r)
    BY <2>1, <2>2 DEF Sensible
  <2> QED BY <1>1, <1>3, <2>2, <2>3, NewRequest DEF IInv
<1>4. RequestsOK'
  BY <1>2, <1>3 DEF FromApp
<1> QED BY <1>1, <1>9, <1>4, Frame

LEMMA LookupKeeps ==
    ASSUME IInv, NEW s \in Sessions, Lookup(s)
    PROVE  IInv'
<1>1. /\ saved' = saved /\ UNCHANGED <<job, reported>> /\ UNCHANGED engine
      /\ request[s].todo # << >> /\ OthersOK'
  BY DEF Lookup, At, engine, IInv, OthersOK, subs, ghosts
<1>2. RequestsOK' \/ Continues(s) \/ Ends(s)
  BY <1>1, StepType, GoesOn DEF Lookup, UsersAt, IInv
<1>3. RequestsOK'
  BY <1>1, <1>2, StepType, GoesOn, EndsNow DEF Continues, IInv
<1> QED BY <1>1, <1>3, Frame

LEMMA OrderKeeps ==
    ASSUME IInv, NEW s \in Sessions, Place(s) \/ Reply(s)
    PROVE  IInv'
<1>1. /\ saved' = saved /\ UNCHANGED <<job, reported>> /\ UNCHANGED engine
      /\ request[s].todo # << >> /\ OthersOK' /\ (Continues(s) \/ Ends(s))
  BY DEF Place, Reply, At, engine, IInv, OthersOK, subs
<1>2. RequestsOK'
  BY <1>1, StepType, GoesOn, EndsNow DEF Continues, IInv
<1> QED BY <1>1, <1>2, Frame

LEMMA UnseenType ==
    ASSUME EngineOK, NEW x \in Subscriptions
    PROVE  Unseen(x) \subseteq Subscriptions \X Msgs
<1>1. OrderSaved \subseteq Msgs
  BY MessageType DEF OrderSaved, Msgs
<1> QED BY <1>1 DEF Unseen

LEMMA QueryKeeps ==
    ASSUME IInv, NEW s \in Sessions, Query(s)
    PROVE  IInv'
<1> DEFINE i == request[s].key
<1>1. /\ saved' = saved /\ UNCHANGED job /\ UNCHANGED engine
      /\ At(s, "query") /\ request[s].todo # << >>
  BY DEF Query, At, engine
<1>2. /\ Kind(s) \in Kinds /\ i \in Keys
      /\ Kind(s) \in {"V", "A"} => i \in Insts /\ Finds(i) \subseteq 0 .. saved
  <2>1. /\ request[s].todo[1] \in Steps /\ 1 \in DOMAIN request[s].todo
        /\ Sensible(request[s]) /\ i \in Keys
    BY <1>1, StepType
  <2>2. request[s].todo[1][1] = "query" /\ Kind(s) = request[s].todo[1][2]
    BY <1>1 DEF At, Kind
  <2>3. Kind(s) \in Kinds
    BY <2>1, <2>2, StepKind
  <2>4. Kind(s) \in {"V", "A"} => i \in Insts
    BY <2>1, <2>2 DEF Sensible
  <2>5. EngineOK
    BY DEF IInv
  <2>6. ASSUME i \in Insts PROVE Finds(i) \subseteq 0 .. saved
    BY <2>5, <2>6, FindsType
  <2> QED BY <2>1, <2>3, <2>4, <2>6
<1>3. missed' \subseteq Subscriptions \X Msgs
  <2>1. <<Kind(s), i, s>> \in Subscriptions
    BY <1>2 DEF Subscriptions
  <2>2. Unseen(<<Kind(s), i, s>>) \subseteq Subscriptions \X Msgs
    BY <2>1, UnseenType DEF IInv
  <2>3. missed' \in {missed, missed \cup Unseen(<<Kind(s), i, s>>)}
    BY DEF Query
  <2> QED BY <2>2, <2>3 DEF IInv, OthersOK
<1>4. OthersOK'
  BY <1>3 DEF Query, IInv, OthersOK, subs
<1>5. CASE Kind(s) \in {"V", "A"}
  <2>1. PICK v \in Finds(i) :
            /\ Goes(s, request[s].user, v)
            /\ \/ reported' = reported
               \/ reported' = reported \cup {<<Kind(s), i, s, 0, v>>}
    BY <1>5 DEF Query
  <2>2. RequestsOK' /\ v \in 0 .. saved
    BY <1>1, <1>2, <1>5, <2>1, StepType, GoesOn DEF IInv
  <2>3. reported' \subseteq Kinds \X Keys \X Sessions \X (0 .. MaxMsgs) \X (0 .. saved)
    BY <1>2, <1>5, <2>1, <2>2, EngineAssumption DEF IInv, ReportsOK, Keys
  <2>4. QuoteReports' = QuoteReports
    BY <2>1 DEF QuoteReports
  <2>5. ReportsOK'
    BY <1>1, <2>3, <2>4 DEF ReportsOK, IInv
  <2> QED BY <1>1, <1>4, <2>2, <2>5, Frame
<1>6. CASE Kind(s) \notin {"V", "A"}
  <2>1. (Continues(s) \/ Ends(s)) /\ UNCHANGED reported
    BY <1>6 DEF Query
  <2>2. RequestsOK'
    BY <1>1, <2>1, StepType, GoesOn, EndsNow DEF Continues, IInv
  <2> QED BY <1>1, <1>4, <2>1, <2>2, Frame
<1> QED BY <1>5, <1>6

LEMMA SubscribeKeeps ==
    ASSUME IInv, NEW s \in Sessions, Subscribe(s)
    PROVE  IInv'
<1>1. /\ saved' = saved /\ UNCHANGED <<job, reported>> /\ UNCHANGED engine
      /\ request[s].todo # << >> /\ request[s].todo[1][1] = "subscribe"
  BY DEF Subscribe, At, engine
<1>2. /\ request[s].todo[1] \in Steps /\ request[s].key \in Keys
      /\ Kind(s) = request[s].todo[1][2]
  BY <1>1, StepType DEF Kind
<1>3. <<Kind(s), request[s].key, s>> \in Subscriptions
  BY <1>1, <1>2, StepKind DEF Subscriptions
<1>4. OthersOK'
  <2>1. missed' \subseteq Subscriptions \X Msgs
    <3>1. Unseen(<<Kind(s), request[s].key, s>>) \subseteq Subscriptions \X Msgs
      BY <1>3, UnseenType DEF IInv
    <3> QED BY <3>1 DEF Subscribe, IInv, OthersOK
  <2> QED BY <1>3, <2>1 DEF Subscribe, IInv, OthersOK
<1>5. RequestsOK'
  BY <1>1, StepType, GoesOn DEF Subscribe, Continues, IInv
<1> QED BY <1>1, <1>4, <1>5, Frame

LEMMA UnsubscribeKeeps ==
    ASSUME IInv, NEW s \in Sessions, Unsubscribe(s) \/ Leave(s)
    PROVE  IInv'
<1>1. /\ saved' = saved /\ UNCHANGED <<job, reported>> /\ UNCHANGED engine
      /\ request[s].todo # << >> /\ Continues(s)
  BY DEF Unsubscribe, Leave, At, engine, ghosts
<1>2. OthersOK'
  BY DEF Unsubscribe, Leave, IInv, OthersOK, ghosts
<1>3. RequestsOK'
  BY <1>1, StepType, GoesOn DEF Continues, IInv
<1> QED BY <1>1, <1>2, <1>3, Frame

LEMMA LogonKeeps ==
    ASSUME IInv, NEW s \in Sessions, Logon(s)
    PROVE  IInv'
<1>1. PICK u \in Users : request' = [request EXCEPT ![s] =
            [Idle EXCEPT !.todo = <<<<"logon", "">>>>, !.user = u]]
  BY DEF Logon
<1>2. /\ saved' = saved /\ saved \in Nat /\ UNCHANGED <<job, reported>>
      /\ UNCHANGED engine /\ requests < MaxRequests /\ requests' = requests + 1
  BY DEF Logon, engine, IInv, EngineOK
<1>3. requests' \in 0 .. MaxRequests
  BY <1>2, ConstantsOK DEF IInv, OthersOK
<1>4. OthersOK'
  BY <1>3 DEF Logon, IInv, OthersOK, subs
<1> DEFINE r == [Idle EXCEPT !.todo = <<<<"logon", "">>>>, !.user = u]
<1>5. <<<<"logon", "">>>> \in Seq(Steps)
  BY DEF Steps
<1>6. r \in Request /\ r.todo = <<<<"logon", "">>>> /\ r.user = u
  BY <1>2, <1>5, IdleRequest DEF Idle, Request
<1>7. Sensible(r)
  <2> HIDE DEF r
  <2>1. \A n \in DOMAIN r.todo : r.todo[n][1] = "logon"
    <3> DEFINE x == <<"logon", "">>
    <3>1. x[1] = "logon" /\ r.todo = <<x>>
      BY <1>6
    <3> HIDE DEF x
    <3> QED BY <3>1
  <2> QED BY <1>6, <2>1 DEF Sensible
<1>8. RequestsOK'
  BY <1>1, <1>2, <1>6, <1>7, NewRequest DEF IInv
<1> QED BY <1>2, <1>4, <1>8, Frame

LEMMA FromAdminKeeps ==
    ASSUME IInv, NEW s \in Sessions, FromAdmin(s)
    PROVE  IInv'
<1>1. /\ saved' = saved /\ UNCHANGED <<job, reported>> /\ UNCHANGED engine
      /\ request[s].todo # << >> /\ request[s].todo[1][1] = "logon" /\ Ends(s)
  BY DEF FromAdmin, At, engine
<1>2. request[s].user \in Users
  BY <1>1, StepType DEF Sensible
<1>3. OthersOK'
  BY <1>2 DEF FromAdmin, IInv, OthersOK, subs
<1>4. RequestsOK'
  BY <1>1, StepType, EndsNow DEF IInv
<1> QED BY <1>1, <1>3, <1>4, Frame

LEMMA OnLogoutKeeps ==
    ASSUME IInv, NEW s \in Sessions, OnLogout(s)
    PROVE  IInv'
<1>1. /\ saved' = saved /\ saved \in Nat /\ UNCHANGED <<job, reported>>
      /\ UNCHANGED engine /\ request' = [request EXCEPT ![s] = [Idle EXCEPT !.todo = Logout]]
  BY DEF OnLogout, engine, ghosts, IInv, EngineOK
<1>2. OthersOK'
  BY DEF OnLogout, IInv, OthersOK, subs, ghosts
<1> DEFINE r == [Idle EXCEPT !.todo = Logout]
<1>3. Logout \in Seq(Steps)
  <2>1. \A x \in {"unsubscribeAll"} \X Kinds : x \in Steps
    BY DEF Steps
  <2> QED BY <2>1, LogoutSteps
<1>4. r \in Request /\ r.todo = Logout
  BY <1>1, <1>3, IdleRequest DEF Idle, Request
<1>5. Sensible(r)
  BY <1>4, LogoutSteps DEF Sensible
<1>6. RequestsOK'
  BY <1>1, <1>4, <1>5, NewRequest DEF IInv
<1> QED BY <1>1, <1>2, <1>6, Frame

LEMMA DiesKeeps ==
    ASSUME IInv, Dies
    PROVE  IInv'
<1>1. UNCHANGED engine /\ UNCHANGED reported /\ saved' = saved /\ saved \in Nat
  BY DEF Dies, engine, ghosts, IInv, EngineOK
<1>2. OthersOK'
  BY DEF Dies, IInv, OthersOK, ghosts, NoSession
<1>3. RequestsOK'
  BY <1>1, IdleRequest DEF Dies, RequestsOK, Request
<1>4. JobsOK'
  BY DEF Dies, JobsOK
<1> QED BY <1>1, <1>2, <1>3, <1>4, Frame

LEMMA JobKind ==
    ASSUME NEW x \in JobSteps, x[1] \in {"query", "range", "visit"}
    PROVE  x[2] \in Kinds
<1>1. CASE x \in {"confirm"} \X Users
  BY <1>1
<1>2. CASE x \in {"query"} \X {"V", "A"}
  BY <1>2 DEF Kinds
<1>3. CASE x \in {"range", "visit"} \X Kinds
  BY <1>3
<1>4. CASE x = <<"count", "X">>
  BY <1>4
<1> QED BY <1>1, <1>2, <1>3, <1>4 DEF JobSteps

(* A consumer that changes its job and, perhaps, what may be missed.       *)
LEMMA JobFrame ==
    ASSUME IInv, NEW j \in Jobs, NEW r \in Job, Fresh(j, r), Becomes(j, r),
           UNCHANGED engine, UNCHANGED reported \/ ReportsOK',
           UNCHANGED <<running, loggedOn, userSession, subs, request, requests, logons>>,
           missed' \subseteq Subscriptions \X Msgs
    PROVE  IInv'
<1>1. JobsOK'
  BY NewJob DEF IInv, engine
<1>2. OthersOK'
  BY DEF IInv, OthersOK, subs
<1>3. RequestsOK'
  BY DEF IInv, RequestsOK, Request, engine
<1> QED BY <1>1, <1>2, <1>3, Frame

(* The next step done, nothing read.                                       *)
LEMMA JobTail ==
    ASSUME IInv, NEW j \in Arrived, Now(j).todo # << >>, NEW r \in Job,
           r.todo \in {Tail(Now(j).todo), << >>}, r.seen = Now(j).seen,
           Now(j).todo[1] # <<"query", "A">>
    PROVE  Fresh(j, r)
<1>1. CASE r.todo = Tail(Now(j).todo)
  BY <1>1, NowType, JobGoesOn DEF IInv
<1>2. CASE r.todo = << >>
  BY <1>2 DEF Fresh
<1> QED BY <1>1, <1>2

LEMMA TailJob ==
    ASSUME NEW r \in Job, r.todo # << >>
    PROVE  Tail(r.todo) \in Seq(JobSteps) /\ << >> \in Seq(JobSteps)
<1>1. r.todo \in Seq(JobSteps)
  BY DEF Job
<1> QED BY <1>1, TailOfSeq

LEMMA ConfirmKeeps ==
    ASSUME IInv, NEW j \in Jobs, Confirm(j)
    PROVE  IInv'
<1> DEFINE r == [Now(j) EXCEPT !.todo = Tail(@)]
<1>1. /\ j \in Arrived /\ Now(j).todo # << >> /\ Now(j).todo[1][1] = "confirm"
      /\ Becomes(j, r) /\ UNCHANGED engine
  BY DEF Confirm, Next1, engine
<1>2. r \in Job /\ r.todo = Tail(Now(j).todo) /\ r.seen = Now(j).seen
  BY <1>1, NowType, TailJob DEF Job
<1> HIDE DEF r
<1>3. Fresh(j, r)
  <2>1. Now(j).todo[1] # <<"query", "A">>
    BY <1>1
  <2> QED BY <1>1, <1>2, <2>1, JobTail
<1>4. missed' \subseteq Subscriptions \X Msgs
  BY DEF Confirm, IInv, OthersOK
<1> QED BY <1>1, <1>2, <1>3, <1>4, JobFrame DEF Confirm

LEMMA ReadBookKeeps ==
    ASSUME IInv, NEW j \in Jobs, ReadBook(j)
    PROVE  IInv'
<1> DEFINE k == Now(j).todo[1][2]
           i == Instrument(j[2])
<1>0. PICK v, sent : v \in Finds(i) /\
        Becomes(j, [Now(j) EXCEPT !.todo = IF sent THEN Tail(@) ELSE << >>, !.seen = v])
  BY DEF ReadBook
<1> DEFINE r == [Now(j) EXCEPT !.todo = IF sent THEN Tail(@) ELSE << >>, !.seen = v]
<1>1. /\ j \in Arrived /\ Now(j).todo # << >> /\ Now(j).todo[1][1] = "query"
      /\ Becomes(j, r) /\ UNCHANGED engine
  BY <1>0 DEF ReadBook, Next1, engine
<1>2. Now(j) \in Job /\ Now(j).todo[1] \in JobSteps /\ EngineOK /\ Fresh(j, Now(j))
  BY <1>1, NowType DEF IInv
<1>3. j[2] \in DOMAIN msg /\ i \in Insts
  BY <1>1, <1>2, MessageType DEF Arrived, Answered, OrderSaved
<1>4. v \in 0 .. saved
  BY <1>0, <1>2, <1>3, FindsType
<1>5. /\ r \in Job /\ r.todo = (IF sent THEN Tail(Now(j).todo) ELSE << >>)
      /\ r.seen = v
  BY <1>1, <1>2, <1>4, TailJob DEF Job
<1>6. j[2] \in OrderSaved => NoOlder(v, j[2])
  <2>1. ASSUME j[2] \in OrderSaved PROVE v \in {0} \cup (j[2] .. saved)
    BY <1>0, <1>2, <1>3, <2>1, MessageType, FindsFresh DEF OrderSaved
  <2> QED BY <1>2, <1>4, <2>1 DEF NoOlder, OrderSaved, EngineOK
<1>7. Fresh(j, r)
  <2> HIDE DEF r
  <2>1. CASE ~sent
    BY <1>5, <2>1 DEF Fresh
  <2>2. CASE sent
    <3> HIDE DEF i
    <3> QED BY <1>1, <1>2, <1>5, <1>6, <2>2, JobGoesOn
  <2> QED BY <2>1, <2>2
<1>8. missed' \subseteq Subscriptions \X Msgs
  <2>1. k \in Kinds
    BY <1>1, <1>2, JobKind
  <2>2. {<<<<k, i, s>>, j[2]>> : s \in Sessions} \subseteq Subscriptions \X Msgs
    <3>1. \A s \in Sessions : <<k, i, s>> \in Subscriptions
      BY <1>3, <2>1 DEF Subscriptions, Keys
    <3>2. j[2] \in Msgs
      BY <1>2, <1>3, MessageType DEF Msgs
    <3> QED BY <3>1, <3>2
  <2> QED BY <2>2 DEF ReadBook, IInv, OthersOK
<1> HIDE DEF r
<1> QED BY <1>1, <1>5, <1>7, <1>8, JobFrame DEF ReadBook

LEMMA CountOrdersKeeps ==
    ASSUME IInv, NEW j \in Jobs, CountOrders(j)
    PROVE  IInv'
<1> DEFINE r == [Now(j) EXCEPT !.todo = IF open[Instrument(j[2])] = 1
                                        THEN Tail(@) ELSE << >>]
<1>1. /\ j \in Arrived /\ Now(j).todo # << >> /\ Now(j).todo[1][1] = "count"
      /\ Becomes(j, r) /\ UNCHANGED engine
  BY DEF CountOrders, Next1, engine
<1>2. r \in Job /\ r.todo \in {Tail(Now(j).todo), << >>} /\ r.seen = Now(j).seen
  BY <1>1, NowType, TailJob DEF Job
<1> HIDE DEF r
<1>3. Fresh(j, r)
  <2>1. Now(j).todo[1] # <<"query", "A">>
    BY <1>1
  <2> QED BY <1>1, <1>2, <2>1, JobTail
<1>4. missed' \subseteq Subscriptions \X Msgs
  BY DEF CountOrders, IInv, OthersOK, ghosts
<1> QED BY <1>1, <1>2, <1>3, <1>4, JobFrame DEF CountOrders, ghosts

LEMMA RangeOverKeeps ==
    ASSUME IInv, NEW j \in Jobs, RangeOver(j)
    PROVE  IInv'
<1> DEFINE k == Now(j).todo[1][2]
           i == Instrument(j[2])
           r == [Now(j) EXCEPT !.todo = <<<<"visit", k>>>> \o Tail(@),
                               !.due = Subscribed(k, i), !.visited = {}]
<1>1. /\ j \in Arrived /\ Now(j).todo # << >> /\ Now(j).todo[1][1] = "range"
      /\ Becomes(j, r) /\ UNCHANGED engine
  BY DEF RangeOver, Next1, engine
<1>2. Now(j) \in Job /\ Now(j).todo[1] \in JobSteps /\ EngineOK /\ Fresh(j, Now(j))
  BY <1>1, NowType DEF IInv
<1>3. Now(j).todo \in Seq(JobSteps) /\ k \in Kinds
  BY <1>1, <1>2, JobKind DEF Job
<1>4. <<<<"visit", k>>>> \in Seq(JobSteps)
  BY <1>3 DEF JobSteps
<1>5. Subscribed(k, i) \subseteq Sessions
  BY DEF Subscribed
<1> DEFINE list == <<<<"visit", k>>>> \o Tail(Now(j).todo)
<1>6. /\ list \in Seq(JobSteps) /\ list[1] = <<"visit", k>>
      /\ \A n \in DOMAIN list : n = 1 \/ (n > 1 /\ n \in DOMAIN Now(j).todo
                                          /\ list[n] = Now(j).todo[n])
  <2>1. Tail(Now(j).todo) \in Seq(JobSteps)
    BY <1>1, <1>3, TailOfSeq
  <2> DEFINE rest == Tail(Now(j).todo)
             x == <<"visit", k>>
  <2>2. <<x>> \in Seq(JobSteps) /\ Len(<<x>>) = 1 /\ <<x>>[1] = x /\ rest \in Seq(JobSteps)
    BY <1>4, <2>1
  <2>3. \A n \in DOMAIN rest : n \in Nat \ {0} /\ n + 1 \in DOMAIN Now(j).todo
                               /\ rest[n] = Now(j).todo[n + 1]
    BY <1>1, <1>3, TailOfSeq
  <2> HIDE DEF rest, x
  <2>4. /\ <<x>> \o rest \in Seq(JobSteps)
        /\ (<<x>> \o rest)[1] = x
        /\ \A n \in DOMAIN (<<x>> \o rest) :
                n = 1 \/ (n > 1 /\ n - 1 \in DOMAIN rest /\ (<<x>> \o rest)[n] = rest[n - 1])
    BY <2>2
  <2> QED BY <2>3, <2>4 DEF rest, x
<1>7. r \in Job /\ r.todo = list /\ r.seen = Now(j).seen
  BY <1>2, <1>5, <1>6 DEF Job
<1> HIDE DEF r, list
<1>8. Fresh(j, r)
  <2> SUFFICES ASSUME NEW n \in DOMAIN list, Reporting(list[n])
               PROVE  j[2] \in OrderSaved /\ NoOlder(Now(j).seen, j[2])
    BY <1>7 DEF Fresh
  <2>1. Now(j).todo[1] # <<"query", "A">> /\ 1 \in DOMAIN Now(j).todo
    BY <1>1, NowType
  <2>2. n \in DOMAIN Now(j).todo /\ Reporting(Now(j).todo[n])
    <3>1. CASE n = 1
      BY <1>1, <1>6, <2>1, <3>1 DEF Reporting
    <3>2. CASE n # 1
      BY <1>6, <3>2
    <3> QED BY <3>1, <3>2
  <2> QED BY <1>2, <2>1, <2>2 DEF Fresh
<1>9. missed' \subseteq Subscriptions \X Msgs
  <2>1. i \in Insts
    BY <1>1, <1>2, MessageType DEF Arrived, Answered, OrderSaved
  <2>2. \A s \in Sessions : <<"A", i, s>> \in Subscriptions
    BY <2>1 DEF Subscriptions, Keys, Kinds
  <2>3. j[2] \in Msgs
    BY <1>1, <1>2, MessageType DEF Arrived, Answered, OrderSaved, Msgs
  <2> QED BY <2>2, <2>3 DEF RangeOver, IInv, OthersOK
<1> QED BY <1>1, <1>7, <1>8, <1>9, JobFrame DEF RangeOver

LEMMA VisitKeeps ==
    ASSUME IInv, NEW j \in Jobs, Visit(j)
    PROVE  IInv'
<1> DEFINE k == Now(j).todo[1][2]
           i == Instrument(j[2])
<1>1. PICK s \in Subscribed(k, i) :
        /\ Becomes(j, [job[j] EXCEPT !.visited = @ \cup {s}])
        /\ reported' = reported \cup {<<k, Key(k, i), s, j[2], job[j].seen>>}
  BY DEF Visit
<1> DEFINE r == [job[j] EXCEPT !.visited = @ \cup {s}]
<1>2. /\ j \in Arrived /\ Now(j).todo # << >> /\ Now(j).todo[1][1] = "visit"
      /\ UNCHANGED engine
  BY DEF Visit, Next1, engine
<1>3. /\ Now(j) = job[j] /\ job[j] \in Job /\ Fresh(j, job[j]) /\ EngineOK
      /\ job[j].todo[1] \in JobSteps /\ 1 \in DOMAIN job[j].todo
  BY <1>2, NowType DEF IInv
<1>4. k \in Kinds /\ i \in Insts /\ j[2] \in 1 .. MaxMsgs
  BY <1>2, <1>3, JobKind, MessageType DEF Arrived, Answered, OrderSaved
<1>5. r \in Job /\ r.todo = job[j].todo /\ r.seen = job[j].seen
  BY <1>3 DEF Job, Subscribed
<1> HIDE DEF r
<1>6. Fresh(j, r)
  BY <1>3, <1>5 DEF Fresh
<1> DEFINE q == <<k, Key(k, i), s, j[2], job[j].seen>>
<1>7. q \in Kinds \X Keys \X Sessions \X (0 .. MaxMsgs) \X (0 .. saved)
  BY <1>3, <1>4, EngineAssumption DEF Key, Keys, Subscribed, Job
<1>8. k = "A" => j[2] \in 1 .. saved /\ job[j].seen \in {0} \cup (j[2] .. saved)
  <2> SUFFICES ASSUME k = "A"
               PROVE  j[2] \in 1 .. saved /\ job[j].seen \in {0} \cup (j[2] .. saved)
    OBVIOUS
  <2>1. Reporting(job[j].todo[1]) /\ job[j].todo[1] # <<"query", "A">>
    BY <1>2, <1>3 DEF Reporting
  <2>2. j[2] \in OrderSaved /\ NoOlder(job[j].seen, j[2]) /\ job[j].seen \in 0 .. saved
    BY <1>3, <2>1 DEF Fresh, Job
  <2> QED BY <1>3, <1>4, <2>2 DEF OrderSaved, EngineOK, NoOlder
<1>9. \A x \in QuoteReports' : x \in QuoteReports
                                \/ (k = "A" /\ x[2] = j[2] /\ x[3] = job[j].seen)
  BY <1>1, <1>3 DEF QuoteReports
<1>10. ReportsOK'
  BY <1>1, <1>2, <1>7, <1>8, <1>9 DEF IInv, ReportsOK, engine
<1>11. missed' \subseteq Subscriptions \X Msgs
  BY DEF Visit, IInv, OthersOK
<1> QED BY <1>1, <1>2, <1>5, <1>6, <1>10, <1>11, JobFrame DEF Visit, r

LEMMA RangeEndsKeeps ==
    ASSUME IInv, NEW j \in Jobs, RangeEnds(j)
    PROVE  IInv'
<1> DEFINE r == [job[j] EXCEPT !.todo = Tail(@), !.due = {}, !.visited = {}]
<1>1. /\ j \in Arrived /\ Now(j).todo # << >> /\ Now(j).todo[1][1] = "visit"
      /\ Becomes(j, r) /\ UNCHANGED engine
  BY DEF RangeEnds, Next1, engine
<1>2. Now(j) = job[j] /\ job[j] \in Job
  BY <1>1, NowType
<1>3. r \in Job /\ r.todo = Tail(Now(j).todo) /\ r.seen = Now(j).seen
  BY <1>1, <1>2, TailJob DEF Job
<1> HIDE DEF r
<1>4. Fresh(j, r)
  <2>1. Now(j).todo[1] # <<"query", "A">>
    BY <1>1
  <2> QED BY <1>1, <1>3, <2>1, JobTail
<1>5. missed' \subseteq Subscriptions \X Msgs
  BY DEF RangeEnds, IInv, OthersOK, ghosts
<1> QED BY <1>1, <1>3, <1>4, <1>5, JobFrame DEF RangeEnds, ghosts

LEMMA EngineStepKeeps ==
    ASSUME IInv, EngineNext, UNCHANGED <<running, memory, ghosts>>
    PROVE  IInv'
<1>1. /\ EngineOK' /\ saved' \in {saved, saved + 1} /\ saved \in Nat
      /\ \A m \in DOMAIN msg : m \in DOMAIN msg' /\ msg'[m] = msg[m]
  BY EngineKeeps DEF IInv, EngineOK
<1>2. /\ UNCHANGED <<running, loggedOn, userSession, request, job>>
      /\ UNCHANGED <<subscriptions, subscriptionsList>>
      /\ UNCHANGED <<requests, logons, reported, missed>>
  BY DEF memory, subs, ghosts
<1>3. 0 .. saved \subseteq 0 .. saved' /\ OrderSaved \subseteq OrderSaved'
  <2>1. saved' \in Nat /\ saved <= saved'
    BY <1>1
  <2>2. \A m \in OrderSaved : m \in Nat /\ m <= saved
    BY MessageType DEF IInv, OrderSaved
  <2> QED BY <1>1, <2>1, <2>2 DEF OrderSaved
<1>4. OthersOK'
  BY <1>2 DEF IInv, OthersOK
<1>5. RequestsOK'
  <2>1. Request \subseteq Request'
    BY <1>3 DEF Request
  <2> QED BY <1>2, <2>1 DEF IInv, RequestsOK
<1>6. JobsOK'
  <2>1. Job \subseteq Job'
    BY <1>3 DEF Job
  <2>2. \A j \in DOMAIN job : Fresh(j, job[j])'
    BY <1>2, <1>3 DEF IInv, JobsOK, Fresh
  <2> QED BY <1>2, <2>1, <2>2 DEF IInv, JobsOK
<1>7. ReportsOK'
  <2>1. QuoteReports' = QuoteReports
    BY <1>2 DEF QuoteReports
  <2>2. reported' \subseteq Kinds \X Keys \X Sessions \X (0 .. MaxMsgs) \X (0 .. saved')
    BY <1>2, <1>3 DEF IInv, ReportsOK
  <2>3. \A m \in 1 .. saved : m \in 1 .. saved' /\ m .. saved \subseteq m .. saved'
    BY <1>1
  <2> QED BY <2>1, <2>2, <2>3 DEF IInv, ReportsOK
<1> QED BY <1>1, <1>4, <1>5, <1>6, <1>7 DEF IInv

LEMMA HandleKeeps ==
    ASSUME IInv, NEW s \in Sessions, Handle(s)
    PROVE  IInv'
BY LookupKeeps, OrderKeeps, QueryKeeps, SubscribeKeeps, UnsubscribeKeeps,
   FromAdminKeeps, DiesKeeps DEF Handle, SecurityListPanics

LEMMA ConsumeKeeps ==
    ASSUME IInv, NEW j \in Jobs, Consume(j)
    PROVE  IInv'
BY ConfirmKeeps, ReadBookKeeps, CountOrdersKeeps, RangeOverKeeps, VisitKeeps,
   RangeEndsKeeps DEF Consume

LEMMA NextKeeps == IInv /\ [Next]_vars => IInv'
<1> SUFFICES ASSUME IInv, [Next]_vars PROVE IInv'
  OBVIOUS
<1>1. ASSUME NEW s \in Sessions, Peer(s) PROVE IInv'
  BY <1>1, FromAppKeeps, LogonKeeps, OnLogoutKeeps DEF Peer
<1>2. CASE MapsClash
  BY <1>2, DiesKeeps DEF MapsClash
<1>3. CASE UNCHANGED vars
  <2>1. /\ UNCHANGED engine /\ UNCHANGED <<running, loggedOn, userSession, request, job>>
        /\ UNCHANGED <<subscriptions, subscriptionsList>>
        /\ UNCHANGED <<requests, logons, reported, missed>>
    BY <1>3 DEF vars, memory, subs, ghosts
  <2>2. OthersOK' /\ RequestsOK'
    BY <2>1 DEF IInv, OthersOK, RequestsOK, Request, engine
  <2> QED BY <2>1, <2>2, Frame
<1> QED BY <1>1, <1>2, <1>3, HandleKeeps, ConsumeKeeps, EngineStepKeeps DEF Next, Acceptor

LEMMA Starts == Init => IInv
<1> SUFFICES ASSUME Init PROVE IInv
  OBVIOUS
<1>1. EngineOK /\ saved \in Nat
  BY EngineStarts DEF Init, EngineOK
<1>2. OthersOK
  BY ConstantsOK DEF Init, OthersOK, NoSession
<1>3. RequestsOK
  BY <1>1, IdleRequest DEF Init, RequestsOK
<1>4. JobsOK /\ ReportsOK
  BY DEF Init, JobsOK, ReportsOK, QuoteReports
<1> QED BY <1>1, <1>2, <1>3, <1>4 DEF IInv

LEMMA TypesOfIInv == IInv => TypeOK
BY DEF IInv, TypeOK, OthersOK, RequestsOK, JobsOK, ReportsOK, Request, Job

(* Types, for any sessions, users and messages: whatever goroutines do at  *)
(* once, each reads the book of an instrument, reports to sessions, and    *)
(* works off a list of steps it knows.                                     *)
THEOREM TypeCorrect == Spec => []TypeOK
BY TypesOfIInv, Starts, NextKeeps, PTL DEF Spec

-----------------------------------------------------------------------------
(* Logging out.                                                            *)

Leaving(s, k) ==
    \E n \in DOMAIN request[s].todo : request[s].todo[n] = <<"unsubscribeAll", k>>

(* A session that is not logged on has nothing else to do than to remove   *)
(* what it still subscribes to, all of which is in the lists.              *)
Left ==
    /\ subscriptions \subseteq subscriptionsList
    /\ \A s \in Sessions \ loggedOn : \A n \in DOMAIN request[s].todo :
            request[s].todo[n][1] \in {"unsubscribeAll", "logon"}
    /\ \A x \in subscriptions : x[3] \in loggedOn \/ Leaving(x[3], x[1])

(* A step of a session that is logged on.                                  *)
LEMMA LeftByOthers ==
    ASSUME IInv, Left, NEW s \in loggedOn, UNCHANGED loggedOn,
           \A t \in Sessions \ {s} : request'[t] = request[t],
           subscriptions' \subseteq subscriptionsList',
           \A x \in subscriptions' \ subscriptions : x[3] = s
    PROVE  Left'
<1>1. \A x \in subscriptions : x[3] \in Sessions
  BY DEF IInv, OthersOK, Subscriptions
<1>2. \A x \in subscriptions' : x[3] \in loggedOn' \/ Leaving(x[3], x[1])'
  <2> SUFFICES ASSUME NEW x \in subscriptions', x[3] \notin loggedOn
               PROVE  Leaving(x[3], x[1])'
    OBVIOUS
  <2>1. x \in subscriptions /\ x[3] \in Sessions \ {s} /\ Leaving(x[3], x[1])
    BY <1>1 DEF Left
  <2> QED BY <2>1 DEF Leaving
<1>3. \A t \in Sessions \ loggedOn' : \A n \in DOMAIN request'[t].todo :
            request'[t].todo[n][1] \in {"unsubscribeAll", "logon"}
  BY DEF Left
<1> QED BY <1>2, <1>3 DEF Left

LEMMA LeftUnchanged ==
    ASSUME Left, UNCHANGED <<loggedOn, request, subscriptions, subscriptionsList>>
    PROVE  Left'
BY DEF Left, Leaving

LEMMA BusyIsOn ==
    ASSUME IInv, Left, NEW s \in Sessions, request[s].todo # << >>,
           request[s].todo[1][1] \notin {"unsubscribeAll", "logon"}
    PROVE  s \in loggedOn
BY StepType DEF Left

LEMMA LeftLeave ==
    ASSUME IInv, Left, NEW s \in Sessions, Leave(s)
    PROVE  Left'
<1>1. /\ request[s].todo # << >> /\ Kind(s) = request[s].todo[1][2]
      /\ request[s].todo[1][1] = "unsubscribeAll" /\ Continues(s)
      /\ UNCHANGED <<loggedOn, subscriptionsList>> /\ saved' = saved
      /\ subscriptions' = subscriptions \ UnsubscribeAll(Kind(s), s)
  BY DEF Leave, At, Kind, engine
<1>2. /\ request'[s].todo = Tail(request[s].todo)
      /\ \A t \in Sessions \ {s} : request'[t] = request[t]
  BY <1>1, StepType, GoesOn DEF Continues, IInv
<1>3. request[s].todo \in Seq(Steps)
  BY StepType DEF Request
<1>4. \A n \in DOMAIN request'[s].todo :
        /\ n + 1 \in DOMAIN request[s].todo
        /\ request'[s].todo[n] = request[s].todo[n + 1]
  BY <1>1, <1>2, <1>3, TailOfSeq
<1>5. \A t \in Sessions \ loggedOn' : \A n \in DOMAIN request'[t].todo :
            request'[t].todo[n][1] \in {"unsubscribeAll", "logon"}
  <2> SUFFICES ASSUME NEW t \in Sessions \ loggedOn, NEW n \in DOMAIN request'[t].todo
               PROVE  request'[t].todo[n][1] \in {"unsubscribeAll", "logon"}
    BY <1>1
  <2>1. CASE t = s
    BY <1>4, <2>1 DEF Left
  <2>2. CASE t # s
    BY <1>2, <2>2 DEF Left
  <2> QED BY <2>1, <2>2
<1>6. ASSUME NEW x \in subscriptions', x[3] \notin loggedOn'
      PROVE  Leaving(x[3], x[1])'
  <2>1. /\ x \in subscriptions /\ x \in subscriptionsList /\ x[3] \in Sessions
        /\ x \notin UnsubscribeAll(Kind(s), s) /\ Leaving(x[3], x[1])
    BY <1>1, <1>6 DEF Left, IInv, OthersOK, Subscriptions
  <2>2. CASE x[3] # s
    BY <1>2, <2>1, <2>2 DEF Leaving
  <2>3. CASE x[3] = s
    <3>1. x[1] # Kind(s)
      BY <2>1, <2>3 DEF UnsubscribeAll
    <3>2. PICK n \in DOMAIN request[s].todo :
                request[s].todo[n] = <<"unsubscribeAll", x[1]>>
      BY <2>1, <2>3 DEF Leaving
    <3>3. n # 1
      BY <1>1, <3>1, <3>2
    <3>4. n - 1 \in DOMAIN request'[s].todo /\ request'[s].todo[n - 1] = request[s].todo[n]
      <4> DEFINE t == request[s].todo
      <4>1. t \in Seq(Steps) /\ t # << >> /\ n \in DOMAIN t /\ request'[s].todo = Tail(t)
        BY <1>1, <1>2, <1>3, <3>2
      <4> HIDE DEF t
      <4>2. n - 1 \in DOMAIN Tail(t) /\ Tail(t)[n - 1] = t[n]
        BY <3>3, <4>1
      <4> QED BY <4>1, <4>2 DEF t
    <3> QED BY <2>3, <3>2, <3>4 DEF Leaving
  <2> QED BY <2>2, <2>3
<1> QED BY <1>1, <1>5, <1>6 DEF Left

LEMMA LeftLogon ==
    ASSUME IInv, Left, NEW s \in Sessions, Logon(s)
    PROVE  Left'
<1>1. PICK u \in Users : request' = [request EXCEPT ![s] =
            [Idle EXCEPT !.todo = <<<<"logon", "">>>>, !.user = u]]
  BY DEF Logon
<1>2. /\ s \notin loggedOn /\ request[s].todo = << >>
      /\ UNCHANGED <<loggedOn, subscriptions, subscriptionsList>>
  BY DEF Logon, subs
<1> DEFINE y == <<"logon", "">>
<1>3. y[1] = "logon" /\ request'[s].todo = <<y>>
  BY <1>1 DEF Idle, IInv, RequestsOK
<1>4. \A t \in Sessions \ {s} : request'[t] = request[t]
  BY <1>1 DEF IInv, RequestsOK
<1>5. \A n \in DOMAIN request'[s].todo : request'[s].todo[n][1] = "logon"
  <2> HIDE DEF y
  <2> QED BY <1>3
<1>6. \A x \in subscriptions : x[3] \in Sessions /\ x[3] # s
  BY <1>2 DEF Left, Leaving, IInv, OthersOK, Subscriptions
<1>7. ASSUME NEW x \in subscriptions
      PROVE  x[3] \in loggedOn \/ Leaving(x[3], x[1])'
  <2>1. request'[x[3]] = request[x[3]]
    BY <1>4, <1>6
  <2>2. x[3] \in loggedOn \/ Leaving(x[3], x[1])
    BY DEF Left
  <2> QED BY <2>1, <2>2 DEF Leaving
<1>8. ASSUME NEW t \in Sessions \ loggedOn, NEW n \in DOMAIN request'[t].todo
      PROVE  request'[t].todo[n][1] \in {"unsubscribeAll", "logon"}
  <2>1. CASE t = s
    BY <1>5, <2>1
  <2>2. CASE t # s
    BY <1>4, <2>2 DEF Left
  <2> QED BY <2>1, <2>2
<1>9. subscriptions' \subseteq subscriptionsList'
  BY <1>2 DEF Left
<1> QED BY <1>2, <1>7, <1>8, <1>9 DEF Left

LEMMA LeftLogout ==
    ASSUME IInv, Left, NEW s \in Sessions, OnLogout(s)
    PROVE  Left'
<1>1. /\ s \in loggedOn /\ loggedOn' = loggedOn \ {s}
      /\ UNCHANGED <<subscriptions, subscriptionsList>>
      /\ request' = [request EXCEPT ![s] = [Idle EXCEPT !.todo = Logout]]
  BY DEF OnLogout, subs
<1>2. /\ request'[s].todo = Logout
      /\ \A t \in Sessions \ {s} : request'[t] = request[t]
  BY <1>1 DEF Idle, IInv, RequestsOK
<1>3. \A n \in DOMAIN Logout : Logout[n][1] = "unsubscribeAll"
  BY LogoutSteps
<1>4. \A k \in Kinds : \E n \in DOMAIN Logout : Logout[n] = <<"unsubscribeAll", k>>
  <2>1. /\ {1, 2, 3, 4} \subseteq DOMAIN Logout
        /\ Logout[1] = <<"unsubscribeAll", "AD">> /\ Logout[2] = <<"unsubscribeAll", "A">>
        /\ Logout[3] = <<"unsubscribeAll", "X">> /\ Logout[4] = <<"unsubscribeAll", "V">>
    BY DEF Logout
  <2> QED BY <2>1 DEF Kinds
<1>5. \A x \in subscriptions : x[3] \in Sessions /\ x[1] \in Kinds
  BY DEF IInv, OthersOK, Subscriptions
<1>6. ASSUME NEW x \in subscriptions, x[3] \notin loggedOn'
      PROVE  Leaving(x[3], x[1])'
  <2>1. CASE x[3] = s
    BY <1>2, <1>4, <1>5, <2>1 DEF Leaving
  <2>2. CASE x[3] # s
    <3>1. x[3] \notin loggedOn
      BY <1>1, <1>6, <2>2
    <3>2. Leaving(x[3], x[1]) /\ request'[x[3]] = request[x[3]]
      BY <1>2, <1>5, <2>2, <3>1 DEF Left
    <3> QED BY <3>2 DEF Leaving
  <2> QED BY <2>1, <2>2
<1>7. \A t \in Sessions \ loggedOn' : \A n \in DOMAIN request'[t].todo :
            request'[t].todo[n][1] \in {"unsubscribeAll", "logon"}
  BY <1>1, <1>2, <1>3 DEF Left
<1> QED BY <1>1, <1>6, <1>7 DEF Left

LEMMA LeftHandle ==
    ASSUME IInv, Left, NEW s \in Sessions, Handle(s), ~SecurityListPanics(s)
    PROVE  Left'
<1>1. CASE FromAdmin(s)
  <2>1. /\ loggedOn' = loggedOn \cup {s} /\ Ends(s) /\ saved' = saved
        /\ UNCHANGED <<subscriptions, subscriptionsList>>
    BY <1>1 DEF FromAdmin, subs, engine
  <2>2. \A t \in Sessions \ {s} : request'[t] = request[t]
    BY <2>1, StepType, EndsNow DEF IInv
  <2>3. \A x \in subscriptions : x[3] \in Sessions
    BY DEF IInv, OthersOK, Subscriptions
  <2>4. ASSUME NEW x \in subscriptions', x[3] \notin loggedOn'
        PROVE  Leaving(x[3], x[1])'
    <3>1. x \in subscriptions /\ x[3] \notin loggedOn
      BY <2>1, <2>4
    <3>2. request'[x[3]] = request[x[3]]
      BY <2>1, <2>2, <2>3, <2>4, <3>1
    <3>3. Leaving(x[3], x[1])
      BY <3>1 DEF Left
    <3> QED BY <3>2, <3>3 DEF Leaving
  <2>5. ASSUME NEW t \in Sessions \ loggedOn', NEW n \in DOMAIN request'[t].todo
        PROVE  request'[t].todo[n][1] \in {"unsubscribeAll", "logon"}
    <3>1. t \notin loggedOn /\ request'[t] = request[t]
      BY <2>1, <2>2
    <3> QED BY <3>1 DEF Left
  <2>6. subscriptions' \subseteq subscriptionsList'
    BY <2>1 DEF Left
  <2> QED BY <2>4, <2>5, <2>6 DEF Left
<1>2. CASE Leave(s)
  BY <1>2, LeftLeave
<1>3. CASE Lookup(s) \/ Place(s) \/ Reply(s) \/ Query(s) \/ Subscribe(s) \/ Unsubscribe(s)
  <2>1. /\ request[s].todo # << >>
        /\ request[s].todo[1][1] \in {"user", "place", "reply", "query", "subscribe",
                                      "unsubscribe"}
        /\ UNCHANGED loggedOn
    BY <1>3 DEF Lookup, Place, Reply, Query, Subscribe, Unsubscribe, At
  <2>2. s \in loggedOn
    BY <2>1, BusyIsOn
  <2>3. \A t \in Sessions \ {s} : request'[t] = request[t]
    BY <1>3 DEF Lookup, Place, Reply, Query, Subscribe, Unsubscribe, Continues, Goes,
                Ends, IInv, RequestsOK
  <2>4. \A x \in subscriptions' \ subscriptions : x[3] = s
    BY <1>3 DEF Lookup, Place, Reply, Query, Subscribe, Unsubscribe, subs
  <2>5. subscriptions' \subseteq subscriptionsList'
    BY <1>3 DEF Lookup, Place, Reply, Query, Subscribe, Unsubscribe, subs, Left
  <2> QED BY <2>1, <2>2, <2>3, <2>4, <2>5, LeftByOthers
<1> QED BY <1>1, <1>2, <1>3 DEF Handle

LEMMA LeftDies ==
    ASSUME Dies
    PROVE  Left'
<1>1. \A s \in Sessions : request'[s].todo = << >>
  BY DEF Dies, Idle
<1> QED BY <1>1 DEF Dies, Left

LEMMA NextLeft == IInv /\ Left /\ [Next]_vars => Left'
<1> SUFFICES ASSUME IInv, Left, [Next]_vars PROVE Left'
  OBVIOUS
<1>1. ASSUME NEW s \in Sessions, FromApp(s) PROVE Left'
  <2>1. /\ s \in loggedOn /\ UNCHANGED <<loggedOn, subscriptions, subscriptionsList>>
        /\ \A t \in Sessions \ {s} : request'[t] = request[t]
    BY <1>1 DEF FromApp, subs, IInv, RequestsOK
  <2> QED BY <2>1, LeftByOthers DEF Left
<1>2. ASSUME NEW j \in Jobs, Consume(j) PROVE Left'
  BY <1>2, LeftUnchanged DEF Consume, Confirm, ReadBook, CountOrders, RangeOver, Visit,
                             RangeEnds, subs
<1>3. CASE EngineNext /\ UNCHANGED <<running, memory, ghosts>>
  BY <1>3, LeftUnchanged DEF memory, subs
<1>4. CASE UNCHANGED vars
  BY <1>4, LeftUnchanged DEF vars, memory, subs
<1>5. CASE MapsClash
  BY <1>5, LeftDies DEF MapsClash
<1>6. ASSUME NEW s \in Sessions, Handle(s) PROVE Left'
  BY <1>6, LeftHandle, LeftDies DEF SecurityListPanics
<1>7. ASSUME NEW s \in Sessions, Peer(s) PROVE Left'
  BY <1>1, <1>7, LeftLogon, LeftLogout DEF Peer
<1> QED BY <1>2, <1>3, <1>4, <1>5, <1>6, <1>7 DEF Next, Acceptor

(* However many requests a session has made and given up, and whatever     *)
(* other sessions and the engine's messages do meanwhile: when its logout  *)
(* is done, no subscription of it is left.                                 *)
THEOREM NothingLeft == Spec => []LoggedOutUnsubscribed
<1>1. Init => Left
  <2>1. DOMAIN Idle.todo = {}
    BY DEF Idle
  <2> QED BY <2>1 DEF Init, Left
<1>2. IInv /\ Left => LoggedOutUnsubscribed
  <2> SUFFICES ASSUME IInv, Left, NEW x \in subscriptions, x[3] \notin loggedOn
               PROVE  request[x[3]].todo # << >>
    BY DEF LoggedOutUnsubscribed
  <2> QED BY DEF Left, Leaving
<1> QED BY <1>1, <1>2, Starts, NextKeeps, NextLeft, PTL DEF Spec

-----------------------------------------------------------------------------
(* Whose orders are placed where.                                          *)

Mine(x) == <<x.session, x.user>> \in logons

(* A session that is to order has found its user, or will look it up.      *)
Entitled(s) ==
    \A n \in DOMAIN request[s].todo : request[s].todo[n][1] \in {"place", "reply"} =>
        \/ <<s, request[s].user>> \in logons
        \/ n > 1 /\ request[s].todo[1] = <<"user", "order">>

Known ==
    /\ \A u \in Users : userSession[u] # Nobody => <<userSession[u], u>> \in logons
    /\ running => \A x \in logons : userSession[x[2]] # Nobody
    /\ \A s \in Sessions : Entitled(s)
    /\ UsersOfTheSession

(* One session changes what it has to do.                                  *)
LEMMA KnownFrame ==
    ASSUME IInv, Known, NEW s \in Sessions, UNCHANGED <<running, userSession, logons>>,
           \A t \in Sessions \ {s} : request'[t] = request[t], Entitled(s)',
           \A x \in acted' \ acted : Mine(x)
    PROVE  Known'
<1>1. \A t \in Sessions : Entitled(t)'
  BY DEF Known, Entitled
<1>2. UsersOfTheSession'
  BY DEF Known, UsersOfTheSession, Mine
<1> QED BY <1>1, <1>2 DEF Known

LEMMA KnownUnchanged ==
    ASSUME Known, UNCHANGED <<running, userSession, logons, request>>,
           \A x \in acted' \ acted : Mine(x)
    PROVE  Known'
BY DEF Known, Entitled, UsersOfTheSession, Mine

(* The next step done for the same user, unless that was to be looked up.  *)
LEMMA EntitledTail ==
    ASSUME IInv, Known, NEW s \in Sessions, request[s].todo # << >>,
           request'[s].todo = Tail(request[s].todo), UNCHANGED logons,
           \/ /\ request'[s].user = request[s].user
              /\ request[s].todo[1] # <<"user", "order">>
           \/ <<s, request'[s].user>> \in logons
    PROVE  Entitled(s)'
<1>1. request[s].todo \in Seq(Steps)
  BY StepType DEF Request
<1> SUFFICES ASSUME NEW n \in DOMAIN request'[s].todo,
                    request'[s].todo[n][1] \in {"place", "reply"}
             PROVE  <<s, request'[s].user>> \in logons
  BY DEF Entitled
<1>2. n + 1 \in DOMAIN request[s].todo /\ request'[s].todo[n] = request[s].todo[n + 1]
  BY <1>1, TailOfSeq
<1> QED BY <1>2 DEF Known, Entitled

LEMMA EntitledNothing ==
    ASSUME NEW s \in Sessions,
           \A n \in DOMAIN request'[s].todo : request'[s].todo[n][1] \notin {"place", "reply"}
    PROVE  Entitled(s)'
BY DEF Entitled

LEMMA EntitledIdle ==
    ASSUME IInv, Known, NEW s \in Sessions, Ends(s), saved' = saved
    PROVE  Entitled(s)' /\ \A t \in Sessions \ {s} : request'[t] = request[t]
<1>1. request'[s] = Idle /\ \A t \in Sessions \ {s} : request'[t] = request[t]
  BY StepType, EndsNow DEF IInv
<1>2. DOMAIN Idle.todo = {}
  BY DEF Idle
<1> QED BY <1>1, <1>2, EntitledNothing

LEMMA KnownFromApp ==
    ASSUME IInv, Known, NEW s \in Sessions, FromApp(s)
    PROVE  Known'
<1>1. ASSUME NEW k \in Kinds, NEW t \in Types, NEW i \in Insts,
             request' = [request EXCEPT ![s] =
                [Idle EXCEPT !.todo = Subscribing(k, t), !.type = t,
                             !.key = Key(k, i)]]
      PROVE  Entitled(s)'
  <2>1. request'[s].todo = Subscribing(k, t)
    BY <1>1 DEF IInv, RequestsOK, Idle
  <2>2. Subscribing(k, t) \in Seq(StepsOf(k))
    BY SubscribingSteps
  <2> QED BY <2>1, <2>2, EntitledNothing DEF StepsOf
<1>2. ASSUME NEW todo \in {Ordering, onOrderMassCancelRequest},
             request' = [request EXCEPT ![s] = [Idle EXCEPT !.todo = todo]]
      PROVE  Entitled(s)'
  <2>1. request'[s].todo = todo
    BY <1>2 DEF IInv, RequestsOK, Idle
  <2>2. todo[1] = <<"user", "order">> /\ todo \in Seq(OrderSteps)
    BY OrderingSteps
  <2>3. \A n \in DOMAIN todo : todo[n][1] \in {"place", "reply"} => n > 1
    BY <2>2
  <2> QED BY <2>1, <2>2, <2>3 DEF Entitled
<1>3. Entitled(s)'
  BY <1>1, <1>2 DEF FromApp
<1>4. /\ UNCHANGED <<running, userSession, logons, acted>>
      /\ \A t \in Sessions \ {s} : request'[t] = request[t]
  BY DEF FromApp, IInv, RequestsOK
<1> QED BY <1>3, <1>4, KnownFrame

LEMMA KnownLookup ==
    ASSUME IInv, Known, NEW s \in Sessions, Lookup(s)
    PROVE  Known'
<1>1. /\ request[s].todo # << >> /\ request[s].todo[1][1] = "user" /\ saved' = saved
      /\ UNCHANGED <<running, userSession, logons, acted>>
      /\ Kind(s) = request[s].todo[1][2]
  BY DEF Lookup, At, ghosts, engine, Kind
<1>2. ASSUME NEW u \in UsersAt(s), Goes(s, u, 0)
      PROVE  Entitled(s)' /\ \A t \in Sessions \ {s} : request'[t] = request[t]
  <2>1. u \in Users /\ <<s, u>> \in logons
    BY ConstantsOK DEF UsersAt, Known
  <2>2. /\ request'[s].todo = Tail(request[s].todo) /\ request'[s].user = u
        /\ \A t \in Sessions \ {s} : request'[t] = request[t]
    BY <1>1, <1>2, <2>1, StepType, GoesOn DEF IInv
  <2> QED BY <1>1, <2>1, <2>2, EntitledTail
<1>3. ASSUME Kind(s) = "X", Continues(s)
      PROVE  Entitled(s)' /\ \A t \in Sessions \ {s} : request'[t] = request[t]
  <2>1. /\ request'[s].todo = Tail(request[s].todo) /\ request'[s].user = request[s].user
        /\ \A t \in Sessions \ {s} : request'[t] = request[t]
    BY <1>1, <1>3, StepType, GoesOn DEF Continues, IInv
  <2>2. request[s].todo[1] # <<"user", "order">>
    <3>1. <<"user", "order">>[2] = "order"
      OBVIOUS
    <3> QED BY <1>1, <1>3, <3>1
  <2> QED BY <1>1, <2>1, <2>2, EntitledTail
<1>4. Entitled(s)' /\ \A t \in Sessions \ {s} : request'[t] = request[t]
  BY <1>1, <1>2, <1>3, EntitledIdle DEF Lookup
<1> QED BY <1>1, <1>4, KnownFrame

(* The steps of a request after the user has been found.                   *)
LEMMA KnownOn ==
    ASSUME IInv, Known, NEW s \in Sessions, request[s].todo # << >>,
           request[s].todo[1][1] # "user", saved' = saved,
           UNCHANGED <<running, userSession, logons>>,
           \/ Continues(s) \/ Ends(s)
           \/ \E v \in 0 .. saved : Goes(s, request[s].user, v),
           \A x \in acted' \ acted : Mine(x)
    PROVE  Known'
<1>1. ASSUME NEW v \in 0 .. saved, Goes(s, request[s].user, v)
      PROVE  Entitled(s)' /\ \A t \in Sessions \ {s} : request'[t] = request[t]
  <2>1. /\ request'[s].todo = Tail(request[s].todo) /\ request'[s].user = request[s].user
        /\ \A t \in Sessions \ {s} : request'[t] = request[t]
    BY <1>1, StepType, GoesOn DEF IInv
  <2>2. request[s].todo[1] # <<"user", "order">>
    <3>1. <<"user", "order">>[1] = "user"
      OBVIOUS
    <3> QED BY <3>1
  <2> QED BY <2>1, <2>2, EntitledTail
<1>2. Continues(s) => \E v \in 0 .. saved : Goes(s, request[s].user, v)
  BY StepType DEF Continues
<1> QED BY <1>1, <1>2, EntitledIdle, KnownFrame

LEMMA KnownHandle ==
    ASSUME IInv, Known, running, NEW s \in Sessions, Handle(s), ~SecurityListPanics(s)
    PROVE  Known'
<1> DEFINE first == request[s].todo[1][1]
<1>1. ASSUME request[s].todo # << >>, first \in {"place", "reply"}
      PROVE  <<s, request[s].user>> \in logons
  <2>1. 1 \in DOMAIN request[s].todo
    BY <1>1, StepType
  <2> QED BY <1>1, <2>1 DEF Known, Entitled
<1>2. CASE Place(s)
  <2>1. /\ request[s].todo # << >> /\ first = "place" /\ saved' = saved
        /\ UNCHANGED <<running, userSession, logons>> /\ (Continues(s) \/ Ends(s))
    BY <1>2 DEF Place, At, engine
  <2>2. \A x \in acted' \ acted : x.session = s /\ x.user = request[s].user
    BY <1>2 DEF Place, ActsFor
  <2>3. \A x \in acted' \ acted : Mine(x)
    BY <1>1, <2>1, <2>2 DEF Mine
  <2> QED BY <2>1, <2>3, KnownOn
<1>3. CASE Reply(s)
  <2>1. /\ request[s].todo # << >> /\ first = "reply" /\ saved' = saved
        /\ UNCHANGED <<running, userSession, logons>> /\ Continues(s)
    BY <1>3 DEF Reply, At, engine
  <2>2. \A x \in acted' \ acted :
            x.session = userSession[request[s].user] /\ x.user = request[s].user
    BY <1>3 DEF Reply, ActsFor
  <2>3. <<s, request[s].user>> \in logons /\ request[s].user \in Users
    BY <1>1, <2>1 DEF IInv, OthersOK
  <2>4. userSession[request[s].user] # Nobody
    BY <2>3 DEF Known
  <2>5. \A x \in acted' \ acted : Mine(x)
    BY <2>2, <2>3, <2>4 DEF Known, Mine
  <2> QED BY <2>1, <2>5, KnownOn
<1>4. CASE Query(s)
  <2>1. /\ request[s].todo # << >> /\ first = "query" /\ saved' = saved
        /\ UNCHANGED <<running, userSession, logons, acted>>
    BY <1>4 DEF Query, At, engine
  <2>2. Kind(s) \in {"V", "A"} => Finds(request[s].key) \subseteq 0 .. saved
    BY <2>1, StepType, FindsType DEF Kind, Sensible, IInv
  <2> QED BY <1>4, <2>1, <2>2, KnownOn DEF Query
<1>5. CASE Subscribe(s) \/ Unsubscribe(s) \/ Leave(s)
  <2>1. /\ request[s].todo # << >> /\ first # "user" /\ saved' = saved
        /\ UNCHANGED <<running, userSession, logons, acted>> /\ Continues(s)
    BY <1>5 DEF Subscribe, Unsubscribe, Leave, At, engine, ghosts
  <2> QED BY <2>1, KnownOn
<1>6. CASE FromAdmin(s)
  <2> DEFINE u == request[s].user
  <2>1. /\ request[s].todo # << >> /\ first = "logon" /\ Ends(s) /\ saved' = saved
        /\ userSession' = [userSession EXCEPT ![u] = s]
        /\ logons' = logons \cup {<<s, u>>} /\ UNCHANGED <<running, acted>>
    BY <1>6 DEF FromAdmin, At, engine
  <2>2. u \in Users /\ userSession \in [Users -> Sessions \cup {Nobody}]
        /\ logons \subseteq Sessions \X Users
    BY <2>1, StepType DEF Sensible, IInv, OthersOK
  <2>3. \A v \in Users : userSession'[v] # Nobody => <<userSession'[v], v>> \in logons'
    BY <2>1, <2>2 DEF Known
  <2>4. running => \A x \in logons' : userSession'[x[2]] # Nobody
    BY <2>1, <2>2, ConstantsOK DEF Known
  <2>5. Entitled(s)' /\ \A t \in Sessions \ {s} : request'[t] = request[t]
    BY <2>1, EntitledIdle
  <2>6. \A t \in Sessions : Entitled(t)'
    BY <2>1, <2>5 DEF Known, Entitled
  <2>7. UsersOfTheSession'
    BY <2>1 DEF Known, UsersOfTheSession
  <2> QED BY <2>1, <2>3, <2>4, <2>6, <2>7 DEF Known
<1> QED BY <1>2, <1>3, <1>4, <1>5, <1>6, KnownLookup DEF Handle

LEMMA KnownDies ==
    ASSUME Known, Dies
    PROVE  Known'
<1>1. DOMAIN Idle.todo = {}
  BY DEF Idle
<1>2. \A s \in Sessions : Entitled(s)'
  BY <1>1 DEF Dies, Entitled
<1> QED BY <1>2 DEF Dies, Known, UsersOfTheSession, NoSession, ghosts

LEMMA KnownConfirm ==
    ASSUME IInv, Known, NEW j \in Jobs, Confirm(j)
    PROVE  Known'
<1> DEFINE u == Now(j).todo[1][2]
<1>1. /\ j \in Arrived /\ Now(j).todo # << >> /\ Now(j).todo[1][1] = "confirm"
      /\ UNCHANGED <<running, userSession, logons, request>>
  BY DEF Confirm, Next1
<1>2. Now(j).todo[1] \in JobSteps
  BY <1>1, NowType
<1>3. u \in Users
  BY <1>1, <1>2 DEF JobSteps
<1>4. \A x \in acted' \ acted : /\ x.session = userSession[u] /\ x.user = u
                                /\ userSession[u] # Nobody
  BY DEF Confirm, ActsFor
<1>5. \A x \in acted' \ acted : Mine(x)
  BY <1>3, <1>4 DEF Known, Mine
<1> QED BY <1>1, <1>5, KnownUnchanged

LEMMA NextKnown == IInv /\ Known /\ [Next]_vars => Known'
<1> SUFFICES ASSUME IInv, Known, [Next]_vars PROVE Known'
  OBVIOUS
<1>1. ASSUME NEW s \in Sessions, Logon(s) \/ OnLogout(s) PROVE Known'
  <2>1. /\ UNCHANGED <<running, userSession, logons, acted>>
        /\ \A t \in Sessions \ {s} : request'[t] = request[t]
    BY <1>1 DEF Logon, OnLogout, ghosts, IInv, RequestsOK
  <2>2. CASE Logon(s)
    <3> DEFINE y == <<"logon", "">>
    <3>1. request'[s].todo = <<y>> /\ y[1] = "logon"
      BY <2>2 DEF Logon, IInv, RequestsOK, Idle
    <3> HIDE DEF y
    <3>2. \A n \in DOMAIN request'[s].todo : request'[s].todo[n][1] = "logon"
      BY <3>1
    <3> QED BY <2>1, <3>2, EntitledNothing, KnownFrame
  <2>3. CASE OnLogout(s)
    <3>1. request'[s].todo = Logout
      BY <2>3 DEF OnLogout, IInv, RequestsOK, Idle
    <3> QED BY <2>1, <3>1, LogoutSteps, EntitledNothing, KnownFrame
  <2> QED BY <1>1, <2>2, <2>3
<1>2. ASSUME NEW s \in Sessions, Peer(s) PROVE Known'
  BY <1>1, <1>2, KnownFromApp DEF Peer
<1>3. ASSUME running, NEW s \in Sessions, Handle(s) PROVE Known'
  BY <1>3, KnownHandle, KnownDies DEF SecurityListPanics
<1>4. ASSUME NEW j \in Jobs, Consume(j) PROVE Known'
  BY <1>4, KnownConfirm, KnownUnchanged
     DEF Consume, ReadBook, CountOrders, RangeOver, Visit, RangeEnds, ghosts
<1>5. CASE EngineNext /\ UNCHANGED <<running, memory, ghosts>>
  BY <1>5, KnownUnchanged DEF memory, ghosts
<1>6. CASE UNCHANGED vars
  BY <1>6, KnownUnchanged DEF vars, memory, ghosts
<1>7. CASE MapsClash
  BY <1>7, KnownDies DEF MapsClash
<1> QED BY <1>2, <1>3, <1>4, <1>5, <1>6, <1>7 DEF Next, Acceptor

(* At any number of sessions, users and logons, with userSession never     *)
(* cleared: an order is placed for, and a message about a user's orders    *)
(* sent to, no session but those where that user has logged on.            *)
THEOREM OrdersOfTheirUsers == Spec => []UsersOfTheSession
<1>1. Init => Known
  <2>1. DOMAIN Idle.todo = {}
    BY DEF Idle
  <2> QED BY <2>1 DEF Init, Known, Entitled, UsersOfTheSession, NoSession
<1>2. Known => UsersOfTheSession
  BY DEF Known
<1> QED BY <1>1, <1>2, Starts, NextKeeps, NextKnown, PTL DEF Spec
-----------------------------------------------------------------------------
(* Subscribers to quotes and market data, whose reports are books.         *)

BookKinds == {"A", "V"}

(* What a session's goroutine may have to do about these.                  *)
AboutBooks(step) == step[1] \in {"query", "subscribe"} /\ step[2] \in BookKinds

SubscribeA == <<<<"subscribe", "A">>>>
QueryV == <<<<"query", "V">>>>
SubscribeV == <<<<"subscribe", "V">>, <<"query", "V">>>>

AskLists ==
    {SubscribeA, <<<<"query", "A">>>>, <<<<"query", "A">>, <<"subscribe", "A">>>>,
     QueryV, SubscribeV}

Planned(todo) == (\E n \in DOMAIN todo : AboutBooks(todo[n])) => todo \in AskLists

LEMMA AskCases ==
    ASSUME NEW todo \in AskLists
    PROVE  /\ todo # << >> /\ 1 \in DOMAIN todo /\ AboutBooks(todo[1])
           /\ todo[1] = <<"query", "A">> => Tail(todo) \in {<< >>, SubscribeA}
           /\ todo[1] = <<"query", "V">> => todo = QueryV /\ Tail(todo) = << >>
           /\ todo[1] = <<"subscribe", "A">> => todo = SubscribeA /\ Tail(todo) = << >>
           /\ todo[1] = <<"subscribe", "V">> => todo = SubscribeV /\ Tail(todo) = QueryV
<1> DEFINE qa == <<"query", "A">>
           sa == <<"subscribe", "A">>
           qv == <<"query", "V">>
           sv == <<"subscribe", "V">>
<1>1. /\ qa # sa /\ qa # qv /\ qa # sv /\ sa # qv /\ sa # sv /\ qv # sv
      /\ AboutBooks(qa) /\ AboutBooks(sa) /\ AboutBooks(qv) /\ AboutBooks(sv)
  BY DEF AboutBooks, BookKinds
<1>2. /\ todo \in {<<sa>>, <<qa>>, <<qa, sa>>, <<qv>>, <<sv, qv>>}
      /\ SubscribeA = <<sa>> /\ QueryV = <<qv>> /\ SubscribeV = <<sv, qv>>
  BY DEF AskLists, SubscribeA, QueryV, SubscribeV
<1> HIDE DEF qa, sa, qv, sv
<1>3. \A a, b : /\ Tail(<<a>>) = << >> /\ Tail(<<a, b>>) = <<b>> /\ <<a>>[1] = a
                /\ <<a, b>>[1] = a /\ <<a>> # << >> /\ <<a, b>> # << >>
                /\ 1 \in DOMAIN <<a>> /\ 1 \in DOMAIN <<a, b>>
  OBVIOUS
<1>4. /\ todo # << >> /\ 1 \in DOMAIN todo /\ AboutBooks(todo[1])
      /\ todo[1] = qa => Tail(todo) \in {<< >>, <<sa>>}
      /\ todo[1] = qv => todo = <<qv>> /\ Tail(todo) = << >>
      /\ todo[1] = sa => todo = <<sa>> /\ Tail(todo) = << >>
      /\ todo[1] = sv => todo = <<sv, qv>> /\ Tail(todo) = <<qv>>
  <2>1. CASE todo = <<sa>>
    BY <1>1, <1>3, <2>1
  <2>2. CASE todo = <<qa>>
    BY <1>1, <1>3, <2>2
  <2>3. CASE todo = <<qa, sa>>
    BY <1>1, <1>3, <2>3
  <2>4. CASE todo = <<qv>>
    BY <1>1, <1>3, <2>4
  <2>5. CASE todo = <<sv, qv>>
    BY <1>1, <1>3, <2>5
  <2> QED BY <1>2, <2>1, <2>2, <2>3, <2>4, <2>5
<1> QED BY <1>2, <1>4 DEF qa, sa, qv, sv

(* Which lists are which.                                                  *)
LEMMA AskDistinct ==
    /\ SubscribeA \in AskLists /\ QueryV \in AskLists /\ SubscribeV \in AskLists
    /\ SubscribeA # << >> /\ QueryV # << >> /\ SubscribeV # << >>
    /\ SubscribeA \notin {QueryV, SubscribeV}
<1>1. \A a, b, c : a # b => <<a>> # <<b>> /\ <<a>> # <<b, c>>
  OBVIOUS
<1>2. <<"subscribe", "A">> # <<"query", "V">> /\ <<"subscribe", "A">> # <<"subscribe", "V">>
  OBVIOUS
<1>3. SubscribeA \in AskLists /\ QueryV \in AskLists /\ SubscribeV \in AskLists
  BY DEF AskLists
<1>4. SubscribeA # << >> /\ QueryV # << >> /\ SubscribeV # << >>
  BY <1>3, AskCases
<1>5. SubscribeA \notin {QueryV, SubscribeV}
  BY <1>1, <1>2 DEF SubscribeA, QueryV, SubscribeV
<1> QED BY <1>3, <1>4, <1>5

LEMMA PlannedTail ==
    ASSUME NEW todo \in Seq(Steps), todo # << >>, Planned(todo)
    PROVE  Planned(Tail(todo))
<1> SUFFICES ASSUME NEW n \in DOMAIN Tail(todo), AboutBooks(Tail(todo)[n])
             PROVE  Tail(todo) \in AskLists
  BY DEF Planned
<1>1. n + 1 \in DOMAIN todo /\ Tail(todo)[n] = todo[n + 1]
  BY TailOfSeq
<1>2. todo \in AskLists
  BY <1>1 DEF Planned
<1>3. Tail(todo) # << >>
  OBVIOUS
<1>4. todo[1] \in {<<"query", "A">>, <<"query", "V">>, <<"subscribe", "A">>, <<"subscribe", "V">>}
  <2>1. \A a, b : <<a>>[1] = a /\ <<a, b>>[1] = a
    OBVIOUS
  <2> QED BY <1>2, <2>1 DEF AskLists, SubscribeA, QueryV, SubscribeV
<1> QED BY <1>2, <1>3, <1>4, AskCases, AskDistinct

LEMMA PlannedNothing == Planned(<< >>)
BY DEF Planned

LEMMA PlannedRequest ==
    ASSUME NEW k \in Kinds, NEW t \in Types
    PROVE  /\ Planned(Subscribing(k, t))
           /\ Subscribing(k, t) = SubscribeA => t = "disable"
<1>1. CASE k = "V"
  <2>1. Subscribing(k, t) \in {QueryV, SubscribeV}
    <3> DEFINE qv == <<"query", "V">>
               sv == <<"subscribe", "V">>
    <3>1. /\ Subscribing(k, t) = (IF t = "updates" THEN <<sv>> ELSE << >>) \o <<qv>>
          /\ QueryV = <<qv>> /\ SubscribeV = <<sv, qv>>
      BY <1>1 DEF Subscribing, onMarketDataRequest, QueryV, SubscribeV
    <3> HIDE DEF qv, sv
    <3>2. <<sv>> \o <<qv>> = <<sv, qv>>
      <4> DEFINE list == <<sv>> \o <<qv>>
      <4>1. <<sv>> \in Seq({sv, qv}) /\ <<qv>> \in Seq({sv, qv})
        OBVIOUS
      <4>2. list \in Seq({sv, qv}) /\ Len(list) = 2 /\ list[1] = sv /\ list[2] = qv
        BY <4>1
      <4> HIDE DEF list
      <4>3. list = <<list[1], list[2]>>
        BY <4>2
      <4> QED BY <4>2, <4>3 DEF list
    <3>3. << >> \o <<qv>> = <<qv>>
      OBVIOUS
    <3> QED BY <3>1, <3>2, <3>3
  <2> QED BY <2>1, AskDistinct DEF Planned
<1>2. CASE k = "A"
  <2>1. /\ Subscribing(k, t) \in AskLists
        /\ t = "snapshot" => Subscribing(k, t) = <<<<"query", "A">>>>
        /\ t = "updates" => Subscribing(k, t) = <<<<"query", "A">>, <<"subscribe", "A">>>>
    BY <1>2 DEF Subscribing, OnQuoteStatusRequest, AskLists, SubscribeA, Types
  <2>2. \A a, b : <<a>>[1] = a /\ <<a, b>>[1] = a
    OBVIOUS
  <2>3. SubscribeA[1] = <<"subscribe", "A">> /\ <<"subscribe", "A">> # <<"query", "A">>
    BY <2>2 DEF SubscribeA
  <2>4. Subscribing(k, t) = SubscribeA => t = "disable"
    BY <2>1, <2>2, <2>3 DEF Types
  <2> QED BY <2>1, <2>4 DEF Planned
<1>3. CASE k \in {"X", "AD"}
  <2>1. Subscribing(k, t) \in Seq(StepsOf(k))
    BY SubscribingSteps
  <2>2. \A n \in DOMAIN Subscribing(k, t) : Subscribing(k, t)[n][2] = k
    BY <2>1 DEF StepsOf
  <2>3. \A n \in DOMAIN Subscribing(k, t) : ~AboutBooks(Subscribing(k, t)[n])
    BY <1>3, <2>2 DEF AboutBooks, BookKinds
  <2> QED BY <2>3, AskDistinct, AskCases DEF Planned
<1> QED BY <1>1, <1>2, <1>3 DEF Kinds

LEMMA PlannedOthers ==
    /\ Planned(Ordering) /\ Planned(onOrderMassCancelRequest) /\ Planned(Logout)
    /\ Planned(<<<<"logon", "">>>>)
    /\ \A todo \in {Ordering, onOrderMassCancelRequest, Logout, <<<<"logon", "">>>>} :
            todo \notin AskLists
<1>1. ASSUME NEW todo, \A n \in DOMAIN todo : ~AboutBooks(todo[n])
      PROVE  Planned(todo) /\ todo \notin AskLists
  BY <1>1, AskCases DEF Planned
<1>2. \A n \in DOMAIN Ordering : ~AboutBooks(Ordering[n])
  BY OrderingSteps DEF AboutBooks, OrderSteps
<1>3. \A n \in DOMAIN onOrderMassCancelRequest : ~AboutBooks(onOrderMassCancelRequest[n])
  BY OrderingSteps DEF AboutBooks, OrderSteps
<1>4. \A n \in DOMAIN Logout : ~AboutBooks(Logout[n])
  BY LogoutSteps DEF AboutBooks
<1>5. \A n \in DOMAIN <<<<"logon", "">>>> : ~AboutBooks(<<<<"logon", "">>>>[n])
  <2> DEFINE x == <<"logon", "">>
  <2>1. ~AboutBooks(x)
    BY DEF AboutBooks
  <2> HIDE DEF x
  <2>2. \A n \in DOMAIN <<x>> : ~AboutBooks(<<x>>[n])
    BY <2>1
  <2> QED BY <2>2 DEF x
<1> QED BY <1>1, <1>2, <1>3, <1>4, <1>5

(* Who is sent reports of an instrument, or will be with the next step; a  *)
(* subscriber to market data, once it has the book it asked for.           *)
Waiting(k, i, s) ==
    IF k = "A"
    THEN \/ <<k, i, s>> \in subscriptions
         \/ /\ request[s].todo = SubscribeA /\ request[s].key = i
            /\ request[s].type # "disable"
    ELSE /\ <<k, i, s>> \in subscriptions
         /\ ~(request[s].todo \in {QueryV, SubscribeV} /\ request[s].key = i)

Told(k, i, s, m) ==
    \E r \in reported : <<r[1], r[2], r[3]>> = <<k, i, s>> /\ r[5] >= m

(* Who begins to wait has been told all there is, or has missed it.        *)
Attends(k, i, s) ==
    Waiting(k, i, s)' =>
        \/ /\ Waiting(k, i, s)
           /\ <<k, i, s>> \in subscriptions => <<k, i, s>> \in subscriptions'
        \/ \A m \in OrderSaved : Instrument(m) = i =>
                <<<<k, i, s>>, m>> \in missed' \/ Told(k, i, s, m)'

LEMMA AttendsElsewhere ==
    ASSUME NEW k, NEW i, NEW s, request'[s] = request[s],
           <<k, i, s>> \in subscriptions' <=> <<k, i, s>> \in subscriptions
    PROVE  Attends(k, i, s)
BY DEF Attends, Waiting

LEMMA AttendsAside ==
    ASSUME NEW k \in BookKinds, NEW i, NEW s, request[s].todo \notin AskLists,
           request'[s].todo = SubscribeA => request'[s].type = "disable",
           <<k, i, s>> \in subscriptions' => <<k, i, s>> \in subscriptions
    PROVE  Attends(k, i, s)
<1>1. request[s].todo \notin {QueryV, SubscribeV}
  BY AskDistinct
<1> QED BY <1>1 DEF Attends, Waiting

(* A step of a session's goroutine.                                        *)
LEMMA StepDone ==
    ASSUME IInv, NEW s \in Sessions,
           \/ Lookup(s) \/ Place(s) \/ Reply(s) \/ Query(s) \/ Subscribe(s)
           \/ Unsubscribe(s) \/ FromAdmin(s) \/ Leave(s)
    PROVE  /\ request[s].todo # << >> /\ request[s].todo \in Seq(Steps)
           /\ request[s].todo[1] \in Steps /\ 1 \in DOMAIN request[s].todo
           /\ request'[s].todo \in {Tail(request[s].todo), << >>}
           /\ \A t \in Sessions \ {s} : request'[t] = request[t]
<1>1. \A user, seen : Goes(s, user, seen) =>
        /\ request'[s].todo = Tail(request[s].todo)
        /\ \A t \in Sessions \ {s} : request'[t] = request[t]
  <2> SUFFICES ASSUME NEW user, NEW seen, Goes(s, user, seen)
               PROVE  /\ request'[s].todo = Tail(request[s].todo)
                      /\ \A t \in Sessions \ {s} : request'[t] = request[t]
    OBVIOUS
  <2> DEFINE new == [request[s] EXCEPT !.todo = Tail(@), !.user = user, !.seen = seen]
  <2>1. request' = [request EXCEPT ![s] = new]
    BY DEF Goes
  <2>2. request[s] \in Request /\ request \in [Sessions -> Request]
    BY DEF IInv, RequestsOK
  <2>3. new.todo = Tail(request[s].todo)
    BY <2>2 DEF Request
  <2> HIDE DEF new
  <2> QED BY <2>1, <2>2, <2>3
<1>2. Ends(s) => /\ request'[s].todo = << >>
                 /\ \A t \in Sessions \ {s} : request'[t] = request[t]
  <2>1. Idle.todo = << >>
    BY DEF Idle
  <2> QED BY <2>1 DEF Ends, IInv, RequestsOK
<1>3. request[s].todo # << >>
  BY DEF Lookup, Place, Reply, Query, Subscribe, Unsubscribe, FromAdmin, Leave, At
<1>4. (\E user, seen : Goes(s, user, seen)) \/ Ends(s)
  <2>1. Continues(s) => \E user, seen : Goes(s, user, seen)
    BY DEF Continues
  <2>2. CASE Lookup(s)
    BY <2>1, <2>2 DEF Lookup
  <2>3. CASE Query(s)
    BY <2>1, <2>3 DEF Query
  <2>4. CASE ~Lookup(s) /\ ~Query(s)
    BY <2>1, <2>4 DEF Place, Reply, Subscribe, Unsubscribe, FromAdmin, Leave
  <2> QED BY <2>2, <2>3, <2>4
<1>5. request[s].todo \in Seq(Steps)
  BY StepType DEF Request
<1> QED BY <1>1, <1>2, <1>3, <1>4, <1>5, StepType

(* One that is not about books.                                            *)
LEMMA AttendsBeside ==
    ASSUME IInv, NEW s \in Sessions, Planned(request[s].todo),
           \/ Lookup(s) \/ Place(s) \/ Reply(s) \/ Query(s) \/ Subscribe(s)
           \/ Unsubscribe(s) \/ FromAdmin(s) \/ Leave(s),
           ~AboutBooks(request[s].todo[1]),
           NEW k \in BookKinds, NEW i,
           <<k, i, s>> \in subscriptions' => <<k, i, s>> \in subscriptions
    PROVE  Attends(k, i, s)
<1>1. request[s].todo \notin AskLists
  BY AskCases
<1>2. request'[s].todo # SubscribeA
  <2>1. SubscribeA # << >> /\ SubscribeA \in AskLists
    BY AskDistinct
  <2>2. CASE request'[s].todo = << >>
    BY <2>1, <2>2
  <2>3. CASE request'[s].todo = Tail(request[s].todo)
    <3>1. \A n \in DOMAIN Tail(request[s].todo) : ~AboutBooks(Tail(request[s].todo)[n])
      <4>1. \A n \in DOMAIN Tail(request[s].todo) :
                /\ n + 1 \in DOMAIN request[s].todo
                /\ Tail(request[s].todo)[n] = request[s].todo[n + 1]
        BY StepDone, TailOfSeq
      <4> QED BY <1>1, <4>1 DEF Planned
    <3> QED BY <2>1, <2>3, <3>1, AskCases
  <2> QED BY <2>2, <2>3, StepDone
<1> QED BY <1>1, <1>2, AttendsAside

LEMMA StepPair ==
    ASSUME NEW x \in Steps
    PROVE  x = <<x[1], x[2]>>
<1>1. CASE x \in {"query", "subscribe", "unsubscribe", "unsubscribeAll"} \X Kinds
  BY <1>1
<1>2. CASE x \in {"user"} \X {"X", "AD", "order"}
  BY <1>2
<1>3. CASE x \in {"place", "reply"} \X {"order"}
  BY <1>3
<1>4. CASE x = <<"logon", "">>
  BY <1>4
<1> QED BY <1>1, <1>2, <1>3, <1>4 DEF Steps

LEMMA AttendsQuery ==
    ASSUME IInv, NEW s \in Sessions, Planned(request[s].todo), Query(s),
           NEW k \in BookKinds, NEW i
    PROVE  Attends(k, i, s)
<1> DEFINE todo == request[s].todo
<1>1. /\ todo # << >> /\ todo[1][1] = "query" /\ Kind(s) = todo[1][2]
      /\ UNCHANGED subscriptions
  BY DEF Query, At, Kind, subs
<1>2. CASE Kind(s) \notin BookKinds
  <2>1. ~AboutBooks(todo[1])
    BY <1>1, <1>2 DEF AboutBooks
  <2> QED BY <1>1, <2>1, AttendsBeside
<1>3. CASE Kind(s) \in BookKinds
  <2>1. todo[1] = <<"query", Kind(s)>>
    <3>1. todo[1] \in Steps
      BY StepDone
    <3> QED BY <1>1, <3>1, StepPair
  <2>2. AboutBooks(todo[1]) /\ 1 \in DOMAIN todo
    BY <1>1, <1>3, StepDone DEF AboutBooks
  <2>3. todo \in AskLists
    BY <2>2 DEF Planned
  <2>4. PICK v, sent :
            /\ Goes(s, request[s].user, v)
            /\ reported' = IF sent THEN reported \cup {<<Kind(s), request[s].key, s, 0, v>>}
                           ELSE reported
            /\ missed' = IF sent /\ v = Version(request[s].key) THEN missed
                         ELSE missed \cup Unseen(<<Kind(s), request[s].key, s>>)
    BY <1>3 DEF Query, BookKinds
  <2>5. request'[s].todo = Tail(todo) /\ request'[s].key = request[s].key
    BY <2>4 DEF Goes, IInv, RequestsOK, Request
  <2>6. CASE k = Kind(s) /\ i = request[s].key
    <3>1. CASE ~(sent /\ v = Version(request[s].key))
      BY <2>4, <2>6, <3>1 DEF Attends, Unseen
    <3>2. CASE sent /\ v = Version(request[s].key)
      <4>1. v = Version(i)
        BY <2>6, <3>2
      <4>2. <<k, i, s, 0, v>> \in reported'
        BY <2>4, <2>6, <3>2, <4>1
      <4>3. ASSUME NEW m \in OrderSaved, Instrument(m) = i
            PROVE  v >= m
        <5>1. m \in DOMAIN msg /\ m <= saved /\ msg[m].kind = "order" /\ EngineOK
          BY DEF OrderSaved, IInv
        <5>2. i \in Instruments(m) /\ m \in Nat
          BY <4>3, <5>1, MessageType
        <5>3. v \in m .. saved
          BY <4>1, <5>1, <5>2, VersionFresh
        <5> QED BY <5>2, <5>3
      <4>4. \A m \in OrderSaved : Instrument(m) = i => Told(k, i, s, m)'
        <5> SUFFICES ASSUME NEW m \in OrderSaved, Instrument(m) = i
                     PROVE  \E r \in reported' : <<r[1], r[2], r[3]>> = <<k, i, s>> /\ r[5] >= m
          BY DEF Told
        <5> DEFINE r == <<k, i, s, 0, v>>
        <5>1. r \in reported' /\ <<r[1], r[2], r[3]>> = <<k, i, s>> /\ r[5] = v
          BY <4>2
        <5> HIDE DEF r
        <5> QED BY <5>1, <4>3
      <4> QED BY <4>4 DEF Attends
    <3> QED BY <3>1, <3>2
  <2>7. CASE ~(k = Kind(s) /\ i = request[s].key)
    <3>1. Waiting(k, i, s)' => Waiting(k, i, s)
      <4>1. CASE Kind(s) = "A"
        <5>1. todo \notin {QueryV, SubscribeV}
          <6>1. QueryV[1] = <<"query", "V">> /\ SubscribeV[1] = <<"subscribe", "V">>
            <7>1. \A a, b : <<a>>[1] = a /\ <<a, b>>[1] = a
              OBVIOUS
            <7> QED BY <7>1 DEF QueryV, SubscribeV
          <6> QED BY <2>1, <4>1, <6>1
        <5>2. CASE k = "A"
          BY <1>1, <2>5, <2>7, <4>1, <5>2 DEF Waiting
        <5>3. CASE k = "V"
          BY <1>1, <5>1, <5>3 DEF Waiting
        <5> QED BY <5>2, <5>3 DEF BookKinds
      <4>2. CASE Kind(s) = "V"
        <5>1. Tail(todo) = << >> /\ << >> # SubscribeA
          BY <2>1, <2>3, <4>2, AskCases, AskDistinct
        <5>2. CASE k = "A"
          BY <1>1, <2>5, <5>1, <5>2 DEF Waiting
        <5>3. CASE k = "V"
          BY <1>1, <2>7, <4>2, <5>3 DEF Waiting
        <5> QED BY <5>2, <5>3 DEF BookKinds
      <4> QED BY <1>3, <4>1, <4>2 DEF BookKinds
    <3> QED BY <1>1, <3>1 DEF Attends
  <2> QED BY <2>6, <2>7
<1> QED BY <1>2, <1>3

LEMMA AttendsSubscribe ==
    ASSUME IInv, NEW s \in Sessions, Planned(request[s].todo), Subscribe(s),
           NEW k \in BookKinds, NEW i
    PROVE  Attends(k, i, s)
<1> DEFINE todo == request[s].todo
           x == <<Kind(s), request[s].key, s>>
<1>1. /\ todo # << >> /\ todo[1][1] = "subscribe" /\ Kind(s) = todo[1][2]
      /\ subscriptions' = subscriptions \cup {x} /\ Continues(s)
      /\ missed' = IF request[s].type = "disable" THEN missed \cup Unseen(x) ELSE missed
  BY DEF Subscribe, At, Kind
<1>2. CASE k # Kind(s) \/ i # request[s].key
  <2>1. <<k, i, s>> \in subscriptions' => <<k, i, s>> \in subscriptions
    BY <1>1, <1>2
  <2>2. CASE Kind(s) \notin BookKinds
    <3>1. ~AboutBooks(todo[1])
      BY <1>1, <2>2 DEF AboutBooks
    <3> QED BY <2>1, <3>1, AttendsBeside
  <2>3. CASE Kind(s) \in BookKinds
    <3>1. todo \in AskLists /\ todo[1] = <<"subscribe", Kind(s)>>
      <4>1. todo[1] \in Steps /\ 1 \in DOMAIN todo
        BY StepDone
      <4>2. AboutBooks(todo[1])
        BY <1>1, <2>3 DEF AboutBooks
      <4> QED BY <1>1, <4>1, <4>2, StepPair DEF Planned
    <3>2. /\ request'[s].todo \in {Tail(todo), << >>}
          /\ request'[s].key = request[s].key
      BY <1>1, StepDone, StepType, GoesOn DEF Continues, IInv, Subscribe, engine
    <3>3. request'[s].todo # SubscribeA
      <4>1. Tail(todo) \in {<< >>, QueryV}
        BY <2>3, <3>1, AskCases DEF BookKinds
      <4> QED BY <3>2, <4>1, AskDistinct
    <3>4. Waiting(k, i, s)' => Waiting(k, i, s)
      <4>1. CASE k = "A"
        BY <2>1, <3>3, <4>1 DEF Waiting
      <4>2. CASE k = "V" /\ i # request[s].key
        BY <2>1, <4>2 DEF Waiting
      <4>3. CASE k = "V" /\ Kind(s) = "A"
        <5>1. todo \notin {QueryV, SubscribeV}
          <6>1. todo = SubscribeA
            BY <3>1, <4>3, AskCases
          <6> QED BY <6>1, AskDistinct
        <5> QED BY <2>1, <4>3, <5>1 DEF Waiting
      <4> QED BY <1>2, <2>3, <4>1, <4>2, <4>3 DEF BookKinds
    <3> QED BY <1>1, <3>4 DEF Attends
  <2> QED BY <2>2, <2>3
<1>3. CASE k = Kind(s) /\ i = request[s].key
  <2>1. todo \in AskLists /\ todo[1] = <<"subscribe", k>>
    <3>1. todo[1] \in Steps /\ 1 \in DOMAIN todo
      BY StepDone
    <3>2. AboutBooks(todo[1])
      BY <1>1, <1>3 DEF AboutBooks
    <3> QED BY <1>1, <1>3, <3>1, <3>2, StepPair DEF Planned
  <2>2. /\ request'[s].todo = Tail(todo) /\ request'[s].key = request[s].key
    BY <1>1, StepType, GoesOn DEF Continues, IInv, Subscribe, engine
  <2>3. CASE k = "V"
    <3>1. request'[s].todo = QueryV
      BY <2>1, <2>2, <2>3, AskCases
    <3> QED BY <1>3, <2>2, <2>3, <3>1 DEF Attends, Waiting
  <2>4. CASE k = "A"
    <3>1. todo = SubscribeA
      BY <2>1, <2>4, AskCases
    <3>2. CASE request[s].type = "disable"
      BY <1>1, <1>3, <3>2 DEF Attends, Unseen
    <3>3. CASE request[s].type # "disable"
      BY <1>1, <1>3, <2>4, <3>1, <3>3 DEF Attends, Waiting
    <3> QED BY <3>2, <3>3
  <2> QED BY <2>3, <2>4 DEF BookKinds
<1> QED BY <1>2, <1>3

(* What begins is planned, and whoever begins it was idle.                 *)
LEMMA PeerPlans ==
    ASSUME IInv, NEW s \in Sessions, Peer(s)
    PROVE  /\ request[s].todo = << >> /\ Planned(request'[s].todo)
           /\ request'[s].todo = SubscribeA => request'[s].type = "disable"
           /\ \A t \in Sessions \ {s} : request'[t] = request[t]
           /\ UNCHANGED <<subscriptions, missed, reported>> /\ UNCHANGED <<engine, job>>
<1>1. /\ request[s].todo = << >>
      /\ UNCHANGED <<subscriptions, missed, reported>> /\ UNCHANGED <<engine, job>>
  BY DEF Peer, FromApp, Logon, OnLogout, subs, ghosts
<1>2. ASSUME NEW r, request' = [request EXCEPT ![s] = r], Planned(r.todo),
             r.todo = SubscribeA => r.type = "disable"
      PROVE  /\ Planned(request'[s].todo)
             /\ request'[s].todo = SubscribeA => request'[s].type = "disable"
             /\ \A t \in Sessions \ {s} : request'[t] = request[t]
  BY <1>2 DEF IInv, RequestsOK
<1>3. \A todo : [Idle EXCEPT !.todo = todo].todo = todo
  BY DEF Idle
<1>4. SubscribeA \in AskLists
  BY AskDistinct
<1>5. CASE FromApp(s)
  <2>1. ASSUME NEW k \in Kinds, NEW t \in Types, NEW i \in Insts,
               request' = [request EXCEPT ![s] =
                  [Idle EXCEPT !.todo = Subscribing(k, t), !.type = t,
                               !.key = Key(k, i)]]
        PROVE  /\ Planned(request'[s].todo)
               /\ request'[s].todo = SubscribeA => request'[s].type = "disable"
               /\ \A u \in Sessions \ {s} : request'[u] = request[u]
    <3> DEFINE r == [Idle EXCEPT !.todo = Subscribing(k, t), !.type = t, !.key = Key(k, i)]
    <3>1. r.todo = Subscribing(k, t) /\ r.type = t
      BY DEF Idle
    <3>2. Planned(Subscribing(k, t)) /\ (Subscribing(k, t) = SubscribeA => t = "disable")
      BY PlannedRequest
    <3>3. request' = [request EXCEPT ![s] = r]
      BY <2>1
    <3> HIDE DEF r
    <3>4. Planned(r.todo) /\ (r.todo = SubscribeA => r.type = "disable")
      BY <3>1, <3>2
    <3> QED BY <1>2, <3>3, <3>4
  <2>2. ASSUME NEW todo \in {Ordering, onOrderMassCancelRequest},
               request' = [request EXCEPT ![s] = [Idle EXCEPT !.todo = todo]]
        PROVE  /\ Planned(request'[s].todo)
               /\ request'[s].todo = SubscribeA => request'[s].type = "disable"
               /\ \A u \in Sessions \ {s} : request'[u] = request[u]
    <3> DEFINE r == [Idle EXCEPT !.todo = todo]
    <3>1. Planned(todo) /\ todo # SubscribeA /\ r.todo = todo
      BY <1>3, <1>4, PlannedOthers
    <3>2. request' = [request EXCEPT ![s] = r]
      BY <2>2
    <3> HIDE DEF r
    <3>3. Planned(r.todo) /\ r.todo # SubscribeA
      BY <3>1
    <3> QED BY <1>2, <3>2, <3>3
  <2> QED BY <1>1, <1>5, <2>1, <2>2 DEF FromApp
<1>6. CASE Logon(s)
  <2>1. PICK u \in Users : request' = [request EXCEPT ![s] =
                [Idle EXCEPT !.todo = <<<<"logon", "">>>>, !.user = u]]
    BY <1>6 DEF Logon
  <2> DEFINE todo == <<<<"logon", "">>>>
             r == [Idle EXCEPT !.todo = todo, !.user = u]
  <2>2. Planned(todo) /\ todo # SubscribeA
    BY <1>4, PlannedOthers
  <2> HIDE DEF todo
  <2>3. r.todo = todo
    BY DEF Idle
  <2>4. request' = [request EXCEPT ![s] = r]
    BY <2>1 DEF todo
  <2> HIDE DEF r
  <2>5. Planned(r.todo) /\ r.todo # SubscribeA
    BY <2>2, <2>3
  <2> QED BY <1>1, <1>2, <2>4, <2>5
<1>7. CASE OnLogout(s)
  <2> DEFINE r == [Idle EXCEPT !.todo = Logout]
  <2>1. request' = [request EXCEPT ![s] = r] /\ r.todo = Logout
    BY <1>3, <1>7 DEF OnLogout
  <2> HIDE DEF r
  <2>2. Planned(r.todo) /\ r.todo # SubscribeA
    BY <1>4, <2>1, PlannedOthers
  <2> QED BY <1>1, <1>2, <2>1, <2>2
<1> QED BY <1>5, <1>6, <1>7 DEF Peer

(* Steps of sessions, but those that end the process.                      *)
Lives(s) ==
    \/ Peer(s) \/ Lookup(s) \/ Place(s) \/ Reply(s) \/ Query(s) \/ Subscribe(s)
    \/ Unsubscribe(s) \/ FromAdmin(s) \/ Leave(s)

LEMMA StepOthers ==
    ASSUME IInv, NEW s \in Sessions,
           \/ Lookup(s) \/ Place(s) \/ Reply(s) \/ Query(s) \/ Subscribe(s)
           \/ Unsubscribe(s) \/ FromAdmin(s) \/ Leave(s)
    PROVE  /\ \A k, i : \A t \in Sessions \ {s} :
                <<k, i, t>> \in subscriptions' <=> <<k, i, t>> \in subscriptions
           /\ Subscribe(s) \/ subscriptions' \subseteq subscriptions
           /\ reported \subseteq reported' /\ missed \subseteq missed'
           /\ UNCHANGED <<engine, job>>
<1>1. CASE Subscribe(s)
  BY <1>1 DEF Subscribe
<1>2. CASE Unsubscribe(s)
  BY <1>2 DEF Unsubscribe, ghosts
<1>3. CASE Leave(s)
  BY <1>3 DEF Leave, UnsubscribeAll, ghosts
<1>4. CASE Query(s)
  BY <1>4 DEF Query, subs
<1>5. CASE Lookup(s) \/ Place(s) \/ Reply(s) \/ FromAdmin(s)
  BY <1>5 DEF Lookup, Place, Reply, FromAdmin, subs, ghosts
<1> QED BY <1>1, <1>2, <1>3, <1>4, <1>5

LEMMA SessionAttends ==
    ASSUME IInv, \A t \in Sessions : Planned(request[t].todo), NEW s \in Sessions, Lives(s)
    PROVE  /\ \A t \in Sessions : Planned(request[t].todo)'
           /\ \A k \in BookKinds : \A i : \A t \in Sessions : Attends(k, i, t)
           /\ reported \subseteq reported' /\ missed \subseteq missed'
           /\ UNCHANGED <<engine, job>>
<1>1. CASE Peer(s)
  <2>1. \A t \in Sessions : Planned(request[t].todo)'
    BY <1>1, PeerPlans
  <2>2. ASSUME NEW k \in BookKinds, NEW i, NEW t \in Sessions
        PROVE  Attends(k, i, t)
    <3>1. CASE t # s
      BY <1>1, <3>1, PeerPlans, AttendsElsewhere
    <3>2. CASE t = s
      <4>1. request[s].todo \notin AskLists
        BY <1>1, PeerPlans, AskCases
      <4> QED BY <1>1, <3>2, <4>1, PeerPlans, AttendsAside
    <3> QED BY <3>1, <3>2
  <2> QED BY <1>1, <2>1, <2>2, PeerPlans
<1>2. CASE ~Peer(s)
  <2>1. \/ Lookup(s) \/ Place(s) \/ Reply(s) \/ Query(s) \/ Subscribe(s)
        \/ Unsubscribe(s) \/ FromAdmin(s) \/ Leave(s)
    BY <1>2 DEF Lives
  <2>2. \A t \in Sessions : Planned(request[t].todo)'
    <3>1. Planned(request'[s].todo)
      BY <2>1, StepDone, PlannedTail, PlannedNothing
    <3> QED BY <2>1, <3>1, StepDone
  <2>3. ASSUME NEW k \in BookKinds, NEW i, NEW t \in Sessions
        PROVE  Attends(k, i, t)
    <3>1. CASE t # s
      BY <2>1, <3>1, StepDone, StepOthers, AttendsElsewhere
    <3>2. CASE t = s /\ Query(s)
      BY <3>2, AttendsQuery
    <3>3. CASE t = s /\ Subscribe(s)
      BY <3>3, AttendsSubscribe
    <3>4. CASE t = s /\ ~Query(s) /\ ~Subscribe(s)
      <4>1. request[s].todo[1][1] \notin {"query", "subscribe"}
        BY <2>1, <3>4 DEF Lookup, Place, Reply, Unsubscribe, FromAdmin, Leave, At
      <4>2. ~AboutBooks(request[s].todo[1])
        BY <4>1 DEF AboutBooks
      <4>3. subscriptions' \subseteq subscriptions
        BY <2>1, <3>4, StepOthers
      <4> QED BY <2>1, <3>4, <4>2, <4>3, AttendsBeside
    <3> QED BY <3>1, <3>2, <3>3, <3>4
  <2> QED BY <2>1, <2>2, <2>3, StepOthers
<1> QED BY <1>1, <1>2

(* The goroutine that reports m, and the part of its work that is left.    *)
Reports(j, k, i) ==
    /\ j[1] = IF k = "A" THEN "saved" ELSE "trade"
    /\ msg[j[2]].kind = "order" /\ Instrument(j[2]) = i

Has(todo, what, k) == \E n \in DOMAIN todo : todo[n] = <<what, k>>

(* Each reads the book of one kind, then ranges over its subscribers.      *)
Ordered(j, todo) ==
    \A n \in DOMAIN todo :
        /\ todo[n][1] = "query" => todo[n][2] = IF j[1] = "saved" THEN "A" ELSE "V"
        /\ \A k \in BookKinds :
            /\ todo[n] = <<"query", k>> =>
                n + 1 \in DOMAIN todo /\ todo[n + 1] = <<"range", k>>
            /\ todo[n] \in {<<"range", k>>, <<"visit", k>>} =>
                \A p \in DOMAIN todo : p > n => todo[p] # <<"query", k>>
            /\ todo[n][1] = "count" =>
                \A p \in DOMAIN todo : p > n => todo[p] # <<"range", k>>

(* The book has been read, with the change it is read for; then who waits  *)
(* for reports has been told, or is in the map and will be visited.        *)
ToVisit(j, r, k, i, s) ==
    /\ r.todo # << >> /\ r.todo[1] = <<"visit", k>> /\ j[2] <= r.seen
    /\ <<k, i, s>> \in subscriptions /\ s \in r.due \ r.visited

Due(j, r, k, i, s) ==
    \/ Has(r.todo, "query", k)
    \/ Has(r.todo, "range", k) /\ j[2] <= r.seen
    \/ /\ ~Has(r.todo, "range", k) /\ j[2] <= saved
       /\ Waiting(k, i, s) => Told(k, i, s, j[2]) \/ ToVisit(j, r, k, i, s)

Settled(j, r, k, i, s) ==
    Reports(j, k, i) => <<<<k, i, s>>, j[2]>> \in missed \/ Due(j, r, k, i, s)

JobsSettle ==
    /\ DOMAIN job \subseteq Arrived
    /\ \A j \in DOMAIN job : Ordered(j, job[j].todo)
    /\ \A j \in DOMAIN job : \A k \in BookKinds : \A i \in Insts : \A s \in Sessions :
            Settled(j, job[j], k, i, s)

Reported == (\A s \in Sessions : Planned(request[s].todo)) /\ JobsSettle

(* Nothing that was said is taken back.                                    *)
Grows ==
    /\ saved \in Nat /\ saved' \in Nat /\ saved <= saved'
    /\ \A m \in DOMAIN msg : m \in DOMAIN msg' /\ msg'[m] = msg[m]
    /\ reported \subseteq reported' /\ missed \subseteq missed'

LEMMA ToldStays ==
    ASSUME reported \subseteq reported', NEW k, NEW i, NEW s, NEW m, Told(k, i, s, m)
    PROVE  Told(k, i, s, m)'
BY DEF Told

LEMMA ReportsSame ==
    ASSUME Grows, NEW j, j[2] \in DOMAIN msg, NEW k, NEW i
    PROVE  Reports(j, k, i)' <=> Reports(j, k, i)
BY DEF Grows, Reports, Instrument

LEMMA WaitingSame ==
    ASSUME UNCHANGED <<request, subscriptions>>, NEW k, NEW i, NEW s
    PROVE  Waiting(k, i, s)' <=> Waiting(k, i, s)
BY DEF Waiting

(* What others do leaves a goroutine's work as settled as it was.          *)
LEMMA SettledStays ==
    ASSUME Grows, NEW j, j[2] \in DOMAIN msg, j[2] \in Nat, NEW r, NEW k, NEW i, NEW s,
           Settled(j, r, k, i, s), Attends(k, i, s)
    PROVE  Settled(j, r, k, i, s)'
<1> SUFFICES ASSUME Reports(j, k, i), <<<<k, i, s>>, j[2]>> \notin missed'
             PROVE  Due(j, r, k, i, s)'
  BY ReportsSame DEF Settled
<1>1. Due(j, r, k, i, s)
  BY DEF Settled, Grows
<1>2. CASE Has(r.todo, "query", k)
  BY <1>2 DEF Due, Has
<1>3. CASE Has(r.todo, "range", k) /\ j[2] <= r.seen
  BY <1>3 DEF Due, Has
<1>4. CASE /\ ~Has(r.todo, "range", k) /\ j[2] <= saved
           /\ Waiting(k, i, s) => Told(k, i, s, j[2]) \/ ToVisit(j, r, k, i, s)
  <2>1. PICK m : m = j[2]
    OBVIOUS
  <2>2. m <= saved' /\ m <= saved
    BY <1>4, <2>1 DEF Grows
  <2>3. m \in OrderSaved /\ Instrument(m) = i
    BY <2>1, <2>2 DEF Reports, OrderSaved
  <2>4. ASSUME Waiting(k, i, s)' PROVE Told(k, i, s, m)' \/ ToVisit(j, r, k, i, s)'
    <3>1. CASE \A n \in OrderSaved : Instrument(n) = i =>
                    <<<<k, i, s>>, n>> \in missed' \/ Told(k, i, s, n)'
      BY <2>1, <2>3, <3>1
    <3>2. CASE /\ Waiting(k, i, s)
               /\ <<k, i, s>> \in subscriptions => <<k, i, s>> \in subscriptions'
      <4>1. CASE Told(k, i, s, m)
        BY <4>1, ToldStays DEF Grows
      <4>2. CASE ToVisit(j, r, k, i, s)
        BY <3>2, <4>2 DEF ToVisit
      <4> QED BY <1>4, <2>1, <3>2, <4>1, <4>2
    <3> QED BY <2>4, <3>1, <3>2 DEF Attends
  <2>5. ~Has(r.todo, "range", k)'
    BY <1>4 DEF Has
  <2> QED BY <2>1, <2>2, <2>4, <2>5 DEF Due
<1> QED BY <1>1, <1>2, <1>3, <1>4 DEF Due

LEMMA OthersSettle ==
    ASSUME IInv, JobsSettle, Grows, NEW j \in DOMAIN job, j \in DOMAIN job',
           job'[j] = job[j],
           \A k \in BookKinds : \A i : \A s \in Sessions : Attends(k, i, s)
    PROVE  /\ (j \in Arrived)' /\ Ordered(j, job'[j].todo)
           /\ \A k \in BookKinds : \A i \in Insts : \A s \in Sessions :
                Settled(j, job[j], k, i, s)'
<1>1. j \in Jobs /\ j \in Arrived /\ j[2] \in DOMAIN msg /\ j[2] \in Nat
  <2>1. j \in Arrived
    BY DEF JobsSettle
  <2> QED BY <2>1, MessageType DEF Arrived, Answered, OrderSaved, IInv
<1>2. j[2] \in DOMAIN msg' /\ msg'[j[2]] = msg[j[2]] /\ saved <= saved'
  BY <1>1 DEF Grows
<1>3. j \in Arrived'
  BY <1>1, <1>2 DEF Arrived, Answered, OrderSaved, Grows
<1>4. ASSUME NEW k \in BookKinds, NEW i \in Insts, NEW s \in Sessions
      PROVE  Settled(j, job[j], k, i, s)'
  <2>1. PICK r : r = job[j]
    OBVIOUS
  <2>2. Settled(j, r, k, i, s)
    BY <2>1 DEF JobsSettle
  <2>3. Attends(k, i, s)
    OBVIOUS
  <2>4. Settled(j, r, k, i, s)'
    BY <1>1, <2>2, <2>3, SettledStays
  <2> QED BY <2>1, <2>4 DEF Settled, Due, ToVisit
<1> QED BY <1>3, <1>4 DEF JobsSettle

LEMMA ConcatItems ==
    ASSUME NEW S, NEW a \in Seq(S), NEW b \in Seq(S)
    PROVE  /\ Len(a \o b) = Len(a) + Len(b) /\ DOMAIN (a \o b) = 1 .. Len(a) + Len(b)
           /\ \A n \in 1 .. Len(a) : (a \o b)[n] = a[n]
           /\ \A n \in 1 .. Len(b) : (a \o b)[Len(a) + n] = b[n]
BY SMT

(* The list a goroutine starts with.                                       *)
LEMMA TodoOrdered ==
    ASSUME EngineOK, NEW j \in Arrived
    PROVE  /\ Ordered(j, Todo(j))
           /\ \A k \in BookKinds : \A i : Reports(j, k, i) => Has(Todo(j), "query", k)
<1>1. j \in Jobs /\ j[2] \in DOMAIN msg
  BY DEF Arrived, Answered, OrderSaved
<1>2. Todo(j) \in Seq(FirstSteps) /\ msg[j[2]].makers \in Seq(Users)
  BY <1>1, JobTodo, MessageType
<1>3. CASE j[1] \in {"taker", "maker"}
  <2>1. \A n \in DOMAIN Todo(j) : Todo(j)[n][1] = "confirm"
    <3>1. CASE j[1] = "taker"
      <4> DEFINE x == <<"confirm", msg[j[2]].taker>>
      <4>1. Todo(j) = <<x>> /\ x[1] = "confirm"
        BY <3>1 DEF Todo, OrderConfirmation
      <4> HIDE DEF x
      <4> QED BY <4>1
    <3>2. CASE j[1] = "maker"
      <4>1. Todo(j) = [n \in DOMAIN msg[j[2]].makers |-> <<"confirm", msg[j[2]].makers[n]>>]
        BY <3>2 DEF Todo, MakerConfirmation
      <4> QED BY <4>1
    <3> QED BY <1>3, <3>1, <3>2
  <2>2. \A k \in BookKinds : \A i : ~Reports(j, k, i)
    BY <1>3 DEF Reports
  <2>3. \A n \in DOMAIN Todo(j) : \A k :
            /\ Todo(j)[n] \notin {<<"query", k>>, <<"range", k>>, <<"visit", k>>}
            /\ Todo(j)[n][1] \notin {"query", "count"}
    BY <2>1
  <2> QED BY <2>2, <2>3 DEF Ordered
<1>4. CASE j[1] = "saved"
  <2> DEFINE q == <<"query", "A">>
             r == <<"range", "A">>
             c == <<"count", "X">>
             x == <<"range", "X">>
  <2>1. /\ q[1] = "query" /\ q[2] = "A" /\ r[1] = "range" /\ c[1] = "count" /\ x[1] = "range"
        /\ \A k \in BookKinds :
            /\ k # "A" => q # <<"query", k>>
            /\ r # <<"query", k>> /\ c # <<"query", k>> /\ x # <<"query", k>>
            /\ q # <<"range", k>> /\ c # <<"range", k>> /\ x # <<"range", k>>
            /\ q # <<"visit", k>> /\ r # <<"visit", k>> /\ c # <<"visit", k>>
            /\ x # <<"visit", k>>
    BY DEF BookKinds
  <2>2. /\ Todo(j) = <<q, r, c, x>> /\ q = <<"query", "A">> /\ r = <<"range", "A">>
    BY <1>4 DEF Todo, OnEngineSavedReceived
  <2> HIDE DEF q, r, c, x
  <2>3. PICK todo : todo = Todo(j)
    OBVIOUS
  <2>4. /\ DOMAIN todo = 1 .. 4 /\ todo[1] = q /\ todo[2] = r /\ todo[3] = c /\ todo[4] = x
    BY <2>2, <2>3
  <2>5. Ordered(j, todo)
    <3> SUFFICES ASSUME NEW n \in 1 .. 4
                 PROVE /\ todo[n][1] = "query" => todo[n][2] = "A"
                       /\ \A k \in BookKinds :
                            /\ todo[n] = <<"query", k>> =>
                                n + 1 \in 1 .. 4 /\ todo[n + 1] = <<"range", k>>
                            /\ todo[n] \in {<<"range", k>>, <<"visit", k>>} =>
                                \A p \in 1 .. 4 : p > n => todo[p] # <<"query", k>>
                            /\ todo[n][1] = "count" =>
                                \A p \in 1 .. 4 : p > n => todo[p] # <<"range", k>>
      BY <1>4, <2>4 DEF Ordered
    <3>1. \A k \in BookKinds : \A p \in 1 .. 4 : p > 1 => todo[p] # <<"query", k>>
      BY <2>1, <2>4
    <3>2. \A k \in BookKinds : \A p \in 1 .. 4 : p > 2 => todo[p] # <<"range", k>>
      BY <2>1, <2>4
    <3>3. CASE n = 1
      BY <2>1, <2>2, <2>4, <3>3
    <3>4. CASE n = 2
      BY <2>1, <2>4, <3>1, <3>4
    <3>5. CASE n = 3
      BY <2>1, <2>4, <3>1, <3>2, <3>5
    <3>6. CASE n = 4
      BY <2>1, <2>4, <3>1, <3>6
    <3> QED BY <3>3, <3>4, <3>5, <3>6
  <2>6. Has(todo, "query", "A")
    BY <2>2, <2>4 DEF Has
  <2>7. \A k \in BookKinds : \A i : Reports(j, k, i) => k = "A"
    BY <1>4 DEF Reports
  <2> QED BY <2>3, <2>5, <2>6, <2>7
<1>5. CASE j[1] = "trade"
  <2> DEFINE a == <<"range", "AD">>
             q == <<"query", "V">>
             r == <<"range", "V">>
             reports == [n \in DOMAIN msg[j[2]].makers |-> <<"range", "AD">>]
  <2>1. /\ q[1] = "query" /\ q[2] = "V" /\ r[1] = "range" /\ a[1] = "range"
        /\ \A k \in BookKinds :
            /\ k # "V" => q # <<"query", k>>
            /\ r # <<"query", k>> /\ a # <<"query", k>>
            /\ q # <<"range", k>> /\ a # <<"range", k>>
            /\ q # <<"visit", k>> /\ r # <<"visit", k>> /\ a # <<"visit", k>>
    BY DEF BookKinds
  <2>2. /\ Todo(j) = reports \o <<q, r>> /\ q = <<"query", "V">> /\ r = <<"range", "V">>
        /\ \A n \in DOMAIN reports : reports[n] = a
    BY <1>5 DEF Todo, OnTradeHappens
  <2>3. reports \in Seq({a})
    BY <1>2, MapOfSeq
  <2> HIDE DEF q, r, a, reports
  <2>4. PICK todo : todo = Todo(j)
    OBVIOUS
  <2>5. PICK len : len = Len(reports) /\ len \in Nat
    BY <2>3
  <2>6. /\ DOMAIN todo = 1 .. len + 2
        /\ \A n \in 1 .. len : todo[n] = a
        /\ todo[len + 1] = q /\ todo[len + 2] = r
    <3>1. <<q, r>> \in Seq({q, r}) /\ Len(<<q, r>>) = 2 /\ <<q, r>>[1] = q /\ <<q, r>>[2] = r
      OBVIOUS
    <3>2. reports \in Seq({a, q, r}) /\ <<q, r>> \in Seq({a, q, r})
      BY <2>3
    <3>3. DOMAIN reports = 1 .. len
      BY <2>3, <2>5
    <3>4. PICK pair : pair = <<q, r>>
      OBVIOUS
    <3>5. PICK front : front = reports
      OBVIOUS
    <3>6. PICK S : S = {a, q, r}
      OBVIOUS
    <3>7. /\ pair \in Seq(S) /\ Len(pair) = 2 /\ pair[1] = q /\ pair[2] = r
          /\ front \in Seq(S) /\ Len(front) = len /\ todo = front \o pair
          /\ \A n \in 1 .. len : front[n] = a
      BY <2>2, <2>4, <2>5, <3>1, <3>2, <3>3, <3>4, <3>5, <3>6
    <3>8. /\ DOMAIN todo = 1 .. Len(front) + Len(pair)
          /\ \A n \in 1 .. Len(front) : todo[n] = front[n]
          /\ \A n \in 1 .. Len(pair) : todo[Len(front) + n] = pair[n]
      <4>1. front \in Seq(S) /\ pair \in Seq(S) /\ todo = front \o pair
        BY <3>7
      <4>2. /\ DOMAIN (front \o pair) = 1 .. Len(front) + Len(pair)
            /\ \A n \in 1 .. Len(front) : (front \o pair)[n] = front[n]
            /\ \A n \in 1 .. Len(pair) : (front \o pair)[Len(front) + n] = pair[n]
        BY <4>1, ConcatItems
      <4> QED BY <4>1, <4>2, Zenon
    <3>9. 1 \in 1 .. Len(pair) /\ 2 \in 1 .. Len(pair)
      BY <3>7
    <3> QED BY <2>5, <3>7, <3>8, <3>9
  <2>7. Ordered(j, todo)
    <3> SUFFICES ASSUME NEW n \in 1 .. len + 2
                 PROVE /\ todo[n][1] = "query" => todo[n][2] = "V"
                       /\ \A k \in BookKinds :
                            /\ todo[n] = <<"query", k>> =>
                                n + 1 \in 1 .. len + 2 /\ todo[n + 1] = <<"range", k>>
                            /\ todo[n] \in {<<"range", k>>, <<"visit", k>>} =>
                                \A p \in 1 .. len + 2 : p > n => todo[p] # <<"query", k>>
                            /\ todo[n][1] = "count" =>
                                \A p \in 1 .. len + 2 : p > n => todo[p] # <<"range", k>>
      BY <1>5, <2>6 DEF Ordered
    <3>1. CASE n \in 1 .. len
      BY <2>1, <2>6, <3>1
    <3>2. CASE n = len + 1
      <4>1. todo[n] = q /\ n + 1 \in 1 .. len + 2 /\ todo[n + 1] = r
        <5>1. n + 1 = len + 2
          BY <2>5, <3>2
        <5> QED BY <2>5, <2>6, <3>2, <5>1
      <4> QED BY <2>1, <2>2, <4>1
    <3>3. CASE n = len + 2
      <4>1. todo[n] = r /\ \A p \in 1 .. len + 2 : ~(p > n)
        BY <2>5, <2>6, <3>3
      <4> QED BY <2>1, <4>1
    <3> QED BY <2>5, <3>1, <3>2, <3>3
  <2>8. Has(todo, "query", "V")
    <3>1. len + 1 \in DOMAIN todo
      BY <2>5, <2>6
    <3> QED BY <2>2, <2>6, <3>1 DEF Has
  <2>9. \A k \in BookKinds : \A i : Reports(j, k, i) => k = "V"
    BY <1>5 DEF Reports, BookKinds
  <2> QED BY <2>4, <2>7, <2>8, <2>9
<1> QED BY <1>1, <1>3, <1>4, <1>5 DEF Jobs

(* How a goroutine's list shrinks.                                         *)
LEMMA OrderedTail ==
    ASSUME NEW j, NEW todo \in Seq(JobSteps), todo # << >>, Ordered(j, todo)
    PROVE  /\ Ordered(j, Tail(todo))
           /\ \A what, k : todo[1] # <<what, k>> =>
                (Has(Tail(todo), what, k) <=> Has(todo, what, k))
           /\ \A what, k : Has(Tail(todo), what, k) => Has(todo, what, k)
<1> DEFINE rest == Tail(todo)
<1>1. \A n \in DOMAIN rest : /\ n \in Nat \ {0} /\ n + 1 \in DOMAIN todo
                             /\ rest[n] = todo[n + 1]
  BY TailOfSeq
<1>2. \A n \in DOMAIN todo : n # 1 => n - 1 \in DOMAIN rest /\ rest[n - 1] = todo[n]
  OBVIOUS
<1>3. \A n \in DOMAIN todo : n \in Nat \ {0}
  OBVIOUS
<1> HIDE DEF rest
<1>4. ASSUME NEW n \in DOMAIN rest
      PROVE  /\ rest[n][1] = "query" => rest[n][2] = IF j[1] = "saved" THEN "A" ELSE "V"
             /\ \A k \in BookKinds :
                /\ rest[n] = <<"query", k>> =>
                    n + 1 \in DOMAIN rest /\ rest[n + 1] = <<"range", k>>
                /\ rest[n] \in {<<"range", k>>, <<"visit", k>>} =>
                    \A p \in DOMAIN rest : p > n => rest[p] # <<"query", k>>
                /\ rest[n][1] = "count" =>
                    \A p \in DOMAIN rest : p > n => rest[p] # <<"range", k>>
  <2>1. n \in Nat \ {0} /\ n + 1 \in DOMAIN todo /\ rest[n] = todo[n + 1]
    BY <1>1
  <2>2. \A p \in DOMAIN rest : p > n => /\ p + 1 > n + 1 /\ p + 1 \in DOMAIN todo
                                        /\ rest[p] = todo[p + 1]
    BY <1>1, <2>1
  <2>3. n + 1 + 1 \in DOMAIN todo => n + 1 \in DOMAIN rest /\ rest[n + 1] = todo[n + 1 + 1]
    BY <1>2, <2>1
  <2>4. PICK a : a = n + 1
    OBVIOUS
  <2>5. /\ todo[a][1] = "query" => todo[a][2] = IF j[1] = "saved" THEN "A" ELSE "V"
        /\ \A k \in BookKinds :
            /\ todo[a] = <<"query", k>> =>
                a + 1 \in DOMAIN todo /\ todo[a + 1] = <<"range", k>>
            /\ todo[a] \in {<<"range", k>>, <<"visit", k>>} =>
                \A p \in DOMAIN todo : p > a => todo[p] # <<"query", k>>
            /\ todo[a][1] = "count" =>
                \A p \in DOMAIN todo : p > a => todo[p] # <<"range", k>>
    BY <2>1, <2>4 DEF Ordered
  <2> QED BY <2>1, <2>2, <2>3, <2>4, <2>5
<1>5. Ordered(j, rest)
  BY <1>4 DEF Ordered
<1>6. \A what, k : Has(rest, what, k) => Has(todo, what, k)
  BY <1>1 DEF Has
<1>7. \A what, k : todo[1] # <<what, k>> => (Has(todo, what, k) => Has(rest, what, k))
  BY <1>2 DEF Has
<1> QED BY <1>5, <1>6, <1>7 DEF rest

LEMMA OrderedNothing == \A j : Ordered(j, << >>)
BY DEF Ordered

(* A list whose first step is another one.                                 *)
LEMMA FirstReplaced ==
    ASSUME NEW todo \in Seq(JobSteps), todo # << >>,
           NEW x \in JobSteps, NEW list, list = <<x>> \o Tail(todo)
    PROVE  /\ DOMAIN list = DOMAIN todo /\ list[1] = x /\ 1 \in DOMAIN todo
           /\ \A n \in DOMAIN todo : n \in Nat \ {0} /\ (n # 1 => list[n] = todo[n])
<1> DEFINE rest == Tail(todo)
<1>1. /\ rest \in Seq(JobSteps) /\ Len(rest) = Len(todo) - 1 /\ Len(todo) \in Nat \ {0}
      /\ \A n \in 1 .. Len(rest) : rest[n] = todo[n + 1]
  BY TailOfSeq
<1>2. <<x>> \in Seq(JobSteps) /\ Len(<<x>>) = 1 /\ <<x>>[1] = x
  OBVIOUS
<1> HIDE DEF rest
<1>3. /\ <<x>> \o rest \in Seq(JobSteps) /\ Len(<<x>> \o rest) = Len(todo)
      /\ (<<x>> \o rest)[1] = x
      /\ \A n \in 1 .. Len(todo) : n # 1 => (<<x>> \o rest)[n] = rest[n - 1]
  BY <1>1, <1>2
<1>4. list = <<x>> \o rest
  BY DEF rest
<1>5. ASSUME NEW n \in 1 .. Len(todo), n # 1 PROVE list[n] = todo[n]
  <2>1. list[n] = rest[n - 1]
    BY <1>3, <1>4, <1>5
  <2>2. n - 1 \in 1 .. Len(rest) /\ n - 1 + 1 = n
    BY <1>1, <1>5
  <2> QED BY <1>1, <2>1, <2>2
<1> QED BY <1>1, <1>3, <1>4, <1>5

(* Ranging over the subscribers becomes visiting them.                     *)
LEMMA OrderedVisit ==
    ASSUME NEW j, NEW todo, 1 \in DOMAIN todo, Ordered(j, todo),
           NEW kind, todo[1] = <<"range", kind>>, NEW list, list[1] = <<"visit", kind>>,
           DOMAIN list = DOMAIN todo,
           \A n \in DOMAIN todo : n \in Nat \ {0} /\ (n # 1 => list[n] = todo[n])
    PROVE  /\ Ordered(j, list)
           /\ \A k : Has(list, "query", k) <=> Has(todo, "query", k)
           /\ \A k : Has(todo, "range", k) => k = kind \/ Has(list, "range", k)
           /\ \A k : Has(list, "range", k) => Has(todo, "range", k)
<1> DEFINE x == <<"visit", kind>>
<1>1. /\ x[1] = "visit" /\ list[1] = x
      /\ \A k : x # <<"query", k>> /\ x # <<"range", k>>
      /\ \A k : x = <<"visit", k>> => k = kind
  OBVIOUS
<1> HIDE DEF x
<1>3. /\ DOMAIN list = DOMAIN todo /\ list[1] = x /\ 1 \in DOMAIN todo
      /\ \A n \in DOMAIN todo : n \in Nat \ {0} /\ (n # 1 => list[n] = todo[n])
  BY <1>1
<1>4. ASSUME NEW y, y # x, NEW n \in DOMAIN list, list[n] = y
      PROVE  n \in DOMAIN todo /\ todo[n] = y
  BY <1>3, <1>4
<1>5. ASSUME NEW y, y # todo[1], NEW n \in DOMAIN todo, todo[n] = y
      PROVE  n \in DOMAIN list /\ list[n] = y
  BY <1>3, <1>5
<1>6. /\ \A k : Has(list, "query", k) <=> Has(todo, "query", k)
      /\ \A k : Has(list, "range", k) => Has(todo, "range", k)
      /\ \A k : Has(todo, "range", k) => k = kind \/ Has(list, "range", k)
  <2>1. \A k : /\ <<"query", k>> # x /\ <<"range", k>> # x
               /\ <<"query", k>> # todo[1]
               /\ k # kind => <<"range", k>> # todo[1]
    BY <1>1
  <2> SUFFICES ASSUME NEW k
               PROVE  /\ Has(list, "query", k) <=> Has(todo, "query", k)
                      /\ Has(list, "range", k) => Has(todo, "range", k)
                      /\ k # kind => (Has(todo, "range", k) => Has(list, "range", k))
    OBVIOUS
  <2>2. PICK q, r : q = <<"query", k>> /\ r = <<"range", k>>
    OBVIOUS
  <2> QED BY <1>4, <1>5, <2>1, <2>2 DEF Has
<1>7. ASSUME NEW n \in DOMAIN list
      PROVE  /\ list[n][1] = "query" => list[n][2] = IF j[1] = "saved" THEN "A" ELSE "V"
             /\ \A k \in BookKinds :
                /\ list[n] = <<"query", k>> =>
                    n + 1 \in DOMAIN list /\ list[n + 1] = <<"range", k>>
                /\ list[n] \in {<<"range", k>>, <<"visit", k>>} =>
                    \A p \in DOMAIN list : p > n => list[p] # <<"query", k>>
                /\ list[n][1] = "count" =>
                    \A p \in DOMAIN list : p > n => list[p] # <<"range", k>>
  <2>1. /\ todo[n][1] = "query" => todo[n][2] = IF j[1] = "saved" THEN "A" ELSE "V"
        /\ \A k \in BookKinds :
            /\ todo[n] = <<"query", k>> =>
                n + 1 \in DOMAIN todo /\ todo[n + 1] = <<"range", k>>
            /\ todo[n] \in {<<"range", k>>, <<"visit", k>>} =>
                \A p \in DOMAIN todo : p > n => todo[p] # <<"query", k>>
            /\ todo[n][1] = "count" =>
                \A p \in DOMAIN todo : p > n => todo[p] # <<"range", k>>
    BY <1>3 DEF Ordered
  <2>2. n \in Nat \ {0} /\ n + 1 # 1 /\ \A p \in DOMAIN list : p > n => p # 1
    BY <1>3
  <2>3. CASE n # 1
    BY <1>3, <2>1, <2>2, <2>3
  <2>4. CASE n = 1
    <3>1. \A k : todo[n] = <<"range", k>> <=> k = kind
      BY <2>4
    <3>2. \A p \in DOMAIN list : p > n => list[p] = todo[p]
      BY <1>3, <2>2
    <3>3. kind \in BookKinds => \A p \in DOMAIN list : p > n => list[p] # <<"query", kind>>
      BY <1>3, <2>1, <3>1, <3>2
    <3> QED BY <1>1, <1>3, <2>4, <3>3
  <2> QED BY <2>3, <2>4
<1>8. Ordered(j, list)
  BY <1>7 DEF Ordered
<1> QED BY <1>6, <1>8

LEMMA NowSettled ==
    ASSUME IInv, JobsSettle, NEW j \in Arrived, NEW old, old = Now(j)
    PROVE  /\ old \in Job /\ old.todo \in Seq(JobSteps) /\ Ordered(j, old.todo)
           /\ j[2] \in DOMAIN msg /\ j[2] \in Nat
           /\ \A k \in BookKinds : \A i \in Insts : \A s \in Sessions : Settled(j, old, k, i, s)
<1>1. old \in Job /\ old.todo \in Seq(JobSteps)
  <2>1. old \in Job
    BY NowType
  <2> QED BY <2>1 DEF Job
<1>2. j[2] \in DOMAIN msg /\ j[2] \in Nat
  BY MessageType DEF IInv, Arrived, Answered, OrderSaved
<1>3. CASE j \in DOMAIN job
  <2>1. old = job[j]
    BY <1>3 DEF Now
  <2> QED BY <1>1, <1>2, <1>3, <2>1 DEF JobsSettle
<1>4. CASE j \notin DOMAIN job
  <2>1. old.todo = Todo(j)
    <3>1. old = [NoJob EXCEPT !.todo = Todo(j)]
      BY <1>4 DEF Now
    <3> QED BY <3>1 DEF NoJob
  <2>2. /\ Ordered(j, old.todo)
        /\ \A k \in BookKinds : \A i : Reports(j, k, i) => Has(old.todo, "query", k)
    BY <2>1, TodoOrdered DEF IInv
  <2> QED BY <1>1, <1>2, <2>2 DEF Settled, Due
<1> QED BY <1>3, <1>4

(* What a consumer leaves alone.                                           *)
LEMMA ConsumeFrame ==
    ASSUME IInv, NEW j \in Jobs, Consume(j)
    PROVE  /\ j \in Arrived /\ Now(j).todo # << >>
           /\ UNCHANGED <<request, subscriptions>> /\ UNCHANGED engine /\ Grows
           /\ DOMAIN job' = DOMAIN job \cup {j}
           /\ \A i \in DOMAIN job \ {j} : job'[i] = job[i]
           /\ \A k \in BookKinds : \A i : \A s \in Sessions : Attends(k, i, s)
<1>1. /\ j \in Arrived /\ Now(j).todo # << >>
      /\ UNCHANGED <<request, subscriptions>> /\ UNCHANGED <<msg, saved, book, open>>
      /\ \E new : Becomes(j, new)
  BY DEF Consume, Confirm, ReadBook, CountOrders, RangeOver, Visit, RangeEnds, Next1, engine, subs
<1>2. reported \subseteq reported'
  BY DEF Consume, Confirm, ReadBook, CountOrders, RangeOver, Visit, RangeEnds, ghosts
<1>3. missed \subseteq missed'
  BY DEF Consume, Confirm, ReadBook, CountOrders, RangeOver, Visit, RangeEnds, ghosts
<1>4. /\ DOMAIN job' = DOMAIN job \cup {j}
      /\ \A i \in DOMAIN job \ {j} : job'[i] = job[i]
  BY <1>1 DEF Becomes
<1>5. Grows
  BY <1>1, <1>2, <1>3 DEF Grows, IInv, EngineOK
<1>6. ASSUME NEW k \in BookKinds, NEW i, NEW s \in Sessions PROVE Attends(k, i, s)
  BY <1>1, AttendsElsewhere
<1> QED BY <1>1, <1>4, <1>5, <1>6 DEF engine

LEMMA NewSettled ==
    ASSUME NEW j, NEW new, new = job'[j], NEW k, NEW i, NEW s, Settled(j, new, k, i, s)'
    PROVE  Settled(j, job[j], k, i, s)'
BY DEF Settled, Due, ToVisit

(* A step that is not about k.                                             *)
LEMMA SettledBeside ==
    ASSUME UNCHANGED <<request, subscriptions>>, UNCHANGED engine, Grows,
           NEW j, j[2] \in DOMAIN msg, NEW old, NEW new, NEW k, NEW i, NEW s,
           Settled(j, old, k, i, s), ~ToVisit(j, old, k, i, s), new.seen = old.seen,
           Has(new.todo, "query", k) <=> Has(old.todo, "query", k),
           Has(new.todo, "range", k) <=> Has(old.todo, "range", k)
    PROVE  Settled(j, new, k, i, s)'
<1> SUFFICES ASSUME Reports(j, k, i), <<<<k, i, s>>, j[2]>> \notin missed'
             PROVE  Due(j, new, k, i, s)'
  BY ReportsSame DEF Settled
<1>1. Due(j, old, k, i, s)
  BY DEF Settled, Grows
<1>2. saved' = saved
  BY DEF engine
<1>3. PICK m : m = j[2]
  OBVIOUS
<1>4. Has(new.todo, "query", k)' <=> Has(old.todo, "query", k)
  BY DEF Has
<1>5. Has(new.todo, "range", k)' <=> Has(old.todo, "range", k)
  BY DEF Has
<1>6. ASSUME Waiting(k, i, s) => Told(k, i, s, j[2])
      PROVE  Waiting(k, i, s)' => Told(k, i, s, j[2])'
  <2>1. Told(k, i, s, m) => Told(k, i, s, m)'
    BY ToldStays DEF Grows
  <2> QED BY <1>3, <1>6, <2>1, WaitingSame
<1> QED BY <1>1, <1>2, <1>4, <1>5, <1>6 DEF Due

(* The list has lost its first step, or all.                               *)
LEMMA TailSettles ==
    ASSUME UNCHANGED <<request, subscriptions>>, UNCHANGED engine, Grows,
           NEW j, j[2] \in DOMAIN msg, NEW old, NEW new, NEW k, NEW i, NEW s,
           old.todo \in Seq(JobSteps), old.todo # << >>, Ordered(j, old.todo),
           Settled(j, old, k, i, s), new.seen = old.seen,
           \A what \in {"query", "range", "visit"} : old.todo[1] # <<what, k>>,
           new.todo = Tail(old.todo)
    PROVE  Settled(j, new, k, i, s)'
<1>1. ~ToVisit(j, old, k, i, s)
  BY DEF ToVisit
<1>2. \A what, l : old.todo[1] # <<what, l>> =>
                (Has(Tail(old.todo), what, l) <=> Has(old.todo, what, l))
  BY OrderedTail
<1>3. /\ Has(new.todo, "query", k) <=> Has(old.todo, "query", k)
      /\ Has(new.todo, "range", k) <=> Has(old.todo, "range", k)
  <2>1. "query" \in {"query", "range", "visit"} /\ "range" \in {"query", "range", "visit"}
    OBVIOUS
  <2>2. old.todo[1] # <<"query", k>> /\ old.todo[1] # <<"range", k>>
    BY <2>1
  <2> QED BY <1>2, <2>2
<1> QED BY <1>1, <1>3, SettledBeside

LEMMA ConfirmSettles ==
    ASSUME IInv, JobsSettle, NEW j \in Jobs, Confirm(j),
           NEW k \in BookKinds, NEW i \in Insts, NEW s \in Sessions
    PROVE  Settled(j, job[j], k, i, s)'
<1>1. PICK old : old = Now(j)
  OBVIOUS
<1>2. PICK new : new = job'[j]
  OBVIOUS
<1>3. Consume(j)
  BY DEF Consume
<1>4. /\ old.todo # << >> /\ old.todo[1][1] = "confirm"
      /\ new = [old EXCEPT !.todo = Tail(@)] /\ j \in Arrived
  BY <1>1, <1>2 DEF Confirm, Next1, Becomes
<1>5. /\ old \in Job /\ old.todo \in Seq(JobSteps) /\ Ordered(j, old.todo)
      /\ j[2] \in DOMAIN msg /\ Settled(j, old, k, i, s)
  BY <1>1, <1>4, NowSettled
<1>6. new.todo = Tail(old.todo) /\ new.seen = old.seen
  BY <1>4, <1>5 DEF Job
<1>7. \A what \in {"query", "range", "visit"} : old.todo[1] # <<what, k>>
  BY <1>4
<1>8. Settled(j, new, k, i, s)'
  <2>1. UNCHANGED <<request, subscriptions>> /\ UNCHANGED engine /\ Grows
    BY <1>3, ConsumeFrame
  <2> QED BY <2>1, <1>4, <1>5, <1>6, <1>7, TailSettles
<1>9. Ordered(j, new.todo)
  BY <1>4, <1>5, <1>6, OrderedTail
<1> QED BY <1>2, <1>8, <1>9, NewSettled

LEMMA CountSettles ==
    ASSUME IInv, JobsSettle, NEW j \in Jobs, CountOrders(j),
           NEW k \in BookKinds, NEW i \in Insts, NEW s \in Sessions
    PROVE  Settled(j, job[j], k, i, s)'
<1>1. PICK old : old = Now(j)
  OBVIOUS
<1>2. PICK new : new = job'[j]
  OBVIOUS
<1>3. Consume(j)
  BY DEF Consume
<1>4. /\ old.todo # << >> /\ old.todo[1][1] = "count" /\ j \in Arrived
      /\ new = [old EXCEPT !.todo = IF open[Instrument(j[2])] = 1 THEN Tail(@) ELSE << >>]
  BY <1>1, <1>2 DEF CountOrders, Next1, Becomes
<1>5. /\ old \in Job /\ old.todo \in Seq(JobSteps) /\ Ordered(j, old.todo)
      /\ j[2] \in DOMAIN msg /\ Settled(j, old, k, i, s)
  BY <1>1, <1>4, NowSettled
<1>6. new.todo \in {Tail(old.todo), << >>} /\ new.seen = old.seen
  BY <1>4, <1>5 DEF Job
<1>7. /\ \A what \in {"query", "range", "visit"} : old.todo[1] # <<what, k>>
      /\ 1 \in DOMAIN old.todo /\ \A n \in DOMAIN old.todo : n \in Nat /\ (n = 1 \/ n > 1)
  BY <1>4, <1>5
<1>8. ~Has(old.todo, "range", k) /\ ~Has(old.todo, "query", k)
  <2>1. \A p \in DOMAIN old.todo : p > 1 => old.todo[p] # <<"range", k>>
    BY <1>4, <1>5, <1>7 DEF Ordered
  <2>2. \A p \in DOMAIN old.todo : old.todo[p] # <<"range", k>>
    BY <1>7, <2>1
  <2>3. \A p \in DOMAIN old.todo : old.todo[p] = <<"query", k>> =>
            p + 1 \in DOMAIN old.todo /\ old.todo[p + 1] = <<"range", k>>
    BY <1>5 DEF Ordered
  <2> QED BY <2>2, <2>3 DEF Has
<1>9. UNCHANGED <<request, subscriptions>> /\ UNCHANGED engine /\ Grows
  BY <1>3, ConsumeFrame
<1>10. CASE new.todo = << >>
  <2>1. ~Has(new.todo, "range", k) /\ ~Has(new.todo, "query", k)
    BY <1>10 DEF Has
  <2>2. ~ToVisit(j, old, k, i, s)
    BY <1>7 DEF ToVisit
  <2>3. Settled(j, new, k, i, s)'
    BY <1>5, <1>6, <1>8, <1>9, <2>1, <2>2, SettledBeside
  <2>4. Ordered(j, new.todo)
    BY <1>10, OrderedNothing
  <2> QED BY <1>2, <2>3, <2>4, NewSettled
<1>11. CASE new.todo = Tail(old.todo)
  <2>1. Settled(j, new, k, i, s)'
    BY <1>4, <1>5, <1>6, <1>7, <1>11, <1>9, TailSettles
  <2>2. Ordered(j, new.todo)
    BY <1>4, <1>5, <1>11, OrderedTail
  <2> QED BY <1>2, <2>1, <2>2, NewSettled
<1> QED BY <1>6, <1>10, <1>11

LEMMA JobPair ==
    ASSUME NEW x \in JobSteps, x[1] \in {"query", "range", "visit"}
    PROVE  x = <<x[1], x[2]>> /\ x[2] \in Kinds
<1>1. CASE x \in {"confirm"} \X Users
  BY <1>1
<1>2. CASE x \in {"query"} \X {"V", "A"}
  BY <1>2 DEF Kinds
<1>3. CASE x \in {"range", "visit"} \X Kinds
  BY <1>3
<1>4. CASE x = <<"count", "X">>
  BY <1>4
<1> QED BY <1>1, <1>2, <1>3, <1>4 DEF JobSteps

(* The book that is read has the change, or who is subscribed may miss it. *)
LEMMA ReadSettles ==
    ASSUME IInv, JobsSettle, NEW j \in Jobs, ReadBook(j),
           NEW k \in BookKinds, NEW i \in Insts, NEW s \in Sessions
    PROVE  Settled(j, job[j], k, i, s)'
<1>1. PICK old : old = Now(j)
  OBVIOUS
<1>2. PICK new : new = job'[j]
  OBVIOUS
<1>3. PICK kind, inst : kind = Now(j).todo[1][2] /\ inst = Instrument(j[2])
  OBVIOUS
<1>4. Consume(j)
  BY DEF Consume
<1>0. PICK v, sent :
        /\ v \in Finds(inst)
        /\ Becomes(j, [old EXCEPT !.todo = IF sent THEN Tail(@) ELSE << >>, !.seen = v])
        /\ missed' = IF sent /\ v >= j[2] THEN missed
                     ELSE missed \cup {<<<<kind, inst, t>>, j[2]>> : t \in Sessions}
  BY <1>1, <1>3 DEF ReadBook
<1>5. /\ old.todo # << >> /\ old.todo[1][1] = "query" /\ old.todo[1][2] = kind
      /\ j \in Arrived
      /\ new = [old EXCEPT !.todo = IF sent THEN Tail(@) ELSE << >>, !.seen = v]
  BY <1>0, <1>1, <1>2, <1>3 DEF ReadBook, Next1, Becomes
<1>6. /\ old \in Job /\ old.todo \in Seq(JobSteps) /\ Ordered(j, old.todo)
      /\ j[2] \in DOMAIN msg /\ j[2] \in Nat
  BY <1>1, <1>5, NowSettled
<1>7. /\ new.todo = (IF sent THEN Tail(old.todo) ELSE << >>)
      /\ new.seen = v
  BY <1>5, <1>6 DEF Job
<1>8. Ordered(j, new.todo)
  BY <1>5, <1>6, <1>7, OrderedTail, OrderedNothing
<1>9. 1 \in DOMAIN old.todo /\ old.todo[1] \in JobSteps
  BY <1>5, <1>6, TailOfSeq
<1>10. Settled(j, new, k, i, s)'
  <2> SUFFICES ASSUME Reports(j, k, i), <<<<k, i, s>>, j[2]>> \notin missed'
               PROVE  Due(j, new, k, i, s)'
    BY <1>4, <1>6, ConsumeFrame, ReportsSame DEF Settled
  <2>1. kind = k /\ inst = i
    <3>1. kind = IF j[1] = "saved" THEN "A" ELSE "V"
      BY <1>5, <1>6, <1>9 DEF Ordered
    <3> QED BY <1>3, <3>1 DEF Reports, BookKinds
  <2>2. sent /\ v >= j[2]
    BY <1>0, <2>1
  <2>3. v \in Nat /\ j[2] <= new.seen
    <3>1. v \in 0 .. saved
      BY <1>0, <2>1, FindsType DEF IInv
    <3> QED BY <1>6, <1>7, <2>2, <3>1
  <2>4. Has(new.todo, "range", k)
    <3>1. old.todo[1] = <<"query", k>>
      BY <1>5, <1>9, <2>1, JobPair
    <3>2. 2 \in DOMAIN old.todo /\ old.todo[2] = <<"range", k>>
      <4>1. 1 + 1 \in DOMAIN old.todo /\ old.todo[1 + 1] = <<"range", k>>
        BY <1>6, <1>9, <3>1 DEF Ordered
      <4> QED BY <4>1
    <3>3. Has(old.todo, "range", k)
      BY <3>2 DEF Has
    <3>4. \A what, l : old.todo[1] # <<what, l>> =>
                (Has(Tail(old.todo), what, l) <=> Has(old.todo, what, l))
      BY <1>5, <1>6, OrderedTail
    <3>5. old.todo[1] # <<"range", k>>
      BY <3>1
    <3> QED BY <1>7, <2>2, <3>3, <3>4, <3>5
  <2>5. Has(new.todo, "range", k)'
    BY <2>4 DEF Has
  <2> QED BY <2>3, <2>5 DEF Due
<1> QED BY <1>2, <1>8, <1>10, NewSettled

LEMMA RangeSettles ==
    ASSUME IInv, JobsSettle, NEW j \in Jobs, RangeOver(j),
           NEW k \in BookKinds, NEW i \in Insts, NEW s \in Sessions
    PROVE  Settled(j, job[j], k, i, s)'
<1>1. PICK old : old = Now(j)
  OBVIOUS
<1>2. PICK new : new = job'[j]
  OBVIOUS
<1>3. PICK kind, inst : kind = Now(j).todo[1][2] /\ inst = Instrument(j[2])
  OBVIOUS
<1>4. Consume(j)
  BY DEF Consume
<1>5. /\ old.todo # << >> /\ old.todo[1][1] = "range" /\ old.todo[1][2] = kind
      /\ j \in Arrived
      /\ new = [old EXCEPT !.todo = <<<<"visit", kind>>>> \o Tail(@),
                           !.due = Subscribed(kind, inst), !.visited = {}]
      /\ missed' = missed \cup {<<<<"A", inst, t>>, j[2]>> : t \in
                        {u \in Sessions : /\ At(u, "subscribe") /\ Kind(u) = "A"
                                          /\ request[u].key = inst /\ kind = "A"}}
  BY <1>1, <1>2, <1>3 DEF RangeOver, Next1, Becomes
<1>6. /\ old \in Job /\ old.todo \in Seq(JobSteps) /\ Ordered(j, old.todo)
      /\ j[2] \in DOMAIN msg /\ j[2] \in Nat /\ Settled(j, old, k, i, s)
  BY <1>1, <1>5, NowSettled
<1>7. /\ new.todo = <<<<"visit", kind>>>> \o Tail(old.todo) /\ new.seen = old.seen
      /\ new.due = Subscribed(kind, inst) /\ new.visited = {}
  BY <1>5, <1>6 DEF Job
<1>8. old.todo[1] \in JobSteps /\ 1 \in DOMAIN old.todo
  BY <1>5, <1>6, TailOfSeq
<1>9. old.todo[1] = <<"range", kind>> /\ kind \in Kinds
  BY <1>5, <1>8, JobPair
<1>10. PICK list : list = new.todo
  OBVIOUS
<1>11. /\ Ordered(j, list) /\ list # << >> /\ list[1] = <<"visit", kind>>
       /\ \A l : Has(list, "query", l) <=> Has(old.todo, "query", l)
       /\ \A l : Has(old.todo, "range", l) => l = kind \/ Has(list, "range", l)
       /\ \A l : Has(list, "range", l) => Has(old.todo, "range", l)
  <2>1. PICK todo, x : todo = old.todo /\ x = <<"visit", kind>>
    OBVIOUS
  <2>2. /\ todo \in Seq(JobSteps) /\ todo # << >> /\ x \in JobSteps
        /\ list = <<x>> \o Tail(todo)
    BY <1>5, <1>6, <1>7, <1>9, <1>10, <2>1 DEF JobSteps
  <2>3. /\ DOMAIN list = DOMAIN todo /\ list[1] = x /\ 1 \in DOMAIN todo
        /\ \A n \in DOMAIN todo : n \in Nat \ {0} /\ (n # 1 => list[n] = todo[n])
    BY <2>2, FirstReplaced
  <2>4. Ordered(j, todo) /\ todo[1] = <<"range", kind>> /\ list[1] = <<"visit", kind>>
    BY <1>6, <1>9, <2>1, <2>3
  <2>5. /\ Ordered(j, list)
        /\ \A l : Has(list, "query", l) <=> Has(todo, "query", l)
        /\ \A l : Has(todo, "range", l) => l = kind \/ Has(list, "range", l)
        /\ \A l : Has(list, "range", l) => Has(todo, "range", l)
    BY <2>3, <2>4, OrderedVisit
  <2>6. list # << >>
    BY <2>3
  <2> QED BY <2>1, <2>4, <2>5, <2>6
<1>12. CASE k # kind
  <2>1. ~ToVisit(j, old, k, i, s)
    BY <1>9 DEF ToVisit
  <2>2. /\ Has(new.todo, "query", k) <=> Has(old.todo, "query", k)
        /\ Has(new.todo, "range", k) <=> Has(old.todo, "range", k)
    BY <1>10, <1>11, <1>12
  <2>3. UNCHANGED <<request, subscriptions>> /\ UNCHANGED engine /\ Grows
    BY <1>4, ConsumeFrame
  <2>4. Settled(j, new, k, i, s)'
    BY <1>6, <1>7, <2>1, <2>2, <2>3, SettledBeside
  <2> QED BY <1>2, <1>10, <1>11, <2>4, NewSettled
<1>13. CASE k = kind
  <2> SUFFICES ASSUME Reports(j, k, i), <<<<k, i, s>>, j[2]>> \notin missed'
               PROVE  Due(j, new, k, i, s)'
    <3>1. (Reports(j, k, i) /\ <<<<k, i, s>>, j[2]>> \notin missed' => Due(j, new, k, i, s)')
            => Settled(j, new, k, i, s)'
      BY <1>4, <1>6, ConsumeFrame, ReportsSame DEF Settled
    <3> QED BY <1>2, <1>10, <1>11, <3>1, NewSettled
  <2>1. Due(j, old, k, i, s) /\ inst = i
    BY <1>3, <1>5, <1>6 DEF Settled, Reports
  <2>2. Has(old.todo, "range", k)
    BY <1>8, <1>9, <1>13 DEF Has
  <2>3. ~Has(old.todo, "query", k)
    <3>1. \A p \in DOMAIN old.todo : p > 1 => old.todo[p] # <<"query", k>>
      BY <1>6, <1>8, <1>9, <1>13 DEF Ordered
    <3>2. \A p \in DOMAIN old.todo : p = 1 \/ p > 1
      BY <1>6
    <3>3. old.todo[1] # <<"query", k>>
      BY <1>9
    <3> QED BY <3>1, <3>2, <3>3 DEF Has
  <2>4. j[2] <= new.seen
    BY <1>7, <2>1, <2>2, <2>3 DEF Due
  <2>5. CASE Has(list, "range", k)
    <3>1. Has(new.todo, "range", k)'
      BY <1>10, <2>5 DEF Has
    <3> QED BY <2>4, <3>1 DEF Due
  <2>6. CASE ~Has(list, "range", k)
    <3>1. ~Has(new.todo, "range", k)'
      BY <1>10, <2>6 DEF Has
    <3>2. j[2] <= saved'
      <4>1. new.seen \in 0 .. saved /\ saved \in Nat /\ saved' = saved
        <5>1. old.seen \in 0 .. saved
          BY <1>6 DEF Job
        <5> QED BY <1>4, <1>7, <5>1, ConsumeFrame DEF IInv, EngineOK, engine
      <4> QED BY <1>6, <2>4, <4>1
    <3>3. ASSUME Waiting(k, i, s)' PROVE ToVisit(j, new, k, i, s)'
      <4>1. Waiting(k, i, s) /\ subscriptions' = subscriptions
        BY <1>4, <3>3, ConsumeFrame, WaitingSame
      <4>2. <<k, i, s>> \in subscriptions
        <5>1. CASE k = "V"
          BY <4>1, <5>1 DEF Waiting
        <5>2. CASE k = "A"
          <6> SUFFICES ASSUME request[s].todo = SubscribeA, request[s].key = i
                       PROVE  FALSE
            BY <4>1, <5>2 DEF Waiting
          <6>1. /\ SubscribeA[1] = <<"subscribe", "A">> /\ SubscribeA # << >>
            <7>1. \A a : <<a>>[1] = a /\ <<a>> # << >>
              OBVIOUS
            <7> QED BY <7>1 DEF SubscribeA
          <6>2. At(s, "subscribe") /\ Kind(s) = "A"
            BY <6>1 DEF At, Kind
          <6>3. <<<<"A", inst, s>>, j[2]>> \in missed'
            BY <1>5, <1>13, <2>1, <5>2, <6>2
          <6> QED BY <2>1, <5>2, <6>3
        <5> QED BY <5>1, <5>2 DEF BookKinds
      <4>3. s \in new.due \ new.visited
        <5>1. Key(k, i) = i
          BY DEF Key, BookKinds
        <5> QED BY <1>7, <1>13, <2>1, <4>2, <5>1 DEF Subscribed
      <4>4. list # << >> /\ list[1] = <<"visit", k>>
        BY <1>11, <1>13
      <4> QED BY <1>10, <2>4, <4>1, <4>2, <4>3, <4>4 DEF ToVisit
    <3> QED BY <3>1, <3>2, <3>3 DEF Due
  <2> QED BY <2>5, <2>6
<1> QED BY <1>12, <1>13

LEMMA VisitSettles ==
    ASSUME IInv, JobsSettle, NEW j \in Jobs, Visit(j),
           NEW k \in BookKinds, NEW i \in Insts, NEW s \in Sessions
    PROVE  Settled(j, job[j], k, i, s)'
<1>1. PICK old : old = Now(j)
  OBVIOUS
<1>2. PICK new : new = job'[j]
  OBVIOUS
<1>3. PICK kind, inst : kind = Now(j).todo[1][2] /\ inst = Instrument(j[2])
  OBVIOUS
<1>4. Consume(j)
  BY DEF Consume
<1>5. /\ old.todo # << >> /\ old.todo[1][1] = "visit" /\ old.todo[1][2] = kind
      /\ j \in Arrived /\ old = job[j]
  BY <1>1, <1>3, NowType DEF Visit, Next1
<1>6. PICK t \in Subscribed(kind, inst) \ old.visited :
        /\ new = [old EXCEPT !.visited = @ \cup {t}]
        /\ reported' = reported \cup {<<kind, Key(kind, inst), t, j[2], old.seen>>}
  BY <1>2, <1>3, <1>5 DEF Visit, Becomes
<1>7. /\ old \in Job /\ old.todo \in Seq(JobSteps) /\ Ordered(j, old.todo)
      /\ j[2] \in DOMAIN msg /\ j[2] \in Nat /\ Settled(j, old, k, i, s)
  BY <1>1, <1>5, NowSettled
<1>8. /\ new.todo = old.todo /\ new.seen = old.seen /\ new.due = old.due
      /\ new.visited = old.visited \cup {t}
  BY <1>6, <1>7 DEF Job
<1>9. UNCHANGED <<request, subscriptions>> /\ UNCHANGED engine /\ Grows
  BY <1>4, ConsumeFrame
<1>10. old.todo[1] = <<"visit", kind>>
  <2>1. old.todo[1] \in JobSteps
    BY <1>5, <1>7, TailOfSeq
  <2> QED BY <1>5, <2>1, JobPair
<1>11. CASE ~ToVisit(j, old, k, i, s)
  <2>1. Settled(j, new, k, i, s)'
    BY <1>7, <1>8, <1>9, <1>11, SettledBeside
  <2> QED BY <1>2, <1>7, <1>8, <2>1, NewSettled
<1>12. CASE ToVisit(j, old, k, i, s)
  <2> SUFFICES ASSUME Reports(j, k, i), <<<<k, i, s>>, j[2]>> \notin missed'
               PROVE  Due(j, new, k, i, s)'
    <3>1. (Reports(j, k, i) /\ <<<<k, i, s>>, j[2]>> \notin missed' => Due(j, new, k, i, s)')
            => Settled(j, new, k, i, s)'
      BY <1>7, <1>9, ReportsSame DEF Settled
    <3> QED BY <1>2, <1>7, <1>8, <3>1, NewSettled
  <2>1. Due(j, old, k, i, s) /\ inst = i /\ kind = k
    BY <1>3, <1>7, <1>9, <1>10, <1>12 DEF Settled, Reports, Grows, ToVisit
  <2>2. CASE Has(old.todo, "query", k)
    BY <1>8, <2>2 DEF Due, Has
  <2>3. CASE Has(old.todo, "range", k) /\ j[2] <= old.seen
    BY <1>8, <2>3 DEF Due, Has
  <2>4. CASE ~Has(old.todo, "range", k) /\ j[2] <= saved
    <3>1. ~Has(new.todo, "range", k)' /\ j[2] <= saved'
      BY <1>8, <1>9, <2>4 DEF Has, engine
    <3>2. CASE s = t
      <4>1. PICK m, v : m = j[2] /\ v = old.seen
        OBVIOUS
      <4>2. m <= v /\ v \in Nat /\ Key(kind, inst) = i
        BY <1>7, <1>12, <2>1, <4>1 DEF ToVisit, Key, BookKinds, Job, IInv, EngineOK
      <4> DEFINE r == <<k, i, s, m, v>>
      <4>3. r \in reported' /\ <<r[1], r[2], r[3]>> = <<k, i, s>> /\ r[5] = v
        BY <1>6, <2>1, <3>2, <4>1, <4>2
      <4> HIDE DEF r
      <4>4. v >= m
        BY <1>7, <4>1, <4>2
      <4>5. Told(k, i, s, m)'
        BY <4>3, <4>4 DEF Told
      <4> QED BY <3>1, <4>1, <4>5 DEF Due
    <3>3. CASE s # t
      <4>1. ToVisit(j, new, k, i, s)'
        BY <1>8, <1>9, <1>12, <3>3 DEF ToVisit
      <4> QED BY <3>1, <4>1 DEF Due
    <3> QED BY <3>2, <3>3
  <2> QED BY <2>1, <2>2, <2>3, <2>4 DEF Due
<1> QED BY <1>11, <1>12

LEMMA EndSettles ==
    ASSUME IInv, JobsSettle, NEW j \in Jobs, RangeEnds(j),
           NEW k \in BookKinds, NEW i \in Insts, NEW s \in Sessions
    PROVE  Settled(j, job[j], k, i, s)'
<1>1. PICK old : old = Now(j)
  OBVIOUS
<1>2. PICK new : new = job'[j]
  OBVIOUS
<1>3. PICK kind, inst : kind = Now(j).todo[1][2] /\ inst = Instrument(j[2])
  OBVIOUS
<1>4. Consume(j)
  BY DEF Consume
<1>5. /\ old.todo # << >> /\ old.todo[1][1] = "visit" /\ old.todo[1][2] = kind
      /\ j \in Arrived /\ old = job[j]
  BY <1>1, <1>3, NowType DEF RangeEnds, Next1
<1>6. /\ new = [old EXCEPT !.todo = Tail(@), !.due = {}, !.visited = {}]
      /\ old.due \cap Subscribed(kind, inst) \subseteq old.visited
  BY <1>2, <1>3, <1>5 DEF RangeEnds, Becomes
<1>7. /\ old \in Job /\ old.todo \in Seq(JobSteps) /\ Ordered(j, old.todo)
      /\ j[2] \in DOMAIN msg /\ j[2] \in Nat /\ Settled(j, old, k, i, s)
  BY <1>1, <1>5, NowSettled
<1>8. new.todo = Tail(old.todo) /\ new.seen = old.seen
  BY <1>6, <1>7 DEF Job
<1>9. UNCHANGED <<request, subscriptions>> /\ UNCHANGED engine /\ Grows
  BY <1>4, ConsumeFrame
<1>10. old.todo[1] = <<"visit", kind>>
  <2>1. old.todo[1] \in JobSteps
    BY <1>5, <1>7, TailOfSeq
  <2> QED BY <1>5, <2>1, JobPair
<1>11. Ordered(j, new.todo)
  BY <1>5, <1>7, <1>8, OrderedTail
<1>12. Reports(j, k, i) => ~ToVisit(j, old, k, i, s)
  <2> SUFFICES ASSUME Reports(j, k, i), ToVisit(j, old, k, i, s) PROVE FALSE
    OBVIOUS
  <2>1. kind = k /\ inst = i /\ Key(k, i) = i
    BY <1>3, <1>10 DEF ToVisit, Reports, Key, BookKinds
  <2>2. s \in old.due /\ s \in Subscribed(kind, inst)
    BY <2>1 DEF ToVisit, Subscribed
  <2> QED BY <1>6, <2>2 DEF ToVisit
<1>13. /\ Has(new.todo, "query", k) <=> Has(old.todo, "query", k)
       /\ Has(new.todo, "range", k) <=> Has(old.todo, "range", k)
  <2>1. \A what, l : old.todo[1] # <<what, l>> =>
                (Has(Tail(old.todo), what, l) <=> Has(old.todo, what, l))
    BY <1>5, <1>7, OrderedTail
  <2>2. old.todo[1] # <<"query", k>> /\ old.todo[1] # <<"range", k>>
    BY <1>10
  <2> QED BY <1>8, <2>1, <2>2
<1>14. CASE Reports(j, k, i)
  <2>1. Settled(j, new, k, i, s)'
    BY <1>7, <1>8, <1>9, <1>12, <1>13, <1>14, SettledBeside
  <2> QED BY <1>2, <1>11, <2>1, NewSettled
<1>15. CASE ~Reports(j, k, i)
  <2>1. Settled(j, new, k, i, s)'
    BY <1>7, <1>9, <1>15, ReportsSame DEF Settled
  <2> QED BY <1>2, <1>11, <2>1, NewSettled
<1> QED BY <1>14, <1>15

LEMMA ConsumeOrders ==
    ASSUME IInv, JobsSettle, NEW j \in Jobs, Consume(j)
    PROVE  Ordered(j, job'[j].todo)
<1>1. PICK old : old = Now(j)
  OBVIOUS
<1>2. /\ old.todo # << >> /\ j \in Arrived
      /\ old \in Job /\ old.todo \in Seq(JobSteps) /\ Ordered(j, old.todo)
  BY <1>1, ConsumeFrame, NowSettled
<1>3. Ordered(j, Tail(old.todo)) /\ Ordered(j, << >>)
  BY <1>2, OrderedTail, OrderedNothing
<1>4. CASE Confirm(j) \/ ReadBook(j) \/ CountOrders(j)
  <2>1. job'[j].todo \in {Tail(old.todo), << >>}
    BY <1>1, <1>2, <1>4 DEF Confirm, ReadBook, CountOrders, Becomes, Job
  <2> QED BY <1>3, <2>1
<1>5. CASE RangeOver(j)
  <2>1. PICK kind, todo, x : /\ kind = old.todo[1][2] /\ todo = old.todo
                             /\ x = <<"visit", kind>>
    OBVIOUS
  <2>2. job'[j].todo = <<x>> \o Tail(todo) /\ todo[1][1] = "range"
    BY <1>1, <1>2, <1>5, <2>1 DEF RangeOver, Becomes, Next1, Job
  <2>3. PICK list : list = job'[j].todo
    OBVIOUS
  <2>4. todo[1] \in JobSteps
    BY <1>2, <2>1, TailOfSeq
  <2>5. /\ todo \in Seq(JobSteps) /\ todo # << >> /\ Ordered(j, todo)
        /\ todo[1] = <<"range", kind>> /\ kind \in Kinds
        /\ list = <<x>> \o Tail(todo)
    BY <1>2, <2>1, <2>2, <2>3, <2>4, JobPair
  <2>6. x \in JobSteps
    BY <2>1, <2>5 DEF JobSteps
  <2>7. /\ DOMAIN list = DOMAIN todo /\ list[1] = x /\ 1 \in DOMAIN todo
        /\ \A n \in DOMAIN todo : n \in Nat \ {0} /\ (n # 1 => list[n] = todo[n])
    BY <2>5, <2>6, FirstReplaced
  <2>8. /\ todo[1] = <<"range", kind>> /\ list[1] = <<"visit", kind>>
        /\ 1 \in DOMAIN todo /\ DOMAIN list = DOMAIN todo /\ Ordered(j, todo)
    BY <2>1, <2>5, <2>7
  <2>9. Ordered(j, list)
    BY <2>7, <2>8, OrderedVisit
  <2> QED BY <2>3, <2>9
<1>6. CASE Visit(j) \/ RangeEnds(j)
  <2>1. old = job[j]
    BY <1>1, <1>2, <1>6, NowType DEF Visit, RangeEnds, Next1
  <2>2. job'[j].todo \in {old.todo, Tail(old.todo)}
    BY <1>2, <1>6, <2>1 DEF Visit, RangeEnds, Becomes, Job
  <2> QED BY <1>2, <1>3, <2>2
<1> QED BY <1>4, <1>5, <1>6 DEF Consume

LEMMA ConsumeSettles ==
    ASSUME IInv, JobsSettle, NEW j \in Jobs, Consume(j)
    PROVE  JobsSettle'
<1>1. /\ j \in Arrived /\ Grows /\ UNCHANGED engine
      /\ DOMAIN job' = DOMAIN job \cup {j}
      /\ \A i \in DOMAIN job \ {j} : job'[i] = job[i]
      /\ \A k \in BookKinds : \A i : \A s \in Sessions : Attends(k, i, s)
  BY ConsumeFrame
<1>2. j \in Arrived'
  BY <1>1 DEF engine, Arrived, Answered, OrderSaved
<1>3. ASSUME NEW k \in BookKinds, NEW i \in Insts, NEW s \in Sessions
      PROVE  Settled(j, job[j], k, i, s)'
  BY ConfirmSettles, ReadSettles, CountSettles, RangeSettles, VisitSettles, EndSettles
  DEF Consume
<1>4. ASSUME NEW n \in DOMAIN job \ {j}
      PROVE  /\ n \in Arrived' /\ Ordered(n, job'[n].todo)
             /\ \A k \in BookKinds : \A i \in Insts : \A s \in Sessions :
                    Settled(n, job[n], k, i, s)'
  BY <1>1, OthersSettle
<1>5. Ordered(j, job'[j].todo)
  BY ConsumeOrders
<1> QED BY <1>1, <1>2, <1>3, <1>4, <1>5 DEF JobsSettle

LEMMA EngineSettles ==
    ASSUME IInv, JobsSettle, EngineNext, UNCHANGED <<running, memory, ghosts>>
    PROVE  JobsSettle'
<1>1. Grows
  <2>1. /\ saved' \in {saved, saved + 1} /\ saved \in Nat
        /\ \A m \in DOMAIN msg : m \in DOMAIN msg' /\ msg'[m] = msg[m]
    BY EngineKeeps DEF IInv, EngineOK
  <2> QED BY <2>1 DEF Grows, ghosts
<1>2. UNCHANGED <<job, request, subscriptions>>
  BY DEF memory, subs
<1>3. \A k \in BookKinds : \A i : \A s \in Sessions : Attends(k, i, s)
  BY <1>2, AttendsElsewhere
<1>4. ASSUME NEW j \in DOMAIN job
      PROVE  /\ j \in Arrived' /\ Ordered(j, job'[j].todo)
             /\ \A k \in BookKinds : \A i \in Insts : \A s \in Sessions :
                    Settled(j, job[j], k, i, s)'
  BY <1>1, <1>2, <1>3, OthersSettle
<1> QED BY <1>2, <1>4 DEF JobsSettle

LEMMA NextReported == IInv /\ Reported /\ [Next]_vars => Reported'
<1> SUFFICES ASSUME IInv, Reported, [Next]_vars PROVE Reported'
  OBVIOUS
<1>1. JobsSettle /\ \A t \in Sessions : Planned(request[t].todo)
  BY DEF Reported
<1>2. ASSUME NEW s \in Sessions, Lives(s) PROVE Reported'
  <2>1. /\ \A t \in Sessions : Planned(request[t].todo)'
        /\ \A k \in BookKinds : \A i : \A t \in Sessions : Attends(k, i, t)
        /\ reported \subseteq reported' /\ missed \subseteq missed'
        /\ UNCHANGED <<engine, job>>
    BY <1>1, <1>2, SessionAttends
  <2>2. Grows
    BY <2>1 DEF Grows, engine, IInv, EngineOK
  <2>3. job' = job
    BY <2>1
  <2>4. ASSUME NEW j \in DOMAIN job
        PROVE  /\ j \in Arrived' /\ Ordered(j, job'[j].todo)
               /\ \A k \in BookKinds : \A i \in Insts : \A t \in Sessions :
                    Settled(j, job[j], k, i, t)'
    BY <1>1, <2>1, <2>2, <2>3, OthersSettle
  <2>5. JobsSettle'
    BY <2>3, <2>4 DEF JobsSettle
  <2> QED BY <2>1, <2>5 DEF Reported
<1>3. CASE Dies
  <2>1. \A s \in Sessions : request'[s].todo = << >>
    BY <1>3 DEF Dies, Idle
  <2>2. DOMAIN job' = {}
    BY <1>3 DEF Dies
  <2>3. JobsSettle'
    BY <2>2 DEF JobsSettle
  <2>4. \A t \in Sessions : Planned(request[t].todo)'
    BY <2>1, PlannedNothing
  <2> QED BY <2>3, <2>4 DEF Reported
<1>4. ASSUME NEW j \in Jobs, Consume(j) PROVE Reported'
  <2>1. UNCHANGED request /\ JobsSettle'
    BY <1>1, <1>4, ConsumeFrame, ConsumeSettles
  <2> QED BY <1>1, <2>1 DEF Reported
<1>5. CASE EngineNext /\ UNCHANGED <<running, memory, ghosts>>
  <2>1. JobsSettle' /\ UNCHANGED request
    BY <1>1, <1>5, EngineSettles DEF memory
  <2> QED BY <1>1, <2>1 DEF Reported
<1>6. CASE UNCHANGED vars
  <2>1. UNCHANGED <<msg, saved, job, request, subscriptions, reported, missed>>
    BY <1>6 DEF vars, engine, memory, subs, ghosts
  <2>2. Grows
    BY <2>1 DEF Grows, IInv, EngineOK
  <2>3. \A k \in BookKinds : \A i : \A s \in Sessions : Attends(k, i, s)
    BY <2>1, AttendsElsewhere
  <2>4. ASSUME NEW j \in DOMAIN job
        PROVE  /\ j \in Arrived' /\ Ordered(j, job'[j].todo)
               /\ \A k \in BookKinds : \A i \in Insts : \A t \in Sessions :
                    Settled(j, job[j], k, i, t)'
    BY <1>1, <2>1, <2>2, <2>3, OthersSettle
  <2>5. JobsSettle'
    BY <2>1, <2>4 DEF JobsSettle
  <2> QED BY <1>1, <2>1, <2>5 DEF Reported
<1> QED BY <1>2, <1>3, <1>4, <1>5, <1>6
    DEF Next, Acceptor, Handle, Lives, SecurityListPanics, MapsClash

(* Who subscribes to quotes or market data of an instrument has been sent, *)
(* when it has nothing to do, a book with each saved order whose report is *)
(* done and that it is not known to have missed: in the snapshot or by the *)
(* goroutine that ranged over the map, whichever came first.               *)
THEOREM SubscribersUpToDate == Spec => []UpToDate
<1>1. Init => Reported
  <2>1. Idle.todo = << >>
    BY DEF Idle
  <2> QED BY <2>1, PlannedNothing DEF Init, Reported, JobsSettle
<1>2. IInv /\ Reported => UpToDate
  <2> SUFFICES ASSUME IInv, Reported, NEW x \in subscriptions, NEW m \in OrderSaved,
                      <<x, m>> \notin missed, x[1] \in {"A", "V"}, x[2] = Instrument(m), Over(x[1], m),
                      request[x[3]].todo = << >>
               PROVE  \E v \in Heard(x) : v >= m
    BY DEF UpToDate
  <2>1. PICK k, i, s : k = x[1] /\ i = x[2] /\ s = x[3]
    OBVIOUS
  <2>2. PICK j : j = <<IF k = "A" THEN "saved" ELSE "trade", m>>
    OBVIOUS
  <2>3. x = <<k, i, s>> /\ s \in Sessions /\ k \in BookKinds
    BY <2>1 DEF IInv, OthersOK, Subscriptions, BookKinds
  <2>4. m \in DOMAIN msg /\ m \in Nat /\ i \in Insts
    BY <2>1, MessageType DEF IInv, OrderSaved
  <2>5. j \in DOMAIN job /\ \A n \in DOMAIN job[j].todo : job[j].todo[n][2] # k
    BY <2>1, <2>2 DEF Over
  <2>6. Reports(j, k, i) /\ j[2] = m
    BY <2>1, <2>2 DEF Reports, OrderSaved
  <2>7. Due(j, job[j], k, i, s)
    BY <2>1, <2>3, <2>4, <2>5, <2>6 DEF Reported, JobsSettle, Settled
  <2>8. ~Has(job[j].todo, "query", k) /\ ~Has(job[j].todo, "range", k)
    BY <2>5 DEF Has
  <2>9. ~ToVisit(j, job[j], k, i, s)
    <3>1. job[j].todo \in Seq(JobSteps)
      BY <2>5 DEF IInv, JobsOK, Job
    <3>2. job[j].todo # << >> => 1 \in DOMAIN job[j].todo
      BY <3>1, TailOfSeq
    <3> QED BY <2>5, <3>2 DEF ToVisit
  <2>10. Waiting(k, i, s)
    <3>1. request[s].todo \notin {QueryV, SubscribeV}
      BY <2>1, AskDistinct
    <3> QED BY <2>3, <3>1 DEF Waiting
  <2>11. Told(k, i, s, m)
    BY <2>6, <2>7, <2>8, <2>9, <2>10 DEF Due
  <2> QED BY <2>3, <2>11 DEF Told, Heard
<1> QED BY <1>1, <1>2, Starts, NextKeeps, NextReported, PTL DEF Spec

-----------------------------------------------------------------------------
(* The process.                                                            *)

LEMMA AcceptorLeavesEngine == Acceptor => UNCHANGED engine
BY DEF Acceptor, Peer, Handle, Consume, FromApp, Logon, OnLogout, Lookup, Place, Reply,
       Query, Subscribe, Unsubscribe, FromAdmin, Leave, SecurityListPanics, Dies,
       Confirm, ReadBook, CountOrders, RangeOver, Visit, RangeEnds, MapsClash

(* What is reported in one step is one quote, and has its change, or its   *)
(* query failed.                                                           *)
LEMMA OneReport ==
    ASSUME IInv, IInv', Acceptor
    PROVE  \E m, v, R : /\ R \subseteq Sessions
                        /\ QuoteReports' = QuoteReports \cup {<<r, m, v>> : r \in R}
                        /\ R # {} => OfChange(m, v)
<1>1. UNCHANGED engine
  BY AcceptorLeavesEngine
<1>2. ASSUME QuoteReports' = QuoteReports
      PROVE  \E m, v, R : /\ R \subseteq Sessions
                          /\ QuoteReports' = QuoteReports \cup {<<r, m, v>> : r \in R}
                          /\ R # {} => OfChange(m, v)
  <2>1. \A m, v : QuoteReports' = QuoteReports \cup {<<r, m, v>> : r \in {}}
    BY <1>2
  <2> QED BY <2>1
<1>3. ASSUME NEW j \in Jobs, Visit(j)
      PROVE  \E m, v, R : /\ R \subseteq Sessions
                          /\ QuoteReports' = QuoteReports \cup {<<r, m, v>> : r \in R}
                          /\ R # {} => OfChange(m, v)
  <2>1. PICK s \in Sessions :
            \E k, i, m, v : reported' = reported \cup {<<k, i, s, m, v>>}
    BY <1>3 DEF Visit, Subscribed
  <2>2. PICK k, i, m, v : reported' = reported \cup {<<k, i, s, m, v>>}
    BY <2>1
  <2>3. CASE k = "A" /\ m # 0
    <3>1. {x \in reported' : x[1] = "A" /\ x[4] # 0}
            = {x \in reported : x[1] = "A" /\ x[4] # 0} \cup {<<k, i, s, m, v>>}
      BY <2>2, <2>3
    <3>2. QuoteReports' = QuoteReports \cup {<<r, m, v>> : r \in {s}}
      <4> DEFINE was == {x \in reported : x[1] = "A" /\ x[4] # 0}
      <4>1. QuoteReports' = {<<q[3], q[4], q[5]>> : q \in was \cup {<<k, i, s, m, v>>}}
        BY <3>1 DEF QuoteReports
      <4>2. QuoteReports = {<<q[3], q[4], q[5]>> : q \in was}
        BY DEF QuoteReports
      <4> HIDE DEF was
      <4>3. PICK n : n = <<k, i, s, m, v>>
        OBVIOUS
      <4>4. <<n[3], n[4], n[5]>> = <<s, m, v>>
        BY <4>3
      <4> QED BY <4>1, <4>2, <4>3, <4>4
    <3>3. <<s, m, v>> \in QuoteReports' /\ saved' = saved
      BY <1>1, <3>2 DEF engine
    <3>4. OfChange(m, v)
      <4>1. PICK q : q = <<s, m, v>>
        OBVIOUS
      <4>2. q \in QuoteReports' /\ q[2] = m /\ q[3] = v
        BY <3>3, <4>1
      <4>3. m \in 1 .. saved' /\ v \in {0} \cup (m .. saved')
        BY <4>2 DEF IInv, ReportsOK
      <4> QED BY <3>3, <4>3 DEF OfChange
    <3>5. {s} \subseteq Sessions
      OBVIOUS
    <3> QED BY <3>2, <3>4, <3>5
  <2>4. CASE ~(k = "A" /\ m # 0)
    <3>1. {x \in reported' : x[1] = "A" /\ x[4] # 0}
            = {x \in reported : x[1] = "A" /\ x[4] # 0}
      BY <2>2, <2>4
    <3>2. QuoteReports' = QuoteReports
      BY <3>1 DEF QuoteReports
    <3> QED BY <1>2, <3>2
  <2> QED BY <2>3, <2>4
<1>4. ASSUME NEW s \in Sessions, Query(s) PROVE QuoteReports' = QuoteReports
  <2>3. PICK v : reported' \in {reported,
                               reported \cup {<<Kind(s), request[s].key, s, 0, v>>}}
    BY <1>4 DEF Query
  <2>4. PICK q : q = <<Kind(s), request[s].key, s, 0, v>>
    OBVIOUS
  <2>1. reported' \in {reported, reported \cup {q}} /\ q[4] = 0
    BY <2>3, <2>4
  <2>2. {x \in reported' : x[1] = "A" /\ x[4] # 0} = {x \in reported : x[1] = "A" /\ x[4] # 0}
    BY <2>1
  <2> QED BY <2>2 DEF QuoteReports
<1>5. \/ \E j \in Jobs : Visit(j)
      \/ \E s \in Sessions : Query(s)
      \/ reported' = reported
  BY DEF Acceptor, Peer, Handle, Consume, FromApp, Logon, OnLogout, Lookup, Place, Reply,
         Subscribe, Unsubscribe, FromAdmin, Leave, SecurityListPanics, Dies,
         Confirm, ReadBook, CountOrders, RangeOver, RangeEnds, MapsClash, ghosts
<1>6. reported' = reported => QuoteReports' = QuoteReports
  BY DEF QuoteReports
<1> QED BY <1>2, <1>3, <1>4, <1>5, <1>6

-----------------------------------------------------------------------------
(* The same instance as EngineTopics!Redis, with its theorems.             *)
RedisProofs == INSTANCE EngineService_proofs

LEMMA RedisAssumption == RedisProofs!EngineAssumption
BY EngineAssumption DEF RedisProofs!EngineAssumption, RedisProofs!Messages, Messages

LEMMA SameInit == Redis!Init <=> RedisProofs!Init
BY DEF Redis!Init, RedisProofs!Init, Redis!InitEngine, RedisProofs!InitEngine,
       Redis!NoQuote, RedisProofs!NoQuote, Redis!Idle, RedisProofs!Idle

LEMMA SameService == Redis!Service <=> RedisProofs!Service
BY DEF Redis!Service, RedisProofs!Service, Redis!Start, RedisProofs!Start,
       Redis!Goroutine, RedisProofs!Goroutine,
       Redis!HandleConsume, RedisProofs!HandleConsume,
       Redis!ConsumeQuote, RedisProofs!ConsumeQuote,
       Redis!SubscribeQuote, RedisProofs!SubscribeQuote,
       Redis!GetOrderBook, RedisProofs!GetOrderBook,
       Redis!checkDateToRemoveRedis, RedisProofs!checkDateToRemoveRedis,
       Redis!ReadLog, RedisProofs!ReadLog, Redis!WriteLog, RedisProofs!WriteLog,
       Redis!GetQuote, RedisProofs!GetQuote, Redis!QueryQuote, RedisProofs!QueryQuote,
       Redis!CacheQuote, RedisProofs!CacheQuote,
       Redis!BroadcastMessage, RedisProofs!BroadcastMessage,
       Redis!Subscribe, RedisProofs!Subscribe,
       Redis!SendInitMessage, RedisProofs!SendInitMessage, Redis!Starts, RedisProofs!Starts,
       Redis!Becomes, RedisProofs!Becomes, Redis!Continues, RedisProofs!Continues,
       Redis!Step, RedisProofs!Step, Redis!At, RedisProofs!At, Redis!Inst, RedisProofs!Inst,
       Redis!Others, RedisProofs!Others, Redis!Appended, RedisProofs!Appended,
       Redis!HandleConsumeQuote, RedisProofs!HandleConsumeQuote,
       Redis!HandleConsumeQuoteCancel, RedisProofs!HandleConsumeQuoteCancel,
       Redis!Announced, RedisProofs!Announced, Redis!Following, RedisProofs!Following,
       Redis!Lacks, RedisProofs!Lacks,
       Redis!Between, RedisProofs!Between, Redis!Idle, RedisProofs!Idle,
       Redis!NoQuote, RedisProofs!NoQuote, Redis!Jobs, RedisProofs!Jobs,
       Redis!Msgs, RedisProofs!Msgs, Redis!Subscribing, RedisProofs!Subscribing,
       Redis!Asked, RedisProofs!Asked, Redis!Views, RedisProofs!Views,
       Redis!Answered, RedisProofs!Answered, Redis!OrderSaved, RedisProofs!OrderSaved,
       Redis!CancelSaved, RedisProofs!CancelSaved, Redis!Instrument, RedisProofs!Instrument,
       Redis!Finds, RedisProofs!Finds,
       Redis!Version, RedisProofs!Version, Redis!engine, RedisProofs!engine,
       Redis!logs, RedisProofs!logs, Redis!quotes, RedisProofs!quotes

LEMMA SameTypeOK == Redis!TypeOK <=> RedisProofs!TypeOK
BY DEF Redis!TypeOK, RedisProofs!TypeOK, Redis!Jobs, RedisProofs!Jobs,
       Redis!Msgs, RedisProofs!Msgs, Redis!Quotes, RedisProofs!Quotes,
       Redis!Views, RedisProofs!Views, Redis!Steps, RedisProofs!Steps,
       Redis!Subscribing, RedisProofs!Subscribing, Redis!Asked, RedisProofs!Asked

LEMMA SameLogKept == Redis!LogKept <=> RedisProofs!LogKept
BY DEF Redis!LogKept, RedisProofs!LogKept, Redis!Done, RedisProofs!Done,
       Redis!Msgs, RedisProofs!Msgs, Redis!Instrument, RedisProofs!Instrument

LEMMA SameViews == Redis!PrivateViewOnlyInitially <=> RedisProofs!PrivateViewOnlyInitially
BY DEF Redis!PrivateViewOnlyInitially, RedisProofs!PrivateViewOnlyInitially,
       Redis!Asked, RedisProofs!Asked

LEMMA SameSettles == Redis!QuoteSettles <=> RedisProofs!QuoteSettles
BY DEF Redis!QuoteSettles, RedisProofs!QuoteSettles, Redis!OrderSaved, RedisProofs!OrderSaved,
       Redis!CancelSaved, RedisProofs!CancelSaved, Redis!Instruments, RedisProofs!Instruments,
       Redis!Done, RedisProofs!Done, Redis!Following, RedisProofs!Following

LEMMA SameEngine == EngineNext <=> RedisProofs!EngineNext
BY DEF EngineNext, RedisProofs!EngineNext, Publish, RedisProofs!Publish, SaveNext,
       RedisProofs!SaveNext, Instruments, RedisProofs!Instruments
-----------------------------------------------------------------------------
(* A step of the process is one of each component, or leaves it alone.     *)
LEMMA StepsOfEach ==
    ASSUME IInv, RedisProofs!IInv, [NextBoth]_all
    PROVE  [Next]_vars /\ [RedisProofs!Next]_(RedisProofs!vars)
<1>1. CASE UNCHANGED all
  BY <1>1 DEF all, acceptor, service, vars, engine, memory, ghosts, RedisProofs!vars,
              RedisProofs!engine, RedisProofs!logs, RedisProofs!quotes
<1>2. CASE AcceptorStep
  <2>1. Acceptor /\ running /\ UNCHANGED service
    BY <1>2 DEF AcceptorStep
  <2>2. UNCHANGED engine
    BY <2>1, AcceptorLeavesEngine
  <2> QED BY <2>1, <2>2 DEF Next, service, engine, RedisProofs!vars, RedisProofs!engine,
                            RedisProofs!logs, RedisProofs!quotes
<1>3. CASE ServiceStep
  <2>1. RedisProofs!Service /\ UNCHANGED acceptor
    BY <1>3, SameService DEF ServiceStep
  <2>2. UNCHANGED engine
    BY <2>1, RedisProofs!ServiceLeavesEngine, RedisAssumption DEF engine, RedisProofs!engine
  <2> QED BY <2>1, <2>2 DEF RedisProofs!Next, acceptor, vars
<1>4. CASE EngineStep
  <2>1. EngineNext /\ RedisProofs!EngineNext /\ running /\ UNCHANGED <<acceptor, service>>
    BY <1>4, SameEngine DEF EngineStep
  <2> QED BY <2>1 DEF Next, RedisProofs!Next, acceptor, service, RedisProofs!logs,
                      RedisProofs!quotes
<1> QED BY <1>1, <1>2, <1>3, <1>4 DEF NextBoth

BothIInv == IInv /\ RedisProofs!IInv

LEMMA BothStart == InitBoth => BothIInv
BY Starts, RedisProofs!Starting, RedisAssumption, SameInit DEF InitBoth, BothIInv

LEMMA BothKeep == BothIInv /\ [NextBoth]_all => BothIInv'
BY StepsOfEach, NextKeeps, RedisProofs!NextKeeps, RedisAssumption DEF BothIInv

(* All types of both components, in one process.                           *)
THEOREM ProcessTypes == SpecBoth => []TypesOK
<1>1. BothIInv => TypesOK
  BY TypesOfIInv, RedisProofs!TypesOfIInv, RedisAssumption, SameTypeOK DEF BothIInv, TypesOK
<1> QED BY <1>1, BothStart, BothKeep, PTL DEF SpecBoth

(* Beside the service, the acceptor does nothing it would not do alone.    *)
THEOREM ProcessRefinesAcceptor == SpecBoth => Spec
<1>1. InitBoth => Init
  BY DEF InitBoth
<1>2. BothIInv /\ [NextBoth]_all => [Next]_vars
  BY StepsOfEach DEF BothIInv
<1> QED BY <1>1, <1>2, BothStart, BothKeep, PTL DEF SpecBoth, Spec

(* So what holds of the sessions does in the process: none that logged out *)
(* is subscribed, each acts for users who logged on there, and subscribers *)
(* have been sent what was saved and reported.                             *)
THEOREM ProcessSessions ==
    SpecBoth => [](LoggedOutUnsubscribed /\ UsersOfTheSession /\ UpToDate)
BY ProcessRefinesAcceptor, NothingLeft, OrdersOfTheirUsers, SubscribersUpToDate, PTL

(* The lists in Redis keep what the service promises of them, with the     *)
(* acceptor's goroutines beside it and although these may end the process. *)
THEOREM ProcessLists == SpecBoth => []LogKept
<1> DEFINE I == BothIInv /\ RedisProofs!LogOK
<1>1. InitBoth => I
  BY BothStart, RedisProofs!LogStarts, RedisAssumption, SameInit DEF InitBoth
<1>2. I /\ [NextBoth]_all => I'
  BY BothKeep, StepsOfEach, RedisProofs!NextLogs, RedisAssumption DEF BothIInv
<1>3. I => LogKept
  BY RedisProofs!LogSays, RedisAssumption, SameLogKept DEF LogKept
<1> HIDE DEF I
<1> QED BY <1>1, <1>2, <1>3, PTL DEF SpecBoth

(* In the process, too, a quote computed for one client reaches others     *)
(* only as their first one, and only after that client has asked for it.   *)
THEOREM ProcessViews == SpecBoth => []PrivateViewOnlyInitially
<1> DEFINE I == BothIInv /\ RedisProofs!ViewOK
<1>1. InitBoth => I
  BY BothStart, RedisProofs!ViewStarting, RedisAssumption, SameInit DEF InitBoth
<1>2. I /\ [NextBoth]_all => I'
  BY BothKeep, StepsOfEach, RedisProofs!NextViews, RedisAssumption DEF BothIInv
<1>3. I => PrivateViewOnlyInitially
  BY RedisProofs!ViewSays, RedisAssumption, SameViews DEF PrivateViewOnlyInitially
<1> HIDE DEF I
<1> QED BY <1>1, <1>2, <1>3, PTL DEF SpecBoth

(* In the process, too, a subscriber to quotes has been sent every change  *)
(* that was handled, but for what EngineService excepts.                   *)
THEOREM ProcessQuotes == SpecBoth => []QuoteSettles
<1> DEFINE I == BothIInv /\ RedisProofs!SettleOK
<1>1. InitBoth => I
  BY BothStart, RedisProofs!SettleStarts, RedisAssumption, SameInit DEF InitBoth
<1>2. I /\ [NextBoth]_all => I'
  BY BothKeep, StepsOfEach, RedisProofs!NextSettles, RedisAssumption DEF BothIInv
<1>3. I => QuoteSettles
  BY RedisProofs!SettleSays, RedisAssumption, SameSettles DEF QuoteSettles, BothIInv
<1> HIDE DEF I
<1> QED BY <1>1, <1>2, <1>3, PTL DEF SpecBoth

-----------------------------------------------------------------------------
(* FreshFeed.                                                              *)

shown == QuoteReports \cup Redis!QuoteUpdates

LEMMA FeedStarts == InitBoth => Feed!Init
<1> SUFFICES ASSUME InitBoth PROVE Feed!Init
  OBVIOUS
<1>1. saved = 0 /\ QuoteReports = {}
  BY DEF InitBoth, Init, InitEngine, QuoteReports
<1>2. Redis!QuoteUpdates = {}
  BY DEF InitBoth, Redis!Init, Redis!QuoteUpdates
<1> QED BY <1>1, <1>2 DEF Feed!Init

LEMMA FeedSteps ==
    ASSUME BothIInv, BothIInv', NextBoth
    PROVE  [Feed!Save \/ Feed!Show]_<<saved, shown>>
<1> DEFINE Shows(R, m, v) == shown' = shown \cup {<<r, m, v>> : r \in R}
<1>1. ASSUME NEW m, NEW v, NEW R, R \subseteq Sessions \cup Subs, Shows(R, m, v),
             saved' = saved, R # {} => OfChange(m, v)
      PROVE  [Feed!Save \/ Feed!Show]_<<saved, shown>>
  <2>1. CASE R = {}
    <3>1. shown' = shown
      BY <1>1, <2>1
    <3> QED BY <1>1, <3>1
  <2>2. CASE R # {}
    <3>1. OfChange(m, v) /\ R \in SUBSET (Sessions \cup Subs)
      BY <1>1, <2>2
    <3>2. Feed!Show
      BY <1>1, <3>1 DEF Feed!Show, shown, OfChange
    <3> QED BY <3>2
  <2> QED BY <2>1, <2>2
<1>2. CASE AcceptorStep
  <2>1. PICK m, v, R : /\ R \subseteq Sessions
                       /\ QuoteReports' = QuoteReports \cup {<<r, m, v>> : r \in R}
                       /\ R # {} => OfChange(m, v)
    BY <1>2, OneReport DEF AcceptorStep, BothIInv
  <2>2. saved' = saved
    BY <1>2, AcceptorLeavesEngine DEF AcceptorStep, engine
  <2>3. Redis!QuoteUpdates' = Redis!QuoteUpdates
    BY <1>2 DEF AcceptorStep, service, Redis!QuoteUpdates
  <2>4. Shows(R, m, v)
    BY <2>1, <2>3 DEF shown
  <2> QED BY <1>1, <2>1, <2>2, <2>4
<1>3. CASE ServiceStep
  <2>1. PICK m, v, R :
            /\ R \subseteq Subs
            /\ Redis!QuoteUpdates' = Redis!QuoteUpdates \cup {<<r, m, v>> : r \in R}
            /\ R # {} => OfChange(m, v)
    <3>1. PICK m, v, R :
            /\ R \subseteq Subs
            /\ RedisProofs!QuoteUpdates' =
                    RedisProofs!QuoteUpdates \cup {<<r, m, v>> : r \in R}
            /\ R # {} => RedisProofs!OfChange(m, v)
      BY <1>3, RedisProofs!OneQuote, RedisAssumption, SameService DEF ServiceStep, BothIInv
    <3>2. Redis!QuoteUpdates' = Redis!QuoteUpdates \cup {<<r, m, v>> : r \in R}
      BY <3>1 DEF Redis!QuoteUpdates, RedisProofs!QuoteUpdates
    <3>3. RedisProofs!OfChange(m, v) => OfChange(m, v)
      BY DEF OfChange, RedisProofs!OfChange
    <3> QED BY <3>1, <3>2, <3>3
  <2>2. saved' = saved
    BY <1>3, SameService, RedisProofs!ServiceLeavesEngine, RedisAssumption
       DEF ServiceStep, RedisProofs!engine
  <2>3. QuoteReports' = QuoteReports
    BY <1>3 DEF ServiceStep, acceptor, ghosts, QuoteReports
  <2>4. Shows(R, m, v)
    BY <2>1, <2>3 DEF shown
  <2> QED BY <1>1, <2>1, <2>2, <2>4
<1>4. CASE EngineStep
  <2>1. shown' = shown
    BY <1>4 DEF EngineStep, acceptor, service, ghosts, shown, QuoteReports,
                Redis!QuoteUpdates
  <2>2. CASE Publish
    BY <2>1, <2>2 DEF Publish
  <2>3. CASE SaveNext
    <3>1. saved' = saved + 1 /\ saved < MaxMsgs
      BY <2>3, EngineAssumption DEF SaveNext, BothIInv, IInv, EngineOK
    <3> QED BY <2>1, <3>1 DEF Feed!Save, shown
  <2> QED BY <1>4, <2>2, <2>3 DEF EngineStep, EngineNext
<1> QED BY <1>2, <1>3, <1>4 DEF NextBoth

(* The two feeds together implement FreshFeed, whatever the sessions,      *)
(* clients, instruments and messages, and however Redis and MongoDB fail:  *)
(* a quote that is reported or broadcast has the change it is sent for, or *)
(* it is of no book because its query failed.                              *)
THEOREM FeedsAreFresh == SpecBoth => QuotesAreFresh
<1>1. BothIInv /\ BothIInv' /\ [NextBoth]_all
            => [Feed!Save \/ Feed!Show]_<<saved, QuoteReports \cup Redis!QuoteUpdates>>
  <2>1. UNCHANGED all => UNCHANGED <<saved, QuoteReports \cup Redis!QuoteUpdates>>
    BY DEF all, acceptor, service, ghosts, engine, QuoteReports, Redis!QuoteUpdates
  <2> QED BY <2>1, FeedSteps DEF shown
<1> QED BY <1>1, FeedStarts, BothStart, BothKeep, PTL DEF SpecBoth, QuotesAreFresh, Feed!Spec
=============================================================================
