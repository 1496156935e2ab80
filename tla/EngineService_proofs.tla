------------------------ MODULE EngineService_proofs ------------------------
(***************************************************************************)
(* Invariants of EngineService, for any instruments, clients and messages  *)
(* and any failures of Redis and of the queries for books: types, what the *)
(* lists ENGINE-<instrument> keep, whom a quote made for one client        *)
(* reaches, that a subscriber has been sent every change that was handled, *)
(* and that what is broadcast has the change it is broadcast for, or comes *)
(* from a query that failed.                                               *)
(***************************************************************************)
EXTENDS EngineService, EngineMessages_proofs

Job == [todo : Seq(Steps \X Insts), insts : Seq(Insts), log : Seq(Msgs),
        quote : Quotes, user : Views]

(* What a goroutine has left to do, and for which instruments.             *)
About(w, what, insts) ==
    \A n \in DOMAIN w.todo : w.todo[n][1] \in what /\ w.todo[n][2] \in insts

(* What is cached or broadcast was read after the message was saved, or    *)
(* its query failed; or it is still to be read.                            *)
Fresh(j, w) ==
    \A n \in DOMAIN w.todo : w.todo[n][1] \in {"cache", "broadcast"} =>
        NoOlder(w.quote.seen, j[2]) \/ \E k \in 1 .. n - 1 : w.todo[k][1] = "query"

EngineShape(j, w) ==
    /\ j[2] \in DOMAIN msg /\ About(w, {"delete", "read", "append"}, {Instrument(j[2])})
    /\ \A n \in DOMAIN w.todo : w.todo[n][1] = "append" <=> n = Len(w.todo)

QuoteShape(j, w) ==
    /\ j[2] \in OrderSaved \cup CancelSaved /\ w.user = Public
    /\ About(w, {"query", "cache", "broadcast"}, Instruments(j[2])) /\ Fresh(j, w)

OneShape(w, what) == \E i \in Insts : w.insts = <<i>> /\ About(w, what, {i})

Shape(j, w) ==
    /\ j[1] = "engine" => EngineShape(j, w)
    /\ j[1] = "quote" => QuoteShape(j, w)
    /\ j[1] = "subscribe" =>
            w.user = Public /\ OneShape(w, {"get", "query", "cache", "subscribe", "send"})
    /\ j[1] = "get_order_book" => OneShape(w, {"query", "cache"})

WorkOK ==
    DOMAIN work \subseteq Jobs /\ \A j \in DOMAIN work : work[j] \in Job /\ Shape(j, work[j])

HeardOK ==
    /\ heard \subseteq Subs \X (0 .. MaxMsgs) \X (0 .. saved) \X Views
    /\ \A h \in heard : h[2] # 0 =>
            h[2] \in 1 .. saved /\ h[3] \in {0} \cup (h[2] .. saved)

OthersOK ==
    /\ engineLog \in [Insts -> Seq(Msgs)] /\ quote \in [Insts -> Quotes]
    /\ subscribed \subseteq Insts \X Subs
    /\ stale \subseteq Jobs /\ lost \subseteq Insts
    /\ newest \in [Insts -> 0 .. saved] /\ excused \subseteq Subs \X Msgs

IInv == EngineOK /\ OthersOK /\ WorkOK /\ HeardOK

-----------------------------------------------------------------------------
LEMMA JobKinds ==
    ASSUME NEW j \in Jobs
    PROVE  j[1] \in {"engine", "quote", "subscribe", "get_order_book"}
BY DEF Jobs, Subscribing, Asked

LEMMA IdleType ==
    ASSUME saved \in Nat
    PROVE  Idle \in Job /\ NoQuote \in Quotes /\ Public \in Views
<1>1. << >> \in Seq(Steps \X Insts) /\ << >> \in Seq(Insts) /\ << >> \in Seq(Msgs)
  OBVIOUS
<1> QED BY <1>1 DEF Idle, Job, NoQuote, Quotes, Views

LEMMA Frame ==
    ASSUME IInv, UNCHANGED engine, OthersOK', WorkOK', UNCHANGED heard \/ HeardOK'
    PROVE  IInv'
<1>1. EngineOK'
  BY DEF IInv, EngineOK, BookOK, Instruments, engine
<1>2. HeardOK'
  BY DEF IInv, HeardOK, engine
<1> QED BY <1>1, <1>2 DEF IInv

LEMMA NewWork ==
    ASSUME WorkOK, NEW j \in Jobs, NEW r \in Job, Shape(j, r), Becomes(j, r),
           UNCHANGED engine
    PROVE  /\ WorkOK' /\ DOMAIN work' = DOMAIN work \cup {j} /\ work'[j] = r
           /\ \A i \in DOMAIN work \ {j} : work'[i] = work[i]
<1>1. /\ DOMAIN work' = DOMAIN work \cup {j} /\ work'[j] = r
      /\ \A i \in DOMAIN work \ {j} : work'[i] = work[i]
  BY DEF Becomes
<1>2. /\ Job' = Job
      /\ \A i, w : Shape(i, w)' <=> Shape(i, w)
  BY DEF Job, Quotes, Shape, EngineShape, QuoteShape, OrderSaved, CancelSaved,
         Instruments, Instrument, engine, OneShape, About, Fresh
<1> QED BY <1>1, <1>2 DEF WorkOK

(* The step a goroutine is at.                                             *)
LEMMA StepType ==
    ASSUME IInv, NEW j, NEW what, At(j, what)
    PROVE  /\ j \in Jobs /\ j \in DOMAIN work /\ work[j] \in Job /\ Shape(j, work[j])
           /\ work[j].todo \in Seq(Steps \X Insts) /\ work[j].todo # << >>
           /\ 1 \in DOMAIN work[j].todo /\ work[j].todo[1][1] = what
           /\ Inst(j) = work[j].todo[1][2] /\ Inst(j) \in Insts /\ saved \in Nat
<1>1. /\ j \in Jobs /\ j \in DOMAIN work /\ work[j] \in Job /\ Shape(j, work[j])
      /\ work[j].todo # << >> /\ work[j].todo[1][1] = what /\ saved \in Nat
  BY DEF At, IInv, WorkOK, EngineOK
<1>2. work[j].todo \in Seq(Steps \X Insts)
  BY <1>1 DEF Job
<1>3. 1 \in DOMAIN work[j].todo /\ work[j].todo[1] \in Steps \X Insts
  BY <1>1, <1>2, TailOfSeq
<1> QED BY <1>1, <1>2, <1>3 DEF Inst

(* One step done, the quote read or kept.                                  *)
LEMMA ShapeTail ==
    ASSUME NEW j \in Jobs, NEW w \in Job, Shape(j, w), w.todo # << >>,
           NEW r \in Job, r.todo = Tail(w.todo), r.insts = w.insts, r.user = w.user,
           \/ w.todo[1][1] # "query" /\ r.quote.seen = w.quote.seen
           \/ j[1] # "quote" \/ NoOlder(r.quote.seen, j[2])
    PROVE  Shape(j, r)
<1>1. w.todo \in Seq(Steps \X Insts)
  BY DEF Job
<1>2. /\ \A n \in DOMAIN r.todo : /\ n \in Nat \ {0} /\ n + 1 \in DOMAIN w.todo
                                  /\ r.todo[n] = w.todo[n + 1]
      /\ Len(r.todo) = Len(w.todo) - 1 /\ Len(w.todo) \in Nat
  BY <1>1, TailOfSeq
<1>3. \A what, insts : About(w, what, insts) => About(r, what, insts)
  BY <1>2 DEF About
<1>4. j[1] = "engine" => EngineShape(j, r)
  BY <1>2, <1>3 DEF Shape, EngineShape
<1>5. ASSUME j[1] = "quote" PROVE Fresh(j, r)
  <2> SUFFICES ASSUME NEW n \in DOMAIN r.todo, r.todo[n][1] \in {"cache", "broadcast"},
                      ~NoOlder(r.quote.seen, j[2])
               PROVE  \E k \in 1 .. n - 1 : r.todo[k][1] = "query"
    BY DEF Fresh
  <2>1. w.todo[1][1] # "query" /\ ~NoOlder(w.quote.seen, j[2])
    BY <1>5
  <2>2. PICK k \in 1 .. n : w.todo[k][1] = "query"
    BY <1>2, <1>5, <2>1 DEF Shape, QuoteShape, Fresh
  <2>3. k - 1 \in 1 .. n - 1 /\ k - 1 \in DOMAIN r.todo
    BY <1>1, <1>2, <2>1, <2>2
  <2>4. (k - 1) + 1 = k
    BY <1>2
  <2>5. r.todo[k - 1] = w.todo[k]
    BY <1>2, <2>3, <2>4
  <2> QED BY <2>2, <2>3, <2>5
<1>6. j[1] = "quote" => QuoteShape(j, r)
  BY <1>3, <1>5 DEF Shape, QuoteShape
<1>7. \A what : OneShape(w, what) => OneShape(r, what)
  BY <1>3 DEF OneShape
<1> QED BY <1>4, <1>6, <1>7 DEF Shape

(* A step that does nothing but to go on, perhaps with another list.       *)
LEMMA GoesOn ==
    ASSUME IInv, NEW j, NEW what, At(j, what), NEW r, Becomes(j, r), UNCHANGED engine,
           \/ r = Step(j) /\ what # "query"
           \/ \E list \in Seq(Msgs) : r = [Step(j) EXCEPT !.log = list] /\ what # "query"
           \/ \E q \in Quotes : /\ r = [Step(j) EXCEPT !.quote = q]
                                /\ what # "query" => q.seen = work[j].quote.seen
                                /\ j[1] = "quote" => NoOlder(q.seen, j[2])
           \/ \E q \in Quotes : j[1] # "quote" /\ r = [Step(j) EXCEPT !.quote = q]
    PROVE  /\ WorkOK' /\ DOMAIN work' = DOMAIN work /\ work'[j] = r
           /\ r.todo = Tail(work[j].todo) /\ r.insts = work[j].insts
           /\ r.user = work[j].user
           /\ \A i \in DOMAIN work \ {j} : work'[i] = work[i]
<1>1. /\ j \in Jobs /\ j \in DOMAIN work /\ work[j] \in Job /\ Shape(j, work[j])
      /\ work[j].todo # << >> /\ work[j].todo[1][1] = what
      /\ Tail(work[j].todo) \in Seq(Steps \X Insts)
  BY StepType, TailOfSeq
<1>2. /\ Step(j) \in Job /\ Step(j).todo = Tail(work[j].todo)
      /\ Step(j).insts = work[j].insts /\ Step(j).user = work[j].user
      /\ Step(j).quote = work[j].quote
  BY <1>1 DEF Step, Job
<1>3. /\ r \in Job /\ r.todo = Tail(work[j].todo) /\ r.insts = work[j].insts
      /\ r.user = work[j].user
      /\ \/ what # "query" /\ r.quote.seen = work[j].quote.seen
         \/ j[1] # "quote" \/ NoOlder(r.quote.seen, j[2])
  BY <1>2 DEF Job
<1>4. Shape(j, r)
  BY <1>1, <1>3, ShapeTail
<1> QED BY <1>1, <1>3, <1>4, NewWork DEF IInv

LEMMA HandleConsumeKeeps ==
    ASSUME IInv, NEW m \in DOMAIN msg, HandleConsume(m)
    PROVE  IInv'
<1> DEFINE i == Instrument(m)
           j == <<"engine", m>>
           todo == (IF i \in Expired THEN <<<<"delete", i>>>> ELSE << >>)
                        \o <<<<"read", i>>, <<"append", i>>>>
           r == [Idle EXCEPT !.todo = todo, !.insts = <<i>>]
<1>1. Becomes(j, r) /\ UNCHANGED engine /\ UNCHANGED <<logs, quotes>>
  BY DEF HandleConsume, Starts, engine
<1>2. i \in Insts /\ m \in Msgs /\ saved \in Nat
  BY MessageType DEF IInv, EngineOK, Msgs
<1>3. /\ todo \in Seq(Steps \X Insts)
      /\ \A n \in DOMAIN todo : todo[n][1] \in {"delete", "read", "append"} /\ todo[n][2] = i
      /\ \A n \in DOMAIN todo : todo[n][1] = "append" <=> n = Len(todo)
  <2> DEFINE a == <<"delete", i>>
             b == <<"read", i>>
             c == <<"append", i>>
  <2>1. /\ a \in Steps \X Insts /\ b \in Steps \X Insts /\ c \in Steps \X Insts
        /\ a[1] = "delete" /\ b[1] = "read" /\ c[1] = "append"
        /\ a[2] = i /\ b[2] = i /\ c[2] = i
    BY <1>2 DEF Steps
  <2>2. todo = (IF i \in Expired THEN <<a>> ELSE << >>) \o <<b, c>>
    OBVIOUS
  <2> HIDE DEF a, b, c, todo
  <2>3. CASE i \in Expired
    <3>1. /\ todo \in Seq(Steps \X Insts) /\ Len(todo) = 3
          /\ todo[1] = a /\ todo[2] = b /\ todo[3] = c
      BY <2>1, <2>2, <2>3
    <3> QED BY <2>1, <3>1
  <2>4. CASE i \notin Expired
    <3>1. /\ todo \in Seq(Steps \X Insts) /\ Len(todo) = 2
          /\ todo[1] = b /\ todo[2] = c
      BY <2>1, <2>2, <2>4
    <3> QED BY <2>1, <3>1
  <2> QED BY <2>3, <2>4
<1>4. r \in Job /\ r.todo = todo
  <2> HIDE DEF todo
  <2>1. Idle \in Job /\ <<i>> \in Seq(Insts)
    BY <1>2, IdleType
  <2> QED BY <1>3, <2>1 DEF Job
<1>5. Shape(j, r)
  BY <1>3, <1>4 DEF Shape, EngineShape, About
<1>6. j \in Jobs
  BY <1>2 DEF Jobs
<1> HIDE DEF r, todo, j
<1>7. WorkOK'
  BY <1>1, <1>4, <1>5, <1>6, NewWork DEF IInv
<1>8. OthersOK' /\ UNCHANGED heard
  BY <1>1 DEF IInv, OthersOK, Quotes, engine, logs, quotes
<1> QED BY <1>1, <1>7, <1>8, Frame

LEMMA LogKeeps ==
    ASSUME IInv, NEW j \in Jobs, checkDateToRemoveRedis(j) \/ ReadLog(j) \/ WriteLog(j)
    PROVE  IInv'
<1>1. CASE checkDateToRemoveRedis(j)
  <2>1. At(j, "delete") /\ Becomes(j, Step(j)) /\ UNCHANGED engine
    BY <1>1 DEF checkDateToRemoveRedis, Continues, engine
  <2>2. WorkOK' /\ Inst(j) \in Insts
    BY <2>1, GoesOn, StepType
  <2>3. OthersOK' /\ UNCHANGED heard
    BY <1>1, <2>2 DEF checkDateToRemoveRedis, IInv, OthersOK, Quotes, engine, quotes
  <2> QED BY <2>1, <2>2, <2>3, Frame
<1>2. CASE ReadLog(j)
  <2>1. PICK ok \in Replies :
            /\ Becomes(j, [Step(j) EXCEPT !.log = IF ok THEN engineLog[Inst(j)] ELSE << >>])
            /\ lost' = IF ok THEN lost ELSE lost \cup {Inst(j)}
    BY <1>2 DEF ReadLog
  <2>2. At(j, "read") /\ UNCHANGED engine /\ Inst(j) \in Insts
    BY <1>2, StepType DEF ReadLog, engine
  <2>3. (IF ok THEN engineLog[Inst(j)] ELSE << >>) \in Seq(Msgs)
    BY <2>2 DEF IInv, OthersOK
  <2> DEFINE list == IF ok THEN engineLog[Inst(j)] ELSE << >>
  <2>4. WorkOK'
    <3> HIDE DEF list
    <3>1. Becomes(j, [Step(j) EXCEPT !.log = list]) /\ list \in Seq(Msgs)
      BY <2>1, <2>3 DEF list
    <3> QED BY <2>2, <3>1, GoesOn
  <2>5. OthersOK' /\ UNCHANGED heard
    BY <1>2, <2>1, <2>2 DEF ReadLog, IInv, OthersOK, Quotes, engine, quotes
  <2> QED BY <2>2, <2>4, <2>5, Frame
<1>3. CASE WriteLog(j)
  <2>1. At(j, "append") /\ Becomes(j, Step(j)) /\ UNCHANGED engine
    BY <1>3 DEF WriteLog, Continues, engine
  <2>2. WorkOK' /\ Inst(j) \in Insts /\ work[j] \in Job /\ j[1] = "engine"
    <3>1. WorkOK'
      BY <2>1, GoesOn
    <3>2. /\ Inst(j) \in Insts /\ work[j] \in Job /\ Shape(j, work[j])
          /\ 1 \in DOMAIN work[j].todo /\ work[j].todo[1][1] = "append"
      BY <2>1, StepType
    <3>3. j[1] = "engine"
      BY <3>2, JobKinds DEF Shape, QuoteShape, OneShape, About
    <3> QED BY <3>1, <3>2, <3>3
  <2>3. Appended(work[j].log, j[2]) \in Seq(Msgs)
    <3>1. j[2] \in Msgs /\ work[j].log \in Seq(Msgs)
      BY <2>2 DEF Jobs, Subscribing, Asked, Job
    <3> QED BY <3>1 DEF Appended
  <2>4. \E ok \in Replies :
            /\ engineLog' = IF ok THEN [engineLog EXCEPT ![Inst(j)] =
                                            Appended(work[j].log, j[2])]
                            ELSE engineLog
            /\ lost' = IF ok /\ j \notin stale THEN lost ELSE lost \cup {Inst(j)}
            /\ stale' = IF ok THEN stale \cup Others(j) ELSE stale
    BY <1>3 DEF WriteLog
  <2>5. Others(j) \subseteq Jobs
    BY DEF Others, IInv, WorkOK
  <2>6. engineLog' \in [Insts -> Seq(Msgs)] /\ lost' \subseteq Insts /\ stale' \subseteq Jobs
    BY <2>2, <2>3, <2>4, <2>5 DEF IInv, OthersOK
  <2>7. OthersOK' /\ UNCHANGED heard
    BY <1>3, <2>6 DEF WriteLog, IInv, OthersOK, Quotes, engine, quotes
  <2> QED BY <2>1, <2>2, <2>7, Frame
<1> QED BY <1>1, <1>2, <1>3

-----------------------------------------------------------------------------
(* Quotes.                                                                 *)

LEMMA QuoteSteps ==
    ASSUME NEW i \in Insts
    PROVE  /\ HandleConsumeQuote(i) \in Seq(Steps \X Insts)
           /\ Len(HandleConsumeQuote(i)) = 4
           /\ HandleConsumeQuote(i)[1][1] = "query"
           /\ \A n \in 1 .. 4 :
                /\ HandleConsumeQuote(i)[n] \in Steps \X Insts
                /\ HandleConsumeQuote(i)[n][1] \in {"query", "cache", "broadcast"}
                /\ HandleConsumeQuote(i)[n][2] = i
                /\ HandleConsumeQuote(i)[n][1] = "query" <=> n = 1
                /\ HandleConsumeQuote(i)[n][1] = "broadcast" <=> n = 4
BY DEF HandleConsumeQuote, Steps

LEMMA FourEach ==
    ASSUME NEW L \in Nat, NEW n \in 1 .. 4 * L
    PROVE  /\ ((n - 1) % 4) + 1 \in 1 .. 4 /\ ((n - 1) \div 4) + 1 \in 1 .. L
           /\ (n - 1) % 4 = 1 => n - 1 \in 1 .. n - 1 /\ ((n - 1) - 1) % 4 = 0
           /\ (n - 1) % 4 = 2 => n - 2 \in 1 .. n - 1 /\ ((n - 2) - 1) % 4 = 0
           /\ (n - 1) % 4 = 3 => n - 3 \in 1 .. n - 1 /\ ((n - 3) - 1) % 4 = 0
BY SMT

LEMMA CancelSteps ==
    ASSUME NEW insts \in Seq(Insts)
    PROVE  LET t == HandleConsumeQuoteCancel(insts)
           IN  /\ t \in Seq(Steps \X Insts)
               /\ \A n \in DOMAIN t :
                    /\ t[n][1] \in {"query", "cache", "broadcast"}
                    /\ t[n][2] \in {insts[k] : k \in DOMAIN insts}
                    /\ t[n][1] # "query" => \E k \in 1 .. n - 1 : t[k][1] = "query"
<1> DEFINE t == HandleConsumeQuoteCancel(insts)
           L == Len(insts)
           q(n) == ((n - 1) \div 4) + 1
           r(n) == ((n - 1) % 4) + 1
<1>1. t = [n \in 1 .. 4 * L |-> HandleConsumeQuote(insts[q(n)])[r(n)]]
  BY DEF HandleConsumeQuoteCancel
<1>2. L \in Nat /\ DOMAIN insts = 1 .. L
  OBVIOUS
<1>3. ASSUME NEW n \in 1 .. 4 * L
      PROVE  /\ q(n) \in DOMAIN insts /\ insts[q(n)] \in Insts /\ r(n) \in 1 .. 4
             /\ t[n] = HandleConsumeQuote(insts[q(n)])[r(n)]
  <2>1. q(n) \in 1 .. L /\ r(n) \in 1 .. 4
    BY <1>2, FourEach
  <2> QED BY <1>1, <1>2, <2>1
<1> HIDE DEF t, q
<1>4. ASSUME NEW n \in 1 .. 4 * L
      PROVE  /\ t[n] \in Steps \X Insts /\ t[n][1] \in {"query", "cache", "broadcast"}
             /\ t[n][2] = insts[q(n)]
             /\ t[n][1] = "query" <=> r(n) = 1
  BY <1>3, QuoteSteps
<1>5. 4 * L \in Nat /\ t \in [1 .. 4 * L -> Steps \X Insts]
  BY <1>1, <1>2, <1>4
<1>6. t \in Seq(Steps \X Insts) /\ DOMAIN t = 1 .. 4 * L
  BY <1>5
<1>7. ASSUME NEW n \in DOMAIN t, t[n][1] # "query"
      PROVE  \E k \in 1 .. n - 1 : t[k][1] = "query"
  <2>1. (n - 1) % 4 \in {1, 2, 3}
    BY <1>2, <1>4, <1>6, <1>7, FourEach
  <2>2. PICK k \in 1 .. n - 1 : (k - 1) % 4 = 0
    BY <1>2, <1>6, <2>1, FourEach
  <2>3. n \in 1 .. 4 * L /\ 4 * L \in Nat
    BY <1>5, <1>6
  <2>4. k \in 1 .. 4 * L /\ r(k) = 1
    BY <2>2, <2>3
  <2> HIDE DEF r
  <2> QED BY <1>4, <2>2, <2>4
<1>8. \A n \in DOMAIN t : /\ t[n][1] \in {"query", "cache", "broadcast"}
                          /\ t[n][2] \in {insts[k] : k \in DOMAIN insts}
  BY <1>3, <1>4, <1>6
<1> QED BY <1>6, <1>7, <1>8 DEF t

LEMMA ConsumeQuoteKeeps ==
    ASSUME IInv, NEW m \in DOMAIN msg, ConsumeQuote(m)
    PROVE  IInv'
<1> DEFINE j == <<"quote", m>>
<1>1. /\ UNCHANGED engine /\ UNCHANGED <<logs, quotes>> /\ saved \in Nat
      /\ m \in Msgs /\ msg[m].insts \in Seq(Insts) /\ Instrument(m) \in Insts
      /\ Instrument(m) \in Instruments(m) /\ j \in Jobs
  BY MessageType DEF ConsumeQuote, Starts, engine, IInv, EngineOK, Msgs, Jobs
<1>2. ASSUME m \in OrderSaved \cup CancelSaved, NEW todo \in Seq(Steps \X Insts),
             NEW insts \in Seq(Insts),
             Becomes(j, [Idle EXCEPT !.todo = todo, !.insts = insts]),
             \A n \in DOMAIN todo :
                /\ todo[n][1] \in {"query", "cache", "broadcast"}
                /\ todo[n][2] \in Instruments(m)
                /\ todo[n][1] # "query" => \E k \in 1 .. n - 1 : todo[k][1] = "query"
      PROVE  WorkOK'
  <2> DEFINE r == [Idle EXCEPT !.todo = todo, !.insts = insts]
  <2>1. r \in Job /\ r.todo = todo /\ r.user = Public
    BY <1>1, <1>2, IdleType DEF Idle, Job
  <2>2. Becomes(j, r)
    BY <1>2
  <2> HIDE DEF r
  <2>4. Fresh(j, r)
    BY <1>2, <2>1 DEF Fresh
  <2>5. About(r, {"query", "cache", "broadcast"}, Instruments(m))
    BY <1>2, <2>1 DEF About
  <2>3. Shape(j, r)
    BY <1>2, <2>1, <2>4, <2>5 DEF Shape, QuoteShape
  <2> HIDE DEF j
  <2> QED BY <1>1, <2>1, <2>2, <2>3, NewWork DEF IInv
<1>5. OthersOK' /\ UNCHANGED heard
  BY <1>1 DEF IInv, OthersOK, Quotes, engine, logs, quotes
<1>3. CASE /\ m \in OrderSaved
           /\ Starts(j, HandleConsumeQuote(Instrument(m)), <<Instrument(m)>>)
  <2> DEFINE todo == HandleConsumeQuote(Instrument(m))
  <2>1. Becomes(j, [Idle EXCEPT !.todo = todo, !.insts = <<Instrument(m)>>])
    BY <1>3 DEF Starts
  <2>2. <<Instrument(m)>> \in Seq(Insts)
    BY <1>1
  <2>3. todo \in Seq(Steps \X Insts) /\ DOMAIN todo = 1 .. 4
    BY <1>1, QuoteSteps
  <2>4. \A n \in DOMAIN todo :
            /\ todo[n][1] \in {"query", "cache", "broadcast"}
            /\ todo[n][2] \in Instruments(m)
            /\ todo[n][1] # "query" => 1 \in 1 .. n - 1 /\ todo[1][1] = "query"
    BY <1>1, <2>3, QuoteSteps
  <2> HIDE DEF todo, j
  <2>5. WorkOK'
    BY <1>2, <1>3, <2>1, <2>2, <2>3, <2>4
  <2> QED BY <1>1, <1>5, <2>5, Frame
<1>4. CASE /\ m \in CancelSaved
           /\ Starts(j, HandleConsumeQuoteCancel(msg[m].insts), msg[m].insts)
  <2>1. Becomes(j, [Idle EXCEPT !.todo = HandleConsumeQuoteCancel(msg[m].insts),
                                !.insts = msg[m].insts])
    BY <1>4 DEF Starts
  <2> DEFINE todo == HandleConsumeQuoteCancel(msg[m].insts)
  <2>2. /\ todo \in Seq(Steps \X Insts)
        /\ \A n \in DOMAIN todo :
            /\ todo[n][1] \in {"query", "cache", "broadcast"}
            /\ todo[n][2] \in Instruments(m)
            /\ todo[n][1] # "query" => \E k \in 1 .. n - 1 : todo[k][1] = "query"
    BY <1>1, CancelSteps DEF Instruments
  <2> HIDE DEF todo, j
  <2>3. WorkOK'
    BY <1>1, <1>2, <1>4, <2>1, <2>2 DEF todo
  <2> QED BY <1>1, <1>5, <2>3, Frame
<1> QED BY <1>3, <1>4 DEF ConsumeQuote

(* A goroutine of one instrument starts.                                   *)
LEMMA CallKeeps ==
    ASSUME IInv, NEW i \in Insts,
           \/ \E c \in Subs : SubscribeQuote(c, i)
           \/ \E j \in Asked, u \in Views : GetOrderBook(j, u, i)
    PROVE  IInv'
<1>1. saved \in Nat /\ Idle \in Job /\ <<i>> \in Seq(Insts)
  BY IdleType DEF IInv, EngineOK
<1>2. UNCHANGED engine /\ UNCHANGED <<logs, quotes>>
  BY DEF SubscribeQuote, GetOrderBook, Starts, engine
<1>3. ASSUME NEW c \in Subs, SubscribeQuote(c, i) PROVE WorkOK'
  <2> DEFINE j == <<"subscribe", c>>
             todo == <<<<"get", i>>, <<"subscribe", i>>, <<"send", i>>>>
             r == [Idle EXCEPT !.todo = todo, !.insts = <<i>>]
  <2>1. Becomes(j, r)
    BY <1>3 DEF SubscribeQuote, Starts
  <2>2. /\ todo \in Seq(Steps \X Insts)
        /\ \A n \in DOMAIN todo : todo[n][1] \in {"get", "subscribe", "send"} /\ todo[n][2] = i
    BY DEF Steps
  <2>3. j \in Jobs
    BY DEF Jobs, Subscribing
  <2> HIDE DEF todo
  <2>4. r \in Job /\ r.todo = todo /\ r.insts = <<i>> /\ r.user = Public
    BY <1>1, <2>2 DEF Idle, Job
  <2> HIDE DEF r
  <2>5. Shape(j, r)
    BY <2>2, <2>4 DEF Shape, OneShape, About
  <2> HIDE DEF j
  <2> QED BY <1>2, <2>1, <2>3, <2>4, <2>5, NewWork DEF IInv
<1>4. ASSUME NEW j \in Asked, NEW u \in Views, GetOrderBook(j, u, i) PROVE WorkOK'
  <2> DEFINE todo == <<<<"query", i>>, <<"cache", i>>>>
             r == [Idle EXCEPT !.todo = todo, !.insts = <<i>>, !.user = u]
  <2>1. Becomes(j, r) /\ j \in Jobs /\ j[1] = "get_order_book"
    BY <1>4 DEF GetOrderBook, Jobs, Asked
  <2>2. /\ todo \in Seq(Steps \X Insts)
        /\ \A n \in DOMAIN todo : todo[n][1] \in {"query", "cache"} /\ todo[n][2] = i
    BY DEF Steps
  <2> HIDE DEF todo
  <2>3. r \in Job /\ r.todo = todo /\ r.insts = <<i>>
    BY <1>1, <2>2 DEF Idle, Job
  <2> HIDE DEF r
  <2>4. Shape(j, r)
    BY <2>1, <2>2, <2>3 DEF Shape, OneShape, About
  <2> QED BY <1>2, <2>1, <2>3, <2>4, NewWork DEF IInv
<1>5. OthersOK' /\ UNCHANGED heard
  BY <1>2 DEF IInv, OthersOK, Quotes, engine, logs, quotes
<1> QED BY <1>2, <1>3, <1>4, <1>5, Frame

LEMMA QuoteType ==
    ASSUME IInv, NEW j, NEW what, At(j, what)
    PROVE  /\ work[j].quote \in Quotes /\ quote[Inst(j)] \in Quotes
           /\ work[j].user \in Views /\ work[j].log \in Seq(Msgs)
<1>1. work[j] \in Job /\ Inst(j) \in Insts
  BY StepType
<1> QED BY <1>1 DEF Job, IInv, OthersOK

LEMMA LacksType ==
    ASSUME IInv, NEW c \in Subs, NEW v \in 0 .. saved, NEW n \in 0 .. saved
    PROVE  Lacks(c, v, n) \subseteq Subs \X Msgs
BY EngineAssumption DEF Lacks, IInv, EngineOK, Msgs

LEMMA GetQuoteKeeps ==
    ASSUME IInv, NEW j \in Jobs, GetQuote(j)
    PROVE  IInv'
<1> DEFINE i == Inst(j)
           list == <<<<"query", i>>, <<"cache", i>>>> \o Tail(work[j].todo)
           r == [work[j] EXCEPT !.todo = list]
<1>1. /\ At(j, "get") /\ UNCHANGED engine /\ UNCHANGED heard
      /\ \/ Becomes(j, [Step(j) EXCEPT !.quote = quote[i]]) \/ Becomes(j, r)
      /\ excused' \subseteq excused \cup Lacks(j[2], quote[i].seen, newest[i])
      /\ UNCHANGED <<engineLog, stale, lost, quote, subscribed, newest>>
  BY DEF GetQuote, engine, logs
<1>2. /\ j[1] = "subscribe" /\ j[2] \in Subs /\ i \in Insts /\ work[j] \in Job
      /\ OneShape(work[j], {"get", "query", "cache", "subscribe", "send"})
      /\ work[j].user = Public
  <2>1. /\ 1 \in DOMAIN work[j].todo /\ work[j].todo[1][1] = "get" /\ i \in Insts
        /\ work[j] \in Job /\ Shape(j, work[j])
    BY <1>1, StepType
  <2>2. j[1] = "subscribe"
    BY <2>1, JobKinds DEF Shape, EngineShape, QuoteShape, OneShape, About
  <2>3. j[2] \in Subs
    BY <2>2 DEF Jobs, Subscribing, Asked
  <2> QED BY <2>1, <2>2, <2>3 DEF Shape
<1>3. ASSUME Becomes(j, [Step(j) EXCEPT !.quote = quote[i]]) PROVE WorkOK'
  <2>1. quote[i] \in Quotes /\ j[1] # "quote"
    BY <1>1, <1>2, QuoteType
  <2> HIDE DEF i
  <2> QED BY <1>1, <1>3, <2>1, GoesOn
<1>4. ASSUME Becomes(j, r) PROVE WorkOK'
  <2>1. /\ Tail(work[j].todo) \in Seq(Steps \X Insts)
        /\ \A n \in DOMAIN Tail(work[j].todo) :
                n + 1 \in DOMAIN work[j].todo /\ Tail(work[j].todo)[n] = work[j].todo[n + 1]
    BY <1>1, StepType, TailOfSeq
  <2> DEFINE first == <<<<"query", i>>, <<"cache", i>>>>
  <2>2. /\ first \in Seq(Steps \X Insts)
        /\ \A n \in DOMAIN first : first[n][1] \in {"query", "cache"} /\ first[n][2] = i
    BY <1>2 DEF Steps
  <2>3. PICK k \in Insts : work[j].insts = <<k>>
                           /\ About(work[j], {"get", "query", "cache", "subscribe", "send"}, {k})
    BY <1>2 DEF OneShape
  <2>4. i = k
    BY <1>1, <2>3, StepType DEF About
  <2> DEFINE rest == Tail(work[j].todo)
  <2>5. list = first \o rest
    OBVIOUS
  <2> HIDE DEF first, rest, list
  <2>6. /\ list \in Seq(Steps \X Insts)
        /\ \A n \in DOMAIN list : \/ n \in DOMAIN first /\ list[n] = first[n]
                                  \/ n - Len(first) \in DOMAIN rest
                                        /\ list[n] = rest[n - Len(first)]
    BY SMTT(20), <2>1, <2>2, <2>5, Concat DEF rest
  <2>7. \A n \in DOMAIN list : /\ list[n][1] \in {"get", "query", "cache", "subscribe", "send"}
                               /\ list[n][2] = k
    <3> TAKE n \in DOMAIN list
    <3>1. CASE n \in DOMAIN first /\ list[n] = first[n]
      BY <2>2, <2>4, <3>1
    <3>2. CASE n - Len(first) \in DOMAIN rest /\ list[n] = rest[n - Len(first)]
      <4> DEFINE k1 == n - Len(first)
      <4>1. k1 \in DOMAIN rest /\ list[n] = rest[k1]
        BY <3>2
      <4> HIDE DEF k1
      <4>2. k1 + 1 \in DOMAIN work[j].todo /\ list[n] = work[j].todo[k1 + 1]
        BY <2>1, <4>1 DEF rest
      <4> QED BY <2>3, <4>2 DEF About
    <3> QED BY <2>6, <3>1, <3>2
  <2>8. r \in Job /\ r.todo = list /\ r.insts = <<k>> /\ r.user = Public
    BY <1>2, <2>3, <2>6 DEF Job
  <2> HIDE DEF r
  <2>9. Shape(j, r)
    BY <1>2, <2>7, <2>8 DEF Shape, OneShape, About
  <2> QED BY <1>1, <1>4, <2>8, <2>9, NewWork DEF IInv
<1>5. OthersOK'
  <2>1. Lacks(j[2], quote[i].seen, newest[i]) \subseteq Subs \X Msgs
    <3>1. quote[i] \in Quotes /\ newest[i] \in 0 .. saved
      BY <1>1, <1>2, QuoteType DEF IInv, OthersOK
    <3> QED BY <1>2, <3>1, LacksType DEF Quotes
  <2> HIDE DEF i
  <2> QED BY <1>1, <2>1 DEF IInv, OthersOK, Quotes, engine
<1>6. WorkOK'
  BY <1>1, <1>3, <1>4
<1> QED BY <1>1, <1>5, <1>6, Frame

LEMMA QueryQuoteKeeps ==
    ASSUME IInv, NEW j \in Jobs, QueryQuote(j)
    PROVE  IInv'
<1>0. PICK v \in Finds(Inst(j)) :
        /\ Becomes(j, [Step(j) EXCEPT !.quote =
                        [seen |-> v, view |-> work[j].user, found |-> TRUE]])
        /\ excused' = IF j \notin Subscribing THEN excused
                      ELSE excused \cup Lacks(j[2], v, Version(Inst(j)))
  BY DEF QueryQuote
<1> DEFINE q == [seen |-> v, view |-> work[j].user, found |-> TRUE]
<1>1. /\ At(j, "query") /\ UNCHANGED engine
      /\ UNCHANGED <<engineLog, stale, lost, quote, subscribed, heard, newest>>
      /\ Becomes(j, [Step(j) EXCEPT !.quote = q])
      /\ excused' = IF j \notin Subscribing THEN excused
                    ELSE excused \cup Lacks(j[2], v, Version(Inst(j)))
  BY <1>0 DEF QueryQuote, engine, logs
<1>2. /\ Inst(j) \in Insts /\ work[j].user \in Views /\ Shape(j, work[j])
      /\ 1 \in DOMAIN work[j].todo /\ Inst(j) = work[j].todo[1][2]
  BY <1>1, StepType, QuoteType
<1>3. v \in 0 .. saved
  BY <1>2, FindsType DEF IInv
<1>4. j[1] = "quote" => NoOlder(v, j[2])
  <2> SUFFICES ASSUME j[1] = "quote" PROVE NoOlder(v, j[2])
    OBVIOUS
  <2>1. j[2] \in OrderSaved \cup CancelSaved /\ Inst(j) \in Instruments(j[2])
    BY <1>2 DEF Shape, QuoteShape, About
  <2>2. /\ j[2] \in DOMAIN msg /\ j[2] <= saved /\ msg[j[2]].kind # "rejected"
        /\ j[2] \in Nat
    BY <2>1, MessageType DEF OrderSaved, CancelSaved, IInv
  <2>3. v \in {0} \cup (j[2] .. saved)
    BY <2>1, <2>2, FindsFresh DEF IInv
  <2> QED BY <2>2, <2>3 DEF NoOlder
<1>5. q \in Quotes /\ q.seen = v
  BY <1>2, <1>3 DEF Quotes
<1> HIDE DEF q
<1>6. WorkOK'
  BY <1>1, <1>4, <1>5, GoesOn
<1>7. excused' \subseteq Subs \X Msgs
  <2>1. j \in Subscribing => j[2] \in Subs
    BY DEF Subscribing
  <2>2. Version(Inst(j)) \in 0 .. saved
    BY <1>2, VersionType DEF IInv
  <2>3. j \in Subscribing => Lacks(j[2], v, Version(Inst(j))) \subseteq Subs \X Msgs
    BY <1>3, <2>1, <2>2, LacksType
  <2> QED BY <1>1, <2>3 DEF IInv, OthersOK
<1>8. OthersOK'
  BY <1>1, <1>7 DEF IInv, OthersOK, Quotes, engine
<1> QED BY <1>1, <1>6, <1>8, Frame

LEMMA CacheQuoteKeeps ==
    ASSUME IInv, NEW j \in Jobs, CacheQuote(j)
    PROVE  IInv'
<1>1. /\ At(j, "cache") /\ UNCHANGED engine /\ UNCHANGED logs /\ Becomes(j, Step(j))
      /\ UNCHANGED <<subscribed, heard, excused>>
      /\ quote' \in {quote, [quote EXCEPT ![Inst(j)] = work[j].quote]}
      /\ \/ newest' = newest
         \/ j[1] = "quote" /\ newest' = [newest EXCEPT ![Inst(j)] = j[2]]
  BY DEF CacheQuote, Continues, engine
<1>2. WorkOK' /\ Inst(j) \in Insts /\ work[j].quote \in Quotes
  BY <1>1, GoesOn, StepType, QuoteType
<1>3. j[1] = "quote" => j[2] \in 0 .. saved
  <2> SUFFICES ASSUME j[1] = "quote" PROVE j[2] \in 0 .. saved
    OBVIOUS
  <2>1. j[2] \in OrderSaved \cup CancelSaved
    BY <1>1, StepType DEF Shape, QuoteShape
  <2> QED BY <2>1, MessageType DEF OrderSaved, CancelSaved, IInv
<1>4. newest' \in [Insts -> 0 .. saved]
  BY <1>1, <1>3 DEF IInv, OthersOK
<1>5. OthersOK'
  BY <1>1, <1>2, <1>4 DEF IInv, OthersOK, Quotes, engine, logs
<1> QED BY <1>1, <1>2, <1>5, Frame

(* Something is sent.                                                      *)
LEMMA Sent ==
    ASSUME IInv, NEW j \in Jobs, NEW what, At(j, what), what # "query", Becomes(j, Step(j)),
           UNCHANGED engine, UNCHANGED logs,
           UNCHANGED quote, subscribed' \subseteq Insts \X Subs, UNCHANGED newest,
           excused' \subseteq Subs \X Msgs,
           \A h \in heard' \ heard :
                /\ h \in Subs \X (0 .. MaxMsgs) \X (0 .. saved) \X Views
                /\ h[2] # 0 => h[2] \in 1 .. saved /\ h[3] \in {0} \cup (h[2] .. saved)
    PROVE  IInv'
<1>1. WorkOK'
  BY GoesOn
<1>2. OthersOK'
  BY DEF IInv, OthersOK, Quotes, engine, logs
<1>3. HeardOK'
  BY DEF IInv, HeardOK, engine
<1> QED BY <1>1, <1>2, <1>3, Frame

LEMMA BroadcastMessageKeeps ==
    ASSUME IInv, NEW j \in Jobs, BroadcastMessage(j)
    PROVE  IInv'
<1> DEFINE q == work[j].quote
<1>1. /\ At(j, "broadcast") /\ UNCHANGED engine /\ UNCHANGED logs /\ Becomes(j, Step(j))
      /\ UNCHANGED <<quote, subscribed, newest>>
      /\ heard' = heard \cup {<<c, j[2], q.seen, q.view>> : c \in Following(Inst(j))}
      /\ excused' \subseteq excused
                \cup (Between(Inst(j), j[2]) \cup Following(Inst(j))) \X {j[2]}
  BY DEF BroadcastMessage, Announced, Continues, engine
<1>2. j[1] = "quote" /\ Shape(j, work[j]) /\ 1 \in DOMAIN work[j].todo
  <2>1. /\ Shape(j, work[j]) /\ 1 \in DOMAIN work[j].todo
        /\ work[j].todo[1][1] = "broadcast"
    BY <1>1, StepType
  <2>2. j[1] # "engine"
    BY <2>1 DEF Shape, EngineShape, About
  <2>3. j[1] \notin {"subscribe", "get_order_book"}
    BY <2>1 DEF Shape, OneShape, About
  <2> QED BY <2>1, <2>2, <2>3, JobKinds
<1>3. q.seen \in 0 .. saved /\ q.view \in Views
  BY <1>1, QuoteType DEF Quotes
<1>4. j[2] \in OrderSaved \cup CancelSaved /\ NoOlder(q.seen, j[2])
  BY <1>1, <1>2, StepType DEF Shape, QuoteShape, Fresh
<1>5. j[2] \in 1 .. saved /\ j[2] \in 0 .. MaxMsgs
  BY <1>4, MessageType, EngineAssumption DEF OrderSaved, CancelSaved, IInv, EngineOK
<1>6. Following(Inst(j)) \subseteq Subs /\ Between(Inst(j), j[2]) \subseteq Subs
  BY DEF Following, Between
<1>7. q.seen \in {0} \cup (j[2] .. saved)
  BY <1>3, <1>4, <1>5 DEF NoOlder
<1>8. \A h \in heard' \ heard :
        /\ h \in Subs \X (0 .. MaxMsgs) \X (0 .. saved) \X Views
        /\ h[2] # 0 => h[2] \in 1 .. saved /\ h[3] \in {0} \cup (h[2] .. saved)
  BY <1>1, <1>3, <1>5, <1>6, <1>7
<1>10. j[2] \in Msgs
  BY <1>5, EngineAssumption DEF Msgs
<1>9. subscribed' \subseteq Insts \X Subs /\ excused' \subseteq Subs \X Msgs
  BY <1>1, <1>6, <1>10 DEF IInv, OthersOK
<1> QED BY <1>1, <1>8, <1>9, Sent

LEMMA SubscriberKeeps ==
    ASSUME IInv, NEW j \in Jobs, Subscribe(j) \/ SendInitMessage(j)
    PROVE  IInv'
<1>1. PICK what \in {"subscribe", "send"} : At(j, what)
  BY DEF Subscribe, SendInitMessage
<1>2. /\ UNCHANGED engine /\ UNCHANGED logs /\ Becomes(j, Step(j))
      /\ UNCHANGED <<quote, newest, excused>>
  BY DEF Subscribe, SendInitMessage, Continues, engine
<1>3. /\ j[1] = "subscribe" /\ j[2] \in Subs /\ Inst(j) \in Insts
      /\ work[j].quote \in Quotes
  BY SMTT(20), <1>1, StepType, JobKinds, QuoteType
     DEF Shape, EngineShape, QuoteShape, OneShape, About, Jobs, Subscribing, Asked
<1>4. subscribed' \subseteq Insts \X Subs
  BY <1>3 DEF Subscribe, SendInitMessage, IInv, OthersOK
<1>5. \A h \in heard' \ heard :
        h = <<j[2], 0, work[j].quote.seen, work[j].quote.view>>
  BY DEF Subscribe, SendInitMessage
<1>6. \A h \in heard' \ heard :
        /\ h \in Subs \X (0 .. MaxMsgs) \X (0 .. saved) \X Views
        /\ h[2] # 0 => h[2] \in 1 .. saved /\ h[3] \in {0} \cup (h[2] .. saved)
  BY <1>3, <1>5, EngineAssumption DEF Quotes
<1>7. excused' \subseteq Subs \X Msgs
  BY <1>2 DEF IInv, OthersOK
<1> QED BY <1>1, <1>2, <1>4, <1>6, <1>7, Sent

LEMMA EngineStepKeeps ==
    ASSUME IInv, EngineNext, UNCHANGED <<work, logs, quotes>>
    PROVE  IInv'
<1>1. /\ EngineOK' /\ saved' \in {saved, saved + 1} /\ saved \in Nat
      /\ \A m \in DOMAIN msg : m \in DOMAIN msg' /\ msg'[m] = msg[m]
  BY EngineKeeps DEF IInv, EngineOK
<1>2. /\ UNCHANGED <<work, engineLog, stale, lost>>
      /\ UNCHANGED <<quote, subscribed, heard, newest, excused>>
  BY DEF logs, quotes
<1>3. 0 .. saved \subseteq 0 .. saved'
  BY <1>1
<1>4. Quotes \subseteq Quotes' /\ Job \subseteq Job'
  BY <1>3 DEF Quotes, Job
<1>5. OthersOK'
  BY <1>2, <1>3, <1>4 DEF IInv, OthersOK
<1>6. HeardOK'
  BY <1>1, <1>2, <1>3 DEF IInv, HeardOK
<1>7. \A m \in DOMAIN msg :
        /\ Instruments(m)' = Instruments(m) /\ Instrument(m)' = Instrument(m)
        /\ m \in OrderSaved \cup CancelSaved => m \in (OrderSaved \cup CancelSaved)'
  BY <1>1, MessageType DEF IInv, Instruments, Instrument, OrderSaved, CancelSaved
<1>8. ASSUME NEW j \in DOMAIN work PROVE Shape(j, work[j])'
  <2>1. Shape(j, work[j])
    BY DEF IInv, WorkOK
  <2>2. OrderSaved \cup CancelSaved \subseteq DOMAIN msg
    BY DEF OrderSaved, CancelSaved
  <2>3. j[1] = "engine" => EngineShape(j, work[j])'
    BY <1>1, <1>2, <1>7, <2>1 DEF Shape, EngineShape, About
  <2>4. j[1] = "quote" => QuoteShape(j, work[j])'
    BY <1>2, <1>7, <2>1, <2>2 DEF Shape, QuoteShape, About, Fresh
  <2>5. \A what : OneShape(work[j], what) => OneShape(work[j], what)'
    BY <1>2 DEF OneShape, About
  <2> QED BY <1>2, <2>1, <2>3, <2>4, <2>5 DEF Shape
<1>9. WorkOK'
  BY <1>2, <1>4, <1>8 DEF IInv, WorkOK
<1> QED BY <1>1, <1>5, <1>6, <1>9 DEF IInv

LEMMA StartKeeps ==
    ASSUME IInv, Start
    PROVE  IInv'
BY HandleConsumeKeeps, ConsumeQuoteKeeps, CallKeeps DEF Start

LEMMA GoroutineKeeps ==
    ASSUME IInv, NEW j \in Jobs, Goroutine(j)
    PROVE  IInv'
BY LogKeeps, GetQuoteKeeps, QueryQuoteKeeps, CacheQuoteKeeps, BroadcastMessageKeeps,
   SubscriberKeeps DEF Goroutine

LEMMA NextKeeps == IInv /\ [Next]_vars => IInv'
<1> SUFFICES ASSUME IInv, [Next]_vars PROVE IInv'
  OBVIOUS
<1>1. CASE UNCHANGED vars
  <2>1. UNCHANGED engine /\ UNCHANGED work /\ UNCHANGED <<logs, quotes>>
    BY <1>1 DEF vars
  <2>2. OthersOK' /\ UNCHANGED heard
    BY <2>1 DEF IInv, OthersOK, Quotes, engine, logs, quotes
  <2>3. WorkOK'
    BY <2>1 DEF IInv, WorkOK, Job, Quotes, Shape, EngineShape, QuoteShape, OrderSaved,
                CancelSaved, Instruments, Instrument, engine, OneShape, About, Fresh
  <2> QED BY <2>1, <2>2, <2>3, Frame
<1> QED BY <1>1, StartKeeps, GoroutineKeeps, EngineStepKeeps DEF Next, Service

LEMMA Starting == Init => IInv
<1> SUFFICES ASSUME Init PROVE IInv
  OBVIOUS
<1>1. EngineOK /\ saved \in Nat
  BY EngineStarts DEF Init, EngineOK
<1>2. << >> \in Seq(Msgs)
  OBVIOUS
<1>3. OthersOK /\ WorkOK /\ HeardOK
  BY <1>1, <1>2, IdleType DEF Init, OthersOK, WorkOK, HeardOK
<1> QED BY <1>1, <1>3 DEF IInv

LEMMA TypesOfIInv == IInv => TypeOK
BY DEF IInv, TypeOK, OthersOK, WorkOK, HeardOK, Job

(* Types, for any instruments, clients and messages, and any failures.     *)
THEOREM TypeCorrect == Spec => []TypeOK
BY TypesOfIInv, Starting, NextKeeps, PTL DEF Spec
-----------------------------------------------------------------------------
(* The lists in Redis.                                                     *)

Elems(list) == {list[a] : a \in DOMAIN list}

Put(i) == {m \in Msgs : Done(<<"engine", m>>) /\ Instrument(m) = i}

(* A list has no message twice, and none whose handler has not ended.      *)
Holds(list, i) ==
    /\ \A a, b \in DOMAIN list : list[a] = list[b] => a = b
    /\ Elems(list) \subseteq Put(i)

(* What a goroutine has read is still what is there when it writes, unless *)
(* it is stale.                                                            *)
LogOf(j) ==
    LET i == Instrument(j[2])
    IN  /\ Holds(work[j].log, i)
        /\ (At(j, "append") /\ j \notin stale /\ i \notin lost)
                => work[j].log = engineLog[i]

LogOK ==
    /\ \A i \in Insts : /\ Holds(engineLog[i], i)
                        /\ i \notin lost => Put(i) \subseteq Elems(engineLog[i])
    /\ \A j \in DOMAIN work : j[1] = "engine" => LogOf(j)

LEMMA EngineJob ==
    ASSUME IInv, NEW j \in DOMAIN work, j[1] = "engine"
    PROVE  /\ j[2] \in Msgs /\ j[2] \in DOMAIN msg /\ j = <<"engine", j[2]>>
           /\ Instrument(j[2]) \in Insts /\ work[j].log \in Seq(Msgs)
           /\ EngineShape(j, work[j])
<1>1. j \in Jobs /\ work[j] \in Job /\ EngineShape(j, work[j])
  BY DEF IInv, WorkOK, Shape
<1>2. j[2] \in Msgs /\ j = <<"engine", j[2]>>
  BY <1>1 DEF Jobs, Subscribing, Asked
<1>3. j[2] \in DOMAIN msg
  BY <1>1 DEF EngineShape
<1> QED BY <1>1, <1>2, <1>3, MessageType DEF IInv, Job

(* Nothing happens to the lists and to what engine goroutines have read.   *)
LEMMA LogSame ==
    ASSUME IInv, LogOK, UNCHANGED logs,
           \A m \in DOMAIN msg : m \in DOMAIN msg' /\ msg'[m] = msg[m],
           DOMAIN work \subseteq DOMAIN work',
           \A j \in DOMAIN work : j[1] = "engine" => work'[j] = work[j],
           \A j \in DOMAIN work' \ DOMAIN work : j[1] = "engine" =>
                work'[j].log = << >> /\ work'[j].todo # << >> /\ ~At(j, "append")'
    PROVE  LogOK'
<1>1. UNCHANGED <<engineLog, stale, lost>>
  BY DEF logs
<1>2. \A m \in DOMAIN msg : Instrument(m)' = Instrument(m)
  BY DEF Instrument
<1>3. ASSUME NEW i PROVE Put(i)' = Put(i)
  <2>1. ASSUME NEW m \in Msgs, Done(<<"engine", m>>)
        PROVE  m \in DOMAIN msg /\ Done(<<"engine", m>>)'
    <3>1. <<"engine", m>> \in DOMAIN work
      BY <2>1 DEF Done
    <3> QED BY <2>1, <3>1, EngineJob DEF Done
  <2>2. ASSUME NEW m \in Msgs, Done(<<"engine", m>>)' PROVE Done(<<"engine", m>>)
    BY <2>2 DEF Done
  <2> QED BY <1>2, <2>1, <2>2 DEF Put
<1>4. \A list, i : Holds(list, i) => Holds(list, i)'
  BY <1>3 DEF Holds, Elems
<1>5. ASSUME NEW j \in DOMAIN work', j[1] = "engine" PROVE LogOf(j)'
  <2>1. CASE j \in DOMAIN work
    <3>1. LogOf(j) /\ work'[j] = work[j] /\ j[2] \in DOMAIN msg
      BY <1>5, <2>1, EngineJob DEF LogOK
    <3> QED BY <1>1, <1>2, <1>4, <2>1, <3>1 DEF LogOf, At
  <2>2. CASE j \notin DOMAIN work
    <3>1. \A i : Holds(<< >>, i)'
      BY DEF Holds, Elems
    <3> QED BY <1>5, <2>2, <3>1 DEF LogOf
  <2> QED BY <2>1, <2>2
<1>6. \A i \in Insts : /\ Holds(engineLog[i], i)'
                       /\ (i \notin lost => Put(i) \subseteq Elems(engineLog[i]))'
  BY <1>1, <1>3 DEF LogOK, Holds, Elems
<1> QED BY <1>5, <1>6 DEF LogOK

(* What the service does about quotes leaves them alone.                   *)
LEMMA QuoteLeavesLogs ==
    ASSUME IInv, LogOK, UNCHANGED logs, UNCHANGED engine,
           NEW j \in Jobs, j[1] # "engine", NEW r, Becomes(j, r)
    PROVE  LogOK'
<1>1. msg' = msg
  BY DEF engine
<1>2. /\ DOMAIN work' = DOMAIN work \cup {j}
      /\ \A n \in DOMAIN work \ {j} : work'[n] = work[n]
  BY DEF Becomes
<1> QED BY <1>1, <1>2, LogSame

LEMMA StartLogs ==
    ASSUME IInv, LogOK, Start
    PROVE  LogOK'
<1>1. ASSUME NEW m \in DOMAIN msg, HandleConsume(m) PROVE LogOK'
  <2> DEFINE i == Instrument(m)
             j == <<"engine", m>>
             todo == (IF i \in Expired THEN <<<<"delete", i>>>> ELSE << >>)
                          \o <<<<"read", i>>, <<"append", i>>>>
             r == [Idle EXCEPT !.todo = todo, !.insts = <<i>>]
  <2>1. Becomes(j, r) /\ UNCHANGED engine /\ UNCHANGED logs /\ j \notin DOMAIN work
    BY <1>1 DEF HandleConsume, Starts, engine
  <2>2. todo # << >> /\ todo[1][1] # "append"
    <3> DEFINE a == <<"delete", i>>
               b == <<"read", i>>
               c == <<"append", i>>
    <3>1. a[1] = "delete" /\ b[1] = "read"
      OBVIOUS
    <3>2. todo = (IF i \in Expired THEN <<a>> ELSE << >>) \o <<b, c>>
      OBVIOUS
    <3> HIDE DEF a, b, c, todo
    <3>3. CASE i \in Expired
      <4>1. Len(todo) = 3 /\ todo[1] = a
        BY <3>2, <3>3
      <4> QED BY <3>1, <4>1
    <3>4. CASE i \notin Expired
      <4>1. Len(todo) = 2 /\ todo[1] = b
        BY <3>2, <3>4
      <4> QED BY <3>1, <4>1
    <3> QED BY <3>3, <3>4
  <2> HIDE DEF todo
  <2>3. r.todo = todo /\ r.log = << >>
    BY DEF Idle
  <2>4. /\ DOMAIN work' = DOMAIN work \cup {j} /\ work'[j] = r
        /\ \A n \in DOMAIN work : work'[n] = work[n]
    BY <2>1 DEF Becomes
  <2> HIDE DEF r, j
  <2>5. work'[j].log = << >> /\ work'[j].todo # << >> /\ ~At(j, "append")'
    BY <2>2, <2>3, <2>4 DEF At
  <2> QED BY <2>1, <2>4, <2>5, LogSame DEF engine
<1>2. ASSUME NEW m \in DOMAIN msg, ConsumeQuote(m) PROVE LogOK'
  <2>1. <<"quote", m>> \in Jobs /\ <<"quote", m>>[1] # "engine"
    BY MessageType DEF IInv, Msgs, Jobs
  <2> QED BY <1>2, <2>1, QuoteLeavesLogs DEF ConsumeQuote, Starts
<1>3. ASSUME NEW c \in Subs, NEW i \in Insts, SubscribeQuote(c, i) PROVE LogOK'
  <2>1. <<"subscribe", c>> \in Jobs /\ <<"subscribe", c>>[1] # "engine"
    BY DEF Jobs, Subscribing
  <2> QED BY <1>3, <2>1, QuoteLeavesLogs DEF SubscribeQuote, Starts
<1>4. ASSUME NEW j \in Asked, NEW u \in Views, NEW i \in Insts, GetOrderBook(j, u, i)
      PROVE  LogOK'
  <2>1. j \in Jobs /\ j[1] # "engine"
    BY DEF Jobs, Asked
  <2> QED BY <1>4, <2>1, QuoteLeavesLogs DEF GetOrderBook
<1> QED BY <1>1, <1>2, <1>3, <1>4 DEF Start

LEMMA QuoteStepLogs ==
    ASSUME IInv, LogOK, NEW j \in Jobs,
           \/ GetQuote(j) \/ QueryQuote(j) \/ CacheQuote(j)
           \/ BroadcastMessage(j) \/ Subscribe(j) \/ SendInitMessage(j)
    PROVE  LogOK'
<1>1. PICK what \in {"get", "query", "cache", "broadcast", "subscribe", "send"} : At(j, what)
  BY DEF GetQuote, QueryQuote, CacheQuote, BroadcastMessage, Subscribe, SendInitMessage
<1>2. j[1] # "engine"
  BY <1>1, StepType DEF Shape, EngineShape, About
<1>3. UNCHANGED logs /\ UNCHANGED engine
  BY DEF GetQuote, QueryQuote, CacheQuote, BroadcastMessage, Subscribe, SendInitMessage
<1>4. \E r : Becomes(j, r)
  BY DEF GetQuote, QueryQuote, CacheQuote, BroadcastMessage, Subscribe, SendInitMessage,
         Continues
<1> QED BY <1>2, <1>3, <1>4, QuoteLeavesLogs
(* Handlers that end only add to what has to be in a list.                 *)
LEMMA PutGrows ==
    ASSUME UNCHANGED msg,
           \A j : Done(j) => Done(j)'
    PROVE  /\ \A i : Put(i) \subseteq Put(i)'
           /\ \A list, i : Holds(list, i) => Holds(list, i)'
BY DEF Put, Holds, Instrument, Elems

LEMMA DeleteLogs ==
    ASSUME IInv, LogOK, NEW j \in Jobs, checkDateToRemoveRedis(j)
    PROVE  LogOK'
<1> DEFINE i == Instrument(j[2])
<1>1. /\ At(j, "delete") /\ Becomes(j, Step(j)) /\ UNCHANGED engine
      /\ engineLog' \in {engineLog, [engineLog EXCEPT ![Inst(j)] = << >>]}
      /\ lost' = lost \cup {Inst(j)} /\ stale' = stale
  BY DEF checkDateToRemoveRedis, Continues, engine
<1>2. /\ j \in DOMAIN work /\ 1 \in DOMAIN work[j].todo /\ work[j].todo # << >>
      /\ Shape(j, work[j]) /\ work[j].todo[1][1] = "delete" /\ Inst(j) = work[j].todo[1][2]
  BY <1>1, StepType
<1>3. j[1] = "engine"
  BY <1>2, JobKinds DEF Shape, QuoteShape, OneShape, About
<1>4. Inst(j) = i
  BY <1>2, <1>3 DEF Shape, EngineShape, About
<1>5. /\ DOMAIN work' = DOMAIN work /\ work'[j] = Step(j)
      /\ \A n \in DOMAIN work \ {j} : work'[n] = work[n]
  BY <1>1, GoesOn
<1>6. Step(j).log = work[j].log
  BY DEF Step
<1>7. msg' = msg /\ \A n : Done(n) => Done(n)'
  BY <1>1, <1>2, <1>5 DEF Done, engine
<1>8. \A x : Put(x) \subseteq Put(x)'
  BY <1>7, PutGrows
<1>9. \A n \in DOMAIN work : n # j => Done(n)' = Done(n)
  BY <1>5 DEF Done
<1>10. ASSUME NEW x \in Insts
       PROVE  /\ Holds(engineLog[x], x)'
              /\ (x \notin lost => Put(x) \subseteq Elems(engineLog[x]))'
  <2>1. Holds(engineLog[x], x)'
    <3>1. CASE engineLog'[x] = << >>
      BY <3>1 DEF Holds, Elems
    <3>2. CASE engineLog'[x] = engineLog[x]
      BY <1>8, <3>2 DEF LogOK, Holds, Elems
    <3> QED BY <1>1, <3>1, <3>2 DEF IInv, OthersOK
  <2>2. CASE x = Inst(j)
    BY <1>1, <2>1, <2>2
  <2>3. CASE x # Inst(j)
    <3>1. engineLog'[x] = engineLog[x] /\ (x \in lost' <=> x \in lost)
      BY <1>1, <2>3 DEF IInv, OthersOK
    <3>2. Put(x)' \subseteq Put(x)
      <4> SUFFICES ASSUME NEW m \in Msgs, Done(<<"engine", m>>)', Instrument(m)' = x
                   PROVE  m \in Put(x)
        BY DEF Put
      <4>1. Instrument(m) = x
        BY <1>7 DEF Instrument
      <4>2. <<"engine", m>> # j /\ <<"engine", m>> \in DOMAIN work
        BY <1>4, <1>5, <2>3, <4>1 DEF Done
      <4> QED BY <1>9, <4>1, <4>2 DEF Put
    <3> QED BY <2>1, <3>1, <3>2 DEF LogOK, Elems
  <2> QED BY <2>2, <2>3
<1>11. ASSUME NEW n \in DOMAIN work', n[1] = "engine" PROVE LogOf(n)'
  <2>1. n \in DOMAIN work /\ LogOf(n) /\ work'[n].log = work[n].log
    BY <1>5, <1>6, <1>11 DEF LogOK
  <2>2. Instrument(n[2])' = Instrument(n[2]) /\ Instrument(n[2]) \in Insts
    BY <1>7, <1>11, <2>1, EngineJob DEF Instrument
  <2>3. Holds(work[n].log, Instrument(n[2]))'
    BY <1>8, <2>1, <2>2 DEF LogOf, Holds, Elems
  <2>4. CASE Instrument(n[2]) = i
    BY <1>1, <1>4, <2>2, <2>3, <2>4 DEF LogOf
  <2>5. CASE Instrument(n[2]) # i
    <3>1. n # j
      BY <2>5
    <3>2. /\ work'[n] = work[n] /\ (At(n, "append")' <=> At(n, "append"))
          /\ engineLog'[Instrument(n[2])] = engineLog[Instrument(n[2])]
      BY <1>1, <1>4, <1>5, <2>1, <2>2, <2>5, <3>1 DEF At, IInv, OthersOK
    <3> QED BY <1>1, <2>1, <2>2, <2>3, <3>2 DEF LogOf
  <2> QED BY <2>4, <2>5
<1> QED BY <1>10, <1>11 DEF LogOK
LEMMA ReadLogs ==
    ASSUME IInv, LogOK, NEW j \in Jobs, ReadLog(j)
    PROVE  LogOK'
<1>0. PICK i : i = Instrument(j[2])
  OBVIOUS
<1>1. /\ At(j, "read") /\ UNCHANGED engine /\ UNCHANGED <<engineLog, stale>>
      /\ \E ok \in Replies :
            /\ Becomes(j, [Step(j) EXCEPT !.log = IF ok THEN engineLog[Inst(j)] ELSE << >>])
            /\ lost' = IF ok THEN lost ELSE lost \cup {Inst(j)}
  BY DEF ReadLog, engine
<1>2. /\ j \in DOMAIN work /\ 1 \in DOMAIN work[j].todo /\ work[j].todo # << >>
      /\ Shape(j, work[j]) /\ work[j].todo[1][1] = "read" /\ Inst(j) = work[j].todo[1][2]
      /\ work[j] \in Job /\ Inst(j) \in Insts
  BY <1>1, StepType
<1>3. j[1] = "engine"
  BY <1>2, JobKinds DEF Shape, QuoteShape, OneShape, About
<1>4. Inst(j) = i
  BY <1>0, <1>2, <1>3 DEF Shape, EngineShape, About
<1>5. PICK list \in Seq(Msgs) :
        /\ Becomes(j, [Step(j) EXCEPT !.log = list])
        /\ \/ list = engineLog[i] /\ lost' = lost
           \/ list = << >> /\ lost' = lost \cup {i}
  <2>1. engineLog[i] \in Seq(Msgs) /\ << >> \in Seq(Msgs)
    BY <1>2, <1>4 DEF IInv, OthersOK
  <2>2. PICK ok \in Replies :
            /\ Becomes(j, [Step(j) EXCEPT !.log = IF ok THEN engineLog[i] ELSE << >>])
            /\ lost' = IF ok THEN lost ELSE lost \cup {i}
    BY <1>1, <1>4
  <2>3. CASE ok
    BY <2>1, <2>2, <2>3
  <2>4. CASE ~ok
    BY <2>1, <2>2, <2>4
  <2> QED BY <2>3, <2>4
<1>6. /\ DOMAIN work' = DOMAIN work /\ work'[j].log = list
      /\ \A n \in DOMAIN work \ {j} : work'[n] = work[n]
      /\ work'[j].todo = Tail(work[j].todo)
  <2>1. work'[j] = [Step(j) EXCEPT !.log = list] /\ Step(j) \in Job
    <3>1. Tail(work[j].todo) \in Seq(Steps \X Insts)
      BY <1>2, TailOfSeq DEF Job
    <3> QED BY <1>2, <1>5, <3>1 DEF Becomes, Step, Job
  <2>2. Step(j).todo = Tail(work[j].todo)
    BY <1>2 DEF Step, Job
  <2> QED BY <1>2, <1>5, <2>1, <2>2 DEF Becomes, Job
<1>7. msg' = msg /\ lost \subseteq lost'
  BY <1>1, <1>5 DEF engine
<1>8. ~Done(j)'
  <2>1. /\ work[j].todo \in Seq(Steps \X Insts)
        /\ \A n \in DOMAIN work[j].todo : work[j].todo[n][1] = "append" <=> n = Len(work[j].todo)
    BY <1>2, <1>3 DEF Shape, EngineShape, Job
  <2>2. Len(work[j].todo) # 1
    BY <1>2, <2>1
  <2>3. Tail(work[j].todo) # << >>
    BY <1>2, <2>1, <2>2, TailEmpty
  <2> QED BY <1>6, <2>3 DEF Done
<1>9. \A n : Done(n)' <=> Done(n)
  BY <1>2, <1>6, <1>8 DEF Done
<1>10. \A x : Put(x)' = Put(x)
  BY <1>7, <1>9 DEF Put, Instrument
<1>11. \A x \in Insts : /\ Holds(engineLog[x], x)'
                        /\ (x \notin lost => Put(x) \subseteq Elems(engineLog[x]))'
  BY <1>1, <1>7, <1>10 DEF LogOK, Holds, Elems
<1>12. Instrument(j[2])' = i /\ i \in Insts
  BY <1>0, <1>2, <1>4, <1>7 DEF Instrument
<1>13. ASSUME NEW n \in DOMAIN work', n[1] = "engine" PROVE LogOf(n)'
  <2>1. CASE n = j
    <3>1. Holds(list, i)'
      BY <1>5, <1>10, <1>12 DEF LogOK, Holds, Elems
    <3> QED BY <1>1, <1>5, <1>6, <1>12, <2>1, <3>1 DEF LogOf, Holds, Elems
  <2>2. CASE n # j
    <3>1. n \in DOMAIN work /\ LogOf(n) /\ work'[n] = work[n]
      BY <1>6, <1>13, <2>2 DEF LogOK
    <3>2. Instrument(n[2])' = Instrument(n[2]) /\ (At(n, "append")' <=> At(n, "append"))
      BY <1>6, <1>7, <3>1 DEF Instrument, At
    <3> QED BY <1>1, <1>7, <1>10, <3>1, <3>2 DEF LogOf, Holds, Elems
  <2> QED BY <2>1, <2>2
<1> QED BY <1>11, <1>13 DEF LogOK

LEMMA AppendOne ==
    ASSUME NEW list \in Seq(Msgs), NEW m \in Msgs, m \notin Elems(list),
           \A a, b \in DOMAIN list : list[a] = list[b] => a = b
    PROVE  /\ Elems(Append(list, m)) = Elems(list) \cup {m}
           /\ \A a, b \in DOMAIN Append(list, m) :
                Append(list, m)[a] = Append(list, m)[b] => a = b
<1>1. /\ DOMAIN Append(list, m) = DOMAIN list \cup {Len(list) + 1}
      /\ Append(list, m)[Len(list) + 1] = m /\ Len(list) + 1 \notin DOMAIN list
      /\ \A a \in DOMAIN list : Append(list, m)[a] = list[a]
  OBVIOUS
<1> QED BY <1>1 DEF Elems

LEMMA WriteLogs ==
    ASSUME IInv, LogOK, NEW j \in Jobs, WriteLog(j)
    PROVE  LogOK'
<1>0. PICK i : i = Instrument(j[2])
  OBVIOUS
<1>1. /\ At(j, "append") /\ Becomes(j, Step(j)) /\ UNCHANGED engine
      /\ \/ /\ engineLog' = [engineLog EXCEPT ![Inst(j)] = Append(work[j].log, j[2])]
            /\ lost' = IF j \notin stale THEN lost ELSE lost \cup {Inst(j)}
            /\ stale' = stale \cup Others(j)
         \/ engineLog' = engineLog /\ lost' = lost \cup {Inst(j)} /\ stale' = stale
  BY DEF WriteLog, Continues, engine, Appended
<1>2. /\ j \in DOMAIN work /\ 1 \in DOMAIN work[j].todo /\ work[j].todo # << >>
      /\ Shape(j, work[j]) /\ work[j].todo[1][1] = "append" /\ Inst(j) = work[j].todo[1][2]
      /\ work[j] \in Job /\ Inst(j) \in Insts
  BY <1>1, StepType
<1>3. j[1] = "engine"
  BY <1>2, JobKinds DEF Shape, QuoteShape, OneShape, About
<1>4. Inst(j) = i /\ i \in Insts
  BY <1>0, <1>2, <1>3 DEF Shape, EngineShape, About
<1>5. j[2] \in Msgs /\ j = <<"engine", j[2]>> /\ work[j].log \in Seq(Msgs)
  BY <1>2, <1>3, EngineJob
<1>6. /\ DOMAIN work' = DOMAIN work /\ work'[j] = Step(j)
      /\ \A n \in DOMAIN work \ {j} : work'[n] = work[n]
      /\ work'[j].todo = Tail(work[j].todo)
  BY <1>1, GoesOn
<1>7. Done(j)' /\ ~Done(j)
  <2>1. /\ work[j].todo \in Seq(Steps \X Insts)
        /\ 1 = Len(work[j].todo)
    BY <1>2, <1>3 DEF Shape, EngineShape, Job
  <2>2. Tail(work[j].todo) = << >>
    BY <1>2, <2>1, TailEmpty
  <2> QED BY <1>2, <1>6, <2>2 DEF Done
<1>8. msg' = msg /\ \A x : Instrument(x)' = Instrument(x)
  BY <1>1 DEF engine, Instrument
<1>9. Put(i)' = Put(i) \cup {j[2]} /\ j[2] \notin Put(i)
  <2>1. \A m \in Msgs : <<"engine", m>> = j <=> m = j[2]
    BY <1>5
  <2>2. \A m \in Msgs \ {j[2]} : Done(<<"engine", m>>)' <=> Done(<<"engine", m>>)
    BY <1>6, <2>1 DEF Done
  <2> QED BY <1>0, <1>5, <1>7, <1>8, <2>1, <2>2 DEF Put
<1>10. ASSUME NEW x, x # i PROVE Put(x)' = Put(x)
  <2>1. ASSUME NEW m \in Msgs, Instrument(m) = x
        PROVE  Done(<<"engine", m>>)' <=> Done(<<"engine", m>>)
    <3>1. <<"engine", m>> # j
      BY <1>0, <1>10, <2>1
    <3> QED BY <1>6, <3>1 DEF Done
  <2> QED BY <1>8, <2>1 DEF Put
<1>11. \A list, x : Holds(list, x) => Holds(list, x)'
  <2>1. \A x : Put(x) \subseteq Put(x)'
    BY <1>9, <1>10
  <2> QED BY <2>1 DEF Holds, Elems
<1>16. PICK new : new = Append(work[j].log, j[2])
  OBVIOUS
<1>12. Holds(work[j].log, i) /\ LogOf(j)
  BY <1>0, <1>2, <1>3 DEF LogOK, LogOf
<1>13. Elems(new) = Elems(work[j].log) \cup {j[2]} /\ Holds(new, i)'
  <2>1. j[2] \notin Elems(work[j].log)
    BY <1>9, <1>12 DEF Holds
  <2>2. /\ Elems(new) = Elems(work[j].log) \cup {j[2]}
        /\ \A a, b \in DOMAIN new : new[a] = new[b] => a = b
    BY <1>5, <1>12, <1>16, <2>1, AppendOne DEF Holds
  <2>3. Elems(new) \subseteq Put(i)'
    BY <1>9, <1>12, <2>2 DEF Holds
  <2> QED BY <2>2, <2>3 DEF Holds, Elems
<1>14. ASSUME NEW x \in Insts
       PROVE  /\ Holds(engineLog[x], x)'
              /\ (x \notin lost => Put(x) \subseteq Elems(engineLog[x]))'
  <2>1. CASE x # i
    <3>1. engineLog'[x] = engineLog[x] /\ (x \in lost' <=> x \in lost)
      BY <1>1, <1>4, <2>1 DEF IInv, OthersOK
    <3> QED BY <1>10, <2>1, <3>1 DEF LogOK, Holds, Elems
  <2>2. CASE x = i /\ engineLog' = engineLog /\ lost' = lost \cup {i}
    BY <1>11, <2>2 DEF LogOK, Holds, Elems
  <2>3. CASE /\ x = i /\ engineLog' = [engineLog EXCEPT ![i] = new]
             /\ lost' = IF j \notin stale THEN lost ELSE lost \cup {i}
    <3>1. /\ engineLog' = [engineLog EXCEPT ![i] = new]
          /\ lost' = IF j \notin stale THEN lost ELSE lost \cup {i}
      BY <2>3
    <3>2. engineLog'[x] = new
      BY <1>4, <2>3, <3>1 DEF IInv, OthersOK
    <3>3. Holds(engineLog[x], x)'
      BY <1>13, <2>3, <3>2 DEF Holds, Elems
    <3>4. ASSUME x \notin lost' PROVE Put(x)' \subseteq Elems(new)
      <4>1. x \notin lost /\ j \notin stale
        BY <2>3, <3>1, <3>4
      <4>2. work[j].log = engineLog[i]
        BY <1>0, <1>1, <1>12, <2>3, <4>1 DEF LogOf
      <4>3. Put(i) \subseteq Elems(work[j].log)
        BY <2>3, <4>1, <4>2 DEF LogOK
      <4> QED BY <1>9, <1>13, <2>3, <4>3
    <3> QED BY <3>2, <3>3, <3>4 DEF Elems
  <2> QED BY <1>1, <1>4, <1>16, <2>1, <2>2, <2>3
<1>15. ASSUME NEW n \in DOMAIN work', n[1] = "engine" PROVE LogOf(n)'
  <2>1. n \in DOMAIN work /\ LogOf(n) /\ Instrument(n[2])' = Instrument(n[2])
    BY <1>6, <1>8, <1>15 DEF LogOK
  <2>2. work'[n].log = work[n].log
    <3>1. Step(j).log = work[j].log
      BY DEF Step
    <3> QED BY <1>6, <2>1, <3>1
  <2>3. Holds(work[n].log, Instrument(n[2]))'
    BY <1>11, <2>1, <2>2 DEF LogOf, Holds, Elems
  <2>4. CASE Instrument(n[2]) = i /\ At(n, "append")'
    <3>1. n # j
      BY <1>7, <2>4 DEF At, Done
    <3>2. At(n, "append") /\ work'[n] = work[n]
      BY <1>6, <2>1, <2>4, <3>1 DEF At
    <3>3. Inst(n) = i
      BY <1>15, <2>1, <2>4, <3>2, EngineJob, StepType DEF EngineShape, About
    <3>4. n \in Others(j)
      BY <1>4, <2>1, <3>1, <3>2, <3>3 DEF Others
    <3>5. n \in stale' \/ i \in lost'
      BY <1>1, <1>4, <3>4
    <3> QED BY <2>1, <2>3, <2>4, <3>5 DEF LogOf
  <2>5. CASE Instrument(n[2]) # i /\ At(n, "append")'
    <3>1. n # j
      BY <1>0, <2>5
    <3>2. At(n, "append") /\ work'[n] = work[n]
      BY <1>6, <2>1, <2>5, <3>1 DEF At
    <3>3. /\ Instrument(n[2]) \in Insts
          /\ engineLog'[Instrument(n[2])] = engineLog[Instrument(n[2])]
      BY <1>1, <1>4, <1>15, <2>1, <2>5, EngineJob DEF IInv, OthersOK
    <3>4. stale \subseteq stale' /\ lost \subseteq lost'
      BY <1>1
    <3> QED BY <2>1, <2>3, <3>2, <3>3, <3>4 DEF LogOf
  <2> QED BY <2>3, <2>4, <2>5 DEF LogOf
<1> QED BY <1>14, <1>15 DEF LogOK

LEMMA NextLogs == IInv /\ LogOK /\ [Next]_vars => LogOK'
<1> SUFFICES ASSUME IInv, LogOK, [Next]_vars PROVE LogOK'
  OBVIOUS
<1>1. CASE UNCHANGED vars
  BY <1>1, LogSame DEF vars, engine
<1>2. CASE EngineNext /\ UNCHANGED <<work, logs, quotes>>
  <2>1. \A m \in DOMAIN msg : m \in DOMAIN msg' /\ msg'[m] = msg[m]
    BY <1>2, EngineKeeps DEF IInv
  <2> QED BY <1>2, <2>1, LogSame
<1>3. ASSUME NEW j \in Jobs, Goroutine(j) PROVE LogOK'
  BY <1>3, DeleteLogs, ReadLogs, WriteLogs, QuoteStepLogs DEF Goroutine
<1> QED BY <1>1, <1>2, <1>3, StartLogs DEF Next, Service

LEMMA LogStarts == Init => LogOK
BY DEF Init, LogOK, Holds, Elems, Put, Done

LEMMA LogSays == LogOK => LogKept
BY DEF LogOK, LogKept, Holds, Elems, Put

(* A list keeps every message whose handler has ended, and none twice,     *)
(* but for the handlers that overtook one another, whatever the messages   *)
(* and instruments.                                                        *)
THEOREM ListsKept == Spec => []LogKept
BY LogStarts, LogSays, Starting, NextKeeps, NextLogs, PTL DEF Spec
-----------------------------------------------------------------------------
(* Quotes made for one client.                                             *)

AskedFor(view, i) ==
    \E j \in Asked \cap DOMAIN work : work[j].user = view /\ work[j].insts = <<i>>

(* Whose quote a goroutine may hold.                                       *)
ViewOf(j, w) ==
    /\ j[1] = "quote" => w.quote.view = Public
    /\ j[1] = "get_order_book" => w.quote.view \in {Public, w.user}
    /\ j[1] = "subscribe" /\ w.quote.view # Public =>
            \E i \in Insts : w.insts = <<i>> /\ AskedFor(w.quote.view, i)

HeardOf(h) ==
    h[4] # Public =>
        /\ h[2] = 0 /\ <<"subscribe", h[1]>> \in DOMAIN work
        /\ \E j \in Asked \cap DOMAIN work :
                work[j].user = h[4] /\ work[j].insts = work[<<"subscribe", h[1]>>].insts

ViewOK ==
    /\ \A i \in Insts : quote[i].view # Public => AskedFor(quote[i].view, i)
    /\ \A j \in DOMAIN work : ViewOf(j, work[j])
    /\ \A h \in heard : HeardOf(h)

(* What a goroutine is about never changes.                                *)
Settled ==
    \A j \in DOMAIN work :
        j \in DOMAIN work' /\ work'[j].user = work[j].user /\ work'[j].insts = work[j].insts

LEMMA ViewStep ==
    ASSUME ViewOK, Settled,
           \A i \in Insts : \/ quote'[i] = quote[i]
                            \/ quote'[i].view # Public => AskedFor(quote'[i].view, i),
           \A j \in DOMAIN work' :
                \/ j \in DOMAIN work /\ work'[j].quote.view = work[j].quote.view
                \/ ViewOf(j, work'[j]),
           \A h \in heard' \ heard : HeardOf(h)
    PROVE  ViewOK'
<1>1. \A view, i : AskedFor(view, i) => AskedFor(view, i)'
  BY DEF AskedFor, Settled
<1>2. \A h : HeardOf(h) => HeardOf(h)'
  BY DEF HeardOf, Settled
<1>3. \A j, w : ViewOf(j, w) => ViewOf(j, w)'
  BY <1>1 DEF ViewOf
<1>4. ASSUME NEW i \in Insts, quote'[i].view # Public PROVE AskedFor(quote[i].view, i)'
  <2>1. AskedFor(quote'[i].view, i)
    BY <1>4 DEF ViewOK
  <2> QED BY <2>1 DEF AskedFor, Settled
<1>5. ASSUME NEW j \in DOMAIN work' PROVE ViewOf(j, work[j])'
  <2>1. PICK w : w = work'[j]
    OBVIOUS
  <2>2. ViewOf(j, w)
    <3>1. CASE j \in DOMAIN work /\ work'[j].quote.view = work[j].quote.view
      BY <2>1, <3>1 DEF ViewOK, ViewOf, Settled
    <3> QED BY <2>1, <3>1
  <2>3. ViewOf(j, w)'
    BY <1>3, <2>2
  <2> QED BY <2>1, <2>3 DEF ViewOf, AskedFor
<1> QED BY <1>2, <1>4, <1>5 DEF ViewOK

(* A goroutine goes on with another quote.                                 *)
LEMMA ViewJob ==
    ASSUME ViewOK, NEW j \in DOMAIN work, NEW r, Becomes(j, r),
           r.user = work[j].user, r.insts = work[j].insts,
           r.quote.view = work[j].quote.view \/ ViewOf(j, r),
           \A i \in Insts : \/ quote'[i] = quote[i]
                            \/ quote'[i].view # Public => AskedFor(quote'[i].view, i),
           \A h \in heard' \ heard : HeardOf(h)
    PROVE  ViewOK'
<1>1. /\ DOMAIN work' = DOMAIN work /\ work'[j] = r
      /\ \A n \in DOMAIN work \ {j} : work'[n] = work[n]
  BY DEF Becomes
<1>2. Settled
  BY <1>1 DEF Settled
<1>3. \A n \in DOMAIN work' :
            \/ n \in DOMAIN work /\ work'[n].quote.view = work[n].quote.view
            \/ ViewOf(n, work'[n])
  BY <1>1
<1> QED BY <1>2, <1>3, ViewStep

LEMMA ViewStarts ==
    ASSUME ViewOK, NEW j, j \notin DOMAIN work, NEW r, Becomes(j, r),
           r.quote.view = Public, UNCHANGED quotes
    PROVE  ViewOK'
<1>1. /\ DOMAIN work' = DOMAIN work \cup {j} /\ work'[j] = r
      /\ \A n \in DOMAIN work : work'[n] = work[n]
  BY DEF Becomes
<1>2. Settled
  BY <1>1 DEF Settled
<1>3. ViewOf(j, r)
  BY DEF ViewOf
<1>4. \A n \in DOMAIN work' :
            \/ n \in DOMAIN work /\ work'[n].quote.view = work[n].quote.view
            \/ ViewOf(n, work'[n])
  BY <1>1, <1>3
<1>5. quote' = quote /\ heard' = heard
  BY DEF quotes
<1> QED BY <1>2, <1>4, <1>5, ViewStep

LEMMA StartViews ==
    ASSUME IInv, ViewOK, Start
    PROVE  ViewOK'
<1>1. Idle.quote.view = Public
  BY DEF Idle, NoQuote
<1>2. ASSUME NEW j, NEW todo, NEW insts, Starts(j, todo, insts) PROVE ViewOK'
  <2>1. PICK r : r = [Idle EXCEPT !.todo = todo, !.insts = insts]
    OBVIOUS
  <2>2. r.quote.view = Public
    BY <1>1, <2>1 DEF Idle
  <2> QED BY <1>2, <2>1, <2>2, ViewStarts DEF Starts
<1>3. ASSUME NEW j \in Asked, NEW u \in Views, NEW i \in Insts, GetOrderBook(j, u, i)
      PROVE  ViewOK'
  <2>1. PICK r : r = [Idle EXCEPT !.todo = <<<<"query", i>>, <<"cache", i>>>>,
                                  !.insts = <<i>>, !.user = u]
    OBVIOUS
  <2>2. r.quote.view = Public
    BY <1>1, <2>1 DEF Idle
  <2> QED BY <1>3, <2>1, <2>2, ViewStarts DEF GetOrderBook
<1>4. ASSUME NEW m \in DOMAIN msg, HandleConsume(m) \/ ConsumeQuote(m) PROVE ViewOK'
  BY <1>2, <1>4 DEF HandleConsume, ConsumeQuote
<1>5. ASSUME NEW c \in Subs, NEW i \in Insts, SubscribeQuote(c, i) PROVE ViewOK'
  BY <1>2, <1>5 DEF SubscribeQuote
<1> QED BY <1>3, <1>4, <1>5 DEF Start

(* The instrument a goroutine is at is the one it was started for.         *)
LEMMA OneInstrument ==
    ASSUME IInv, NEW j, NEW what, At(j, what), j[1] \in {"subscribe", "get_order_book"}
    PROVE  work[j].insts = <<Inst(j)>>
<1>1. PICK i \in Insts : work[j].insts = <<i>> /\ \E all : About(work[j], all, {i})
  BY StepType DEF Shape, OneShape
<1> QED BY <1>1, StepType DEF About

LEMMA QuoteViews ==
    ASSUME IInv, ViewOK, NEW j \in Jobs,
           \/ checkDateToRemoveRedis(j) \/ ReadLog(j) \/ WriteLog(j)
           \/ GetQuote(j) \/ QueryQuote(j) \/ CacheQuote(j)
           \/ BroadcastMessage(j) \/ Subscribe(j) \/ SendInitMessage(j)
    PROVE  ViewOK'
<1>1. PICK what \in Steps : At(j, what)
  BY DEF checkDateToRemoveRedis, ReadLog, WriteLog, GetQuote, QueryQuote, CacheQuote,
         BroadcastMessage, Subscribe, SendInitMessage, Steps
<1>2. /\ j \in DOMAIN work /\ work[j] \in Job /\ Inst(j) \in Insts /\ Shape(j, work[j])
      /\ 1 \in DOMAIN work[j].todo
  BY <1>1, StepType
<1>3. /\ Step(j).quote = work[j].quote /\ Step(j).user = work[j].user
      /\ Step(j).insts = work[j].insts
  BY DEF Step
<1>4. CASE checkDateToRemoveRedis(j) \/ WriteLog(j)
  <2>1. Becomes(j, Step(j)) /\ quote' = quote /\ heard' = heard
    BY <1>4 DEF checkDateToRemoveRedis, WriteLog, Continues, quotes
  <2> QED BY <1>2, <1>3, <2>1, ViewJob
<1>5. CASE ReadLog(j)
  <2>1. PICK list : Becomes(j, [Step(j) EXCEPT !.log = list])
    BY <1>5 DEF ReadLog
  <2>2. PICK r : r = [Step(j) EXCEPT !.log = list]
    OBVIOUS
  <2>3. /\ r.quote = work[j].quote /\ r.user = work[j].user /\ r.insts = work[j].insts
    BY <1>2, <1>3, <2>2 DEF Step, Job
  <2>4. quote' = quote /\ heard' = heard
    BY <1>5 DEF ReadLog, quotes
  <2> QED BY <1>2, <2>1, <2>2, <2>3, <2>4, ViewJob
<1>6. CASE GetQuote(j)
  <2>1. PICK r : /\ Becomes(j, r)
                 /\ \/ r = [Step(j) EXCEPT !.quote = quote[Inst(j)]]
                    \/ r = [work[j] EXCEPT !.todo =
                                <<<<"query", Inst(j)>>, <<"cache", Inst(j)>>>> \o Tail(@)]
    BY <1>6 DEF GetQuote
  <2>2. /\ r.user = work[j].user /\ r.insts = work[j].insts
        /\ r.quote \in {work[j].quote, quote[Inst(j)]}
    BY <1>2, <1>3, <2>1 DEF Step, Job
  <2>3. quote' = quote /\ heard' = heard
    BY <1>6 DEF GetQuote
  <2>4. At(j, "get") /\ j[1] = "subscribe"
    <3>1. At(j, "get") /\ work[j].todo[1][1] = "get"
      BY <1>6 DEF GetQuote, At
    <3> QED BY <1>2, <3>1, JobKinds DEF Shape, EngineShape, QuoteShape, OneShape, About
  <2>5. work[j].insts = <<Inst(j)>>
    BY <2>4, OneInstrument
  <2>6. r.quote.view = work[j].quote.view \/ ViewOf(j, r)
    BY <1>2, <2>2, <2>4, <2>5 DEF ViewOf, ViewOK
  <2> QED BY <1>2, <2>1, <2>2, <2>3, <2>6, ViewJob
<1>7. CASE QueryQuote(j)
  <2>1. PICK r, v : /\ Becomes(j, r)
                    /\ r = [Step(j) EXCEPT !.quote =
                            [seen |-> v, view |-> work[j].user, found |-> TRUE]]
    BY <1>7 DEF QueryQuote
  <2>2. /\ r.user = work[j].user /\ r.insts = work[j].insts
        /\ r.quote.view = work[j].user
    BY <1>2, <1>3, <2>1 DEF Step, Job
  <2>3. quote' = quote /\ heard' = heard
    BY <1>7 DEF QueryQuote
  <2>4. j[1] \in {"quote", "subscribe"} => work[j].user = Public
    BY <1>2 DEF Shape, QuoteShape
  <2>5. ViewOf(j, r)
    BY <2>2, <2>4 DEF ViewOf
  <2> QED BY <1>2, <2>1, <2>2, <2>3, <2>5, ViewJob
<1>8. CASE CacheQuote(j)
  <2>1. /\ Becomes(j, Step(j)) /\ heard' = heard /\ At(j, "cache")
        /\ quote' = quote \/ quote' = [quote EXCEPT ![Inst(j)] = work[j].quote]
    BY <1>8 DEF CacheQuote, Continues
  <2>2. j[1] # "engine"
    BY <1>2, <2>1, StepType DEF Shape, EngineShape, About
  <2>3. work[j].quote.view # Public => AskedFor(work[j].quote.view, Inst(j))
    <3> SUFFICES ASSUME work[j].quote.view # Public
                 PROVE  AskedFor(work[j].quote.view, Inst(j))
      OBVIOUS
    <3>1. ViewOf(j, work[j])
      BY <1>2 DEF ViewOK
    <3>2. j[1] \in {"subscribe", "get_order_book"}
      BY <2>2, <3>1, JobKinds DEF ViewOf
    <3>3. work[j].insts = <<Inst(j)>>
      BY <2>1, <3>2, OneInstrument
    <3>4. CASE j[1] = "subscribe"
      <4>1. PICK i \in Insts : work[j].insts = <<i>> /\ AskedFor(work[j].quote.view, i)
        BY <3>1, <3>4 DEF ViewOf
      <4>2. i = Inst(j)
        BY <3>3, <4>1
      <4> QED BY <4>1, <4>2
    <3>5. CASE j[1] = "get_order_book"
      <4>1. j \in Asked /\ work[j].user = work[j].quote.view
        BY <3>1, <3>5 DEF ViewOf, Jobs, Subscribing
      <4> QED BY <1>2, <3>3, <4>1 DEF AskedFor
    <3> QED BY <3>2, <3>4, <3>5
  <2>4. \A i \in Insts : \/ quote'[i] = quote[i]
                         \/ quote'[i].view # Public => AskedFor(quote'[i].view, i)
    <3> TAKE i \in Insts
    <3>1. \/ quote'[i] = quote[i]
          \/ i = Inst(j) /\ quote'[i] = work[j].quote
      BY <1>2, <2>1 DEF IInv, OthersOK
    <3> QED BY <2>3, <3>1
  <2> QED BY <1>2, <1>3, <2>1, <2>4, ViewJob
<1>9. CASE BroadcastMessage(j)
  <2>1. /\ Becomes(j, Step(j)) /\ quote' = quote /\ At(j, "broadcast")
        /\ \A h \in heard' \ heard : h[4] = work[j].quote.view
    BY <1>9 DEF BroadcastMessage, Announced, Continues
  <2>2. j[1] = "quote"
    <3>1. work[j].todo[1][1] = "broadcast"
      BY <2>1 DEF At
    <3> QED BY <1>2, <3>1, JobKinds DEF Shape, EngineShape, OneShape, About
  <2>3. work[j].quote.view = Public
    BY <1>2, <2>2 DEF ViewOK, ViewOf
  <2>4. \A h \in heard' \ heard : HeardOf(h)
    BY <2>1, <2>3 DEF HeardOf
  <2> QED BY <1>2, <1>3, <2>1, <2>4, ViewJob
<1>10. CASE Subscribe(j)
  <2>1. Becomes(j, Step(j)) /\ quote' = quote /\ heard' = heard
    BY <1>10 DEF Subscribe, Continues
  <2> QED BY <1>2, <1>3, <2>1, ViewJob
<1>11. CASE SendInitMessage(j)
  <2>1. /\ Becomes(j, Step(j)) /\ quote' = quote /\ At(j, "send")
        /\ \A h \in heard' \ heard :
                h = <<j[2], 0, work[j].quote.seen, work[j].quote.view>>
    BY <1>11 DEF SendInitMessage, Continues
  <2>2. j[1] = "subscribe"
    BY <1>2, <2>1, StepType, JobKinds DEF Shape, EngineShape, QuoteShape, OneShape, About
  <2>3. j = <<"subscribe", j[2]>>
    BY <2>2 DEF Jobs, Subscribing, Asked
  <2>4. ASSUME NEW h \in heard' \ heard PROVE HeardOf(h)
    <3>1. h[1] = j[2] /\ h[2] = 0 /\ h[4] = work[j].quote.view
      BY <2>1
    <3>2. work[j].quote.view # Public =>
            \E i \in Insts : work[j].insts = <<i>> /\ AskedFor(work[j].quote.view, i)
      BY <1>2, <2>2 DEF ViewOK, ViewOf
    <3>3. j = <<"subscribe", h[1]>>
      BY <2>3, <3>1
    <3> QED BY <1>2, <3>1, <3>2, <3>3 DEF HeardOf, AskedFor
  <2> QED BY <1>2, <1>3, <2>1, <2>4, ViewJob
<1> QED BY <1>4, <1>5, <1>6, <1>7, <1>8, <1>9, <1>10, <1>11

LEMMA NextViews == IInv /\ ViewOK /\ [Next]_vars => ViewOK'
<1> SUFFICES ASSUME IInv, ViewOK, [Next]_vars PROVE ViewOK'
  OBVIOUS
<1>1. CASE UNCHANGED <<work, quotes>>
  BY <1>1 DEF ViewOK, ViewOf, AskedFor, HeardOf, quotes
<1>2. UNCHANGED vars \/ (EngineNext /\ UNCHANGED <<work, logs, quotes>>) => UNCHANGED <<work, quotes>>
  BY DEF vars
<1>3. ASSUME NEW j \in Jobs, Goroutine(j) PROVE ViewOK'
  BY <1>3, QuoteViews DEF Goroutine
<1> QED BY <1>1, <1>2, <1>3, StartViews DEF Next, Service

LEMMA ViewStarting == Init => ViewOK
BY DEF Init, ViewOK, NoQuote

LEMMA ViewSays == ViewOK => PrivateViewOnlyInitially
BY DEF ViewOK, HeardOf, PrivateViewOnlyInitially

(* A quote made for one client reaches others only when they subscribe,    *)
(* after the client has asked for it; whatever the instruments and users.  *)
THEOREM PrivateViews == Spec => []PrivateViewOnlyInitially
BY ViewStarting, ViewSays, Starting, NextKeeps, NextViews, PTL DEF Spec
-----------------------------------------------------------------------------
(* Subscribers to quotes.                                                  *)

Left(w, what, i) == \E n \in DOMAIN w.todo : w.todo[n] = <<what, i>>

(* What a subscriber has left to do: before it has a quote, and then.      *)
Asks(i) == <<<<"get", i>>, <<"subscribe", i>>, <<"send", i>>>>
Queries(i) == <<<<"query", i>>, <<"cache", i>>, <<"subscribe", i>>, <<"send", i>>>>
Caches(i) == <<<<"cache", i>>, <<"subscribe", i>>, <<"send", i>>>>
Subscribes(i) == <<<<"subscribe", i>>, <<"send", i>>>>
Sends(i) == <<<<"send", i>>>>

Stages(i) == {Asks(i), Queries(i), Caches(i), Subscribes(i), Sends(i), << >>}

(* The client has been sent a quote as young as v.                         *)
Knows(c, v) == \E h \in heard : h[1] = c /\ h[3] >= v

(* The last quote of i because of m has been broadcast.                    *)
Announces(m, i) ==
    LET j == <<"quote", m>>
    IN  j \in DOMAIN work /\ i \in Instruments(m) /\ ~Left(work[j], "broadcast", i)

(* Before a quote is broadcast it is cached, or Redis has failed to.       *)
CacheFirst(w) ==
    \A n \in DOMAIN w.todo : w.todo[n][1] = "cache" =>
        \E k \in DOMAIN w.todo : k > n /\ w.todo[k] = <<"broadcast", w.todo[n][2]>>

Cached(j, w) ==
    \A i \in Instruments(j[2]) :
        Left(w, "cache", i) \/ newest[i] >= j[2]

(* What a subscriber has got, by where it is.                              *)
ReaderOf(c, w, i) ==
    /\ w.insts = <<i>> /\ w.todo \in Stages(i)
    /\ w.todo \in {Sends(i), << >>} => <<i, c>> \in subscribed
    /\ w.todo = << >> => Knows(c, w.quote.seen)
    /\ w.todo \notin {Asks(i), Queries(i)} =>
            \A m \in Msgs : (Announces(m, i) /\ <<c, m>> \notin excused) =>
                w.quote.seen >= m \/ Knows(c, m)

Reader(j, w) == \E i \in Insts : ReaderOf(j[2], w, i)

SettleOK ==
    /\ \A j \in DOMAIN work : j[1] = "quote" => CacheFirst(work[j]) /\ Cached(j, work[j])
    /\ \A j \in DOMAIN work : j[1] = "subscribe" => Reader(j, work[j])
    /\ \A x \in subscribed : LET j == <<"subscribe", x[2]>>
                             IN  j \in DOMAIN work /\ work[j].insts = <<x[1]>>

(* Two steps, and two more.                                                *)
LEMMA FourSteps ==
    ASSUME NEW a, NEW b, NEW c, NEW d
    PROVE  <<a, b>> \o <<c, d>> = <<a, b, c, d>>
<1> DEFINE t == <<a, b>> \o <<c, d>>
           u == <<a, b, c, d>>
           S == {a, b, c, d}
<1>1. <<a, b>> \in Seq(S) /\ <<c, d>> \in Seq(S) /\ u \in Seq(S)
  OBVIOUS
<1>2. t \in Seq(S) /\ Len(t) = 4 /\ t[1] = a /\ t[2] = b /\ t[3] = c /\ t[4] = d
  BY <1>1
<1>3. Len(u) = 4 /\ u[1] = a /\ u[2] = b /\ u[3] = c /\ u[4] = d
  OBVIOUS
<1> HIDE DEF t, u, S
<1>4. \A n \in 1 .. 4 : t[n] = u[n]
  BY <1>2, <1>3
<1>5. t = u
  BY <1>1, <1>2, <1>3, <1>4
<1> QED BY <1>5 DEF t, u

LEMMA StageTails ==
    ASSUME NEW i \in Insts
    PROVE  /\ Tail(Asks(i)) = Subscribes(i) /\ Tail(Queries(i)) = Caches(i)
           /\ Tail(Caches(i)) = Subscribes(i) /\ Tail(Subscribes(i)) = Sends(i)
           /\ Tail(Sends(i)) = << >>
           /\ <<<<"query", i>>, <<"cache", i>>>> \o Subscribes(i) = Queries(i)
<1>1. Tail(Asks(i)) = Subscribes(i) /\ Tail(Caches(i)) = Subscribes(i)
  BY DEF Asks, Caches, Subscribes
<1>2. Tail(Queries(i)) = Caches(i)
  BY DEF Queries, Caches
<1>3. Tail(Subscribes(i)) = Sends(i) /\ Tail(Sends(i)) = << >>
  BY DEF Subscribes, Sends
<1>4. <<<<"query", i>>, <<"cache", i>>>> \o Subscribes(i) = Queries(i)
  BY FourSteps DEF Subscribes, Queries
<1> QED BY <1>1, <1>2, <1>3, <1>4

LEMMA StagesDiffer ==
    ASSUME NEW i \in Insts
    PROVE  /\ Asks(i) \notin {Queries(i), Caches(i), Subscribes(i), Sends(i), << >>}
           /\ Queries(i) \notin {Caches(i), Subscribes(i), Sends(i), << >>}
           /\ Caches(i) \notin {Subscribes(i), Sends(i), << >>}
           /\ Subscribes(i) \notin {Sends(i), << >>}
           /\ Sends(i) # << >>
BY DEF Asks, Queries, Caches, Subscribes, Sends

LEMMA StageHeads ==
    ASSUME NEW i \in Insts
    PROVE  /\ Asks(i)[1] = <<"get", i>> /\ Queries(i)[1] = <<"query", i>>
           /\ Caches(i)[1] = <<"cache", i>> /\ Subscribes(i)[1] = <<"subscribe", i>>
           /\ Sends(i)[1] = <<"send", i>>
BY DEF Asks, Queries, Caches, Subscribes, Sends

(* Where a subscriber is, from the step it is at.                          *)
LEMMA StageOf ==
    ASSUME NEW i \in Insts, NEW t \in Stages(i), t # << >>
    PROVE  /\ t[1][2] = i
           /\ t[1][1] = "get" => t = Asks(i)
           /\ t[1][1] = "query" => t = Queries(i)
           /\ t[1][1] = "cache" => t = Caches(i)
           /\ t[1][1] = "subscribe" => t = Subscribes(i)
           /\ t[1][1] = "send" => t = Sends(i)
           /\ t[1][1] \in {"get", "query", "cache", "subscribe", "send"}
BY StageHeads DEF Stages

LEMMA TailLeft ==
    ASSUME NEW w, NEW r, NEW S, w.todo \in Seq(S), w.todo # << >>, r.todo = Tail(w.todo)
    PROVE  /\ \A what, i : w.todo[1] # <<what, i>> /\ Left(w, what, i) => Left(r, what, i)
           /\ CacheFirst(w) => CacheFirst(r)
<1>1. /\ \A n \in DOMAIN r.todo : /\ n \in Nat \ {0} /\ n + 1 \in DOMAIN w.todo
                                  /\ r.todo[n] = w.todo[n + 1]
      /\ \A n \in DOMAIN w.todo : n # 1 => /\ n \in Nat /\ n - 1 \in DOMAIN r.todo
                                           /\ r.todo[n - 1] = w.todo[n]
  BY TailOfSeq
<1>2. ASSUME NEW what, NEW i, w.todo[1] # <<what, i>>, Left(w, what, i)
      PROVE  Left(r, what, i)
  BY <1>1, <1>2 DEF Left
<1>3. ASSUME CacheFirst(w), NEW n \in DOMAIN r.todo, r.todo[n][1] = "cache"
      PROVE  \E k \in DOMAIN r.todo : k > n /\ r.todo[k] = <<"broadcast", r.todo[n][2]>>
  <2>1. PICK k \in DOMAIN w.todo : k > n + 1 /\ w.todo[k] = <<"broadcast", w.todo[n + 1][2]>>
    BY <1>1, <1>3 DEF CacheFirst
  <2>2. k - 1 \in DOMAIN r.todo /\ k - 1 > n /\ r.todo[k - 1] = w.todo[k]
    BY <1>1, <2>1
  <2> QED BY <1>1, <2>1, <2>2
<1> QED BY <1>2, <1>3 DEF CacheFirst

-----------------------------------------------------------------------------
(* A message whose quotes are computed is saved.                           *)
LEMMA QuoteJob ==
    ASSUME IInv, NEW j \in DOMAIN work, j[1] = "quote"
    PROVE  /\ j = <<"quote", j[2]>> /\ j[2] \in Msgs /\ j[2] \in DOMAIN msg
           /\ j[2] \in OrderSaved \cup CancelSaved /\ Instruments(j[2]) \subseteq Insts
           /\ QuoteShape(j, work[j]) /\ work[j] \in Job
<1>1. j \in Jobs /\ work[j] \in Job /\ QuoteShape(j, work[j])
  BY DEF IInv, WorkOK, Shape
<1>2. j = <<"quote", j[2]>> /\ j[2] \in Msgs
  BY <1>1 DEF Jobs, Subscribing, Asked
<1>3. j[2] \in DOMAIN msg /\ j[2] \in OrderSaved \cup CancelSaved
  BY <1>1 DEF QuoteShape, OrderSaved, CancelSaved
<1>4. Instruments(j[2]) \subseteq Insts
  BY <1>3, MessageType DEF IInv, Instruments
<1> QED BY <1>1, <1>2, <1>3, <1>4

(* What has been announced is in the book, and its handler counts among    *)
(* those that have cached a quote.                                         *)
LEMMA AnnouncedSeen ==
    ASSUME IInv, SettleOK, NEW m, NEW i, Announces(m, i)
    PROVE  m \in Msgs /\ i \in Insts /\ Version(i) >= m /\ newest[i] >= m
<1>1. PICK j : j = <<"quote", m>>
  OBVIOUS
<1>2. j \in DOMAIN work /\ i \in Instruments(m) /\ ~Left(work[j], "broadcast", i)
  BY <1>1 DEF Announces
<1>3. m \in Msgs /\ m \in DOMAIN msg /\ m \in OrderSaved \cup CancelSaved /\ i \in Insts
  BY <1>1, <1>2, QuoteJob
<1>4. Version(i) \in m .. saved
  BY <1>2, <1>3, VersionFresh DEF IInv, OrderSaved, CancelSaved
<1>5. CacheFirst(work[j]) /\ Cached(j, work[j]) /\ j[2] = m
  BY <1>1, <1>2 DEF SettleOK
<1>6. ~Left(work[j], "cache", i)
  <2> SUFFICES ASSUME NEW n \in DOMAIN work[j].todo, work[j].todo[n] = <<"cache", i>>
               PROVE  FALSE
    BY DEF Left
  <2>1. work[j].todo[n][1] = "cache" /\ work[j].todo[n][2] = i
    OBVIOUS
  <2> QED BY <1>2, <1>5, <2>1 DEF CacheFirst, Left
<1> QED BY <1>2, <1>3, <1>4, <1>5, <1>6 DEF Cached, Msgs

-----------------------------------------------------------------------------
(* A step of goroutine j.                                                  *)

LEMMA ReaderStays ==
    ASSUME NEW c, NEW w, NEW i \in Insts, ReaderOf(c, w, i),
           subscribed \subseteq subscribed', heard \subseteq heard', excused \subseteq excused',
           \A m \in Msgs : Announces(m, i)' =>
                Announces(m, i) \/ <<c, m>> \in excused' \/ w.quote.seen >= m \/ Knows(c, m)'
                    \/ w.todo \in {Asks(i), Queries(i)}
    PROVE  ReaderOf(c, w, i)'
<1>1. \A v : Knows(c, v) => Knows(c, v)'
  BY DEF Knows
<1>2. /\ w.insts = <<i>> /\ w.todo \in Stages(i)
      /\ w.todo \in {Sends(i), << >>} => <<i, c>> \in subscribed
      /\ w.todo = << >> => Knows(c, w.quote.seen)
      /\ w.todo \notin {Asks(i), Queries(i)} =>
            \A m \in Msgs : (Announces(m, i) /\ <<c, m>> \notin excused) =>
                w.quote.seen >= m \/ Knows(c, m)
  BY DEF ReaderOf
<1>3. w.todo \notin {Asks(i), Queries(i)} =>
            \A m \in Msgs : (Announces(m, i)' /\ <<c, m>> \notin excused') =>
                w.quote.seen >= m \/ Knows(c, m)'
  BY <1>1, <1>2
<1> QED BY <1>1, <1>2, <1>3 DEF ReaderOf

(* Nothing is announced that was not.                                      *)
Silent == \A m, i : Announces(m, i)' => Announces(m, i)

LEMMA SilentStep ==
    ASSUME UNCHANGED engine, NEW j, NEW r, Becomes(j, r),
           \/ j[1] # "quote"
           \/ j \in DOMAIN work /\ \A i : Left(work[j], "broadcast", i) => Left(r, "broadcast", i)
           \/ \A i \in Instruments(j[2]) : Left(r, "broadcast", i)
    PROVE  Silent
<1> SUFFICES ASSUME NEW m, NEW i, Announces(m, i)' PROVE Announces(m, i)
  BY DEF Silent
<1>1. PICK n : n = <<"quote", m>>
  OBVIOUS
<1>2. Instruments(m)' = Instruments(m)
  BY DEF Instruments, engine
<1>3. n \in DOMAIN work' /\ i \in Instruments(m) /\ ~Left(work[n], "broadcast", i)'
  BY <1>1, <1>2 DEF Announces
<1>4. CASE n # j
  <2>1. n \in DOMAIN work /\ work'[n] = work[n]
    BY <1>3, <1>4 DEF Becomes
  <2> QED BY <1>1, <1>3, <2>1 DEF Announces, Left
<1>5. CASE n = j
  <2>1. work'[n] = r /\ n[1] = "quote" /\ n[2] = m
    BY <1>1, <1>5 DEF Becomes
  <2>2. ~Left(r, "broadcast", i)
    BY <1>3, <2>1 DEF Left
  <2> QED BY <1>1, <1>3, <1>5, <2>1, <2>2 DEF Announces
<1> QED BY <1>4, <1>5

(* What has been cached, has been.                                         *)
Grows == \A i \in Insts : newest'[i] >= newest[i]

LEMMA SettleStep ==
    ASSUME IInv, IInv', SettleOK, UNCHANGED engine, NEW j \in Jobs, NEW r, Becomes(j, r),
           j \in DOMAIN work => r.insts = work[j].insts,
           subscribed \subseteq subscribed',
           \A x \in subscribed' \ subscribed : j = <<"subscribe", x[2]>> /\ r.insts = <<x[1]>>,
           Grows,
           j[1] = "quote" => CacheFirst(r) /\ Cached(j, r)',
           j[1] = "subscribe" => Reader(j, r)',
           \A n \in DOMAIN work \ {j} : n[1] = "subscribe" => Reader(n, work[n])'
    PROVE  SettleOK'
<1>1. /\ DOMAIN work' = DOMAIN work \cup {j} /\ work'[j] = r
      /\ \A n \in DOMAIN work \ {j} : work'[n] = work[n]
  BY DEF Becomes
<1>2. ASSUME NEW n \in DOMAIN work', n[1] = "quote"
      PROVE  (CacheFirst(work[n]) /\ Cached(n, work[n]))'
  <2>1. CASE n = j
    BY <1>1, <1>2, <2>1 DEF CacheFirst, Cached, Left
  <2>2. CASE n # j
    <3>1. n \in DOMAIN work /\ work'[n] = work[n] /\ CacheFirst(work[n]) /\ Cached(n, work[n])
      BY <1>1, <1>2, <2>2 DEF SettleOK
    <3>2. Instruments(n[2])' = Instruments(n[2])
      BY DEF Instruments, engine
    <3>3. ASSUME NEW i \in Instruments(n[2])
          PROVE  Left(work'[n], "cache", i) \/ newest'[i] >= n[2]
      <4>1. i \in Insts /\ n[2] \in Nat
        BY <1>2, <3>1, QuoteJob DEF Msgs
      <4>2. newest[i] \in Nat /\ newest'[i] \in Nat
        BY <4>1 DEF IInv, OthersOK
      <4>3. Left(work[n], "cache", i) \/ newest[i] >= n[2]
        BY <3>1 DEF Cached
      <4> QED BY <3>1, <4>1, <4>2, <4>3 DEF Grows
    <3> QED BY <3>1, <3>2, <3>3 DEF CacheFirst, Cached, Left
  <2> QED BY <2>1, <2>2
<1>3. ASSUME NEW n \in DOMAIN work', n[1] = "subscribe" PROVE Reader(n, work[n])'
  <2>1. CASE n = j
    BY <1>1, <1>3, <2>1 DEF Reader, ReaderOf
  <2>2. CASE n # j
    BY <1>1, <1>3, <2>2
  <2> QED BY <2>1, <2>2
<1>4. ASSUME NEW x \in subscribed'
      PROVE  LET n == <<"subscribe", x[2]>> IN n \in DOMAIN work' /\ work'[n].insts = <<x[1]>>
  <2>1. CASE x \in subscribed
    <3>1. PICK n : n = <<"subscribe", x[2]>>
      OBVIOUS
    <3>2. n \in DOMAIN work /\ work[n].insts = <<x[1]>>
      BY <2>1, <3>1 DEF SettleOK
    <3>3. work'[n].insts = work[n].insts
      BY <1>1, <3>2
    <3> QED BY <1>1, <3>1, <3>2, <3>3
  <2>2. CASE x \notin subscribed
    BY <1>1, <1>4, <2>2
  <2> QED BY <2>1, <2>2
<1> QED BY <1>2, <1>3, <1>4 DEF SettleOK

(* The same when nothing is announced and nothing read, sent or excused.   *)
LEMMA OthersRead ==
    ASSUME SettleOK, NEW j, NEW r, Becomes(j, r), Silent,
           subscribed \subseteq subscribed', heard \subseteq heard', excused \subseteq excused'
    PROVE  \A n \in DOMAIN work \ {j} : n[1] = "subscribe" => Reader(n, work[n])'
<1> TAKE n \in DOMAIN work \ {j}
<1> SUFFICES ASSUME n[1] = "subscribe" PROVE Reader(n, work[n])'
  OBVIOUS
<1>1. PICK w : w = work[n] /\ w = work'[n]
  BY DEF Becomes
<1>2. PICK i \in Insts : ReaderOf(n[2], w, i)
  BY <1>1 DEF SettleOK, Reader
<1>3. ReaderOf(n[2], w, i)'
  BY <1>2, ReaderStays DEF Silent
<1> QED BY <1>1, <1>3 DEF Reader

-----------------------------------------------------------------------------
(* A goroutine that is no handler of quotes, and no subscriber.            *)
LEMMA OtherJob ==
    ASSUME IInv, IInv', SettleOK, UNCHANGED engine, NEW j \in Jobs, NEW r, Becomes(j, r),
           j \in DOMAIN work => r.insts = work[j].insts,
           j[1] \notin {"quote", "subscribe"}, Grows,
           UNCHANGED <<subscribed, heard, excused>>
    PROVE  SettleOK'
<1>1. Silent
  BY SilentStep
<1>2. \A n \in DOMAIN work \ {j} : n[1] = "subscribe" => Reader(n, work[n])'
  BY <1>1, OthersRead
<1> QED BY <1>2, SettleStep

(* The handler of a message, which has not just broadcast its last quote.  *)
LEMMA HandlerStep ==
    ASSUME IInv, IInv', SettleOK, UNCHANGED engine, NEW j \in Jobs, j[1] = "quote",
           NEW r, Becomes(j, r), j \in DOMAIN work => r.insts = work[j].insts, Grows,
           UNCHANGED <<subscribed, heard, excused>>,
           CacheFirst(r), Cached(j, r)', Silent
    PROVE  SettleOK'
<1>1. \A n \in DOMAIN work \ {j} : n[1] = "subscribe" => Reader(n, work[n])'
  BY OthersRead
<1> QED BY <1>1, SettleStep

(* A subscriber.                                                           *)
LEMMA SubscriberStep ==
    ASSUME IInv, IInv', SettleOK, UNCHANGED engine, NEW j \in Jobs, j[1] = "subscribe",
           NEW r, Becomes(j, r), j \in DOMAIN work => r.insts = work[j].insts, Grows,
           subscribed \subseteq subscribed', heard \subseteq heard', excused \subseteq excused',
           \A x \in subscribed' \ subscribed : j = <<"subscribe", x[2]>> /\ r.insts = <<x[1]>>,
           NEW i \in Insts, ReaderOf(j[2], r, i)'
    PROVE  SettleOK'
<1>1. Silent
  BY SilentStep
<1>2. \A n \in DOMAIN work \ {j} : n[1] = "subscribe" => Reader(n, work[n])'
  BY <1>1, OthersRead
<1>3. Reader(j, r)'
  BY DEF Reader
<1> QED BY <1>2, <1>3, SettleStep

LEMMA GrowsSame ==
    ASSUME IInv, UNCHANGED newest
    PROVE  Grows
<1>1. \A i \in Insts : newest[i] \in Nat
  BY DEF IInv, OthersOK
<1> QED BY <1>1 DEF Grows

(* The steps to take for the orders of a message.                          *)
LEMMA CancelCaches ==
    ASSUME NEW insts \in Seq(Insts), NEW r, r.todo = HandleConsumeQuoteCancel(insts)
    PROVE  /\ CacheFirst(r)
           /\ \A k \in DOMAIN insts : Left(r, "cache", insts[k]) /\ Left(r, "broadcast", insts[k])
<1> DEFINE t == HandleConsumeQuoteCancel(insts)
           L == Len(insts)
           at(n) == ((n - 1) \div 4) + 1
           which(n) == ((n - 1) % 4) + 1
<1>1. t = [n \in 1 .. 4 * L |-> HandleConsumeQuote(insts[at(n)])[which(n)]]
  BY DEF HandleConsumeQuoteCancel
<1>2. L \in Nat /\ DOMAIN insts = 1 .. L
  OBVIOUS
<1>3. ASSUME NEW k \in 1 .. L, NEW x \in 1 .. 4
      PROVE  /\ 4 * (k - 1) + x \in 1 .. 4 * L
             /\ at(4 * (k - 1) + x) = k /\ which(4 * (k - 1) + x) = x
  BY <1>2, SMT
<1>4. ASSUME NEW n \in 1 .. 4 * L
      PROVE  at(n) \in 1 .. L /\ which(n) \in 1 .. 4 /\ n = 4 * (at(n) - 1) + which(n)
  BY <1>2, SMT
<1> HIDE DEF t, at, which
<1>5. ASSUME NEW k \in 1 .. L, NEW x \in 1 .. 4
      PROVE  /\ 4 * (k - 1) + x \in DOMAIN t
             /\ t[4 * (k - 1) + x] = HandleConsumeQuote(insts[k])[x]
  BY <1>1, <1>3
<1>6. ASSUME NEW i \in Insts
      PROVE  /\ HandleConsumeQuote(i)[1] = <<"query", i>>
             /\ HandleConsumeQuote(i)[2] = <<"cache", i>>
             /\ HandleConsumeQuote(i)[3] = <<"cache", i>>
             /\ HandleConsumeQuote(i)[4] = <<"broadcast", i>>
  BY DEF HandleConsumeQuote
<1>7. ASSUME NEW k \in DOMAIN insts
      PROVE  Left(r, "cache", insts[k]) /\ Left(r, "broadcast", insts[k])
  <2>2. k \in 1 .. L /\ insts[k] \in Insts
    BY <1>2
  <2>3. PICK a, b : a = 4 * (k - 1) + 2 /\ b = 4 * (k - 1) + 4
    OBVIOUS
  <2>4. /\ a \in DOMAIN t /\ t[a] = HandleConsumeQuote(insts[k])[2]
        /\ b \in DOMAIN t /\ t[b] = HandleConsumeQuote(insts[k])[4]
    BY <1>5, <2>2, <2>3
  <2>1. t[a] = <<"cache", insts[k]>> /\ t[b] = <<"broadcast", insts[k]>>
    BY <1>6, <2>2, <2>4
  <2> QED BY <2>1, <2>4 DEF Left, t
<1>8. ASSUME NEW n \in DOMAIN t, t[n][1] = "cache"
      PROVE  \E k \in DOMAIN t : k > n /\ t[k] = <<"broadcast", t[n][2]>>
  <2>1. n \in 1 .. 4 * L
    BY <1>1
  <2>2. PICK k \in 1 .. L, x \in 1 .. 4 : n = 4 * (k - 1) + x
    BY <1>4, <2>1
  <2>7. insts[k] \in Insts
    BY <1>2
  <2>3. t[n] = HandleConsumeQuote(insts[k])[x] /\ insts[k] \in Insts
    BY <1>5, <2>2, <2>7
  <2>4. x \in {2, 3}
    <3>1. x = 1 \/ x = 2 \/ x = 3 \/ x = 4
      BY <2>2
    <3> QED BY <1>6, <1>8, <2>3, <3>1
  <2>5. t[n] = <<"cache", insts[k]>>
    BY <1>6, <2>3, <2>4
  <2>8. 4 * (k - 1) + 4 \in DOMAIN t /\ t[4 * (k - 1) + 4] = HandleConsumeQuote(insts[k])[4]
    BY <1>5
  <2>6. /\ t[4 * (k - 1) + 4] = <<"broadcast", insts[k]>> /\ 4 * (k - 1) + 4 \in DOMAIN t
        /\ 4 * (k - 1) + 4 > n
    BY <1>2, <1>6, <2>2, <2>4, <2>7, <2>8
  <2> QED BY <2>5, <2>6
<1> QED BY <1>7, <1>8 DEF CacheFirst, t

LEMMA OneCaches ==
    ASSUME NEW i, NEW r, r.todo = HandleConsumeQuote(i)
    PROVE  CacheFirst(r) /\ Left(r, "cache", i) /\ Left(r, "broadcast", i)
<1>1. /\ DOMAIN r.todo = 1 .. 4 /\ r.todo[1] = <<"query", i>>
      /\ r.todo[2] = <<"cache", i>> /\ r.todo[3] = <<"cache", i>>
      /\ r.todo[4] = <<"broadcast", i>>
  BY DEF HandleConsumeQuote
<1>2. ASSUME NEW n \in DOMAIN r.todo, r.todo[n][1] = "cache" PROVE n < 4 /\ r.todo[n][2] = i
  BY <1>1, <1>2
<1> QED BY <1>1, <1>2 DEF CacheFirst, Left

LEMMA ConsumeQuoteSettles ==
    ASSUME IInv, IInv', SettleOK, NEW m \in DOMAIN msg, ConsumeQuote(m)
    PROVE  SettleOK'
<1>1. PICK j : j = <<"quote", m>>
  OBVIOUS
<1>2. /\ j[1] = "quote" /\ j[2] = m /\ j \in Jobs /\ j \notin DOMAIN work
      /\ msg[m].insts \in Seq(Insts) /\ UNCHANGED engine
      /\ UNCHANGED <<quote, newest>> /\ UNCHANGED <<subscribed, heard, excused>>
  BY <1>1, MessageType DEF ConsumeQuote, Starts, IInv, Jobs, Msgs, quotes
<1>3. ASSUME NEW r, Becomes(j, r), CacheFirst(r),
             \A i \in Instruments(m) : Left(r, "cache", i) /\ Left(r, "broadcast", i)
      PROVE  SettleOK'
  <2>1. Silent
    BY <1>2, <1>3, SilentStep
  <2>2. Cached(j, r)'
    BY <1>2, <1>3 DEF Cached, Left, Instruments, engine
  <2> QED BY <1>2, <1>3, <2>1, <2>2, GrowsSame, HandlerStep
<1>4. CASE /\ m \in OrderSaved
           /\ Starts(j, HandleConsumeQuote(Instrument(m)), <<Instrument(m)>>)
  <2>1. PICK r : /\ r = [Idle EXCEPT !.todo = HandleConsumeQuote(Instrument(m)),
                                     !.insts = <<Instrument(m)>>]
                 /\ Becomes(j, r)
    BY <1>4 DEF Starts
  <2>2. r.todo = HandleConsumeQuote(Instrument(m))
    BY <2>1 DEF Idle
  <2>3. Instruments(m) = {Instrument(m)}
    BY <1>4, MessageType DEF OrderSaved, IInv
  <2> QED BY <1>3, <2>1, <2>2, <2>3, OneCaches
<1>5. CASE /\ m \in CancelSaved
           /\ Starts(j, HandleConsumeQuoteCancel(msg[m].insts), msg[m].insts)
  <2>1. PICK r : /\ r = [Idle EXCEPT !.todo = HandleConsumeQuoteCancel(msg[m].insts),
                                     !.insts = msg[m].insts]
                 /\ Becomes(j, r)
    BY <1>5 DEF Starts
  <2>2. r.todo = HandleConsumeQuoteCancel(msg[m].insts)
    BY <2>1 DEF Idle
  <2>3. \A i \in Instruments(m) : Left(r, "cache", i) /\ Left(r, "broadcast", i)
    BY <1>2, <2>2, CancelCaches DEF Instruments
  <2> QED BY <1>2, <1>3, <2>1, <2>2, <2>3, CancelCaches
<1> QED BY <1>1, <1>4, <1>5 DEF ConsumeQuote

(* A subscriber, and the instrument it is about.                           *)
LEMMA SubscriberJob ==
    ASSUME IInv, SettleOK, NEW j, NEW what, At(j, what), j[1] = "subscribe"
    PROVE  /\ j = <<"subscribe", j[2]>> /\ j[2] \in Subs /\ work[j].insts = <<Inst(j)>>
           /\ ReaderOf(j[2], work[j], Inst(j))
           /\ what = "get" => work[j].todo = Asks(Inst(j))
           /\ what = "query" => work[j].todo = Queries(Inst(j))
           /\ what = "cache" => work[j].todo = Caches(Inst(j))
           /\ what = "subscribe" => work[j].todo = Subscribes(Inst(j))
           /\ what = "send" => work[j].todo = Sends(Inst(j))
<1>1. /\ j \in Jobs /\ j \in DOMAIN work /\ work[j].todo # << >>
      /\ work[j].todo[1][1] = what /\ Inst(j) = work[j].todo[1][2]
  BY StepType
<1>2. j = <<"subscribe", j[2]>> /\ j[2] \in Subs
  BY <1>1 DEF Jobs, Subscribing, Asked
<1>3. PICK i \in Insts : ReaderOf(j[2], work[j], i)
  BY <1>1 DEF SettleOK, Reader
<1>4. work[j].todo \in Stages(i) /\ work[j].insts = <<i>>
  BY <1>3 DEF ReaderOf
<1>5. PICK t : t = work[j].todo
  OBVIOUS
<1>6. /\ t[1][2] = i
      /\ t[1][1] = "get" => t = Asks(i)
      /\ t[1][1] = "query" => t = Queries(i)
      /\ t[1][1] = "cache" => t = Caches(i)
      /\ t[1][1] = "subscribe" => t = Subscribes(i)
      /\ t[1][1] = "send" => t = Sends(i)
  BY <1>1, <1>4, <1>5, StageOf
<1>7. i = Inst(j) /\ t[1][1] = what
  BY <1>1, <1>5, <1>6
<1>8. ReaderOf(j[2], work[j], Inst(j)) /\ work[j].insts = <<Inst(j)>>
  BY <1>3, <1>4, <1>7
<1>9. /\ what = "get" => t = Asks(i)
      /\ what = "query" => t = Queries(i)
      /\ what = "cache" => t = Caches(i)
      /\ what = "subscribe" => t = Subscribes(i)
      /\ what = "send" => t = Sends(i)
  BY <1>6, <1>7
<1> QED BY <1>2, <1>5, <1>7, <1>8, <1>9

LEMMA SubscribeQuoteSettles ==
    ASSUME IInv, IInv', SettleOK, NEW c \in Subs, NEW i \in Insts, SubscribeQuote(c, i)
    PROVE  SettleOK'
<1>1. PICK j : j = <<"subscribe", c>>
  OBVIOUS
<1>2. /\ j \in Jobs /\ j \notin DOMAIN work /\ j[1] = "subscribe" /\ j[2] = c
      /\ UNCHANGED engine /\ UNCHANGED <<quote, subscribed, heard, newest, excused>>
  BY <1>1 DEF SubscribeQuote, Starts, Jobs, Subscribing, quotes
<1>3. PICK r : /\ r = [Idle EXCEPT !.todo = <<<<"get", i>>, <<"subscribe", i>>, <<"send", i>>>>,
                                   !.insts = <<i>>]
               /\ Becomes(j, r)
  BY <1>1 DEF SubscribeQuote, Starts
<1>4. r.todo = Asks(i) /\ r.insts = <<i>>
  BY <1>3 DEF Idle, Asks
<1>5. ReaderOf(c, r, i)'
  BY <1>4, StagesDiffer DEF ReaderOf, Stages
<1>6. Grows
  BY <1>2, GrowsSame
<1> QED BY <1>2, <1>3, <1>5, <1>6, SubscriberStep

LEMMA StartSettles ==
    ASSUME IInv, IInv', SettleOK, Start
    PROVE  SettleOK'
<1>1. ASSUME NEW m \in DOMAIN msg, HandleConsume(m) PROVE SettleOK'
  <2>1. PICK j, r : j = <<"engine", m>> /\ Becomes(j, r)
    BY <1>1 DEF HandleConsume, Starts
  <2>2. /\ j \in Jobs /\ j \notin DOMAIN work /\ j[1] = "engine"
        /\ UNCHANGED engine /\ UNCHANGED <<quote, subscribed, heard, newest, excused>>
    BY <1>1, <2>1, MessageType DEF HandleConsume, Starts, IInv, Jobs, Msgs, quotes
  <2> QED BY <2>1, <2>2, GrowsSame, OtherJob
<1>2. ASSUME NEW j \in Asked, NEW u \in Views, NEW i \in Insts, GetOrderBook(j, u, i)
      PROVE  SettleOK'
  <2>1. PICK r : Becomes(j, r)
    BY <1>2 DEF GetOrderBook
  <2>2. /\ j \in Jobs /\ j \notin DOMAIN work /\ j[1] = "get_order_book"
        /\ UNCHANGED engine /\ UNCHANGED <<quote, subscribed, heard, newest, excused>>
    BY <1>2 DEF GetOrderBook, Jobs, Asked, quotes
  <2> QED BY <2>1, <2>2, GrowsSame, OtherJob
<1> QED BY <1>1, <1>2, ConsumeQuoteSettles, SubscribeQuoteSettles DEF Start

LEMMA LogSettles ==
    ASSUME IInv, IInv', SettleOK, NEW j \in Jobs,
           checkDateToRemoveRedis(j) \/ ReadLog(j) \/ WriteLog(j)
    PROVE  SettleOK'
<1>1. PICK what \in {"delete", "read", "append"} : At(j, what)
  BY DEF checkDateToRemoveRedis, ReadLog, WriteLog
<1>2. j[1] = "engine"
  BY <1>1, StepType, JobKinds DEF Shape, QuoteShape, OneShape, About
<1>3. UNCHANGED engine /\ UNCHANGED <<quote, subscribed, heard, newest, excused>>
  BY DEF checkDateToRemoveRedis, ReadLog, WriteLog, quotes
<1>4. PICK r : Becomes(j, r) /\ r.insts = work[j].insts
  <2>1. CASE checkDateToRemoveRedis(j) \/ WriteLog(j)
    <3>1. Becomes(j, Step(j)) /\ Step(j).insts = work[j].insts
      BY <2>1 DEF checkDateToRemoveRedis, WriteLog, Continues, Step
    <3> QED BY <3>1
  <2>2. CASE ReadLog(j)
    <3>1. PICK list : Becomes(j, [Step(j) EXCEPT !.log = list])
      BY <2>2 DEF ReadLog
    <3>2. [Step(j) EXCEPT !.log = list].insts = work[j].insts
      BY DEF Step
    <3> QED BY <3>1, <3>2
  <2> QED BY <2>1, <2>2
<1> QED BY <1>2, <1>3, <1>4, GrowsSame, OtherJob

(* Who does not lack a change that was there has it.                       *)
LEMMA Lacking ==
    ASSUME NEW c, NEW v \in Nat, NEW n \in Nat, NEW m \in Nat, n >= m,
           <<c, m>> \notin Lacks(c, v, n)
    PROVE  v >= m
BY DEF Lacks

(* The cached quote has what was announced, or its reader is excused.      *)
LEMMA GetQuoteSettles ==
    ASSUME IInv, IInv', SettleOK, NEW j \in Jobs, GetQuote(j)
    PROVE  SettleOK'
<1>0. PICK i : i = Inst(j)
  OBVIOUS
<1>1. /\ At(j, "get") /\ UNCHANGED engine
      /\ UNCHANGED <<quote, subscribed, heard, newest>>
  BY DEF GetQuote
<1>2. /\ j \in DOMAIN work /\ i \in Insts /\ work[j] \in Job /\ Shape(j, work[j])
      /\ 1 \in DOMAIN work[j].todo /\ work[j].todo[1][1] = "get"
  BY <1>0, <1>1, StepType
<1>3. j[1] = "subscribe"
  BY <1>2, JobKinds DEF Shape, EngineShape, QuoteShape, OneShape, About
<1>4. /\ work[j].todo = Asks(i) /\ ReaderOf(j[2], work[j], i) /\ work[j].insts = <<i>>
  BY <1>0, <1>1, <1>3, SubscriberJob
<1>5. Grows
  BY <1>1, GrowsSame
<1>6. PICK r : /\ Becomes(j, r)
               /\ \/ /\ r = [Step(j) EXCEPT !.quote = quote[i]]
                     /\ excused' = excused \cup Lacks(j[2], quote[i].seen, newest[i])
                  \/ /\ r = [work[j] EXCEPT !.todo =
                                <<<<"query", i>>, <<"cache", i>>>> \o Tail(@)]
                     /\ excused' = excused
  BY <1>0 DEF GetQuote
<1>7. CASE /\ r = [work[j] EXCEPT !.todo = <<<<"query", i>>, <<"cache", i>>>> \o Tail(@)]
           /\ excused' = excused
  <2>1. r.todo = <<<<"query", i>>, <<"cache", i>>>> \o Tail(work[j].todo) /\ r.insts = <<i>>
    BY <1>2, <1>4, <1>7 DEF Job
  <2>2. r.todo = Queries(i)
    BY <1>2, <1>4, <2>1, StageTails
  <2>3. ReaderOf(j[2], r, i)'
    BY <1>2, <2>1, <2>2, StagesDiffer DEF ReaderOf, Stages
  <2> QED BY <1>1, <1>2, <1>3, <1>4, <1>5, <1>6, <1>7, <2>1, <2>3, SubscriberStep
<1>8. CASE /\ r = [Step(j) EXCEPT !.quote = quote[i]]
           /\ excused' = excused \cup Lacks(j[2], quote[i].seen, newest[i])
  <2>1. r.todo = Tail(work[j].todo) /\ r.insts = <<i>> /\ r.quote = quote[i]
    BY <1>2, <1>4, <1>8 DEF Step, Job
  <2>2. r.todo = Subscribes(i)
    BY <1>2, <1>4, <2>1, StageTails
  <2>3. Silent
    BY <1>1, <1>3, <1>6, SilentStep
  <2>4. ASSUME NEW m \in Msgs, Announces(m, i)', <<j[2], m>> \notin excused'
        PROVE  r.quote.seen >= m
    <3>1. Announces(m, i)
      BY <2>3, <2>4 DEF Silent
    <3>2. newest[i] >= m /\ newest[i] \in Nat /\ m \in Nat /\ quote[i].seen \in Nat
      BY <1>2, <3>1, AnnouncedSeen DEF IInv, OthersOK, Quotes, Msgs
    <3>3. <<j[2], m>> \notin Lacks(j[2], quote[i].seen, newest[i])
      BY <1>8, <2>4
    <3> QED BY <2>1, <3>2, <3>3, Lacking
  <2>5. ReaderOf(j[2], r, i)'
    BY <1>2, <2>1, <2>2, <2>4, StagesDiffer DEF ReaderOf, Stages
  <2>6. excused \subseteq excused'
    BY <1>8
  <2> QED BY <1>1, <1>2, <1>3, <1>4, <1>5, <1>6, <2>1, <2>5, <2>6, SubscriberStep
<1> QED BY <1>6, <1>7, <1>8

(* A handler goes on, what it caches included.                             *)
LEMMA HandlerGoes ==
    ASSUME IInv, IInv', SettleOK, UNCHANGED engine, NEW j, NEW what, At(j, what),
           j[1] = "quote", NEW r, Becomes(j, r), r.todo = Tail(work[j].todo), Grows,
           what = "cache" => newest'[Inst(j)] >= j[2]
    PROVE  /\ CacheFirst(r) /\ Cached(j, r)'
           /\ what # "broadcast" => Silent
<1>1. /\ j \in Jobs /\ j \in DOMAIN work /\ work[j].todo \in Seq(Steps \X Insts)
      /\ work[j].todo # << >> /\ work[j].todo[1][1] = what
      /\ Inst(j) = work[j].todo[1][2] /\ 1 \in DOMAIN work[j].todo
      /\ work[j].todo[1] \in Steps \X Insts
  BY StepType, TailOfSeq
<1>2. PICK w : w = work[j]
  OBVIOUS
<1>3. /\ \A x, i : w.todo[1] # <<x, i>> /\ Left(w, x, i) => Left(r, x, i)
      /\ CacheFirst(w) => CacheFirst(r)
  BY <1>1, <1>2, TailLeft
<1>4. CacheFirst(w) /\ Cached(j, w)
  BY <1>1, <1>2 DEF SettleOK
<1>5. /\ Instruments(j[2])' = Instruments(j[2]) /\ j[2] \in Nat
      /\ \A i \in Instruments(j[2]) : i \in Insts
  BY <1>1, QuoteJob DEF Instruments, engine, Msgs
<1>6. ASSUME NEW i \in Instruments(j[2])
      PROVE  Left(r, "cache", i) \/ newest'[i] >= j[2]
  <2>1. Left(w, "cache", i) \/ newest[i] >= j[2]
    BY <1>4 DEF Cached
  <2>2. newest[i] \in Nat /\ newest'[i] \in Nat
    BY <1>5 DEF IInv, OthersOK
  <2>3. CASE w.todo[1] = <<"cache", i>>
    <3>1. what = "cache" /\ Inst(j) = i
      BY <1>1, <1>2, <2>3
    <3> QED BY <3>1
  <2>4. CASE w.todo[1] # <<"cache", i>>
    <3>1. Left(w, "cache", i) => Left(r, "cache", i)
      BY <1>3, <2>4
    <3>2. i \in Insts
      BY <1>5
    <3> QED BY <1>5, <2>1, <2>2, <3>1, <3>2 DEF Grows
  <2> QED BY <2>3, <2>4
<1>7. Cached(j, r)'
  BY <1>5, <1>6 DEF Cached, Left
<1>8. ASSUME what # "broadcast" PROVE Silent
  <2>1. \A i : w.todo[1] # <<"broadcast", i>>
    BY <1>1, <1>2, <1>8
  <2>2. \A i : Left(w, "broadcast", i) => Left(r, "broadcast", i)
    BY <1>3, <2>1
  <2> QED BY <1>1, <1>2, <2>2, SilentStep
<1> QED BY <1>3, <1>4, <1>7, <1>8

LEMMA QueryQuoteSettles ==
    ASSUME IInv, IInv', SettleOK, NEW j \in Jobs, QueryQuote(j)
    PROVE  SettleOK'
<1>0. PICK i : i = Inst(j)
  OBVIOUS
<1>1. /\ At(j, "query") /\ UNCHANGED engine
      /\ UNCHANGED <<quote, subscribed, heard, newest>>
  BY DEF QueryQuote
<1>2. j \in DOMAIN work /\ i \in Insts /\ work[j] \in Job
  BY <1>0, <1>1, StepType
<1>3. PICK v, r : /\ v \in Finds(i) /\ Becomes(j, r)
                  /\ r = [Step(j) EXCEPT !.quote =
                        [seen |-> v, view |-> work[j].user, found |-> TRUE]]
                  /\ excused' = IF j \notin Subscribing THEN excused
                                ELSE excused \cup Lacks(j[2], v, Version(i))
  BY <1>0 DEF QueryQuote
<1>4. /\ r.todo = Tail(work[j].todo) /\ r.insts = work[j].insts
      /\ r.quote.seen = v
      /\ j \in Subscribing <=> j[1] = "subscribe"
  BY <1>2, <1>3 DEF Step, Job, Jobs, Subscribing, Asked
<1>5. Grows
  BY <1>1, GrowsSame
<1>6. CASE j[1] = "quote"
  <2>2. PICK what : what = "query"
    OBVIOUS
  <2>3. At(j, what) /\ what # "cache" /\ what # "broadcast"
    BY <1>1, <2>2
  <2>1. CacheFirst(r) /\ Cached(j, r)' /\ Silent
    BY <1>1, <1>3, <1>4, <1>5, <1>6, <2>3, HandlerGoes
  <2> QED BY <1>1, <1>3, <1>4, <1>5, <1>6, <2>1, HandlerStep
<1>7. CASE j[1] = "subscribe"
  <2>1. work[j].todo = Queries(i) /\ ReaderOf(j[2], work[j], i) /\ work[j].insts = <<i>>
    BY <1>0, <1>1, <1>7, SubscriberJob
  <2>2. r.todo = Caches(i)
    BY <1>2, <1>4, <2>1, StageTails
  <2>3. Silent
    BY <1>1, <1>3, <1>7, SilentStep
  <2>4. ASSUME NEW m \in Msgs, Announces(m, i)', <<j[2], m>> \notin excused'
        PROVE  r.quote.seen >= m
    <3>1. Version(i) >= m /\ m \in Nat
      BY <2>3, <2>4, AnnouncedSeen DEF Silent, Msgs
    <3>2. v \in Nat /\ Version(i) \in Nat
      <4>1. EngineOK /\ saved \in Nat
        BY DEF IInv, EngineOK
      <4>2. v \in 0 .. saved /\ Version(i) \in 0 .. saved
        BY <1>2, <1>3, <4>1, VersionType, FindsType
      <4> QED BY <4>1, <4>2
    <3>3. <<j[2], m>> \notin Lacks(j[2], v, Version(i))
      BY <1>3, <1>4, <1>7, <2>4
    <3> QED BY <1>4, <3>1, <3>2, <3>3, Lacking
  <2>5. ReaderOf(j[2], r, i)'
    BY <1>2, <1>4, <2>1, <2>2, <2>4, StagesDiffer DEF ReaderOf, Stages
  <2>6. excused \subseteq excused'
    BY <1>3
  <2> QED BY <1>1, <1>2, <1>3, <1>4, <1>5, <1>7, <2>5, <2>6, SubscriberStep
<1> QED BY <1>1, <1>3, <1>4, <1>5, <1>6, <1>7, OtherJob

LEMMA CacheQuoteSettles ==
    ASSUME IInv, IInv', SettleOK, NEW j \in Jobs, CacheQuote(j)
    PROVE  SettleOK'
<1>0. PICK i : i = Inst(j)
  OBVIOUS
<1>1. /\ At(j, "cache") /\ UNCHANGED engine /\ Becomes(j, Step(j))
      /\ UNCHANGED <<subscribed, heard, excused>>
      /\ newest' = IF j[1] = "quote" /\ j[2] > newest[i]
                   THEN [newest EXCEPT ![i] = j[2]] ELSE newest
  BY <1>0 DEF CacheQuote, Continues
<1>2. /\ j \in DOMAIN work /\ i \in Insts /\ work[j] \in Job /\ 1 \in DOMAIN work[j].todo
      /\ work[j].todo[1][1] = "cache"
  BY <1>0, <1>1, StepType
<1>3. PICK r : r = Step(j)
  OBVIOUS
<1>4. /\ r.todo = Tail(work[j].todo) /\ r.insts = work[j].insts
      /\ r.quote = work[j].quote /\ Becomes(j, r)
  BY <1>1, <1>2, <1>3 DEF Step, Job
<1>5. /\ newest \in [Insts -> Nat]
      /\ j[1] = "quote" => j[2] \in Nat
  <2>1. newest \in [Insts -> Nat]
    BY DEF IInv, OthersOK
  <2>2. j[1] = "quote" => j[2] \in Nat
    BY <1>2, QuoteJob DEF Msgs
  <2> QED BY <2>1, <2>2
<1>6. Grows
  <2> SUFFICES ASSUME NEW x \in Insts PROVE newest'[x] >= newest[x]
    BY DEF Grows
  <2>1. CASE x = i
    BY <1>1, <1>5, <2>1
  <2>2. CASE x # i
    BY <1>1, <1>5, <2>2
  <2> QED BY <2>1, <2>2
<1>7. CASE j[1] = "quote"
  <2>3. newest'[i] >= j[2]
    BY <1>1, <1>2, <1>5, <1>7
  <2>4. CacheFirst(r) /\ Cached(j, r)' /\ Silent
    BY <1>0, <1>1, <1>4, <1>6, <1>7, <2>3, HandlerGoes
  <2> QED BY <1>1, <1>4, <1>6, <1>7, <2>4, HandlerStep
<1>8. CASE j[1] = "subscribe"
  <2>1. work[j].todo = Caches(i) /\ ReaderOf(j[2], work[j], i) /\ work[j].insts = <<i>>
    BY <1>0, <1>1, <1>8, SubscriberJob
  <2>2. r.todo = Subscribes(i)
    BY <1>2, <1>4, <2>1, StageTails
  <2>3. Silent
    BY <1>1, <1>4, <1>8, SilentStep
  <2>5. \A m \in Msgs : (Announces(m, i) /\ <<j[2], m>> \notin excused) =>
                r.quote.seen >= m \/ Knows(j[2], m)
    BY <1>2, <1>4, <2>1, StagesDiffer DEF ReaderOf
  <2>6. \A v : Knows(j[2], v)' <=> Knows(j[2], v)
    BY <1>1 DEF Knows
  <2>7. ReaderOf(j[2], r, i)'
    BY <1>1, <1>2, <1>4, <2>1, <2>2, <2>3, <2>5, <2>6, StagesDiffer DEF ReaderOf, Stages, Silent
  <2> QED BY <1>1, <1>2, <1>4, <1>6, <1>8, <2>7, SubscriberStep
<1> QED BY <1>1, <1>4, <1>6, <1>7, <1>8, OtherJob

LEMMA SubscribeSettles ==
    ASSUME IInv, IInv', SettleOK, NEW j \in Jobs, Subscribe(j)
    PROVE  SettleOK'
<1>0. PICK i : i = Inst(j)
  OBVIOUS
<1>1. /\ At(j, "subscribe") /\ UNCHANGED engine /\ Becomes(j, Step(j))
      /\ subscribed' = subscribed \cup {<<i, j[2]>>}
      /\ UNCHANGED <<quote, heard, newest, excused>>
  BY <1>0 DEF Subscribe, Continues
<1>2. /\ j \in DOMAIN work /\ i \in Insts /\ work[j] \in Job /\ Shape(j, work[j])
      /\ 1 \in DOMAIN work[j].todo /\ work[j].todo[1][1] = "subscribe"
  BY <1>0, <1>1, StepType
<1>3. j[1] = "subscribe"
  BY <1>2, JobKinds DEF Shape, EngineShape, QuoteShape, OneShape, About
<1>4. /\ work[j].todo = Subscribes(i) /\ ReaderOf(j[2], work[j], i)
      /\ work[j].insts = <<i>> /\ j = <<"subscribe", j[2]>>
  BY <1>0, <1>1, <1>3, SubscriberJob
<1>5. PICK r : r = Step(j)
  OBVIOUS
<1>6. /\ r.todo = Tail(work[j].todo) /\ r.insts = work[j].insts
      /\ r.quote = work[j].quote /\ Becomes(j, r)
  BY <1>1, <1>2, <1>5 DEF Step, Job
<1>7. r.todo = Sends(i) /\ r.insts = <<i>>
  BY <1>2, <1>4, <1>6, StageTails
<1>8. Silent
  BY <1>1, <1>3, <1>6, SilentStep
<1>9. \A m \in Msgs : (Announces(m, i) /\ <<j[2], m>> \notin excused) =>
            r.quote.seen >= m \/ Knows(j[2], m)
  BY <1>2, <1>4, <1>6, StagesDiffer DEF ReaderOf
<1>10. \A v : Knows(j[2], v)' <=> Knows(j[2], v)
  BY <1>1 DEF Knows
<1>11. ReaderOf(j[2], r, i)'
  BY <1>1, <1>2, <1>7, <1>8, <1>9, <1>10, StagesDiffer DEF ReaderOf, Stages, Silent
<1>12. \A x \in subscribed' \ subscribed : j = <<"subscribe", x[2]>> /\ r.insts = <<x[1]>>
  BY <1>1, <1>4, <1>7
<1>13. Grows
  BY <1>1, GrowsSame
<1> QED BY <1>1, <1>2, <1>3, <1>6, <1>11, <1>12, <1>13, SubscriberStep

LEMMA SendInitMessageSettles ==
    ASSUME IInv, IInv', SettleOK, NEW j \in Jobs, SendInitMessage(j)
    PROVE  SettleOK'
<1>0. PICK i : i = Inst(j)
  OBVIOUS
<1>1. /\ At(j, "send") /\ UNCHANGED engine /\ Becomes(j, Step(j))
      /\ heard' = heard \cup {<<j[2], 0, work[j].quote.seen, work[j].quote.view>>}
      /\ UNCHANGED <<quote, subscribed, newest, excused>>
  BY DEF SendInitMessage, Continues
<1>2. /\ j \in DOMAIN work /\ i \in Insts /\ work[j] \in Job /\ Shape(j, work[j])
      /\ 1 \in DOMAIN work[j].todo /\ work[j].todo[1][1] = "send"
  BY <1>0, <1>1, StepType
<1>3. j[1] = "subscribe"
  BY <1>2, JobKinds DEF Shape, EngineShape, QuoteShape, OneShape, About
<1>4. /\ work[j].todo = Sends(i) /\ ReaderOf(j[2], work[j], i) /\ work[j].insts = <<i>>
  BY <1>0, <1>1, <1>3, SubscriberJob
<1>5. PICK r : r = Step(j)
  OBVIOUS
<1>6. /\ r.todo = Tail(work[j].todo) /\ r.insts = work[j].insts
      /\ r.quote = work[j].quote /\ Becomes(j, r)
  BY <1>1, <1>2, <1>5 DEF Step, Job
<1>7. r.todo = << >> /\ r.insts = <<i>> /\ r.quote.seen \in Nat
  <2>1. r.todo = << >> /\ r.insts = <<i>>
    BY <1>2, <1>4, <1>6, StageTails
  <2>2. work[j].quote \in Quotes /\ saved \in Nat
    BY <1>1, <1>2, StepType DEF Job
  <2>3. work[j].quote.seen \in Nat
    BY <2>2 DEF Quotes
  <2> QED BY <1>6, <2>1, <2>3
<1>8. Silent
  BY <1>1, <1>3, <1>6, SilentStep
<1>9. /\ <<i, j[2]>> \in subscribed
      /\ \A m \in Msgs : (Announces(m, i) /\ <<j[2], m>> \notin excused) =>
            r.quote.seen >= m \/ Knows(j[2], m)
  BY <1>2, <1>4, <1>6, StagesDiffer DEF ReaderOf
<1>10. \A v : Knows(j[2], v) => Knows(j[2], v)'
  BY <1>1 DEF Knows
<1>11. Knows(j[2], r.quote.seen)'
  <2>1. PICK h : h = <<j[2], 0, work[j].quote.seen, work[j].quote.view>>
    OBVIOUS
  <2>2. h \in heard' /\ h[1] = j[2] /\ h[3] >= r.quote.seen
    BY <1>1, <1>6, <1>7, <2>1
  <2> QED BY <2>2 DEF Knows
<1>12. ReaderOf(j[2], r, i)'
  BY <1>1, <1>2, <1>7, <1>8, <1>9, <1>10, <1>11, StagesDiffer DEF ReaderOf, Stages, Silent
<1>13. Grows
  BY <1>1, GrowsSame
<1>14. heard \subseteq heard'
  BY <1>1
<1> QED BY <1>1, <1>2, <1>3, <1>6, <1>12, <1>13, <1>14, SubscriberStep

(* Whoever is between reading and subscribing when the quote of a later    *)
(* change is broadcast is excused; whoever subscribes gets it, or is       *)
(* excused since its query failed.                                         *)
LEMMA BroadcastSettles ==
    ASSUME IInv, IInv', SettleOK, NEW j \in Jobs, BroadcastMessage(j)
    PROVE  SettleOK'
<1>0. PICK i : i = Inst(j)
  OBVIOUS
<1>1. PICK v : v = work[j].quote.seen
  OBVIOUS
<1>2. /\ At(j, "broadcast") /\ UNCHANGED engine /\ Becomes(j, Step(j))
      /\ heard' = heard \cup {<<c, j[2], v, work[j].quote.view>> : c \in Following(i)}
      /\ excused \subseteq excused'
      /\ \A c \in Between(i, j[2]) : <<c, j[2]>> \in excused'
      /\ v < j[2] => \A c \in Following(i) : <<c, j[2]>> \in excused'
      /\ UNCHANGED <<quote, subscribed, newest>>
  BY <1>0, <1>1 DEF BroadcastMessage, Announced, Continues
<1>3. /\ j \in DOMAIN work /\ i \in Insts /\ work[j] \in Job /\ Shape(j, work[j])
      /\ 1 \in DOMAIN work[j].todo /\ work[j].todo[1][1] = "broadcast"
  BY <1>0, <1>2, StepType
<1>4. j[1] = "quote"
  BY <1>3, JobKinds DEF Shape, EngineShape, OneShape, About
<1>5. v \in Nat /\ j[2] \in Nat /\ j = <<"quote", j[2]>>
  <2>1. j[2] \in Nat /\ j = <<"quote", j[2]>>
    BY <1>3, <1>4, QuoteJob DEF Msgs
  <2>3. work[j].quote \in Quotes /\ saved \in Nat
    BY <1>2, <1>3, StepType DEF Job
  <2>4. work[j].quote.seen \in Nat
    BY <2>3 DEF Quotes
  <2> QED BY <1>1, <2>1, <2>4
<1>6. PICK r : r = Step(j)
  OBVIOUS
<1>7. /\ r.todo = Tail(work[j].todo) /\ r.insts = work[j].insts /\ Becomes(j, r)
      /\ work[j].todo \in Seq(Steps \X Insts) /\ work[j].todo # << >>
      /\ work[j].todo[1][2] = i
  BY <1>0, <1>2, <1>3, <1>6, StepType DEF Step, Job
<1>8. Grows
  BY <1>2, GrowsSame
<1>9. CacheFirst(r) /\ Cached(j, r)'
  <2>1. PICK what : what = "broadcast"
    OBVIOUS
  <2>2. At(j, what) /\ what # "cache"
    BY <1>2, <2>1
  <2> QED BY <1>2, <1>4, <1>7, <1>8, <2>2, HandlerGoes
<1>10. ASSUME NEW m, NEW x, Announces(m, x)'
       PROVE  Announces(m, x) \/ (m = j[2] /\ x = i)
  <2>1. PICK n : n = <<"quote", m>>
    OBVIOUS
  <2>2. Instruments(m)' = Instruments(m)
    BY <1>2 DEF Instruments, engine
  <2>3. n \in DOMAIN work' /\ x \in Instruments(m) /\ ~Left(work[n], "broadcast", x)'
    BY <1>10, <2>1, <2>2 DEF Announces
  <2>4. CASE n # j
    <3>1. n \in DOMAIN work /\ work'[n] = work[n]
      BY <1>7, <2>3, <2>4 DEF Becomes
    <3> QED BY <2>1, <2>3, <3>1 DEF Announces, Left
  <2>5. CASE n = j
    <3>1. work'[n] = r /\ m = j[2]
      BY <1>5, <1>7, <2>1, <2>5 DEF Becomes
    <3>2. ~Left(r, "broadcast", x)
      BY <2>3, <3>1 DEF Left
    <3>3. PICK w : w = work[j]
      OBVIOUS
    <3>4. x = i \/ ~Left(w, "broadcast", x)
      <4>1. ASSUME x # i PROVE w.todo[1] # <<"broadcast", x>>
        BY <1>7, <3>3, <4>1
      <4> QED BY <1>7, <3>2, <3>3, <4>1, TailLeft
    <3> QED BY <1>3, <2>1, <2>3, <2>5, <3>1, <3>3, <3>4 DEF Announces
  <2> QED BY <2>4, <2>5
<1>11. ASSUME NEW n \in DOMAIN work \ {j}, n[1] = "subscribe" PROVE Reader(n, work[n])'
  <2>1. PICK w : w = work[n] /\ w = work'[n]
    BY <1>7 DEF Becomes
  <2>2. PICK x \in Insts : ReaderOf(n[2], w, x)
    BY <1>11, <2>1 DEF SettleOK, Reader
  <2>3. PICK c : c = n[2]
    OBVIOUS
  <2>4. n = <<"subscribe", c>> /\ c \in Subs /\ w \in Job
    <3>1. n \in Jobs /\ w \in Job
      BY <2>1 DEF IInv, WorkOK
    <3> QED BY <1>11, <2>3, <3>1 DEF Jobs, Subscribing, Asked
  <2>5. ASSUME NEW m \in Msgs, Announces(m, x)'
        PROVE  Announces(m, x) \/ <<c, m>> \in excused' \/ w.quote.seen >= m \/ Knows(c, m)'
                    \/ w.todo \in {Asks(x), Queries(x)}
    <3>1. CASE ~(m = j[2] /\ x = i)
      BY <1>10, <2>5, <3>1
    <3>2. CASE m = j[2] /\ x = i
      <4>1. w.todo \in Stages(x)
        BY <2>2 DEF ReaderOf
      <4>2. CASE w.todo \in {Sends(x), << >>}
        <5>1. <<i, c>> \in subscribed
          BY <2>2, <2>3, <3>2, <4>2 DEF ReaderOf
        <5>2. c \in Following(i)
          BY <2>4, <5>1 DEF Following
        <5>3. PICK h : h = <<c, j[2], v, work[j].quote.view>>
          OBVIOUS
        <5>4. CASE v < j[2]
          BY <1>2, <3>2, <5>2, <5>4
        <5>5. CASE ~(v < j[2])
          <6>1. h \in heard' /\ h[1] = c /\ h[3] >= m
            BY <1>2, <1>5, <3>2, <5>2, <5>3, <5>5
          <6> QED BY <6>1 DEF Knows
        <5> QED BY <5>4, <5>5
      <4>3. CASE w.todo \in {Caches(x), Subscribes(x)}
        <5>1. /\ w.todo # << >> /\ w.todo[1][1] \in {"cache", "subscribe"}
              /\ w.todo[1][2] = x
          BY <4>3, StageHeads, StagesDiffer
        <5>2. (At(n, "cache") \/ At(n, "subscribe")) /\ Inst(n) = i
          BY <2>1, <3>2, <5>1 DEF At, Inst
        <5>3. w.quote.seen \in Nat
          <6>1. w.quote \in Quotes /\ saved \in Nat
            BY <1>2, <2>4, StepType DEF Job
          <6> QED BY <6>1 DEF Quotes
        <5>4. CASE w.quote.seen < j[2]
          <6>1. c \in Between(i, j[2])
            BY <2>1, <2>4, <5>2, <5>4 DEF Between
          <6> QED BY <1>2, <3>2, <6>1
        <5>5. CASE ~(w.quote.seen < j[2])
          BY <1>5, <3>2, <5>3, <5>5
        <5> QED BY <5>4, <5>5
      <4> QED BY <4>1, <4>2, <4>3 DEF Stages
    <3> QED BY <3>1, <3>2
  <2>6. /\ subscribed \subseteq subscribed' /\ heard \subseteq heard'
        /\ excused \subseteq excused'
    BY <1>2
  <2>7. ReaderOf(c, w, x)'
    BY <2>2, <2>3, <2>5, <2>6, ReaderStays
  <2> QED BY <2>1, <2>3, <2>7 DEF Reader
<1> QED BY <1>2, <1>3, <1>4, <1>7, <1>8, <1>9, <1>11, SettleStep

LEMMA SettleSame ==
    ASSUME IInv, SettleOK, UNCHANGED <<work, quotes>>,
           \A m \in DOMAIN msg : m \in DOMAIN msg' /\ msg'[m] = msg[m]
    PROVE  SettleOK'
<1>1. UNCHANGED <<work, quote, subscribed, heard, newest, excused>>
  BY DEF quotes
<1>2. ASSUME NEW j \in DOMAIN work, j[1] = "quote"
      PROVE  Instruments(j[2])' = Instruments(j[2])
  BY <1>2, QuoteJob DEF Instruments
<1>3. Silent
  <2> SUFFICES ASSUME NEW m, NEW i, Announces(m, i)' PROVE Announces(m, i)
    BY DEF Silent
  <2>1. PICK j : j = <<"quote", m>>
    OBVIOUS
  <2>2. j \in DOMAIN work /\ i \in Instruments(m)' /\ ~Left(work[j], "broadcast", i)
    BY <1>1, <2>1 DEF Announces, Left
  <2>3. Instruments(m)' = Instruments(m)
    BY <1>2, <2>1, <2>2
  <2> QED BY <2>1, <2>2, <2>3 DEF Announces
<1>4. ASSUME NEW j \in DOMAIN work', j[1] = "quote"
      PROVE  (CacheFirst(work[j]) /\ Cached(j, work[j]))'
  <2>1. j \in DOMAIN work /\ CacheFirst(work[j]) /\ Cached(j, work[j])
    BY <1>1, <1>4 DEF SettleOK
  <2> QED BY <1>1, <1>2, <1>4, <2>1 DEF CacheFirst, Cached, Left
<1>5. ASSUME NEW n \in DOMAIN work', n[1] = "subscribe" PROVE Reader(n, work[n])'
  <2>1. PICK w : w = work[n] /\ w = work'[n]
    BY <1>1
  <2>2. PICK i \in Insts : ReaderOf(n[2], w, i)
    BY <1>1, <1>5, <2>1 DEF SettleOK, Reader
  <2>3. ReaderOf(n[2], w, i)'
    BY <1>1, <1>3, <2>2, ReaderStays DEF Silent
  <2> QED BY <2>1, <2>3 DEF Reader
<1> QED BY <1>1, <1>4, <1>5 DEF SettleOK

LEMMA NextSettles == IInv /\ SettleOK /\ [Next]_vars => SettleOK'
<1> SUFFICES ASSUME IInv, SettleOK, [Next]_vars PROVE SettleOK'
  OBVIOUS
<1>1. IInv'
  BY NextKeeps
<1>2. CASE UNCHANGED vars
  BY <1>2, SettleSame DEF vars, engine
<1>3. CASE EngineNext /\ UNCHANGED <<work, logs, quotes>>
  <2>1. \A m \in DOMAIN msg : m \in DOMAIN msg' /\ msg'[m] = msg[m]
    BY <1>3, EngineKeeps DEF IInv
  <2> QED BY <1>3, <2>1, SettleSame
<1>4. ASSUME NEW j \in Jobs, Goroutine(j) PROVE SettleOK'
  BY <1>1, <1>4, LogSettles, GetQuoteSettles, QueryQuoteSettles, CacheQuoteSettles,
     BroadcastSettles, SubscribeSettles, SendInitMessageSettles DEF Goroutine
<1> QED BY <1>1, <1>2, <1>3, <1>4, StartSettles DEF Next, Service

LEMMA SettleStarts == Init => SettleOK
BY DEF Init, SettleOK

LEMMA SettleSays == IInv /\ SettleOK => QuoteSettles
<1> SUFFICES ASSUME IInv, SettleOK,
                    NEW m \in OrderSaved \cup CancelSaved, NEW i \in Instruments(m),
                    NEW c \in Subs, Done(<<"quote", m>>),
                    Done(<<"subscribe", c>>), c \in Following(i), <<c, m>> \notin excused
             PROVE  \E h \in heard : h[1] = c /\ h[3] >= m
  BY DEF QuoteSettles
<1>1. PICK j, n : j = <<"subscribe", c>> /\ n = <<"quote", m>>
  OBVIOUS
<1>2. /\ j \in DOMAIN work /\ work[j].todo = << >> /\ work[j].insts = <<i>>
      /\ n \in DOMAIN work /\ work[n].todo = << >>
  <2>1. <<i, c>> \in subscribed
    BY DEF Following
  <2>2. work[j].insts = <<i>>
    BY <1>1, <2>1 DEF SettleOK
  <2> QED BY <1>1, <2>2 DEF Done
<1>3. Announces(m, i) /\ m \in Msgs
  <2>1. Announces(m, i)
    BY <1>1, <1>2 DEF Announces, Left
  <2> QED BY <2>1, AnnouncedSeen
<1>4. PICK x \in Insts : ReaderOf(c, work[j], x)
  BY <1>1, <1>2 DEF SettleOK, Reader
<1>5. x = i
  BY <1>2, <1>4 DEF ReaderOf
<1>6. work[j].todo \notin {Asks(x), Queries(x)}
  BY <1>2, StagesDiffer
<1>7. work[j].quote.seen >= m \/ Knows(c, m)
  BY <1>3, <1>4, <1>5, <1>6 DEF ReaderOf
<1>8. Knows(c, work[j].quote.seen)
  BY <1>2, <1>4 DEF ReaderOf
<1>9. CASE Knows(c, m)
  BY <1>9 DEF Knows
<1>10. CASE work[j].quote.seen >= m
  <2>1. PICK h \in heard : h[1] = c /\ h[3] >= work[j].quote.seen
    BY <1>8 DEF Knows
  <2>2. h[3] \in Nat /\ work[j].quote.seen \in Nat /\ m \in Nat
    <3>1. h \in Subs \X (0 .. MaxMsgs) \X (0 .. saved) \X Views /\ saved \in Nat
      BY DEF IInv, HeardOK, EngineOK
    <3>2. work[j].quote \in Quotes
      BY <1>2 DEF IInv, WorkOK, Job
    <3> QED BY <1>3, <3>1, <3>2 DEF Quotes, Msgs
  <2>3. h[3] >= m
    BY <1>10, <2>1, <2>2
  <2> QED BY <2>1, <2>3
<1> QED BY <1>7, <1>9, <1>10

(* Who subscribes to quotes has been sent every change that was handled,   *)
(* however often the cache was overwritten and whoever else computed       *)
(* quotes meanwhile, but for the changes QuoteSettles excepts one by one:  *)
(* a query failed, the cache was left behind, or the quote was broadcast   *)
(* before the subscriber was there; for any instruments, clients, messages.*)
THEOREM QuotesSettle == Spec => []QuoteSettles
BY SettleStarts, SettleSays, Starting, NextKeeps, NextSettles, PTL DEF Spec

-----------------------------------------------------------------------------
LEMMA ServiceLeavesEngine == Service => UNCHANGED engine
BY DEF Service, Start, HandleConsume, ConsumeQuote, SubscribeQuote, Starts, GetOrderBook,
       Goroutine, checkDateToRemoveRedis, ReadLog, WriteLog, GetQuote, QueryQuote,
       CacheQuote, BroadcastMessage, Subscribe, SendInitMessage

(* What is broadcast in one step is one quote, and has its change, or its  *)
(* query failed.                                                           *)
LEMMA OneQuote ==
    ASSUME IInv, IInv', Service
    PROVE  \E m, v, R : /\ R \subseteq Subs
                        /\ QuoteUpdates' = QuoteUpdates \cup {<<r, m, v>> : r \in R}
                        /\ R # {} => OfChange(m, v)
<1>1. UNCHANGED engine
  BY ServiceLeavesEngine
<1>2. CASE QuoteUpdates' = QuoteUpdates
  <2>1. \A m, v : QuoteUpdates' = QuoteUpdates \cup {<<r, m, v>> : r \in {}}
    BY <1>2
  <2> QED BY <1>1, <2>1
<1>3. ASSUME NEW j \in Jobs, BroadcastMessage(j)
      PROVE  \E m, v, R : /\ R \subseteq Subs
                          /\ QuoteUpdates' = QuoteUpdates \cup {<<r, m, v>> : r \in R}
                          /\ R # {} => OfChange(m, v)
  <2> DEFINE sent(m, v, view, R) == {<<r, m, v, view>> : r \in R}
  <2>5. heard' = heard \cup sent(j[2], Announced(j).seen, Announced(j).view, Following(Inst(j)))
    BY <1>3 DEF BroadcastMessage
  <2>6. Following(Inst(j)) \subseteq Subs
    BY DEF Following
  <2> HIDE DEF sent
  <2>7. PICK m, v, view, R : heard' = heard \cup sent(m, v, view, R) /\ R \subseteq Subs
    BY <2>5, <2>6
  <2>1. heard' = heard \cup {<<r, m, v, view>> : r \in R} /\ R \subseteq Subs
    BY <2>7 DEF sent
  <2>2. saved' = saved /\ \A r \in R : <<r, m, v, view>> \in heard'
    BY <1>1, <2>1 DEF engine
  <2>3. CASE m = 0
    <3>1. {x \in heard' : x[2] # 0} = {x \in heard : x[2] # 0}
      BY <2>1, <2>3
    <3>2. QuoteUpdates' = QuoteUpdates
      BY <3>1 DEF QuoteUpdates
    <3>3. QuoteUpdates' = QuoteUpdates \cup {<<r, m, v>> : r \in {}}
      BY <3>2
    <3> QED BY <3>3
  <2>4. CASE m # 0
    <3>1. {x \in heard' : x[2] # 0}
            = {x \in heard : x[2] # 0} \cup {<<r, m, v, view>> : r \in R}
      BY <2>1, <2>4
    <3>2. QuoteUpdates' = QuoteUpdates \cup {<<r, m, v>> : r \in R}
      <4> DEFINE was == {x \in heard : x[2] # 0}
      <4>1. QuoteUpdates' = {<<h[1], h[2], h[3]>> : h \in was \cup {<<r, m, v, view>> : r \in R}}
        BY <3>1 DEF QuoteUpdates
      <4>2. QuoteUpdates = {<<h[1], h[2], h[3]>> : h \in was}
        BY DEF QuoteUpdates
      <4> HIDE DEF was
      <4>3. ASSUME NEW q \in QuoteUpdates' PROVE q \in QuoteUpdates \cup {<<r, m, v>> : r \in R}
        BY <4>1, <4>2
      <4>4. ASSUME NEW r \in R PROVE <<r, m, v>> \in QuoteUpdates'
        <5>1. PICK h : h = <<r, m, v, view>>
          OBVIOUS
        <5>2. h \in was \cup {<<x, m, v, view>> : x \in R} /\ <<h[1], h[2], h[3]>> = <<r, m, v>>
          BY <5>1
        <5> QED BY <4>1, <5>2
      <4>5. QuoteUpdates \subseteq QuoteUpdates'
        BY <4>1, <4>2
      <4> QED BY <4>3, <4>4, <4>5
    <3>3. R # {} => OfChange(m, v)
      <4> SUFFICES ASSUME NEW r \in R PROVE OfChange(m, v)
        OBVIOUS
      <4>1. PICK h : h = <<r, m, v, view>>
        OBVIOUS
      <4>2. h \in heard' /\ h[2] = m /\ h[3] = v
        BY <2>2, <4>1
      <4>3. m \in 1 .. saved' /\ v \in {0} \cup (m .. saved')
        BY <2>4, <4>2 DEF IInv, HeardOK
      <4> QED BY <2>2, <4>3 DEF OfChange
    <3> QED BY <2>1, <3>2, <3>3
  <2> QED BY <2>3, <2>4
<1>4. ASSUME NEW j \in Jobs, SendInitMessage(j) PROVE QuoteUpdates' = QuoteUpdates
  <2>3. PICK h : h = <<j[2], 0, work[j].quote.seen, work[j].quote.view>>
    OBVIOUS
  <2>1. heard' = heard \cup {h} /\ h[2] = 0
    BY <1>4, <2>3 DEF SendInitMessage
  <2>2. {x \in heard' : x[2] # 0} = {x \in heard : x[2] # 0}
    BY <2>1
  <2> QED BY <2>2 DEF QuoteUpdates
<1>5. \/ \E j \in Jobs : BroadcastMessage(j)
      \/ \E j \in Jobs : SendInitMessage(j)
      \/ heard' = heard
  BY DEF Service, Start, HandleConsume, ConsumeQuote, SubscribeQuote, Starts, GetOrderBook,
         Goroutine, checkDateToRemoveRedis, ReadLog, WriteLog, GetQuote, QueryQuote,
         CacheQuote, Subscribe, quotes
<1>6. heard' = heard => QuoteUpdates' = QuoteUpdates
  BY DEF QuoteUpdates
<1> QED BY <1>1, <1>2, <1>3, <1>4, <1>5, <1>6
=============================================================================
