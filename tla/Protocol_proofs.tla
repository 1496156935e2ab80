--------------------------- MODULE Protocol_proofs ---------------------------
(***************************************************************************)
(* Invariants of Protocol, for any set of requests, ids, users, handlers   *)
(* and connections.                                                        *)
(***************************************************************************)
EXTENDS Protocol, TLAPS

(* The goroutines of a request. *)
LEMMA Goroutines ==
    ASSUME NEW r \in Requests
    PROVE  /\ H(r) \in Threads /\ G(r) \in Threads
           /\ A(r) \in Threads /\ C(r) \in Threads
BY DEF H, G, A, C, Threads

(* A goroutine belongs to a request. *)
LEMMA Owner ==
    ASSUME NEW t \in Threads
    PROVE  t[2] \in Requests /\ t[1] \in {"h", "g", "a", "c"}
BY DEF Threads

(* The keys of a request carry its id. *)
LEMMA KeysOfRequest ==
    ASSUME Typed, NEW r \in Requests
    PROVE  /\ AnonKey(r) \in Keys /\ AnonKey(r)[1] = req[r].id
           /\ UserKey(r) \in Keys /\ UserKey(r)[1] = req[r].id
           /\ req[r].handler \in Handler
<1>1. req[r] \in Input
  BY DEF Typed
<1>2. req[r].id \in Ids /\ req[r].user \in Users \cup {NoUser} /\ req[r].handler \in Handler
  BY <1>1, ConstantsOK DEF Input
<1> QED BY <1>2 DEF AnonKey, UserKey, Keys

(* A goroutine's key is a key or "". *)
LEMMA KeyOfGoroutine ==
    ASSUME Typed, NEW t \in Threads
    PROVE  KeyOf(t) \in Keys \cup {NoKey}
BY Owner, KeysOfRequest DEF KeyOf, Typed

(* Jumping to a label keeps pc in its type. *)
LEMMA GotoType ==
    ASSUME Typed, NEW t \in Threads, NEW l \in Labels, Goto(t, l)
    PROVE  pc' \in [Threads -> Labels]
BY DEF Goto, Typed

(* Entering the script keeps what it sets in its type. *)
LEMMA EnterType ==
    ASSUME Typed, NEW r \in Requests, NEW k \in Keys \cup {NoKey},
           NEW lead \in Seq(Token), NEW rest \in SUBSET Seq(Token),
           Enter(r, k, lead, rest)
    PROVE  /\ connKey' \in [Requests -> Keys \cup {NoKey}]
           /\ script' \in [Requests -> Seq(Token)]
           /\ pc' \in [Threads -> Labels]
<1>1. connKey' \in [Requests -> Keys \cup {NoKey}]
  BY DEF Enter, Typed
<1>2. script' \in [Requests -> Seq(Token)]
  <2>1. PICK b \in rest : script' = [script EXCEPT ![r] = lead \o b]
    BY DEF Enter
  <2>2. lead \o b \in Seq(Token)
    OBVIOUS
  <2> QED BY <2>1, <2>2 DEF Typed
<1>3. pc' \in [Threads -> Labels]
  BY GotoType, Goroutines DEF Enter, Labels
<1> QED BY <1>1, <1>2, <1>3

(* The two ways out of requestHelper. *)
LEMMA ProceedType ==
    ASSUME Typed, NEW r \in Requests, NEW k \in Keys \cup {NoKey},
           Proceed(r, k) \/ Refuse(r, k)
    PROVE  /\ connKey' \in [Requests -> Keys \cup {NoKey}]
           /\ script' \in [Requests -> Seq(Token)]
           /\ pc' \in [Threads -> Labels]
<1>1. req[r].handler.body \in SUBSET Seq(Token)
  BY KeysOfRequest DEF Handler
<1>2. <<>> \in Seq(Token) /\ <<"direct">> \in Seq(Token) /\ <<"key">> \in Seq(Token)
  BY DEF Token
<1>3. CASE Proceed(r, k)
  BY <1>1, <1>2, <1>3, EnterType DEF Proceed
<1>4. CASE Refuse(r, k)
  <2> DEFINE lead == IF k = NoKey /\ req[r].handler.dup = "direct"
                     THEN <<"direct">> ELSE <<"key">>
             rest == IF req[r].handler.falls THEN req[r].handler.body ELSE {<<>>}
  <2>1. lead \in Seq(Token) /\ rest \in SUBSET Seq(Token)
    BY <1>1, <1>2
  <2>2. Enter(r, k, lead, rest)
    BY <1>4 DEF Refuse
  <2> HIDE DEF lead, rest
  <2> QED BY <2>1, <2>2, EnterType
<1> QED BY <1>3, <1>4

(* Popping a call keeps the script in its type. *)
LEMMA CallsType ==
    ASSUME Typed, NEW r \in Requests, NEW token, Calls(r, token)
    PROVE  script' \in [Requests -> Seq(Token)]
<1>1. script[r] \in Seq(Token) /\ script[r] # <<>>
  BY DEF Typed, Calls
<1>2. Tail(script[r]) \in Seq(Token)
  BY <1>1
<1> QED BY <1>2 DEF Typed, Calls

(* Counting an answer keeps the counts in their type. *)
LEMMA AnswerType ==
    ASSUME Typed, NEW r, NEW t, Answer(r, t)
    PROVE  answers' \in [Requests -> [Threads -> Nat]]
<1>1. CASE t \in Threads
  <2>1. \A s \in Requests : answers[s][t] + 1 \in Nat
    BY <1>1 DEF Typed
  <2>2. \A s \in Requests : [answers[s] EXCEPT ![t] = answers[s][t] + 1] \in [Threads -> Nat]
    BY <2>1, Zenon DEF Typed
  <2> QED BY <2>2, Zenon DEF Typed, Answer
<1>2. CASE t \notin Threads
  <2>1. \A f \in [Threads -> Nat] : \A v : [f EXCEPT ![t] = v] = f
    BY <1>2
  <2>2. \A s \in Requests : [answers[s] EXCEPT ![t] = answers[s][t] + 1] \in [Threads -> Nat]
    <3> TAKE s \in Requests
    <3> DEFINE v == answers[s][t] + 1
    <3>1. answers[s] \in [Threads -> Nat]
      BY DEF Typed
    <3> HIDE DEF v
    <3>2. [answers[s] EXCEPT ![t] = v] \in [Threads -> Nat]
      BY <2>1, <3>1
    <3> QED BY <3>2 DEF v
  <2> QED BY <2>2, Zenon DEF Typed, Answer
<1> QED BY <1>1, <1>2

(* Every step keeps the variables in their types. *)
LEMMA TypesKept == Spec => []Typed
<1>1. Init => Typed
  BY ConstantsOK DEF Init, Typed, Labels, Threads
<1>2. ASSUME Typed, [Next]_vars PROVE Typed'
  <2>1. ASSUME NEW r \in Requests, RegisterCheck(r) PROVE Typed'
    <3>1. pc' \in [Threads -> Labels]
      BY <1>2, <2>1, Goroutines, GotoType DEF RegisterCheck, Labels
    <3> QED BY <1>2, <2>1, <3>1, Goroutines, KeysOfRequest DEF RegisterCheck, Typed, locals, shared, Clashes
  <2>2. ASSUME NEW r \in Requests, UpgradeRead(r) PROVE Typed'
    <3>1. pc' \in [Threads -> Labels]
      BY <1>2, <2>2, Goroutines, GotoType DEF UpgradeRead, Labels
    <3> QED BY <1>2, <2>2, <3>1, Goroutines, KeysOfRequest DEF UpgradeRead, Typed, locals, shared
  <2>3. ASSUME NEW r \in Requests, UpgradeCheck(r) PROVE Typed'
    <3>1. pc' \in [Threads -> Labels]
      BY <1>2, <2>3, Goroutines, GotoType DEF UpgradeCheck, Labels
    <3> QED BY <1>2, <2>3, <3>1, Goroutines, KeysOfRequest DEF UpgradeCheck, Typed, locals, shared
  <2>4. ASSUME NEW r \in Requests, EvalTimeout(r) PROVE Typed'
    <3>1. pc' \in [Threads -> Labels]
      BY <1>2, <2>4, Goroutines, GotoType DEF EvalTimeout, Labels
    <3> QED BY <1>2, <2>4, <3>1, Goroutines DEF EvalTimeout, Typed, locals, shared, TimerOf
  <2>5. ASSUME NEW r \in Requests, Expire(r) PROVE Typed'
    <3>1. pc' \in [Threads -> Labels]
      BY <1>2, <2>5, Goroutines, GotoType DEF Expire, Labels
    <3> QED BY <1>2, <2>5, <3>1, Goroutines DEF Expire, Typed, locals, shared
  <2>6. ASSUME NEW r \in Requests, PollResult(r) PROVE Typed'
    <3>1. pc' \in [Threads -> Labels]
      BY <1>2, <2>6, Goroutines, GotoType DEF PollResult, Labels
    <3> QED BY <1>2, <2>6, <3>1, Goroutines DEF PollResult, Typed, locals, shared, ResultOf
  <2>7. ASSUME NEW r \in Requests, ContextDone(r) PROVE Typed'
    <3>1. pc' \in [Threads -> Labels]
      BY <1>2, <2>7, Goroutines, GotoType DEF ContextDone, Labels
    <3> QED BY <1>2, <2>7, <3>1, Goroutines DEF ContextDone, Typed, locals, shared
  <2>8. ASSUME NEW r \in Requests, ArmTimeout(r) PROVE Typed'
    <3>1. pc' \in [Threads -> Labels]
      BY <1>2, <2>8, Goroutines, GotoType DEF ArmTimeout, Labels
    <3> QED BY <1>2, <2>8, <3>1, Goroutines DEF ArmTimeout, Typed, locals, shared, SetTimer
  <2>9. ASSUME NEW r \in Requests, ClearResult(r) PROVE Typed'
    <3>1. pc' \in [Threads -> Labels]
      BY <1>2, <2>9, Goroutines, GotoType DEF ClearResult, Labels
    <3> QED BY <1>2, <2>9, <3>1, Goroutines DEF ClearResult, Typed, locals, shared
  <2>10. ASSUME NEW r \in Requests, DeleteTimeout(r) PROVE Typed'
    <3>1. pc' \in [Threads -> Labels]
      BY <1>2, <2>10, Goroutines, GotoType DEF DeleteTimeout, Labels
    <3> QED BY <1>2, <2>10, <3>1, Goroutines DEF DeleteTimeout, Typed, locals, shared, SetTimer
  <2>11. ASSUME NEW r \in Requests, PublishOrder(r) PROVE Typed'
    <3>1. pc' \in [Threads -> Labels]
      BY <1>2, <2>11, Goroutines, GotoType DEF PublishOrder, Labels
    <3> QED BY <1>2, <2>11, <3>1, Goroutines DEF PublishOrder, Typed, locals, shared
  <2>12. ASSUME NEW t \in Threads, handleTopicCancelledOrders(t) PROVE Typed'
    <3>1. pc' \in [Threads -> Labels]
      BY <1>2, <2>12, Goroutines, GotoType DEF handleTopicCancelledOrders, Labels
    <3> QED BY <1>2, <2>12, <3>1, Goroutines DEF handleTopicCancelledOrders, Typed, locals, shared
  <2>13. ASSUME NEW r \in Requests, CallTimeOutProtocol(r) PROVE Typed'
    <3>1. pc' \in [Threads -> Labels]
      BY <1>2, <2>13, Goroutines, GotoType DEF CallTimeOutProtocol, Labels
    <3>2. script' \in [Requests -> Seq(Token)]
      BY <1>2, <2>13, CallsType DEF CallTimeOutProtocol
    <3> QED BY <1>2, <2>13, <3>1, <3>2 DEF CallTimeOutProtocol, Typed, shared
  <2>14. ASSUME NEW r \in Requests, CallRegisterChannel(r) PROVE Typed'
    <3>1. pc' \in [Threads -> Labels]
      BY <1>2, <2>14, Goroutines, GotoType DEF CallRegisterChannel, Labels
    <3>2. script' \in [Requests -> Seq(Token)]
      BY <1>2, <2>14, CallsType DEF CallRegisterChannel
    <3> QED BY <1>2, <2>14, <3>1, <3>2 DEF CallRegisterChannel, Typed, shared
  <2>15. ASSUME NEW r \in Requests, Produce(r) PROVE Typed'
    <3>1. pc' \in [Threads -> Labels]
      BY <1>2, <2>15, Goroutines, GotoType DEF Produce, Labels
    <3>2. script' \in [Requests -> Seq(Token)]
      BY <1>2, <2>15, CallsType DEF Produce
    <3> QED BY <1>2, <2>15, <3>1, <3>2 DEF Produce, Typed, shared
  <2>16. ASSUME NEW r \in Requests, Crash(r) PROVE Typed'
    <3>1. pc' \in [Threads -> Labels]
      BY <1>2, <2>16, Goroutines, GotoType DEF Crash, Labels
    <3>2. script' \in [Requests -> Seq(Token)]
      BY <1>2, <2>16, CallsType DEF Crash
    <3> QED BY <1>2, <2>16, <3>1, <3>2 DEF Crash, Typed, shared
  <2>17. ASSUME NEW r \in Requests, ReceiveResult(r) PROVE Typed'
    <3>1. pc' \in [Threads -> Labels]
      BY <1>2, <2>17, Goroutines, GotoType DEF ReceiveResult, Labels
    <3>2. script' \in [Requests -> Seq(Token)]
      BY <1>2, <2>17, CallsType DEF ReceiveResult
    <3>3. answers' \in [Requests -> [Threads -> Nat]]
      BY <1>2, <2>17, AnswerType DEF ReceiveResult, Typed, Answer
    <3> QED BY <1>2, <2>17, <3>1, <3>2, <3>3 DEF ReceiveResult, Typed
  <2>18. ASSUME NEW r \in Requests, Dispatch(r) PROVE Typed'
    <3>1. clash' \in SUBSET Requests
      BY <1>2, <2>18 DEF Dispatch, Clashes, Typed
    <3> QED BY <1>2, <2>18, <3>1, ProceedType DEF Dispatch, Typed
  <2>19. ASSUME NEW r \in Requests, Reject(r) PROVE Typed'
    <3>1. pc' \in [Threads -> Labels]
      BY <1>2, <2>19, Goroutines, GotoType DEF Reject, Labels
    <3>2. answers' \in [Requests -> [Threads -> Nat]]
      BY <1>2, <2>19, Goroutines, AnswerType DEF Reject
    <3> QED BY <1>2, <2>19, <3>1, <3>2 DEF Reject, Typed, locals
  <2>20. ASSUME NEW r \in Requests, RegisterWrite(r) PROVE Typed'
    <3>1. /\ connKey' \in [Requests -> Keys \cup {NoKey}]
          /\ script' \in [Requests -> Seq(Token)]
          /\ pc' \in [Threads -> Labels]
      <4>1. CASE Proceed(r, AnonKey(r)) \/ Refuse(r, AnonKey(r)) \/ Refuse(r, NoKey)
        BY <1>2, <4>1, ProceedType, KeysOfRequest
      <4>2. CASE Goto(H(r), "read") /\ UNCHANGED <<script, connKey>>
        BY <1>2, <4>2, Goroutines, GotoType DEF Labels, Typed
      <4> QED BY <1>2, <2>20, <4>1, <4>2 DEF RegisterWrite
    <3> QED BY <1>2, <2>20, <3>1, KeysOfRequest DEF RegisterWrite, Typed
  <2>21. ASSUME NEW r \in Requests, UpgradeMove(r) PROVE Typed'
    <3>1. /\ connKey' \in [Requests -> Keys \cup {NoKey}]
          /\ script' \in [Requests -> Seq(Token)]
          /\ pc' \in [Threads -> Labels]
      BY <1>2, <2>21, ProceedType, KeysOfRequest DEF UpgradeMove
    <3> QED BY <1>2, <2>21, <3>1, KeysOfRequest, Goroutines DEF UpgradeMove, Typed
  <2>22. ASSUME NEW r \in Requests, SendDirect(r) PROVE Typed'
    <3>1. script' \in [Requests -> Seq(Token)]
      BY <1>2, <2>22, CallsType DEF SendDirect
    <3>2. answers' \in [Requests -> [Threads -> Nat]]
      BY <1>2, <2>22, Goroutines, AnswerType DEF SendDirect
    <3> QED BY <1>2, <2>22, <3>1, <3>2 DEF SendDirect, Typed
  <2>23. ASSUME NEW r \in Requests, UnregisterChannel(r) PROVE Typed'
    <3>1. script' \in [Requests -> Seq(Token)]
      BY <1>2, <2>23, CallsType DEF UnregisterChannel
    <3> QED BY <1>2, <2>23, <3>1 DEF UnregisterChannel, Typed
  <2>24. ASSUME NEW t \in Threads, GetProtocol(t) PROVE Typed'
    <3>1. pc' \in [Threads -> Labels]
      BY <1>2, <2>24, GotoType DEF GetProtocol, Ret, Labels
    <3>2. script' \in [Requests -> Seq(Token)]
      BY <1>2, <2>24, Owner, CallsType DEF GetProtocol, Typed
    <3>3. got' \in [Threads -> Requests \cup {Absent, Zero}]
      BY <1>2, <2>24 DEF GetProtocol, Typed
    <3> QED BY <1>2, <2>24, <3>1, <3>2, <3>3 DEF GetProtocol, Typed, shared
  <2>25. ASSUME NEW t \in Threads, DoSend(t) PROVE Typed'
    <3>1. pc' \in [Threads -> Labels]
      BY <1>2, <2>25, GotoType DEF DoSend, Labels
    <3>2. answers' \in [Requests -> [Threads -> Nat]]
      BY <1>2, <2>25, AnswerType DEF DoSend, Typed
    <3>3. results' \in [Keys -> Threads \cup {Absent}]
      BY <1>2, <2>25 DEF DoSend, Typed
    <3> QED BY <1>2, <2>25, <3>1, <3>2, <3>3 DEF DoSend, Typed, locals
  <2>26. ASSUME NEW t \in Threads, PeekTimeout(t) PROVE Typed'
    <3>1. pc' \in [Threads -> Labels]
      BY <1>2, <2>26, GotoType DEF PeekTimeout, Ret, Labels
    <3> QED BY <1>2, <2>26, <3>1, KeyOfGoroutine DEF PeekTimeout, Typed, TimerOf, locals, shared
  <2>27. ASSUME NEW t \in Threads, AimTimeout(t) PROVE Typed'
    <3>1. pc' \in [Threads -> Labels]
      BY <1>2, <2>27, GotoType DEF AimTimeout, Ret, Labels
    <3> QED BY <1>2, <2>27, <3>1, KeyOfGoroutine DEF AimTimeout, Typed, TimerOf, locals, shared
  <2>28. ASSUME NEW t \in Threads, UnregisterProtocol(t) PROVE Typed'
    <3>1. pc' \in [Threads -> Labels]
      BY <1>2, <2>28, GotoType DEF UnregisterProtocol, Ret, Labels
    <3> QED BY <1>2, <2>28, <3>1, KeyOfGoroutine DEF UnregisterProtocol, Typed, TimerOf, locals, shared
  <2>29. ASSUME NEW t \in Threads, NEW r \in Requests, SignalTimeout(t, r) PROVE Typed'
    <3>1. pc' \in [Threads -> Labels]
      BY <1>2, <2>29 DEF SignalTimeout, Typed, Labels
    <3> QED BY <1>2, <2>29, <3>1 DEF SignalTimeout, Typed, shared
  <2>30. ASSUME NEW c \in Clients, Disconnect(c) PROVE Typed'
    BY <1>2, <2>30 DEF Disconnect, Typed, locals
  <2>31. ASSUME NEW t \in Threads, ConcurrentMapAccess(t) PROVE Typed'
    <3>1. pc' \in [Threads -> Labels]
      BY <1>2, <2>31, GotoType DEF ConcurrentMapAccess, Labels
    <3> QED BY <1>2, <2>31, <3>1 DEF ConcurrentMapAccess, Typed, locals, shared
  <2>32. ASSUME NEW r \in Requests, PublishCancelAll(r) PROVE Typed'
    <3>1. pc' \in [Threads -> Labels]
      BY <1>2, <2>32, Goroutines, GotoType DEF PublishCancelAll, Labels
    <3> QED BY <1>2, <2>32, <3>1, Goroutines DEF PublishCancelAll, Typed, locals, shared
  <2>33. ASSUME UNCHANGED vars PROVE Typed'
    BY <1>2, <2>33 DEF vars, locals, shared, Typed
  <2> QED
    BY <1>2, <2>1, <2>2, <2>3, <2>4, <2>5, <2>6, <2>7, <2>8, <2>9, <2>10, <2>11, <2>12,
       <2>13, <2>14, <2>15, <2>16, <2>17, <2>18, <2>19, <2>20, <2>21, <2>22, <2>23, <2>24,
       <2>25, <2>26, <2>27, <2>28, <2>29, <2>30, <2>31, <2>32, <2>33
    DEF Next, Environment, HandlerStep, SpawnedStep, SendStep
<1> QED BY <1>1, <1>2, PTL DEF Spec

-----------------------------------------------------------------------------
(* Every place that names a request or a goroutine names one with the id   *)
(* of the key it is under, or of the goroutine that holds it: connKey,     *)
(* protocolConnections, the locals of doSend and RegisterChannel, and      *)
(* channelResults.  IdEcho follows because doSend writes to the connection *)
(* it holds.                                                               *)
SameId ==
    /\ \A r \in Requests : connKey[r] # NoKey => connKey[r][1] = req[r].id
    /\ \A k \in Keys : conns[k] \in Requests => req[conns[k]].id = k[1]
    /\ \A t \in Threads : got[t] \in Requests => req[got[t]].id = req[t[2]].id
    /\ \A k \in Keys : results[k] \in Threads => req[results[k][2]].id = k[1]
    /\ \A r \in Requests : res[r] \in Threads => req[res[r][2]].id = req[r].id

(* The variables SameId and IdEcho speak of. *)
idVars == <<req, connKey, conns, got, results, res, answers>>

(* A goroutine's key carries its request's id. *)
LEMMA KeyId ==
    ASSUME Typed, SameId, NEW t \in Threads, KeyOf(t) # NoKey
    PROVE  KeyOf(t) \in Keys /\ KeyOf(t)[1] = req[t[2]].id
BY Owner, KeysOfRequest, KeyOfGoroutine DEF KeyOf, SameId, Typed

(* Entering the script under a key of the request, or under "". *)
LEMMA EnterId ==
    ASSUME Typed, SameId, NEW r \in Requests, NEW k \in Keys \cup {NoKey},
           k # NoKey => k[1] = req[r].id,
           Proceed(r, k) \/ Refuse(r, k)
    PROVE  \A s \in Requests : connKey'[s] # NoKey => connKey'[s][1] = req[s].id
<1>1. connKey' = [connKey EXCEPT ![r] = k]
  BY DEF Proceed, Refuse, Enter
<1> QED BY <1>1 DEF SameId, Typed

(* An answer to a request of the same id keeps IdEcho. *)
LEMMA AnswerId ==
    ASSUME Typed, IdEcho, NEW r \in Requests, NEW t, Answer(r, t),
           t \in Threads => req[t[2]].id = req[r].id, req' = req
    PROVE  IdEcho'
<1> SUFFICES ASSUME NEW s \in Requests, NEW u \in Threads, answers'[s][u] > 0
             PROVE  req[u[2]].id = req[s].id
  BY DEF IdEcho
<1>1. CASE s = r /\ u = t
  BY <1>1
<1>2. CASE ~(s = r /\ u = t)
  <2>1. answers'[s][u] = answers[s][u]
    BY <1>2 DEF Answer, Typed
  <2> QED BY <2>1 DEF IdEcho
<1> QED BY <1>1, <1>2

(* The two hold together in every reachable state of the registry.         *)
LEMMA IdsKept == Spec => [](SameId /\ IdEcho)
<1>1. Init => SameId /\ IdEcho
  <2> SUFFICES ASSUME Init PROVE SameId /\ IdEcho
    OBVIOUS
  <2>1. SameId
    BY ConstantsOK DEF Init, SameId
  <2>2. IdEcho
    BY DEF Init, IdEcho
  <2> QED BY <2>1, <2>2
<1>2. ASSUME Typed, Typed', SameId, IdEcho, [Next]_vars
      PROVE  SameId' /\ IdEcho'
  <2>1. ASSUME UNCHANGED idVars PROVE SameId' /\ IdEcho'
    BY <1>2, <2>1 DEF idVars, SameId, IdEcho
  <2>2. ASSUME NEW r \in Requests, Dispatch(r) PROVE SameId' /\ IdEcho'
    BY <1>2, <2>2, EnterId DEF Dispatch, shared, SameId, IdEcho
  <2>3. ASSUME NEW r \in Requests, RegisterWrite(r) PROVE SameId' /\ IdEcho'
    <3>1. /\ req' = req
          /\ \A s \in Requests : connKey'[s] # NoKey => connKey'[s][1] = req[s].id
      BY <1>2, <2>3, EnterId, KeysOfRequest DEF RegisterWrite, SameId
    <3>2. \A k \in Keys : conns'[k] \in Requests => req[conns'[k]].id = k[1]
      BY <1>2, <2>3, KeysOfRequest DEF RegisterWrite, SameId, Typed
    <3> QED BY <1>2, <2>3, <3>1, <3>2 DEF RegisterWrite, SameId, IdEcho
  <2>4. ASSUME NEW r \in Requests, UpgradeRead(r) PROVE SameId' /\ IdEcho'
    <3>1. \A t \in Threads : got'[t] \in Requests => req[got'[t]].id = req[t[2]].id
      BY <1>2, <2>4, KeysOfRequest, ConstantsOK DEF UpgradeRead, SameId, Typed, H
    <3> QED BY <1>2, <2>4, <3>1 DEF UpgradeRead, shared, SameId, IdEcho
  <2>5. ASSUME NEW r \in Requests, UpgradeMove(r) PROVE SameId' /\ IdEcho'
    <3>1. /\ req' = req
          /\ \A s \in Requests : connKey'[s] # NoKey => connKey'[s][1] = req[s].id
      BY <1>2, <2>5, EnterId, KeysOfRequest DEF UpgradeMove
    <3>2. \A k \in Keys : conns'[k] \in Requests => req[conns'[k]].id = k[1]
      <4>1. got[H(r)] \in Requests => req[got[H(r)]].id = req[r].id
        BY <1>2, Goroutines DEF SameId, H
      <4>2. conns' = [conns EXCEPT ![UserKey(r)] = got[H(r)], ![AnonKey(r)] = Absent]
        BY <2>5 DEF UpgradeMove
      <4> SUFFICES ASSUME NEW k \in Keys, conns'[k] \in Requests
                   PROVE  req[conns'[k]].id = k[1]
        OBVIOUS
      <4>3. k # AnonKey(r)
        BY <1>2, <4>2, ConstantsOK DEF Typed
      <4>4. CASE k = UserKey(r)
        BY <1>2, <4>1, <4>2, <4>3, <4>4, KeysOfRequest DEF Typed
      <4>5. CASE k # UserKey(r)
        BY <1>2, <4>2, <4>3, <4>5 DEF SameId, Typed
      <4> QED BY <4>4, <4>5
    <3>3. \A t \in Threads : got'[t] \in Requests => req[got'[t]].id = req[t[2]].id
      BY <1>2, <2>5, ConstantsOK DEF UpgradeMove, SameId, Typed
    <3>4. UNCHANGED <<results, res, answers>>
      BY <2>5 DEF UpgradeMove
    <3> QED BY <1>2, <3>1, <3>2, <3>3, <3>4 DEF SameId, IdEcho
  <2>6. ASSUME NEW r \in Requests, Reject(r) \/ SendDirect(r) PROVE SameId' /\ IdEcho'
    <3>1. Answer(r, H(r)) /\ UNCHANGED <<req, connKey, conns, got, results, res>>
      BY <2>6 DEF Reject, SendDirect, locals
    <3>2. IdEcho'
      BY <1>2, <3>1, AnswerId DEF H
    <3> QED BY <1>2, <3>1, <3>2 DEF SameId
  <2>7. ASSUME NEW r \in Requests, ReceiveResult(r) PROVE SameId' /\ IdEcho'
    <3>1. res[r] \in Threads => req[res[r][2]].id = req[r].id
      BY <1>2 DEF SameId
    <3>2. IdEcho'
      BY <1>2, <2>7, <3>1, AnswerId DEF ReceiveResult
    <3> QED BY <1>2, <2>7, <3>2, ConstantsOK DEF ReceiveResult, SameId, Typed
  <2>8. ASSUME NEW t \in Threads, GetProtocol(t) PROVE SameId' /\ IdEcho'
    <3>1. \A u \in Threads : got'[u] \in Requests => req[got'[u]].id = req[u[2]].id
      <4>1. CASE UNCHANGED got
        BY <1>2, <4>1 DEF SameId
      <4>2. CASE /\ KeyOf(t) # NoKey /\ conns[KeyOf(t)] \in Requests
                 /\ got' = [got EXCEPT ![t] = conns[KeyOf(t)]]
        <5>1. req[conns[KeyOf(t)]].id = req[t[2]].id
          BY <1>2, <4>2, KeyId DEF SameId
        <5> QED BY <1>2, <4>2, <5>1 DEF SameId, Typed
      <4> QED BY <1>2, <2>8, <4>1, <4>2, ConstantsOK DEF GetProtocol
    <3> QED BY <1>2, <2>8, <3>1 DEF GetProtocol, shared, SameId, IdEcho
  <2>9. ASSUME NEW t \in Threads, DoSend(t) PROVE SameId' /\ IdEcho'
    <3>1. UNCHANGED <<req, connKey, conns, got, res>>
      BY <2>9 DEF DoSend, locals
    <3>2. IdEcho'
      <4>1. CASE UNCHANGED answers
        BY <1>2, <3>1, <4>1 DEF IdEcho
      <4>2. CASE Answer(got[t], t) /\ got[t] \in Requests
        BY <1>2, <3>1, <4>2, AnswerId DEF SameId
      <4>3. CASE Answer(got[t], t) /\ got[t] \notin Requests
        <5>1. \A s \in Requests : answers'[s] = answers[s]
          BY <1>2, <4>3 DEF Answer, Typed
        <5> QED BY <1>2, <3>1, <5>1 DEF IdEcho
      <4> QED BY <2>9, <4>1, <4>2, <4>3 DEF DoSend
    <3>3. \A k \in Keys : results'[k] \in Threads => req[results'[k][2]].id = k[1]
      <4>1. CASE UNCHANGED results
        BY <1>2, <4>1 DEF SameId
      <4>2. CASE results' = [results EXCEPT ![KeyOf(t)] = t]
        <5> SUFFICES ASSUME NEW k \in Keys, results'[k] \in Threads
                     PROVE  req[results'[k][2]].id = k[1]
          OBVIOUS
        <5>0. results \in [Keys -> Threads \cup {Absent}]
          BY <1>2 DEF Typed
        <5>1. CASE k = KeyOf(t)
          <6>1. results'[k] = t
            BY <4>2, <5>0, <5>1
          <6>2. k # NoKey
            BY ConstantsOK
          <6> QED BY <1>2, <5>1, <6>1, <6>2, KeyId
        <5>2. CASE k # KeyOf(t)
          <6>1. results'[k] = results[k]
            BY <4>2, <5>0, <5>2
          <6> QED BY <1>2, <6>1 DEF SameId
        <5> QED BY <5>1, <5>2
      <4> QED BY <2>9, <4>1, <4>2 DEF DoSend
    <3> QED BY <1>2, <3>1, <3>2, <3>3 DEF SameId
  <2>10. ASSUME NEW t \in Threads, UnregisterProtocol(t) PROVE SameId' /\ IdEcho'
    BY <1>2, <2>10, ConstantsOK DEF UnregisterProtocol, SameId, IdEcho, Typed
  <2>11. ASSUME NEW r \in Requests, PollResult(r) \/ ContextDone(r)
         PROVE  SameId' /\ IdEcho'
    <3>1. \A s \in Requests : res'[s] \in Threads => req[res'[s][2]].id = req[s].id
      <4>1. CASE PollResult(r)
        <5>1. connKey[r] \in Keys /\ connKey[r] # NoKey /\ results[connKey[r]] \in Threads
          BY <1>2, <4>1 DEF PollResult, ResultOf, Typed
        <5>2. req[results[connKey[r]][2]].id = req[r].id
          BY <1>2, <5>1 DEF SameId
        <5>3. res' = [res EXCEPT ![r] = results[connKey[r]]]
          BY <4>1, <5>1 DEF PollResult, ResultOf
        <5> QED BY <1>2, <5>2, <5>3 DEF SameId, Typed
      <4>2. CASE ContextDone(r)
        BY <1>2, <4>2 DEF ContextDone, SameId, Typed, G
      <4> QED BY <2>11, <4>1, <4>2
    <3> QED BY <1>2, <2>11, <3>1 DEF PollResult, ContextDone, shared, SameId, IdEcho
  <2>12. ASSUME NEW r \in Requests, ClearResult(r) PROVE SameId' /\ IdEcho'
    BY <1>2, <2>12, ConstantsOK DEF ClearResult, locals, SameId, IdEcho, Typed
  <2>13. ASSUME NEW r \in Requests,
                \/ RegisterCheck(r) \/ UpgradeCheck(r) \/ CallTimeOutProtocol(r)
                \/ CallRegisterChannel(r) \/ UnregisterChannel(r) \/ Produce(r) \/ Crash(r)
                \/ ArmTimeout(r) \/ EvalTimeout(r) \/ Expire(r) \/ DeleteTimeout(r)
                \/ PublishOrder(r) \/ PublishCancelAll(r)
         PROVE  UNCHANGED idVars
    BY <2>13 DEF RegisterCheck, UpgradeCheck, CallTimeOutProtocol, CallRegisterChannel,
                 UnregisterChannel, Produce, Crash, ArmTimeout, EvalTimeout, Expire,
                 DeleteTimeout, PublishOrder, PublishCancelAll, idVars, locals, shared
  <2>14. ASSUME NEW t \in Threads,
                \/ PeekTimeout(t) \/ AimTimeout(t) \/ ConcurrentMapAccess(t)
                \/ handleTopicCancelledOrders(t) \/ \E r \in Requests : SignalTimeout(t, r)
         PROVE  UNCHANGED idVars
    BY <2>14 DEF PeekTimeout, AimTimeout, ConcurrentMapAccess, handleTopicCancelledOrders,
                 SignalTimeout, idVars, locals, shared
  <2>15. ASSUME NEW c \in Clients, Disconnect(c) PROVE UNCHANGED idVars
    BY <2>15 DEF Disconnect, idVars, locals
  <2>16. CASE UNCHANGED vars
    BY <2>1, <2>16 DEF vars, locals, shared, idVars
  <2> QED
    BY <1>2, <2>1, <2>2, <2>3, <2>4, <2>5, <2>6, <2>7, <2>8, <2>9, <2>10, <2>11, <2>12,
       <2>13, <2>14, <2>15, <2>16
    DEF Next, Environment, HandlerStep, SpawnedStep, SendStep
<1> QED BY <1>1, <1>2, TypesKept, PTL DEF Spec
(* IdEcho: an answer written for a request, whoever overwrote whose entry  *)
(* of protocolConnections meanwhile, reaches a request with the same id.   *)
THEOREM AnswersEchoId == Spec => []IdEcho
BY IdsKept, PTL

-----------------------------------------------------------------------------
(* Who is registered.                                                      *)

Registering == {"write", "read", "exist", "move"}

OnTheWay == \A r \in Requests : pc[H(r)] \in Registering => Registers(r)

(* Only those that register are on their way there, in protocolConnections *)
(* or held by a goroutine that has found them there.                       *)
EntriesOK ==
    /\ OnTheWay
    /\ \A k \in Keys : conns[k] \in Requests => Registers(conns[k])
    /\ \A t \in Threads : got[t] \in Requests => Registers(got[t])

(* A goroutine that jumps elsewhere, or whose request registers. *)
LEMMA OnTheWayGoto ==
    ASSUME Typed, OnTheWay, UNCHANGED req, NEW t \in Threads, NEW l, Goto(t, l),
           l \notin Registering \/ Registers(t[2])
    PROVE  OnTheWay'
<1> SUFFICES ASSUME NEW r \in Requests, pc'[H(r)] \in Registering
             PROVE  Registers(r)
  BY DEF OnTheWay, Registers
<1>1. CASE H(r) = t
  <2>1. t[2] = r /\ pc'[H(r)] = l
    BY <1>1 DEF Goto, Typed, H
  <2> QED BY <2>1
<1>2. CASE H(r) # t
  <2>1. pc'[H(r)] = pc[H(r)]
    BY <1>2, Goroutines DEF Goto, Typed
  <2> QED BY <2>1 DEF OnTheWay
<1> QED BY <1>1, <1>2

(* What the entries and the goroutines hold does not change. *)
LEMMA EntriesFrame ==
    ASSUME EntriesOK, OnTheWay', UNCHANGED <<req, conns, got>>
    PROVE  EntriesOK'
BY DEF EntriesOK, Registers

LEMMA EntriesKept ==
    ASSUME Typed, Typed', EntriesOK, [Next]_vars
    PROVE  EntriesOK'
<1>1. OnTheWay
  BY DEF EntriesOK
<1>2. ASSUME NEW r \in Requests, Dispatch(r) \/ Reject(r) PROVE EntriesOK'
  <2>1. PICK l \in {"run", "done"} : Goto(H(r), l) /\ UNCHANGED <<req, conns, got>>
    BY <1>2 DEF Dispatch, Reject, Proceed, Enter, locals
  <2> QED BY <1>1, <2>1, Goroutines, OnTheWayGoto, EntriesFrame DEF Registering
<1>3. ASSUME NEW r \in Requests, RegisterCheck(r) \/ UpgradeCheck(r) PROVE EntriesOK'
  <2>1. Registers(r)
    BY <1>1, <1>3 DEF RegisterCheck, UpgradeCheck, Registers, OnTheWay, Registering
  <2>2. PICK l : Goto(H(r), l) /\ UNCHANGED <<req, conns, got>>
    BY <1>3 DEF RegisterCheck, UpgradeCheck, shared
  <2> QED BY <1>1, <2>1, <2>2, Goroutines, OnTheWayGoto, EntriesFrame DEF H
<1>4. ASSUME NEW r \in Requests, RegisterWrite(r) PROVE EntriesOK'
  <2>1. Registers(r)
    BY <1>1, <1>4 DEF RegisterWrite, OnTheWay, Registering
  <2>2. PICK l : Goto(H(r), l)
    BY <1>4 DEF RegisterWrite, Proceed, Refuse, Enter
  <2>3. /\ conns' = [conns EXCEPT ![AnonKey(r)] = r]
        /\ UNCHANGED <<req, got>>
    BY <1>4 DEF RegisterWrite
  <2>4. OnTheWay'
    BY <1>1, <2>1, <2>2, <2>3, Goroutines, OnTheWayGoto DEF H
  <2>5. \A k \in Keys : conns'[k] \in Requests => Registers(conns'[k])
    BY <2>1, <2>3 DEF EntriesOK, Typed
  <2> QED BY <2>3, <2>4, <2>5 DEF EntriesOK, Registers
<1>5. ASSUME NEW r \in Requests, UpgradeRead(r) PROVE EntriesOK'
  <2>1. Registers(r)
    BY <1>1, <1>5 DEF UpgradeRead, OnTheWay, Registering
  <2>2. /\ Goto(H(r), "exist") /\ UNCHANGED <<req, conns>>
        /\ got' = [got EXCEPT ![H(r)] =
                    IF conns[AnonKey(r)] = Absent THEN Zero ELSE conns[AnonKey(r)]]
    BY <1>5 DEF UpgradeRead, shared
  <2>3. OnTheWay'
    BY <1>1, <2>1, <2>2, Goroutines, OnTheWayGoto DEF H
  <2>4. \A t \in Threads : got'[t] \in Requests => Registers(got'[t])
    BY <2>2, KeysOfRequest, ConstantsOK DEF EntriesOK, Typed
  <2> QED BY <2>2, <2>3, <2>4 DEF EntriesOK, Registers
<1>6. ASSUME NEW r \in Requests, UpgradeMove(r) PROVE EntriesOK'
  <2>1. Goto(H(r), "run")
    BY <1>6 DEF UpgradeMove, Proceed, Refuse, Enter
  <2>2. /\ conns' = [conns EXCEPT ![UserKey(r)] = got[H(r)], ![AnonKey(r)] = Absent]
        /\ got' = [got EXCEPT ![H(r)] = Absent] /\ UNCHANGED req
    BY <1>6 DEF UpgradeMove
  <2>3. OnTheWay'
    BY <1>1, <2>1, <2>2, Goroutines, OnTheWayGoto DEF Registering
  <2>4. \A k \in Keys : conns'[k] \in Requests => Registers(conns'[k])
    BY <2>2, Goroutines, ConstantsOK DEF EntriesOK, Typed
  <2>5. \A t \in Threads : got'[t] \in Requests => Registers(got'[t])
    BY <2>2, ConstantsOK DEF EntriesOK, Typed
  <2> QED BY <2>2, <2>3, <2>4, <2>5 DEF EntriesOK, Registers
<1>7. ASSUME NEW t \in Threads, GetProtocol(t) PROVE EntriesOK'
  <2>1. PICK l \in {"run", "done", "aborted", "panic", "send"} :
            Goto(t, l) /\ UNCHANGED <<req, conns>>
    BY <1>7 DEF GetProtocol, Ret, shared
  <2>2. OnTheWay'
    BY <1>1, <2>1, OnTheWayGoto DEF Registering
  <2>3. \A u \in Threads : got'[u] \in Requests => Registers(got'[u])
    <3>1. CASE UNCHANGED got
      BY <3>1 DEF EntriesOK
    <3>2. CASE /\ KeyOf(t) # NoKey /\ conns[KeyOf(t)] \in Requests
               /\ got' = [got EXCEPT ![t] = conns[KeyOf(t)]]
      BY <3>2, KeyOfGoroutine DEF EntriesOK, Typed
    <3> QED BY <1>7, <3>1, <3>2, ConstantsOK DEF GetProtocol
  <2> QED BY <2>1, <2>2, <2>3 DEF EntriesOK, Registers
<1>8. ASSUME NEW t \in Threads, UnregisterProtocol(t) PROVE EntriesOK'
  <2>1. PICK l \in {"run", "done"} : Goto(t, l)
    BY <1>8 DEF UnregisterProtocol, Ret
  <2>2. /\ conns' = [conns EXCEPT ![KeyOf(t)] = Absent]
        /\ got' = [got EXCEPT ![t] = Absent] /\ UNCHANGED req
    BY <1>8 DEF UnregisterProtocol
  <2>3. OnTheWay'
    BY <1>1, <2>1, <2>2, OnTheWayGoto DEF Registering
  <2> QED BY <2>2, <2>3, ConstantsOK DEF EntriesOK, Registers, Typed
<1>9. ASSUME NEW r \in Requests,
             \/ CallTimeOutProtocol(r) \/ CallRegisterChannel(r) \/ Produce(r) \/ Crash(r)
             \/ ReceiveResult(r) \/ ArmTimeout(r) \/ EvalTimeout(r) \/ Expire(r)
             \/ DeleteTimeout(r) \/ PollResult(r) \/ ContextDone(r) \/ ClearResult(r)
             \/ PublishOrder(r) \/ PublishCancelAll(r)
      PROVE  EntriesOK'
  <2>1. PICK t \in Threads, l \in Labels \ Registering : Goto(t, l)
    <3>1. \/ \E l \in {"arm", "poll", "done", "eval", "select", "expired", "get", "clear", "offer"} :
                Goto(G(r), l)
          \/ \E l \in {"order", "cancelled", "get"} : Goto(A(r), l)
          \/ Goto(C(r), "cancelled") \/ Goto(H(r), "panic")
      BY <1>9 DEF CallTimeOutProtocol, CallRegisterChannel, Produce, Crash, ReceiveResult,
                  ArmTimeout, EvalTimeout, Expire, DeleteTimeout, PollResult, ContextDone,
                  ClearResult, PublishOrder, PublishCancelAll
    <3> QED BY <3>1, Goroutines DEF Labels, Registering
  <2>2. UNCHANGED <<req, conns, got>>
    BY <1>9 DEF CallTimeOutProtocol, CallRegisterChannel, Produce, Crash, ReceiveResult,
                ArmTimeout, EvalTimeout, Expire, DeleteTimeout, PollResult, ContextDone,
                ClearResult, PublishOrder, PublishCancelAll, locals, shared
  <2> QED BY <1>1, <2>1, <2>2, OnTheWayGoto, EntriesFrame
<1>10. ASSUME NEW t \in Threads,
              \/ DoSend(t) \/ PeekTimeout(t) \/ AimTimeout(t)
              \/ handleTopicCancelledOrders(t) \/ ConcurrentMapAccess(t)
       PROVE  EntriesOK'
  <2>1. PICK l \in Labels \ Registering : Goto(t, l)
    <3>1. PICK l \in {"peek", "free", "aim", "sync", "get", "panic"} : Goto(t, l)
      BY <1>10 DEF DoSend, PeekTimeout, AimTimeout, handleTopicCancelledOrders,
                   ConcurrentMapAccess
    <3> QED BY <3>1 DEF Labels, Registering
  <2>2. UNCHANGED <<req, conns, got>>
    BY <1>10 DEF DoSend, PeekTimeout, AimTimeout, handleTopicCancelledOrders,
                 ConcurrentMapAccess, locals, shared
  <2> QED BY <1>1, <2>1, <2>2, OnTheWayGoto, EntriesFrame
<1>11. ASSUME NEW t \in Threads, NEW r \in Requests, SignalTimeout(t, r) PROVE EntriesOK'
  <2>1. /\ pc' = [pc EXCEPT ![t] = "free", ![G(r)] = "disarm"]
        /\ UNCHANGED <<req, conns, got>>
    BY <1>11 DEF SignalTimeout, shared
  <2>2. OnTheWay'
    <3> SUFFICES ASSUME NEW s \in Requests, pc'[H(s)] \in Registering
                 PROVE  pc[H(s)] \in Registering
      BY <1>1, <2>1 DEF OnTheWay, Registers
    <3> QED BY <2>1, Goroutines DEF Typed, Registering
  <2> QED BY <2>1, <2>2, EntriesFrame
<1>12. ASSUME UNCHANGED <<req, pc, conns, got>> PROVE EntriesOK'
  BY <1>12 DEF EntriesOK, OnTheWay, Registers
<1>13. ASSUME NEW r \in Requests, SendDirect(r) \/ UnregisterChannel(r) PROVE EntriesOK'
  BY <1>12, <1>13 DEF SendDirect, UnregisterChannel
<1>14. ASSUME NEW c \in Clients, Disconnect(c) PROVE EntriesOK'
  BY <1>12, <1>14 DEF Disconnect, locals
<1>15. CASE UNCHANGED vars
  BY <1>12, <1>15 DEF vars, locals, shared
<1> QED BY <1>2, <1>3, <1>4, <1>5, <1>6, <1>7, <1>8, <1>9, <1>10, <1>11, <1>13, <1>14, <1>15
        DEF Next, Environment, HandlerStep, SpawnedStep, SendStep

(* Whatever requests overwrite, upgrade and delete each other's entries,   *)
(* under a key there are only registered requests and results with its id. *)
THEOREM TypeCorrect == Spec => []TypeOK
<1>1. Init => EntriesOK
  BY ConstantsOK, Goroutines DEF Init, EntriesOK, OnTheWay, Registering
<1>2. Typed /\ SameId /\ EntriesOK => TypeOK
  BY DEF TypeOK, SameId, EntriesOK
<1> QED BY <1>1, <1>2, TypesKept, IdsKept, EntriesKept, PTL DEF Spec

-----------------------------------------------------------------------------
(* Who has started what.                                                   *)

(* Where a handler is until requestHelper has returned. *)
Before == {"idle", "write", "read", "exist", "move"}

Spawns == {"go", "chan"}

(* A handler spawns at most one goroutine, and none, nor an order, before  *)
(* requestHelper has returned.                                             *)
SpawnsOnce ==
    \A r \in Requests :
        /\ pc[H(r)] \in Before => \A t \in {G(r), A(r), C(r)} : pc[t] = "idle"
        /\ \A i \in DOMAIN script[r] : script[r][i] \in Spawns =>
              /\ pc[G(r)] = "idle"
              /\ \A j \in DOMAIN script[r] : script[r][j] \in Spawns => j = i

(* The four goroutines of a request are four, and no other's. *)
LEMMA Distinct ==
    ASSUME NEW r \in Requests, NEW s \in Requests
    PROVE  /\ H(r) \notin {G(s), A(s), C(s)} /\ G(r) \notin {H(s), A(s), C(s)}
           /\ A(r) \notin {H(s), G(s), C(s)} /\ C(r) \notin {H(s), G(s), A(s)}
           /\ r # s => H(r) # H(s) /\ G(r) # G(s) /\ A(r) # A(s) /\ C(r) # C(s)
           /\ H(r)[2] = r /\ G(r)[2] = r /\ A(r)[2] = r /\ C(r)[2] = r
BY DEF H, G, A, C

LEMMA IsOneOf ==
    ASSUME NEW t \in Threads
    PROVE  t \in {H(t[2]), G(t[2]), A(t[2]), C(t[2])}
BY DEF H, G, A, C, Threads

(* What is left of a script after a call. *)
LEMMA RestOfScript ==
    ASSUME NEW s \in Seq(Token), s # <<>>, NEW i \in DOMAIN Tail(s)
    PROVE  i + 1 \in DOMAIN s /\ Tail(s)[i] = s[i + 1] /\ i \in Nat \ {0}
OBVIOUS

LEMMA AfterCall ==
    ASSUME Typed, NEW r \in Requests, NEW token, Calls(r, token)
    PROVE  /\ pc[H(r)] = "run" /\ script[r] \in Seq(Token) /\ script[r] # <<>>
           /\ 1 \in DOMAIN script[r] /\ script[r][1] = token
           /\ script'[r] = Tail(script[r])
           /\ \A s \in Requests \ {r} : script'[s] = script[s]
<1>1. script[r] \in Seq(Token) /\ script[r] # <<>> /\ script \in [Requests -> Seq(Token)]
  BY DEF Typed, Calls
<1> QED BY <1>1 DEF Calls

(* A handler that calls leaves fewer calls to make. *)
LEMMA SpawnsOfCall ==
    ASSUME Typed, SpawnsOnce, NEW r \in Requests, NEW token, Calls(r, token),
           pc'[H(r)] \notin Before,
           token \notin Spawns => (pc[G(r)] = "idle" => pc'[G(r)] = "idle"),
           \A s \in Requests \ {r} : \A t \in {H(s), G(s), A(s), C(s)} : pc'[t] = pc[t]
    PROVE  SpawnsOnce'
<1> SUFFICES ASSUME NEW s \in Requests
             PROVE  /\ pc'[H(s)] \in Before => \A t \in {G(s), A(s), C(s)} : pc'[t] = "idle"
                    /\ \A i \in DOMAIN script'[s] : script'[s][i] \in Spawns =>
                          /\ pc'[G(s)] = "idle"
                          /\ \A j \in DOMAIN script'[s] : script'[s][j] \in Spawns => j = i
  BY DEF SpawnsOnce
<1>1. CASE s # r
  BY <1>1, AfterCall DEF SpawnsOnce
<1>2. CASE s = r
  <2> SUFFICES ASSUME NEW i \in DOMAIN script'[r], script'[r][i] \in Spawns
               PROVE  /\ pc'[G(r)] = "idle"
                      /\ \A j \in DOMAIN script'[r] : script'[r][j] \in Spawns => j = i
    BY <1>2
  <2>0. script[r] \in Seq(Token) /\ script[r] # <<>> /\ script'[r] = Tail(script[r])
    BY AfterCall
  <2>1. /\ i + 1 \in DOMAIN script[r] /\ script[r][i + 1] \in Spawns /\ i \in Nat \ {0}
        /\ \A j \in DOMAIN script'[r] :
              j + 1 \in DOMAIN script[r] /\ script'[r][j] = script[r][j + 1] /\ j \in Nat
    BY <2>0, RestOfScript
  <2>2. token \notin Spawns
    BY <2>1, AfterCall DEF SpawnsOnce
  <2>3. pc'[G(r)] = "idle"
    BY <2>1, <2>2 DEF SpawnsOnce
  <2>4. \A j \in DOMAIN script'[r] : script'[r][j] \in Spawns => j + 1 = i + 1
    BY <2>1 DEF SpawnsOnce
  <2> QED BY <2>1, <2>3, <2>4
<1> QED BY <1>1, <1>2

(* requestHelper has returned. *)
LEMMA SpawnsOfEntry ==
    ASSUME Typed, SpawnsOnce, NEW r \in Requests, NEW k, pc[H(r)] \in Before,
           Proceed(r, k) \/ Refuse(r, k)
    PROVE  SpawnsOnce'
<1>1. PICK b \in req[r].handler.body \cup {<<>>} :
         \E lead \in {<<>>, <<"direct">>, <<"key">>} : script' = [script EXCEPT ![r] = lead \o b]
  BY Zenon DEF Proceed, Refuse, Enter
<1>2. PICK lead \in {<<>>, <<"direct">>, <<"key">>} : script' = [script EXCEPT ![r] = lead \o b]
  BY <1>1
<1>3. /\ req[r].handler \in Handlers
      /\ b \in Seq(Token) /\ lead \in Seq(Token)
  <2>1. req[r] \in Input /\ req[r].handler \in Handler
    BY KeysOfRequest DEF Typed
  <2>2. <<>> \in Seq(Token) /\ <<"direct">> \in Seq(Token) /\ <<"key">> \in Seq(Token)
    BY DEF Token
  <2> QED BY <2>1, <2>2 DEF Input, Handler
<1>4. \A i, j \in DOMAIN b : b[i] \in Spawns /\ b[j] \in Spawns => i = j
  BY <1>3, ConstantsOK DEF Spawns
<1>5. \A i \in DOMAIN (lead \o b) : (lead \o b)[i] \in Spawns =>
         i - Len(lead) \in DOMAIN b /\ b[i - Len(lead)] = (lead \o b)[i] /\ i \in Nat
  BY <1>3 DEF Spawns
<1>6. \A i, j \in DOMAIN (lead \o b) :
         (lead \o b)[i] \in Spawns /\ (lead \o b)[j] \in Spawns => i = j
  <2>1. Len(lead) \in Nat
    BY <1>3
  <2> HIDE DEF Spawns
  <2> QED BY <1>4, <1>5, <2>1
<1>7. script'[r] = lead \o b /\ \A s \in Requests \ {r} : script'[s] = script[s]
  BY <1>2 DEF Typed
<1>8. pc'[H(r)] = "run" /\ \A t \in Threads \ {H(r)} : pc'[t] = pc[t]
  BY Goroutines DEF Proceed, Refuse, Enter, Goto, Typed
<1> DEFINE text == lead \o b
<1>9. /\ script'[r] = text
      /\ \A i, j \in DOMAIN text : text[i] \in Spawns /\ text[j] \in Spawns => i = j
  BY <1>6, <1>7
<1> HIDE DEF text
<1>10. pc'[H(r)] \notin Before /\ pc[G(r)] = "idle" /\ pc'[G(r)] = "idle"
  BY <1>8, Goroutines, Distinct DEF SpawnsOnce, Before
<1>11. ASSUME NEW s \in Requests \ {r}
       PROVE  \A t \in {H(s), G(s), A(s), C(s)} : pc'[t] = pc[t]
  BY <1>8, Goroutines, Distinct
<1> QED BY <1>7, <1>9, <1>10, <1>11 DEF SpawnsOnce

(* One or two goroutines that are under way go on. *)
LEMMA SpawnsOfOthers ==
    ASSUME Typed, SpawnsOnce, UNCHANGED script, NEW t \in Threads, NEW u \in Threads,
           \A v \in Threads \ {t, u} : pc'[v] = pc[v],
           \A v \in {t, u} : pc[v] # "idle" /\ pc'[v] \notin Before
    PROVE  SpawnsOnce'
BY Goroutines DEF SpawnsOnce

(* The handler is still in requestHelper. *)
LEMMA SpawnsOfHelper ==
    ASSUME Typed, SpawnsOnce, UNCHANGED script, NEW r \in Requests, NEW l, Goto(H(r), l),
           pc[H(r)] \in Before
    PROVE  SpawnsOnce'
BY SMTT(20), Goroutines, Distinct DEF SpawnsOnce, Goto, Typed
LEMMA SpawnsStart == Init => SpawnsOnce
BY Goroutines DEF Init, SpawnsOnce

(* The thirty-odd steps, by what they do to pc and to the scripts.         *)
LEMMA SpawnsKept == ASSUME Typed, SpawnsOnce, [Next]_vars PROVE SpawnsOnce'
<1>1. ASSUME NEW r \in Requests, Dispatch(r) \/ RegisterWrite(r) \/ UpgradeMove(r)
      PROVE  SpawnsOnce'
  <2>1. pc[H(r)] \in Before
    BY <1>1 DEF Dispatch, RegisterWrite, UpgradeMove, Before
  <2>2. CASE \E k : Proceed(r, k) \/ Refuse(r, k)
    BY <2>1, <2>2, SpawnsOfEntry
  <2>3. CASE Goto(H(r), "read") /\ UNCHANGED script
    BY <2>1, <2>3, SpawnsOfHelper
  <2> QED BY <1>1, <2>2, <2>3 DEF Dispatch, RegisterWrite, UpgradeMove
<1>2. ASSUME NEW r \in Requests, RegisterCheck(r) \/ Reject(r) \/ UpgradeRead(r) \/ UpgradeCheck(r)
      PROVE  SpawnsOnce'
  <2>1. pc[H(r)] \in Before /\ UNCHANGED script
    BY <1>2 DEF RegisterCheck, Reject, UpgradeRead, UpgradeCheck, Before, locals
  <2>2. \E l : Goto(H(r), l)
    BY <1>2 DEF RegisterCheck, Reject, UpgradeRead, UpgradeCheck
  <2> QED BY <2>1, <2>2, SpawnsOfHelper
<1>3. ASSUME NEW r \in Requests,
             \/ CallTimeOutProtocol(r) \/ CallRegisterChannel(r) \/ SendDirect(r)
             \/ UnregisterChannel(r) \/ Produce(r) \/ ReceiveResult(r) \/ Crash(r)
      PROVE  SpawnsOnce'
  <2>1. PICK token : /\ Calls(r, token)
                     /\ \/ token \in Spawns /\ \E l : Goto(G(r), l)
                        \/ UNCHANGED pc
                        \/ \E l : Goto(A(r), l)
                        \/ pc[G(r)] # "idle" /\ \E l : Goto(G(r), l)
                        \/ Goto(H(r), "panic")
    BY <1>3 DEF CallTimeOutProtocol, CallRegisterChannel, SendDirect, UnregisterChannel, Produce,
                ReceiveResult, Crash, Spawns
  <2>2. pc[H(r)] = "run"
    BY <2>1 DEF Calls
  <2>3. /\ pc'[H(r)] \notin Before
        /\ token \notin Spawns => (pc[G(r)] = "idle" => pc'[G(r)] = "idle")
        /\ \A s \in Requests \ {r} : \A t \in {H(s), G(s), A(s), C(s)} : pc'[t] = pc[t]
    <3>1. CASE token \in Spawns /\ \E l : Goto(G(r), l)
      BY SMTT(20), <2>2, <3>1, Goroutines, Distinct DEF Goto, Typed, Before
    <3>2. CASE UNCHANGED pc
      BY <2>2, <3>2 DEF Before
    <3>3. CASE \E l : Goto(A(r), l)
      BY SMTT(20), <2>2, <3>3, Goroutines, Distinct DEF Goto, Typed, Before
    <3>4. CASE pc[G(r)] # "idle" /\ \E l : Goto(G(r), l)
      BY SMTT(20), <2>2, <3>4, Goroutines, Distinct DEF Goto, Typed, Before
    <3>5. CASE Goto(H(r), "panic")
      BY SMTT(20), <3>5, Goroutines, Distinct DEF Goto, Typed, Before
    <3> QED BY <2>1, <3>1, <3>2, <3>3, <3>4, <3>5
  <2> QED BY <2>1, <2>3, SpawnsOfCall
<1>4. ASSUME NEW t \in Threads, GetProtocol(t)
      PROVE  SpawnsOnce'
  <2>1. \E l \in {"run", "done", "aborted", "panic", "send"} : Goto(t, l)
    BY <1>4 DEF GetProtocol, Ret
  <2>2. CASE t[1] = "h"
    <3>1. Calls(t[2], "key") /\ t = H(t[2]) /\ t[2] \in Requests
      BY <1>4, <2>2, Owner DEF GetProtocol, H, Threads
    <3>2. /\ pc'[H(t[2])] \notin Before /\ pc'[G(t[2])] = pc[G(t[2])]
          /\ \A s \in Requests \ {t[2]} : \A u \in {H(s), G(s), A(s), C(s)} : pc'[u] = pc[u]
      BY SMTT(20), <2>1, <3>1, Goroutines, Distinct DEF Goto, Typed, Before
    <3> QED BY <3>1, <3>2, SpawnsOfCall DEF Spawns
  <2>3. CASE t[1] # "h"
    <3>1. pc[t] = "get" /\ UNCHANGED script
      BY <1>4, <2>3 DEF GetProtocol
    <3>2. pc'[t] \notin Before /\ \A u \in Threads \ {t} : pc'[u] = pc[u]
      BY <2>1 DEF Goto, Typed, Before
    <3> QED BY <3>1, <3>2, SpawnsOfOthers
  <2> QED BY <2>2, <2>3
<1>5. ASSUME NEW t \in Threads,
             \/ DoSend(t) \/ PeekTimeout(t) \/ AimTimeout(t) \/ UnregisterProtocol(t)
             \/ ConcurrentMapAccess(t) \/ handleTopicCancelledOrders(t)
             \/ \E r \in Requests :
                   /\ t = G(r)
                   /\ \/ ArmTimeout(r) \/ EvalTimeout(r) \/ Expire(r) \/ DeleteTimeout(r)
                      \/ PollResult(r) \/ ContextDone(r) \/ ClearResult(r)
             \/ \E r \in Requests : t = A(r) /\ PublishOrder(r)
      PROVE  SpawnsOnce'
  <2>1. /\ pc[t] # "idle" /\ UNCHANGED script
        /\ \E l \in Labels \ Before : Goto(t, l)
    BY <1>5 DEF DoSend, PeekTimeout, AimTimeout, UnregisterProtocol, ConcurrentMapAccess,
                handleTopicCancelledOrders, ArmTimeout, EvalTimeout, Expire, DeleteTimeout,
                PollResult, ContextDone, ClearResult, PublishOrder, Ret, Labels, Before, locals
  <2>2. pc'[t] \notin Before /\ \A u \in Threads \ {t} : pc'[u] = pc[u]
    BY <2>1 DEF Goto, Typed
  <2> QED BY <2>1, <2>2, SpawnsOfOthers
<1>6. ASSUME NEW t \in Threads, NEW r \in Requests, SignalTimeout(t, r)
      PROVE  SpawnsOnce'
  <2>1. /\ UNCHANGED script /\ G(r) \in Threads /\ pc[t] = "sync" /\ pc[G(r)] = "select"
        /\ \A u \in Threads \ {t, G(r)} : pc'[u] = pc[u]
        /\ pc'[t] \in {"free", "disarm"} /\ pc'[G(r)] = "disarm"
    BY <1>6, Goroutines DEF SignalTimeout, Typed
  <2>2. \A u \in {t, G(r)} : u \in Threads /\ pc[u] # "idle" /\ pc'[u] \notin Before
    BY <2>1 DEF Before
  <2> QED BY <2>1, <2>2, SpawnsOfOthers
<1>7. ASSUME NEW r \in Requests, PublishCancelAll(r)
      PROVE  SpawnsOnce'
  <2>1. /\ UNCHANGED script /\ pc[A(r)] # "idle"
        /\ \A u \in Threads \ {C(r)} : pc'[u] = pc[u]
    BY <1>7, Goroutines DEF PublishCancelAll, Goto, Typed, locals
  <2> QED BY <2>1, Goroutines, Distinct DEF SpawnsOnce
<1>8. CASE UNCHANGED vars \/ \E c \in Clients : Disconnect(c)
  BY <1>8 DEF vars, locals, Disconnect, SpawnsOnce
<1>9. \A r \in Requests : G(r) \in Threads /\ A(r) \in Threads
  BY Goroutines
<1> QED
  BY <1>1, <1>2, <1>3, <1>4, <1>5, <1>6, <1>7, <1>8, <1>9
  DEF Next, Environment, HandlerStep, SpawnedStep, SendStep
LEMMA SpawnedOnce == Spec => []SpawnsOnce
BY SpawnsStart, SpawnsKept, TypesKept, PTL DEF Spec

-----------------------------------------------------------------------------
(* Timeout channels.                                                       *)

(* Where the goroutine of TimeOutProtocol is while its channel may be in   *)
(* the map.                                                                *)
Receives == {"eval", "select", "expired", "disarm"}

LEMMA ReceiverStays ==
    ASSUME TimerHasReceiver, ~Panicked, UNCHANGED timers,
           \A r \in Requests : pc[G(r)] \in Receives =>
              pc'[G(r)] \in Receives /\ connKey'[r] = connKey[r],
           Typed
    PROVE  TimerHasReceiver'
BY DEF TimerHasReceiver, Receives, Typed

LEMMA TimersKept ==
    ASSUME Typed, SpawnsOnce, TimerHasReceiver, [Next]_vars
    PROVE  TimerHasReceiver'
<1>0. \A r \in Requests : H(r) \in Threads /\ G(r) \in Threads /\ A(r) \in Threads /\ C(r) \in Threads
  BY Goroutines
<1>1. ASSUME ~Panicked, NEW r \in Requests, Dispatch(r) \/ RegisterWrite(r) \/ UpgradeMove(r)
      PROVE  TimerHasReceiver'
  <2>1. pc[G(r)] \notin Receives /\ UNCHANGED timers
    BY <1>1 DEF Dispatch, RegisterWrite, UpgradeMove, SpawnsOnce, Before, Receives
  <2>2. \A t \in Threads \ {H(r)} : pc'[t] = pc[t]
    BY <1>1 DEF Dispatch, RegisterWrite, UpgradeMove, Proceed, Refuse, Enter, Goto, Typed
  <2>3. \A s \in Requests \ {r} : connKey'[s] = connKey[s]
    BY <1>1 DEF Dispatch, RegisterWrite, UpgradeMove, Proceed, Refuse, Enter, Typed
  <2> QED BY <1>0, <1>1, <2>1, <2>2, <2>3, Distinct, ReceiverStays
<1>2. ASSUME ~Panicked, NEW r \in Requests,
             \/ RegisterCheck(r) \/ Reject(r) \/ UpgradeRead(r) \/ UpgradeCheck(r)
             \/ SendDirect(r) \/ UnregisterChannel(r) \/ Produce(r) \/ Crash(r)
             \/ PublishOrder(r) \/ PublishCancelAll(r)
      PROVE  TimerHasReceiver'
  <2>1. /\ UNCHANGED <<timers, connKey>>
        /\ UNCHANGED pc \/ \E l : Goto(H(r), l) \/ Goto(A(r), l) \/ Goto(C(r), l)
    BY <1>2 DEF RegisterCheck, Reject, UpgradeRead, UpgradeCheck, SendDirect, UnregisterChannel,
                Produce, Crash, PublishOrder, PublishCancelAll, locals, shared
  <2>2. \A s \in Requests : pc'[G(s)] = pc[G(s)]
    BY SMTT(20), <1>0, <2>1, Distinct DEF Goto, Typed
  <2> QED BY <1>2, <2>1, <2>2, ReceiverStays
<1>3. ASSUME ~Panicked, NEW r \in Requests, CallTimeOutProtocol(r) \/ CallRegisterChannel(r)
      PROVE  TimerHasReceiver'
  <2>1. PICK token \in Spawns : Calls(r, token)
    BY <1>3 DEF CallTimeOutProtocol, CallRegisterChannel, Spawns
  <2>2. pc[G(r)] = "idle"
    BY <2>1, AfterCall DEF SpawnsOnce
  <2>3. /\ UNCHANGED <<timers, connKey>>
        /\ \A s \in Requests \ {r} : pc'[G(s)] = pc[G(s)]
    BY SMTT(20), <1>0, <1>3, Distinct
    DEF CallTimeOutProtocol, CallRegisterChannel, Goto, Typed, shared
  <2> QED BY <1>3, <2>2, <2>3, ReceiverStays DEF Receives
<1>4. ASSUME ~Panicked, NEW t \in Threads,
             \/ GetProtocol(t) \/ DoSend(t) \/ PeekTimeout(t) \/ AimTimeout(t)
             \/ UnregisterProtocol(t) \/ handleTopicCancelledOrders(t)
             \/ \E r \in Requests : t = G(r) /\ (PollResult(r) \/ ContextDone(r) \/ ClearResult(r))
             \/ \E r \in Requests : t = G(r) /\ ReceiveResult(r)
      PROVE  TimerHasReceiver'
  <2>1. /\ UNCHANGED <<timers, connKey>>
        /\ \E l : Goto(t, l)
        /\ t[1] = "h" \/ pc[t] \notin Receives
    BY <1>4 DEF GetProtocol, DoSend, PeekTimeout, AimTimeout, UnregisterProtocol, locals, shared,
                handleTopicCancelledOrders, PollResult, ContextDone, ClearResult, ReceiveResult,
                Receives
  <2>2. \A s \in Requests : pc[G(s)] \in Receives => pc'[G(s)] = pc[G(s)]
    <3>1. \A s \in Requests : G(s)[1] = "g"
      BY DEF G
    <3> QED BY <1>0, <2>1, <3>1 DEF Goto, Typed
  <2> QED BY <1>4, <2>1, <2>2, ReceiverStays
<1>5. ASSUME ~Panicked, NEW r \in Requests, EvalTimeout(r) \/ Expire(r)
      PROVE  TimerHasReceiver'
  <2>1. /\ UNCHANGED <<timers, connKey>> /\ pc'[G(r)] \in Receives
        /\ \A s \in Requests \ {r} : pc'[G(s)] = pc[G(s)]
    BY SMTT(20), <1>0, <1>5, Distinct DEF EvalTimeout, Expire, Goto, Typed, shared, Receives
  <2> QED BY <1>5, <2>1, ReceiverStays
<1>6. ASSUME ~Panicked, NEW t \in Threads, NEW r \in Requests, SignalTimeout(t, r)
      PROVE  TimerHasReceiver'
  <2>1. /\ UNCHANGED <<timers, connKey>> /\ pc'[G(r)] = "disarm" /\ pc[t] = "sync"
        /\ \A u \in Threads \ {t, G(r)} : pc'[u] = pc[u]
    BY <1>0, <1>6 DEF SignalTimeout, Typed, shared
  <2>2. \A s \in Requests : pc[G(s)] \in Receives => pc'[G(s)] \in Receives
    BY <1>0, <2>1 DEF Receives
  <2> QED BY <1>6, <2>1, <2>2, ReceiverStays
<1>7. ASSUME ~Panicked, NEW r \in Requests, ArmTimeout(r)
      PROVE  TimerHasReceiver'
  <2>1. /\ pc[G(r)] = "arm" /\ UNCHANGED connKey /\ pc'[G(r)] = "eval"
        /\ \A s \in Requests \ {r} : pc'[G(s)] = pc[G(s)]
    BY <1>0, <1>7, Distinct DEF ArmTimeout, Goto, Typed, locals
  <2>2. \A k \in Keys : timers'[k] # timers[k] => timers'[k] = r /\ connKey[r] = k
    BY <1>7 DEF ArmTimeout, SetTimer, Typed
  <2> SUFFICES ASSUME NEW k \in Keys, timers'[k] # Absent
               PROVE  pc'[G(timers'[k])] \in Receives /\ connKey'[timers'[k]] = k
    BY DEF TimerHasReceiver, Receives
  <2>3. CASE timers'[k] = r /\ connKey[r] = k
    BY <2>1, <2>3 DEF Receives
  <2>4. CASE timers'[k] = timers[k]
    <3>1. /\ timers[k] \in Requests /\ pc[G(timers[k])] \in Receives
          /\ connKey[timers[k]] = k
      BY <1>7, <2>4 DEF TimerHasReceiver, Receives, Typed
    <3>2. timers[k] # r
      BY <2>1, <3>1 DEF Receives
    <3> QED BY <2>1, <2>4, <3>1, <3>2
  <2> QED BY <2>2, <2>3, <2>4
<1>8. ASSUME ~Panicked, NEW r \in Requests, DeleteTimeout(r)
      PROVE  TimerHasReceiver'
  <2>1. /\ UNCHANGED connKey
        /\ \A s \in Requests \ {r} : pc'[G(s)] = pc[G(s)]
    BY <1>0, <1>8, Distinct DEF DeleteTimeout, Goto, Typed, locals
  <2>2. \A k \in Keys : timers'[k] = timers[k] \/ timers'[k] = Absent
    BY <1>8 DEF DeleteTimeout, SetTimer, Typed
  <2>3. \A k \in Keys : connKey[r] = k => timers'[k] = Absent
    BY <1>8, ConstantsOK DEF DeleteTimeout, SetTimer, Typed
  <2> SUFFICES ASSUME NEW k \in Keys, timers'[k] # Absent
               PROVE  pc'[G(timers'[k])] \in Receives /\ connKey'[timers'[k]] = k
    BY DEF TimerHasReceiver, Receives
  <2>4. /\ timers'[k] = timers[k] /\ timers[k] \in Requests
        /\ pc[G(timers[k])] \in Receives /\ connKey[timers[k]] = k
    BY <1>8, <2>2 DEF TimerHasReceiver, Receives, Typed
  <2>5. timers[k] # r
    BY <2>3, <2>4
  <2> QED BY <2>1, <2>4, <2>5
<1>9. ASSUME NEW t \in Threads, ConcurrentMapAccess(t)
      PROVE  TimerHasReceiver'
  BY <1>9 DEF ConcurrentMapAccess, Goto, Typed, TimerHasReceiver, Panicked
<1>10. CASE UNCHANGED vars \/ \E c \in Clients : Disconnect(c)
  BY <1>10 DEF vars, locals, shared, Disconnect, TimerHasReceiver, Panicked
<1> QED
  BY <1>0, <1>1, <1>2, <1>3, <1>4, <1>5, <1>6, <1>7, <1>8, <1>9, <1>10
  DEF Next, Environment, HandlerStep, SpawnedStep, SendStep

(* A timeout channel in the map has the goroutine that made it, for any    *)
(* number of requests that share keys and delete each other's entries.     *)
THEOREM TimersReceived == Spec => []TimerHasReceiver
<1>1. Init => TimerHasReceiver
  BY DEF Init, TimerHasReceiver
<1>2. Typed /\ SpawnsOnce /\ TimerHasReceiver /\ [Next]_vars => TimerHasReceiver'
  BY TimersKept
<1> QED BY <1>1, <1>2, TypesKept, SpawnedOnce, PTL DEF Spec
-----------------------------------------------------------------------------
(* Requests served at a time.                                              *)

(* Nothing of the request will run any more, whatever is left of it in the *)
(* maps.                                                                   *)
Over(r) ==
    /\ \/ pc[H(r)] \in {"done", "aborted"}
       \/ pc[H(r)] = "run" /\ script[r] = <<>>
    /\ \A t \in {G(r), A(r), C(r)} : pc[t] \in {"idle", "done"}
    /\ CancelledAtEnd(r) /\ pc[A(r)] # "idle" => pc[C(r)] = "done"

Ends == {"idle", "done", "aborted"}

LEMMA OverUntouched ==
    ASSUME NEW r \in Requests, Over(r), req' = req, script'[r] = script[r],
           \A t \in {H(r), G(r), A(r), C(r)} : pc'[t] = pc[t]
    PROVE  Over(r)'
BY DEF Over, CancelledAtEnd, IsWs, Asks

(* No step runs anything of a request that is over. *)
LEMMA OverStays ==
    ASSUME Typed, SpawnsOnce, Next, NEW r \in Requests, Over(r)
    PROVE  Over(r)'
<1>0. /\ \A q \in Requests : /\ H(q) \in Threads /\ G(q) \in Threads
                              /\ A(q) \in Threads /\ C(q) \in Threads
      /\ pc[H(r)] \notin Before
      /\ pc[H(r)] = "run" => script[r] = <<>>
      /\ \A t \in {H(r), G(r), A(r), C(r)} : pc[t] \in Ends \cup {"run"}
      /\ \A t \in {G(r), A(r), C(r)} : pc[t] \in Ends
  BY Goroutines DEF Over, Before, Ends
<1> SUFFICES /\ req' = req /\ script'[r] = script[r]
             /\ \A t \in {H(r), G(r), A(r), C(r)} : pc'[t] = pc[t]
  BY OverUntouched
<1>1. ASSUME NEW q \in Requests,
             \/ Dispatch(q) \/ RegisterCheck(q) \/ Reject(q) \/ RegisterWrite(q)
             \/ UpgradeRead(q) \/ UpgradeCheck(q) \/ UpgradeMove(q)
      PROVE  /\ req' = req /\ script'[r] = script[r]
             /\ \A t \in {H(r), G(r), A(r), C(r)} : pc'[t] = pc[t]
  <2>1. /\ req' = req /\ pc[H(q)] \in Before
        /\ \A t \in Threads \ {H(q)} : pc'[t] = pc[t]
        /\ \A s \in Requests \ {q} : script'[s] = script[s]
    BY <1>1 DEF Dispatch, RegisterCheck, Reject, RegisterWrite, UpgradeRead, UpgradeCheck,
                UpgradeMove, Proceed, Refuse, Enter, Goto, Typed, Before, locals
  <2> QED BY <1>0, <2>1, Distinct
<1>2. ASSUME NEW q \in Requests,
             \/ CallTimeOutProtocol(q) \/ CallRegisterChannel(q) \/ SendDirect(q)
             \/ UnregisterChannel(q) \/ Produce(q) \/ ReceiveResult(q) \/ Crash(q)
             \/ GetProtocol(H(q))
      PROVE  /\ req' = req /\ script'[r] = script[r]
             /\ \A t \in {H(r), G(r), A(r), C(r)} : pc'[t] = pc[t]
  <2>1. \E token : Calls(q, token)
    BY <1>2 DEF CallTimeOutProtocol, CallRegisterChannel, SendDirect, UnregisterChannel, Produce,
                ReceiveResult, Crash, GetProtocol, H
  <2>2. q # r
    BY <1>0, <2>1 DEF Calls
  <2>3. req' = req /\ (UNCHANGED pc \/ \E l : Goto(H(q), l) \/ Goto(G(q), l) \/ Goto(A(q), l))
    BY <1>2 DEF CallTimeOutProtocol, CallRegisterChannel, SendDirect, UnregisterChannel, Produce,
                ReceiveResult, Crash, GetProtocol
  <2>4. script'[r] = script[r]
    BY <2>1, <2>2, AfterCall
  <2> QED BY SMTT(20), <1>0, <2>2, <2>3, <2>4, Distinct DEF Goto, Typed
<1>3. ASSUME NEW t \in Threads,
             \/ t[1] # "h" /\ GetProtocol(t)
             \/ DoSend(t) \/ PeekTimeout(t) \/ AimTimeout(t) \/ UnregisterProtocol(t)
             \/ ConcurrentMapAccess(t) \/ handleTopicCancelledOrders(t)
             \/ \E q \in Requests :
                   /\ t = G(q)
                   /\ \/ ArmTimeout(q) \/ EvalTimeout(q) \/ Expire(q) \/ DeleteTimeout(q)
                      \/ PollResult(q) \/ ContextDone(q) \/ ClearResult(q)
             \/ \E q \in Requests : t = A(q) /\ PublishOrder(q)
      PROVE  /\ req' = req /\ script'[r] = script[r]
             /\ \A u \in {H(r), G(r), A(r), C(r)} : pc'[u] = pc[u]
  <2>1. /\ pc[t] \notin Ends \cup {"run"} /\ UNCHANGED <<req, script>>
        /\ \E l : Goto(t, l)
    BY <1>3 DEF GetProtocol, DoSend, PeekTimeout, AimTimeout, UnregisterProtocol,
                ConcurrentMapAccess, handleTopicCancelledOrders, ArmTimeout, EvalTimeout, Expire,
                DeleteTimeout, PollResult, ContextDone, ClearResult, PublishOrder, Ends, locals
  <2> QED BY <1>0, <2>1 DEF Goto, Typed
<1>4. ASSUME NEW t \in Threads, NEW q \in Requests, SignalTimeout(t, q)
      PROVE  /\ req' = req /\ script'[r] = script[r]
             /\ \A u \in {H(r), G(r), A(r), C(r)} : pc'[u] = pc[u]
  <2>1. /\ UNCHANGED <<req, script>> /\ pc[t] = "sync" /\ pc[G(q)] = "select"
        /\ \A u \in Threads \ {t, G(q)} : pc'[u] = pc[u]
    BY <1>4 DEF SignalTimeout, Typed
  <2> QED BY <1>0, <2>1 DEF Ends
<1>5. ASSUME NEW q \in Requests, PublishCancelAll(q)
      PROVE  /\ req' = req /\ script'[r] = script[r]
             /\ \A u \in {H(r), G(r), A(r), C(r)} : pc'[u] = pc[u]
  <2>1. /\ UNCHANGED <<req, script>> /\ CancelledAtEnd(q) /\ pc[A(q)] # "idle" /\ pc[C(q)] = "idle"
        /\ \A u \in Threads \ {C(q)} : pc'[u] = pc[u]
    BY <1>5 DEF PublishCancelAll, Goto, Typed, locals
  <2>2. q # r
    BY <2>1 DEF Over
  <2> QED BY <1>0, <2>1, <2>2, Distinct
<1>6. ASSUME NEW c \in Clients, Disconnect(c)
      PROVE  /\ req' = req /\ script'[r] = script[r]
             /\ \A u \in {H(r), G(r), A(r), C(r)} : pc'[u] = pc[u]
  BY <1>6 DEF Disconnect, locals
<1>7. \A t \in Threads : t[1] = "h" => t[2] \in Requests /\ t = H(t[2])
  BY DEF Threads, H
<1> QED
  BY <1>0, <1>1, <1>2, <1>3, <1>4, <1>5, <1>6, <1>7
  DEF Next, Environment, HandlerStep, SpawnedStep, SendStep

(* Of two requests with one id that have arrived, one was over when the    *)
(* other came, or both are known to have met.                              *)
Met ==
    \A r, s \in Requests :
        r # s /\ req[r].id = req[s].id /\ pc[H(r)] # "idle" /\ pc[H(s)] # "idle" =>
            {r, s} \subseteq clash \/ Over(r) \/ Over(s)

LEMMA FinishedIsOver == ASSUME NEW r \in Requests, Finished(r) PROVE Over(r)
BY DEF Finished, Over

(* A step is the arrival of a request, or none arrives.                    *)
LEMMA Arrivals ==
    ASSUME Typed, Next
    PROVE  \/ \E q \in Requests : Dispatch(q) \/ RegisterCheck(q) \/ Reject(q)
           \/ clash' = clash /\ \A r \in Requests : pc[H(r)] = "idle" => pc'[H(r)] = "idle"
<1>0. \A q \in Requests : /\ H(q) \in Threads /\ G(q) \in Threads
                           /\ A(q) \in Threads /\ C(q) \in Threads
  BY Goroutines
<1>1. ASSUME NEW q \in Requests,
             \/ RegisterWrite(q) \/ UpgradeRead(q) \/ UpgradeCheck(q) \/ UpgradeMove(q)
             \/ SendDirect(q) \/ UnregisterChannel(q) \/ Crash(q)
      PROVE  clash' = clash /\ \A r \in Requests : pc[H(r)] = "idle" => pc'[H(r)] = "idle"
  <2>1. /\ clash' = clash /\ pc[H(q)] # "idle"
        /\ UNCHANGED pc \/ \E l : Goto(H(q), l)
    BY <1>1 DEF RegisterWrite, UpgradeRead, UpgradeCheck, UpgradeMove, Proceed, Refuse, Enter,
                SendDirect, UnregisterChannel, Crash, Calls, shared
  <2> QED BY <1>0, <2>1 DEF Goto, Typed
<1>2. ASSUME NEW q \in Requests,
             \/ CallTimeOutProtocol(q) \/ CallRegisterChannel(q) \/ Produce(q) \/ ReceiveResult(q)
             \/ PublishOrder(q) \/ PublishCancelAll(q)
             \/ ArmTimeout(q) \/ EvalTimeout(q) \/ Expire(q) \/ DeleteTimeout(q)
             \/ PollResult(q) \/ ContextDone(q) \/ ClearResult(q)
      PROVE  clash' = clash /\ \A r \in Requests : pc[H(r)] = "idle" => pc'[H(r)] = "idle"
  <2>1. clash' = clash /\ \E l : Goto(G(q), l) \/ Goto(A(q), l) \/ Goto(C(q), l)
    BY <1>2 DEF CallTimeOutProtocol, CallRegisterChannel, Produce, ReceiveResult, PublishOrder,
                PublishCancelAll, ArmTimeout, EvalTimeout, Expire, DeleteTimeout, PollResult,
                ContextDone, ClearResult, shared
  <2> QED BY SMTT(20), <1>0, <2>1, Distinct DEF Goto, Typed
<1>3. ASSUME NEW t \in Threads,
             \/ GetProtocol(t) \/ DoSend(t) \/ PeekTimeout(t) \/ AimTimeout(t)
             \/ UnregisterProtocol(t) \/ ConcurrentMapAccess(t) \/ handleTopicCancelledOrders(t)
      PROVE  clash' = clash /\ \A r \in Requests : pc[H(r)] = "idle" => pc'[H(r)] = "idle"
  <2>1. clash' = clash /\ \E l : Goto(t, l)
    BY <1>3 DEF GetProtocol, DoSend, PeekTimeout, AimTimeout, UnregisterProtocol,
                ConcurrentMapAccess, handleTopicCancelledOrders, shared
  <2>2. t[1] = "h" => t = H(t[2])
    BY DEF H, Threads
  <2>3. pc[t] # "idle"
    BY <1>3, <2>2 DEF GetProtocol, DoSend, PeekTimeout, AimTimeout, UnregisterProtocol,
                ConcurrentMapAccess, handleTopicCancelledOrders, Calls
  <2> QED BY <1>0, <2>1, <2>3 DEF Goto, Typed
<1>4. ASSUME NEW t \in Threads, NEW q \in Requests, SignalTimeout(t, q)
      PROVE  clash' = clash /\ \A r \in Requests : pc[H(r)] = "idle" => pc'[H(r)] = "idle"
  <2>1. /\ clash' = clash /\ pc[t] = "sync" /\ pc[G(q)] = "select"
        /\ \A u \in Threads \ {t, G(q)} : pc'[u] = pc[u]
    BY <1>4 DEF SignalTimeout, Typed, shared
  <2> QED BY <1>0, <2>1
<1>5. ASSUME NEW c \in Clients, Disconnect(c)
      PROVE  clash' = clash /\ \A r \in Requests : pc[H(r)] = "idle" => pc'[H(r)] = "idle"
  BY <1>5 DEF Disconnect
<1> QED
  BY <1>1, <1>2, <1>3, <1>4, <1>5
  DEF Next, Environment, HandlerStep, SpawnedStep, SendStep

LEMMA MetKept ==
    ASSUME Typed, SpawnsOnce, Met, [Next]_vars
    PROVE  Met' /\ req' = req /\ clash \subseteq clash'
<1>1. CASE UNCHANGED vars
  BY <1>1 DEF vars, locals, shared, Met, Over, CancelledAtEnd, IsWs, Asks
<1>2. CASE Next
  <2>0. \A r \in Requests : Over(r) => Over(r)'
    BY <1>2, OverStays
  <2>1. CASE clash' = clash /\ \A r \in Requests : pc[H(r)] = "idle" => pc'[H(r)] = "idle"
    <3>1. req' = req
      BY <1>2 DEF Next, Environment, HandlerStep, SpawnedStep, SendStep, locals, RegisterWrite,
         UpgradeRead, UpgradeCheck, UpgradeMove, SendDirect, UnregisterChannel, Crash,
         CallTimeOutProtocol, CallRegisterChannel, Produce, ReceiveResult, PublishOrder,
         PublishCancelAll, ArmTimeout, EvalTimeout, Expire, DeleteTimeout, PollResult, ContextDone,
         ClearResult, GetProtocol, DoSend, PeekTimeout, AimTimeout, UnregisterProtocol,
         ConcurrentMapAccess, handleTopicCancelledOrders, SignalTimeout, Disconnect, Dispatch,
         RegisterCheck, Reject
    <3> QED BY <2>0, <2>1, <3>1 DEF Met
  <2>2. ASSUME NEW q \in Requests, Dispatch(q) \/ RegisterCheck(q) \/ Reject(q)
        PROVE  Met' /\ req' = req /\ clash \subseteq clash'
    <3>1. /\ req' = req /\ pc[H(q)] = "idle"
          /\ \A t \in Threads \ {H(q)} : pc'[t] = pc[t]
          /\ \A s \in Requests \ {q} : pc'[H(s)] = pc[H(s)]
      <4>1. /\ req' = req /\ pc[H(q)] = "idle"
            /\ \A t \in Threads \ {H(q)} : pc'[t] = pc[t]
        BY <2>2 DEF Dispatch, RegisterCheck, Reject, Proceed, Enter, Goto, Typed, locals
      <4> QED BY <4>1, Goroutines, Distinct
    <3>2. \/ clash' = clash \cup Clashes(q)
          \/ clash' = clash /\ pc'[H(q)] = "done"
      BY <2>2, Goroutines DEF Dispatch, RegisterCheck, Reject, Goto, Typed
    <3>3. CASE clash' = clash /\ pc'[H(q)] = "done"
      <4>1. Over(q)'
        <5>1. \A t \in {G(q), A(q), C(q)} : pc'[t] = "idle"
          BY <3>1, Goroutines, Distinct DEF SpawnsOnce, Before
        <5> QED BY <3>3, <5>1 DEF Over
      <4> QED BY <2>0, <3>1, <3>3, <4>1 DEF Met
    <3>4. CASE clash' = clash \cup Clashes(q)
      <4>1. ASSUME NEW s \in Requests \ {q}, req[s].id = req[q].id, pc[H(s)] # "idle"
            PROVE  {q, s} \subseteq clash' \/ Over(s)'
        <5>1. CASE Finished(s)
          BY <2>0, <5>1, FinishedIsOver
        <5>2. CASE ~Finished(s)
          BY <3>4, <4>1, <5>2 DEF Clashes
        <5> QED BY <5>1, <5>2
      <4> QED BY <2>0, <3>1, <3>4, <4>1 DEF Met
    <3> QED BY <3>1, <3>2, <3>3, <3>4
  <2> QED BY <1>2, <2>1, <2>2, Arrivals
<1> QED BY <1>1, <1>2
-----------------------------------------------------------------------------
(* The zero entry.                                                         *)

(* Two requests with this id have been served at a time. *)
Shared(i) == \E r, s \in clash : r # s /\ req[r].id = i /\ req[s].id = i

(* It is read where a request has lost its entry before UpgradeProtocol    *)
(* reads it, held until it is written, and in the map from then on.        *)
ZeroOK ==
    /\ \A k \in Keys : conns[k] = Zero => Shared(k[1])
    /\ \A t \in Threads : got[t] = Zero => Shared(req[t[2]].id)
    /\ \A r \in Requests : pc[H(r)] = "read" => conns[AnonKey(r)] # Absent \/ Shared(req[r].id)

(* Who takes away the entry of a request that is about to read it has met  *)
(* it.                                                                     *)
LEMMA TakerHasMet ==
    ASSUME Typed, SpawnsOnce, Met, NEW r \in Requests, pc[H(r)] = "read",
           NEW t \in Threads, pc[t] \in {"free", "move"}, req[t[2]].id = req[r].id
    PROVE  Shared(req[r].id)
<1> DEFINE s == t[2]
<1>1. s \in Requests /\ t \in {H(s), G(s), A(s), C(s)}
  BY Owner, IsOneOf
<1>2. \A u \in {G(r), A(r), C(r)} : pc[u] = "idle"
  BY DEF SpawnsOnce, Before
<1>3. s # r
  BY <1>1, <1>2
<1>4. pc[H(s)] # "idle"
  BY <1>1 DEF SpawnsOnce, Before
<1>5. ~Over(r) /\ ~Over(s)
  BY <1>1 DEF Over
<1> QED BY <1>1, <1>3, <1>4, <1>5 DEF Met, Shared

(* Steps that leave the three places alone. *)
LEMMA ZeroElsewhere ==
    ASSUME ZeroOK, req' = req, clash \subseteq clash', UNCHANGED <<conns, got>>,
           \A r \in Requests : pc'[H(r)] = "read" => pc[H(r)] = "read"
    PROVE  ZeroOK'
BY DEF ZeroOK, Shared, AnonKey

LEMMA ZeroKept ==
    ASSUME Typed, SpawnsOnce, Met, SameId, ZeroOK, [Next]_vars
    PROVE  ZeroOK'
<1>0. /\ req' = req /\ clash \subseteq clash'
      /\ \A i : Shared(i) => Shared(i)'
      /\ \A r \in Requests : AnonKey(r)' = AnonKey(r) /\ AnonKey(r) \in Keys
      /\ \A r \in Requests : H(r) \in Threads
  <2>1. req' = req /\ clash \subseteq clash'
    BY MetKept
  <2> QED BY <2>1, KeysOfRequest, Goroutines DEF Shared, AnonKey
<1>1. ASSUME NEW r \in Requests, RegisterWrite(r)
      PROVE  ZeroOK'
  <2>1. /\ conns' = [conns EXCEPT ![AnonKey(r)] = r] /\ got' = got
        /\ \A t \in Threads \ {H(r)} : pc'[t] = pc[t]
    BY <1>1 DEF RegisterWrite, Proceed, Refuse, Enter, Goto, Typed
  <2>2. \A k \in Keys : conns'[k] = conns[k] \/ conns'[k] = r
    BY <2>1 DEF Typed
  <2>3. conns'[AnonKey(r)] = r
    BY <1>0, <2>1 DEF Typed
  <2>4. r # Zero /\ r # Absent
    BY ConstantsOK
  <2>5. ASSUME NEW s \in Requests, pc'[H(s)] = "read"
        PROVE  conns'[AnonKey(s)] # Absent \/ Shared(req[s].id)'
    <3>1. CASE s = r
      BY <2>3, <2>4, <3>1
    <3>2. CASE s # r
      BY <1>0, <2>1, <2>2, <2>4, <2>5, <3>2, Distinct DEF ZeroOK
    <3> QED BY <3>1, <3>2
  <2> QED BY <1>0, <2>1, <2>2, <2>4, <2>5 DEF ZeroOK
<1>2. ASSUME NEW r \in Requests, UpgradeRead(r)
      PROVE  ZeroOK'
  <2>1. /\ conns' = conns /\ pc[H(r)] = "read"
        /\ got' = [got EXCEPT ![H(r)] = IF conns[AnonKey(r)] = Absent THEN Zero ELSE conns[AnonKey(r)]]
        /\ Goto(H(r), "exist")
    BY <1>2 DEF UpgradeRead, shared
  <2>2. conns[AnonKey(r)] \in {Absent, Zero} => Shared(req[r].id)
    BY <1>0, <2>1, KeysOfRequest, ConstantsOK DEF ZeroOK
  <2>3. \A t \in Threads \ {H(r)} : got'[t] = got[t]
    BY <2>1 DEF Typed
  <2>5. got'[H(r)] = Zero => conns[AnonKey(r)] \in {Absent, Zero}
    BY <1>0, <2>1 DEF Typed
  <2>4. \A s \in Requests : pc'[H(s)] = "read" => pc[H(s)] = "read"
    BY <1>0, <2>1 DEF Goto, Typed
  <2> QED BY <1>0, <2>1, <2>2, <2>3, <2>4, <2>5, Distinct DEF ZeroOK
<1>3. ASSUME NEW r \in Requests, UpgradeMove(r)
      PROVE  ZeroOK'
  <2>1. /\ pc[H(r)] = "move"
        /\ conns' = [conns EXCEPT ![UserKey(r)] = got[H(r)], ![AnonKey(r)] = Absent]
        /\ got' = [got EXCEPT ![H(r)] = Absent]
        /\ pc'[H(r)] # "read" /\ \A t \in Threads \ {H(r)} : pc'[t] = pc[t]
    BY <1>0, <1>3 DEF UpgradeMove, Proceed, Refuse, Enter, Goto, Typed
  <2>2. ASSUME NEW k \in Keys, conns'[k] = Zero
        PROVE  Shared(k[1])'
    <3>1. conns[k] = Zero \/ (k = UserKey(r) /\ got[H(r)] = Zero)
      BY <2>1, <2>2, ConstantsOK DEF Typed
    <3>2. got[H(r)] = Zero => Shared(req[r].id)
      BY <1>0, Distinct DEF ZeroOK
    <3> QED BY <1>0, <2>2, <3>1, <3>2, KeysOfRequest DEF ZeroOK
  <2>3. \A t \in Threads : got'[t] = Zero => got[t] = Zero
    BY <2>1, ConstantsOK DEF Typed
  <2>4. ASSUME NEW s \in Requests, pc'[H(s)] = "read"
        PROVE  conns'[AnonKey(s)] # Absent \/ Shared(req[s].id)'
    <3>1. s # r /\ pc[H(s)] = "read"
      BY <1>0, <2>1, <2>4
    <3>2. CASE req[s].id = req[r].id
      BY <1>0, <2>1, <3>1, <3>2, TakerHasMet, Distinct
    <3>3. CASE req[s].id # req[r].id
      <4>1. conns'[AnonKey(s)] = conns[AnonKey(s)]
        BY <2>1, <3>3, KeysOfRequest DEF Typed
      <4> QED BY <1>0, <3>1, <4>1 DEF ZeroOK
    <3> QED BY <3>2, <3>3
  <2> QED BY <1>0, <2>2, <2>3, <2>4 DEF ZeroOK
<1>4. ASSUME NEW t \in Threads, UnregisterProtocol(t)
      PROVE  ZeroOK'
  <2>1. /\ pc[t] = "free" /\ conns' = [conns EXCEPT ![KeyOf(t)] = Absent]
        /\ got' = [got EXCEPT ![t] = Absent]
        /\ pc'[t] # "read" /\ \A u \in Threads \ {t} : pc'[u] = pc[u]
    BY <1>4 DEF UnregisterProtocol, Ret, Goto, Typed
  <2>2. /\ \A k \in Keys : conns'[k] = Zero => conns[k] = Zero
        /\ \A u \in Threads : got'[u] = Zero => got[u] = Zero
    BY <2>1, ConstantsOK DEF Typed
  <2>3. ASSUME NEW s \in Requests, pc'[H(s)] = "read"
        PROVE  conns'[AnonKey(s)] # Absent \/ Shared(req[s].id)'
    <3>1. pc[H(s)] = "read"
      BY <1>0, <2>1, <2>3
    <3>2. CASE AnonKey(s) = KeyOf(t)
      <4>1. req[t[2]].id = req[s].id
        BY <1>0, <3>2, KeyId, KeysOfRequest, ConstantsOK
      <4> QED BY <1>0, <2>1, <3>1, <4>1, TakerHasMet
    <3>3. CASE AnonKey(s) # KeyOf(t)
      <4>1. conns'[AnonKey(s)] = conns[AnonKey(s)]
        BY <1>0, <2>1, <3>3 DEF Typed
      <4> QED BY <1>0, <3>1, <4>1 DEF ZeroOK
    <3> QED BY <3>2, <3>3
  <2> QED BY <1>0, <2>2, <2>3 DEF ZeroOK
<1>5. ASSUME NEW t \in Threads, GetProtocol(t)
      PROVE  ZeroOK'
  <2>1. /\ conns' = conns
        /\ \E l \in {"run", "done", "aborted", "panic", "send"} : Goto(t, l)
        /\ got' = got \/ \E c \in Requests : got' = [got EXCEPT ![t] = c]
    BY <1>5 DEF GetProtocol, Ret, shared
  <2>2. /\ \A u \in Threads : got'[u] = Zero => got[u] = Zero
        /\ \A s \in Requests : pc'[H(s)] = "read" => pc[H(s)] = "read"
    BY <1>0, <2>1, ConstantsOK DEF Goto, Typed
  <2> QED BY <1>0, <2>1, <2>2 DEF ZeroOK
<1>6. ASSUME NEW r \in Requests,
             \/ Dispatch(r) \/ RegisterCheck(r) \/ Reject(r) \/ UpgradeCheck(r)
             \/ SendDirect(r) \/ UnregisterChannel(r) \/ Crash(r)
             \/ CallTimeOutProtocol(r) \/ CallRegisterChannel(r) \/ Produce(r) \/ ReceiveResult(r)
             \/ PublishOrder(r) \/ PublishCancelAll(r)
             \/ ArmTimeout(r) \/ EvalTimeout(r) \/ Expire(r) \/ DeleteTimeout(r)
             \/ PollResult(r) \/ ContextDone(r) \/ ClearResult(r)
      PROVE  ZeroOK'
  <2>1. /\ UNCHANGED <<conns, got>>
        /\ UNCHANGED pc \/ \E l \in Labels \ {"read"}, t \in Threads : Goto(t, l)
    BY <1>6, Goroutines
    DEF Dispatch, RegisterCheck, Reject, UpgradeCheck, SendDirect, UnregisterChannel, Crash,
        CallTimeOutProtocol, CallRegisterChannel, Produce, ReceiveResult, PublishOrder,
        PublishCancelAll, ArmTimeout, EvalTimeout, Expire, DeleteTimeout, PollResult, ContextDone,
        ClearResult, Proceed, Enter, locals, shared, Labels
  <2>2. \A s \in Requests : pc'[H(s)] = "read" => pc[H(s)] = "read"
    BY <1>0, <2>1 DEF Goto, Typed
  <2> QED BY <1>0, <2>1, <2>2, ZeroElsewhere
<1>7. ASSUME NEW t \in Threads,
             \/ DoSend(t) \/ PeekTimeout(t) \/ AimTimeout(t)
             \/ ConcurrentMapAccess(t) \/ handleTopicCancelledOrders(t)
      PROVE  ZeroOK'
  <2>1. UNCHANGED <<conns, got>> /\ \E l \in Labels \ {"read"} : Goto(t, l)
    BY <1>7 DEF DoSend, PeekTimeout, AimTimeout, ConcurrentMapAccess, handleTopicCancelledOrders,
                locals, shared, Labels
  <2>2. \A s \in Requests : pc'[H(s)] = "read" => pc[H(s)] = "read"
    BY <1>0, <2>1 DEF Goto, Typed
  <2> QED BY <1>0, <2>1, <2>2, ZeroElsewhere
<1>8. ASSUME NEW t \in Threads, NEW r \in Requests, SignalTimeout(t, r)
      PROVE  ZeroOK'
  <2>1. UNCHANGED <<conns, got>> /\ \A s \in Requests : pc'[H(s)] = "read" => pc[H(s)] = "read"
    BY <1>0, <1>8 DEF SignalTimeout, Typed, shared
  <2> QED BY <1>0, <2>1, ZeroElsewhere
<1>9. CASE UNCHANGED vars \/ \E c \in Clients : Disconnect(c)
  BY <1>0, <1>9, ZeroElsewhere DEF vars, locals, shared, Disconnect
<1> QED
  BY <1>1, <1>2, <1>3, <1>4, <1>5, <1>6, <1>7, <1>8, <1>9
  DEF Next, Environment, HandlerStep, SpawnedStep, SendStep

(* The zero entry, whose use ends the process, takes two requests served   *)
(* at a time with its id, however many requests share or reuse ids.        *)
THEOREM ZeroTakesTwo == Spec => []ZeroNeedsSharedId
<1>1. Init => Met /\ ZeroOK
  <2> SUFFICES ASSUME Init PROVE Met /\ ZeroOK
    OBVIOUS
  <2>1. Met
    BY Goroutines DEF Init, Met
  <2>2. ZeroOK
    BY Goroutines, ConstantsOK DEF Init, ZeroOK
  <2> QED BY <2>1, <2>2
<1>2. Typed /\ SpawnsOnce /\ SameId /\ Met /\ ZeroOK /\ [Next]_vars => Met' /\ ZeroOK'
  BY MetKept, ZeroKept
<1>3. ZeroOK => ZeroNeedsSharedId
  BY DEF ZeroOK, Shared, ZeroNeedsSharedId
<1> QED BY <1>1, <1>2, <1>3, TypesKept, SpawnedOnce, IdsKept, PTL DEF Spec
-----------------------------------------------------------------------------
(* Registrations are not lost.                                             *)

(* Where doSend is once it has written. *)
Sent == {"peek", "aim", "sync", "free"}

OwnThreads(r) == {H(r), G(r), A(r), C(r)}

(* Nothing of the request runs or is registered. *)
Gone(r) == Over(r) /\ \A k \in Keys : conns[k] # r

(* Of a request that has met no other with its id: the others were over    *)
(* when it came, or it was gone when they came; nobody else holds it;      *)
(* UpgradeProtocol finds it where it was registered; and who takes it for  *)
(* its key's connection has it, and writes to it.                          *)
KeptOK ==
    /\ \A r \in Requests, k \in Keys : conns[k] = r => pc[H(r)] # "idle"
    /\ \A r \in Requests, t \in Threads : got[t] = r => pc[H(r)] # "idle"
    /\ \A r \in Requests \ clash :
          /\ \A s \in Requests \ {r} :
                req[r].id = req[s].id /\ pc[H(r)] # "idle" /\ pc[H(s)] # "idle" => Gone(r) \/ Over(s)
          /\ \A t \in Threads : got[t] = r => t[2] = r
          /\ pc[H(r)] = "read" => conns[AnonKey(r)] = r
          /\ pc[H(r)] \in {"exist", "move"} => got[H(r)] = r
          /\ pc[H(r)] \in {"read", "exist", "move"} => req[r].user # NoUser
          /\ \A t \in OwnThreads(r) : KeyOf(t) # NoKey /\ conns[KeyOf(t)] = r =>
                /\ pc[t] = "send" => got[t] = r
                /\ pc[t] \in Sent => Answered(r) \/ req[r].handler.proto = "channel"

(* What a step does to the place and the locals of a goroutine in doSend.  *)
LEMMA Sending ==
    ASSUME Typed, Next, NEW t \in Threads
    PROVE  /\ pc'[t] = "send" => (pc[t] = "send" /\ got'[t] = got[t]) \/ GetProtocol(t)
           /\ pc'[t] \in Sent => pc[t] \in Sent \/ DoSend(t)
<1>0. \A q \in Requests : /\ H(q) \in Threads /\ G(q) \in Threads
                           /\ A(q) \in Threads /\ C(q) \in Threads
  BY Goroutines
<1> DEFINE Goal == /\ pc'[t] = "send" => (pc[t] = "send" /\ got'[t] = got[t]) \/ GetProtocol(t)
                   /\ pc'[t] \in Sent => pc[t] \in Sent \/ DoSend(t)
<1>1. ASSUME NEW q \in Requests,
             \/ Dispatch(q) \/ RegisterCheck(q) \/ Reject(q) \/ RegisterWrite(q)
             \/ UpgradeRead(q) \/ UpgradeCheck(q) \/ UpgradeMove(q)
             \/ SendDirect(q) \/ UnregisterChannel(q) \/ Crash(q)
             \/ CallTimeOutProtocol(q) \/ CallRegisterChannel(q) \/ Produce(q) \/ ReceiveResult(q)
             \/ PublishOrder(q) \/ PublishCancelAll(q)
             \/ ArmTimeout(q) \/ EvalTimeout(q) \/ Expire(q) \/ DeleteTimeout(q)
             \/ PollResult(q) \/ ContextDone(q) \/ ClearResult(q)
      PROVE  Goal
  <2>1. /\ UNCHANGED pc \/ \E l \in Labels \ ({"send"} \cup Sent), u \in Threads : Goto(u, l)
        /\ got' = got \/ \E v : got' = [got EXCEPT ![H(q)] = v] /\ pc[H(q)] \in Before
    BY <1>0, <1>1
    DEF Dispatch, RegisterCheck, Reject, RegisterWrite, UpgradeRead, UpgradeCheck, UpgradeMove,
        SendDirect, UnregisterChannel, Crash, CallTimeOutProtocol, CallRegisterChannel, Produce,
        ReceiveResult, PublishOrder, PublishCancelAll, ArmTimeout, EvalTimeout, Expire,
        DeleteTimeout, PollResult, ContextDone, ClearResult, Proceed, Refuse, Enter, locals,
        shared, Labels, Sent, Before
  <2>2. pc'[t] \in {"send"} \cup Sent => pc[t] = pc'[t]
    BY <2>1 DEF Goto, Typed
  <2>3. pc[t] = "send" => got'[t] = got[t]
    BY <1>0, <2>1 DEF Typed, Before
  <2> QED BY <2>2, <2>3
<1>2. ASSUME NEW u \in Threads,
             \/ GetProtocol(u) \/ DoSend(u) \/ PeekTimeout(u) \/ AimTimeout(u)
             \/ UnregisterProtocol(u) \/ ConcurrentMapAccess(u) \/ handleTopicCancelledOrders(u)
      PROVE  Goal
  <2>1. /\ \E l : Goto(u, l)
        /\ got' = got \/ \E v : got' = [got EXCEPT ![u] = v]
    BY <1>2 DEF GetProtocol, DoSend, PeekTimeout, AimTimeout, UnregisterProtocol, locals,
                ConcurrentMapAccess, handleTopicCancelledOrders
  <2>2. CASE t # u
    BY <2>1, <2>2 DEF Goto, Typed
  <2>3. CASE t = u
    <3>1. pc'[t] = "send" => GetProtocol(t)
      BY <1>2, <2>3 DEF DoSend, PeekTimeout, AimTimeout, UnregisterProtocol, Ret, Goto, Typed,
                        ConcurrentMapAccess, handleTopicCancelledOrders
    <3>2. pc'[t] \in Sent => pc[t] \in Sent \/ DoSend(t)
      BY <1>2, <2>3 DEF GetProtocol, PeekTimeout, AimTimeout, UnregisterProtocol, Ret, Goto, Typed,
                        ConcurrentMapAccess, handleTopicCancelledOrders, Sent
    <3> QED BY <3>1, <3>2
  <2> QED BY <2>2, <2>3
<1>3. ASSUME NEW u \in Threads, NEW q \in Requests, SignalTimeout(u, q)
      PROVE  Goal
  <2>1. /\ got' = got /\ pc[u] = "sync" /\ pc'[u] \in {"free", "disarm"} /\ pc'[G(q)] = "disarm"
        /\ \A v \in Threads \ {u, G(q)} : pc'[v] = pc[v]
    BY <1>0, <1>3 DEF SignalTimeout, Typed
  <2> QED BY <1>0, <2>1 DEF Sent
<1>4. ASSUME NEW c \in Clients, Disconnect(c)
      PROVE  Goal
  BY <1>4 DEF Disconnect, locals
<1> HIDE DEF Goal
<1>5. Goal
  BY <1>1, <1>2, <1>3, <1>4 DEF Next, Environment, HandlerStep, SpawnedStep, SendStep
<1> QED BY <1>5 DEF Goal
(* A handler whose requestHelper has returned keeps its key; an answer is  *)
(* not taken back.                                                         *)
LEMMA Lasting ==
    ASSUME Typed, Next, NEW r \in Requests
    PROVE  /\ pc[H(r)] \notin Before => connKey'[r] = connKey[r]
           /\ Answered(r) => Answered(r)'
<1>1. pc[H(r)] \notin Before => connKey'[r] = connKey[r]
  <2>1. ASSUME NEW q \in Requests,
               \/ Dispatch(q) \/ RegisterWrite(q) \/ UpgradeMove(q)
        PROVE  pc[H(r)] \notin Before => connKey'[r] = connKey[r]
    <3>1. pc[H(q)] \in Before /\ \A s \in Requests \ {q} : connKey'[s] = connKey[s]
      BY <2>1 DEF Dispatch, RegisterWrite, UpgradeMove, Proceed, Refuse, Enter, Typed, Before
    <3> QED BY <3>1
  <2> QED
    BY <2>1 DEF Next, Environment, HandlerStep, SpawnedStep, SendStep, locals,
       UpgradeRead, UpgradeCheck, SendDirect, UnregisterChannel, Crash,
       CallTimeOutProtocol, CallRegisterChannel, Produce, ReceiveResult, PublishOrder,
       PublishCancelAll, ArmTimeout, EvalTimeout, Expire, DeleteTimeout, PollResult, ContextDone,
       ClearResult, GetProtocol, DoSend, PeekTimeout, AimTimeout, UnregisterProtocol,
       ConcurrentMapAccess, handleTopicCancelledOrders, SignalTimeout, Disconnect,
       RegisterCheck, Reject
<1>2. ASSUME Answered(r) PROVE Answered(r)'
  <2>1. PICK t \in Threads : answers[r][t] > 0
    BY <1>2 DEF Answered
  <2>2. answers' = answers \/ \E q \in Requests \cup {Zero, Absent}, u \in Threads \cup {Absent} : Answer(q, u)
    BY Goroutines DEF Next, Environment, HandlerStep, SpawnedStep, SendStep, shared, Typed,
       RegisterWrite, UpgradeRead, UpgradeCheck, UpgradeMove, SendDirect, UnregisterChannel, Crash,
       CallTimeOutProtocol, CallRegisterChannel, Produce, ReceiveResult, PublishOrder,
       PublishCancelAll, ArmTimeout, EvalTimeout, Expire, DeleteTimeout, PollResult, ContextDone,
       ClearResult, GetProtocol, DoSend, PeekTimeout, AimTimeout, UnregisterProtocol,
       ConcurrentMapAccess, handleTopicCancelledOrders, SignalTimeout, Disconnect, Dispatch,
       RegisterCheck, Reject
  <2>3. answers'[r][t] > 0
    <3>1. ASSUME NEW q, NEW u, Answer(q, u)
          PROVE  answers'[r][t] > 0
      <4>1. CASE q = r /\ u = t
        <5>1. answers'[r][t] = answers[r][t] + 1
          BY <3>1, <4>1 DEF Answer, Typed
        <5> QED BY <2>1, <5>1 DEF Typed
      <4>2. CASE ~(q = r /\ u = t)
        <5>1. answers'[r][t] = answers[r][t]
          BY <3>1, <4>2 DEF Answer, Typed
        <5> QED BY <2>1, <5>1
      <4> QED BY <4>1, <4>2
    <3> QED BY <2>1, <2>2, <3>1
  <2> QED BY <2>3 DEF Answered
<1> QED BY <1>1, <1>2

(* Who may put a request's registration somewhere, or take it away.        *)
LEMMA EntriesChange ==
    ASSUME Typed, SpawnsOnce, SameId, KeptOK, Next,
           NEW r \in Requests \ clash, NEW k \in Keys
    PROVE  /\ conns'[k] = r /\ conns[k] # r => pc[H(r)] \in {"write", "move"}
           /\ conns[k] = r /\ conns'[k] # r =>
                 \/ UpgradeMove(r)
                 \/ \E t \in OwnThreads(r) : UnregisterProtocol(t) /\ k = KeyOf(t)
<1> DEFINE Goal == /\ conns'[k] = r /\ conns[k] # r => pc[H(r)] \in {"write", "move"}
                   /\ conns[k] = r /\ conns'[k] # r =>
                         \/ UpgradeMove(r)
                         \/ \E t \in OwnThreads(r) : UnregisterProtocol(t) /\ k = KeyOf(t)
(* Another goroutine would be one of a request that has met r. *)
<1>1. ASSUME NEW t \in Threads, pc[t] \in {"write", "move", "free"}, t[2] # r,
             req[t[2]].id = k[1], conns[k] = r
      PROVE  FALSE
  <2> DEFINE s == t[2]
  <2>1. s \in Requests /\ t \in OwnThreads(s)
    BY Owner, IsOneOf DEF OwnThreads
  <2>2. req[r].id = req[s].id /\ pc[H(r)] # "idle"
    BY <1>1 DEF SameId, KeptOK
  <2>3. pc[H(s)] # "idle" /\ ~Over(s)
    BY <1>1, <2>1 DEF SpawnsOnce, Before, OwnThreads, Over
  <2> QED BY <1>1, <2>1, <2>2, <2>3 DEF KeptOK, Gone
<1>2. ASSUME NEW q \in Requests, RegisterWrite(q)
      PROVE  Goal
  <2>1. conns' = [conns EXCEPT ![AnonKey(q)] = q] /\ pc[H(q)] = "write"
    BY <1>2 DEF RegisterWrite
  <2>2. H(q) \in Threads /\ H(q)[2] = q
    BY Goroutines, Distinct
  <2>3. conns[k] = r /\ conns'[k] # r => k = AnonKey(q) /\ q # r
    BY <2>1 DEF Typed
  <2> QED BY <1>1, <2>1, <2>2, <2>3, KeysOfRequest DEF Typed
<1>3. ASSUME NEW q \in Requests, UpgradeMove(q)
      PROVE  Goal
  <2>1. /\ conns' = [conns EXCEPT ![UserKey(q)] = got[H(q)], ![AnonKey(q)] = Absent]
        /\ pc[H(q)] = "move"
    BY <1>3 DEF UpgradeMove
  <2>2. H(q) \in Threads /\ H(q)[2] = q
    BY Goroutines, Distinct
  <2>3. conns'[k] = r /\ conns[k] # r => got[H(q)] = r
    BY <2>1, ConstantsOK DEF Typed
  <2>4. conns[k] = r /\ conns'[k] # r => k \in {UserKey(q), AnonKey(q)}
    BY <2>1 DEF Typed
  <2>5. got[H(q)] = r => q = r
    BY <2>2 DEF KeptOK
  <2> QED BY <1>1, <1>3, <2>1, <2>2, <2>3, <2>4, <2>5, KeysOfRequest
<1>4. ASSUME NEW t \in Threads, UnregisterProtocol(t)
      PROVE  Goal
  <2>1. conns' = [conns EXCEPT ![KeyOf(t)] = Absent] /\ pc[t] = "free"
    BY <1>4 DEF UnregisterProtocol
  <2>2. /\ ~(conns'[k] = r /\ conns[k] # r)
        /\ conns[k] = r /\ conns'[k] # r => k = KeyOf(t)
    BY <2>1, ConstantsOK DEF Typed
  <2>3. t[2] = r => t \in OwnThreads(r)
    BY IsOneOf DEF OwnThreads
  <2>4. k = KeyOf(t) => req[t[2]].id = k[1]
    BY KeyId, ConstantsOK
  <2> QED BY <1>1, <1>4, <2>1, <2>2, <2>3, <2>4
<1>5. CASE conns' = conns
  BY <1>5
<1> HIDE DEF Goal
<1>6. Goal
  <2>1. conns' = conns => Goal
    BY <1>5 DEF Goal
  <2> QED
    BY <1>2, <1>3, <1>4, <2>1 DEF Next, Environment, HandlerStep, SpawnedStep, SendStep, shared,
       UpgradeRead, UpgradeCheck, SendDirect, UnregisterChannel, Crash,
       CallTimeOutProtocol, CallRegisterChannel, Produce, ReceiveResult, PublishOrder,
       PublishCancelAll, ArmTimeout, EvalTimeout, Expire, DeleteTimeout, PollResult, ContextDone,
       ClearResult, GetProtocol, DoSend, PeekTimeout, AimTimeout,
       ConcurrentMapAccess, handleTopicCancelledOrders, SignalTimeout, Disconnect, Dispatch,
       RegisterCheck, Reject
<1> QED BY <1>6 DEF Goal
(* A request that is gone, and has met nobody, does not come back.         *)
LEMMA GoneStays ==
    ASSUME Typed, SpawnsOnce, SameId, KeptOK, Next, NEW r \in Requests \ clash, Gone(r)
    PROVE  Gone(r)'
<1>1. pc[H(r)] \notin {"write", "move"}
  BY DEF Gone, Over
<1>2. \A k \in Keys : conns'[k] # r
  BY <1>1, EntriesChange DEF Gone
<1>3. Over(r)'
  BY OverStays DEF Gone
<1> QED BY <1>2, <1>3 DEF Gone

(* Arriving requests meet those that are not finished.                     *)
LEMMA MeetingsKept ==
    ASSUME Typed, SpawnsOnce, SameId, KeptOK, Next, req' = req,
           NEW r \in Requests \ clash', clash \subseteq clash',
           NEW s \in Requests \ {r}, req[r].id = req[s].id,
           pc'[H(r)] # "idle", pc'[H(s)] # "idle"
    PROVE  Gone(r)' \/ Over(s)'
<1>0. /\ Gone(r) => Gone(r)'
      /\ Over(s) => Over(s)'
  BY GoneStays, OverStays
<1>1. CASE pc[H(r)] # "idle" /\ pc[H(s)] # "idle"
  BY <1>0, <1>1 DEF KeptOK
<1>2. ASSUME NEW q \in {r, s}, pc[H(q)] = "idle"
      PROVE  Gone(r)' \/ Over(s)'
  <2>1. PICK a \in Requests : Dispatch(a) \/ RegisterCheck(a) \/ Reject(a)
    BY <1>2, Arrivals
  <2>2. /\ pc[H(a)] = "idle" /\ \A t \in Threads \ {H(a)} : pc'[t] = pc[t]
        /\ conns' = conns
    BY <2>1 DEF Dispatch, RegisterCheck, Reject, Proceed, Enter, Goto, Typed
  <2>3. a = q
    BY <1>2, <2>2, Goroutines, Distinct
  <2>4. CASE Reject(a)
    <3>1. pc'[H(a)] = "done"
      BY <2>4, Goroutines DEF Reject, Goto, Typed
    <3>2. \A t \in {G(a), A(a), C(a)} : pc'[t] = "idle"
      BY <2>2, Goroutines, Distinct DEF SpawnsOnce, Before
    <3>3. Over(a)'
      BY <3>1, <3>2 DEF Over
    <3>4. \A k \in Keys : conns'[k] # a
      BY <2>2 DEF KeptOK
    <3> QED BY <1>2, <2>3, <3>3, <3>4 DEF Gone
  <2>5. CASE clash' = clash \cup Clashes(a)
    <3> DEFINE b == IF a = r THEN s ELSE r
    <3>1. b # a /\ b \in Requests /\ req[b].id = req[a].id /\ {a, b} = {r, s}
      BY <1>2, <2>3
    <3>2. pc[H(b)] # "idle"
      BY <2>2, <3>1, Goroutines, Distinct
    <3>3. Finished(b)
      <4>1. ~Finished(b) => a \in Clashes(a) /\ b \in Clashes(a)
        BY <3>1, <3>2 DEF Clashes
      <4> QED BY <2>5, <3>1, <4>1
    <3>4. Gone(b)
      BY <3>1, <3>3, FinishedIsOver DEF Finished, Gone
    <3> QED BY <1>0, <3>1, <3>4 DEF Gone
  <2> QED BY <2>1, <2>4, <2>5 DEF Dispatch, RegisterCheck
<1> QED BY <1>1, <1>2

(* What a step does to a handler that upgrades its registration.           *)
LEMMA Upgrading ==
    ASSUME Typed, Next, NEW r \in Requests
    PROVE  /\ pc'[H(r)] = "read" => pc[H(r)] = "read" \/ RegisterWrite(r)
           /\ pc'[H(r)] \in {"exist", "move"} =>
                 (pc[H(r)] \in {"exist", "move"} /\ got'[H(r)] = got[H(r)]) \/ UpgradeRead(r)
<1> DEFINE Goal == /\ pc'[H(r)] = "read" => pc[H(r)] = "read" \/ RegisterWrite(r)
                   /\ pc'[H(r)] \in {"exist", "move"} =>
                         (pc[H(r)] \in {"exist", "move"} /\ got'[H(r)] = got[H(r)]) \/ UpgradeRead(r)
           U == {"read", "exist", "move"}
<1>0. \A q \in Requests : /\ H(q) \in Threads /\ G(q) \in Threads
                           /\ A(q) \in Threads /\ C(q) \in Threads
  BY Goroutines
<1>1. ASSUME NEW q \in Requests, RegisterWrite(q) \/ UpgradeRead(q) \/ UpgradeCheck(q) \/ UpgradeMove(q)
      PROVE  Goal
  <2>1. CASE q # r
    <3>1. pc'[H(r)] = pc[H(r)] /\ got'[H(r)] = got[H(r)]
      <4>1. /\ \E l : Goto(H(q), l)
            /\ got' = got \/ \E v : got' = [got EXCEPT ![H(q)] = v]
        BY <1>1
        DEF RegisterWrite, UpgradeRead, UpgradeCheck, UpgradeMove, Proceed, Refuse, Enter
      <4> QED BY SMTT(20), <1>0, <2>1, <4>1, Distinct DEF Goto, Typed
    <3> QED BY <3>1
  <2>2. CASE q = r
    <3>1. UpgradeMove(r) => pc'[H(r)] \notin U
      BY SMTT(20), <1>0 DEF UpgradeMove, Proceed, Refuse, Enter, Goto, Typed
    <3>2. RegisterWrite(r) => pc'[H(r)] \notin {"exist", "move"}
      BY <1>0 DEF RegisterWrite, Proceed, Refuse, Enter, Goto, Typed
    <3>3. UpgradeRead(r) => pc'[H(r)] = "exist"
      BY <1>0 DEF UpgradeRead, Goto, Typed
    <3>4. UpgradeCheck(r) => pc[H(r)] = "exist" /\ pc'[H(r)] = "move" /\ got' = got
      BY <1>0 DEF UpgradeCheck, Goto, Typed
    <3> QED BY <1>1, <2>2, <3>1, <3>2, <3>3, <3>4
  <2> QED BY <2>1, <2>2
<1>2. ASSUME NEW q \in Requests,
             \/ Dispatch(q) \/ RegisterCheck(q) \/ Reject(q)
             \/ SendDirect(q) \/ UnregisterChannel(q) \/ Crash(q)
             \/ CallTimeOutProtocol(q) \/ CallRegisterChannel(q) \/ Produce(q) \/ ReceiveResult(q)
             \/ PublishOrder(q) \/ PublishCancelAll(q)
             \/ ArmTimeout(q) \/ EvalTimeout(q) \/ Expire(q) \/ DeleteTimeout(q)
             \/ PollResult(q) \/ ContextDone(q) \/ ClearResult(q)
      PROVE  Goal
  <2>1. /\ UNCHANGED pc \/ \E l \in Labels \ U, u \in Threads : Goto(u, l)
        /\ got' = got
    BY <1>0, <1>2
    DEF Dispatch, RegisterCheck, Reject, SendDirect, UnregisterChannel, Crash,
        CallTimeOutProtocol, CallRegisterChannel, Produce, ReceiveResult, PublishOrder,
        PublishCancelAll, ArmTimeout, EvalTimeout, Expire, DeleteTimeout, PollResult, ContextDone,
        ClearResult, Proceed, Enter, locals, shared, Labels
  <2> QED BY <1>0, <2>1 DEF Goto, Typed
<1>3. ASSUME NEW u \in Threads,
             \/ GetProtocol(u) \/ DoSend(u) \/ PeekTimeout(u) \/ AimTimeout(u)
             \/ UnregisterProtocol(u) \/ ConcurrentMapAccess(u) \/ handleTopicCancelledOrders(u)
      PROVE  Goal
  <2>1. /\ \E l \in Labels \ U : Goto(u, l)
        /\ \A v \in Threads \ {u} : got'[v] = got[v]
    BY <1>3 DEF GetProtocol, DoSend, PeekTimeout, AimTimeout, UnregisterProtocol, locals, shared,
                ConcurrentMapAccess, handleTopicCancelledOrders, Ret, Labels, Typed
  <2> QED BY <1>0, <2>1 DEF Goto, Typed
<1>4. ASSUME NEW u \in Threads, NEW q \in Requests, SignalTimeout(u, q)
      PROVE  Goal
  <2>1. /\ got' = got /\ pc'[u] \in {"free", "disarm"} /\ pc'[G(q)] = "disarm"
        /\ \A v \in Threads \ {u, G(q)} : pc'[v] = pc[v]
    BY <1>0, <1>4 DEF SignalTimeout, Typed
  <2> QED BY <1>0, <2>1
<1>5. ASSUME NEW c \in Clients, Disconnect(c)
      PROVE  Goal
  BY <1>5 DEF Disconnect, locals
<1> HIDE DEF Goal
<1>6. Goal
  BY <1>1, <1>2, <1>3, <1>4, <1>5 DEF Next, Environment, HandlerStep, SpawnedStep, SendStep
<1> QED BY <1>6 DEF Goal

(* Where goroutines hold a request, and UpgradeProtocol finds it.          *)
LEMMA HoldersKept ==
    ASSUME Typed, SpawnsOnce, SameId, KeptOK, Next, req' = req,
           NEW r \in Requests \ clash', clash \subseteq clash'
    PROVE  /\ \A t \in Threads : got'[t] = r => t[2] = r
           /\ pc'[H(r)] = "read" => conns'[AnonKey(r)] = r
           /\ pc'[H(r)] \in {"exist", "move"} => got'[H(r)] = r
           /\ pc'[H(r)] \in {"read", "exist", "move"} => req[r].user # NoUser
<1>0. \A q \in Requests : H(q) \in Threads /\ H(q)[2] = q /\ AnonKey(q) \in Keys /\ UserKey(q) \in Keys
  BY Goroutines, Distinct, KeysOfRequest
(* Whoever finds r under its key is a goroutine of r's. *)
<1>1. ASSUME NEW t \in Threads, NEW k \in Keys, conns[k] = r, req[t[2]].id = k[1],
             pc[t] \notin Ends, pc[H(t[2])] # "idle",
             pc[H(t[2])] = "run" /\ t[1] = "h" => script[t[2]] # <<>>
      PROVE  t[2] = r
  <2> DEFINE s == t[2]
  <2>1. s \in Requests /\ t \in OwnThreads(s)
    BY Owner, IsOneOf DEF OwnThreads
  <2>2. req[r].id = req[s].id /\ pc[H(r)] # "idle"
    BY <1>1 DEF SameId, KeptOK
  <2>3. ~Over(s)
    BY <1>1, <2>1 DEF OwnThreads, Over, Ends, H
  <2> QED BY <1>1, <2>1, <2>2, <2>3 DEF KeptOK, Gone
<1>2. ASSUME NEW t \in Threads, got'[t] = r
      PROVE  t[2] = r
  <2>1. CASE got'[t] = got[t]
    BY <1>2, <2>1 DEF KeptOK
  <2>2. ASSUME NEW q \in Requests, UpgradeRead(q), got'[t] # got[t]
        PROVE  t[2] = r
    <3>1. t = H(q) /\ conns[AnonKey(q)] = r /\ pc[t] = "read"
      <4> DEFINE v == IF conns[AnonKey(q)] = Absent THEN Zero ELSE conns[AnonKey(q)]
      <4>1. got' = [got EXCEPT ![H(q)] = v] /\ pc[H(q)] = "read"
        BY <2>2 DEF UpgradeRead
      <4> HIDE DEF v
      <4>2. t = H(q) /\ v = r
        BY <1>2, <2>2, <4>1 DEF Typed
      <4> QED BY <4>1, <4>2, ConstantsOK DEF v
    <3> QED BY <1>0, <1>1, <3>1, KeysOfRequest DEF Ends
  <2>3. ASSUME NEW u \in Threads, GetProtocol(u), got'[t] # got[t]
        PROVE  t[2] = r
    <3>1. t = u /\ KeyOf(t) # NoKey /\ conns[KeyOf(t)] = r
      <4> DEFINE v == IF KeyOf(u) = NoKey THEN Absent ELSE conns[KeyOf(u)]
      <4>1. got' = got \/ got' = [got EXCEPT ![u] = v]
        BY <2>3 DEF GetProtocol
      <4> HIDE DEF v
      <4>2. t = u /\ v = r
        BY <1>2, <2>3, <4>1 DEF Typed
      <4> QED BY <4>2, ConstantsOK DEF v
    <3>2. KeyOf(t) \in Keys /\ KeyOf(t)[1] = req[t[2]].id
      BY <3>1, KeyId
    <3>3. CASE t[1] = "h"
      <4>1. Calls(t[2], "key") /\ t = H(t[2])
        BY <2>3, <3>1, <3>3 DEF GetProtocol, H, Threads
      <4> QED BY <1>1, <3>1, <3>2, <4>1 DEF Calls, Ends
    <3>4. CASE t[1] # "h"
      <4>1. pc[t] = "get" /\ t \in {G(t[2]), A(t[2]), C(t[2])} /\ t[2] \in Requests
        BY <2>3, <3>1, <3>4, IsOneOf, Owner DEF GetProtocol, H
      <4>2. pc[H(t[2])] # "idle"
        BY <4>1 DEF SpawnsOnce, Before
      <4> QED BY <1>1, <3>1, <3>2, <3>4, <4>1, <4>2 DEF Ends
    <3> QED BY <3>3, <3>4
  <2>4. ASSUME NEW q \in Requests, UpgradeMove(q)
        PROVE  got'[t] = got[t]
    BY <1>2, <2>4, ConstantsOK DEF UpgradeMove, Typed
  <2>5. ASSUME NEW u \in Threads, UnregisterProtocol(u)
        PROVE  got'[t] = got[t]
    BY <1>2, <2>5, ConstantsOK DEF UnregisterProtocol, Typed
  <2>6. got' = got => got'[t] = got[t]
    OBVIOUS
  <2> QED
    BY <2>1, <2>2, <2>3, <2>4, <2>5, <2>6
    DEF Next, Environment, HandlerStep, SpawnedStep, SendStep, locals, RegisterWrite,
       UpgradeCheck, SendDirect, UnregisterChannel, Crash,
       CallTimeOutProtocol, CallRegisterChannel, Produce, ReceiveResult, PublishOrder,
       PublishCancelAll, ArmTimeout, EvalTimeout, Expire, DeleteTimeout, PollResult, ContextDone,
       ClearResult, DoSend, PeekTimeout, AimTimeout,
       ConcurrentMapAccess, handleTopicCancelledOrders, SignalTimeout, Disconnect, Dispatch,
       RegisterCheck, Reject
<1>3. ASSUME pc'[H(r)] = "read"
      PROVE  conns'[AnonKey(r)] = r /\ req[r].user # NoUser
  <2>1. CASE RegisterWrite(r)
    <3>1. conns'[AnonKey(r)] = r
      BY <1>0, <2>1 DEF RegisterWrite, Typed
    <3>2. Proceed(r, AnonKey(r)) \/ Refuse(r, AnonKey(r)) \/ Refuse(r, NoKey) => pc'[H(r)] = "run"
      BY <1>0 DEF Proceed, Refuse, Enter, Goto, Typed
    <3> QED BY <1>3, <2>1, <3>1, <3>2 DEF RegisterWrite
  <2>2. CASE pc[H(r)] = "read"
    <3>1. conns[AnonKey(r)] = r /\ req[r].user # NoUser
      BY <2>2 DEF KeptOK
    <3>2. ~UpgradeMove(r) /\ \A t \in OwnThreads(r) : ~UnregisterProtocol(t)
      BY <2>2 DEF UpgradeMove, UnregisterProtocol, OwnThreads, SpawnsOnce, Before
    <3> QED BY <1>0, <3>1, <3>2, EntriesChange
  <2> QED BY <1>3, <2>1, <2>2, Upgrading
<1>4. ASSUME pc'[H(r)] \in {"exist", "move"}
      PROVE  got'[H(r)] = r /\ req[r].user # NoUser
  <2>1. CASE UpgradeRead(r)
    <3>1. conns[AnonKey(r)] = r /\ req[r].user # NoUser
      BY <2>1 DEF UpgradeRead, KeptOK
    <3> QED BY <1>0, <2>1, <3>1, ConstantsOK DEF UpgradeRead, Typed
  <2>2. CASE pc[H(r)] \in {"exist", "move"} /\ got'[H(r)] = got[H(r)]
    BY <2>2 DEF KeptOK
  <2> QED BY <1>4, <2>1, <2>2, Upgrading
<1> QED BY <1>2, <1>3, <1>4
(* A goroutine of r in doSend has r's connection, if its key still is r's. *)
LEMMA SendersKept ==
    ASSUME Typed, SpawnsOnce, SameId, KeptOK, Next, req' = req,
           NEW r \in Requests \ clash, NEW t \in OwnThreads(r),
           pc'[t] \in {"send"} \cup Sent, (KeyOf(t) # NoKey /\ conns[KeyOf(t)] = r)'
    PROVE  /\ pc'[t] = "send" => got'[t] = r
           /\ pc'[t] \in Sent => Answered(r)' \/ req[r].handler.proto = "channel"
<1>1. t \in Threads /\ t[2] = r
  BY Goroutines, Distinct DEF OwnThreads
<1>2. pc[t] \in {"send"} \cup Sent \/ GetProtocol(t)
  BY <1>1, Sending DEF DoSend
<1>3. pc[H(r)] \notin Before
  <2>1. CASE t[1] = "h"
    <3>1. t = H(r)
      BY <1>1, <2>1, Owner, IsOneOf DEF H, G, A, C
    <3> QED BY <1>2, <2>1, <3>1, <1>1 DEF Before, Sent, GetProtocol, Calls
  <2>2. CASE t[1] # "h"
    <3>1. t \in {G(r), A(r), C(r)} /\ pc[t] # "idle"
      BY <1>2, <2>2 DEF OwnThreads, H, GetProtocol, Sent
    <3> QED BY <3>1 DEF SpawnsOnce
  <2> QED BY <2>1, <2>2
<1>4. KeyOf(t)' = KeyOf(t)
  BY <1>1, <1>3, Lasting DEF KeyOf, UserKey
<1>5. KeyOf(t) \in Keys /\ KeyOf(t) # NoKey
  BY <1>1, <1>4, KeyOfGoroutine
<1>6. conns[KeyOf(t)] = r
  BY <1>3, <1>4, <1>5, EntriesChange DEF Before
<1>7. ASSUME pc'[t] = "send" PROVE got'[t] = r
  <2>1. CASE pc[t] = "send" /\ got'[t] = got[t]
    BY <1>5, <1>6, <2>1 DEF KeptOK
  <2>2. CASE GetProtocol(t)
    BY <1>1, <1>5, <1>6, <1>7, <2>2, ConstantsOK DEF GetProtocol, Typed
  <2> QED BY <1>1, <1>7, <2>1, <2>2, Sending
<1>8. ASSUME pc'[t] \in Sent PROVE Answered(r)' \/ req[r].handler.proto = "channel"
  <2>1. CASE pc[t] \in Sent
    BY <1>5, <1>6, <2>1, Lasting DEF KeptOK
  <2>2. CASE DoSend(t)
    <3>1. got[t] = r
      BY <1>5, <1>6, <2>2 DEF KeptOK, DoSend
    <3>2. Answer(r, t) => answers'[r][t] > 0
      <4>1. ASSUME Answer(r, t) PROVE answers'[r][t] = answers[r][t] + 1 /\ answers[r][t] \in Nat
        BY <1>1, <4>1 DEF Answer, Typed
      <4> QED BY <4>1
    <3> QED BY <1>1, <2>2, <3>1, <3>2 DEF DoSend, Answered
  <2> QED BY <1>1, <1>8, <2>1, <2>2, Sending
<1> QED BY <1>7, <1>8

(* A request that is registered, or held, has arrived.                     *)
LEMMA StartedKept ==
    ASSUME Typed, KeptOK, Next, NEW r \in Requests
    PROVE  /\ \A k \in Keys : conns'[k] = r => pc'[H(r)] # "idle"
           /\ \A t \in Threads : got'[t] = r => pc'[H(r)] # "idle"
<1>0. /\ \A q \in Requests : H(q) \in Threads /\ AnonKey(q) \in Keys /\ UserKey(q) \in Keys
      /\ r # Absent /\ r # Zero
  BY Goroutines, KeysOfRequest, ConstantsOK
<1>1. pc[H(r)] # "idle" => pc'[H(r)] # "idle"
  <2>1. ASSUME NEW q \in Requests,
               \/ Dispatch(q) \/ RegisterCheck(q) \/ Reject(q) \/ RegisterWrite(q)
               \/ UpgradeRead(q) \/ UpgradeCheck(q) \/ UpgradeMove(q)
               \/ SendDirect(q) \/ UnregisterChannel(q) \/ Crash(q)
               \/ CallTimeOutProtocol(q) \/ CallRegisterChannel(q) \/ Produce(q) \/ ReceiveResult(q)
               \/ PublishOrder(q) \/ PublishCancelAll(q)
               \/ ArmTimeout(q) \/ EvalTimeout(q) \/ Expire(q) \/ DeleteTimeout(q)
               \/ PollResult(q) \/ ContextDone(q) \/ ClearResult(q)
        PROVE  UNCHANGED pc \/ \E u, l : Goto(u, l) /\ l # "idle"
    BY <2>1 DEF Dispatch, RegisterCheck, Reject, RegisterWrite, UpgradeRead, UpgradeCheck,
        UpgradeMove, SendDirect, UnregisterChannel, Crash, CallTimeOutProtocol,
        CallRegisterChannel, Produce, ReceiveResult, PublishOrder, PublishCancelAll, ArmTimeout,
        EvalTimeout, Expire, DeleteTimeout, PollResult, ContextDone, ClearResult, Proceed, Refuse,
        Enter
  <2>2. ASSUME NEW t \in Threads,
               \/ GetProtocol(t) \/ DoSend(t) \/ PeekTimeout(t) \/ AimTimeout(t)
               \/ UnregisterProtocol(t) \/ ConcurrentMapAccess(t) \/ handleTopicCancelledOrders(t)
        PROVE  \E u, l : Goto(u, l) /\ l # "idle"
    BY <2>2 DEF GetProtocol, DoSend, PeekTimeout, AimTimeout, UnregisterProtocol,
                ConcurrentMapAccess, handleTopicCancelledOrders, Ret
  <2>3. (\E u, l : Goto(u, l) /\ l # "idle") => (pc[H(r)] # "idle" => pc'[H(r)] # "idle")
    BY <1>0 DEF Goto, Typed
  <2>4. (\E t \in Threads, q \in Requests : SignalTimeout(t, q)) => (pc[H(r)] # "idle" => pc'[H(r)] # "idle")
    BY <1>0 DEF SignalTimeout, Typed
  <2> QED
    BY <2>1, <2>2, <2>3, <2>4
    DEF Next, Environment, HandlerStep, SpawnedStep, SendStep, Disconnect
<1>2. ASSUME NEW k \in Keys, conns'[k] = r
      PROVE  pc[H(r)] # "idle"
  <2>1. CASE conns[k] = r
    BY <2>1 DEF KeptOK
  <2>2. ASSUME NEW q \in Requests, RegisterWrite(q), conns[k] # r
        PROVE  pc[H(r)] # "idle"
    BY <1>0, <1>2, <2>2 DEF RegisterWrite, Typed
  <2>3. ASSUME NEW q \in Requests, UpgradeMove(q), conns[k] # r
        PROVE  pc[H(r)] # "idle"
    <3>1. got[H(q)] = r
      BY <1>0, <1>2, <2>3 DEF UpgradeMove, Typed
    <3> QED BY <1>0, <3>1 DEF KeptOK
  <2>4. ASSUME NEW t \in Threads, UnregisterProtocol(t)
        PROVE  conns[k] = r
    BY <1>0, <1>2, <2>4 DEF UnregisterProtocol, Typed
  <2>5. conns' = conns => conns[k] = r
    BY <1>2
  <2> QED
    BY <2>1, <2>2, <2>3, <2>4, <2>5
    DEF Next, Environment, HandlerStep, SpawnedStep, SendStep, shared,
       UpgradeRead, UpgradeCheck, SendDirect, UnregisterChannel, Crash,
       CallTimeOutProtocol, CallRegisterChannel, Produce, ReceiveResult, PublishOrder,
       PublishCancelAll, ArmTimeout, EvalTimeout, Expire, DeleteTimeout, PollResult, ContextDone,
       ClearResult, GetProtocol, DoSend, PeekTimeout, AimTimeout,
       ConcurrentMapAccess, handleTopicCancelledOrders, SignalTimeout, Disconnect, Dispatch,
       RegisterCheck, Reject
<1>3. ASSUME NEW t \in Threads, got'[t] = r
      PROVE  pc[H(r)] # "idle"
  <2>1. CASE got[t] = r
    BY <2>1 DEF KeptOK
  <2>2. ASSUME NEW q \in Requests, UpgradeRead(q), got[t] # r
        PROVE  pc[H(r)] # "idle"
    <3>1. conns[AnonKey(q)] = r
      BY <1>0, <1>3, <2>2 DEF UpgradeRead, Typed
    <3> QED BY <1>0, <3>1 DEF KeptOK
  <2>3. ASSUME NEW u \in Threads, GetProtocol(u), got[t] # r
        PROVE  pc[H(r)] # "idle"
    <3> DEFINE v == IF KeyOf(u) = NoKey THEN Absent ELSE conns[KeyOf(u)]
    <3>1. got' = got \/ got' = [got EXCEPT ![u] = v]
      BY <2>3 DEF GetProtocol
    <3> HIDE DEF v
    <3>2. v = r
      BY <1>3, <2>3, <3>1 DEF Typed
    <3>3. KeyOf(u) # NoKey /\ conns[KeyOf(u)] = r
      BY <1>0, <3>2 DEF v
    <3> QED BY <3>3, KeyOfGoroutine DEF KeptOK
  <2>4. (\E q \in Requests : UpgradeMove(q)) \/ (\E u \in Threads : UnregisterProtocol(u)) => got[t] = r
    BY <1>0, <1>3 DEF UpgradeMove, UnregisterProtocol, Typed
  <2>5. got' = got => got[t] = r
    BY <1>3
  <2> QED
    BY <2>1, <2>2, <2>3, <2>4, <2>5
    DEF Next, Environment, HandlerStep, SpawnedStep, SendStep, locals, RegisterWrite,
       UpgradeCheck, SendDirect, UnregisterChannel, Crash,
       CallTimeOutProtocol, CallRegisterChannel, Produce, ReceiveResult, PublishOrder,
       PublishCancelAll, ArmTimeout, EvalTimeout, Expire, DeleteTimeout, PollResult, ContextDone,
       ClearResult, DoSend, PeekTimeout, AimTimeout,
       ConcurrentMapAccess, handleTopicCancelledOrders, SignalTimeout, Disconnect, Dispatch,
       RegisterCheck, Reject
<1> QED BY <1>1, <1>2, <1>3

LEMMA KeptKept ==
    ASSUME Typed, SpawnsOnce, Met, SameId, KeptOK, [Next]_vars
    PROVE  KeptOK'
<1>0. req' = req /\ clash \subseteq clash'
  BY MetKept
<1>1. CASE UNCHANGED vars
  <2>1. UNCHANGED <<req, pc, script, connKey, got, conns, answers, clash>>
    BY <1>1 DEF vars, locals, shared
  <2>2. \A r \in Requests : /\ Over(r)' = Over(r) /\ Gone(r)' = Gone(r) /\ Answered(r)' = Answered(r)
                            /\ AnonKey(r)' = AnonKey(r) /\ OwnThreads(r)' = OwnThreads(r)
    BY <2>1 DEF Gone, Over, CancelledAtEnd, IsWs, Asks, OwnThreads, AnonKey, Answered, H, G, A, C
  <2>3. \A t : KeyOf(t)' = KeyOf(t)
    BY <2>1 DEF KeyOf, UserKey
  <2> QED BY <2>1, <2>2, <2>3 DEF KeptOK
<1>2. CASE Next
  <2>1. ASSUME NEW r \in Requests
        PROVE  /\ \A k \in Keys : conns'[k] = r => pc'[H(r)] # "idle"
               /\ \A t \in Threads : got'[t] = r => pc'[H(r)] # "idle"
    BY <1>2, StartedKept
  <2>3. ASSUME NEW r \in Requests \ clash'
        PROVE  /\ \A s \in Requests \ {r} :
                     req[r].id = req[s].id /\ pc'[H(r)] # "idle" /\ pc'[H(s)] # "idle"
                        => Gone(r)' \/ Over(s)'
               /\ \A t \in Threads : got'[t] = r => t[2] = r
               /\ pc'[H(r)] = "read" => conns'[AnonKey(r)] = r
               /\ pc'[H(r)] \in {"exist", "move"} => got'[H(r)] = r
               /\ pc'[H(r)] \in {"read", "exist", "move"} => req[r].user # NoUser
               /\ \A t \in OwnThreads(r) : (KeyOf(t) # NoKey /\ conns[KeyOf(t)] = r)' =>
                     /\ pc'[t] = "send" => got'[t] = r
                     /\ pc'[t] \in Sent => Answered(r)' \/ req[r].handler.proto = "channel"
    <3>1. r \in Requests \ clash
      BY <1>0
    <3>2. \A s \in Requests \ {r} :
             req[r].id = req[s].id /\ pc'[H(r)] # "idle" /\ pc'[H(s)] # "idle" => Gone(r)' \/ Over(s)'
      BY <1>0, <1>2, MeetingsKept
    <3>3. /\ \A t \in Threads : got'[t] = r => t[2] = r
          /\ pc'[H(r)] = "read" => conns'[AnonKey(r)] = r
          /\ pc'[H(r)] \in {"exist", "move"} => got'[H(r)] = r
          /\ pc'[H(r)] \in {"read", "exist", "move"} => req[r].user # NoUser
      BY <1>0, <1>2, HoldersKept
    <3>4. \A t \in OwnThreads(r) : (KeyOf(t) # NoKey /\ conns[KeyOf(t)] = r)' =>
             /\ pc'[t] = "send" => got'[t] = r
             /\ pc'[t] \in Sent => Answered(r)' \/ req[r].handler.proto = "channel"
      BY <1>0, <1>2, <3>1, SendersKept
    <3> QED BY <3>2, <3>3, <3>4
  <2>4. \A r \in Requests : AnonKey(r)' = AnonKey(r) /\ OwnThreads(r)' = OwnThreads(r) /\ H(r)' = H(r)
    BY <1>0 DEF AnonKey, OwnThreads, H, G, A, C
  <2> QED BY <1>0, <2>1, <2>3, <2>4 DEF KeptOK
<1> QED BY <1>1, <1>2
(* What leaves the registry has been answered.                             *)
LEMMA LeavesAnswered ==
    ASSUME Typed, SpawnsOnce, SameId, KeptOK, Next,
           NEW r \in Requests \ clash, NEW k \in Keys, conns[k] = r, conns'[k] # r
    PROVE  \/ \E l \in Keys : conns'[l] = r
           \/ Answered(r)
           \/ req[r].handler.proto = "channel"
<1>1. CASE UpgradeMove(r)
  <2>1. pc[H(r)] = "move" /\ conns' = [conns EXCEPT ![UserKey(r)] = got[H(r)], ![AnonKey(r)] = Absent]
    BY <1>1 DEF UpgradeMove
  <2>2. got[H(r)] = r /\ req[r].user # NoUser
    BY <2>1 DEF KeptOK
  <2>3. UserKey(r) # AnonKey(r)
    BY <2>2 DEF UserKey, AnonKey
  <2>4. conns'[UserKey(r)] = r
    BY <2>1, <2>2, <2>3, KeysOfRequest DEF Typed
  <2> QED BY <2>4, KeysOfRequest
<1>2. ASSUME NEW t \in OwnThreads(r), UnregisterProtocol(t), k = KeyOf(t)
      PROVE  Answered(r) \/ req[r].handler.proto = "channel"
  <2>1. pc[t] \in Sent /\ KeyOf(t) # NoKey
    BY <1>2, ConstantsOK DEF UnregisterProtocol, Sent
  <2> QED BY <1>2, <2>1 DEF KeptOK
<1> QED BY <1>1, <1>2, EntriesChange

LEMMA KeptAlways == Spec => [](Met /\ KeptOK)
<1>1. Init => Met /\ KeptOK
  <2> SUFFICES ASSUME Init PROVE Met /\ KeptOK
    OBVIOUS
  <2>1. /\ \A t \in Threads : pc[t] = "idle" /\ got[t] = Absent
        /\ \A k \in Keys : conns[k] = Absent
    BY DEF Init
  <2>2. Met
    BY <2>1, Goroutines DEF Met
  <2>3. KeptOK
    BY <2>1, Goroutines, ConstantsOK DEF KeptOK, OwnThreads, Sent
  <2> QED BY <2>2, <2>3
<1>2. Typed /\ SpawnsOnce /\ SameId /\ Met /\ KeptOK /\ [Next]_vars => Met' /\ KeptOK'
  BY MetKept, KeptKept
<1> QED BY <1>1, <1>2, TypesKept, SpawnedOnce, IdsKept, PTL DEF Spec

(* The registration of a request that has met no other with its id is not  *)
(* lost, whatever requests with other ids, or earlier and later ones with  *)
(* the same id, do: it moves, or the peer has been answered.               *)
THEOREM Registered == Spec => NeverDropped
<1>1. Typed /\ SpawnsOnce /\ SameId /\ KeptOK /\ [Next]_vars =>
      [\A r \in Requests, k \in Keys :
          (conns[k] = r /\ conns'[k] # r /\ Alone(r)) =>
              \/ \E l \in Keys : conns'[l] = r
              \/ Answered(r)
              \/ req[r].handler.proto = "channel"]_vars
  BY LeavesAnswered DEF Alone
<1> QED BY <1>1, TypesKept, SpawnedOnce, IdsKept, KeptAlways, PTL DEF Spec, NeverDropped

-----------------------------------------------------------------------------
(* What is left of a script.                                               *)

In(s, T) == \E i \in DOMAIN s : s[i] \in T
AtMostOne(s, T) == \A i, j \in DOMAIN s : s[i] \in T /\ s[j] \in T => i = j

(* A script, or the end of one, of a handler whose connKey is k. *)
Fits(h, k, s) ==
    /\ In(s, {"go"}) => h.proto = "ws"
    /\ In(s, {"chan", "wait"}) => h.proto = "channel"
    /\ AtMostOne(s, Outcomes)
    /\ AtMostOne(s, {"direct", "wait"})
    /\ In(s, Outcomes) /\ k # NoKey => ~In(s, {"key"})
    /\ RepliesOnce(h) => AtMostOne(s, {"key"})

(* The scripts a handler can enter with, and its key then. *)
Entry(h, k, s) ==
    \E lead \in {<<>>, <<"direct">>, <<"key">>}, b \in h.body \cup {<<>>} :
        /\ s = lead \o b
        /\ lead = <<"direct">> => k = NoKey
        /\ lead # <<>> => h.falls \/ b = <<>>

LEMMA RestIn ==
    ASSUME NEW s \in Seq(Token), s # <<>>, NEW T
    PROVE  /\ In(Tail(s), T) => In(s, T)
           /\ AtMostOne(s, T) => AtMostOne(Tail(s), T)
           /\ AtMostOne(s, T) /\ Head(s) \in T => ~In(Tail(s), T)
           /\ Head(s) \in T => In(s, T)
<1>1. 1 \in DOMAIN s /\ Head(s) = s[1]
  OBVIOUS
<1>2. \A i \in DOMAIN Tail(s) : i \in Nat \ {0} /\ i + 1 \in DOMAIN s /\ Tail(s)[i] = s[i + 1]
  BY RestOfScript
<1>3. In(Tail(s), T) => In(s, T)
  BY <1>2 DEF In
<1>4. AtMostOne(s, T) => AtMostOne(Tail(s), T)
  <2> SUFFICES ASSUME AtMostOne(s, T), NEW i \in DOMAIN Tail(s), NEW j \in DOMAIN Tail(s),
                      Tail(s)[i] \in T, Tail(s)[j] \in T
               PROVE  i = j
    BY DEF AtMostOne
  <2>1. i + 1 = j + 1
    BY <1>2 DEF AtMostOne
  <2> QED BY <1>2, <2>1
<1>5. AtMostOne(s, T) /\ Head(s) \in T => ~In(Tail(s), T)
  <2> SUFFICES ASSUME AtMostOne(s, T), s[1] \in T, NEW i \in DOMAIN Tail(s), Tail(s)[i] \in T
               PROVE  FALSE
    BY <1>1 DEF In
  <2>1. i + 1 = 1
    BY <1>1, <1>2 DEF AtMostOne
  <2> QED BY <1>2, <2>1
<1>6. Head(s) \in T => In(s, T)
  BY <1>1 DEF In
<1> QED BY <1>3, <1>4, <1>5, <1>6

(* What is left after a call fits, if the script did. *)
LEMMA RestFits ==
    ASSUME NEW h, NEW k, NEW s \in Seq(Token), s # <<>>, Fits(h, k, s)
    PROVE  Fits(h, k, Tail(s))
BY RestIn DEF Fits

LEMMA LeadIn ==
    ASSUME NEW x \in Token, NEW b \in Seq(Token), NEW T
    PROVE  /\ In(<<x>> \o b, T) <=> x \in T \/ In(b, T)
           /\ AtMostOne(b, T) /\ (x \notin T \/ ~In(b, T)) => AtMostOne(<<x>> \o b, T)
<1> DEFINE s == <<x>> \o b
<1>1. /\ s \in Seq(Token) /\ Len(s) = Len(b) + 1 /\ s[1] = x
      /\ \A i \in 1..Len(b) : s[i + 1] = b[i]
      /\ DOMAIN s = 1..(Len(b) + 1) /\ DOMAIN b = 1..Len(b) /\ Len(b) \in Nat
  OBVIOUS
<1> HIDE DEF s
<1>2. \A i \in DOMAIN s : i = 1 \/ (i - 1 \in DOMAIN b /\ s[i] = b[i - 1])
  <2> TAKE i \in DOMAIN s
  <2> SUFFICES ASSUME i # 1 PROVE i - 1 \in DOMAIN b /\ s[i] = b[i - 1]
    OBVIOUS
  <2>1. i - 1 \in 1..Len(b) /\ (i - 1) + 1 = i
    BY <1>1
  <2> QED BY <1>1, <2>1
<1>3. In(s, T) <=> x \in T \/ In(b, T)
  <2>1. ASSUME NEW i \in DOMAIN b, b[i] \in T PROVE In(s, T)
    <3>1. i + 1 \in DOMAIN s /\ s[i + 1] = b[i]
      BY <1>1
    <3> QED BY <2>1, <3>1 DEF In
  <2>2. x \in T => In(s, T)
    BY <1>1 DEF In
  <2> QED BY <1>1, <1>2, <2>1, <2>2 DEF In
<1>4. AtMostOne(b, T) /\ (x \notin T \/ ~In(b, T)) => AtMostOne(s, T)
  <2> SUFFICES ASSUME AtMostOne(b, T), x \notin T \/ ~In(b, T),
                      NEW i \in DOMAIN s, NEW j \in DOMAIN s, s[i] \in T, s[j] \in T
               PROVE  i = j
    BY DEF AtMostOne
  <2>1. CASE i = 1 \/ j = 1
    BY <1>1, <1>2, <2>1 DEF In
  <2>2. CASE i # 1 /\ j # 1
    <3>1. i - 1 = j - 1
      BY <1>2, <2>2 DEF AtMostOne
    <3> QED BY <1>1, <3>1
  <2> QED BY <2>1, <2>2
<1> QED BY <1>3, <1>4 DEF s

(* A handler enters with a script that fits. *)
LEMMA EntryFits ==
    ASSUME NEW h \in Handlers, NEW k \in Keys \cup {NoKey}, NEW s, Entry(h, k, s)
    PROVE  Fits(h, k, s)
<1>1. PICK lead \in {<<>>, <<"direct">>, <<"key">>}, b \in h.body \cup {<<>>} :
         /\ s = lead \o b
         /\ lead = <<"direct">> => k = NoKey
         /\ lead # <<>> => h.falls \/ b = <<>>
  BY DEF Entry
<1>2. b \in Seq(Token) /\ "direct" \in Token /\ "key" \in Token
  <2>1. "direct" \in Token /\ "key" \in Token
    BY DEF Token
  <2>2. h.body \in SUBSET Seq(Token)
    BY ConstantsOK DEF Handler
  <2>3. <<>> \in Seq(Token)
    OBVIOUS
  <2> QED BY <1>1, <2>1, <2>2, <2>3
<1>3. /\ In(b, {"go"}) => h.proto = "ws"
      /\ In(b, {"chan", "wait"}) => h.proto = "channel"
      /\ AtMostOne(b, Outcomes)
      /\ AtMostOne(b, {"direct", "wait"})
      /\ In(b, Outcomes) => ~In(b, {"key"})
      /\ In(b, Outcomes \cup {"wait"}) => ~h.falls
      /\ RepliesOnce(h) => AtMostOne(b, {"key"})
  <2>1. CASE b \in h.body
    <3>1. \A i, j \in DOMAIN b :
            /\ b[i] \in Outcomes /\ b[j] \in Outcomes \cup {"key"} => i = j
            /\ {b[i], b[j]} \subseteq {"direct", "wait"} => i = j
            /\ b[i] \in Outcomes \cup {"wait"} => ~h.falls
            /\ b[i] = "go" => h.proto = "ws"
            /\ b[i] \in {"chan", "wait"} => h.proto = "channel"
      BY <2>1, ScriptsOK
    <3>2. "key" \notin Outcomes
      BY DEF Outcomes
    <3>3. RepliesOnce(h) => AtMostOne(b, {"key"})
      BY <2>1 DEF RepliesOnce, AtMostOne
    <3>4. In(b, Outcomes) => ~In(b, {"key"})
      BY <3>1, <3>2 DEF In
    <3>5. AtMostOne(b, {"direct", "wait"})
      BY <3>1 DEF AtMostOne
    <3> QED BY <3>1, <3>3, <3>4, <3>5 DEF In, AtMostOne
  <2>2. CASE b = <<>>
    BY <2>2 DEF In, AtMostOne
  <2> QED BY <2>1, <2>2
<1>4. CASE lead = <<>>
  <2>1. s = b
    BY <1>1, <1>2, <1>4
  <2> QED BY <1>3, <2>1 DEF Fits
<1>5. CASE lead = <<"direct">>
  <2>1. \A T : /\ In(s, T) <=> "direct" \in T \/ In(b, T)
               /\ AtMostOne(b, T) /\ ("direct" \notin T \/ ~In(b, T)) => AtMostOne(s, T)
    BY <1>1, <1>2, <1>5, LeadIn
  <2>2. ~In(b, Outcomes) /\ ~In(b, {"direct", "wait"})
    <3>1. ~In(b, Outcomes \cup {"wait"})
      <4>1. CASE b = <<>>
        BY <4>1 DEF In
      <4>2. CASE h.falls
        BY <1>3, <4>2
      <4> QED BY <1>1, <1>5, <4>1, <4>2
    <3> QED BY <3>1 DEF In, Outcomes
  <2>3. k = NoKey
    BY <1>1, <1>5
  <2> QED BY <1>3, <2>1, <2>2, <2>3 DEF Fits
<1>6. CASE lead = <<"key">>
  <2>1. \A T : /\ In(s, T) <=> "key" \in T \/ In(b, T)
               /\ AtMostOne(b, T) /\ ("key" \notin T \/ ~In(b, T)) => AtMostOne(s, T)
    BY <1>1, <1>2, <1>6, LeadIn
  <2>2. ~In(b, Outcomes)
    <3>1. ~In(b, Outcomes \cup {"wait"})
      <4>1. CASE b = <<>>
        BY <4>1 DEF In
      <4>2. CASE h.falls
        BY <1>3, <4>2
      <4> QED BY <1>1, <1>6, <4>1, <4>2
    <3> QED BY <3>1 DEF In
  <2>3. "key" \notin Outcomes
    BY DEF Outcomes
  <2>4. RepliesOnce(h) => b = <<>>
    BY <1>1, <1>6 DEF RepliesOnce
  <2>5. RepliesOnce(h) => ~In(b, {"key"})
    BY <2>4 DEF In
  <2> QED BY <1>3, <2>1, <2>2, <2>3, <2>5 DEF Fits
<1> QED BY <1>1, <1>4, <1>5, <1>6

-----------------------------------------------------------------------------
(* What a step does to the handler of a request, ...                       *)
LEMMA EntersWith ==
    ASSUME Typed, NEW r \in Requests, NEW k \in Keys \cup {NoKey}, Proceed(r, k) \/ Refuse(r, k)
    PROVE  /\ connKey'[r] = k /\ Entry(req[r].handler, k, script'[r])
           /\ Goto(H(r), "run") /\ pc'[H(r)] = "run"
           /\ \A s \in Requests \ {r} : script'[s] = script[s] /\ connKey'[s] = connKey[s]
<1>1. CASE Proceed(r, k)
  <2>1. PICK b \in req[r].handler.body : script' = [script EXCEPT ![r] = <<>> \o b]
    BY <1>1 DEF Proceed, Enter
  <2>2. connKey' = [connKey EXCEPT ![r] = k] /\ Goto(H(r), "run")
    BY <1>1 DEF Proceed, Enter
  <2>3. script'[r] = <<>> \o b
    BY <2>1 DEF Typed
  <2>4. Entry(req[r].handler, k, script'[r])
    BY <2>3 DEF Entry
  <2>5. pc'[H(r)] = "run"
    BY <2>2, Goroutines DEF Goto, Typed
  <2> QED BY <2>1, <2>2, <2>4, <2>5 DEF Typed
<1>2. CASE Refuse(r, k)
  <2> DEFINE lead == IF k = NoKey /\ req[r].handler.dup = "direct"
                     THEN <<"direct">> ELSE <<"key">>
             rest == IF req[r].handler.falls THEN req[r].handler.body ELSE {<<>>}
  <2>0. Enter(r, k, lead, rest)
    BY <1>2 DEF Refuse
  <2>1. PICK b \in rest : script' = [script EXCEPT ![r] = lead \o b]
    BY <2>0 DEF Enter
  <2>2. connKey' = [connKey EXCEPT ![r] = k] /\ Goto(H(r), "run")
    BY <2>0 DEF Enter
  <2>3. script'[r] = lead \o b
    BY <2>1 DEF Typed
  <2>4. Entry(req[r].handler, k, script'[r])
    <3>1. lead \in {<<>>, <<"direct">>, <<"key">>} /\ (lead = <<"direct">> => k = NoKey)
      OBVIOUS
    <3>2. b \in req[r].handler.body \cup {<<>>} /\ (req[r].handler.falls \/ b = <<>>)
      OBVIOUS
    <3> HIDE DEF lead, rest
    <3> QED BY <2>3, <3>1, <3>2 DEF Entry
  <2>5. pc'[H(r)] = "run"
    BY <2>2, Goroutines DEF Goto, Typed
  <2> HIDE DEF lead
  <2> QED BY <2>1, <2>2, <2>4, <2>5 DEF Typed
<1> QED BY <1>1, <1>2

LEMMA HandlerMoves ==
    ASSUME Typed, Next, NEW r \in Requests
    PROVE  \/ pc'[H(r)] = pc[H(r)] /\ script'[r] = script[r] /\ connKey'[r] = connKey[r]
           \/ /\ pc[H(r)] \in Before /\ pc'[H(r)] \in (Before \ {"idle"}) \cup {"done"}
              /\ script'[r] = script[r] /\ connKey'[r] = connKey[r]
           \/ /\ pc[H(r)] \in Before /\ pc'[H(r)] = "run" /\ connKey'[r] \in Keys \cup {NoKey}
              /\ Entry(req[r].handler, connKey'[r], script'[r])
           \/ /\ \E token \in Token \ {"key"} : Calls(r, token)
              /\ pc'[H(r)] \in {"run", "panic"} /\ connKey'[r] = connKey[r]
           \/ /\ Calls(r, "key") /\ pc'[H(r)] \in {"run", "aborted", "panic", "send"}
              /\ connKey'[r] = connKey[r] /\ (pc'[H(r)] # "run" => connKey[r] # NoKey)
           \/ /\ pc[H(r)] \in {"send"} \cup Sent /\ pc'[H(r)] \in Sent \cup {"run", "panic"}
              /\ script'[r] = script[r] /\ connKey'[r] = connKey[r]
           \/ pc[H(r)] \in {"cancelled", "eval"}
<1> DEFINE Goal ==
           \/ pc'[H(r)] = pc[H(r)] /\ script'[r] = script[r] /\ connKey'[r] = connKey[r]
           \/ /\ pc[H(r)] \in Before /\ pc'[H(r)] \in (Before \ {"idle"}) \cup {"done"}
              /\ script'[r] = script[r] /\ connKey'[r] = connKey[r]
           \/ /\ pc[H(r)] \in Before /\ pc'[H(r)] = "run" /\ connKey'[r] \in Keys \cup {NoKey}
              /\ Entry(req[r].handler, connKey'[r], script'[r])
           \/ /\ \E token \in Token \ {"key"} : Calls(r, token)
              /\ pc'[H(r)] \in {"run", "panic"} /\ connKey'[r] = connKey[r]
           \/ /\ Calls(r, "key") /\ pc'[H(r)] \in {"run", "aborted", "panic", "send"}
              /\ connKey'[r] = connKey[r] /\ (pc'[H(r)] # "run" => connKey[r] # NoKey)
           \/ /\ pc[H(r)] \in {"send"} \cup Sent /\ pc'[H(r)] \in Sent \cup {"run", "panic"}
              /\ script'[r] = script[r] /\ connKey'[r] = connKey[r]
           \/ pc[H(r)] \in {"cancelled", "eval"}
<1>0. /\ \A q \in Requests : /\ H(q) \in Threads /\ G(q) \in Threads
                              /\ A(q) \in Threads /\ C(q) \in Threads
                              /\ H(q) # G(r) /\ G(q) # H(r) /\ A(q) # H(r) /\ C(q) # H(r)
                              /\ (q # r => H(q) # H(r))
      /\ \A t \in Threads : t[1] = "h" => t[2] \in Requests /\ t = H(t[2])
  BY Goroutines, Distinct DEF H, Threads
<1>1. ASSUME NEW q \in Requests,
             \/ Dispatch(q) \/ RegisterCheck(q) \/ Reject(q) \/ RegisterWrite(q)
             \/ UpgradeRead(q) \/ UpgradeCheck(q) \/ UpgradeMove(q)
      PROVE  Goal
  <2>1. /\ pc[H(q)] \in Before
        /\ \/ /\ \E k \in Keys \cup {NoKey} : Proceed(q, k) \/ Refuse(q, k)
           \/ /\ UNCHANGED <<script, connKey>>
              /\ \E l \in (Before \ {"idle"}) \cup {"done"} : Goto(H(q), l)
    BY <1>1, KeysOfRequest
    DEF Dispatch, RegisterCheck, Reject, RegisterWrite, UpgradeRead, UpgradeCheck, UpgradeMove,
        locals, Before
  <2>2. CASE \E k \in Keys \cup {NoKey} : Proceed(q, k) \/ Refuse(q, k)
    <3>1. PICK k \in Keys \cup {NoKey} : Proceed(q, k) \/ Refuse(q, k)
      BY <2>2
    <3>2. /\ connKey'[q] = k /\ Entry(req[q].handler, k, script'[q])
          /\ Goto(H(q), "run") /\ pc'[H(q)] = "run"
          /\ \A s \in Requests \ {q} : script'[s] = script[s] /\ connKey'[s] = connKey[s]
      BY <3>1, EntersWith
    <3>3. CASE q = r
      BY <2>1, <3>2, <3>3
    <3>4. CASE q # r
      <4>1. pc'[H(r)] = pc[H(r)]
        BY <1>0, <3>2, <3>4 DEF Goto, Typed
      <4> QED BY <3>2, <3>4, <4>1
    <3> QED BY <3>3, <3>4
  <2>3. CASE UNCHANGED <<script, connKey>> /\ \E l \in (Before \ {"idle"}) \cup {"done"} : Goto(H(q), l)
    <3>1. pc'[H(r)] = pc[H(r)] \/ (q = r /\ pc'[H(r)] \in (Before \ {"idle"}) \cup {"done"})
      BY <1>0, <2>3 DEF Goto, Typed
    <3> QED BY <2>1, <2>3, <3>1
  <2> QED BY <2>1, <2>2, <2>3
<1>2. ASSUME NEW q \in Requests,
             \/ SendDirect(q) \/ UnregisterChannel(q) \/ Crash(q)
             \/ CallTimeOutProtocol(q) \/ CallRegisterChannel(q) \/ Produce(q) \/ ReceiveResult(q)
      PROVE  Goal
  <2>1. /\ \E token \in Token \ {"key"} : Calls(q, token)
        /\ connKey' = connKey
        /\ UNCHANGED pc \/ \E l : Goto(G(q), l) \/ Goto(A(q), l) \/ Goto(H(q), "panic")
    BY <1>2 DEF SendDirect, UnregisterChannel, Crash, CallTimeOutProtocol, CallRegisterChannel,
                Produce, ReceiveResult, Token
  <2>2. pc'[H(r)] = pc[H(r)] \/ (q = r /\ pc'[H(r)] = "panic")
    BY <1>0, <2>1 DEF Goto, Typed
  <2>3. pc[H(q)] = "run" /\ \A s \in Requests \ {q} : script'[s] = script[s]
    BY <2>1, AfterCall
  <2> QED BY <2>1, <2>2, <2>3
<1>3. ASSUME NEW q \in Requests,
             \/ PublishOrder(q) \/ PublishCancelAll(q)
             \/ ArmTimeout(q) \/ EvalTimeout(q) \/ Expire(q) \/ DeleteTimeout(q)
             \/ PollResult(q) \/ ContextDone(q) \/ ClearResult(q)
      PROVE  Goal
  <2>1. /\ UNCHANGED <<script, connKey>>
        /\ \E l : Goto(A(q), l) \/ Goto(C(q), l) \/ Goto(G(q), l)
    BY <1>3 DEF PublishOrder, PublishCancelAll, ArmTimeout, EvalTimeout, Expire, DeleteTimeout,
                PollResult, ContextDone, ClearResult, locals
  <2>2. pc'[H(r)] = pc[H(r)]
    BY <1>0, <2>1 DEF Goto, Typed
  <2> QED BY <2>1, <2>2
<1>4. ASSUME NEW t \in Threads, GetProtocol(t)
      PROVE  Goal
  <2>1. CASE t[1] = "h"
    <3>1. t[2] \in Requests /\ t = H(t[2]) /\ Calls(t[2], "key") /\ connKey' = connKey
      BY <1>0, <1>4, <2>1 DEF GetProtocol
    <3>2. CASE t[2] # r
      <4>1. script'[r] = script[r]
        BY <3>1, <3>2, AfterCall
      <4>2. \E l : Goto(t, l)
        BY <1>4 DEF GetProtocol
      <4>3. pc'[H(r)] = pc[H(r)]
        BY <1>0, <3>1, <3>2, <4>2 DEF Goto, Typed
      <4> QED BY <3>1, <4>1, <4>3
    <3>3. CASE t[2] = r
      <4>1. KeyOf(t) = connKey[r]
        BY <2>1, <3>3 DEF KeyOf
      <4>2. pc'[H(r)] \in {"run", "aborted", "panic", "send"}
        BY <1>0, <1>4, <2>1, <3>1, <3>3 DEF GetProtocol, Ret, Goto, Typed
      <4>3. pc'[H(r)] # "run" => connKey[r] # NoKey
        <5> SUFFICES ASSUME KeyOf(t) = NoKey PROVE pc'[t] = "run"
          BY <3>1, <3>3, <4>1
        <5>1. Goto(t, Ret(t))
          BY <1>4, ConstantsOK DEF GetProtocol
        <5> QED BY <2>1, <5>1 DEF Goto, Typed, Ret
      <4> QED BY <3>1, <3>3, <4>2, <4>3
    <3> QED BY <3>2, <3>3
  <2>2. CASE t[1] # "h"
    <3>1. UNCHANGED <<script, connKey>> /\ \E l : Goto(t, l)
      BY <1>4, <2>2 DEF GetProtocol
    <3>2. t # H(r)
      BY <2>2 DEF H
    <3> QED BY <1>0, <3>1, <3>2 DEF Goto, Typed
  <2> QED BY <2>1, <2>2
<1>5. ASSUME NEW t \in Threads,
             \/ DoSend(t) \/ PeekTimeout(t) \/ AimTimeout(t) \/ UnregisterProtocol(t)
             \/ ConcurrentMapAccess(t) \/ handleTopicCancelledOrders(t)
      PROVE  Goal
  <2>1. UNCHANGED <<script, connKey>>
    BY <1>5 DEF DoSend, PeekTimeout, AimTimeout, UnregisterProtocol, ConcurrentMapAccess,
                handleTopicCancelledOrders, locals
  <2>2. pc'[H(r)] = pc[H(r)] \/ t = H(r)
    BY <1>0, <1>5 DEF DoSend, PeekTimeout, AimTimeout, UnregisterProtocol, ConcurrentMapAccess,
                handleTopicCancelledOrders, Goto, Typed
  <2>3. ASSUME t = H(r)
        PROVE  \/ pc[t] \in {"send"} \cup Sent /\ pc'[t] \in Sent \cup {"run", "panic"}
               \/ pc[t] \in {"cancelled", "eval"}
    BY <1>0, <1>5, <2>3 DEF DoSend, PeekTimeout, AimTimeout, UnregisterProtocol, ConcurrentMapAccess,
                handleTopicCancelledOrders, Goto, Typed, Sent, Ret, H
  <2> QED BY <2>1, <2>2, <2>3
<1>6. ASSUME NEW t \in Threads, NEW q \in Requests, SignalTimeout(t, q)
      PROVE  Goal
  <2>1. /\ UNCHANGED <<script, connKey>> /\ pc[t] = "sync" /\ pc'[t] \in {"free", "disarm"}
        /\ t # G(q) => pc'[t] = "free"
        /\ \A u \in Threads \ {t, G(q)} : pc'[u] = pc[u]
    BY <1>0, <1>6 DEF SignalTimeout, Typed
  <2> QED BY <1>0, <2>1 DEF Sent
<1>7. ASSUME NEW c \in Clients, Disconnect(c)
      PROVE  Goal
  BY <1>7 DEF Disconnect, locals
<1> HIDE DEF Goal
<1>8. Goal
  BY <1>1, <1>2, <1>3, <1>4, <1>5, <1>6, <1>7
  DEF Next, Environment, HandlerStep, SpawnedStep, SendStep
<1> QED BY <1>8 DEF Goal

(* ... to the goroutine it spawned, ... *)
Polls == {"poll", "clear", "offer"}

(* Where only other goroutines are. *)
Elsewhere == {"aborted", "write", "read", "exist", "move", "run", "order", "cancelled"}

LEMMA SpawnedMoves ==
    ASSUME Typed, Next, NEW r \in Requests
    PROVE  \/ pc'[G(r)] = pc[G(r)]
           \/ Calls(r, "go") /\ pc'[G(r)] = "arm"
           \/ Calls(r, "chan") /\ pc'[G(r)] = "poll"
           \/ /\ pc[G(r)] # "idle" /\ pc'[G(r)] \notin {"idle"} \cup Elsewhere
              /\ pc'[G(r)] \in Polls => pc[G(r)] \in Polls
<1> DEFINE Goal ==
           \/ pc'[G(r)] = pc[G(r)]
           \/ Calls(r, "go") /\ pc'[G(r)] = "arm"
           \/ Calls(r, "chan") /\ pc'[G(r)] = "poll"
           \/ /\ pc[G(r)] # "idle" /\ pc'[G(r)] \notin {"idle"} \cup Elsewhere
              /\ pc'[G(r)] \in Polls => pc[G(r)] \in Polls
<1>0. /\ \A q \in Requests : /\ H(q) \in Threads /\ G(q) \in Threads
                              /\ A(q) \in Threads /\ C(q) \in Threads
                              /\ H(q) # G(r) /\ A(q) # G(r) /\ C(q) # G(r)
                              /\ (q # r => G(q) # G(r))
  BY Goroutines, Distinct
<1>1. ASSUME NEW q \in Requests,
             \/ Dispatch(q) \/ RegisterCheck(q) \/ Reject(q) \/ RegisterWrite(q)
             \/ UpgradeRead(q) \/ UpgradeCheck(q) \/ UpgradeMove(q)
             \/ SendDirect(q) \/ UnregisterChannel(q) \/ Crash(q) \/ Produce(q)
             \/ PublishOrder(q) \/ PublishCancelAll(q)
      PROVE  Goal
  <2>1. UNCHANGED pc \/ \E l : Goto(H(q), l) \/ Goto(A(q), l) \/ Goto(C(q), l)
    BY <1>1
    DEF Dispatch, RegisterCheck, Reject, RegisterWrite, UpgradeRead, UpgradeCheck, UpgradeMove,
        SendDirect, UnregisterChannel, Crash, Produce, PublishOrder, PublishCancelAll,
        Proceed, Refuse, Enter
  <2> QED BY <1>0, <2>1 DEF Goto, Typed
<1>2. ASSUME NEW q \in Requests,
             \/ CallTimeOutProtocol(q) \/ CallRegisterChannel(q) \/ ReceiveResult(q)
             \/ ArmTimeout(q) \/ EvalTimeout(q) \/ Expire(q) \/ DeleteTimeout(q)
             \/ PollResult(q) \/ ContextDone(q) \/ ClearResult(q)
      PROVE  Goal
  <2>1. CASE q # r
    <3>1. \E l : Goto(G(q), l)
      BY <1>2 DEF CallTimeOutProtocol, CallRegisterChannel, ReceiveResult, ArmTimeout, EvalTimeout,
                  Expire, DeleteTimeout, PollResult, ContextDone, ClearResult
    <3> QED BY <1>0, <2>1, <3>1 DEF Goto, Typed
  <2>2. CASE q = r
    BY <1>0, <1>2, <2>2
    DEF CallTimeOutProtocol, CallRegisterChannel, ReceiveResult, ArmTimeout, EvalTimeout,
        Expire, DeleteTimeout, PollResult, ContextDone, ClearResult, Goto, Typed, Polls, Elsewhere
  <2> QED BY <2>1, <2>2
<1>3. ASSUME NEW t \in Threads,
             \/ GetProtocol(t) \/ DoSend(t) \/ PeekTimeout(t) \/ AimTimeout(t)
             \/ UnregisterProtocol(t) \/ ConcurrentMapAccess(t) \/ handleTopicCancelledOrders(t)
      PROVE  Goal
  <2>1. CASE t # G(r)
    <3>1. \E l : Goto(t, l)
      BY <1>3 DEF GetProtocol, DoSend, PeekTimeout, AimTimeout, UnregisterProtocol,
                  ConcurrentMapAccess, handleTopicCancelledOrders
    <3> QED BY <1>0, <2>1, <3>1 DEF Goto, Typed
  <2>2. CASE t = G(r)
    <3>1. /\ pc[G(r)] # "idle" /\ t[1] = "g"
          /\ \E l \in Labels \ ({"idle"} \cup Polls \cup Elsewhere) : Goto(t, l)
      BY <1>3, <2>2 DEF GetProtocol, DoSend, PeekTimeout, AimTimeout, UnregisterProtocol,
           ConcurrentMapAccess, handleTopicCancelledOrders, G, Ret, Labels, Polls, Elsewhere
    <3> QED BY <1>0, <2>2, <3>1 DEF Goto, Typed
  <2> QED BY <2>1, <2>2
<1>4. ASSUME NEW t \in Threads, NEW q \in Requests, SignalTimeout(t, q)
      PROVE  Goal
  <2>1. /\ pc[t] = "sync" /\ pc'[t] \in {"free", "disarm"}
        /\ pc[G(q)] = "select" /\ pc'[G(q)] = "disarm"
        /\ \A u \in Threads \ {t, G(q)} : pc'[u] = pc[u]
    BY <1>0, <1>4 DEF SignalTimeout, Typed
  <2> QED BY <1>0, <2>1 DEF Polls, Elsewhere
<1>5. ASSUME NEW c \in Clients, Disconnect(c)
      PROVE  Goal
  BY <1>5 DEF Disconnect
<1> HIDE DEF Goal
<1>6. Goal
  BY <1>1, <1>2, <1>3, <1>4, <1>5 DEF Next, Environment, HandlerStep, SpawnedStep, SendStep
<1> QED BY <1>6 DEF Goal

(* ... and to the goroutine of its order. *)
LEMMA OrderMoves ==
    ASSUME Typed, Next, NEW r \in Requests
    PROVE  \/ pc'[A(r)] = pc[A(r)]
           \/ Produce(r) /\ pc'[A(r)] \in {"order", "cancelled"}
           \/ pc[A(r)] # "idle" /\ pc'[A(r)] # "idle" /\ pc'[A(r)] \notin {"order", "cancelled"}
<1> DEFINE Goal ==
           \/ pc'[A(r)] = pc[A(r)]
           \/ Produce(r) /\ pc'[A(r)] \in {"order", "cancelled"}
           \/ pc[A(r)] # "idle" /\ pc'[A(r)] # "idle" /\ pc'[A(r)] \notin {"order", "cancelled"}
<1>0. /\ \A q \in Requests : /\ H(q) \in Threads /\ G(q) \in Threads
                              /\ A(q) \in Threads /\ C(q) \in Threads
                              /\ H(q) # A(r) /\ G(q) # A(r) /\ C(q) # A(r)
                              /\ (q # r => A(q) # A(r))
  BY Goroutines, Distinct
<1>1. ASSUME NEW q \in Requests,
             \/ Dispatch(q) \/ RegisterCheck(q) \/ Reject(q) \/ RegisterWrite(q)
             \/ UpgradeRead(q) \/ UpgradeCheck(q) \/ UpgradeMove(q)
             \/ SendDirect(q) \/ UnregisterChannel(q) \/ Crash(q) \/ PublishCancelAll(q)
             \/ CallTimeOutProtocol(q) \/ CallRegisterChannel(q) \/ ReceiveResult(q)
             \/ ArmTimeout(q) \/ EvalTimeout(q) \/ Expire(q) \/ DeleteTimeout(q)
             \/ PollResult(q) \/ ContextDone(q) \/ ClearResult(q)
      PROVE  Goal
  <2>1. UNCHANGED pc \/ \E l : Goto(H(q), l) \/ Goto(G(q), l) \/ Goto(C(q), l)
    BY <1>1
    DEF Dispatch, RegisterCheck, Reject, RegisterWrite, UpgradeRead, UpgradeCheck, UpgradeMove,
        SendDirect, UnregisterChannel, Crash, PublishCancelAll, Proceed, Refuse, Enter,
        CallTimeOutProtocol, CallRegisterChannel, ReceiveResult, ArmTimeout, EvalTimeout,
        Expire, DeleteTimeout, PollResult, ContextDone, ClearResult
  <2> QED BY <1>0, <2>1 DEF Goto, Typed
<1>2. ASSUME NEW q \in Requests, Produce(q) \/ PublishOrder(q)
      PROVE  Goal
  <2>1. CASE q # r
    <3>1. \E l : Goto(A(q), l)
      BY <1>2 DEF Produce, PublishOrder
    <3> QED BY <1>0, <2>1, <3>1 DEF Goto, Typed
  <2>2. CASE q = r
    BY <1>0, <1>2, <2>2 DEF Produce, PublishOrder, Goto, Typed
  <2> QED BY <2>1, <2>2
<1>3. ASSUME NEW t \in Threads,
             \/ GetProtocol(t) \/ DoSend(t) \/ PeekTimeout(t) \/ AimTimeout(t)
             \/ UnregisterProtocol(t) \/ ConcurrentMapAccess(t) \/ handleTopicCancelledOrders(t)
      PROVE  Goal
  <2>1. CASE t # A(r)
    <3>1. \E l : Goto(t, l)
      BY <1>3 DEF GetProtocol, DoSend, PeekTimeout, AimTimeout, UnregisterProtocol,
                  ConcurrentMapAccess, handleTopicCancelledOrders
    <3> QED BY <1>0, <2>1, <3>1 DEF Goto, Typed
  <2>2. CASE t = A(r)
    <3>1. /\ pc[A(r)] # "idle" /\ t[1] = "a"
          /\ \E l \in Labels \ {"idle", "order", "cancelled"} : Goto(t, l)
      BY <1>3, <2>2 DEF GetProtocol, DoSend, PeekTimeout, AimTimeout, UnregisterProtocol,
           ConcurrentMapAccess, handleTopicCancelledOrders, A, Ret, Labels
    <3> QED BY <1>0, <2>2, <3>1 DEF Goto, Typed
  <2> QED BY <2>1, <2>2
<1>4. ASSUME NEW t \in Threads, NEW q \in Requests, SignalTimeout(t, q)
      PROVE  Goal
  <2>1. /\ pc[t] = "sync" /\ pc'[t] \in {"free", "disarm"}
        /\ \A u \in Threads \ {t, G(q)} : pc'[u] = pc[u]
    BY <1>0, <1>4 DEF SignalTimeout, Typed
  <2> QED BY <1>0, <2>1
<1>5. ASSUME NEW c \in Clients, Disconnect(c)
      PROVE  Goal
  BY <1>5 DEF Disconnect
<1> HIDE DEF Goal
<1>6. Goal
  BY <1>1, <1>2, <1>3, <1>4, <1>5 DEF Next, Environment, HandlerStep, SpawnedStep, SendStep
<1> QED BY <1>6 DEF Goal

(* What is left of a script fits the handler; who still has to settle how  *)
(* the request is answered has not placed an order, and who has placed one *)
(* says nothing more itself; who sends through the registry has not, and   *)
(* will not; and the goroutine spawned is the one the transport has.       *)
ScriptOK ==
    \A r \in Requests :
        LET h == req[r].handler
            s == script[r]
        IN  /\ Fits(h, connKey[r], s)
            /\ pc[H(r)] \in Before => s = <<>>
            /\ pc[H(r)] \notin {"cancelled", "eval"}
            /\ In(s, Outcomes) => pc[H(r)] \in {"run", "panic"} /\ pc[A(r)] = "idle"
            /\ pc[A(r)] # "idle" =>
                  /\ pc[H(r)] \in {"run", "panic"}
                  /\ ~In(s, Outcomes) /\ (connKey[r] = NoKey \/ ~In(s, {"key"}))
            /\ pc[H(r)] \in {"send"} \cup Sent =>
                  /\ connKey[r] # NoKey /\ ~In(s, Outcomes)
                  /\ RepliesOnce(h) => ~In(s, {"key"})
            /\ pc[G(r)] \in Polls => h.proto = "channel"
            /\ h.proto \notin {"ws", "channel"} => pc[G(r)] = "idle"

LEMMA NothingLeft ==
    ASSUME NEW h, NEW k
    PROVE  Fits(h, k, <<>>) /\ \A T : ~In(<<>>, T)
BY DEF Fits, In, AtMostOne

LEMMA ScriptKept ==
    ASSUME Typed, Typed', SpawnsOnce, ScriptOK, req' = req, [Next]_vars
    PROVE  ScriptOK'
<1>1. CASE UNCHANGED vars
  BY <1>1 DEF vars, locals, ScriptOK
<1>2. CASE Next
  <2> SUFFICES ASSUME NEW r \in Requests
               PROVE  LET h == req[r].handler
                          s == script'[r]
                      IN  /\ Fits(h, connKey'[r], s)
                          /\ pc'[H(r)] \in Before => s = <<>>
                          /\ pc'[H(r)] \notin {"cancelled", "eval"}
                          /\ In(s, Outcomes) => pc'[H(r)] \in {"run", "panic"} /\ pc'[A(r)] = "idle"
                          /\ pc'[A(r)] # "idle" =>
                                /\ pc'[H(r)] \in {"run", "panic"}
                                /\ ~In(s, Outcomes) /\ (connKey'[r] = NoKey \/ ~In(s, {"key"}))
                          /\ pc'[H(r)] \in {"send"} \cup Sent =>
                                /\ connKey'[r] # NoKey /\ ~In(s, Outcomes)
                                /\ RepliesOnce(h) => ~In(s, {"key"})
                          /\ pc'[G(r)] \in Polls => h.proto = "channel"
                          /\ h.proto \notin {"ws", "channel"} => pc'[G(r)] = "idle"
    BY DEF ScriptOK, H, G, A
  <2> DEFINE h == req[r].handler
             s == script[r]
             s1 == script'[r]
  <2>0. /\ Fits(h, connKey[r], s)
        /\ pc[H(r)] \in Before => s = <<>>
        /\ pc[H(r)] \notin {"cancelled", "eval"}
        /\ In(s, Outcomes) => pc[H(r)] \in {"run", "panic"} /\ pc[A(r)] = "idle"
        /\ pc[A(r)] # "idle" =>
              /\ pc[H(r)] \in {"run", "panic"}
              /\ ~In(s, Outcomes) /\ (connKey[r] = NoKey \/ ~In(s, {"key"}))
        /\ pc[H(r)] \in {"send"} \cup Sent =>
              /\ connKey[r] # NoKey /\ ~In(s, Outcomes)
              /\ RepliesOnce(h) => ~In(s, {"key"})
        /\ pc[G(r)] \in Polls => h.proto = "channel"
        /\ h.proto \notin {"ws", "channel"} => pc[G(r)] = "idle"
        /\ s \in Seq(Token) /\ h \in Handlers /\ connKey[r] \in Keys \cup {NoKey}
        /\ pc[H(r)] \in Before => pc[A(r)] = "idle"
    BY DEF ScriptOK, Typed, Input, SpawnsOnce
  <2>1. ASSUME NEW token, Calls(r, token)
        PROVE  /\ pc[H(r)] = "run" /\ s # <<>> /\ Head(s) = token /\ s1 = Tail(s)
               /\ Fits(h, connKey[r], s1)
               /\ \A T : In(s1, T) => In(s, T)
               /\ \A T : token \in T => In(s, T) /\ (AtMostOne(s, T) => ~In(s1, T))
    <3>1. pc[H(r)] = "run" /\ s # <<>> /\ Head(s) = token /\ s1 = Tail(s)
      BY <2>1 DEF Calls, Typed
    <3> HIDE DEF s, h, s1
    <3> QED BY <2>0, <3>1, RestIn, RestFits
  <2>2. /\ pc'[G(r)] \in Polls => h.proto = "channel"
        /\ h.proto \notin {"ws", "channel"} => pc'[G(r)] = "idle"
    <3>1. Calls(r, "go") => h.proto = "ws"
      BY <2>0, <2>1 DEF Fits
    <3>2. Calls(r, "chan") => h.proto = "channel"
      BY <2>0, <2>1 DEF Fits
    <3> QED BY <1>2, <2>0, <3>1, <3>2, SpawnedMoves DEF Polls
  (* The order. *)
  <2>3. \/ pc'[A(r)] = pc[A(r)]
        \/ Produce(r)
        \/ pc[A(r)] # "idle" /\ pc'[A(r)] # "idle"
    BY <1>2, OrderMoves
  <2>4. ASSUME Produce(r)
        PROVE  /\ ~In(s1, Outcomes) /\ (connKey[r] = NoKey \/ ~In(s1, {"key"}))
               /\ pc'[H(r)] = "run" /\ connKey'[r] = connKey[r]
               /\ Fits(h, connKey[r], s1)
    <3>1. PICK token \in {"produce", "produceAll"} : Calls(r, token)
      BY <2>4 DEF Produce
    <3>2. token \in Outcomes
      BY <3>1 DEF Outcomes
    <3>3. ~In(s1, Outcomes) /\ (connKey[r] = NoKey \/ ~In(s1, {"key"}))
      BY <2>0, <2>1, <3>1, <3>2 DEF Fits
    <3>4. pc'[H(r)] = "run" /\ connKey'[r] = connKey[r]
      BY <2>4, <3>1, Goroutines, Distinct DEF Produce, Calls, Goto, Typed
    <3> QED BY <2>1, <3>1, <3>3, <3>4
  <2>5. CASE pc'[H(r)] = pc[H(r)] /\ s1 = s /\ connKey'[r] = connKey[r]
    BY <2>0, <2>2, <2>3, <2>4, <2>5
  <2>6. CASE /\ pc[H(r)] \in Before /\ pc'[H(r)] \in (Before \ {"idle"}) \cup {"done"}
             /\ s1 = s /\ connKey'[r] = connKey[r]
    <3>1. pc'[A(r)] = "idle"
      BY <2>0, <2>3, <2>6 DEF Produce, Calls, Before
    <3> QED BY <2>0, <2>2, <2>6, <3>1, NothingLeft DEF Before, Sent
  <2>7. CASE /\ pc[H(r)] \in Before /\ pc'[H(r)] = "run" /\ connKey'[r] \in Keys \cup {NoKey}
             /\ Entry(h, connKey'[r], s1)
    <3>1. pc'[A(r)] = "idle"
      BY <2>0, <2>3, <2>7 DEF Produce, Calls, Before
    <3>2. Fits(h, connKey'[r], s1)
      BY <2>0, <2>7, EntryFits
    <3> QED BY <2>2, <2>7, <3>1, <3>2 DEF Before, Sent
  <2>8. CASE /\ \E token \in Token \ {"key"} : Calls(r, token)
             /\ pc'[H(r)] \in {"run", "panic"} /\ connKey'[r] = connKey[r]
    <3>1. PICK token \in Token \ {"key"} : Calls(r, token)
      BY <2>8
    <3>2. CASE Produce(r)
      BY <2>2, <2>4, <2>8, <3>2 DEF Before, Sent
    <3>3. CASE ~Produce(r)
      <4>1. pc'[A(r)] # "idle" => pc[A(r)] # "idle"
        BY <2>3, <3>3
      <4> QED BY <2>0, <2>1, <2>2, <2>8, <3>1, <4>1 DEF Before, Sent
    <3> QED BY <3>2, <3>3
  <2>9. CASE /\ Calls(r, "key") /\ pc'[H(r)] \in {"run", "aborted", "panic", "send"}
             /\ connKey'[r] = connKey[r] /\ (pc'[H(r)] # "run" => connKey[r] # NoKey)
    <3>1. ~Produce(r)
      BY <2>9 DEF Produce, Calls
    <3> QED BY <2>0, <2>1, <2>2, <2>3, <2>9, <3>1 DEF Fits, Before, Sent
  <2>10. CASE /\ pc[H(r)] \in {"send"} \cup Sent /\ pc'[H(r)] \in Sent \cup {"run", "panic"}
              /\ s1 = s /\ connKey'[r] = connKey[r]
    <3>1. ~Produce(r)
      BY <2>10 DEF Produce, Calls, Sent
    <3> QED BY <2>0, <2>2, <2>3, <2>10, <3>1 DEF Before, Sent
  <2> QED BY <1>2, <2>0, <2>5, <2>6, <2>7, <2>8, <2>9, <2>10, HandlerMoves
<1> QED BY <1>1, <1>2

LEMMA ScriptsKept == Spec => []ScriptOK
<1>1. Init => ScriptOK
  BY NothingLeft, Goroutines DEF Init, ScriptOK, Outcomes, Sent, Polls
<1>2. Typed /\ [Next]_vars /\ SpawnsOnce /\ Met => req' = req
  BY MetKept
<1>3. Typed /\ Typed' /\ SpawnsOnce /\ Met /\ ScriptOK /\ [Next]_vars => ScriptOK'
  BY <1>2, ScriptKept
<1>4. Init => Met
  BY Goroutines DEF Init, Met
<1>5. Typed /\ SpawnsOnce /\ Met /\ [Next]_vars => Met'
  BY MetKept
<1> QED BY <1>1, <1>3, <1>4, <1>5, TypesKept, SpawnedOnce, PTL DEF Spec

-----------------------------------------------------------------------------
(* Requests served alone.                                                  *)

(* Where a goroutine holds a ProtocolRequest in a local. *)
Holding == {"exist", "move", "send", "panic"} \cup Sent

(* Nothing of the request runs, is registered, stored as a result or held. *)
Quiet(r) ==
    /\ Over(r)
    /\ \A k \in Keys : conns[k] # r /\ results[k] \notin OwnThreads(r)
    /\ \A t \in Threads : got[t] # r

Together(r, s) == r = s \/ {r, s} \subseteq clash

(* Two requests with one id were served together, or one of them is quiet; *)
(* only a goroutine of a request served together with r takes r from the   *)
(* registry, receives a result of r's, or answers it.                      *)
ApartOK ==
    /\ \A t \in Threads : got[t] # Absent => pc[t] \in Holding
    /\ \A k \in Keys : results[k] \in Threads => pc[H(results[k][2])] # "idle"
    /\ \A r, s \in Requests :
          req[r].id = req[s].id /\ pc[H(r)] # "idle" /\ pc[H(s)] # "idle" =>
             Together(r, s) \/ Quiet(r) \/ Quiet(s)
    /\ \A t \in Threads : got[t] \in Requests => Together(got[t], t[2])
    /\ \A r \in Requests : res[r] \in Threads => Together(r, res[r][2])
    /\ \A r \in Requests, t \in Threads : answers[r][t] > 0 => Together(r, t[2])

(* A goroutine that runs belongs to a request that has arrived and is not  *)
(* over.                                                                   *)
LEMMA Running ==
    ASSUME Typed, SpawnsOnce, NEW t \in Threads,
           \/ pc[t] \notin Ends \cup {"run"}
           \/ pc[t] = "run" /\ t[1] = "h" /\ script[t[2]] # <<>>
    PROVE  t[2] \in Requests /\ pc[H(t[2])] # "idle" /\ ~Over(t[2])
<1>1. t[2] \in Requests /\ t \in {H(t[2]), G(t[2]), A(t[2]), C(t[2])}
  BY Owner, IsOneOf
<1>2. CASE t = H(t[2])
  BY <1>1, <1>2 DEF Over, Ends
<1>3. CASE t \in {G(t[2]), A(t[2]), C(t[2])}
  <2>1. pc[t] \notin Ends
    BY <1>3 DEF G, A, C
  <2> QED BY <1>1, <1>3, <2>1 DEF Over, Ends, SpawnsOnce, Before
<1> QED BY <1>1, <1>2, <1>3

(* What a step does to what a goroutine holds. *)
LEMMA GotChanges ==
    ASSUME Typed, SpawnsOnce, ScriptOK, Next, NEW t \in Threads
    PROVE  \/ got'[t] = got[t] /\ (pc[t] \in Holding => pc'[t] \in Holding)
           \/ got'[t] = Absent
           \/ /\ t = H(t[2]) /\ pc[t] = "read" /\ pc'[t] = "exist"
              /\ got'[t] \in {Zero, conns[AnonKey(t[2])]}
           \/ /\ GetProtocol(t) /\ pc'[t] = "send" /\ KeyOf(t) # NoKey
              /\ got'[t] = conns[KeyOf(t)]
<1> DEFINE Goal ==
           \/ got'[t] = got[t] /\ (pc[t] \in Holding => pc'[t] \in Holding)
           \/ got'[t] = Absent
           \/ /\ t = H(t[2]) /\ pc[t] = "read" /\ pc'[t] = "exist"
              /\ got'[t] \in {Zero, conns[AnonKey(t[2])]}
           \/ /\ GetProtocol(t) /\ pc'[t] = "send" /\ KeyOf(t) # NoKey
              /\ got'[t] = conns[KeyOf(t)]
<1>0. /\ \A q \in Requests : /\ H(q) \in Threads /\ G(q) \in Threads
                              /\ A(q) \in Threads /\ C(q) \in Threads /\ H(q)[2] = q
      /\ \A u \in Threads : got[u] \in Requests \cup {Absent, Zero}
      /\ \A u \in Threads : u[1] = "h" => u = H(u[2]) /\ u[2] \in Requests
      /\ Absent # Zero
      /\ ~Panicked
  BY Goroutines, Distinct, ConstantsOK DEF Typed, H, Threads, Next
(* A call starts goroutines that have not run. *)
<1>1. ASSUME NEW q \in Requests
      PROVE  /\ CallTimeOutProtocol(q) \/ CallRegisterChannel(q) => pc[G(q)] = "idle"
             /\ Produce(q) => pc[A(q)] = "idle"
  <2>1. ASSUME NEW token, Calls(q, token) PROVE 1 \in DOMAIN script[q] /\ script[q][1] = token
    BY <2>1, AfterCall
  <2> QED BY <2>1 DEF CallTimeOutProtocol, CallRegisterChannel, Produce, SpawnsOnce, Spawns,
              ScriptOK, In, Outcomes
<1>2. ASSUME NEW q \in Requests,
             \/ Dispatch(q) \/ RegisterCheck(q) \/ Reject(q) \/ RegisterWrite(q)
             \/ SendDirect(q) \/ UnregisterChannel(q) \/ Crash(q)
             \/ CallTimeOutProtocol(q) \/ CallRegisterChannel(q) \/ Produce(q) \/ ReceiveResult(q)
             \/ PublishOrder(q) \/ PublishCancelAll(q)
             \/ ArmTimeout(q) \/ EvalTimeout(q) \/ Expire(q) \/ DeleteTimeout(q)
             \/ PollResult(q) \/ ContextDone(q) \/ ClearResult(q)
      PROVE  Goal
  <2>1. /\ got' = got
        /\ \/ UNCHANGED pc
           \/ \E u \in Threads : \E l : Goto(u, l) /\ (pc[u] \notin Holding \/ l = "panic")
    BY <1>0, <1>1, <1>2
    DEF Dispatch, RegisterCheck, Reject, RegisterWrite, SendDirect, UnregisterChannel, Crash,
        CallTimeOutProtocol, CallRegisterChannel, Produce, ReceiveResult, PublishOrder,
        PublishCancelAll, ArmTimeout, EvalTimeout, Expire, DeleteTimeout, PollResult,
        ContextDone, ClearResult, Proceed, Refuse, Enter, Calls, locals, shared, Holding, Sent
  <2> QED BY <2>1 DEF Goto, Typed, Holding
<1>3. ASSUME NEW q \in Requests, UpgradeRead(q) PROVE Goal
  <2>1. CASE t = H(q)
    BY <1>0, <1>3, <2>1 DEF UpgradeRead, Goto, Typed
  <2>2. CASE t # H(q)
    BY <1>0, <1>3, <2>2 DEF UpgradeRead, Goto, Typed
  <2> QED BY <2>1, <2>2
<1>4. ASSUME NEW q \in Requests, UpgradeCheck(q) PROVE Goal
  BY <1>0, <1>4 DEF UpgradeCheck, Goto, Typed, Holding
<1>5. ASSUME NEW q \in Requests, UpgradeMove(q) PROVE Goal
  <2>1. got' = [got EXCEPT ![H(q)] = Absent] /\ Goto(H(q), "run")
    BY <1>5 DEF UpgradeMove, Proceed, Refuse, Enter
  <2> QED BY <1>0, <2>1 DEF Goto, Typed
<1>6. ASSUME NEW u \in Threads, GetProtocol(u) PROVE Goal
  <2>1. CASE t # u
    BY <1>6, <2>1 DEF GetProtocol, Goto, Typed
  <2>2. CASE t = u
    <3>1. pc[t] \notin Holding
      BY <1>0, <1>6, <2>2 DEF GetProtocol, Calls, Holding, Sent
    <3>2. got' = got \/ /\ Goto(t, "send") /\ KeyOf(t) # NoKey
                        /\ got' = [got EXCEPT ![t] = conns[KeyOf(t)]]
      <4>1. CASE KeyOf(t) = NoKey
        BY <1>6, <2>2, <4>1, ConstantsOK DEF GetProtocol
      <4>2. CASE KeyOf(t) # NoKey
        BY <1>6, <2>2, <4>2 DEF GetProtocol
      <4> QED BY <4>1, <4>2
    <3> QED BY <1>6, <2>2, <3>1, <3>2 DEF Goto, Typed
  <2> QED BY <2>1, <2>2
<1>7. ASSUME NEW u \in Threads,
             \/ DoSend(u) \/ PeekTimeout(u) \/ AimTimeout(u)
             \/ ConcurrentMapAccess(u) \/ handleTopicCancelledOrders(u)
      PROVE  Goal
  <2>1. got' = got /\ \E l : Goto(u, l) /\ (l \in Holding \/ pc[u] \notin Holding)
    BY <1>7 DEF DoSend, PeekTimeout, AimTimeout, ConcurrentMapAccess, handleTopicCancelledOrders,
                locals, Holding, Sent
  <2> QED BY <2>1 DEF Goto, Typed
<1>8. ASSUME NEW u \in Threads, UnregisterProtocol(u) PROVE Goal
  <2>1. got' = [got EXCEPT ![u] = Absent] /\ \E l : Goto(u, l)
    BY <1>8 DEF UnregisterProtocol
  <2> QED BY <2>1 DEF Goto, Typed
<1>9. ASSUME NEW u \in Threads, NEW q \in Requests, SignalTimeout(u, q) PROVE Goal
  <2>1. /\ got' = got /\ pc[u] = "sync" /\ pc[G(q)] = "select" /\ pc'[u] = "free"
        /\ \A v \in Threads \ {u, G(q)} : pc'[v] = pc[v]
    BY <1>0, <1>9 DEF SignalTimeout, Typed
  <2> QED BY <2>1 DEF Holding, Sent
<1>10. ASSUME NEW c \in Clients, Disconnect(c) PROVE Goal
  BY <1>10 DEF Disconnect, locals
<1> HIDE DEF Goal
<1>11. Goal
  BY <1>2, <1>3, <1>4, <1>5, <1>6, <1>7, <1>8, <1>9, <1>10
  DEF Next, Environment, HandlerStep, SpawnedStep, SendStep
<1> QED BY <1>11 DEF Goal

(* Who writes a result, receives one, or counts an answer. *)
LEMMA ResultsChange ==
    ASSUME Typed, Next
    PROVE  /\ \A k \in Keys : \/ results'[k] \in {results[k], Absent}
                              \/ results'[k] \in Threads /\ pc[results'[k]] = "send"
           /\ \A r \in Requests :
                 \/ res'[r] \in {res[r], Absent, G(r)}
                 \/ /\ pc[G(r)] = "poll" /\ connKey[r] \in Keys
                    /\ res'[r] = results[connKey[r]]
           /\ \A r \in Requests, t \in Threads : answers'[r][t] # answers[r][t] =>
                 /\ answers'[r][t] = answers[r][t] + 1
                 /\ \/ t = H(r) /\ (SendDirect(r) \/ Reject(r))
                    \/ ReceiveResult(r) /\ res[r] = t
                    \/ /\ DoSend(t) /\ got[t] = r /\ pc'[t] \in {"peek", "free"}
                       /\ req[r].handler.proto \in {"ws", "http"}
<1> DEFINE P == \A k \in Keys : \/ results'[k] \in {results[k], Absent}
                                \/ results'[k] \in Threads /\ pc[results'[k]] = "send"
           Q == \A r \in Requests :
                 \/ res'[r] \in {res[r], Absent, G(r)}
                 \/ /\ pc[G(r)] = "poll" /\ connKey[r] \in Keys
                    /\ res'[r] = results[connKey[r]]
           R == \A r \in Requests, t \in Threads : answers'[r][t] # answers[r][t] =>
                 /\ answers'[r][t] = answers[r][t] + 1
                 /\ \/ t = H(r) /\ (SendDirect(r) \/ Reject(r))
                    \/ ReceiveResult(r) /\ res[r] = t
                    \/ /\ DoSend(t) /\ got[t] = r /\ pc'[t] \in {"peek", "free"}
                       /\ req[r].handler.proto \in {"ws", "http"}
<1>1. ASSUME NEW q, NEW u, Answer(q, u), NEW r \in Requests, NEW t \in Threads,
             answers'[r][t] # answers[r][t]
      PROVE  q = r /\ u = t /\ answers'[r][t] = answers[r][t] + 1
  BY <1>1 DEF Answer, Typed
<1>2. ASSUME NEW q \in Requests, SendDirect(q) \/ Reject(q) PROVE P /\ Q /\ R
  <2>1. UNCHANGED <<results, res>> /\ Answer(q, H(q))
    BY <1>2 DEF SendDirect, Reject, locals
  <2>2. R
    BY <1>1, <1>2, <2>1
  <2> QED BY <2>1, <2>2
<1>3. ASSUME NEW q \in Requests, ReceiveResult(q) PROVE P /\ Q /\ R
  <2>1. UNCHANGED results /\ res' = [res EXCEPT ![q] = Absent] /\ Answer(q, res[q])
    BY <1>3 DEF ReceiveResult
  <2>2. R
    BY <1>1, <1>3, <2>1
  <2>3. Q
    BY <2>1 DEF Typed
  <2> QED BY <2>1, <2>2, <2>3
<1>4. ASSUME NEW u \in Threads, DoSend(u) PROVE P /\ Q /\ R
  <2>1. UNCHANGED res /\ pc[u] = "send"
    BY <1>4 DEF DoSend, locals
  <2>2. P
    <3>1. results' = results \/ results' = [results EXCEPT ![KeyOf(u)] = u]
      BY <1>4 DEF DoSend
    <3> QED BY <2>1, <3>1 DEF Typed
  <2>3. R
    <3>1. \/ UNCHANGED answers
          \/ /\ Answer(got[u], u) /\ req[got[u]].handler.proto \in {"ws", "http"}
             /\ \E l \in {"peek", "free"} : Goto(u, l)
      BY <1>4 DEF DoSend
    <3>2. CASE UNCHANGED answers
      BY <3>2
    <3>3. CASE /\ Answer(got[u], u) /\ req[got[u]].handler.proto \in {"ws", "http"}
               /\ \E l \in {"peek", "free"} : Goto(u, l)
      <4>1. pc'[u] \in {"peek", "free"}
        BY <3>3 DEF Goto, Typed
      <4> QED BY <1>1, <1>4, <3>3, <4>1
    <3> QED BY <3>1, <3>2, <3>3
  <2> QED BY <2>1, <2>2, <2>3
<1>5. ASSUME NEW q \in Requests, PollResult(q) \/ ContextDone(q) PROVE P /\ Q /\ R
  <2>1. UNCHANGED <<results, answers>>
    BY <1>5 DEF PollResult, ContextDone, shared
  <2>2. CASE PollResult(q)
    <3>1. connKey[q] \in Keys
      BY <2>2 DEF PollResult, ResultOf, Typed
    <3>2. /\ pc[G(q)] = "poll" /\ connKey[q] # NoKey
          /\ res' = [res EXCEPT ![q] = results[connKey[q]]]
      BY <2>2 DEF PollResult, ResultOf
    <3>3. Q
      BY <3>1, <3>2 DEF Typed
    <3> QED BY <2>1, <3>3
  <2>3. CASE ContextDone(q)
    <3>1. Q
      BY <2>3 DEF ContextDone, Typed
    <3> QED BY <2>1, <3>1
  <2> QED BY <1>5, <2>2, <2>3
<1>6. ASSUME NEW q \in Requests, ClearResult(q) PROVE P /\ Q /\ R
  BY <1>6 DEF ClearResult, locals, Typed
<1>7. UNCHANGED <<results, res, answers>> => P /\ Q /\ R
  OBVIOUS
<1> HIDE DEF P, Q, R
<1>8. P /\ Q /\ R
  BY <1>2, <1>3, <1>4, <1>5, <1>6, <1>7
  DEF Next, Environment, HandlerStep, SpawnedStep, SendStep, Dispatch, RegisterCheck,
      RegisterWrite, UpgradeRead, UpgradeCheck, UpgradeMove, UnregisterChannel, Crash,
      CallTimeOutProtocol, CallRegisterChannel, Produce, PublishOrder, PublishCancelAll,
      ArmTimeout, EvalTimeout, Expire, DeleteTimeout, GetProtocol, PeekTimeout, AimTimeout,
      UnregisterProtocol, SignalTimeout, ConcurrentMapAccess, handleTopicCancelledOrders,
      Disconnect, locals, shared
<1> QED BY <1>8 DEF P, Q, R

(* A registration is new, moved, or was there. *)
LEMMA EntriesFrom ==
    ASSUME Typed, Next, NEW r \in Requests, NEW k \in Keys, conns'[k] = r
    PROVE  \/ conns[k] = r
           \/ pc[H(r)] = "write"
           \/ \E t \in Threads : got[t] = r
<1>1. ASSUME NEW q \in Requests, RegisterWrite(q), conns[k] # r PROVE pc[H(r)] = "write"
  BY <1>1 DEF RegisterWrite, Typed
<1>2. ASSUME NEW q \in Requests, UpgradeMove(q), conns[k] # r PROVE got[H(q)] = r
  BY <1>2, ConstantsOK DEF UpgradeMove, Typed
<1>3. ASSUME NEW t \in Threads, UnregisterProtocol(t) PROVE conns[k] = r
  BY <1>3, ConstantsOK DEF UnregisterProtocol, Typed
<1>4. conns' = conns => conns[k] = r
  OBVIOUS
<1> QED
  BY <1>1, <1>2, <1>3, <1>4, Goroutines
  DEF Next, Environment, HandlerStep, SpawnedStep, SendStep, Dispatch, RegisterCheck, Reject,
      UpgradeRead, UpgradeCheck, UnregisterChannel, Crash, SendDirect, ReceiveResult,
      CallTimeOutProtocol, CallRegisterChannel, Produce, PublishOrder, PublishCancelAll,
      ArmTimeout, EvalTimeout, Expire, DeleteTimeout, GetProtocol, DoSend, PeekTimeout, AimTimeout,
      SignalTimeout, ConcurrentMapAccess, handleTopicCancelledOrders, PollResult, ContextDone,
      ClearResult, Disconnect, locals, shared

(* Nothing of a quiet request comes back. *)
LEMMA QuietStays ==
    ASSUME Typed, SpawnsOnce, ScriptOK, Next, NEW r \in Requests, Quiet(r)
    PROVE  Quiet(r)'
<1>1. Over(r)'
  BY OverStays DEF Quiet
<1>2. ASSUME NEW k \in Keys PROVE conns'[k] # r
  <2>1. pc[H(r)] # "write"
    BY DEF Quiet, Over
  <2> QED BY <2>1, EntriesFrom DEF Quiet
<1>3. ASSUME NEW k \in Keys PROVE results'[k] \notin OwnThreads(r)
  <2>1. \A t \in OwnThreads(r) : t \in Threads /\ pc[t] # "send"
    BY Goroutines DEF OwnThreads, Quiet, Over
  <2>2. Absent \notin OwnThreads(r)
    BY <2>1, ConstantsOK
  <2> QED BY <2>1, <2>2, ResultsChange DEF Quiet
<1>4. ASSUME NEW t \in Threads PROVE got'[t] # r
  <2>1. \A k \in Keys : conns[k] # r
    BY DEF Quiet
  <2>2. got[t] # r /\ r # Absent /\ r # Zero
    BY ConstantsOK DEF Quiet
  <2>3. t[2] \in Requests => AnonKey(t[2]) \in Keys
    BY KeysOfRequest
  <2> QED BY <2>1, <2>2, <2>3, Owner, KeyOfGoroutine, GotChanges
<1>5. OwnThreads(r)' = OwnThreads(r)
  BY DEF OwnThreads, H, G, A, C
<1> QED BY <1>1, <1>2, <1>3, <1>4, <1>5 DEF Quiet

(* Whoever finds r in a map, running itself, was served together with it.  *)
LEMMA FinderMet ==
    ASSUME Typed, SpawnsOnce, ApartOK, NEW r \in Requests, pc[H(r)] # "idle", ~Quiet(r),
           NEW t \in Threads, req[t[2]].id = req[r].id,
           \/ pc[t] \notin Ends \cup {"run"}
           \/ pc[t] = "run" /\ t[1] = "h" /\ script[t[2]] # <<>>
    PROVE  Together(r, t[2])
<1>1. t[2] \in Requests /\ pc[H(t[2])] # "idle" /\ ~Quiet(t[2])
  BY Running DEF Quiet
<1> QED BY <1>1 DEF ApartOK

LEMMA TogetherStays ==
    ASSUME NEW r, NEW s, Together(r, s), clash \subseteq clash'
    PROVE  Together(r, s)'
BY DEF Together

(* Arriving requests meet those that are not quiet. *)
LEMMA ArrivalsApart ==
    ASSUME Typed, SpawnsOnce, ScriptOK, SameId, KeptOK, ApartOK, Next, req' = req,
           clash \subseteq clash',
           NEW r \in Requests, NEW s \in Requests, req[r].id = req[s].id, r # s,
           pc[H(r)] = "idle", pc'[H(r)] # "idle", pc'[H(s)] # "idle"
    PROVE  Together(r, s)' \/ Quiet(r)' \/ Quiet(s)'
<1>1. PICK a \in Requests : Dispatch(a) \/ RegisterCheck(a) \/ Reject(a)
  BY Arrivals
<1>2. /\ pc[H(a)] = "idle" /\ \A t \in Threads \ {H(a)} : pc'[t] = pc[t]
      /\ UNCHANGED <<conns, got, results>>
  BY <1>1 DEF Dispatch, RegisterCheck, Reject, Proceed, Enter, Goto, Typed, locals
<1>3. a = r
  BY <1>2, Goroutines, Distinct
<1>4. pc[H(s)] # "idle"
  BY <1>2, <1>3, Goroutines, Distinct
<1>5. CASE Reject(r)
  <2>1. pc'[H(r)] = "done"
    BY <1>5, Goroutines DEF Reject, Goto, Typed
  <2>2. \A t \in {G(r), A(r), C(r)} : pc'[t] = "idle"
    BY <1>2, <1>3, Goroutines, Distinct DEF SpawnsOnce, Before
  <2>3. Over(r)'
    BY <2>1, <2>2 DEF Over
  <2>4. \A k \in Keys : conns'[k] # r
    BY <1>2 DEF KeptOK
  <2>5. \A t \in Threads : got'[t] # r
    BY <1>2 DEF KeptOK
  <2>6. \A k \in Keys : results'[k] \notin OwnThreads(r)
    <3>1. \A t \in OwnThreads(r) : t \in Threads /\ t[2] = r
      BY Goroutines, Distinct DEF OwnThreads
    <3> QED BY <1>2, <3>1 DEF ApartOK
  <2>7. OwnThreads(r)' = OwnThreads(r)
    BY DEF OwnThreads, H, G, A, C
  <2> QED BY <2>3, <2>4, <2>5, <2>6, <2>7 DEF Quiet
<1>6. CASE clash' = clash \cup Clashes(r)
  <2>1. CASE ~Finished(s)
    <3>1. s \in Clashes(r) /\ r \in Clashes(r)
      BY <1>4, <2>1 DEF Clashes
    <3> QED BY <1>6, <3>1 DEF Together
  <2>2. ASSUME Finished(s), NEW t \in Threads, got[t] = s
        PROVE  Together(r, s)'
    <3> DEFINE q == t[2]
    <3>1. got[t] # Absent /\ pc[t] \in Holding
      BY <2>2, ConstantsOK DEF ApartOK
    <3>2. ~Panicked
      BY DEF Next
    <3>3. pc[t] \notin Ends \cup {"run"} /\ pc[t] # "idle"
      BY <3>1, <3>2 DEF Holding, Sent, Ends
    <3>4. q \in Requests /\ pc[H(q)] # "idle" /\ ~Over(q)
      BY <3>3, Running
    <3>5. q # s
      BY <2>2, <3>4, FinishedIsOver
    <3>6. {s, q} \subseteq clash
      BY <2>2, <3>5 DEF ApartOK, Together
    <3>7. req[q].id = req[s].id
      BY <2>2 DEF SameId
    <3>8. q # r
      BY <3>4
    <3>9. q \in Clashes(r) /\ r \in Clashes(r)
      BY <3>4, <3>7, <3>8, FinishedIsOver DEF Clashes
    <3> QED BY <1>6, <3>6, <3>9 DEF Together
  <2>3. ASSUME Finished(s), \A t \in Threads : got[t] # s
        PROVE  Quiet(s)'
    <3>1. Quiet(s)
      BY <2>3, FinishedIsOver DEF Finished, Quiet, OwnThreads
    <3> QED BY <3>1, QuietStays
  <2> QED BY <2>1, <2>2, <2>3
<1> QED BY <1>1, <1>3, <1>5, <1>6 DEF Dispatch, RegisterCheck

LEMMA ApartKept ==
    ASSUME Typed, SpawnsOnce, ScriptOK, SameId, KeptOK, ApartOK, Met, [Next]_vars
    PROVE  ApartOK'
<1>0. req' = req /\ clash \subseteq clash'
  BY MetKept
<1>1. CASE UNCHANGED vars
  <2>1. UNCHANGED <<req, pc, script, got, res, conns, results, answers, clash>>
    BY <1>1 DEF vars, locals, shared
  <2>2. \A r : Over(r)' = Over(r) /\ H(r)' = H(r) /\ OwnThreads(r)' = OwnThreads(r)
    BY <2>1 DEF Over, CancelledAtEnd, IsWs, Asks, OwnThreads, H, G, A, C
  <2>3. \A r \in Requests : Quiet(r)' = Quiet(r)
    BY <2>1, <2>2 DEF Quiet
  <2> QED BY <2>1, <2>2, <2>3 DEF ApartOK, Together
<1>2. CASE Next
  <2>1. ASSUME NEW t \in Threads, got'[t] # Absent PROVE pc'[t] \in Holding
    <3>1. CASE got'[t] = got[t] /\ (pc[t] \in Holding => pc'[t] \in Holding)
      BY <2>1, <3>1 DEF ApartOK
    <3>2. CASE pc'[t] \in {"exist", "send"}
      BY <3>2 DEF Holding
    <3> QED BY <1>2, <2>1, <3>1, <3>2, GotChanges
  <2>2. ASSUME NEW k \in Keys, results'[k] \in Threads
        PROVE  pc'[H(results'[k][2])] # "idle"
    <3> DEFINE q == results'[k][2]
    <3>1. q \in Requests /\ H(q) \in Threads
      BY <2>2, Owner, Goroutines
    <3>2. pc[H(q)] # "idle"
      <4>1. CASE results'[k] = results[k]
        BY <2>2, <4>1 DEF ApartOK
      <4>2. CASE pc[results'[k]] = "send"
        BY <2>2, <4>2, Running DEF Ends
      <4> QED BY <1>2, <2>2, <4>1, <4>2, ResultsChange, ConstantsOK
    <3>3. pc[H(q)] \notin {"cancelled", "eval"}
      BY <3>1 DEF ScriptOK
    <3> QED BY <1>2, <3>1, <3>2, <3>3, HandlerMoves DEF Sent
  <2>3. ASSUME NEW r \in Requests, NEW s \in Requests,
               req[r].id = req[s].id, pc'[H(r)] # "idle", pc'[H(s)] # "idle"
        PROVE  Together(r, s)' \/ Quiet(r)' \/ Quiet(s)'
    <3>1. CASE r = s
      BY <3>1 DEF Together
    <3>2. CASE r # s /\ pc[H(r)] # "idle" /\ pc[H(s)] # "idle"
      <4>1. Together(r, s) \/ Quiet(r) \/ Quiet(s)
        BY <2>3, <3>2 DEF ApartOK
      <4> QED BY <1>0, <1>2, <4>1, QuietStays, TogetherStays
    <3>3. CASE r # s /\ pc[H(r)] = "idle"
      BY <1>0, <1>2, <2>3, <3>3, ArrivalsApart
    <3>4. CASE r # s /\ pc[H(s)] = "idle"
      <4>1. Together(s, r)' \/ Quiet(s)' \/ Quiet(r)'
        BY <1>0, <1>2, <2>3, <3>4, ArrivalsApart
      <4> QED BY <4>1 DEF Together
    <3> QED BY <3>1, <3>2, <3>3, <3>4
  <2>4. ASSUME NEW t \in Threads, got'[t] \in Requests
        PROVE  got'[t] = t[2] \/ {got'[t], t[2]} \subseteq clash'
    <3>0. t[2] \in Requests /\ AnonKey(t[2]) \in Keys /\ AnonKey(t[2])[1] = req[t[2]].id
      BY Owner, KeysOfRequest
    <3>1. CASE got'[t] = got[t]
      <4>1. Together(got[t], t[2])
        BY <2>4, <3>1 DEF ApartOK
      <4> QED BY <1>0, <3>1, <4>1 DEF Together
    <3>2. ASSUME NEW k \in Keys, k[1] = req[t[2]].id, conns[k] = got'[t],
                 \/ pc[t] \notin Ends \cup {"run"}
                 \/ pc[t] = "run" /\ t[1] = "h" /\ script[t[2]] # <<>>
          PROVE  got'[t] = t[2] \/ {got'[t], t[2]} \subseteq clash'
      <4> DEFINE x == got'[t]
      <4>1. x \in Requests /\ pc[H(x)] # "idle" /\ ~Quiet(x) /\ req[x].id = req[t[2]].id
        BY <2>4, <3>2 DEF KeptOK, Quiet, SameId
      <4> HIDE DEF x
      <4>2. Together(x, t[2])
        BY <3>2, <4>1, FinderMet
      <4> QED BY <1>0, <4>2 DEF Together, x
    <3>3. CASE t = H(t[2]) /\ pc[t] = "read" /\ got'[t] \in {Zero, conns[AnonKey(t[2])]}
      <4>1. conns[AnonKey(t[2])] = got'[t]
        BY <2>4, <3>3, ConstantsOK
      <4> QED BY <3>0, <3>2, <3>3, <4>1 DEF Ends
    <3>4. CASE GetProtocol(t) /\ KeyOf(t) # NoKey /\ got'[t] = conns[KeyOf(t)]
      <4>1. KeyOf(t) \in Keys /\ KeyOf(t)[1] = req[t[2]].id
        BY <3>4, KeyId
      <4>2. \/ pc[t] \notin Ends \cup {"run"}
            \/ pc[t] = "run" /\ t[1] = "h" /\ script[t[2]] # <<>>
        BY <3>4 DEF GetProtocol, Calls, Ends, H, Threads
      <4> QED BY <3>2, <3>4, <4>1, <4>2
    <3> QED BY <1>2, <2>4, <3>1, <3>3, <3>4, GotChanges, ConstantsOK
  <2>5. ASSUME NEW r \in Requests, res'[r] \in Threads
        PROVE  r = res'[r][2] \/ {r, res'[r][2]} \subseteq clash'
    <3>1. CASE res'[r] = res[r]
      BY <1>0, <2>5, <3>1 DEF ApartOK, Together
    <3>2. CASE res'[r] = G(r)
      BY <3>2, Distinct DEF Together
    <3>3. CASE pc[G(r)] = "poll" /\ connKey[r] \in Keys /\ res'[r] = results[connKey[r]]
      <4> DEFINE x == res'[r][2]
      <4>1. x \in Requests /\ pc[H(x)] # "idle"
        BY <2>5, <3>3, Owner DEF ApartOK
      <4>2. ~Quiet(x)
        BY <2>5, <3>3, IsOneOf DEF Quiet, OwnThreads
      <4>3. req[x].id = req[r].id
        BY <2>5, <3>3, ConstantsOK DEF SameId
      <4> HIDE DEF x
      <4>4. Together(x, G(r)[2])
        BY <3>3, <4>1, <4>2, <4>3, Goroutines, Distinct, FinderMet DEF Ends
      <4>5. Together(x, r)
        BY <4>4, Distinct
      <4> QED BY <1>0, <4>5 DEF Together, x
    <3> QED BY <1>2, <2>5, <3>1, <3>2, <3>3, ResultsChange, ConstantsOK
  <2>6. ASSUME NEW r \in Requests, NEW t \in Threads, answers'[r][t] > 0
        PROVE  Together(r, t[2])'
    <3>1. CASE answers'[r][t] = answers[r][t]
      BY <1>0, <2>6, <3>1 DEF ApartOK, Together
    <3>2. CASE t = H(r)
      BY <3>2, Distinct DEF Together
    <3>3. CASE res[r] = t \/ got[t] = r
      BY <1>0, <3>3 DEF ApartOK, Together
    <3> QED BY <1>2, <3>1, <3>2, <3>3, ResultsChange
  <2>7. \A r : H(r)' = H(r)
    BY DEF H
  <2> QED BY <1>0, <2>1, <2>2, <2>3, <2>4, <2>5, <2>6, <2>7 DEF ApartOK, Together
<1> QED BY <1>1, <1>2

LEMMA ApartAlways == Spec => []ApartOK
<1>1. Init => ApartOK
  <2> SUFFICES ASSUME Init PROVE ApartOK
    OBVIOUS
  <2>1. /\ \A t \in Threads : pc[t] = "idle" /\ got[t] = Absent
        /\ \A k \in Keys : results[k] = Absent
        /\ \A r \in Requests : res[r] = Absent
        /\ \A r \in Requests, t \in Threads : answers[r][t] = 0
    BY DEF Init
  <2> QED BY <2>1, Goroutines, ConstantsOK DEF ApartOK
<1>2. Typed /\ SpawnsOnce /\ ScriptOK /\ SameId /\ KeptOK /\ Met /\ ApartOK /\ [Next]_vars => ApartOK'
  BY ApartKept
<1> QED BY <1>1, <1>2, TypesKept, SpawnedOnce, ScriptsKept, IdsKept, KeptAlways, PTL DEF Spec

(* Isolation: whatever requests with other ids do, and however their keys, *)
(* results and orders pass through the same maps, a request that has met   *)
(* no other with its id is answered by its own goroutines, and they answer *)
(* nobody else.                                                            *)
THEOREM Isolated == Spec => []Isolation
<1>1. Typed /\ ApartOK => Isolation
  <2> SUFFICES ASSUME Typed, ApartOK, NEW r \in Requests, NEW s \in Requests, r \notin clash, s # r,
                      NEW x \in {"h", "g", "a", "c"}
               PROVE  answers[s][<<x, r>>] = 0 /\ answers[r][<<x, s>>] = 0
    BY DEF Isolation, Alone
  <2>1. <<x, r>> \in Threads /\ <<x, s>> \in Threads
    BY DEF Threads
  <2>2. ~Together(s, r) /\ ~Together(r, s)
    BY DEF Together
  <2>3. ~(answers[s][<<x, r>>] > 0) /\ ~(answers[r][<<x, s>>] > 0)
    BY <2>1, <2>2 DEF ApartOK
  <2>4. answers[s][<<x, r>>] \in Nat /\ answers[r][<<x, s>>] \in Nat
    BY <2>1 DEF Typed
  <2> QED BY <2>3, <2>4
<1> QED BY <1>1, TypesKept, ApartAlways, PTL

-----------------------------------------------------------------------------
(* How often a request is answered.                                        *)

(* A request that has met no other is registered under one key: that of    *)
(* RegisterProtocolRequest until UpgradeProtocol moves it, then its        *)
(* handler's connKey, unless the handler was refused and has none.         *)
KeyedOK ==
    \A r \in Requests \ clash, k \in Keys : conns[k] = r =>
        \/ pc[H(r)] \in {"read", "exist", "move"} /\ k = AnonKey(r)
        \/ pc[H(r)] \notin Before /\ connKey[r] \in {k, NoKey}

LEMMA KeyedKept ==
    ASSUME Typed, SpawnsOnce, ScriptOK, SameId, Met, KeptOK, KeyedOK, [Next]_vars
    PROVE  KeyedOK'
<1>0. req' = req /\ clash \subseteq clash'
  BY MetKept
<1>1. CASE UNCHANGED vars
  BY <1>1 DEF vars, locals, shared, KeyedOK, H, AnonKey
<1>2. CASE Next
  <2> SUFFICES ASSUME NEW r \in Requests \ clash', NEW k \in Keys, conns'[k] = r
               PROVE  \/ pc'[H(r)] \in {"read", "exist", "move"} /\ k = AnonKey(r)
                      \/ pc'[H(r)] \notin Before /\ connKey'[r] \in {k, NoKey}
    BY <1>0 DEF KeyedOK, H, AnonKey
  <2>0. r \in Requests \ clash /\ H(r) \in Threads /\ AnonKey(r) \in Keys /\ UserKey(r) \in Keys
    BY <1>0, Goroutines, KeysOfRequest
  <2>1. CASE RegisterWrite(r)
    <3>1. pc[H(r)] = "write" /\ conns' = [conns EXCEPT ![AnonKey(r)] = r]
      BY <2>1 DEF RegisterWrite
    <3>2. k = AnonKey(r)
      <4>1. conns[k] # r
        BY <2>0, <3>1 DEF KeyedOK, Before
      <4> QED BY <3>1, <4>1 DEF Typed
    <3>3. ASSUME NEW l \in {AnonKey(r), NoKey}, Proceed(r, l) \/ Refuse(r, l)
          PROVE  pc'[H(r)] \notin Before /\ connKey'[r] \in {k, NoKey}
      <4>1. pc'[H(r)] = "run" /\ connKey'[r] = l
        BY <2>0, <3>3, EntersWith
      <4> QED BY <3>2, <4>1 DEF Before
    <3>4. Goto(H(r), "read") => pc'[H(r)] = "read"
      BY <2>0 DEF Goto, Typed
    <3> QED BY <2>1, <3>2, <3>3, <3>4 DEF RegisterWrite
  <2>2. CASE UpgradeMove(r)
    <3>1. /\ pc[H(r)] = "move"
          /\ conns' = [conns EXCEPT ![UserKey(r)] = got[H(r)], ![AnonKey(r)] = Absent]
          /\ Proceed(r, UserKey(r)) \/ Refuse(r, UserKey(r))
      BY <2>2 DEF UpgradeMove
    <3>2. conns[k] = r => k = AnonKey(r)
      BY <2>0, <3>1 DEF KeyedOK, Before
    <3>3. k = UserKey(r)
      BY <2>0, <3>1, <3>2, ConstantsOK DEF Typed
    <3>4. pc'[H(r)] = "run" /\ connKey'[r] = UserKey(r)
      BY <2>0, <3>1, EntersWith
    <3> QED BY <3>3, <3>4 DEF Before
  <2>3. CASE ~RegisterWrite(r) /\ ~UpgradeMove(r)
    <3>1. conns[k] = r
      <4>1. ASSUME NEW q \in Requests, RegisterWrite(q), conns[k] # r PROVE q = r
        BY <4>1 DEF RegisterWrite, Typed
      <4>2. ASSUME NEW q \in Requests, UpgradeMove(q), conns[k] # r PROVE q = r
        <5>1. got[H(q)] = r
          BY <4>2, ConstantsOK DEF UpgradeMove, Typed
        <5> QED BY <2>0, <5>1, Goroutines, Distinct DEF KeptOK
      <4>3. ASSUME NEW t \in Threads, UnregisterProtocol(t) PROVE conns[k] = r
        BY <4>3, ConstantsOK DEF UnregisterProtocol, Typed
      <4>4. conns' = conns => conns[k] = r
        OBVIOUS
      <4> QED
        BY <1>2, <2>3, <4>1, <4>2, <4>3, <4>4
        DEF Next, Environment, HandlerStep, SpawnedStep, SendStep, Dispatch, RegisterCheck, Reject,
            UpgradeRead, UpgradeCheck, UnregisterChannel, Crash, SendDirect, ReceiveResult,
            CallTimeOutProtocol, CallRegisterChannel, Produce, PublishOrder, PublishCancelAll,
            ArmTimeout, EvalTimeout, Expire, DeleteTimeout, GetProtocol, DoSend, PeekTimeout,
            AimTimeout, SignalTimeout, ConcurrentMapAccess, handleTopicCancelledOrders,
            PollResult, ContextDone, ClearResult, Disconnect, locals, shared
    <3>2. CASE pc[H(r)] \in {"read", "exist", "move"}
      <4>1. k = AnonKey(r)
        BY <2>0, <3>1, <3>2 DEF KeyedOK, Before
      <4>2. pc'[H(r)] \in {"read", "exist", "move"}
        <5>1. ASSUME NEW q \in Requests, UpgradeRead(q) \/ UpgradeCheck(q)
              PROVE  pc'[H(r)] \in {"read", "exist", "move"}
          <6>1. \E l \in {"exist", "move"} : Goto(H(q), l)
            BY <5>1 DEF UpgradeRead, UpgradeCheck
          <6> QED BY <2>0, <3>2, <6>1 DEF Goto, Typed
        <5>2. CASE \A q \in Requests : ~UpgradeRead(q) /\ ~UpgradeCheck(q)
          <6> DEFINE Goal == pc'[H(r)] = pc[H(r)]
          <6>1. \/ pc'[H(r)] = pc[H(r)]
                \/ pc[H(r)] \in Before /\ pc'[H(r)] \in (Before \ {"idle"}) \cup {"done", "run"}
            BY <1>2, <3>2, HandlerMoves DEF Calls, Sent
          <6>2. ASSUME NEW q \in Requests,
                       \/ Dispatch(q) \/ RegisterCheck(q) \/ Reject(q) \/ RegisterWrite(q) \/ UpgradeMove(q)
                PROVE  pc'[H(r)] = pc[H(r)]
            <7>1. H(q) # H(r) /\ \E l : Goto(H(q), l)
              <8>1. q # r
                BY <2>3, <3>2, <6>2 DEF Dispatch, RegisterCheck, Reject
              <8> QED BY <6>2, <8>1, Distinct
                  DEF Dispatch, RegisterCheck, Reject, RegisterWrite, UpgradeMove, Proceed, Refuse, Enter
            <7> QED BY <2>0, <7>1 DEF Goto, Typed
          <6>3. ASSUME NEW q \in Requests,
                       \/ SendDirect(q) \/ UnregisterChannel(q) \/ Crash(q)
                       \/ CallTimeOutProtocol(q) \/ CallRegisterChannel(q) \/ Produce(q)
                       \/ ReceiveResult(q) \/ PublishOrder(q) \/ PublishCancelAll(q)
                       \/ ArmTimeout(q) \/ EvalTimeout(q) \/ Expire(q) \/ DeleteTimeout(q)
                       \/ PollResult(q) \/ ContextDone(q) \/ ClearResult(q)
                PROVE  pc'[H(r)] = pc[H(r)]
            <7>1. \/ UNCHANGED pc
                  \/ \E l : Goto(G(q), l) \/ Goto(A(q), l) \/ Goto(C(q), l)
                  \/ \E l : Goto(H(q), l) /\ pc[H(q)] = "run"
              BY <6>3 DEF SendDirect, UnregisterChannel, Crash, CallTimeOutProtocol,
                   CallRegisterChannel, Produce, ReceiveResult, PublishOrder, PublishCancelAll,
                   ArmTimeout, EvalTimeout, Expire, DeleteTimeout, PollResult, ContextDone,
                   ClearResult, Calls
            <7> QED BY <2>0, <3>2, <7>1, Distinct DEF Goto, Typed
          <6>4. ASSUME NEW t \in Threads,
                       \/ GetProtocol(t) \/ DoSend(t) \/ PeekTimeout(t) \/ AimTimeout(t)
                       \/ UnregisterProtocol(t) \/ ConcurrentMapAccess(t)
                       \/ handleTopicCancelledOrders(t)
                PROVE  pc'[H(r)] = pc[H(r)]
            <7>1. pc[t] \notin {"read", "exist", "move"} /\ \E l : Goto(t, l)
              BY <6>4 DEF GetProtocol, Calls, DoSend, PeekTimeout, AimTimeout, UnregisterProtocol,
                          ConcurrentMapAccess, handleTopicCancelledOrders, H, Threads
            <7> QED BY <2>0, <3>2, <7>1 DEF Goto, Typed
          <6>5. ASSUME NEW t \in Threads, NEW q \in Requests, SignalTimeout(t, q)
                PROVE  pc'[H(r)] = pc[H(r)]
            BY <2>0, <3>2, <6>5 DEF SignalTimeout, Typed
          <6>6. ASSUME NEW c \in Clients, Disconnect(c) PROVE pc'[H(r)] = pc[H(r)]
            BY <6>6 DEF Disconnect
          <6> HIDE DEF Goal
          <6>7. Goal
            BY <1>2, <5>2, <6>2, <6>3, <6>4, <6>5, <6>6
            DEF Goal, Next, Environment, HandlerStep, SpawnedStep, SendStep
          <6> QED BY <3>2, <6>7 DEF Goal
        <5> QED BY <5>1, <5>2
      <4> QED BY <4>1, <4>2
    <3>3. CASE pc[H(r)] \notin {"read", "exist", "move"}
      <4>1. pc[H(r)] \notin Before /\ connKey[r] \in {k, NoKey}
        BY <2>0, <3>1, <3>3 DEF KeyedOK
      <4>2. connKey'[r] = connKey[r]
        BY <1>2, <4>1, Lasting
      <4>3. pc'[H(r)] \notin Before
        <5>1. pc[H(r)] \notin {"cancelled", "eval"}
          BY DEF ScriptOK
        <5> QED BY <1>2, <4>1, <5>1, HandlerMoves DEF Before, Sent
      <4> QED BY <4>1, <4>2, <4>3
    <3> QED BY <3>2, <3>3
  <2> QED BY <2>1, <2>2, <2>3
<1> QED BY <1>1, <1>2

LEMMA KeyedAlways == Spec => []KeyedOK
<1>1. Init => KeyedOK
  BY ConstantsOK DEF Init, KeyedOK
<1>2. Typed /\ SpawnsOnce /\ ScriptOK /\ SameId /\ Met /\ KeptOK /\ KeyedOK /\ [Next]_vars => KeyedOK'
  BY KeyedKept
<1> QED BY <1>1, <1>2, TypesKept, SpawnedOnce, ScriptsKept, IdsKept, KeptAlways, PTL DEF Spec

(* Where a goroutine other than the handler is before it has answered.     *)
Early == {"idle", "order", "cancelled", "arm", "eval", "select", "disarm", "expired", "get", "send"}

(* The answers by the handler itself.  It places an order, or answers past *)
(* the registry, only if it has not answered, and that ends its script;    *)
(* after an answer through the registry it makes no other if it is one     *)
(* that replies once, and otherwise finds its request unregistered.        *)
RepliesOK(r) ==
    LET h == req[r].handler
        s == script[r]
        n == answers[r][H(r)]
    IN  /\ In(s, Outcomes) \/ pc[A(r)] # "idle" => n = 0
        /\ Alone(r) \/ RepliesOnce(h) =>
              n <= 1 /\ (pc[H(r)] = "send" /\ got[H(r)] = r => n = 0)
        /\ RepliesOnce(h) /\ n > 0 /\ connKey[r] # NoKey => ~In(s, {"key"})
        /\ Alone(r) /\ n > 0 /\ connKey[r] # NoKey /\ In(s, {"key"}) =>
              pc[H(r)] \in Sent \cup {"panic"} \/ \A k \in Keys : conns[k] # r

BoundOK ==
    \A r \in Requests :
        LET own == answers[r]
        IN  /\ pc[H(r)] \in Before => own[H(r)] = 0 /\ own[A(r)] = 0 /\ own[G(r)] = 0
            /\ req[r].handler.proto # "channel" =>
                  /\ \A t \in {A(r), G(r), C(r)} : own[t] <= 1 /\ (pc[t] \in Early => own[t] = 0)
                  /\ RepliesOK(r)
            /\ req[r].handler.proto = "channel" =>
                  /\ own[H(r)] + own[A(r)] + own[G(r)] <= 1
                  /\ In(script[r], {"direct", "wait"}) =>
                        own[H(r)] = 0 /\ own[A(r)] = 0 /\ own[G(r)] = 0

(* No goroutine goes back before its answer.                               *)
LEMMA Onward ==
    ASSUME Typed, SpawnsOnce, ScriptOK, Next, NEW r \in Requests, NEW t \in {A(r), G(r), C(r)},
           pc'[t] \in Early
    PROVE  pc[t] \in Early
<1> DEFINE Goal == pc'[t] \in Early => pc[t] \in Early
<1>0. /\ \A q \in Requests : /\ H(q) \in Threads /\ G(q) \in Threads
                              /\ A(q) \in Threads /\ C(q) \in Threads
                              /\ H(q) # t
      /\ t \in Threads /\ t[1] # "h"
  <2>1. t \in Threads /\ t[1] # "h"
    <3>1. A(r)[1] # "h" /\ G(r)[1] # "h" /\ C(r)[1] # "h"
      BY DEF A, G, C
    <3> QED BY <3>1, Goroutines
  <2>2. ASSUME NEW q \in Requests
        PROVE  H(q) # t
    BY Distinct
  <2> QED BY <2>1, <2>2, Goroutines
<1>1. ASSUME NEW q \in Requests,
             CallTimeOutProtocol(q) \/ CallRegisterChannel(q) \/ Produce(q)
      PROVE  Goal
  <2>1. ASSUME NEW token, Calls(q, token) PROVE 1 \in DOMAIN script[q] /\ script[q][1] = token
    BY <2>1, AfterCall
  <2>2. /\ CallTimeOutProtocol(q) \/ CallRegisterChannel(q) => pc[G(q)] = "idle"
        /\ Produce(q) => pc[A(q)] = "idle"
    BY <2>1 DEF CallTimeOutProtocol, CallRegisterChannel, Produce, SpawnsOnce, Spawns,
                ScriptOK, In, Outcomes
  <2>3. \E u \in Threads : \E l : Goto(u, l) /\ pc[u] = "idle"
    <3>1. \/ (CallTimeOutProtocol(q) \/ CallRegisterChannel(q)) /\ \E l : Goto(G(q), l)
          \/ Produce(q) /\ \E l : Goto(A(q), l)
      BY <1>1 DEF CallTimeOutProtocol, CallRegisterChannel, Produce
    <3> QED BY <1>0, <2>2, <3>1
  <2> QED BY <2>3 DEF Goto, Typed, Early
<1>2. ASSUME NEW q \in Requests,
             \/ Dispatch(q) \/ RegisterCheck(q) \/ Reject(q) \/ RegisterWrite(q)
             \/ UpgradeRead(q) \/ UpgradeCheck(q) \/ UpgradeMove(q)
             \/ SendDirect(q) \/ UnregisterChannel(q) \/ Crash(q)
      PROVE  Goal
  <2>1. UNCHANGED pc \/ \E l : Goto(H(q), l)
    BY <1>2
    DEF Dispatch, RegisterCheck, Reject, RegisterWrite, UpgradeRead, UpgradeCheck, UpgradeMove,
        SendDirect, UnregisterChannel, Crash, Proceed, Refuse, Enter
  <2> QED BY <1>0, <2>1 DEF Goto, Typed
<1>3. ASSUME NEW q \in Requests,
             \/ PublishOrder(q) \/ PublishCancelAll(q)
             \/ ArmTimeout(q) \/ EvalTimeout(q) \/ Expire(q) \/ DeleteTimeout(q)
             \/ PollResult(q) \/ ContextDone(q) \/ ClearResult(q) \/ ReceiveResult(q)
      PROVE  Goal
  <2>1. \E u \in Threads : \E l : Goto(u, l) /\ (pc[u] \in Early \/ l \notin Early)
    BY <1>0, <1>3
    DEF PublishOrder, PublishCancelAll, ArmTimeout, EvalTimeout, Expire, DeleteTimeout, PollResult, ContextDone,
        ClearResult, ReceiveResult, Early
  <2> QED BY <2>1 DEF Goto, Typed
<1>4. ASSUME NEW u \in Threads,
             \/ GetProtocol(u) \/ DoSend(u) \/ PeekTimeout(u) \/ AimTimeout(u)
             \/ UnregisterProtocol(u) \/ ConcurrentMapAccess(u) \/ handleTopicCancelledOrders(u)
      PROVE  Goal
  <2>1. \E l : Goto(u, l) /\ (u = t => pc[u] \in Early \/ l \notin Early)
    BY <1>0, <1>4
    DEF GetProtocol, DoSend, PeekTimeout, AimTimeout, UnregisterProtocol, ConcurrentMapAccess,
        handleTopicCancelledOrders, Early, Ret
  <2> QED BY <2>1 DEF Goto, Typed
<1>5. ASSUME NEW u \in Threads, NEW q \in Requests, SignalTimeout(u, q)
      PROVE  Goal
  <2>1. /\ pc'[u] \in {"free", "disarm"} /\ pc[u] = "sync" /\ pc[G(q)] = "select"
        /\ \A v \in Threads \ {u, G(q)} : pc'[v] = pc[v]
        /\ pc'[u] = "free"
    BY <1>0, <1>5 DEF SignalTimeout, Typed
  <2> QED BY <1>0, <2>1 DEF Early
<1>6. ASSUME NEW c \in Clients, Disconnect(c)
      PROVE  Goal
  BY <1>6 DEF Disconnect
<1> HIDE DEF Goal
<1>7. Goal
  BY <1>1, <1>2, <1>3, <1>4, <1>5, <1>6 DEF Next, Environment, HandlerStep, SpawnedStep, SendStep
<1> QED BY <1>7 DEF Goal

(* What is left of a script was there, and what is called is in it.        *)
LEMMA ScriptShrinks ==
    ASSUME Typed, SpawnsOnce, ScriptOK, Next, NEW r \in Requests
    PROVE  /\ \A T : In(script'[r], T) => In(script[r], T) \/ pc[H(r)] \in Before
           /\ \A T, token : Calls(r, token) /\ token \in T =>
                 /\ In(script[r], T)
                 /\ AtMostOne(script[r], T) => ~In(script'[r], T)
           /\ pc[H(r)] \notin Before => connKey'[r] = connKey[r]
           /\ pc[H(r)] # "run" /\ pc'[H(r)] # "run" => script'[r] = script[r]
           /\ pc'[H(r)] \in Before => pc[H(r)] \in Before
           /\ pc'[H(r)] = "run" /\ pc[H(r)] \in Sent => UnregisterProtocol(H(r))
<1>1. ASSUME NEW token, Calls(r, token)
      PROVE  /\ script[r] \in Seq(Token) /\ script[r] # <<>> /\ Head(script[r]) = token
             /\ script'[r] = Tail(script[r])
  BY <1>1, AfterCall DEF Calls
<1>2. ASSUME NEW T, NEW token, Calls(r, token)
      PROVE  /\ In(script'[r], T) => In(script[r], T)
             /\ token \in T => In(script[r], T)
             /\ token \in T /\ AtMostOne(script[r], T) => ~In(script'[r], T)
  BY <1>1, <1>2, RestIn
<1>3. pc[H(r)] \notin {"cancelled", "eval"}
  BY DEF ScriptOK
<1>4. \A T : In(script'[r], T) => In(script[r], T) \/ pc[H(r)] \in Before
  BY <1>2, <1>3, HandlerMoves
<1>5. pc[H(r)] # "run" /\ pc'[H(r)] # "run" => script'[r] = script[r]
  BY <1>3, HandlerMoves DEF Calls
<1>6. pc'[H(r)] \in Before => pc[H(r)] \in Before
  BY <1>3, HandlerMoves DEF Before, Sent
<1>7. pc'[H(r)] = "run" /\ pc[H(r)] \in Sent => UnregisterProtocol(H(r))
  <2> DEFINE Goal == pc'[H(r)] = "run" /\ pc[H(r)] \in Sent => UnregisterProtocol(H(r))
  <2>0. \A q \in Requests : /\ H(q) \in Threads /\ G(q) \in Threads /\ A(q) \in Threads /\ C(q) \in Threads
                            /\ H(r) \notin {G(q), A(q), C(q)} /\ (q # r => H(q) # H(r))
    BY Goroutines, Distinct
  <2>1. ASSUME NEW q \in Requests,
               \/ Dispatch(q) \/ RegisterCheck(q) \/ Reject(q) \/ RegisterWrite(q)
               \/ UpgradeRead(q) \/ UpgradeCheck(q) \/ UpgradeMove(q)
               \/ SendDirect(q) \/ UnregisterChannel(q) \/ Crash(q)
               \/ CallTimeOutProtocol(q) \/ CallRegisterChannel(q) \/ Produce(q) \/ ReceiveResult(q)
               \/ PublishOrder(q) \/ PublishCancelAll(q)
               \/ ArmTimeout(q) \/ EvalTimeout(q) \/ Expire(q) \/ DeleteTimeout(q)
               \/ PollResult(q) \/ ContextDone(q) \/ ClearResult(q)
        PROVE  Goal
    <3>1. \/ UNCHANGED pc
          \/ \E u \in Threads : \E l : Goto(u, l) /\ (u = H(r) => pc[u] \notin Sent)
      BY <2>0, <2>1
      DEF Dispatch, RegisterCheck, Reject, RegisterWrite, UpgradeRead, UpgradeCheck, UpgradeMove,
          SendDirect, UnregisterChannel, Crash, CallTimeOutProtocol, CallRegisterChannel, Produce,
          ReceiveResult, PublishOrder, PublishCancelAll, ArmTimeout, EvalTimeout, Expire,
          DeleteTimeout, PollResult, ContextDone, ClearResult, Proceed, Refuse, Enter, Calls, Sent
    <3> QED BY <2>0, <3>1 DEF Goto, Typed, Sent
  <2>2. ASSUME NEW u \in Threads,
               \/ GetProtocol(u) \/ DoSend(u) \/ PeekTimeout(u) \/ AimTimeout(u)
               \/ ConcurrentMapAccess(u) \/ handleTopicCancelledOrders(u)
        PROVE  Goal
    <3>1. \E l : Goto(u, l) /\ (u = H(r) /\ pc[u] \in Sent => l # "run")
      BY <2>0, <2>2
      DEF GetProtocol, DoSend, PeekTimeout, AimTimeout, ConcurrentMapAccess,
          handleTopicCancelledOrders, Calls, Sent, H
    <3> QED BY <2>0, <3>1 DEF Goto, Typed, Sent
  <2>3. ASSUME NEW u \in Threads, UnregisterProtocol(u) PROVE Goal
    BY <2>0, <2>3 DEF UnregisterProtocol, Goto, Typed, Sent
  <2>4. ASSUME NEW u \in Threads, NEW q \in Requests, SignalTimeout(u, q) PROVE Goal
    <3>1. /\ pc'[u] = "free" \/ pc'[u] = "disarm"
          /\ \A v \in Threads \ {u, G(q)} : pc'[v] = pc[v]
      BY <2>0, <2>4 DEF SignalTimeout, Typed
    <3> QED BY <2>0, <3>1 DEF Sent
  <2>5. ASSUME NEW c \in Clients, Disconnect(c) PROVE Goal
    BY <2>5 DEF Disconnect, Sent
  <2> HIDE DEF Goal
  <2>6. Goal
    BY <2>1, <2>2, <2>3, <2>4, <2>5 DEF Next, Environment, HandlerStep, SpawnedStep, SendStep
  <2> QED BY <2>6 DEF Goal
<1> QED BY <1>2, <1>4, <1>5, <1>6, <1>7, Lasting

(* The answers by the handler itself.                                      *)
LEMMA RepliesKept ==
    ASSUME Typed, Typed', SpawnsOnce, ScriptOK, SameId, Met, KeptOK, KeyedOK, BoundOK, Next,
           req' = req, clash \subseteq clash',
           NEW r \in Requests, req[r].handler.proto # "channel"
    PROVE  RepliesOK(r)'
<1> DEFINE h == req[r].handler
           s == script[r]
           s1 == script'[r]
           n == answers[r][H(r)]
           n1 == answers'[r][H(r)]
<1>0. /\ H(r) \in Threads /\ A(r) \in Threads /\ n \in Nat /\ H(r)[1] = "h" /\ H(r)[2] = r
      /\ KeyOf(H(r)) = connKey[r]
      /\ ~Panicked
  <2>1. H(r)[1] = "h" /\ H(r)[2] = r
    BY DEF H
  <2>2. KeyOf(H(r)) = connKey[r]
    BY <2>1 DEF KeyOf
  <2> QED BY <2>1, <2>2, Goroutines DEF Typed, Next
<1>1. /\ pc[H(r)] \in Before => n = 0 /\ pc[A(r)] = "idle" /\ s = <<>>
      /\ In(s, Outcomes) \/ pc[A(r)] # "idle" => n = 0
      /\ Alone(r) \/ RepliesOnce(h) => n <= 1 /\ (pc[H(r)] = "send" /\ got[H(r)] = r => n = 0)
      /\ RepliesOnce(h) /\ n > 0 /\ connKey[r] # NoKey => ~In(s, {"key"})
      /\ Alone(r) /\ n > 0 /\ connKey[r] # NoKey /\ In(s, {"key"}) =>
            pc[H(r)] \in Sent \/ \A k \in Keys : conns[k] # r
      /\ pc[H(r)] # "panic"
  <2>1. pc[H(r)] # "panic"
    BY <1>0 DEF Panicked
  <2> QED BY <2>1 DEF BoundOK, RepliesOK, ScriptOK, SpawnsOnce
<1>2. /\ Fits(h, connKey[r], s)
      /\ In(s, Outcomes) => pc[H(r)] = "run" /\ pc[A(r)] = "idle"
      /\ pc[A(r)] # "idle" => pc[H(r)] = "run"
      /\ pc[H(r)] = "send" => ~In(s, Outcomes) /\ (RepliesOnce(h) => ~In(s, {"key"}))
  BY <1>1 DEF ScriptOK, Sent
<1>3. /\ \A T : In(s1, T) => In(s, T) \/ pc[H(r)] \in Before
      /\ \A T, token : Calls(r, token) /\ token \in T =>
            /\ In(s, T)
            /\ AtMostOne(s, T) => ~In(s1, T)
      /\ pc[H(r)] \notin Before => connKey'[r] = connKey[r]
      /\ pc[H(r)] # "run" /\ pc'[H(r)] # "run" => s1 = s
      /\ pc'[H(r)] = "run" /\ pc[H(r)] \in Sent => UnregisterProtocol(H(r))
  BY ScriptShrinks
<1>4. Alone(r)' => Alone(r)
  BY DEF Alone
<1>5. RepliesOnce(h)' = RepliesOnce(h) /\ H(r)' = H(r) /\ A(r)' = A(r)
  BY DEF H, A, RepliesOnce
<1>6. pc'[A(r)] # "idle" => pc[A(r)] # "idle" \/ Produce(r)
  BY OrderMoves
<1>7. Produce(r) => In(s, Outcomes) /\ pc[H(r)] = "run" /\ \E token \in {"produce", "produceAll"} : Calls(r, token)
  <2>1. "produce" \in Outcomes /\ "produceAll" \in Outcomes
    BY DEF Outcomes
  <2> QED BY <1>3, <2>1 DEF Produce, Calls
<1>8. \/ n1 = n
      \/ n1 = n + 1 /\ Reject(r)
      \/ n1 = n + 1 /\ SendDirect(r)
      \/ n1 = n + 1 /\ DoSend(H(r)) /\ got[H(r)] = r /\ pc'[H(r)] \in {"peek", "free"}
  <2>1. ~ReceiveResult(r)
    BY <1>2, <1>3 DEF ReceiveResult, Fits
  <2> QED BY <1>0, <2>1, ResultsChange
<1>9. CASE n1 = n
  <2>1. In(s1, Outcomes) \/ pc'[A(r)] # "idle" => n = 0
    BY <1>1, <1>3, <1>6, <1>7
  <2>2. ASSUME Alone(r) \/ RepliesOnce(h), pc'[H(r)] = "send", got'[H(r)] = r PROVE n = 0
    <3>1. CASE pc[H(r)] = "send" /\ got'[H(r)] = got[H(r)]
      BY <1>1, <2>2, <3>1
    <3>2. CASE GetProtocol(H(r))
      <4>1. Calls(r, "key")
        BY <1>0, <3>2 DEF GetProtocol
      <4>2. In(s, {"key"}) /\ pc[H(r)] = "run"
        BY <1>3, <4>1 DEF Calls
      <4>3. connKey[r] # NoKey /\ conns[connKey[r]] = r
        <5>1. CASE connKey[r] = NoKey
          <6>1. Goto(H(r), "run")
            BY <1>0, <3>2, <5>1, ConstantsOK DEF GetProtocol, Ret
          <6> QED BY <1>0, <2>2, <6>1 DEF Goto, Typed
        <5>2. CASE connKey[r] # NoKey
          <6>1. conns[connKey[r]] \notin Requests => pc'[H(r)] # "send"
            BY <1>0, <3>2, <5>2 DEF GetProtocol, Goto, Typed, Ret
          <6>2. got' = [got EXCEPT ![H(r)] = conns[connKey[r]]]
            <7>1. conns[connKey[r]] # Absent /\ conns[connKey[r]] # Zero
              BY <2>2, <6>1, ConstantsOK
            <7> QED BY <1>0, <3>2, <5>2, <7>1 DEF GetProtocol
          <6> QED BY <1>0, <2>2, <5>2, <6>2 DEF Typed
        <5> QED BY <5>1, <5>2
      <4>4. connKey[r] \in Keys /\ pc[H(r)] \notin Sent
        BY <4>2, <4>3 DEF Typed, Sent
      <4> QED BY <1>0, <1>1, <2>2, <4>2, <4>3, <4>4
    <3> QED BY <1>0, <2>2, <3>1, <3>2, Sending
  <2>3. n > 0 => pc[H(r)] \notin Before
    BY <1>1
  <2>4. RepliesOnce(h) /\ n > 0 /\ connKey'[r] # NoKey => ~In(s1, {"key"})
    BY <1>1, <1>3, <2>3
  <2>5. ASSUME Alone(r)', n > 0, connKey'[r] # NoKey, In(s1, {"key"}),
               pc'[H(r)] \notin Sent \cup {"panic"}, NEW k \in Keys
        PROVE  conns'[k] # r
    <3>1. connKey[r] # NoKey /\ In(s, {"key"}) /\ r \notin clash
      BY <1>3, <1>4, <2>3, <2>5 DEF Alone
    <3>2. pc[H(r)] \notin {"write", "move"}
      BY <2>3, <2>5 DEF Before
    <3>3. CASE conns[k] # r
      BY <3>1, <3>2, <3>3, EntriesChange
    <3>4. CASE conns[k] = r
      <4>1. pc[H(r)] \in Sent
        BY <1>1, <1>4, <2>5, <3>1, <3>4
      <4>2. UnregisterProtocol(H(r))
        <5>1. pc[H(r)] # "cancelled" /\ pc[H(r)] # "eval" /\ pc[H(r)] # "run" /\ pc[H(r)] \notin Before
          BY <4>1 DEF Sent, Before
        <5>2. pc'[H(r)] = "run"
          BY <2>5, <4>1, <5>1, HandlerMoves DEF Calls
        <5> QED BY <1>3, <4>1, <5>2
      <4>3. k = connKey[r]
        <5>1. pc[H(r)] \notin {"read", "exist", "move"}
          BY <4>1 DEF Sent
        <5> QED BY <3>1, <3>4, <5>1 DEF KeyedOK
      <4> QED BY <1>0, <4>2, <4>3, ConstantsOK DEF UnregisterProtocol, Typed
    <3> QED BY <3>3, <3>4
  <2> HIDE DEF h, s, s1, n, n1
  <2>6. /\ In(s1, Outcomes) \/ pc'[A(r)] # "idle" => n1 = 0
        /\ Alone(r)' \/ RepliesOnce(h) => n1 <= 1 /\ (pc'[H(r)] = "send" /\ got'[H(r)] = r => n1 = 0)
        /\ RepliesOnce(h) /\ n1 > 0 /\ connKey'[r] # NoKey => ~In(s1, {"key"})
        /\ Alone(r)' /\ n1 > 0 /\ connKey'[r] # NoKey /\ In(s1, {"key"}) =>
              pc'[H(r)] \in Sent \cup {"panic"} \/ \A k \in Keys : conns'[k] # r
    BY <1>1, <1>4, <1>9, <2>1, <2>2, <2>4, <2>5
  <2> QED BY <1>5, <2>6 DEF RepliesOK, h, s1, n1
<1>10. CASE n1 = n + 1 /\ Reject(r)
  <2>1. pc[H(r)] \in Before /\ s1 = s
    BY <1>10 DEF Reject, Before, locals
  <2>2. n1 = 1 /\ s1 = <<>> /\ pc'[H(r)] = "done" /\ pc'[A(r)] = "idle"
    BY <1>0, <1>1, <1>10, <2>1, Distinct DEF Reject, Goto, Typed
  <2>3. \A T : ~In(s1, T)
    BY <2>2, NothingLeft
  <2> HIDE DEF h, s, s1, n, n1
  <2> QED BY <1>5, <2>2, <2>3 DEF RepliesOK, h, s1, n1
<1>11. CASE n1 = n + 1 /\ SendDirect(r)
  <2>1. Calls(r, "direct") /\ pc' = pc /\ pc[H(r)] = "run" /\ "direct" \in Outcomes /\ connKey' = connKey
    BY <1>11 DEF SendDirect, Calls, Outcomes
  <2>2. In(s, Outcomes) /\ ~In(s1, Outcomes)
    BY <1>2, <1>3, <2>1 DEF Fits
  <2>3. n1 = 1 /\ pc'[A(r)] = "idle" /\ pc'[H(r)] = "run"
    BY <1>1, <1>2, <1>11, <2>1, <2>2
  <2>4. connKey'[r] # NoKey => ~In(s1, {"key"})
    BY <1>2, <1>3, <2>1, <2>2 DEF Fits, Before
  <2> HIDE DEF h, s, s1, n, n1
  <2> QED BY <1>5, <2>2, <2>3, <2>4 DEF RepliesOK, h, s1, n1
<1>12. CASE n1 = n + 1 /\ DoSend(H(r)) /\ got[H(r)] = r /\ pc'[H(r)] \in {"peek", "free"}
  <2>1. pc[H(r)] = "send" /\ s1 = s
    BY <1>3, <1>12 DEF DoSend
  <2>2. ~In(s1, Outcomes) /\ pc'[A(r)] = "idle"
    BY <1>2, <1>6, <1>7, <2>1
  <2>3. Alone(r)' \/ RepliesOnce(h) => n1 = 1
    BY <1>1, <1>4, <1>12, <2>1
  <2>4. pc'[H(r)] \in Sent /\ pc'[H(r)] # "send" /\ (RepliesOnce(h) => ~In(s1, {"key"}))
    BY <1>2, <1>12, <2>1 DEF Sent
  <2> HIDE DEF h, s, s1, n, n1
  <2> QED BY <1>5, <2>2, <2>3, <2>4 DEF RepliesOK, h, s1, n1
<1> QED BY <1>8, <1>9, <1>10, <1>11, <1>12

(* One goroutine answers a request at a time.                              *)
LEMMA OneAnswer ==
    ASSUME Typed, Next, NEW r \in Requests, req[r].handler.proto = "channel",
           NEW t \in Threads, answers'[r][t] # answers[r][t]
    PROVE  /\ answers'[r][t] = answers[r][t] + 1
           /\ \A u \in Threads \ {t} : answers'[r][u] = answers[r][u]
           /\ pc[H(r)] = "idle" \/ \E token \in {"direct", "wait"} : Calls(r, token)
<1> DEFINE P(u) == \/ u = H(r) /\ (SendDirect(r) \/ Reject(r))
                   \/ ReceiveResult(r) /\ res[r] = u
<1>1. \A u \in Threads : answers'[r][u] # answers[r][u] => answers'[r][u] = answers[r][u] + 1 /\ P(u)
  BY ResultsChange
<1>2. ASSUME NEW u \in Threads, P(t), P(u) PROVE u = t
  BY <1>2 DEF SendDirect, Reject, ReceiveResult, Calls
<1>3. P(t) => pc[H(r)] = "idle" \/ \E token \in {"direct", "wait"} : Calls(r, token)
  BY DEF SendDirect, Reject, ReceiveResult
<1> HIDE DEF P
<1> QED BY <1>1, <1>2, <1>3

LEMMA BoundKept ==
    ASSUME Typed, Typed', SpawnsOnce, ScriptOK, SameId, Met, KeptOK, KeyedOK, BoundOK, [Next]_vars
    PROVE  BoundOK'
<1>0. req' = req /\ clash \subseteq clash'
  BY MetKept
<1>1. CASE UNCHANGED vars
  <2>1. UNCHANGED <<req, pc, script, connKey, got, conns, answers, clash>>
    BY <1>1 DEF vars, locals, shared
  <2>2. \A r : RepliesOK(r)' = RepliesOK(r)
    BY <2>1 DEF RepliesOK, RepliesOnce, Alone, H, A
  <2> QED BY <2>1, <2>2 DEF BoundOK, H, A, G, C
<1>2. CASE Next
  <2> SUFFICES ASSUME NEW r \in Requests
               PROVE  /\ pc'[H(r)] \in Before =>
                            answers'[r][H(r)] = 0 /\ answers'[r][A(r)] = 0 /\ answers'[r][G(r)] = 0
                      /\ req[r].handler.proto # "channel" =>
                            /\ \A t \in {A(r), G(r), C(r)} :
                                  answers'[r][t] <= 1 /\ (pc'[t] \in Early => answers'[r][t] = 0)
                            /\ RepliesOK(r)'
                      /\ req[r].handler.proto = "channel" =>
                            /\ answers'[r][H(r)] + answers'[r][A(r)] + answers'[r][G(r)] <= 1
                            /\ In(script'[r], {"direct", "wait"}) =>
                                  answers'[r][H(r)] = 0 /\ answers'[r][A(r)] = 0 /\ answers'[r][G(r)] = 0
    BY <1>0 DEF BoundOK, H, A, G, C
  <2> DEFINE own == answers[r]
             own1 == answers'[r]
  <2>0. /\ H(r) \in Threads /\ A(r) \in Threads /\ G(r) \in Threads /\ C(r) \in Threads /\ C(r) # H(r)
        /\ H(r) # A(r) /\ H(r) # G(r) /\ A(r) # G(r)
        /\ \A t \in Threads : own[t] \in Nat
    BY Goroutines, Distinct DEF Typed
  <2>1. /\ pc[H(r)] \in Before =>
              /\ own[H(r)] = 0 /\ own[A(r)] = 0 /\ own[G(r)] = 0
              /\ pc[A(r)] = "idle" /\ pc[G(r)] = "idle" /\ script[r] = <<>>
        /\ Fits(req[r].handler, connKey[r], script[r])
    BY DEF BoundOK, SpawnsOnce, ScriptOK
  <2>2. /\ \A T : In(script'[r], T) => In(script[r], T) \/ pc[H(r)] \in Before
        /\ \A T, token : Calls(r, token) /\ token \in T =>
              /\ In(script[r], T)
              /\ AtMostOne(script[r], T) => ~In(script'[r], T)
        /\ pc'[H(r)] \in Before => pc[H(r)] \in Before
    BY <1>2, ScriptShrinks
  <2>3. pc'[H(r)] \in Before => own1[H(r)] = 0 /\ own1[A(r)] = 0 /\ own1[G(r)] = 0
    <3> SUFFICES ASSUME pc'[H(r)] \in Before, NEW t \in {H(r), A(r), G(r)}, own1[t] # own[t]
                 PROVE  FALSE
      BY <2>1, <2>2
    <3>1. pc[H(r)] \in Before /\ pc[t] # "send"
      BY <2>1, <2>2 DEF Before
    <3>2. ~SendDirect(r) /\ ~ReceiveResult(r)
      BY <3>1 DEF SendDirect, ReceiveResult, Calls, Before
    <3>3. ~Reject(r)
      BY <2>0 DEF Reject, Goto, Typed, Before
    <3> QED BY <1>2, <2>0, <3>1, <3>2, <3>3, ResultsChange DEF DoSend
  <2>4. ASSUME req[r].handler.proto # "channel", NEW t \in {A(r), G(r), C(r)}
        PROVE  own1[t] <= 1 /\ (pc'[t] \in Early => own1[t] = 0)
    <3>1. own[t] <= 1 /\ (pc[t] \in Early => own[t] = 0)
      BY <2>4 DEF BoundOK
    <3>2. CASE own1[t] = own[t]
      BY <1>2, <3>1, <3>2, Onward
    <3>3. CASE own1[t] # own[t]
      <4>1. ~ReceiveResult(r)
        <5>1. "wait" \in {"chan", "wait"}
          OBVIOUS
        <5> QED BY <2>1, <2>2, <2>4, <5>1 DEF ReceiveResult, Fits
      <4>2. own1[t] = own[t] + 1 /\ pc[t] = "send" /\ pc'[t] \in {"peek", "free"}
        BY <1>2, <2>0, <3>3, <4>1, ResultsChange DEF DoSend
      <4> QED BY <3>1, <4>2 DEF Early
    <3> QED BY <3>2, <3>3
  <2>5. req[r].handler.proto # "channel" => RepliesOK(r)'
    BY <1>0, <1>2, RepliesKept
  <2>6. ASSUME req[r].handler.proto = "channel"
        PROVE  /\ own1[H(r)] + own1[A(r)] + own1[G(r)] <= 1
               /\ In(script'[r], {"direct", "wait"}) =>
                     own1[H(r)] = 0 /\ own1[A(r)] = 0 /\ own1[G(r)] = 0
    <3>1. /\ own[H(r)] + own[A(r)] + own[G(r)] <= 1
          /\ In(script[r], {"direct", "wait"}) => own[H(r)] = 0 /\ own[A(r)] = 0 /\ own[G(r)] = 0
      BY <2>6 DEF BoundOK
    <3>2. CASE \A t \in {H(r), A(r), G(r)} : own1[t] = own[t]
      BY <2>1, <2>2, <3>1, <3>2
    <3>3. ASSUME NEW t \in {H(r), A(r), G(r)}, own1[t] # own[t]
          PROVE  /\ own1[H(r)] + own1[A(r)] + own1[G(r)] <= 1
                 /\ ~In(script'[r], {"direct", "wait"})
      <4>1. /\ own1[t] = own[t] + 1
            /\ \A u \in Threads \ {t} : own1[u] = own[u]
            /\ pc[H(r)] = "idle" \/ \E token \in {"direct", "wait"} : Calls(r, token)
        BY <1>2, <2>0, <2>6, <3>3, OneAnswer
      <4>2. /\ own[H(r)] = 0 /\ own[A(r)] = 0 /\ own[G(r)] = 0
            /\ ~In(script'[r], {"direct", "wait"})
        <5>1. CASE \E token \in {"direct", "wait"} : Calls(r, token)
          BY <2>1, <2>2, <3>1, <5>1 DEF Fits
        <5>2. CASE pc[H(r)] = "idle"
          <6>1. own[H(r)] = 0 /\ own[A(r)] = 0 /\ own[G(r)] = 0 /\ pc[t] = "idle" /\ script[r] = <<>>
            BY <2>1, <5>2 DEF Before
          <6>2. Reject(r)
            BY <1>2, <2>0, <3>3, <5>2, <6>1, ResultsChange DEF SendDirect, ReceiveResult, Calls, DoSend
          <6>3. script'[r] = <<>>
            BY <6>1, <6>2 DEF Reject, locals
          <6> QED BY <6>1, <6>3, NothingLeft
        <5> QED BY <4>1, <5>1, <5>2
      <4> HIDE DEF own, own1
      <4>3. own1[H(r)] + own1[A(r)] + own1[G(r)] <= 1
        BY <2>0, <4>1, <4>2
      <4> QED BY <4>2, <4>3
    <3> QED BY <3>2, <3>3
  <2> QED BY <2>3, <2>4, <2>5, <2>6
<1> QED BY <1>1, <1>2

LEMMA BoundAlways == Spec => []BoundOK
<1>1. Init => BoundOK
  <2> SUFFICES ASSUME Init, NEW r \in Requests
               PROVE  /\ \A t \in Threads : answers[r][t] = 0
                      /\ H(r) \in Threads /\ A(r) \in Threads /\ G(r) \in Threads /\ C(r) \in Threads
                      /\ pc[H(r)] = "idle" /\ \A T : ~In(script[r], T)
    BY DEF BoundOK, RepliesOK
  <2>1. script[r] = <<>>
    BY DEF Init
  <2> QED BY <2>1, Goroutines, NothingLeft DEF Init
<1>2. Typed /\ Typed' /\ SpawnsOnce /\ ScriptOK /\ SameId /\ Met /\ KeptOK /\ KeyedOK /\ BoundOK
      /\ [Next]_vars => BoundOK'
  BY BoundKept
<1> QED BY <1>1, <1>2, TypesKept, SpawnedOnce, ScriptsKept, IdsKept, KeptAlways, KeyedAlways, PTL DEF Spec

(* AnswerBound, for any requests and any handlers ScriptsOK allows: the    *)
(* handler and the answer to its order write once between them and the     *)
(* timeout writes once; over HTTP one of the three writes.                 *)
THEOREM AnsweredOnce == Spec => []AnswerBound
<1>1. Typed /\ ScriptOK /\ BoundOK => AnswerBound
  <2> SUFFICES ASSUME Typed, ScriptOK, BoundOK, NEW r \in Requests,
                      Alone(r) \/ RepliesOnce(req[r].handler)
               PROVE  /\ answers[r][H(r)] + answers[r][A(r)] <= 1
                      /\ answers[r][G(r)] <= 1
                      /\ ~IsWs(r) => answers[r][H(r)] + answers[r][A(r)] + answers[r][G(r)] <= 1
    BY DEF AnswerBound
  <2> DEFINE a == answers[r][H(r)]
             b == answers[r][A(r)]
             c == answers[r][G(r)]
  <2>1. a \in Nat /\ b \in Nat /\ c \in Nat
    BY Goroutines DEF Typed
  <2>2. CASE req[r].handler.proto = "channel"
    <3>1. a + b + c <= 1
      BY <2>2 DEF BoundOK
    <3> HIDE DEF a, b, c
    <3>2. a + b <= 1 /\ c <= 1
      BY <2>1, <3>1
    <3> QED BY <3>1, <3>2 DEF a, b, c
  <2>3. CASE req[r].handler.proto # "channel"
    <3>1. b <= 1 /\ c <= 1 /\ (pc[A(r)] = "idle" => b = 0) /\ (pc[G(r)] = "idle" => c = 0)
      BY <2>3 DEF BoundOK, Early
    <3>2. a <= 1 /\ (pc[A(r)] # "idle" => a = 0)
      BY <2>3 DEF BoundOK, RepliesOK
    <3>3. ~IsWs(r) => pc[G(r)] = "idle"
      BY <2>3 DEF ScriptOK, IsWs
    <3> HIDE DEF a, b, c
    <3>4. a + b <= 1 /\ c <= 1 /\ (~IsWs(r) => a + b + c <= 1)
      BY <2>1, <3>1, <3>2, <3>3
    <3> QED BY <3>4 DEF a, b, c
  <2> QED BY <2>2, <2>3
<1> QED BY <1>1, TypesKept, ScriptsKept, BoundAlways, PTL

-----------------------------------------------------------------------------
(* Who signals a timeout.                                                  *)

(* What a step does to a goroutine that has sent, and to what it waits on. *)
LEMMA SendMoves ==
    ASSUME Typed, SpawnsOnce, ScriptOK, Next, NEW t \in Threads
    PROVE  /\ pc'[t] \in Sent =>
                 \/ pc'[t] = pc[t] /\ chn'[t] = chn[t]
                 \/ DoSend(t) /\ pc'[t] \in {"peek", "free"}
                 \/ PeekTimeout(t)
                 \/ AimTimeout(t)
                 \/ pc[t] = "sync" /\ pc'[t] = "free"
           /\ \/ chn'[t] \in {chn[t], Absent}
              \/ AimTimeout(t)
              \/ \E q \in Requests : t = G(q) /\ EvalTimeout(q)
           /\ \A q \in Requests : t = G(q) /\ pc'[t] = "select" =>
                 \/ pc[t] = "select" /\ chn'[t] = chn[t]
                 \/ EvalTimeout(q)
<1> DEFINE P == pc'[t] \in Sent =>
                 \/ pc'[t] = pc[t] /\ chn'[t] = chn[t]
                 \/ DoSend(t) /\ pc'[t] \in {"peek", "free"}
                 \/ PeekTimeout(t)
                 \/ AimTimeout(t)
                 \/ pc[t] = "sync" /\ pc'[t] = "free"
           Q == \/ chn'[t] \in {chn[t], Absent}
                \/ AimTimeout(t)
                \/ \E q \in Requests : t = G(q) /\ EvalTimeout(q)
           R == \A q \in Requests : t = G(q) /\ pc'[t] = "select" =>
                 \/ pc[t] = "select" /\ chn'[t] = chn[t]
                 \/ EvalTimeout(q)
<1>0. /\ \A q \in Requests : /\ H(q) \in Threads /\ G(q) \in Threads
                              /\ A(q) \in Threads /\ C(q) \in Threads
      /\ \A q, x \in Requests : G(q) = G(x) => q = x
  BY Goroutines, Distinct
<1>1. ASSUME NEW q \in Requests,
             \/ Dispatch(q) \/ RegisterCheck(q) \/ Reject(q) \/ RegisterWrite(q)
             \/ UpgradeRead(q) \/ UpgradeCheck(q) \/ UpgradeMove(q)
             \/ SendDirect(q) \/ UnregisterChannel(q) \/ Crash(q)
             \/ CallTimeOutProtocol(q) \/ CallRegisterChannel(q) \/ Produce(q) \/ ReceiveResult(q)
             \/ PublishOrder(q) \/ PublishCancelAll(q)
             \/ ArmTimeout(q) \/ DeleteTimeout(q)
             \/ PollResult(q) \/ ContextDone(q) \/ ClearResult(q)
      PROVE  P /\ Q /\ R
  <2>1. /\ chn' = chn
        /\ \/ UNCHANGED pc
           \/ \E u \in Threads, l \in Labels \ (Sent \cup {"select"}) : Goto(u, l)
    BY <1>0, <1>1
    DEF Dispatch, RegisterCheck, Reject, RegisterWrite, UpgradeRead, UpgradeCheck, UpgradeMove,
        SendDirect, UnregisterChannel, Crash, CallTimeOutProtocol, CallRegisterChannel, Produce,
        ReceiveResult, PublishOrder, PublishCancelAll, ArmTimeout, DeleteTimeout, PollResult,
        ContextDone, ClearResult, Proceed, Refuse, Enter, locals, shared, Labels, Sent
  <2>2. pc'[t] = pc[t] \/ pc'[t] \notin Sent \cup {"select"}
    BY <2>1 DEF Goto, Typed
  <2> QED BY <2>1, <2>2
<1>2. ASSUME NEW q \in Requests, EvalTimeout(q) \/ Expire(q)
      PROVE  P /\ Q /\ R
  <2>1. CASE t = G(q)
    <3>1. pc'[t] \in {"select", "expired"} /\ (Expire(q) => pc'[t] = "expired" /\ chn'[t] = Absent)
      BY <1>2, <2>1 DEF EvalTimeout, Expire, Goto, Typed
    <3>2. R
      BY <1>0, <1>2, <2>1, <3>1
    <3> QED BY <1>2, <2>1, <3>1, <3>2 DEF Sent
  <2>2. CASE t # G(q)
    <3>1. pc'[t] = pc[t] /\ chn'[t] = chn[t]
      BY <1>2, <2>2 DEF EvalTimeout, Expire, Goto, Typed
    <3> QED BY <3>1
  <2> QED BY <2>1, <2>2
<1>3. ASSUME NEW u \in Threads,
             \/ GetProtocol(u) \/ UnregisterProtocol(u) \/ ConcurrentMapAccess(u)
             \/ handleTopicCancelledOrders(u)
      PROVE  P /\ Q /\ R
  <2>1. chn' = chn /\ \E l \in Labels \ (Sent \cup {"select"}) : Goto(u, l)
    BY <1>3 DEF GetProtocol, UnregisterProtocol, ConcurrentMapAccess, handleTopicCancelledOrders,
                locals, Labels, Sent, Ret
  <2>2. pc'[t] = pc[t] \/ pc'[t] \notin Sent \cup {"select"}
    BY <2>1 DEF Goto, Typed
  <2> QED BY <2>1, <2>2
<1>4. ASSUME NEW u \in Threads, DoSend(u) \/ PeekTimeout(u) \/ AimTimeout(u)
      PROVE  P /\ Q /\ R
  <2>1. CASE t = u
    <3>1. /\ pc'[t] \in {"peek", "free", "aim", "sync"} /\ (DoSend(u) => pc'[t] \in {"peek", "free"})
          /\ (~AimTimeout(u) => chn' = chn)
      BY <1>4, <2>1 DEF DoSend, PeekTimeout, AimTimeout, Goto, Typed, locals
    <3> QED BY <1>4, <2>1, <3>1
  <2>2. CASE t # u
    <3>1. pc'[t] = pc[t] /\ chn'[t] = chn[t]
      BY <1>4, <2>2 DEF DoSend, PeekTimeout, AimTimeout, Goto, Typed, locals
    <3> QED BY <3>1
  <2> QED BY <2>1, <2>2
<1>5. ASSUME NEW u \in Threads, NEW q \in Requests, SignalTimeout(u, q)
      PROVE  P /\ Q /\ R
  <2>1. /\ pc'[u] = "free" /\ pc[u] = "sync" /\ pc[G(q)] = "select" /\ pc'[G(q)] = "disarm"
        /\ chn'[u] = Absent /\ chn'[G(q)] = Absent
        /\ \A v \in Threads \ {u, G(q)} : pc'[v] = pc[v] /\ chn'[v] = chn[v]
    BY <1>0, <1>5 DEF SignalTimeout, Typed
  <2> QED BY <2>1 DEF Sent
<1>6. ASSUME NEW c \in Clients, Disconnect(c)
      PROVE  P /\ Q /\ R
  BY <1>6 DEF Disconnect, locals
<1> HIDE DEF P, Q, R
<1>7. P /\ Q /\ R
  BY <1>1, <1>2, <1>3, <1>4, <1>5, <1>6 DEF Next, Environment, HandlerStep, SpawnedStep, SendStep
<1> QED BY <1>7 DEF P, Q, R

(* What a step does to the goroutine of a timeout.                         *)
LEMMA TimeoutMoves ==
    ASSUME Typed, SpawnsOnce, Next, NEW r \in Requests
    PROVE  /\ pc'[G(r)] = "arm" => pc[G(r)] \in {"idle", "arm"}
           /\ pc'[G(r)] \in Receives => pc[G(r)] \in Receives \/ ArmTimeout(r)
           /\ pc'[G(r)] = "disarm" =>
                 pc[G(r)] = "disarm" \/ \E t \in Threads : SignalTimeout(t, r)
           /\ pc'[G(r)] = "done" =>
                 \/ pc[G(r)] \in {"done", "disarm", "offer"}
                 \/ GetProtocol(G(r)) \/ UnregisterProtocol(G(r))
<1> DEFINE Goal ==
           /\ pc'[G(r)] = "arm" => pc[G(r)] \in {"idle", "arm"}
           /\ pc'[G(r)] \in Receives => pc[G(r)] \in Receives \/ ArmTimeout(r)
           /\ pc'[G(r)] = "disarm" =>
                 pc[G(r)] = "disarm" \/ \E t \in Threads : SignalTimeout(t, r)
           /\ pc'[G(r)] = "done" =>
                 \/ pc[G(r)] \in {"done", "disarm", "offer"}
                 \/ GetProtocol(G(r)) \/ UnregisterProtocol(G(r))
<1>0. /\ \A q \in Requests : /\ H(q) \in Threads /\ G(q) \in Threads
                              /\ A(q) \in Threads /\ C(q) \in Threads
                              /\ H(q) # G(r) /\ A(q) # G(r) /\ C(q) # G(r)
                              /\ (q # r => G(q) # G(r))
  BY Goroutines, Distinct
<1>1. ASSUME pc'[G(r)] = pc[G(r)] PROVE Goal
  BY <1>1
<1>2. ASSUME NEW q \in Requests,
             \/ Dispatch(q) \/ RegisterCheck(q) \/ Reject(q) \/ RegisterWrite(q)
             \/ UpgradeRead(q) \/ UpgradeCheck(q) \/ UpgradeMove(q)
             \/ SendDirect(q) \/ UnregisterChannel(q) \/ Crash(q) \/ Produce(q)
             \/ PublishOrder(q) \/ PublishCancelAll(q)
      PROVE  Goal
  <2>1. UNCHANGED pc \/ \E l : Goto(H(q), l) \/ Goto(A(q), l) \/ Goto(C(q), l)
    BY <1>2
    DEF Dispatch, RegisterCheck, Reject, RegisterWrite, UpgradeRead, UpgradeCheck, UpgradeMove,
        SendDirect, UnregisterChannel, Crash, Produce, PublishOrder, PublishCancelAll,
        Proceed, Refuse, Enter
  <2>2. pc'[G(r)] = pc[G(r)]
    BY <1>0, <2>1 DEF Goto, Typed
  <2> QED BY <1>1, <2>2
<1>3. ASSUME NEW q \in Requests,
             \/ CallTimeOutProtocol(q) \/ CallRegisterChannel(q) \/ ReceiveResult(q)
             \/ ArmTimeout(q) \/ EvalTimeout(q) \/ Expire(q) \/ DeleteTimeout(q)
             \/ PollResult(q) \/ ContextDone(q) \/ ClearResult(q)
      PROVE  Goal
  <2>1. CASE q # r
    <3>1. \E l : Goto(G(q), l)
      BY <1>3 DEF CallTimeOutProtocol, CallRegisterChannel, ReceiveResult, ArmTimeout, EvalTimeout,
                  Expire, DeleteTimeout, PollResult, ContextDone, ClearResult
    <3>2. pc'[G(r)] = pc[G(r)]
      BY <1>0, <2>1, <3>1 DEF Goto, Typed
    <3> QED BY <1>1, <3>2
  <2>2. CASE q = r /\ CallTimeOutProtocol(r)
    <3>1. 1 \in DOMAIN script[r] /\ script[r][1] = "go"
      BY <2>2, AfterCall DEF CallTimeOutProtocol
    <3>2. pc[G(r)] = "idle" /\ pc'[G(r)] = "arm"
      BY <1>0, <2>2, <3>1 DEF SpawnsOnce, Spawns, CallTimeOutProtocol, Goto, Typed
    <3> QED BY <3>2 DEF Receives
  <2>3. CASE q = r /\ ~CallTimeOutProtocol(r)
    <3>1. \/ pc'[G(r)] = "eval" /\ ArmTimeout(r)
          \/ pc'[G(r)] = "select" /\ pc[G(r)] = "eval"
          \/ pc'[G(r)] = "expired" /\ pc[G(r)] = "select"
          \/ pc'[G(r)] = "done" /\ pc[G(r)] \in {"disarm", "offer"}
          \/ pc'[G(r)] \in {"get", "poll", "clear", "offer"}
      BY <1>0, <1>3, <2>3
      DEF CallRegisterChannel, ReceiveResult, ArmTimeout, EvalTimeout,
          Expire, DeleteTimeout, PollResult, ContextDone, ClearResult, Goto, Typed
    <3> QED BY <3>1 DEF Receives
  <2> QED BY <1>3, <2>1, <2>2, <2>3
<1>4. ASSUME NEW t \in Threads,
             \/ GetProtocol(t) \/ DoSend(t) \/ PeekTimeout(t) \/ AimTimeout(t)
             \/ UnregisterProtocol(t) \/ ConcurrentMapAccess(t) \/ handleTopicCancelledOrders(t)
      PROVE  Goal
  <2>1. CASE t # G(r)
    <3>1. \E l : Goto(t, l)
      BY <1>4 DEF GetProtocol, DoSend, PeekTimeout, AimTimeout, UnregisterProtocol,
                  ConcurrentMapAccess, handleTopicCancelledOrders
    <3>2. pc'[G(r)] = pc[G(r)]
      BY <1>0, <2>1, <3>1 DEF Goto, Typed
    <3> QED BY <1>1, <3>2
  <2>2. CASE t = G(r)
    <3>1. \/ pc'[t] = "done" /\ (GetProtocol(t) \/ UnregisterProtocol(t))
          \/ pc'[t] \in {"send", "panic", "aborted", "get", "run"} \cup Sent
      BY <1>0, <1>4, <2>2 DEF GetProtocol, DoSend, PeekTimeout, AimTimeout, UnregisterProtocol,
           ConcurrentMapAccess, handleTopicCancelledOrders, Ret, Goto, Typed, Sent
    <3> QED BY <2>2, <3>1 DEF Receives, Sent
  <2> QED BY <2>1, <2>2
<1>5. ASSUME NEW t \in Threads, NEW q \in Requests, SignalTimeout(t, q)
      PROVE  Goal
  <2>1. /\ pc'[t] = "free" /\ pc'[G(q)] = "disarm" /\ pc[G(q)] = "select"
        /\ \A u \in Threads \ {t, G(q)} : pc'[u] = pc[u]
    BY <1>0, <1>5 DEF SignalTimeout, Typed
  <2>2. CASE q = r
    BY <1>5, <2>1, <2>2 DEF Receives
  <2>3. CASE q # r
    BY <1>0, <2>1, <2>3 DEF Receives
  <2> QED BY <2>2, <2>3
<1>6. ASSUME NEW c \in Clients, Disconnect(c)
      PROVE  Goal
  BY <1>1, <1>6 DEF Disconnect
<1> HIDE DEF Goal
<1>7. Goal
  BY <1>2, <1>3, <1>4, <1>5, <1>6 DEF Next, Environment, HandlerStep, SpawnedStep, SendStep
<1> QED BY <1>7 DEF Goal

(* Who stores or deletes a timeout's channel.                              *)
LEMMA TimersChange ==
    ASSUME Typed, Next, NEW k \in Keys, timers'[k] # timers[k]
    PROVE  \E q \in Requests : (ArmTimeout(q) \/ DeleteTimeout(q)) /\ connKey[q] = k
<1>1. ASSUME NEW q \in Requests, ArmTimeout(q) \/ DeleteTimeout(q) PROVE connKey[q] = k
  BY <1>1 DEF ArmTimeout, DeleteTimeout, SetTimer, Typed
<1>2. timers' # timers
  OBVIOUS
<1> QED
  BY <1>1, <1>2
  DEF Next, Environment, HandlerStep, SpawnedStep, SendStep, Dispatch, RegisterCheck, Reject,
      RegisterWrite, UpgradeRead, UpgradeCheck, UpgradeMove, UnregisterChannel, Crash, SendDirect,
      ReceiveResult, CallTimeOutProtocol, CallRegisterChannel, Produce, PublishOrder,
      PublishCancelAll, EvalTimeout, Expire, GetProtocol, DoSend, PeekTimeout, AimTimeout,
      UnregisterProtocol, SignalTimeout, ConcurrentMapAccess, handleTopicCancelledOrders,
      PollResult, ContextDone, ClearResult, Disconnect, locals, shared

(* doSend's GetProtocol finds a request under the goroutine's key.         *)
LEMMA Gets ==
    ASSUME Typed, NEW t \in Threads, GetProtocol(t)
    PROVE  /\ pc'[t] = "send" =>
                 KeyOf(t) \in Keys /\ conns[KeyOf(t)] \in Requests /\ got'[t] = conns[KeyOf(t)]
           /\ pc'[t] = "done" => KeyOf(t) = NoKey \/ conns[KeyOf(t)] = Absent
           /\ IF t[1] = "h" THEN Calls(t[2], "key") ELSE pc[t] = "get"
           /\ \A u \in Threads \ {t} : pc'[u] = pc[u]
<1> DEFINE conn == IF KeyOf(t) = NoKey THEN Absent ELSE conns[KeyOf(t)]
<1>0. KeyOf(t) \in Keys \cup {NoKey}
  BY KeyOfGoroutine
<1>1. \/ conn = Absent /\ Goto(t, Ret(t))
      \/ conn = Zero /\ \E l \in {"aborted", "panic"} : Goto(t, l)
      \/ conn \in Requests /\ Goto(t, "send") /\ got' = [got EXCEPT ![t] = conn]
  BY DEF GetProtocol
<1>2. Ret(t) \in {"run", "done"} /\ conn # Absent => KeyOf(t) # NoKey
  BY DEF Ret
<1>3. IF t[1] = "h" THEN Calls(t[2], "key") ELSE pc[t] = "get"
  BY DEF GetProtocol
<1>4. \A u \in Threads \ {t} : pc'[u] = pc[u]
  BY <1>1 DEF Goto, Typed
<1>5. CASE conn = Absent /\ Goto(t, Ret(t))
  BY <1>0, <1>3, <1>4, <1>5 DEF Goto, Typed, Ret
<1>6. CASE conn = Zero /\ \E l \in {"aborted", "panic"} : Goto(t, l)
  BY <1>3, <1>4, <1>6 DEF Goto, Typed
<1>7. CASE conn \in Requests /\ Goto(t, "send") /\ got' = [got EXCEPT ![t] = conn]
  <2>1. KeyOf(t) # NoKey
    BY <1>7, ConstantsOK
  <2> QED BY <1>0, <1>3, <1>4, <1>7, <2>1 DEF Goto, Typed
<1> QED BY <1>1, <1>5, <1>6, <1>7

(* How a handler leaves requestHelper.                                     *)
LEMMA HandlerEnters ==
    ASSUME Typed, Next, NEW r \in Requests, pc[H(r)] \in Before, pc'[H(r)] \notin Before
    PROVE  Dispatch(r) \/ Reject(r) \/ RegisterWrite(r) \/ UpgradeMove(r)
<1> DEFINE Goal == \/ Dispatch(r) \/ Reject(r) \/ RegisterWrite(r) \/ UpgradeMove(r)
                   \/ pc'[H(r)] = pc[H(r)] \/ pc'[H(r)] \in Before
<1>0. \A q \in Requests : /\ H(q) \in Threads /\ G(q) \in Threads
                           /\ A(q) \in Threads /\ C(q) \in Threads
                           /\ H(r) \notin {G(q), A(q), C(q)} /\ (q # r => H(q) # H(r))
  BY Goroutines, Distinct
<1>1. ASSUME NEW q \in Requests,
             Dispatch(q) \/ Reject(q) \/ RegisterWrite(q) \/ UpgradeMove(q)
      PROVE  Goal
  <2>1. \E l : Goto(H(q), l)
    BY <1>1 DEF Dispatch, Reject, RegisterWrite, UpgradeMove, Proceed, Refuse, Enter
  <2> QED BY <1>0, <1>1, <2>1 DEF Goto, Typed
<1>2. ASSUME NEW q \in Requests, RegisterCheck(q) \/ UpgradeRead(q) \/ UpgradeCheck(q)
      PROVE  Goal
  <2>1. \E l \in Before : Goto(H(q), l)
    BY <1>2 DEF RegisterCheck, UpgradeRead, UpgradeCheck, Before
  <2> QED BY <1>0, <2>1 DEF Goto, Typed
<1>3. ASSUME NEW q \in Requests,
             \/ SendDirect(q) \/ UnregisterChannel(q) \/ Crash(q)
             \/ CallTimeOutProtocol(q) \/ CallRegisterChannel(q) \/ Produce(q) \/ ReceiveResult(q)
             \/ PublishOrder(q) \/ PublishCancelAll(q)
             \/ ArmTimeout(q) \/ EvalTimeout(q) \/ Expire(q) \/ DeleteTimeout(q)
             \/ PollResult(q) \/ ContextDone(q) \/ ClearResult(q)
      PROVE  Goal
  <2>1. \/ UNCHANGED pc
        \/ \E l : Goto(G(q), l) \/ Goto(A(q), l) \/ Goto(C(q), l)
        \/ \E l : Goto(H(q), l) /\ pc[H(q)] = "run"
    BY <1>3 DEF SendDirect, UnregisterChannel, Crash, CallTimeOutProtocol,
         CallRegisterChannel, Produce, ReceiveResult, PublishOrder, PublishCancelAll,
         ArmTimeout, EvalTimeout, Expire, DeleteTimeout, PollResult, ContextDone,
         ClearResult, Calls
  <2>2. pc[H(r)] # "run"
    BY DEF Before
  <2> QED BY <1>0, <2>1, <2>2 DEF Goto, Typed
<1>4. ASSUME NEW t \in Threads,
             \/ GetProtocol(t) \/ DoSend(t) \/ PeekTimeout(t) \/ AimTimeout(t)
             \/ UnregisterProtocol(t) \/ ConcurrentMapAccess(t)
             \/ handleTopicCancelledOrders(t)
      PROVE  Goal
  <2>1. pc[t] \notin Before /\ \E l : Goto(t, l)
    BY <1>4 DEF GetProtocol, Calls, DoSend, PeekTimeout, AimTimeout, UnregisterProtocol,
                ConcurrentMapAccess, handleTopicCancelledOrders, H, Threads, Before
  <2> QED BY <1>0, <2>1 DEF Goto, Typed
<1>5. ASSUME NEW t \in Threads, NEW q \in Requests, SignalTimeout(t, q)
      PROVE  Goal
  <2>1. pc[t] = "sync" /\ pc[G(q)] = "select" /\ \A u \in Threads \ {t, G(q)} : pc'[u] = pc[u]
    BY <1>0, <1>5 DEF SignalTimeout, Typed
  <2> QED BY <1>0, <2>1 DEF Before
<1>6. ASSUME NEW c \in Clients, Disconnect(c) PROVE Goal
  BY <1>6 DEF Disconnect
<1> HIDE DEF Goal
<1>7. Goal
  BY <1>1, <1>2, <1>3, <1>4, <1>5, <1>6 DEF Next, Environment, HandlerStep, SpawnedStep, SendStep
<1> QED BY <1>7 DEF Goal

Orders == {"produce", "produceAll"}

(* Of a request that has met no other: its goroutines send under its key,  *)
(* to itself, and have answered it once they have sent; who places an      *)
(* order without a key is not registered; the timeout's channel is in the  *)
(* map from its start to its end, and who is about to signal it found it   *)
(* there; a timeout that is over without having answered was signalled, or *)
(* found the request unregistered, by one that has answered it.            *)
SendersOK(r) ==
    LET own == answers[r]
        k == connKey[r]
    IN  /\ k = NoKey /\ pc[H(r)] \notin Before /\ (In(script[r], Orders) \/ pc[A(r)] # "idle") =>
              \A l \in Keys : conns[l] # r
        /\ \A t \in OwnThreads(r) :
              /\ pc[t] \in {"send"} \cup Sent => KeyOf(t) = k /\ k # NoKey
              /\ pc[t] = "send" => got[t] = r
              /\ pc[t] \in {"peek", "aim", "sync"} => IsWs(r)
              /\ pc[t] \in Sent /\ IsWs(r) => own[t] > 0

TimerOK(r) ==
    LET own == answers[r]
        k == connKey[r]
    IN  k # NoKey =>
           /\ pc[G(r)] \in Receives => timers[k] = r
           /\ pc[G(r)] = "select" => chn[G(r)] = r
           /\ \A t \in OwnThreads(r) :
                 /\ pc[t] \in {"aim", "sync"} => t # G(r) /\ pc[G(r)] \notin {"idle", "arm"}
                 /\ pc[t] = "sync" => chn[t] = r \/ (chn[t] = Absent /\ pc[G(r)] \notin Receives)

SignalOK(r) ==
    LET own == answers[r]
        k == connKey[r]
    IN  k # NoKey /\ IsWs(r) =>
           /\ pc[G(r)] = "disarm" \/ (pc[G(r)] = "done" /\ own[G(r)] = 0) =>
                 \E u \in OwnThreads(r) : own[u] > 0 /\ pc[u] \notin {"peek", "aim", "sync"}
           /\ pc[H(r)] \notin Before /\ conns[k] # r =>
                 \E u \in OwnThreads(r) : own[u] > 0 /\ pc[u] \notin Sent

StuckOK ==
    /\ \A r \in Requests : /\ pc[C(r)] # "idle" => pc[A(r)] # "idle"
                           /\ pc[H(r)] \in Before => connKey[r] = NoKey
    /\ \A t \in Threads : chn[t] \in Requests => Together(chn[t], t[2])
    /\ \A r \in Requests \ clash : SendersOK(r) /\ TimerOK(r) /\ SignalOK(r)

(* A timeout that runs under the key of a request that does, too, and has  *)
(* met no other, is its own.                                               *)
LEMMA TimerIsOwn ==
    ASSUME Typed, SpawnsOnce, SameId, ApartOK, NEW r \in Requests \ clash,
           NEW t \in OwnThreads(r), pc[t] \notin Ends \cup {"run"},
           NEW q \in Requests, pc[G(q)] \notin Ends \cup {"run"},
           connKey[q] = connKey[r], connKey[r] # NoKey
    PROVE  q = r
<1>1. t \in Threads /\ t[2] = r /\ G(q) \in Threads /\ G(q)[2] = q
  BY Goroutines, Distinct DEF OwnThreads
<1>2. pc[H(r)] # "idle" /\ ~Quiet(r)
  BY <1>1, Running DEF Quiet
<1>3. req[q].id = req[r].id
  BY DEF SameId
<1>4. Together(r, q)
  BY <1>1, <1>2, <1>3, FinderMet
<1> QED BY <1>4 DEF Together

(* Facts about a step that the parts of StuckOK need. *)
LEMMA OwnStep ==
    ASSUME Typed, Typed', SpawnsOnce, ScriptOK, KeptOK, BoundOK, StuckOK, Next,
           NEW r \in Requests \ clash, NEW t \in OwnThreads(r)
    PROVE  /\ t \in Threads /\ t[2] = r
           /\ answers[r][t] \in Nat /\ answers'[r][t] \in Nat /\ answers'[r][t] >= answers[r][t]
           /\ pc[t] \notin Before => pc[H(r)] \notin Before
           /\ pc[H(r)] \notin Before => connKey'[r] = connKey[r] /\ KeyOf(t)' = KeyOf(t)
           /\ IsWs(r) /\ answers[r][t] > 0 => 
                 /\ pc[t] \notin {"peek", "aim", "sync"} => pc'[t] \notin {"peek", "aim", "sync"}
                 /\ pc[t] \notin Sent => pc'[t] \notin Sent
<1>1. t \in Threads /\ t[2] = r
  BY Goroutines, Distinct DEF OwnThreads
<1>2. answers[r][t] \in Nat /\ answers'[r][t] \in Nat
  BY <1>1 DEF Typed
<1>3. answers'[r][t] >= answers[r][t]
  BY <1>1, <1>2, ResultsChange
<1>4. pc[t] \notin Before => pc[H(r)] \notin Before
  <2>1. pc[t] = "idle" => pc[t] \in Before
    BY DEF Before
  <2> QED BY <2>1 DEF OwnThreads, SpawnsOnce
<1>5. ASSUME pc[H(r)] \notin Before PROVE connKey'[r] = connKey[r] /\ KeyOf(t)' = KeyOf(t)
  <2>1. connKey'[r] = connKey[r]
    BY <1>5, Lasting
  <2>2. req' = req
    BY DEF Next, Environment, HandlerStep, SpawnedStep, SendStep, locals, Proceed, Refuse, Enter,
       UpgradeRead, UpgradeCheck, SendDirect, UnregisterChannel, Crash, RegisterWrite, UpgradeMove,
       CallTimeOutProtocol, CallRegisterChannel, Produce, ReceiveResult, PublishOrder,
       PublishCancelAll, ArmTimeout, EvalTimeout, Expire, DeleteTimeout, PollResult, ContextDone,
       ClearResult, GetProtocol, DoSend, PeekTimeout, AimTimeout, UnregisterProtocol,
       ConcurrentMapAccess, handleTopicCancelledOrders, SignalTimeout, Disconnect, Dispatch,
       RegisterCheck, Reject
  <2> QED BY <1>1, <2>1, <2>2 DEF KeyOf, UserKey
<1>6. ASSUME IsWs(r), answers[r][t] > 0 PROVE ~DoSend(t)
  <2> SUFFICES ASSUME pc[t] = "send" PROVE answers[r][t] = 0
    BY <1>6 DEF DoSend
  <2>1. got[t] = r
    BY DEF StuckOK, SendersOK
  <2>2. req[r].handler.proto # "channel"
    BY <1>6 DEF IsWs
  <2>3. CASE t = H(r)
    BY <2>1, <2>2, <2>3 DEF BoundOK, RepliesOK, Alone
  <2>4. CASE t \in {A(r), G(r), C(r)}
    BY <2>2, <2>4 DEF BoundOK, Early
  <2> QED BY <2>3, <2>4 DEF OwnThreads
<1>7. ASSUME IsWs(r), answers[r][t] > 0
      PROVE  /\ pc[t] \notin {"peek", "aim", "sync"} => pc'[t] \notin {"peek", "aim", "sync"}
             /\ pc[t] \notin Sent => pc'[t] \notin Sent
  <2>1. pc'[t] \in Sent => \/ pc'[t] = pc[t] \/ pc[t] \in {"peek", "aim"}
                           \/ pc[t] = "sync" /\ pc'[t] = "free"
    BY <1>1, <1>6, <1>7, SendMoves DEF PeekTimeout, AimTimeout
  <2> QED BY <2>1 DEF Sent
<1> QED BY <1>1, <1>2, <1>3, <1>4, <1>5, <1>7

LEMMA SendersOnly ==
    ASSUME Typed, Typed', SpawnsOnce, ScriptOK, SameId, Met, KeptOK, KeyedOK, BoundOK,
           ApartOK', StuckOK, Next, req' = req, clash \subseteq clash',
           NEW r \in Requests \ clash'
    PROVE  SendersOK(r)'
<1>0. /\ r \in Requests \ clash /\ H(r) \in Threads /\ A(r) \in Threads /\ SendersOK(r)
      /\ H(r)' = H(r) /\ A(r)' = A(r) /\ OwnThreads(r)' = OwnThreads(r) /\ IsWs(r)' = IsWs(r)
  BY Goroutines DEF StuckOK, H, A, G, C, OwnThreads, IsWs
<1>1. ASSUME connKey'[r] = NoKey, pc'[H(r)] \notin Before,
             In(script'[r], Orders) \/ pc'[A(r)] # "idle", NEW l \in Keys
      PROVE  conns'[l] # r
  <2>1. CASE pc[H(r)] \notin Before
    <3>1. connKey[r] = NoKey
      BY <1>1, <2>1, Lasting
    <3>2. In(script'[r], Orders) => In(script[r], Orders)
      BY <2>1, ScriptShrinks
    <3>3. pc'[A(r)] # "idle" => pc[A(r)] # "idle" \/ In(script[r], Orders)
      <4>1. ASSUME NEW token \in Orders, Calls(r, token) PROVE In(script[r], Orders)
        BY <4>1, ScriptShrinks
      <4>2. Produce(r) => In(script[r], Orders)
        BY <4>1 DEF Produce, Orders
      <4> QED BY <4>2, OrderMoves
    <3>4. conns[l] # r
      BY <1>0, <1>1, <2>1, <3>1, <3>2, <3>3 DEF SendersOK
    <3> QED BY <1>0, <2>1, <3>4, EntriesChange DEF Before
  <2>2. CASE pc[H(r)] \in Before
    <3>0. script[r] = <<>> /\ pc[A(r)] = "idle"
      BY <2>2 DEF ScriptOK, SpawnsOnce
    <3>1. Dispatch(r) \/ Reject(r) \/ RegisterWrite(r) \/ UpgradeMove(r)
      BY <1>1, <2>2, HandlerEnters
    <3>2. pc'[A(r)] = "idle"
      <4>1. \E u : Goto(H(r), u)
        BY <3>1 DEF Dispatch, Reject, RegisterWrite, UpgradeMove, Proceed, Refuse, Enter
      <4> QED BY <1>0, <3>0, <4>1, Distinct DEF Goto, Typed
    <3>3. CASE Dispatch(r)
      BY <3>3 DEF Dispatch, KeptOK
    <3>4. CASE Reject(r)
      <4>1. script'[r] = <<>>
        BY <3>0, <3>4 DEF Reject, locals
      <4> QED BY <1>1, <3>2, <4>1, NothingLeft
    <3>5. ASSUME NEW k \in Keys, Proceed(r, k) \/ Refuse(r, k) PROVE FALSE
      <4>1. connKey'[r] = k
        BY <3>5, EntersWith
      <4> QED BY <1>1, <4>1, ConstantsOK
    <3>6. ASSUME Refuse(r, NoKey) PROVE FALSE
      <4>1. PICK x \in {"direct", "key"}, b \in req[r].handler.body \cup {<<>>} :
               script' = [script EXCEPT ![r] = <<x>> \o b] /\ (req[r].handler.falls \/ b = <<>>)
        BY <3>6 DEF Refuse, Enter
      <4>2. req[r].handler \in Handlers /\ req[r].handler \in Handler
        BY <1>0, KeysOfRequest DEF Typed, Input
      <4>3. b \in Seq(Token) /\ x \in Token /\ x \notin Orders
        <5>1. b \in Seq(Token)
          <6>1. req[r].handler.body \in SUBSET Seq(Token)
            BY <4>2 DEF Handler
          <6>2. <<>> \in Seq(Token)
            OBVIOUS
          <6> QED BY <4>1, <6>1, <6>2
        <5>2. x \in Token /\ x \notin Orders
          BY <4>1 DEF Token, Orders
        <5> QED BY <5>1, <5>2
      <4>4. ~In(b, Orders)
        <5>1. CASE b = <<>>
          BY <5>1, NothingLeft
        <5>2. CASE b \in req[r].handler.body /\ req[r].handler.falls
          BY <4>2, <5>2, ScriptsOK DEF In, Orders, Outcomes
        <5> QED BY <4>1, <5>1, <5>2
      <4>5. script'[r] = <<x>> \o b
        BY <4>1 DEF Typed
      <4>6. ~In(<<x>> \o b, Orders)
        BY <4>3, <4>4, LeadIn
      <4> QED BY <1>1, <3>2, <4>5, <4>6
    <3>7. CASE RegisterWrite(r)
      <4>1. \/ \E k \in Keys : Proceed(r, k) \/ Refuse(r, k)
            \/ Refuse(r, NoKey)
            \/ Goto(H(r), "read")
        BY <1>0, <3>7, KeysOfRequest DEF RegisterWrite
      <4>2. Goto(H(r), "read") => pc'[H(r)] \in Before
        BY <1>0 DEF Goto, Typed, Before
      <4> QED BY <1>1, <3>5, <3>6, <4>1, <4>2
    <3>8. CASE UpgradeMove(r)
      BY <1>0, <3>5, <3>8, KeysOfRequest DEF UpgradeMove
    <3> QED BY <3>1, <3>3, <3>4, <3>7, <3>8
  <2> QED BY <2>1, <2>2
<1>2. ASSUME NEW t \in OwnThreads(r)
      PROVE  /\ pc'[t] \in {"send"} \cup Sent => KeyOf(t)' = connKey'[r] /\ connKey'[r] # NoKey
             /\ pc'[t] = "send" => got'[t] = r
             /\ pc'[t] \in {"peek", "aim", "sync"} => IsWs(r)
             /\ pc'[t] \in Sent /\ IsWs(r) => answers'[r][t] > 0
  <2>0. /\ t \in Threads /\ t[2] = r
        /\ answers[r][t] \in Nat /\ answers'[r][t] \in Nat /\ answers'[r][t] >= answers[r][t]
        /\ pc[t] \notin Before => pc[H(r)] \notin Before
        /\ pc[H(r)] \notin Before => connKey'[r] = connKey[r] /\ KeyOf(t)' = KeyOf(t)
    BY <1>0, OwnStep
  <2>1. /\ pc[t] \in {"send"} \cup Sent => KeyOf(t) = connKey[r] /\ connKey[r] # NoKey
        /\ pc[t] = "send" => got[t] = r
        /\ pc[t] \in {"peek", "aim", "sync"} => IsWs(r)
        /\ pc[t] \in Sent /\ IsWs(r) => answers[r][t] > 0
    BY <1>0 DEF SendersOK
  <2>2. CASE DoSend(t)
    <3>1. pc[t] = "send" /\ pc[t] \notin Before
      BY <2>2 DEF DoSend, Before
    <3>2. \/ IsWs(r) /\ Answer(r, t)
          \/ ~IsWs(r) /\ pc'[t] = "free"
      BY <2>0, <2>1, <2>2, <3>1 DEF DoSend, IsWs, Goto, Typed
    <3>3. IsWs(r) => answers'[r][t] > 0
      <4>1. Answer(r, t) => answers'[r][t] = answers[r][t] + 1
        BY <2>0 DEF Answer, Typed
      <4> QED BY <2>0, <3>2, <4>1
    <3>4. pc'[t] # "send"
      BY <2>0, <2>2 DEF DoSend, Goto, Typed
    <3> QED BY <2>0, <2>1, <3>1, <3>2, <3>3, <3>4
  <2>3. CASE ~DoSend(t) /\ pc'[t] \in Sent
    <3>1. /\ pc[t] \in Sent /\ pc'[t] # "send"
          /\ pc'[t] \in {"peek", "aim", "sync"} => pc[t] \in {"peek", "aim", "sync"}
      BY <2>0, <2>3, SendMoves DEF PeekTimeout, AimTimeout, Sent
    <3>2. pc[t] \notin Before
      BY <3>1 DEF Sent, Before
    <3> QED BY <2>0, <2>1, <3>1, <3>2
  <2>4. CASE pc'[t] = "send" /\ pc[t] = "send" /\ got'[t] = got[t]
    <3>1. pc[t] \notin Before /\ pc'[t] \notin Sent
      BY <2>4 DEF Before, Sent
    <3> QED BY <2>0, <2>1, <2>4, <3>1
  <2>5. CASE pc'[t] = "send" /\ GetProtocol(t)
    <3>1. /\ KeyOf(t) \in Keys /\ conns[KeyOf(t)] \in Requests /\ got'[t] = conns[KeyOf(t)]
          /\ IF t[1] = "h" THEN Calls(r, "key") ELSE pc[t] = "get"
      BY <2>0, <2>5, Gets
    <3>2. got'[t] = r \/ {got'[t], r} \subseteq clash'
      BY <2>0, <3>1 DEF ApartOK, Together
    <3>3. got'[t] = r
      BY <3>2
    <3>4. pc[t] \notin Before
      <4>1. t[1] = "h" => t = H(r)
        BY DEF OwnThreads, H, G, A, C
      <4> QED BY <3>1, <4>1 DEF Before, Calls
    <3>5. pc[H(r)] \notin Before /\ KeyOf(t) # NoKey
      BY <2>0, <3>1, <3>4, ConstantsOK
    <3>6. connKey[r] \in {KeyOf(t), NoKey}
      BY <1>0, <3>1, <3>3, <3>5 DEF KeyedOK, Before
    <3>7. connKey[r] # NoKey
      <4>1. CASE t \in {H(r), G(r)}
        <5>1. KeyOf(t) = connKey[r]
          BY <4>1, Distinct DEF KeyOf, H, G
        <5> QED BY <3>5, <5>1
      <4>2. CASE t \in {A(r), C(r)}
        <5>1. pc[t] # "idle"
          BY <3>4 DEF Before
        <5>2. pc[A(r)] # "idle"
          BY <4>2, <5>1 DEF StuckOK
        <5> QED BY <1>0, <3>1, <3>3, <3>5, <5>2 DEF SendersOK
      <4> QED BY <4>1, <4>2 DEF OwnThreads
    <3>8. KeyOf(t)' = connKey'[r] /\ connKey'[r] # NoKey
      BY <2>0, <3>5, <3>6, <3>7
    <3> QED BY <2>5, <3>3, <3>8 DEF Sent
  <2>6. CASE pc'[t] \notin {"send"} \cup Sent
    BY <2>6 DEF Sent
  <2>7. pc'[t] = "send" => (pc[t] = "send" /\ got'[t] = got[t]) \/ GetProtocol(t)
    BY <2>0, Sending
  <2> QED BY <2>2, <2>3, <2>4, <2>5, <2>6, <2>7
<1> QED BY <1>0, <1>1, <1>2 DEF SendersOK

LEMMA TimerKept ==
    ASSUME Typed, Typed', SpawnsOnce, ScriptOK, SameId, KeptOK, BoundOK, TimerHasReceiver,
           ApartOK, StuckOK, Next, req' = req, clash \subseteq clash',
           NEW r \in Requests \ clash'
    PROVE  TimerOK(r)'
<1>0. /\ r \in Requests \ clash /\ G(r) \in Threads /\ G(r) \in OwnThreads(r)
      /\ G(r)' = G(r) /\ OwnThreads(r)' = OwnThreads(r)
      /\ ~Panicked
  BY Goroutines DEF H, A, G, C, OwnThreads, Next
<1> DEFINE k == connKey[r]
<1>1. k # NoKey =>
        /\ pc[G(r)] \in Receives => timers[k] = r
        /\ pc[G(r)] = "select" => chn[G(r)] = r
        /\ \A t \in OwnThreads(r) :
              /\ pc[t] \in {"aim", "sync"} => t # G(r) /\ pc[G(r)] \notin {"idle", "arm"}
              /\ pc[t] = "sync" => chn[t] = r \/ (chn[t] = Absent /\ pc[G(r)] \notin Receives)
  BY <1>0 DEF StuckOK, TimerOK
<1>2. \A t \in OwnThreads(r) :
        /\ t \in Threads /\ t[2] = r
        /\ pc[t] \notin Before => pc[H(r)] \notin Before
        /\ pc[H(r)] \notin Before => connKey'[r] = k
        /\ pc[t] \in {"send"} \cup Sent => KeyOf(t) = k /\ k # NoKey
  BY <1>0, OwnStep DEF StuckOK, SendersOK
<1>3. k \in Keys \cup {NoKey}
  BY <1>0 DEF Typed
<1>4. ASSUME connKey'[r] # NoKey, pc'[G(r)] \in Receives
      PROVE  k # NoKey /\ timers'[k] = r /\ connKey'[r] = k
  <2>1. pc[G(r)] \in Receives \/ ArmTimeout(r)
    BY <1>0, <1>4, TimeoutMoves
  <2>2. pc[G(r)] \notin Before
    BY <2>1 DEF Receives, Before, ArmTimeout
  <2>3. connKey'[r] = k /\ k # NoKey
    BY <1>0, <1>2, <1>4, <2>2
  <2>4. CASE ArmTimeout(r)
    BY <1>0, <1>3, <2>3, <2>4 DEF ArmTimeout, SetTimer, Typed
  <2>5. CASE pc[G(r)] \in Receives
    <3>1. timers[k] = r
      BY <1>1, <2>3, <2>5
    <3>2. ASSUME timers'[k] # timers[k] PROVE FALSE
      <4>1. PICK q \in Requests : (ArmTimeout(q) \/ DeleteTimeout(q)) /\ connKey[q] = k
        BY <1>3, <2>3, <3>2, TimersChange
      <4>2. pc[G(q)] \notin Ends \cup {"run"} /\ pc[G(r)] \notin Ends \cup {"run"}
        BY <2>5, <4>1 DEF ArmTimeout, DeleteTimeout, Ends, Receives
      <4>3. q = r
        BY <1>0, <2>3, <4>1, <4>2, TimerIsOwn
      <4>4. pc'[G(r)] \in {"eval", "get", "done"} /\ (ArmTimeout(r) => pc[G(r)] = "arm")
            /\ (DeleteTimeout(r) => pc'[G(r)] # "eval")
        BY <1>0, <4>1, <4>3 DEF ArmTimeout, DeleteTimeout, Goto, Typed
      <4> QED BY <1>4, <2>5, <4>1, <4>3, <4>4 DEF Receives
    <3> QED BY <2>3, <3>1, <3>2
  <2> QED BY <2>1, <2>4, <2>5
<1>5. ASSUME connKey'[r] # NoKey, pc'[G(r)] = "select" PROVE chn'[G(r)] = r
  <2>1. \/ pc[G(r)] = "select" /\ chn'[G(r)] = chn[G(r)]
        \/ EvalTimeout(r)
    BY <1>0, <1>5, SendMoves
  <2>2. pc[G(r)] \in Receives /\ pc[G(r)] \notin Before
    BY <2>1 DEF EvalTimeout, Receives, Before
  <2>3. k # NoKey /\ timers[k] = r
    BY <1>0, <1>1, <1>2, <1>5, <2>2
  <2>4. EvalTimeout(r) => chn'[G(r)] = r
    BY <1>0, <2>3 DEF EvalTimeout, TimerOf, Typed
  <2> QED BY <1>1, <2>1, <2>3, <2>4
<1>6. ASSUME NEW t \in OwnThreads(r), pc[t] \in {"peek", "aim"}, k # NoKey, timers[k] # Absent
      PROVE  timers[k] = r /\ pc[G(r)] \in Receives
  <2> DEFINE q == timers[k]
  <2>1. q \in Requests
    BY <1>3, <1>6 DEF Typed
  <2>2. pc[G(q)] \in Receives /\ connKey[q] = k
    BY <1>0, <1>3, <1>6 DEF TimerHasReceiver, Receives
  <2>3. pc[G(q)] \notin Ends \cup {"run"} /\ pc[t] \notin Ends \cup {"run"}
    BY <1>6, <2>2 DEF Ends, Receives
  <2> HIDE DEF q
  <2>4. q = r
    BY <1>0, <1>6, <2>1, <2>2, <2>3, TimerIsOwn
  <2> QED BY <2>2, <2>4 DEF q
<1>7. ASSUME NEW t \in OwnThreads(r), connKey'[r] # NoKey, pc'[t] \in {"aim", "sync"}
      PROVE  /\ t # G(r) /\ pc'[G(r)] \notin {"idle", "arm"}
             /\ pc'[t] = "sync" => chn'[t] = r \/ (chn'[t] = Absent /\ pc'[G(r)] \notin Receives)
  <2>1. \/ pc'[t] = pc[t] /\ chn'[t] = chn[t]
        \/ PeekTimeout(t)
        \/ AimTimeout(t)
    BY <1>2, <1>7, SendMoves DEF Sent
  <2>2. pc[t] \in Sent /\ pc[t] \notin Before
    BY <1>7, <2>1 DEF PeekTimeout, AimTimeout, Sent, Before
  <2>3. k # NoKey /\ KeyOf(t) = k
    BY <1>2, <1>7, <2>2
  <2>4. pc[G(r)] \notin {"idle", "arm"} =>
           /\ pc'[G(r)] \notin {"idle", "arm"}
           /\ pc'[G(r)] \in Receives => pc[G(r)] \in Receives
    <3>1. ~ Calls(r, "go") \/ pc[G(r)] = "idle"
      BY <1>0, AfterCall DEF SpawnsOnce, Spawns
    <3> QED BY <1>0, <3>1, TimeoutMoves, SpawnedMoves DEF ArmTimeout
  <2>5. CASE pc'[t] = pc[t] /\ chn'[t] = chn[t]
    BY <1>1, <1>7, <2>3, <2>4, <2>5
  <2>6. CASE PeekTimeout(t)
    <3>1. pc[t] = "peek" /\ timers[k] # Absent /\ pc'[t] = "aim"
      BY <1>2, <1>7, <2>3, <2>6 DEF PeekTimeout, TimerOf, Goto, Typed
    <3>2. pc[G(r)] \in Receives
      BY <1>6, <2>3, <3>1
    <3>3. t # G(r) /\ pc[G(r)] \notin {"idle", "arm"}
      BY <3>1, <3>2 DEF Receives
    <3> QED BY <2>4, <3>1, <3>3
  <2>7. CASE AimTimeout(t)
    <3>1. pc[t] = "aim" /\ chn'[t] = timers[k]
      BY <1>2, <2>3, <2>7 DEF AimTimeout, TimerOf, Typed
    <3>2. t # G(r) /\ pc[G(r)] \notin {"idle", "arm"}
      BY <1>1, <2>3, <3>1
    <3>3. timers[k] # Absent => timers[k] = r
      BY <1>6, <2>3, <3>1
    <3>4. timers[k] = Absent => pc[G(r)] \notin Receives
      BY <1>0, <1>1, <2>3, ConstantsOK
    <3> QED BY <2>4, <3>1, <3>2, <3>3, <3>4
  <2> QED BY <2>1, <2>5, <2>6, <2>7
<1> QED BY <1>0, <1>4, <1>5, <1>7 DEF TimerOK

LEMMA SignalKept ==
    ASSUME Typed, Typed', SpawnsOnce, ScriptOK, SameId, KeptOK, BoundOK,
           ApartOK, StuckOK, Next, req' = req, clash \subseteq clash',
           NEW r \in Requests \ clash'
    PROVE  SignalOK(r)'
<1>0. /\ r \in Requests \ clash /\ G(r) \in Threads /\ G(r) \in OwnThreads(r)
      /\ G(r)' = G(r) /\ H(r)' = H(r) /\ OwnThreads(r)' = OwnThreads(r) /\ IsWs(r)' = IsWs(r)
  BY Goroutines DEF H, A, G, C, OwnThreads, IsWs
<1> DEFINE k == connKey[r]
           own == answers[r]
           own1 == answers'[r]
<1>1. k # NoKey /\ IsWs(r) =>
         /\ pc[G(r)] = "disarm" \/ (pc[G(r)] = "done" /\ own[G(r)] = 0) =>
               \E u \in OwnThreads(r) : own[u] > 0 /\ pc[u] \notin {"peek", "aim", "sync"}
         /\ pc[H(r)] \notin Before /\ conns[k] # r =>
               \E u \in OwnThreads(r) : own[u] > 0 /\ pc[u] \notin Sent
  BY <1>0 DEF StuckOK, SignalOK
<1>2. \A t \in OwnThreads(r) :
        /\ t \in Threads /\ t[2] = r
        /\ own[t] \in Nat /\ own1[t] \in Nat /\ own1[t] >= own[t]
        /\ pc[t] \notin Before => pc[H(r)] \notin Before
        /\ pc[H(r)] \notin Before => connKey'[r] = k
        /\ IsWs(r) /\ own[t] > 0 => 
              /\ pc[t] \notin {"peek", "aim", "sync"} => pc'[t] \notin {"peek", "aim", "sync"}
              /\ pc[t] \notin Sent => pc'[t] \notin Sent
  BY <1>0, OwnStep
<1>3. \A t \in OwnThreads(r) :
        /\ pc[t] \in {"send"} \cup Sent => KeyOf(t) = k /\ k # NoKey
        /\ pc[t] \in Sent /\ IsWs(r) => own[t] > 0
  BY <1>0 DEF StuckOK, SendersOK
<1>4. k \in Keys \cup {NoKey}
  BY <1>0 DEF Typed
<1> HIDE DEF k, own, own1
<1>5. ASSUME IsWs(r),
             \E u \in OwnThreads(r) : own[u] > 0 /\ pc[u] \notin {"peek", "aim", "sync"}
      PROVE  \E u \in OwnThreads(r) : own1[u] > 0 /\ pc'[u] \notin {"peek", "aim", "sync"}
  BY <1>2, <1>5
<1>6. ASSUME IsWs(r), \E u \in OwnThreads(r) : own[u] > 0 /\ pc[u] \notin Sent
      PROVE  \E u \in OwnThreads(r) : own1[u] > 0 /\ pc'[u] \notin Sent
  BY <1>2, <1>6
<1>7. ASSUME connKey'[r] # NoKey, IsWs(r),
             pc'[G(r)] = "disarm" \/ (pc'[G(r)] = "done" /\ own1[G(r)] = 0)
      PROVE  \E u \in OwnThreads(r) : own1[u] > 0 /\ pc'[u] \notin {"peek", "aim", "sync"}
  <2>0. pc[G(r)] \notin Before => k # NoKey /\ pc[H(r)] \notin Before
    BY <1>0, <1>2, <1>7
  <2>1. own1[G(r)] = 0 => own[G(r)] = 0
    BY <1>0, <1>2
  <2>2. CASE pc[G(r)] = "disarm" \/ (pc[G(r)] = "done" /\ own1[G(r)] = 0)
    BY <1>1, <1>5, <1>7, <2>0, <2>1, <2>2 DEF Before
  <2>3. ASSUME NEW t \in Threads, SignalTimeout(t, r)
        PROVE  \E u \in OwnThreads(r) : own1[u] > 0 /\ pc'[u] \notin {"peek", "aim", "sync"}
    <3>1. pc[t] = "sync" /\ pc[G(r)] = "select" /\ chn[G(r)] = chn[t] /\ pc'[t] = "free"
      BY <1>0, <2>3 DEF SignalTimeout, Typed
    <3>2. k # NoKey
      BY <2>0, <3>1 DEF Before
    <3>3. chn[t] = r
      BY <1>0, <3>1, <3>2 DEF StuckOK, TimerOK, k
    <3>4. Together(r, t[2])
      BY <1>0, <3>3 DEF StuckOK
    <3>5. t \in OwnThreads(r)
      BY <1>0, <3>4, IsOneOf DEF Together, OwnThreads
    <3>6. own[t] > 0
      BY <1>3, <1>7, <3>1, <3>5 DEF Sent
    <3> QED BY <1>2, <3>1, <3>5, <3>6
  <2>4. CASE UnregisterProtocol(G(r)) /\ own1[G(r)] = 0
    <3>1. own[G(r)] > 0
      BY <1>0, <1>3, <1>7, <2>4 DEF UnregisterProtocol, Sent
    <3> QED BY <2>1, <2>4, <3>1
  <2>5. CASE GetProtocol(G(r)) /\ pc'[G(r)] = "done"
    <3>1. G(r)[1] = "g" /\ KeyOf(G(r)) = k
      BY Distinct DEF G, KeyOf, k
    <3>2. pc[G(r)] = "get" /\ (k = NoKey \/ conns[k] = Absent)
      BY <1>0, <2>5, <3>1, Gets
    <3>3. k # NoKey /\ conns[k] # r /\ pc[H(r)] \notin Before
      BY <1>0, <2>0, <3>2, ConstantsOK DEF Before
    <3>4. \E u \in OwnThreads(r) : own[u] > 0 /\ pc[u] \notin Sent
      BY <1>1, <1>7, <3>3
    <3> QED BY <1>6, <1>7, <3>4 DEF Sent
  <2>6. pc[G(r)] # "offer"
    BY <1>0, <1>7 DEF ScriptOK, Polls, IsWs
  <2> QED BY <1>0, <1>7, <2>2, <2>3, <2>4, <2>5, <2>6, TimeoutMoves
<1>8. ASSUME connKey'[r] # NoKey, IsWs(r), pc'[H(r)] \notin Before, conns'[connKey'[r]] # r
      PROVE  \E u \in OwnThreads(r) : own1[u] > 0 /\ pc'[u] \notin Sent
  <2>1. CASE pc[H(r)] \notin Before
    <3>1. connKey'[r] = k /\ k \in Keys
      BY <1>0, <1>2, <1>4, <1>8, <2>1
    <3>2. CASE conns[k] # r
      BY <1>1, <1>4, <1>6, <1>8, <2>1, <3>1, <3>2
    <3>3. ASSUME NEW t \in OwnThreads(r), UnregisterProtocol(t)
          PROVE  \E u \in OwnThreads(r) : own1[u] > 0 /\ pc'[u] \notin Sent
      <4>1. pc[t] = "free" /\ pc'[t] \in {"run", "done"}
        BY <1>2, <3>3 DEF UnregisterProtocol, Goto, Typed, Ret
      <4>2. own[t] > 0
        BY <1>3, <1>8, <4>1 DEF Sent
      <4> QED BY <1>2, <4>1, <4>2 DEF Sent
    <3>4. ~UpgradeMove(r)
      BY <2>1 DEF UpgradeMove, Before
    <3> QED BY <1>0, <1>8, <3>1, <3>2, <3>3, <3>4, EntriesChange
  <2>2. CASE pc[H(r)] \in Before
    <3>1. Dispatch(r) \/ Reject(r) \/ RegisterWrite(r) \/ UpgradeMove(r)
      BY <1>8, <2>2, HandlerEnters
    <3>2. H(r) \in Threads /\ AnonKey(r) \in Keys /\ UserKey(r) \in Keys
      BY Goroutines, KeysOfRequest
    <3>3. CASE Dispatch(r)
      <4>1. connKey'[r] = NoKey
        BY <3>3, EntersWith DEF Dispatch
      <4> QED BY <1>8, <4>1
    <3>4. CASE Reject(r)
      BY <1>8, <2>2, <3>4 DEF Reject, StuckOK, locals
    <3>5. CASE RegisterWrite(r)
      <4>1. conns'[AnonKey(r)] = r
        BY <3>2, <3>5 DEF RegisterWrite, Typed
      <4>2. \/ Proceed(r, AnonKey(r)) \/ Refuse(r, AnonKey(r)) \/ Refuse(r, NoKey)
            \/ Goto(H(r), "read")
        BY <3>5 DEF RegisterWrite
      <4>3. Goto(H(r), "read") => pc'[H(r)] \in Before
        BY <3>2 DEF Goto, Typed, Before
      <4>4. connKey'[r] \in {AnonKey(r), NoKey}
        BY <1>8, <3>2, <4>2, <4>3, EntersWith
      <4> QED BY <1>8, <4>1, <4>4
    <3>6. CASE UpgradeMove(r)
      <4>1. /\ pc[H(r)] = "move"
            /\ conns' = [conns EXCEPT ![UserKey(r)] = got[H(r)], ![AnonKey(r)] = Absent]
            /\ Proceed(r, UserKey(r)) \/ Refuse(r, UserKey(r))
        BY <3>6 DEF UpgradeMove
      <4>2. got[H(r)] = r /\ req[r].user # NoUser
        BY <1>0, <4>1 DEF KeptOK
      <4>3. UserKey(r) # AnonKey(r)
        BY <4>2 DEF UserKey, AnonKey
      <4>4. conns'[UserKey(r)] = r
        BY <3>2, <4>1, <4>2, <4>3 DEF Typed
      <4>5. connKey'[r] = UserKey(r)
        BY <3>2, <4>1, EntersWith
      <4> QED BY <1>8, <4>4, <4>5
    <3> QED BY <3>1, <3>3, <3>4, <3>5, <3>6
  <2> QED BY <2>1, <2>2
<1> QED BY <1>0, <1>7, <1>8 DEF SignalOK, own1

(* An order is cancelled at its connection's end only if it was placed.    *)
LEMMA CancelsOrders ==
    ASSUME Typed, Next, NEW r \in Requests, pc[C(r)] = "idle", pc'[C(r)] # "idle"
    PROVE  PublishCancelAll(r)
<1> DEFINE Goal == PublishCancelAll(r) \/ pc'[C(r)] = "idle"
<1>0. \A q \in Requests : /\ H(q) \in Threads /\ G(q) \in Threads
                           /\ A(q) \in Threads /\ C(q) \in Threads
                           /\ C(r) \notin {H(q), G(q), A(q)} /\ (q # r => C(q) # C(r))
  BY Goroutines, Distinct
<1>1. ASSUME NEW q \in Requests,
             \/ Dispatch(q) \/ RegisterCheck(q) \/ Reject(q) \/ RegisterWrite(q)
             \/ UpgradeRead(q) \/ UpgradeCheck(q) \/ UpgradeMove(q)
             \/ SendDirect(q) \/ UnregisterChannel(q) \/ Crash(q)
             \/ CallTimeOutProtocol(q) \/ CallRegisterChannel(q) \/ Produce(q) \/ ReceiveResult(q)
             \/ PublishOrder(q)
             \/ ArmTimeout(q) \/ EvalTimeout(q) \/ Expire(q) \/ DeleteTimeout(q)
             \/ PollResult(q) \/ ContextDone(q) \/ ClearResult(q)
      PROVE  Goal
  <2>1. UNCHANGED pc \/ \E l : Goto(H(q), l) \/ Goto(G(q), l) \/ Goto(A(q), l)
    BY <1>1
    DEF Dispatch, RegisterCheck, Reject, RegisterWrite, UpgradeRead, UpgradeCheck, UpgradeMove,
        SendDirect, UnregisterChannel, Crash, Proceed, Refuse, Enter,
        CallTimeOutProtocol, CallRegisterChannel, Produce, ReceiveResult, PublishOrder, ArmTimeout,
        EvalTimeout, Expire, DeleteTimeout, PollResult, ContextDone, ClearResult
  <2> QED BY <1>0, <2>1 DEF Goto, Typed
<1>2. ASSUME NEW q \in Requests, PublishCancelAll(q) PROVE Goal
  BY <1>0, <1>2 DEF PublishCancelAll, Goto, Typed
<1>3. ASSUME NEW t \in Threads,
             \/ GetProtocol(t) \/ DoSend(t) \/ PeekTimeout(t) \/ AimTimeout(t)
             \/ UnregisterProtocol(t) \/ ConcurrentMapAccess(t) \/ handleTopicCancelledOrders(t)
      PROVE  Goal
  <2>1. pc[t] # "idle" /\ \E l : Goto(t, l)
    BY <1>3 DEF GetProtocol, Calls, DoSend, PeekTimeout, AimTimeout, UnregisterProtocol,
                ConcurrentMapAccess, handleTopicCancelledOrders, H, Threads
  <2> QED BY <1>0, <2>1 DEF Goto, Typed
<1>4. ASSUME NEW t \in Threads, NEW q \in Requests, SignalTimeout(t, q) PROVE Goal
  <2>1. pc[t] = "sync" /\ \A u \in Threads \ {t, G(q)} : pc'[u] = pc[u]
    BY <1>0, <1>4 DEF SignalTimeout, Typed
  <2> QED BY <1>0, <2>1
<1>5. ASSUME NEW c \in Clients, Disconnect(c) PROVE Goal
  BY <1>5 DEF Disconnect
<1> HIDE DEF Goal
<1>6. Goal
  BY <1>1, <1>2, <1>3, <1>4, <1>5 DEF Next, Environment, HandlerStep, SpawnedStep, SendStep
<1> QED BY <1>6 DEF Goal

(* A goroutine takes the channel of a request it was served together with. *)
LEMMA ChannelsTogether ==
    ASSUME Typed, SpawnsOnce, ScriptOK, SameId, TimerHasReceiver, ApartOK, StuckOK, Next,
           clash \subseteq clash', NEW t \in Threads, chn'[t] \in Requests
    PROVE  chn'[t] = t[2] \/ {chn'[t], t[2]} \subseteq clash'
<1>1. CASE chn'[t] \in {chn[t], Absent}
  BY <1>1, ConstantsOK DEF StuckOK, Together
<1>2. ASSUME NEW k, chn'[t] = TimerOf(k), k # NoKey => k \in Keys /\ k[1] = req[t[2]].id,
             pc[t] \in {"aim", "eval"}
      PROVE  chn'[t] = t[2] \/ {chn'[t], t[2]} \subseteq clash'
  <2> DEFINE x == chn'[t]
  <2>1. k # NoKey /\ k \in Keys /\ timers[k] = x /\ x \in Requests /\ x # Absent
    BY <1>2, ConstantsOK DEF TimerOf
  <2> HIDE DEF x
  <2>2. pc[G(x)] \in Receives /\ connKey[x] = k
    BY <2>1 DEF TimerHasReceiver, Receives, Next
  <2>3. req[x].id = req[t[2]].id
    BY <1>2, <2>1, <2>2 DEF SameId
  <2>4. pc[H(x)] # "idle" /\ ~Quiet(x)
    <3>1. G(x) \in Threads /\ G(x)[2] = x /\ pc[G(x)] \notin Ends \cup {"run"}
      BY <2>1, <2>2, Goroutines, Distinct DEF Ends, Receives
    <3> QED BY <3>1, Running DEF Quiet
  <2>5. Together(x, t[2])
    BY <1>2, <2>1, <2>3, <2>4, FinderMet DEF Ends
  <2> QED BY <2>5 DEF Together, x
<1>3. CASE AimTimeout(t)
  <2>1. chn'[t] = TimerOf(KeyOf(t)) /\ pc[t] = "aim"
    BY <1>3 DEF AimTimeout, Typed
  <2>2. KeyOf(t) # NoKey => KeyOf(t) \in Keys /\ KeyOf(t)[1] = req[t[2]].id
    BY KeyId
  <2> QED BY <1>2, <2>1, <2>2
<1>4. ASSUME NEW q \in Requests, t = G(q), EvalTimeout(q)
      PROVE  chn'[t] = t[2] \/ {chn'[t], t[2]} \subseteq clash'
  <2>1. chn'[t] = TimerOf(connKey[q]) /\ pc[t] = "eval" /\ t[2] = q
    BY <1>4, Distinct DEF EvalTimeout, Typed
  <2>2. connKey[q] # NoKey => connKey[q] \in Keys /\ connKey[q][1] = req[t[2]].id
    BY <2>1 DEF SameId, Typed
  <2> QED BY <1>2, <2>1, <2>2
<1> QED BY <1>1, <1>3, <1>4, SendMoves

LEMMA StuckKept ==
    ASSUME Typed, Typed', SpawnsOnce, ScriptOK, SameId, Met, KeptOK, KeyedOK, BoundOK,
           TimerHasReceiver, ApartOK, ApartOK', StuckOK, [Next]_vars
    PROVE  StuckOK'
<1>0. req' = req /\ clash \subseteq clash'
  BY MetKept
<1>1. CASE UNCHANGED vars
  <2>1. UNCHANGED <<req, pc, script, connKey, got, chn, conns, timers, answers, clash>>
    BY <1>1 DEF vars, locals, shared
  <2>2. \A r : /\ SendersOK(r)' = SendersOK(r) /\ TimerOK(r)' = TimerOK(r)
               /\ SignalOK(r)' = SignalOK(r)
    <3>1. \A t : KeyOf(t)' = KeyOf(t)
      BY <2>1 DEF KeyOf, UserKey
    <3>2. \A r : OwnThreads(r)' = OwnThreads(r) /\ IsWs(r)' = IsWs(r) /\ H(r)' = H(r)
                 /\ A(r)' = A(r) /\ G(r)' = G(r)
      BY <2>1 DEF OwnThreads, IsWs, H, G, A, C
    <3>3. \A r : SendersOK(r)' = SendersOK(r)
      BY <2>1, <3>1, <3>2 DEF SendersOK
    <3>4. \A r : TimerOK(r)' = TimerOK(r)
      BY <2>1, <3>2 DEF TimerOK
    <3>5. \A r : SignalOK(r)' = SignalOK(r)
      BY <2>1, <3>2 DEF SignalOK
    <3> QED BY <3>3, <3>4, <3>5
  <2>3. StuckOK
    OBVIOUS
  <2> QED BY <2>1, <2>2, <2>3 DEF StuckOK, Together, H, A, C
<1>2. CASE Next
  <2>1. ASSUME NEW r \in Requests
        PROVE  /\ pc'[C(r)] # "idle" => pc'[A(r)] # "idle"
               /\ pc'[H(r)] \in Before => connKey'[r] = NoKey
    <3>1. pc[C(r)] # "idle" => pc[A(r)] # "idle"
      BY DEF StuckOK
    <3>2. pc'[C(r)] # "idle" => pc[A(r)] # "idle"
      BY <1>2, <3>1, CancelsOrders DEF PublishCancelAll
    <3>3. pc[A(r)] # "idle" => pc'[A(r)] # "idle"
      BY <1>2, OrderMoves
    <3>4. pc[H(r)] \notin {"cancelled", "eval"}
      BY DEF ScriptOK
    <3>5. ASSUME pc'[H(r)] \in Before PROVE pc[H(r)] \in Before /\ connKey'[r] = connKey[r]
      BY <1>2, <3>4, <3>5, HandlerMoves DEF Before, Sent
    <3> QED BY <3>2, <3>3, <3>5 DEF StuckOK
  <2>2. ASSUME NEW t \in Threads, chn'[t] \in Requests
        PROVE  chn'[t] = t[2] \/ {chn'[t], t[2]} \subseteq clash'
    BY <1>0, <1>2, <2>2, ChannelsTogether
  <2>3. ASSUME NEW r \in Requests \ clash'
        PROVE  SendersOK(r)' /\ TimerOK(r)' /\ SignalOK(r)'
    BY <1>0, <1>2, <2>3, SendersOnly, TimerKept, SignalKept
  <2>4. \A r : H(r)' = H(r) /\ A(r)' = A(r) /\ C(r)' = C(r)
    BY DEF H, A, C
  <2> QED BY <2>1, <2>2, <2>3, <2>4 DEF StuckOK, Together
<1> QED BY <1>1, <1>2

LEMMA StuckAlways == Spec => []StuckOK
<1>1. Init => StuckOK
  <2> SUFFICES ASSUME Init PROVE StuckOK
    OBVIOUS
  <2>1. /\ \A t \in Threads : pc[t] = "idle" /\ chn[t] = Absent
        /\ \A r \in Requests : connKey[r] = NoKey
        /\ \A k \in Keys : conns[k] = Absent
    BY DEF Init
  <2>2. ASSUME NEW r \in Requests
        PROVE  /\ pc[H(r)] = "idle" /\ pc[A(r)] = "idle" /\ pc[C(r)] = "idle"
               /\ SendersOK(r) /\ TimerOK(r) /\ SignalOK(r)
    <3>1. \A t \in OwnThreads(r) : pc[t] = "idle"
      BY <2>1, Goroutines DEF OwnThreads
    <3>2. pc[H(r)] = "idle" /\ pc[A(r)] = "idle" /\ pc[C(r)] = "idle"
      BY <3>1 DEF OwnThreads
    <3> QED BY <2>1, <3>1, <3>2 DEF SendersOK, TimerOK, SignalOK, Before, Sent
  <2> QED BY <2>1, <2>2, ConstantsOK DEF StuckOK
<1>2. Typed /\ Typed' /\ SpawnsOnce /\ ScriptOK /\ SameId /\ Met /\ KeptOK /\ KeyedOK /\ BoundOK
        /\ TimerHasReceiver /\ ApartOK /\ ApartOK' /\ StuckOK /\ [Next]_vars => StuckOK'
  BY StuckKept
<1> QED BY <1>1, <1>2, TypesKept, SpawnedOnce, ScriptsKept, IdsKept, KeptAlways, KeyedAlways,
           BoundAlways, TimersReceived, ApartAlways, PTL DEF Spec

(* Where the goroutine a handler spawns can be. *)
PlacesOK == \A r \in Requests : pc[G(r)] \notin Elsewhere

LEMMA PlacesAlways == Spec => []PlacesOK
<1>1. Init => PlacesOK
  BY Goroutines DEF Init, PlacesOK, Elsewhere
<1>2. Typed /\ PlacesOK /\ [Next]_vars => PlacesOK'
  <2> SUFFICES ASSUME Typed, PlacesOK, [Next]_vars, NEW r \in Requests
               PROVE  pc'[G(r)] \notin Elsewhere
    BY DEF PlacesOK, G
  <2>1. CASE UNCHANGED vars
    BY <2>1 DEF vars, PlacesOK
  <2>2. CASE Next
    BY <2>2, SpawnedMoves DEF PlacesOK, Elsewhere
  <2> QED BY <2>1, <2>2
<1> QED BY <1>1, <1>2, TypesKept, PTL DEF Spec

(* StuckOnlyByTimeout: a goroutine that blocks on channelTimeout[key] for  *)
(* ever, of a request that has met no other, has answered, and lost the    *)
(* race against its ticker, or found the timeout signalled by the other    *)
(* answer to the same order.                                               *)
THEOREM SignalsReceived == Spec => []StuckOnlyByTimeout
<1>1. Typed /\ SpawnsOnce /\ ScriptOK /\ PlacesOK /\ BoundOK /\ StuckOK => StuckOnlyByTimeout
  <2> SUFFICES ASSUME Typed, SpawnsOnce, ScriptOK, PlacesOK, BoundOK, StuckOK, ~Panicked,
                      NEW t \in Threads, Stuck(t), Alone(t[2])
               PROVE  LET own == answers[t[2]]
                      IN  /\ own[t] > 0
                          /\ \/ pc[G(t[2])] \in {"expired", "get", "send"} \/ own[G(t[2])] > 0
                             \/ own[A(t[2])] > 0 /\ own[C(t[2])] > 0
    BY DEF StuckOnlyByTimeout
  <2> DEFINE r == t[2]
             own == answers[r]
             k == connKey[r]
  <2>1. r \in Requests \ clash /\ t \in OwnThreads(r)
    BY Owner, IsOneOf DEF OwnThreads, Alone
  <2>2. pc[t] = "sync"
    BY DEF Stuck
  <2>3. SendersOK(r) /\ TimerOK(r) /\ SignalOK(r)
    BY <2>1 DEF StuckOK
  <2>4. k # NoKey /\ IsWs(r) /\ own[t] > 0
    BY <2>1, <2>2, <2>3 DEF SendersOK, Sent
  <2>5. /\ pc[G(r)] \in Receives => timers[k] = r
        /\ pc[G(r)] = "select" => chn[G(r)] = r
        /\ t # G(r) /\ pc[G(r)] \notin {"idle", "arm"}
        /\ chn[t] = r \/ (chn[t] = Absent /\ pc[G(r)] \notin Receives)
    BY <2>1, <2>2, <2>3, <2>4 DEF TimerOK
  <2>6. pc[G(r)] \notin {"select", "eval"}
    BY <2>1, <2>4, <2>5, ConstantsOK DEF Stuck, TimerOf, Receives
  <2>7. ASSUME pc[G(r)] \notin {"expired", "get", "send"}
        PROVE  own[G(r)] > 0 \/ (own[A(r)] > 0 /\ own[C(r)] > 0)
    <3>1. CASE pc[G(r)] \in Sent
      BY <2>1, <2>3, <2>4, <3>1 DEF SendersOK, OwnThreads
    <3>2. CASE pc[G(r)] \in {"disarm", "done"} /\ ~(own[G(r)] > 0)
      <4>1. own[H(r)] \in Nat /\ own[G(r)] \in Nat /\ own[A(r)] \in Nat /\ own[C(r)] \in Nat
        BY <2>1, Goroutines DEF Typed
      <4>2. PICK u \in OwnThreads(r) : own[u] > 0 /\ pc[u] \notin {"peek", "aim", "sync"}
        BY <2>3, <2>4, <3>2, <4>1 DEF SignalOK
      <4>3. u # t /\ {u, t} \subseteq {H(r), A(r), C(r)}
        BY <2>1, <2>2, <2>5, <3>2, <4>2 DEF OwnThreads
      <4>4. RepliesOK(r) /\ \A v \in {A(r), G(r), C(r)} : pc[v] \in Early => own[v] = 0
        BY <2>1, <2>4 DEF BoundOK, IsWs
      <4>5. ~(own[H(r)] > 0 /\ (own[A(r)] > 0 \/ own[C(r)] > 0))
        <5> SUFFICES ASSUME own[H(r)] > 0 PROVE own[A(r)] = 0 /\ own[C(r)] = 0
          BY <4>1
        <5>1. pc[A(r)] = "idle"
          BY <4>1, <4>4 DEF RepliesOK
        <5>2. pc[C(r)] = "idle"
          BY <2>1, <5>1 DEF StuckOK
        <5> QED BY <4>4, <5>1, <5>2 DEF Early
      <4> QED BY <2>4, <4>2, <4>3, <4>5
    <3>3. pc[G(r)] \in {"disarm", "done"} \cup Sent
      <4>1. G(r) \in Threads /\ pc[G(r)] \in Labels
        BY <2>1, Goroutines DEF Typed
      <4>2. pc[G(r)] \notin Polls
        BY <2>1, <2>4 DEF ScriptOK, IsWs
      <4>3. pc[G(r)] \notin Elsewhere
        BY <2>1 DEF PlacesOK
      <4>4. pc[G(r)] # "panic"
        BY <4>1 DEF Panicked
      <4> QED BY <2>5, <2>6, <2>7, <4>1, <4>2, <4>3, <4>4 DEF Labels, Polls, Elsewhere, Sent
    <3> QED BY <3>1, <3>2, <3>3
  <2> QED BY <2>4, <2>7
<1> QED BY <1>1, TypesKept, SpawnedOnce, ScriptsKept, PlacesAlways, BoundAlways, StuckAlways, PTL
=============================================================================
