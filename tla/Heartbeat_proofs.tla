-------------------------- MODULE Heartbeat_proofs --------------------------
(***************************************************************************)
(* Invariants of Heartbeat, for any clients and any number of heartbeats:  *)
(* types, and why a client that answers in time is not cut off.            *)
(***************************************************************************)
EXTENDS Heartbeat, TLAPS

LEMMA LoopsAndTests ==
    /\ \A l \in Loops : l[1] \in Clients
    /\ Loops \subseteq Tests
    /\ \A a \in Tests : a[1] \in Clients
<1>1. \A l \in Loops : l[1] \in Clients
  <2> SUFFICES ASSUME NEW c \in Clients, NEW l \in {c} \X (1 .. MaxLoops[c])
               PROVE  l[1] \in Clients
    BY DEF Loops
  <2> QED OBVIOUS
<1>2. \A a \in Clients \X {0} : a[1] \in Clients
  OBVIOUS
<1> QED BY <1>1, <1>2 DEF Tests

-----------------------------------------------------------------------------
(* Types.                                                                  *)

LEMMA TypesStart == Init => TypeOK
BY DEF Init, TypeOK, Places

LEMMA TypesOfLoop ==
    ASSUME TypeOK, NEW l \in Loops, setHeartbeat(l) \/ LoopStep(l)
    PROVE  TypeOK'
<1> USE DEF TypeOK, Goto, Places, conn, rest
<1>0. l[1] \in Clients
  BY LoopsAndTests
<1>1. CASE setHeartbeat(l)
  BY <1>1 DEF setHeartbeat
<1>2. CASE Start(l)
  BY <1>0, <1>2 DEF Start, Mark
<1>3. CASE Subscribe(l)
  BY <1>0, <1>3 DEF Subscribe
<1>4. CASE RegisterConnectionUnsubscribeHandler(l)
  BY <1>0, <1>4 DEF RegisterConnectionUnsubscribeHandler
<1>5. CASE Wake(l)
  BY <1>5 DEF Wake
<1>6. CASE Broadcast(l)
  BY <1>6 DEF Broadcast, After
<1>7. CASE SendUpdateMessageSubcription(l)
  BY <1>7 DEF SendUpdateMessageSubcription, After
<1>8. CASE Reset(l)
  BY <1>0, <1>8 DEF Reset, Mark
<1>9. CASE Close(l)
  BY <1>0, <1>9 DEF Close
<1> QED BY <1>1, <1>2, <1>3, <1>4, <1>5, <1>6, <1>7, <1>8, <1>9 DEF LoopStep

LEMMA TypesOfOthers ==
    ASSUME TypeOK,
           \/ \E a \in Tests : test(a) \/ AddHeartbeat(a)
           \/ \E c \in Clients : Unsubscribe(c) \/ closeConnection(c) \/ UnsubscribeChannel(c)
           \/ ConcurrentMapAccess
    PROVE  TypeOK'
<1> USE DEF TypeOK, Places, conn, rest
<1>1. ASSUME NEW a \in Tests, test(a) PROVE TypeOK'
  BY <1>1 DEF test
<1>2. ASSUME NEW a \in Tests, AddHeartbeat(a) PROVE TypeOK'
  <2>1. a[1] \in Clients
    BY LoopsAndTests
  <2> QED BY <1>2, <2>1 DEF AddHeartbeat, Mark
<1>3. ASSUME NEW c \in Clients, Unsubscribe(c) PROVE TypeOK'
  BY <1>3 DEF Unsubscribe
<1>4. ASSUME NEW c \in Clients, closeConnection(c) PROVE TypeOK'
  BY <1>4 DEF closeConnection
<1>5. ASSUME NEW c \in Clients, UnsubscribeChannel(c) PROVE TypeOK'
  BY <1>5 DEF UnsubscribeChannel
<1>6. CASE ConcurrentMapAccess
  BY <1>6 DEF ConcurrentMapAccess
<1> QED BY <1>1, <1>2, <1>3, <1>4, <1>5, <1>6

LEMMA TypesKeep == TypeOK /\ [Next]_vars => TypeOK'
<1> SUFFICES ASSUME TypeOK, [Next]_vars PROVE TypeOK'
  OBVIOUS
<1>1. CASE UNCHANGED vars
  BY <1>1 DEF vars, conn, rest, TypeOK
<1>2. CASE Next
  BY <1>2, TypesOfLoop, TypesOfOthers DEF Next
<1> QED BY <1>1, <1>2

(* Types, whatever the clients do and however many heartbeats they ask for.*)
THEOREM TypeCorrect == Spec => []TypeOK
BY TypesStart, TypesKeep, PTL DEF Spec

-----------------------------------------------------------------------------
(* Clients that answer in time.                                            *)

(* The one heartbeat of a client that answers in time, has not unsubscribed*)
(* and whose answers never came before the reset.                          *)
Alone(l) ==
    /\ l[1] \in Timely \ (closed \cup left)
    /\ l \notin early
    /\ \A m \in Loops : m[1] = l[1] /\ m # l => loop[m] = "idle"

(* It is subscribed once it has begun; while it sleeps, its client has     *)
(* answered or is about to; so it is never found silent.                   *)
Answering(l) ==
    LET c == l[1]
    IN  /\ loop[l] \notin {"close", "ended"}
        /\ loop[l] \notin {"idle", "mark"} => heartbeat[c] # "absent"
        /\ loop[l] \notin {"idle", "mark", "subscribe"} => c \in subscribed
        /\ loop[l] \in {"subscribe", "register"} => heartbeat[c] = "on"
        /\ loop[l] = "sleep" => heartbeat[c] = "on" \/ l \in owed \cup tests
        /\ loop[l] = "reset" => l \in owed \cup tests

(* Who holds the mutex is sending; only the handlers of connections that   *)
(* are closed are triggered.                                               *)
Holding ==
    /\ mu \in Loops => loop[mu] \in {"heartbeat", "test_request"}
    /\ triggered \subseteq closed

IInv == TypeOK /\ Holding /\ \A l \in Loops : Alone(l) => Answering(l)

LEMMA Starting == Init => IInv
<1> SUFFICES ASSUME Init PROVE IInv
  OBVIOUS
<1>1. TypeOK
  BY TypesStart
<1>2. Holding
  BY ConstantsOK DEF Init, Holding
<1>3. \A l \in Loops : Answering(l)
  BY DEF Init, Answering
<1> QED BY <1>1, <1>2, <1>3 DEF IInv

(* A loop steps: the others of its client are not alone any more, those of *)
(* other clients do not notice.                                            *)
LEMMA LoopKeeps ==
    ASSUME IInv, NEW l \in Loops, setHeartbeat(l) \/ LoopStep(l)
    PROVE  IInv'
<1>0. TypeOK' /\ l[1] \in Clients /\ Free \notin Loops
  BY TypesOfLoop, LoopsAndTests, ConstantsOK DEF IInv
<1>1. Holding'
  <2> USE DEF IInv, TypeOK, Holding, Goto, conn, rest
  <2>1. CASE setHeartbeat(l)
    BY <2>1 DEF setHeartbeat
  <2>2. CASE Start(l)
    BY <2>2 DEF Start
  <2>3. CASE Subscribe(l)
    BY <1>0, <2>3 DEF Subscribe
  <2>4. CASE RegisterConnectionUnsubscribeHandler(l)
    BY <2>4 DEF RegisterConnectionUnsubscribeHandler
  <2>5. CASE Wake(l)
    BY <2>5 DEF Wake
  <2>6. CASE Broadcast(l)
    BY <1>0, <2>6 DEF Broadcast
  <2>7. CASE SendUpdateMessageSubcription(l)
    BY <1>0, <2>7 DEF SendUpdateMessageSubcription
  <2>8. CASE Reset(l)
    BY <2>8 DEF Reset
  <2>9. CASE Close(l)
    BY <2>9 DEF Close
  <2> QED BY <2>1, <2>2, <2>3, <2>4, <2>5, <2>6, <2>7, <2>8, <2>9 DEF LoopStep
<1>2. ASSUME NEW k \in Loops, Alone(k)' PROVE Answering(k)'
  <2>1. CASE k[1] = l[1] /\ k # l
    <3>1. loop'[l] # "idle"
      BY DEF IInv, TypeOK, Places, setHeartbeat, LoopStep, Start, Subscribe, Goto, Wake,
             RegisterConnectionUnsubscribeHandler, Broadcast, After, Holding,
             SendUpdateMessageSubcription, Reset, Close
    <3> QED BY <1>2, <2>1, <3>1 DEF Alone
  <2>2. CASE k[1] # l[1]
    <3>1. /\ loop'[k] = loop[k] /\ heartbeat'[k[1]] = heartbeat[k[1]]
          /\ k[1] \in subscribed' <=> k[1] \in subscribed
          /\ k \in owed' <=> k \in owed
          /\ tests' = tests
      BY <2>2, LoopsAndTests
      DEF IInv, TypeOK, setHeartbeat, LoopStep, Start, Subscribe, Goto, Mark, Wake, conn, rest,
          RegisterConnectionUnsubscribeHandler, Broadcast,
          SendUpdateMessageSubcription, Reset, Close
    <3>2. Alone(k)
      <4>1. closed \subseteq closed' /\ UNCHANGED <<left, early>>
        BY DEF setHeartbeat, LoopStep, Start, Subscribe, Wake, conn, rest, Reset, Close,
               RegisterConnectionUnsubscribeHandler, Broadcast, SendUpdateMessageSubcription
      <4>2. \A m \in Loops : m[1] = k[1] => loop'[m] = loop[m]
        BY <2>2 DEF IInv, TypeOK, setHeartbeat, LoopStep, Start, Subscribe, Goto, Wake, Reset, Close,
               RegisterConnectionUnsubscribeHandler, Broadcast, SendUpdateMessageSubcription
      <4> QED BY <1>2, <4>1, <4>2 DEF Alone
    <3>3. Answering(k)
      BY <3>2 DEF IInv
    <3> QED BY <3>1, <3>3 DEF Answering
  <2>3. CASE k = l
    <3>1. Alone(l) /\ closed' \cap {l[1]} = {}
      <4>1. closed \subseteq closed' /\ UNCHANGED <<left, early>>
        BY DEF setHeartbeat, LoopStep, Start, Subscribe, Wake, conn, rest, Reset, Close,
               RegisterConnectionUnsubscribeHandler, Broadcast, SendUpdateMessageSubcription
      <4>2. \A m \in Loops : m # l => loop'[m] = loop[m]
        BY DEF IInv, TypeOK, setHeartbeat, LoopStep, Start, Subscribe, Goto, Wake, Reset, Close,
               RegisterConnectionUnsubscribeHandler, Broadcast, SendUpdateMessageSubcription
      <4> QED BY <1>2, <2>3, <4>1, <4>2 DEF Alone
    <3>2. Answering(l) /\ l[1] \in Timely /\ l[1] \notin closed
      BY <3>1 DEF IInv, Alone
    <3> USE <1>0, <2>3, <3>1, <3>2 DEF IInv, TypeOK, Goto, Mark, conn, rest, Answering
    <3>3. CASE setHeartbeat(l)
      BY <3>3 DEF setHeartbeat
    <3>4. CASE Start(l)
      BY <3>4 DEF Start
    <3>5. CASE Subscribe(l)
      BY <3>5 DEF Subscribe
    <3>6. CASE RegisterConnectionUnsubscribeHandler(l)
      BY <3>6 DEF RegisterConnectionUnsubscribeHandler
    <3>7. CASE Wake(l)
      BY <3>7 DEF Wake
    <3>8. CASE Broadcast(l)
      BY <3>8 DEF Broadcast, After
    <3>9. CASE SendUpdateMessageSubcription(l)
      BY <3>9 DEF SendUpdateMessageSubcription, After, Holding
    <3>10. CASE Reset(l)
      BY <3>10 DEF Reset
    <3>11. CASE Close(l)
      BY <3>11 DEF Close
    <3> QED BY <3>3, <3>4, <3>5, <3>6, <3>7, <3>8, <3>9, <3>10, <3>11 DEF LoopStep
  <2> QED BY <2>1, <2>2, <2>3
<1> QED BY <1>0, <1>1, <1>2 DEF IInv

(* What clients and connections do.                                        *)
LEMMA OthersKeep ==
    ASSUME IInv,
           \/ \E a \in Tests : test(a) \/ AddHeartbeat(a)
           \/ \E c \in Clients : Unsubscribe(c) \/ closeConnection(c) \/ UnsubscribeChannel(c)
           \/ ConcurrentMapAccess
    PROVE  IInv'
<1>0. TypeOK'
  BY TypesOfOthers DEF IInv
<1>1. Holding'
  BY DEF IInv, Holding, test, AddHeartbeat, Unsubscribe, closeConnection, UnsubscribeChannel,
         ConcurrentMapAccess, conn
<1>2. ASSUME NEW l \in Loops, Alone(l)' PROVE Answering(l)'
  <2>0. loop' = loop /\ closed \subseteq closed' /\ left \subseteq left' /\ early \subseteq early'
    BY DEF test, AddHeartbeat, Unsubscribe, closeConnection, UnsubscribeChannel,
           ConcurrentMapAccess, conn, rest
  <2>1. Alone(l) /\ l[1] \notin closed' \cup left' /\ l \notin early' /\ l[1] \in Clients
    BY <1>2, <2>0, LoopsAndTests DEF Alone
  <2>2. Answering(l)
    BY <2>1 DEF IInv
  <2> USE <2>0, <2>1, <2>2 DEF Answering
  <2>3. ASSUME NEW a \in Tests, test(a) PROVE Answering(l)'
    BY <2>3 DEF test
  <2>4. ASSUME NEW a \in Tests, AddHeartbeat(a) PROVE Answering(l)'
    <3>1. /\ heartbeat'[l[1]] \in {heartbeat[l[1]], "on"}
          /\ heartbeat[l[1]] = "absent" => heartbeat'[l[1]] = "absent"
      BY <2>4 DEF AddHeartbeat, Mark, IInv, TypeOK
    <3>2. CASE a # l
      BY <2>4, <3>1, <3>2 DEF AddHeartbeat
    <3>3. CASE a = l
      <4>1. loop[l] # "reset"
        BY <2>4, <3>3 DEF AddHeartbeat
      <4>2. heartbeat[l[1]] # "absent" => heartbeat'[l[1]] = "on"
        BY <2>4, <3>3 DEF AddHeartbeat, Mark, IInv, TypeOK
      <4> QED BY <2>4, <3>1, <4>1, <4>2 DEF AddHeartbeat
    <3> QED BY <3>2, <3>3
  <2>5. ASSUME NEW c \in Clients, Unsubscribe(c) PROVE Answering(l)'
    BY <2>5 DEF Unsubscribe
  <2>6. ASSUME NEW c \in Clients, closeConnection(c) PROVE Answering(l)'
    BY <2>6 DEF closeConnection
  <2>7. ASSUME NEW c \in Clients, UnsubscribeChannel(c) PROVE Answering(l)'
    BY <2>7 DEF UnsubscribeChannel, IInv, Holding
  <2>8. CASE ConcurrentMapAccess
    BY <2>8 DEF ConcurrentMapAccess
  <2> QED BY <2>3, <2>4, <2>5, <2>6, <2>7, <2>8
<1> QED BY <1>0, <1>1, <1>2 DEF IInv

LEMMA NextKeeps == IInv /\ [Next]_vars => IInv'
<1> SUFFICES ASSUME IInv, [Next]_vars PROVE IInv'
  OBVIOUS
<1>1. CASE UNCHANGED vars
  <2>1. TypeOK'
    BY <1>1, TypesKeep DEF IInv
  <2> QED BY <1>1, <2>1 DEF vars, conn, rest, IInv, Holding, Alone, Answering
<1>2. CASE Next
  BY <1>2, LoopKeeps, OthersKeep DEF Next
<1> QED BY <1>1, <1>2

LEMMA NeverSilent == IInv => ClosedForAReason
<1> SUFFICES ASSUME IInv, NEW l \in Loops, loop[l] = "close", l[1] \in Timely \ closed,
                    l \notin early, l[1] \notin left,
                    \A m \in Loops : m[1] = l[1] /\ m # l => loop[m] = "idle"
             PROVE  FALSE
  BY DEF ClosedForAReason
<1> QED BY DEF IInv, Alone, Answering

(* However many clients and heartbeats share the socket and the map: a     *)
(* client that answers every test_request in time is only cut off when an  *)
(* answer came before the reset, when it asked for heartbeats twice, or    *)
(* when it had unsubscribed.                                               *)
THEOREM AnswersSuffice == Spec => []ClosedForAReason
BY Starting, NextKeeps, NeverSilent, PTL DEF Spec
=============================================================================
