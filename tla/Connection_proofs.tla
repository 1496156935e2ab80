-------------------------- MODULE Connection_proofs --------------------------
(***************************************************************************)
(* Invariants of Connection, for any set of clients, channels and methods: *)
(* no subscription is without its unsubscribe handler, and which of them   *)
(* outlive their connection.                                               *)
(***************************************************************************)
EXTENDS Connection, TLAPS

(* A goroutine that has made its first step has the others still to make. *)
LEMMA TailKeeps ==
    ASSUME NEW s \in Seq(Step), s # <<>>, NEW j \in DOMAIN s, j # 1
    PROVE  /\ Tail(s) \in Seq(Step)
           /\ j - 1 \in DOMAIN Tail(s)
           /\ Tail(s)[j - 1] = s[j]
OBVIOUS

LEMMA TailOf ==
    ASSUME NEW s \in Seq(Step), s # <<>>, NEW i \in DOMAIN Tail(s)
    PROVE  /\ i + 1 \in DOMAIN s
           /\ Tail(s)[i] = s[i + 1]
OBVIOUS

LEMMA MethodType ==
    ASSUME NEW m \in Methods
    PROVE  /\ m \in Seq(Step)
           /\ \A i \in DOMAIN m : m[i] = "subscribe" => \E j \in DOMAIN m : i < j /\ m[j] = "register"
BY ConstantsOK

(* The step of a goroutine keeps the scripts in their type. *)
LEMMA DoesType ==
    ASSUME TypeOK, NEW k \in Calls, NEW step, Does(k, step)
    PROVE  /\ script' \in [Calls -> Seq(Step)]
           /\ script[k] \in Seq(Step) /\ script[k] # <<>> /\ script[k][1] = step
           /\ script'[k] = Tail(script[k])
           /\ \A l \in Calls \ {k} : script'[l] = script[l]
<1>1. script \in [Calls -> Seq(Step)] /\ script[k] # <<>> /\ Head(script[k]) = step
  BY DEF Does, TypeOK
<1>2. script[k] \in Seq(Step)
  BY <1>1
<1>3. Tail(script[k]) \in Seq(Step) /\ script[k][1] = step
  BY <1>1, <1>2
<1>4. script' = [script EXCEPT ![k] = Tail(@)]
  BY DEF Does
<1> QED BY <1>1, <1>2, <1>3, <1>4

LEMMA CallParts ==
    ASSUME TypeOK, NEW k \in Calls
    PROVE  /\ k[1] \in Clients
           /\ call[k].channel \in Channels /\ call[k].steps \in Methods
<1>1. k \in Clients \X (1 .. MaxCalls)
  BY DEF Calls
<1>2. call[k] \in [steps : Methods, channel : Channels]
  BY DEF TypeOK
<1> QED BY <1>1, <1>2

-----------------------------------------------------------------------------
(* Type correctness: every step of readHandler, writeHandler, the requests *)
(* and the broadcasts keeps the state of the connections in its type.      *)
THEOREM TypeCorrect == Spec => []TypeOK
<1>1. Init => TypeOK
  BY DEF Init, TypeOK
<1>2. ASSUME TypeOK, [Next]_vars
      PROVE  TypeOK'
  <2> USE <1>2 DEF TypeOK
  <2>1. ASSUME NEW k \in Calls, Dispatch(k)
        PROVE  TypeOK'
    <3>1. call[k].steps \in Seq(Step)
      BY CallParts, MethodType
    <3> QED BY <2>1, <3>1 DEF Dispatch, socket, conn
  <2>2. ASSUME NEW k \in Calls, CallStep(k)
        PROVE  TypeOK'
    <3> USE CallParts
    <3>1. CASE CallLock(k)
      BY <3>1 DEF CallLock, Lock, calls, socket
    <3>2. CASE Confirm(k)
      <4>1. script' \in [Calls -> Seq(Step)]
        BY <3>2, DoesType DEF Confirm
      <4> QED BY <3>2, <4>1 DEF Confirm, Send, socket
    <3>3. CASE SendInitMessage(k)
      <4>1. script' \in [Calls -> Seq(Step)]
        BY <3>3, DoesType DEF SendInitMessage
      <4> QED BY <3>3, <4>1 DEF SendInitMessage, Send, socket
    <3>4. CASE Subscribe(k)
      <4>1. script' \in [Calls -> Seq(Step)]
        BY <3>4, DoesType DEF Subscribe
      <4> QED BY <3>4, <4>1 DEF Subscribe, conn
    <3>5. CASE RegisterConnectionUnsubscribeHandler(k)
      <4>1. script' \in [Calls -> Seq(Step)]
        BY <3>5, DoesType DEF RegisterConnectionUnsubscribeHandler
      <4> QED BY <3>5, <4>1 DEF RegisterConnectionUnsubscribeHandler, socket, conn
    <3>6. CASE Unsubscribe(k)
      <4>1. script' \in [Calls -> Seq(Step)]
        BY <3>6, DoesType DEF Unsubscribe
      <4> QED BY <3>6, <4>1 DEF Unsubscribe, conn
    <3>7. CASE SetEnableCancel(k)
      <4>1. script' \in [Calls -> Seq(Step)]
        BY <3>7, DoesType DEF SetEnableCancel
      <4> QED BY <3>7, <4>1 DEF SetEnableCancel, socket, conn
    <3> QED BY <2>2, <3>1, <3>2, <3>3, <3>4, <3>5, <3>6, <3>7 DEF CallStep
  <2>3. ASSUME NEW b \in Broadcasts, BroadcastMessage(b)
        PROVE  TypeOK'
    BY <2>3 DEF BroadcastMessage, calls, conn
  <2>4. ASSUME BroadcastStep
        PROVE  TypeOK'
    <3>1. CASE EndBroadcast
      BY <3>1 DEF EndBroadcast, calls, conn
    <3>2. ASSUME NEW c \in Clients, TurnTo(c)
          PROVE  TypeOK'
      BY <3>2 DEF TurnTo, Lock, calls
    <3>3. ASSUME NEW c \in Clients, SendUpdateMessage(c)
          PROVE  TypeOK'
      BY <3>3 DEF SendUpdateMessage, Send, calls, socket
    <3> QED BY <2>4, <3>1, <3>2, <3>3 DEF BroadcastStep
  <2>5. ASSUME NEW c \in Clients, PeerStep(c) \/ ReaderStep(c) \/ WriterStep(c)
        PROVE  TypeOK'
    <3>1. CASE closeHandler(c)
      BY <3>1 DEF closeHandler, closeConnection, calls, socket
    <3>2. CASE ReadError(c)
      BY <3>2 DEF ReadError, calls, socket
    <3>3. CASE ReadOther(c)
      BY <3>3 DEF ReadOther, calls, socket
    <3>4. CASE ReaderLock(c)
      BY <3>4 DEF ReaderLock, Lock, calls, socket
    <3>5. CASE ReaderSend(c)
      BY <3>5 DEF ReaderSend, Send, calls, socket
    <3>6. CASE PublishCancelAll(c)
      BY <3>6 DEF PublishCancelAll, calls, socket
    <3>7. CASE EndReader(c)
      BY <3>7 DEF EndReader, closeConnection, calls, socket
    <3>8. CASE Written(c)
      BY <3>8 DEF Written, calls, socket
    <3>9. CASE WriteError(c)
      BY <3>9 DEF WriteError, calls, socket
    <3>10. CASE EndWriter(c)
      BY <3>10 DEF EndWriter, closeConnection, calls, socket
    <3> QED BY <2>5, <3>1, <3>2, <3>3, <3>4, <3>5, <3>6, <3>7, <3>8, <3>9, <3>10
            DEF PeerStep, ReaderStep, WriterStep
  <2>6. ASSUME NEW ch \in Channels, NEW c \in Clients, UnsubscribeChannel(ch, c)
        PROVE  TypeOK'
    BY <2>6 DEF UnsubscribeChannel, calls
  <2>7. CASE UNCHANGED vars
    BY <2>7 DEF vars, calls, socket, conn
  <2> QED BY <2>1, <2>2, <2>3, <2>4, <2>5, <2>6, <2>7 DEF Next
<1> QED BY <1>1, <1>2, PTL DEF Spec

-----------------------------------------------------------------------------
(* A goroutine that has still to subscribe has still to register after it; *)
(* one that was not started has nothing to do.                             *)
ScriptsRegister ==
    \A k \in Calls :
        /\ k \notin sent => script[k] = <<>>
        /\ \A i \in DOMAIN script[k] : script[k][i] = "subscribe" =>
              \E j \in DOMAIN script[k] : i < j /\ script[k][j] = "register"

IInv == TypeOK /\ ScriptsRegister /\ Covered /\ ZombieOnlyIfLate

LEMMA ScriptsKept ==
    ASSUME TypeOK, ScriptsRegister, NEW k \in Calls, NEW step, Does(k, step), sent' = sent
    PROVE  ScriptsRegister'
<1> SUFFICES ASSUME NEW l \in Calls
             PROVE  /\ l \notin sent => script'[l] = <<>>
                    /\ \A i \in DOMAIN script'[l] : script'[l][i] = "subscribe" =>
                          \E j \in DOMAIN script'[l] : i < j /\ script'[l][j] = "register"
  BY DEF ScriptsRegister
<1>1. CASE l # k
  BY <1>1, DoesType DEF ScriptsRegister
<1>2. CASE l = k
  <2>0. /\ script[k] \in Seq(Step) /\ script[k] # <<>>
        /\ script'[k] = Tail(script[k]) /\ script'[k] \in Seq(Step)
    BY DoesType
  <2>1. k \in sent
    BY <2>0 DEF ScriptsRegister
  <2>2. ASSUME NEW i \in DOMAIN script'[k], script'[k][i] = "subscribe"
        PROVE  \E j \in DOMAIN script'[k] : i < j /\ script'[k][j] = "register"
    <3>1. i + 1 \in DOMAIN script[k] /\ script[k][i + 1] = "subscribe" /\ i \in Nat \ {0}
      BY <2>0, <2>2, TailOf
    <3>2. PICK j \in DOMAIN script[k] : i + 1 < j /\ script[k][j] = "register"
      BY <3>1 DEF ScriptsRegister
    <3>3. j \in Nat /\ j # 1
      BY <2>0, <3>1, <3>2
    <3>4. j - 1 \in DOMAIN script'[k] /\ script'[k][j - 1] = "register"
      BY <2>0, <3>2, <3>3, TailKeeps
    <3> QED BY <3>1, <3>2, <3>3, <3>4
  <2> QED BY <1>2, <2>1, <2>2
<1> QED BY <1>1, <1>2

(* A registration that is pending stays so until it is made. *)
LEMMA PendingKept ==
    ASSUME TypeOK, NEW k \in Calls, NEW step, Does(k, step), call' = call,
           NEW ch, NEW c, Pending("register", ch, c)
    PROVE  \/ Pending("register", ch, c)'
           \/ step = "register" /\ call[k].channel = ch /\ k[1] = c
<1>1. PICK l \in Calls : /\ l[1] = c /\ call[l].channel = ch
                         /\ \E i \in DOMAIN script[l] : script[l][i] = "register"
  BY DEF Pending
<1>2. PICK i \in DOMAIN script[l] : script[l][i] = "register"
  BY <1>1
<1>3. CASE l # k
  BY <1>1, <1>2, <1>3, DoesType DEF Pending
<1>4. CASE l = k /\ i = 1
  BY <1>1, <1>2, <1>4, DoesType
<1>5. CASE l = k /\ i # 1
  <2>1. script[k] \in Seq(Step) /\ script[k] # <<>> /\ script'[k] = Tail(script[k])
    BY DoesType
  <2>2. i - 1 \in DOMAIN script'[k] /\ script'[k][i - 1] = "register"
    BY <1>2, <1>5, <2>1, TailKeeps
  <2> QED BY <1>1, <1>5, <2>2 DEF Pending
<1> QED BY <1>3, <1>4, <1>5

(* The channel just subscribed to is waiting for its handler. *)
LEMMA PendingAfterSubscribe ==
    ASSUME TypeOK, ScriptsRegister, NEW k \in Calls, Does(k, "subscribe"), call' = call
    PROVE  Pending("register", call[k].channel, k[1])'
<1>1. /\ script[k] \in Seq(Step) /\ script[k] # <<>> /\ script[k][1] = "subscribe"
      /\ script'[k] = Tail(script[k])
  BY DoesType
<1>2. PICK j \in DOMAIN script[k] : 1 < j /\ script[k][j] = "register"
  BY <1>1 DEF ScriptsRegister
<1>3. j # 1
  BY <1>1, <1>2
<1>4. j - 1 \in DOMAIN script'[k] /\ script'[k][j - 1] = "register"
  BY <1>1, <1>2, <1>3, TailKeeps
<1> QED BY <1>4 DEF Pending

(* A step of a request that neither subscribes nor registers, and ends no  *)
(* handler.                                                                *)
LEMMA OtherCallStep ==
    ASSUME IInv, NEW k \in Calls, NEW step, step # "register", Does(k, step), call' = call,
           subscriptions' \subseteq subscriptions,
           UNCHANGED <<sent, unsubscribeHandlers, triggered, late, reader>>,
           \A c \in Clients : writer'[c] = "ended" <=> writer[c] = "ended"
    PROVE  ScriptsRegister' /\ Covered' /\ ZombieOnlyIfLate'
<1>1. ScriptsRegister'
  BY ScriptsKept DEF IInv
<1>2. Covered'
  BY PendingKept DEF IInv, Covered
<1>3. ZombieOnlyIfLate'
  BY PendingKept DEF IInv, ZombieOnlyIfLate
<1> QED BY <1>1, <1>2, <1>3

(* A step that leaves the requests alone, and ends no handler. *)
LEMMA SocketStep ==
    ASSUME IInv, UNCHANGED <<call, script, sent, unsubscribeHandlers, late>>,
           subscriptions' \subseteq subscriptions, triggered \subseteq triggered',
           \A c \in Clients : /\ reader'[c] = "ended" => reader[c] = "ended"
                              /\ writer'[c] = "ended" => writer[c] = "ended"
    PROVE  ScriptsRegister' /\ Covered' /\ ZombieOnlyIfLate'
<1>1. \A ch, c : Pending("register", ch, c)' <=> Pending("register", ch, c)
  BY DEF Pending
<1> QED BY <1>1 DEF IInv, ScriptsRegister, Covered, ZombieOnlyIfLate

(* closeConnection starts every handler of the connection, so nothing is   *)
(* left behind but what has still to register.                             *)
LEMMA CloseStep ==
    ASSUME IInv, NEW c \in Clients, closeConnection(c),
           UNCHANGED <<call, script, sent, subscriptions, unsubscribeHandlers, late>>,
           \A d \in Clients \ {c} : reader'[d] = reader[d] /\ writer'[d] = writer[d]
    PROVE  ScriptsRegister' /\ Covered' /\ ZombieOnlyIfLate'
<1>1. \A ch, d : Pending("register", ch, d)' <=> Pending("register", ch, d)
  BY DEF Pending
<1>2. ScriptsRegister' /\ Covered'
  BY <1>1 DEF IInv, ScriptsRegister, Covered
<1>3. ASSUME NEW ch \in Channels, NEW d \in Clients, <<ch, d>> \in subscriptions',
             reader'[d] = "ended", writer'[d] = "ended"
      PROVE  <<ch, d>> \in triggered' \cup late' \/ Pending("register", ch, d)'
  <2>1. triggered' = triggered \cup (unsubscribeHandlers[c] \X {c})
    BY DEF closeConnection
  <2>2. CASE d = c
    BY <1>1, <1>3, <2>1, <2>2 DEF IInv, Covered
  <2>3. CASE d # c
    BY <1>1, <1>3, <2>1, <2>3 DEF IInv, ZombieOnlyIfLate
  <2> QED BY <2>2, <2>3
<1> QED BY <1>2, <1>3 DEF ZombieOnlyIfLate

-----------------------------------------------------------------------------
(* IInv is inductive.                                                      *)
LEMMA Inductive == ASSUME IInv, [Next]_vars, TypeOK' PROVE IInv'
<1> USE DEF IInv
<1>1. ASSUME NEW k \in Calls, Dispatch(k)
      PROVE  IInv'
  <2>1. /\ script[k] = <<>> /\ script' = [script EXCEPT ![k] = call[k].steps]
        /\ sent' = sent \cup {k} /\ call[k].steps \in Methods
        /\ UNCHANGED <<call, subscriptions, unsubscribeHandlers, triggered, late, reader, writer>>
    BY <1>1, CallParts DEF Dispatch, ScriptsRegister, socket, conn
  <2>2. ScriptsRegister'
    BY <2>1, MethodType DEF ScriptsRegister, TypeOK
  <2>3. \A ch, c : Pending("register", ch, c) => Pending("register", ch, c)'
    BY <2>1 DEF Pending, TypeOK
  <2>4. Covered' /\ ZombieOnlyIfLate'
    BY <2>1, <2>3 DEF Covered, ZombieOnlyIfLate
  <2> QED BY <2>2, <2>4
<1>2. ASSUME NEW k \in Calls, CallStep(k)
      PROVE  IInv'
  <2>1. CASE CallLock(k)
    BY <2>1, SocketStep DEF CallLock, calls, socket
  <2>2. CASE Confirm(k)
    BY <2>2, OtherCallStep DEF Confirm, Send, socket, TypeOK
  <2>3. CASE SendInitMessage(k)
    BY <2>3, OtherCallStep DEF SendInitMessage, Send, socket, TypeOK
  <2>4. CASE Unsubscribe(k)
    BY <2>4, OtherCallStep DEF Unsubscribe, conn
  <2>5. CASE SetEnableCancel(k)
    BY <2>5, OtherCallStep DEF SetEnableCancel, socket, conn
  <2>6. CASE Subscribe(k)
    <3>1. /\ Does(k, "subscribe") /\ subscriptions' = subscriptions \cup {<<call[k].channel, k[1]>>}
          /\ UNCHANGED <<call, sent, unsubscribeHandlers, triggered, late, reader, writer>>
      BY <2>6 DEF Subscribe, conn
    <3>2. ScriptsRegister'
      BY <3>1, ScriptsKept
    <3>3. \A ch, c : Pending("register", ch, c) => Pending("register", ch, c)'
      BY <3>1, PendingKept
    <3>4. Pending("register", call[k].channel, k[1])'
      BY <3>1, PendingAfterSubscribe
    <3>5. Covered' /\ ZombieOnlyIfLate'
      BY <3>1, <3>3, <3>4 DEF Covered, ZombieOnlyIfLate
    <3> QED BY <3>2, <3>5
  <2>7. CASE RegisterConnectionUnsubscribeHandler(k)
    <3>1. /\ Does(k, "register")
          /\ unsubscribeHandlers' = [unsubscribeHandlers EXCEPT ![k[1]] = @ \cup {call[k].channel}]
          /\ late \subseteq late'
          /\ reader[k[1]] = "ended" /\ writer[k[1]] = "ended" => <<call[k].channel, k[1]>> \in late'
          /\ UNCHANGED <<call, sent, subscriptions, triggered, reader, writer>>
      BY <2>7 DEF RegisterConnectionUnsubscribeHandler, socket, conn
    <3>2. ScriptsRegister'
      BY <3>1, ScriptsKept
    <3>3. \A ch, c : Pending("register", ch, c) =>
              Pending("register", ch, c)' \/ (ch = call[k].channel /\ c = k[1])
      BY <3>1, PendingKept
    <3>4. \A c \in Clients : unsubscribeHandlers[c] \subseteq unsubscribeHandlers'[c]
      BY <3>1 DEF TypeOK
    <3>5. call[k].channel \in unsubscribeHandlers'[k[1]]
      BY <3>1, CallParts DEF TypeOK
    <3>6. Covered'
      BY <3>1, <3>3, <3>4, <3>5 DEF Covered
    <3>7. ZombieOnlyIfLate'
      BY <3>1, <3>3 DEF ZombieOnlyIfLate
    <3> QED BY <3>2, <3>6, <3>7
  <2> QED BY <1>2, <2>1, <2>2, <2>3, <2>4, <2>5, <2>6, <2>7 DEF CallStep
<1>3. ASSUME NEW b \in Broadcasts, BroadcastMessage(b)
      PROVE  IInv'
  BY <1>3, SocketStep DEF BroadcastMessage, calls, conn
<1>4. CASE BroadcastStep
  <2>1. CASE EndBroadcast
    BY <2>1, SocketStep DEF EndBroadcast, calls, conn
  <2>2. ASSUME NEW c \in Clients, TurnTo(c)
        PROVE  IInv'
    BY <2>2, SocketStep DEF TurnTo, calls
  <2>3. ASSUME NEW c \in Clients, SendUpdateMessage(c)
        PROVE  IInv'
    BY <2>3, SocketStep DEF SendUpdateMessage, Send, calls, socket, TypeOK
  <2> QED BY <1>4, <2>1, <2>2, <2>3 DEF BroadcastStep
<1>5. ASSUME NEW c \in Clients, PeerStep(c) \/ ReaderStep(c) \/ WriterStep(c)
      PROVE  IInv'
  <2> USE DEF calls, socket, TypeOK
  <2>1. CASE closeHandler(c)
    BY <2>1, CloseStep DEF closeHandler
  <2>2. CASE ReadError(c)
    BY <2>2, SocketStep DEF ReadError
  <2>3. CASE ReadOther(c)
    BY <2>3, SocketStep DEF ReadOther
  <2>4. CASE ReaderLock(c)
    BY <2>4, SocketStep DEF ReaderLock
  <2>5. CASE ReaderSend(c)
    BY <2>5, SocketStep DEF ReaderSend, Send
  <2>6. CASE PublishCancelAll(c)
    BY <2>6, SocketStep DEF PublishCancelAll
  <2>7. CASE EndReader(c)
    BY <2>7, CloseStep DEF EndReader
  <2>8. CASE Written(c)
    BY <2>8, SocketStep DEF Written
  <2>9. CASE WriteError(c)
    BY <2>9, SocketStep DEF WriteError
  <2>10. CASE EndWriter(c)
    BY <2>10, CloseStep DEF EndWriter
  <2> QED BY <1>5, <2>1, <2>2, <2>3, <2>4, <2>5, <2>6, <2>7, <2>8, <2>9, <2>10
          DEF PeerStep, ReaderStep, WriterStep
<1>6. ASSUME NEW ch \in Channels, NEW c \in Clients, UnsubscribeChannel(ch, c)
      PROVE  IInv'
  <2>1. /\ UNCHANGED <<call, script, sent, unsubscribeHandlers, late, reader, writer>>
        /\ subscriptions' = subscriptions \ {<<ch, c>>}
        /\ triggered' = triggered \ {<<ch, c>>}
    BY <1>6 DEF UnsubscribeChannel, calls
  <2>2. \A x, y : Pending("register", x, y)' <=> Pending("register", x, y)
    BY <2>1 DEF Pending
  <2> QED BY <2>1, <2>2 DEF ScriptsRegister, Covered, ZombieOnlyIfLate
<1>7. CASE UNCHANGED vars
  BY <1>7, SocketStep DEF vars, calls, socket, conn
<1> QED BY <1>1, <1>2, <1>3, <1>4, <1>5, <1>6, <1>7 DEF Next

(* The inductive invariant holds in every reachable state of the sockets.  *)
THEOREM Invariant == Spec => []IInv
<1>1. Init => IInv
  <2>1. Init => TypeOK /\ ScriptsRegister
    BY DEF Init, TypeOK, ScriptsRegister
  <2>2. Init => Covered /\ ZombieOnlyIfLate
    BY DEF Init, Covered, ZombieOnlyIfLate
  <2> QED BY <2>1, <2>2 DEF IInv
<1>2. IInv /\ [Next]_vars /\ TypeOK' => IInv'
  BY Inductive
<1> QED BY <1>1, <1>2, TypeCorrect, PTL DEF Spec

(* Every subscription has its unsubscribe handler, or a goroutine that is  *)
(* about to register it, whatever subscribes, unsubscribes and closes.     *)
THEOREM SubscriptionsCovered == Spec => []Covered
<1>1. IInv => Covered
  BY DEF IInv
<1> QED BY <1>1, Invariant, PTL

(* The subscriptions that outlive their connection for good are those      *)
(* whose handler was registered after the last closeConnection.            *)
THEOREM NoOtherZombies == Spec => []ZombieOnlyIfLate
<1>1. IInv => ZombieOnlyIfLate
  BY DEF IInv
<1> QED BY <1>1, Invariant, PTL
-----------------------------------------------------------------------------
(* Only closeConnection starts unsubscribe handlers, and a Conn stays      *)
(* closed.                                                                 *)
OfClosed == \A x \in triggered : x[2] \in closed

LEMMA ClosingOnly ==
    ASSUME TypeOK, OfClosed, [Next]_vars
    PROVE  OfClosed' /\ closed \subseteq closed'
<1>1. ASSUME NEW k \in Calls, Dispatch(k) \/ CallStep(k)
      PROVE  UNCHANGED <<closed, triggered>>
  BY <1>1 DEF CallStep, Dispatch, CallLock, Confirm, SendInitMessage, Subscribe, Unsubscribe,
              RegisterConnectionUnsubscribeHandler, SetEnableCancel, conn
<1>2. ASSUME BroadcastStep \/ (\E b \in Broadcasts : BroadcastMessage(b)) \/ UNCHANGED vars
      PROVE  UNCHANGED <<closed, triggered>>
  BY <1>2 DEF BroadcastStep, BroadcastMessage, TurnTo, SendUpdateMessage, EndBroadcast, conn, vars
<1>3. ASSUME NEW c \in Clients, PeerStep(c) \/ ReaderStep(c) \/ WriterStep(c)
      PROVE  UNCHANGED <<closed, triggered>> \/ closeConnection(c)
  BY <1>3 DEF PeerStep, ReaderStep, WriterStep, closeHandler, ReadError, ReadOther, ReaderLock,
              ReaderSend, PublishCancelAll, EndReader, Written, WriteError, EndWriter
<1>4. ASSUME NEW c \in Clients, closeConnection(c)
      PROVE  OfClosed' /\ closed \subseteq closed'
  BY <1>4 DEF closeConnection, OfClosed
<1>5. ASSUME UNCHANGED <<closed, triggered>>
      PROVE  OfClosed' /\ closed \subseteq closed'
  BY <1>5 DEF OfClosed
<1>6. ASSUME NEW ch \in Channels, NEW c \in Clients, UnsubscribeChannel(ch, c)
      PROVE  OfClosed' /\ closed \subseteq closed'
  BY <1>6 DEF UnsubscribeChannel, OfClosed
<1> QED BY <1>1, <1>2, <1>3, <1>4, <1>5, <1>6 DEF Next

(* What a step takes out of subscriptions is its client's own.             *)
LEMMA OwnLeave ==
    ASSUME TypeOK, OfClosed, [Next]_vars, NEW x \in subscriptions \ subscriptions'
    PROVE  x[2] \in closed \/ \E k \in Calls : k[1] = x[2] /\ script'[k] # script[k]
<1>1. ASSUME NEW k \in Calls, Unsubscribe(k)
      PROVE  k[1] = x[2] /\ script'[k] # script[k]
  <2>1. x \in subscriptionsList[k[1]] \X {k[1]}
    BY <1>1 DEF Unsubscribe
  <2>2. script[k] \in Seq(Step) /\ script[k] # <<>> /\ script'[k] = Tail(script[k])
    BY <1>1, DoesType DEF Unsubscribe
  <2>3. Len(Tail(script[k])) # Len(script[k])
    BY <2>2
  <2> QED BY <2>1, <2>2, <2>3
<1>2. ASSUME NEW ch \in Channels, NEW c \in Clients, UnsubscribeChannel(ch, c)
      PROVE  x[2] \in closed
  BY <1>2 DEF UnsubscribeChannel, OfClosed
<1>3. ASSUME NEW k \in Calls, Dispatch(k) \/ CallStep(k), ~Unsubscribe(k)
      PROVE  FALSE
  BY <1>3 DEF CallStep, Dispatch, CallLock, Confirm, SendInitMessage, Subscribe,
              RegisterConnectionUnsubscribeHandler, SetEnableCancel, socket
<1>4. ASSUME BroadcastStep \/ (\E b \in Broadcasts : BroadcastMessage(b)) \/ UNCHANGED vars
      PROVE  FALSE
  BY <1>4 DEF BroadcastStep, BroadcastMessage, TurnTo, SendUpdateMessage, EndBroadcast, socket, vars
<1>5. ASSUME NEW c \in Clients, PeerStep(c) \/ ReaderStep(c) \/ WriterStep(c)
      PROVE  FALSE
  BY <1>5 DEF PeerStep, ReaderStep, WriterStep, closeHandler, ReadError, ReadOther, ReaderLock,
              ReaderSend, PublishCancelAll, EndReader, Written, WriteError, EndWriter, socket
<1> QED BY <1>1, <1>2, <1>3, <1>4, <1>5 DEF Next

(* However clients subscribe, unsubscribe and close, nobody's subscription *)
(* ends but at its own client's request or with its own connection.        *)
THEOREM OnlyOwnLeave == Spec => OthersUntouched
<1>1. Init => OfClosed
  BY DEF Init, OfClosed
<1>2. TypeOK /\ OfClosed /\ [Next]_vars => OfClosed'
  BY ClosingOnly
<1>3. TypeOK /\ OfClosed /\ [Next]_vars =>
      [\A x \in subscriptions \ subscriptions' :
          x[2] \in closed \/ \E k \in Calls : k[1] = x[2] /\ script'[k] # script[k]]_vars
  BY OwnLeave
<1> QED BY <1>1, <1>2, <1>3, TypeCorrect, PTL DEF Spec, OthersUntouched
=============================================================================
