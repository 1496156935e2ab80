----------------------------- MODULE Connection -----------------------------
(***************************************************************************)
(* A WebSocket connection of the gateway and one subscription socket       *)
(* (pkg/ws): readHandler, writeHandler and closeConnection of each client, *)
(* the map of subscriptions with its mutex, the goroutines of the methods  *)
(* that subscribe and unsubscribe, and the broadcasts of the consumers.    *)
(*                                                                         *)
(* The sockets (trade, order, quote, book, price, order book, engine) are  *)
(* copies of one another and share nothing; this is any one of them.       *)
(*                                                                         *)
(* A client sends its next request when the previous one was answered.     *)
(* Every request has a goroutine of its own; its script lists, in order,   *)
(* what it does to the state modelled here.  SocketMethods has the scripts *)
(* of the methods.                                                         *)
(***************************************************************************)
EXTENDS Naturals, Sequences, FiniteSets

CONSTANTS
    Clients,     \* WebSocket connections
    Closing,     \* those that may fail or be closed
    Pinging,     \* those that send what readHandler itself answers
    Channels,    \* channel ids of the socket
    Methods,     \* the methods a client may call
    MaxCalls,    \* bound: requests a client sends
    Broadcasts,  \* bound: messages the consumers publish
    Free         \* the holder of a mutex nobody holds

Step == {"confirm",      \* protocol.SendSuccessMsg(connKey, ...)
         "subscribe",    \* socket.Subscribe(id, c)
         "register",     \* ws.RegisterConnectionUnsubscribeHandler(c, ...)
         "send",         \* socket.SendInitMessage(c, ...) or SendErrorMessage
         "unsubscribe",  \* socket.Unsubscribe(c)
         "enable",       \* c.EnableCancelOnDisconnect(id)
         "disable"}      \* c.DisableCancelOnDisconnect(id)

Calls == Clients \X (1 .. MaxCalls)

ASSUME ConstantsOK ==
    /\ Closing \subseteq Clients /\ Pinging \subseteq Clients
    /\ Methods \subseteq Seq(Step)
    /\ \A m \in Methods : \A i \in DOMAIN m : m[i] = "subscribe" =>
          \E j \in DOMAIN m : i < j /\ m[j] = "register"
    /\ MaxCalls \in Nat
    /\ Free \notin Broadcasts \cup Clients \cup Calls
    /\ Broadcasts \cap Clients = {} /\ (Broadcasts \cup Clients) \cap Calls = {}

VARIABLES
    call,                 \* the requests' method and channel: the input
    topic,                \* the channel each message is broadcast on: the input
    script,               \* what the goroutine of a request has still to do
    sent,                 \* requests dispatched by readHandler
    confirmed,            \* requests answered
    subscriptions,        \* s.subscriptions: pairs of channel and client
    subscriptionsList,    \* s.subscriptionsList, whose order is immaterial
    mu,                   \* the broadcast that holds s.mu
    todo,                 \* clients the broadcast has still to turn to
    published,            \* broadcasts that have started
    unsubscribeHandlers,  \* channels with a handler, per client
    triggered,            \* go unsub(c) of closeConnection, not yet run
    reader, writer,       \* readHandler and writeHandler of each client
    holder,               \* Client.mu: the goroutine in or before c.send <- m
    closed,               \* clients whose Conn is closed
    EnableCancel,         \* Client.EnableCancel
    cancelled,            \* clients for whom CANCEL_ALL was published
    late                  \* ghost: handlers registered after both had ended

calls  == <<call, script, sent, confirmed>>
socket == <<subscriptions, subscriptionsList, mu, todo, topic, published>>
conn   == <<reader, writer, holder, closed, triggered>>
vars   == <<calls, socket, conn, unsubscribeHandlers, EnableCancel, cancelled, late>>

-----------------------------------------------------------------------------
Init ==
    /\ call \in [Calls -> [steps : Methods, channel : Channels]]
    /\ topic \in [Broadcasts -> Channels]
    /\ script = [k \in Calls |-> <<>>]
    /\ sent = {} /\ confirmed = {}
    /\ subscriptions = {}
    /\ subscriptionsList = [c \in Clients |-> {}]
    /\ mu = Free /\ todo = {} /\ published = {}
    /\ unsubscribeHandlers = [c \in Clients |-> {}]
    /\ triggered = {}
    /\ reader = [c \in Clients |-> "read"]
    /\ writer = [c \in Clients |-> "select"]
    /\ holder = [c \in Clients |-> Free]
    /\ closed = {}
    /\ EnableCancel = [c \in Clients |-> FALSE]
    /\ cancelled = {}
    /\ late = {}

(* Every message goes out with c.mu held: c.mu.Lock() ... *)
Lock(c, g) ==
    /\ holder[c] = Free
    /\ holder' = [holder EXCEPT ![c] = g]

(* ... c.send <- m, the rendezvous with the select of writeHandler, and    *)
(* c.mu.Unlock().                                                          *)
Send(c, g) ==
    /\ holder[c] = g
    /\ writer[c] = "select"
    /\ writer' = [writer EXCEPT ![c] = "write"]
    /\ holder' = [holder EXCEPT ![c] = Free]

-----------------------------------------------------------------------------
(* readHandler: go socketChannels[msg.Method](msg, c).  The client sends a *)
(* request when it has the answer to the one before.                       *)
Dispatch(k) ==
    /\ k \notin sent
    /\ reader[k[1]] = "read"
    /\ k[2] > 1 => <<k[1], k[2] - 1>> \in confirmed /\ writer[k[1]] # "write"
    /\ sent' = sent \cup {k}
    /\ script' = [script EXCEPT ![k] = call[k].steps]
    /\ UNCHANGED <<call, confirmed, socket, conn, unsubscribeHandlers, EnableCancel, cancelled, late>>

(* The goroutine of request k makes its next step. *)
Does(k, step) ==
    /\ script[k] # <<>>
    /\ Head(script[k]) = step
    /\ script' = [script EXCEPT ![k] = Tail(@)]

CallLock(k) ==
    /\ script[k] # <<>>
    /\ Head(script[k]) \in {"confirm", "send"}
    /\ Lock(k[1], k)
    /\ UNCHANGED <<calls, socket, reader, writer, closed, triggered, unsubscribeHandlers,
                   EnableCancel, cancelled, late>>

Confirm(k) ==
    /\ Does(k, "confirm")
    /\ Send(k[1], k)
    /\ confirmed' = confirmed \cup {k}
    /\ UNCHANGED <<call, sent, socket, reader, closed, triggered, unsubscribeHandlers,
                   EnableCancel, cancelled, late>>

SendInitMessage(k) ==
    /\ Does(k, "send")
    /\ Send(k[1], k)
    /\ UNCHANGED <<call, sent, confirmed, socket, reader, closed, triggered, unsubscribeHandlers,
                   EnableCancel, cancelled, late>>

(* Mutant: the client is appended, not the channel. *)
Subscribe_ListsClient(k) ==
    /\ Does(k, "subscribe")
    /\ mu = Free
    /\ subscriptions' = subscriptions \cup {<<call[k].channel, k[1]>>}
    /\ subscriptionsList' = [subscriptionsList EXCEPT ![k[1]] = @ \cup {k[1]}]
    /\ UNCHANGED <<call, sent, confirmed, mu, todo, topic, published, conn, unsubscribeHandlers,
                   EnableCancel, cancelled, late>>

Subscribe(k) ==
    /\ Does(k, "subscribe")
    /\ mu = Free
    /\ subscriptions' = subscriptions \cup {<<call[k].channel, k[1]>>}
    /\ subscriptionsList' = [subscriptionsList EXCEPT ![k[1]] = @ \cup {call[k].channel}]
    /\ UNCHANGED <<call, sent, confirmed, mu, todo, topic, published, conn, unsubscribeHandlers,
                   EnableCancel, cancelled, late>>

(* Mutant: the handler replaces those registered before. *)
RegisterConnectionUnsubscribeHandler_Replaces(k) ==
    /\ Does(k, "register")
    /\ unsubscribeHandlers' = [unsubscribeHandlers EXCEPT ![k[1]] = {call[k].channel}]
    /\ late' = IF reader[k[1]] = "ended" /\ writer[k[1]] = "ended"
               THEN late \cup {<<call[k].channel, k[1]>>} ELSE late
    /\ UNCHANGED <<call, sent, confirmed, socket, conn, EnableCancel, cancelled>>

RegisterConnectionUnsubscribeHandler(k) ==
    /\ Does(k, "register")
    /\ unsubscribeHandlers' = [unsubscribeHandlers EXCEPT ![k[1]] = @ \cup {call[k].channel}]
    /\ late' = IF reader[k[1]] = "ended" /\ writer[k[1]] = "ended"
               THEN late \cup {<<call[k].channel, k[1]>>} ELSE late
    /\ UNCHANGED <<call, sent, confirmed, socket, conn, EnableCancel, cancelled>>

(* Unsubscribe walks subscriptionsList and does not shorten it. *)
Unsubscribe(k) ==
    /\ Does(k, "unsubscribe")
    /\ mu = Free
    /\ subscriptions' = subscriptions \ (subscriptionsList[k[1]] \X {k[1]})
    /\ UNCHANGED <<call, sent, confirmed, subscriptionsList, mu, todo, topic, published, conn,
                   unsubscribeHandlers, EnableCancel, cancelled, late>>

SetEnableCancel(k) ==
    /\ holder[k[1]] = Free
    /\ \/ Does(k, "enable") /\ EnableCancel' = [EnableCancel EXCEPT ![k[1]] = TRUE]
       \/ Does(k, "disable") /\ EnableCancel' = [EnableCancel EXCEPT ![k[1]] = FALSE]
    /\ UNCHANGED <<call, sent, confirmed, socket, conn, unsubscribeHandlers, cancelled, late>>

-----------------------------------------------------------------------------
(* BroadcastMessage holds s.mu from the first subscriber to the last. *)
BroadcastMessage(b) ==
    /\ b \notin published
    /\ mu = Free
    /\ published' = published \cup {b}
    /\ todo' = {c \in Clients : <<topic[b], c>> \in subscriptions}
    /\ mu' = b
    /\ UNCHANGED <<calls, subscriptions, subscriptionsList, topic, conn, unsubscribeHandlers,
                   EnableCancel, cancelled, late>>

(* The range over the map takes the clients one at a time, in any order. *)
TurnTo(c) ==
    /\ mu # Free /\ \A d \in Clients : holder[d] # mu
    /\ c \in todo
    /\ Lock(c, mu)
    /\ todo' = todo \ {c}
    /\ UNCHANGED <<calls, subscriptions, subscriptionsList, mu, topic, published, reader, writer,
                   closed, triggered, unsubscribeHandlers, EnableCancel, cancelled, late>>

SendUpdateMessage(c) ==
    /\ mu # Free
    /\ Send(c, mu)
    /\ UNCHANGED <<calls, socket, reader, closed, triggered, unsubscribeHandlers, EnableCancel,
                   cancelled, late>>

EndBroadcast ==
    /\ mu # Free /\ \A d \in Clients : holder[d] # mu
    /\ todo = {}
    /\ mu' = Free
    /\ UNCHANGED <<calls, subscriptions, subscriptionsList, todo, topic, published, conn,
                   unsubscribeHandlers, EnableCancel, cancelled, late>>

-----------------------------------------------------------------------------
(* Mutant: a connection that is closed already is left alone. *)
closeConnection_Once(c) ==
    /\ triggered' = IF c \in closed THEN triggered
                    ELSE triggered \cup (unsubscribeHandlers[c] \X {c})
    /\ closed' = closed \cup {c}

(* closeConnection, under subscriptionMutex: start the handlers, which stay *)
(* in the list, and close the Conn.                                        *)
closeConnection(c) ==
    /\ triggered' = triggered \cup (unsubscribeHandlers[c] \X {c})
    /\ closed' = closed \cup {c}

(* Mutant: delete(s.subscriptions, channelID). *)
UnsubscribeChannel_Everybody(ch, c) ==
    /\ <<ch, c>> \in triggered
    /\ mu = Free
    /\ triggered' = triggered \ {<<ch, c>>}
    /\ subscriptions' = subscriptions \ ({ch} \X Clients)
    /\ UNCHANGED <<calls, subscriptionsList, mu, todo, topic, published, reader, writer,
                   holder, closed, unsubscribeHandlers, EnableCancel, cancelled, late>>

(* go unsub(c), that is, UnsubscribeChannel. *)
UnsubscribeChannel(ch, c) ==
    /\ <<ch, c>> \in triggered
    /\ mu = Free
    /\ triggered' = triggered \ {<<ch, c>>}
    /\ subscriptions' = subscriptions \ {<<ch, c>>}
    /\ UNCHANGED <<calls, subscriptionsList, mu, todo, topic, published, reader, writer,
                   holder, closed, unsubscribeHandlers, EnableCancel, cancelled, late>>

(* A close frame: ReadMessage calls closeHandler and returns an error. *)
closeHandler(c) ==
    /\ reader[c] = "read"
    /\ closeConnection(c)
    /\ reader' = [reader EXCEPT ![c] = "deferred"]
    /\ UNCHANGED <<calls, socket, writer, holder, unsubscribeHandlers, EnableCancel, cancelled, late>>

(* ReadMessage fails (the Conn is closed, or the peer is gone or silent    *)
(* for pongWait), or the message is not a text.                            *)
ReadError(c) ==
    /\ reader[c] = "read"
    /\ reader' = [reader EXCEPT ![c] = "deferred"]
    /\ UNCHANGED <<calls, socket, writer, holder, closed, triggered, unsubscribeHandlers,
                   EnableCancel, cancelled, late>>

(* readHandler itself answers PING, and what it cannot dispatch. *)
ReadOther(c) ==
    /\ reader[c] = "read"
    /\ \E answer \in {"pong"} \cup (IF c \in Closing THEN {"refuse"} ELSE {}) :
          reader' = [reader EXCEPT ![c] = answer]
    /\ UNCHANGED <<calls, socket, writer, holder, closed, triggered, unsubscribeHandlers,
                   EnableCancel, cancelled, late>>

ReaderLock(c) ==
    /\ reader[c] \in {"pong", "refuse"}
    /\ Lock(c, c)
    /\ UNCHANGED <<calls, socket, reader, writer, closed, triggered, unsubscribeHandlers,
                   EnableCancel, cancelled, late>>

ReaderSend(c) ==
    /\ Send(c, c)
    /\ reader' = [reader EXCEPT ![c] = IF @ = "pong" THEN "read" ELSE "deferred"]
    /\ UNCHANGED <<calls, socket, closed, triggered, unsubscribeHandlers, EnableCancel, cancelled,
                   late>>

(* Mutant: a connection closed by writeHandler is not looked at again. *)
PublishCancelAll_IfOpen(c) ==
    /\ reader[c] = "deferred"
    /\ cancelled' = IF EnableCancel[c] /\ c \notin closed THEN cancelled \cup {c} ELSE cancelled
    /\ reader' = [reader EXCEPT ![c] = "closing"]
    /\ UNCHANGED <<calls, socket, writer, holder, closed, triggered, unsubscribeHandlers,
                   EnableCancel, late>>

(* The deferred function of readHandler: PublishCancelAll ... *)
PublishCancelAll(c) ==
    /\ reader[c] = "deferred"
    /\ cancelled' = IF EnableCancel[c] THEN cancelled \cup {c} ELSE cancelled
    /\ reader' = [reader EXCEPT ![c] = "closing"]
    /\ UNCHANGED <<calls, socket, writer, holder, closed, triggered, unsubscribeHandlers,
                   EnableCancel, late>>

(* ... then closeConnection. *)
EndReader(c) ==
    /\ reader[c] = "closing"
    /\ closeConnection(c)
    /\ reader' = [reader EXCEPT ![c] = "ended"]
    /\ UNCHANGED <<calls, socket, writer, holder, unsubscribeHandlers, EnableCancel, cancelled, late>>

(* Mutant: writeHandler returns after a message. *)
Written_Returns(c) ==
    /\ writer[c] = "write" /\ c \notin closed
    /\ writer' = [writer EXCEPT ![c] = "ended"]
    /\ UNCHANGED <<calls, socket, reader, holder, closed, triggered, unsubscribeHandlers,
                   EnableCancel, cancelled, late>>

(* writeHandler: the write of a message or of a ping succeeds while the    *)
(* Conn is open; it fails when the peer is gone or the Conn is closed.     *)
Written(c) ==
    /\ writer[c] = "write" /\ c \notin closed
    /\ writer' = [writer EXCEPT ![c] = "select"]
    /\ UNCHANGED <<calls, socket, reader, holder, closed, triggered, unsubscribeHandlers,
                   EnableCancel, cancelled, late>>

WriteError(c) ==
    /\ writer[c] \in {"select", "write"}
    /\ writer' = [writer EXCEPT ![c] = "closing"]
    /\ UNCHANGED <<calls, socket, reader, holder, closed, triggered, unsubscribeHandlers,
                   EnableCancel, cancelled, late>>

EndWriter(c) ==
    /\ writer[c] = "closing"
    /\ closeConnection(c)
    /\ writer' = [writer EXCEPT ![c] = "ended"]
    /\ UNCHANGED <<calls, socket, reader, holder, unsubscribeHandlers, EnableCancel, cancelled, late>>
-----------------------------------------------------------------------------
CallStep(k) ==
    \/ CallLock(k) \/ Confirm(k) \/ SendInitMessage(k)
    \/ Subscribe(k) \/ RegisterConnectionUnsubscribeHandler(k)
    \/ Unsubscribe(k) \/ SetEnableCancel(k)

BroadcastStep == EndBroadcast \/ \E c \in Clients : TurnTo(c) \/ SendUpdateMessage(c)

(* What a handler does by itself: its reads and pings fail once the Conn   *)
(* is closed.                                                              *)
ReaderStep(c) ==
    \/ ReaderLock(c) \/ ReaderSend(c) \/ PublishCancelAll(c) \/ EndReader(c)
    \/ c \in closed /\ ReadError(c)

WriterStep(c) ==
    \/ Written(c) \/ EndWriter(c)
    \/ c \in closed /\ WriteError(c)

(* What comes from outside. *)
PeerStep(c) ==
    \/ c \in Closing /\ (closeHandler(c) \/ ReadError(c) \/ WriteError(c))
    \/ c \in Pinging /\ ReadOther(c)

Next ==
    \/ \E k \in Calls : Dispatch(k) \/ CallStep(k)
    \/ \E b \in Broadcasts : BroadcastMessage(b)
    \/ BroadcastStep
    \/ \E c \in Clients : PeerStep(c) \/ ReaderStep(c) \/ WriterStep(c)
    \/ \E ch \in Channels, c \in Clients : UnsubscribeChannel(ch, c)

Spec == Init /\ [][Next]_vars

(* Goroutines that can run do.  sync.Mutex starves nobody, and a select    *)
(* that is ready again and again takes every sender in the end: waiting    *)
(* for s.mu, c.mu and writeHandler is strongly fair.                       *)
Fairness ==
    /\ \A k \in Calls : SF_vars(CallStep(k))
    /\ SF_vars(BroadcastStep)
    /\ \A c \in Clients : SF_vars(ReaderStep(c)) /\ WF_vars(WriterStep(c))

FairSpec == Spec /\ Fairness

-----------------------------------------------------------------------------
TypeOK ==
    /\ call \in [Calls -> [steps : Methods, channel : Channels]]
    /\ topic \in [Broadcasts -> Channels]
    /\ script \in [Calls -> Seq(Step)]
    /\ sent \in SUBSET Calls /\ confirmed \in SUBSET Calls
    /\ subscriptions \in SUBSET (Channels \X Clients)
    /\ subscriptionsList \in [Clients -> SUBSET Channels]
    /\ mu \in Broadcasts \cup {Free} /\ todo \in SUBSET Clients
    /\ published \in SUBSET Broadcasts
    /\ unsubscribeHandlers \in [Clients -> SUBSET Channels]
    /\ triggered \in SUBSET (Channels \X Clients)
    /\ reader \in [Clients -> {"read", "pong", "refuse", "deferred", "closing", "ended"}]
    /\ writer \in [Clients -> {"select", "write", "closing", "ended"}]
    /\ holder \in [Clients -> Calls \cup Broadcasts \cup Clients \cup {Free}]
    /\ closed \in SUBSET Clients
    /\ EnableCancel \in [Clients -> BOOLEAN]
    /\ cancelled \in SUBSET Clients
    /\ late \in SUBSET (Channels \X Clients)

Pending(step, ch, c) ==
    \E k \in Calls : k[1] = c /\ call[k].channel = ch /\ \E i \in DOMAIN script[k] : script[k][i] = step

(* No subscription escapes the closing of its connection for good unless   *)
(* nobody was left to close it: while a request has still to register the  *)
(* handler, or closeConnection's goroutine is still to run, it may be      *)
(* there; after both readHandler and writeHandler have ended it stays only *)
(* if its handler came after the second closeConnection.                   *)
ZombieOnlyIfLate ==
    \A ch \in Channels, c \in Clients :
        <<ch, c>> \in subscriptions /\ reader[c] = "ended" /\ writer[c] = "ended" =>
            <<ch, c>> \in triggered \cup late \/ Pending("register", ch, c)

(* Whatever subscribes, unsubscribes and closes meanwhile, a subscription  *)
(* has its unsubscribe handler or a goroutine that will register it.       *)
Covered ==
    \A ch \in Channels, c \in Clients :
        <<ch, c>> \in subscriptions => ch \in unsubscribeHandlers[c] \/ Pending("register", ch, c)

(* A subscription ends only at its own client's request or with its        *)
(* client's connection, never through another client of the channel.       *)
OthersUntouched ==
    [][\A x \in subscriptions \ subscriptions' :
          x[2] \in closed \/ \E k \in Calls : k[1] = x[2] /\ script'[k] # script[k]]_vars

(* A connection that closes has its orders cancelled, whichever of its two *)
(* handlers finds out first, if the cancellation was enabled before the    *)
(* deferred function looks, unless readHandler has something of its own to *)
(* answer after writeHandler has ended: then it waits for ever.            *)
CancelPublished ==
    \A c \in Clients :
        (EnableCancel[c] /\ c \in closed /\ reader[c] \notin {"closing", "ended"})
            ~> \/ c \in cancelled
               \/ ~EnableCancel[c]
               \/ writer[c] = "ended" /\ reader[c] \in {"pong", "refuse"}

(* While no connection closes, a broadcast gets to its end and releases    *)
(* s.mu, and every request is answered however broadcasts hold the writer. *)
NobodyWaits ==
    /\ \A b \in Broadcasts : (mu = b) ~> (mu # b \/ closed # {})
    /\ \A k \in Calls : (k \in sent) ~> (k \in confirmed \/ closed # {})

(* connection.go:152: "At the time of connection closing the               *)
(* ConnectionUnsubscribeHandler handlers associated with that connection   *)
(* are triggered."                                                         *)
ClosedUnsubscribed ==
    \A c \in Clients :
        /\ reader[c] = "ended" /\ writer[c] = "ended"
        /\ \A x \in triggered : x[2] # c
        /\ \A k \in Calls : k[1] = c => script[k] = <<>>
        => \A x \in subscriptions : x[2] # c

(* trade.go:98: "BroadcastMessage streams message to all the subscribtions *)
(* subscribed to the pair": those whose connection lives, at least.        *)
Streamed == \A c \in Clients : (c \in todo) ~> (c \notin todo \/ c \in closed)
=============================================================================
