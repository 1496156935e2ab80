------------------------------ MODULE Heartbeat ------------------------------
(***************************************************************************)
(* public/set_heartbeat and public/test (internal/ws/engine/service): one  *)
(* loop per set_heartbeat, the heartbeat map they share without a lock,    *)
(* and the EngineSocket whose mutex every loop of every client broadcasts  *)
(* under.  A connection's id is its address: one channel per client.       *)
(*                                                                         *)
(* Time is left out but for what the interval is meant to give a client:   *)
(* a timely one has answered a loop's test_request, and its test has been  *)
(* served, before that loop looks again.                                   *)
(***************************************************************************)
EXTENDS Naturals

CONSTANTS
    Clients,    \* WebSocket connections
    Closing,    \* those that may fail or be closed by the peer
    Timely,     \* those that answer every test_request within the interval
    Silent,     \* those that never call test
    MaxLoops,   \* bound: calls of set_heartbeat, per client
    Free        \* s.mu is not held

Loops == UNION {{c} \X (1 .. MaxLoops[c]) : c \in Clients}

(* Calls of test: the answers to a loop's test_request, and unasked ones.  *)
Tests == Loops \cup (Clients \X {0})

ASSUME ConstantsOK ==
    /\ Closing \subseteq Clients
    /\ Timely \subseteq Clients /\ Silent \subseteq Clients \ Timely
    /\ MaxLoops \in [Clients -> Nat]
    /\ Free \notin Loops

VARIABLES
    loop,        \* where each loop is
    heartbeat,   \* heartbeat[id]
    subscribed,  \* s.subscriptions
    registered,  \* clients with the unsubscribe handler
    triggered,   \* go unsub(c), not yet run
    mu,          \* the loop that holds s.mu while it sends
    owed,        \* loops whose test_request the client has not answered
    tests,       \* go AddHeartbeat(c), not yet run
    closed,      \* clients whose Conn is closed
    down,        \* clients whose handlers have ended as well
    fatal,       \* the process has ended
    early,       \* ghost: loops answered before they reset heartbeat[id]
    left         \* ghost: clients that unsubscribed from the socket

conn == <<registered, triggered, closed, down>>
rest == <<fatal, early, left>>
vars == <<loop, heartbeat, subscribed, mu, owed, tests, conn, rest>>

Places == {"idle", "mark", "subscribe", "register", "sleep", "heartbeat",
           "test_request", "reset", "close", "ended"}

Init ==
    /\ loop = [l \in Loops |-> "idle"]
    /\ heartbeat = [c \in Clients |-> "absent"]
    /\ subscribed = {} /\ registered = {} /\ triggered = {}
    /\ mu = Free
    /\ owed = {} /\ tests = {}
    /\ closed = {} /\ down = {}
    /\ fatal = FALSE /\ early = {} /\ left = {}

Goto(l, place) == loop' = [loop EXCEPT ![l] = place]

Mark(c, value) == heartbeat' = [heartbeat EXCEPT ![c] = value]

-----------------------------------------------------------------------------
setHeartbeat(l) ==
    /\ loop[l] = "idle" /\ l[1] \notin closed
    /\ \A n \in 1 .. l[2] - 1 : loop[<<l[1], n>>] # "idle"
    /\ Goto(l, "mark")
    /\ UNCHANGED <<heartbeat, subscribed, mu, owed, tests, conn, rest>>

(* SubscribeHeartbeat. *)
Start(l) ==
    /\ loop[l] = "mark"
    /\ Mark(l[1], "on")
    /\ Goto(l, "subscribe")
    /\ UNCHANGED <<subscribed, mu, owed, tests, conn, rest>>

Subscribe(l) ==
    /\ loop[l] = "subscribe"
    /\ mu = Free
    /\ subscribed' = subscribed \cup {l[1]}
    /\ Goto(l, "register")
    /\ UNCHANGED <<heartbeat, mu, owed, tests, conn, rest>>

RegisterConnectionUnsubscribeHandler(l) ==
    /\ loop[l] = "register"
    /\ registered' = registered \cup {l[1]}
    /\ Goto(l, "sleep")
    /\ UNCHANGED <<heartbeat, subscribed, triggered, mu, owed, tests, closed, down, rest>>

(* time.Sleep, and the condition of the loop. *)
Wake(l) ==
    /\ loop[l] = "sleep"
    /\ l[1] \in Timely \ closed => l \notin owed \cup tests
    /\ Goto(l, IF heartbeat[l[1]] = "on" THEN "heartbeat" ELSE "close")
    /\ owed' = owed \ {l}
    /\ UNCHANGED <<heartbeat, subscribed, mu, tests, conn, rest>>

After(place) == IF place = "heartbeat" THEN "test_request" ELSE "reset"

(* BroadcastMessageSubcription reaches the client only if it subscribes.   *)
Broadcast(l) ==
    /\ loop[l] \in {"heartbeat", "test_request"}
    /\ mu = Free
    /\ IF l[1] \in subscribed
       THEN mu' = l /\ UNCHANGED loop
       ELSE Goto(l, After(loop[l])) /\ UNCHANGED mu
    /\ UNCHANGED <<heartbeat, subscribed, owed, tests, conn, rest>>

(* c.send <- m, under s.mu: there is no way on without writeHandler.       *)
SendUpdateMessageSubcription(l) ==
    /\ mu = l
    /\ l[1] \notin down
    /\ mu' = Free
    /\ Goto(l, After(loop[l]))
    /\ owed' = IF loop[l] = "test_request" THEN owed \cup {l} ELSE owed
    /\ UNCHANGED <<heartbeat, subscribed, tests, conn, rest>>

(* Mutant: heartbeat[id] = false is forgotten. *)
Reset_Forgotten(l) ==
    /\ loop[l] = "reset"
    /\ Goto(l, "sleep")
    /\ UNCHANGED <<heartbeat, subscribed, mu, owed, tests, conn, rest>>

(* heartbeat[id] = false comes after the broadcasts: an answer that was    *)
(* faster is forgotten.                                                    *)
Reset(l) ==
    /\ loop[l] = "reset"
    /\ Mark(l[1], "off")
    /\ Goto(l, "sleep")
    /\ UNCHANGED <<subscribed, mu, owed, tests, conn, rest>>

(* Mutant: delete(heartbeat, id) at the end. *)
Close_DeletesKey(l) ==
    /\ loop[l] = "close"
    /\ closed' = closed \cup {l[1]}
    /\ heartbeat' = [c \in Clients \ {l[1]} |-> heartbeat[c]]
    /\ Goto(l, "ended")
    /\ UNCHANGED <<subscribed, registered, triggered, mu, owed, tests, down, rest>>

Close(l) ==
    /\ loop[l] = "close"
    /\ closed' = closed \cup {l[1]}
    /\ Goto(l, "ended")
    /\ UNCHANGED <<heartbeat, subscribed, registered, triggered, mu, owed, tests, down, rest>>

-----------------------------------------------------------------------------
(* A client calls public/test: go AddHeartbeat(c). *)
test(a) ==
    /\ a[1] \notin closed \cup Silent
    /\ a \in owed \/ a[2] = 0
    /\ owed' = owed \ {a}
    /\ tests' = tests \cup {a}
    /\ UNCHANGED <<loop, heartbeat, subscribed, mu, conn, rest>>

(* Mutant: v, ok := heartbeat[id]; ok && v. *)
AddHeartbeat_OnlyIfOn(a) ==
    /\ a \in tests
    /\ tests' = tests \ {a}
    /\ IF heartbeat[a[1]] = "on" THEN Mark(a[1], "on") ELSE UNCHANGED heartbeat
    /\ early' = IF a \in Loops /\ loop[a] = "reset" THEN early \cup {a} ELSE early
    /\ UNCHANGED <<loop, subscribed, mu, owed, conn, fatal, left>>

AddHeartbeat(a) ==
    /\ a \in tests
    /\ tests' = tests \ {a}
    /\ IF heartbeat[a[1]] # "absent" THEN Mark(a[1], "on") ELSE UNCHANGED heartbeat
    /\ early' = IF a \in Loops /\ loop[a] = "reset" THEN early \cup {a} ELSE early
    /\ UNCHANGED <<loop, subscribed, mu, owed, conn, fatal, left>>

(* publicUnsubscribe of an "engine" channel takes the client off all the   *)
(* channels of the socket, its heartbeat's too.                            *)
Unsubscribe(c) ==
    /\ c \in subscribed \ closed
    /\ mu = Free
    /\ subscribed' = subscribed \ {c}
    /\ left' = left \cup {c}
    /\ UNCHANGED <<loop, heartbeat, mu, owed, tests, conn, fatal, early>>

(* The handlers of a connection end (the module Connection has the steps). *)
closeConnection(c) ==
    /\ c \in closed \cup Closing /\ c \notin down
    /\ closed' = closed \cup {c}
    /\ down' = down \cup {c}
    /\ triggered' = triggered \cup (registered \cap {c})
    /\ UNCHANGED <<loop, heartbeat, subscribed, registered, mu, owed, tests, rest>>

UnsubscribeChannel(c) ==
    /\ c \in triggered
    /\ mu = Free
    /\ triggered' = triggered \ {c}
    /\ subscribed' = subscribed \ {c}
    /\ UNCHANGED <<loop, heartbeat, registered, mu, owed, tests, closed, down, rest>>

(* The heartbeat map has no lock: a goroutine that writes it while another *)
(* one reads or writes it may end the process.                             *)
Writing == {<<"loop", l>> : l \in {m \in Loops : loop[m] \in {"mark", "reset"}}}
               \cup {<<"test", a>> : a \in {b \in tests : heartbeat[b[1]] # "absent"}}

Reading == {<<"loop", l>> : l \in {m \in Loops : loop[m] = "sleep"}} \cup ({"test"} \X tests)

ConcurrentMapAccess ==
    /\ \E w \in Writing : \E x \in Writing \cup Reading : x # w
    /\ fatal' = TRUE
    /\ UNCHANGED <<loop, heartbeat, subscribed, mu, owed, tests, conn, early, left>>

-----------------------------------------------------------------------------
LoopStep(l) ==
    \/ Start(l) \/ Subscribe(l) \/ RegisterConnectionUnsubscribeHandler(l)
    \/ Wake(l) \/ Broadcast(l) \/ SendUpdateMessageSubcription(l)
    \/ Reset(l) \/ Close(l)

Next ==
    /\ ~fatal
    /\ \/ \E l \in Loops : setHeartbeat(l) \/ LoopStep(l)
       \/ \E a \in Tests : test(a) \/ AddHeartbeat(a)
       \/ \E c \in Clients : Unsubscribe(c) \/ closeConnection(c) \/ UnsubscribeChannel(c)
       \/ ConcurrentMapAccess

Spec == Init /\ [][Next]_vars

(* The loops run, whatever else takes s.mu in between; that a client's     *)
(* loops run is enough, whichever of them does.                            *)
Fairness == \A c \in Clients : SF_vars(~fatal /\ \E l \in Loops : l[1] = c /\ LoopStep(l))

FairSpec ==
    Spec /\ \A c \in Clients : SF_vars(~fatal /\ \E l \in Loops : l[1] = c /\ LoopStep(l))

-----------------------------------------------------------------------------
TypeOK ==
    /\ loop \in [Loops -> Places]
    /\ heartbeat \in [Clients -> {"absent", "on", "off"}]
    /\ subscribed \in SUBSET Clients
    /\ registered \in SUBSET Clients /\ triggered \in SUBSET Clients
    /\ mu \in Loops \cup {Free}
    /\ owed \in SUBSET Loops /\ tests \in SUBSET Tests
    /\ closed \in SUBSET Clients /\ down \in SUBSET Clients
    /\ fatal \in BOOLEAN /\ early \in SUBSET Loops /\ left \in SUBSET Clients

(* A client that answers in time is cut off by its heartbeat only if an    *)
(* answer overtook the reset, it asked for a second heartbeat, or it       *)
(* unsubscribed from the socket and is not sent test_request any more.     *)
ClosedForAReason ==
    \A l \in Loops : loop[l] = "close" /\ l[1] \in Timely \ closed =>
        \/ l \in early
        \/ l[1] \in left
        \/ \E m \in Loops : m[1] = l[1] /\ m # l /\ loop[m] # "idle"

(* A client that asked for heartbeats and never answers is cut off, unless *)
(* a broadcast to a dead connection holds the mutex of the socket.         *)
SilentClosed ==
    \A l \in Loops :
        (l[1] \in Silent /\ loop[l] = "sleep") ~>
            (fatal \/ l[1] \in closed \/ \E m \in Loops : mu = m /\ m[1] \in down)
=============================================================================
