------------------------------ MODULE Protocol ------------------------------
(***************************************************************************)
(* The request registry of the gateway (pkg/protocol/protocol.go) and the  *)
(* goroutines that share it: one handler goroutine per WebSocket or HTTP   *)
(* request or FIX message, the TimeOutProtocol or RegisterChannel          *)
(* goroutine the handler spawns, and the Kafka consumer goroutines that    *)
(* answer orders.                                                          *)
(*                                                                         *)
(* A step is one critical section of one of the package's mutexes, one     *)
(* channel operation, or one unlocked map read; everything a goroutine     *)
(* does between two of these touches only its own locals.                  *)
(*                                                                         *)
(* What a handler does after requestHelper is its "script": the sequence   *)
(* of its calls into the package.  The modules WsHandlers, HttpHandlers    *)
(* and FixHandlers give the scripts of every handler of the repository.    *)
(***************************************************************************)
EXTENDS Naturals, Sequences, FiniteSets

CONSTANTS
    Requests,   \* JSON-RPC requests and FIX orders, one handler each
    Clients,    \* WebSocket connections (or HTTP peers, FIX sessions)
    ClientOf,   \* ClientOf[r] is the peer that sends request r
    Closing,    \* WebSocket connections that may close
    Ids,        \* JSON-RPC ids and ClOrdIDs, chosen by the clients
    Users,      \* authenticated user ids
    NoUser,     \* no user: an anonymous method, or a token ClaimJWT refuses
    Handlers,   \* the handlers a request may be routed to
    NoKey,      \* the connKey "" of a request refused as a duplicate
    Absent,     \* no entry in a map; also the nil channel
    Zero        \* the zero ProtocolRequest{}: Protocol = Websocket, WS = nil

(* Calls a handler makes, in order, once requestHelper has returned. *)
Token == {"go",          \* go protocol.TimeOutProtocol(connKey)
          "chan",        \* go protocol.RegisterChannel(connKey, channel, ctx)
          "key",         \* protocol.SendXxxMsg(connKey, ...)
          "direct",      \* an answer written to the peer without the registry
          "stop",        \* protocol.UnregisterChannel(connKey)
          "produce",     \* NEW_ORDER, answered on topic ENGINE
          "produceAll",  \* NEW_ORDER, answered on topic CANCELLED_ORDER
          "wait",        \* res := <-channel; r.JSON(code, res)
          "crash"}       \* a nil dereference, an index out of range

Handler == [proto  : {"ws", "http", "channel",     \* ProtocolRequest.Protocol
                      "fix"},                      \* a FIX message: no request
            helper : {"token", "anon", "none"},    \* how requestHelper is called
            dup    : {"direct", "silent"},         \* the reply when connKey is ""
            falls  : BOOLEAN,                      \* no return after an error
            body   : SUBSET Seq(Token)]

Keys == Ids \X (Users \cup {NoUser})

(* h: the handler, g: the goroutine it spawns, a: the answer to the order, *)
(* c: the answer to its cancellation when its connection ends.             *)
Threads == {"h", "g", "a", "c"} \X Requests

ASSUME ConstantsOK ==
    /\ ClientOf \in [Requests -> Clients]
    /\ Closing \subseteq Clients
    /\ NoUser \notin Users
    /\ NoKey \notin Keys
    /\ Absent \notin Requests /\ Zero \notin Requests /\ Absent # Zero
    /\ Absent \notin Threads
    /\ Handlers \subseteq Handler
    /\ \A h \in Handlers : \A b \in h.body : \A i, j \in DOMAIN b :
          {b[i], b[j]} \subseteq {"go", "chan"} => i = j    \* one goroutine each

(* Calls that settle how a request is answered. *)
Outcomes == {"direct", "produce", "produceAll"}

(* A handler answers in one way: by itself past the registry, through it,  *)
(* or by what comes back for the order it produces; a handler that goes on *)
(* after an error answers through the registry.  Timeouts belong to        *)
(* WebSocket requests, RegisterChannel to HTTP requests that wait.         *)
ASSUME ScriptsOK ==
    \A h \in Handlers : \A b \in h.body : \A i, j \in DOMAIN b :
        /\ b[i] \in Outcomes /\ b[j] \in Outcomes \cup {"key"} => i = j
        /\ {b[i], b[j]} \subseteq {"direct", "wait"} => i = j
        /\ b[i] \in Outcomes \cup {"wait"} => ~h.falls
        /\ b[i] = "go" => h.proto = "ws"
        /\ b[i] \in {"chan", "wait"} => h.proto = "channel"

VARIABLES
    req,      \* the requests' id, user and handler: the input
    pc,       \* where each goroutine is
    script,   \* calls a handler has still to make
    connKey,  \* connKey of each request, as requestHelper returned it
    dup,      \* duplicateConnection, local to requestHelper's two callees
    got,      \* the ProtocolRequest a goroutine holds in a local
    chn,      \* the timeout channel a goroutine evaluated before blocking on it
    res,      \* RegisterChannel's local res
    conns,    \* protocolConnections
    timers,   \* channelTimeout; a channel is named by the request it serves
    results,  \* channelResults; a result is named by the goroutine it is from
    stops,    \* channelContextStop
    answers,  \* ghost: how often each goroutine answered each request
    clash,    \* ghost: requests whose id was in use while they were served
    up        \* clients whose writeHandler still runs

locals == <<req, script, connKey, dup, got, chn, res>>
shared == <<conns, timers, results, stops, answers, clash, up>>
vars   == <<locals, pc, shared>>

-----------------------------------------------------------------------------
Labels == {"idle", "done", "panic", "aborted",
           "write", "read", "exist", "move", "run",      \* handler
           "get", "send", "peek", "aim", "sync", "free",          \* doSend
           "arm", "eval", "select", "expired", "disarm",          \* timeout
           "poll", "clear", "offer",                              \* channel
           "order", "cancelled"}                                  \* in Kafka

(* A method that takes no access token has no user; a FIX session has one. *)
Input == {i \in [id : Ids, user : Users \cup {NoUser}, handler : Handlers] :
            /\ i.user = NoUser \/ i.handler.helper = "token" \/ i.handler.proto = "fix"
            /\ i.user # NoUser \/ i.handler.proto # "fix"}

Init ==
    /\ req \in [Requests -> Input]
    /\ pc = [t \in Threads |-> "idle"]
    /\ script = [r \in Requests |-> <<>>]
    /\ connKey = [r \in Requests |-> NoKey]
    /\ dup = [r \in Requests |-> FALSE]
    /\ got = [t \in Threads |-> Absent]
    /\ chn = [t \in Threads |-> Absent]
    /\ res = [r \in Requests |-> Absent]
    /\ conns = [k \in Keys |-> Absent]
    /\ timers = [k \in Keys |-> Absent]
    /\ results = [k \in Keys |-> Absent]
    /\ stops = {}
    /\ answers = [r \in Requests |-> [t \in Threads |-> 0]]
    /\ clash = {}
    /\ up = Clients

H(r) == <<"h", r>>
G(r) == <<"g", r>>
A(r) == <<"a", r>>
C(r) == <<"c", r>>

Goto(t, l) == pc' = [pc EXCEPT ![t] = l]

(* GetKeyFromIdUserID before and after authentication. *)
AnonKey_WithoutId(r) == <<CHOOSE i \in Ids : TRUE, NoUser>>
AnonKey(r) == <<req[r].id, NoUser>>
UserKey(r) == <<req[r].id, req[r].user>>

(* The key a goroutine passes to doSend: connKey, and for an answer from   *)
(* Kafka the key rebuilt from the order's ClOrdID and user.                *)
KeyOf(t) == IF t[1] \in {"a", "c"} THEN UserKey(t[2]) ELSE connKey[t[2]]

(* channelTimeout[key] and channelResults[key].  A sender to the key ""    *)
(* finds no connection and looks no further: those entries are left out of *)
(* the maps (the goroutine getInstruments starts on "" always times out).  *)
TimerOf(k) == IF k = NoKey THEN Absent ELSE timers[k]
ResultOf(k) == IF k = NoKey THEN Absent ELSE results[k]
SetTimer(k, c) == timers' = IF k = NoKey THEN timers ELSE [timers EXCEPT ![k] = c]

IsWs(r) == req[r].handler.proto = "ws"

(* c.Send holds c.mu over the unbuffered c.send, so it goes through while  *)
(* writeHandler runs and blocks for ever once it has returned.             *)
CanWrite(r) == IsWs(r) => ClientOf[r] \in up

Asks(r, token) == \E b \in req[r].handler.body : \E i \in DOMAIN b : b[i] = token

(* Orders that PublishCancelAll will have cancelled if their connection    *)
(* ends with EnableCancel set.                                             *)
CancelledAtEnd(r) == IsWs(r) /\ ClientOf[r] \in Closing /\ Asks(r, "produce")

(* Nothing of a request is left or may come back: its goroutines have      *)
(* ended, and neither it nor a result of it is in the maps.                *)
Finished(r) ==
    /\ \/ pc[H(r)] \in {"done", "aborted"}
       \/ pc[H(r)] = "run" /\ script[r] = <<>>
    /\ \A t \in {G(r), A(r), C(r)} : pc[t] \in {"idle", "done"}
    /\ CancelledAtEnd(r) => pc[C(r)] = "done"
    /\ \A k \in Keys : conns[k] # r /\ results[k] \notin {H(r), G(r), A(r), C(r)}

(* The requests that r, when it arrives, meets under its id, and r itself. *)
Clashes(r) ==
    LET met == {s \in Requests \ {r} : /\ req[s].id = req[r].id
                                        /\ pc[H(s)] # "idle" /\ ~Finished(s)}
    IN  IF met = {} THEN {} ELSE met \cup {r}

Answer(r, t) == answers' = [answers EXCEPT ![r][t] = @ + 1]

-----------------------------------------------------------------------------
(* A handler runs its script after a reply it may owe already.             *)
Enter(r, k, lead, rest) ==
    /\ connKey' = [connKey EXCEPT ![r] = k]
    /\ \E b \in rest : script' = [script EXCEPT ![r] = lead \o b]
    /\ Goto(H(r), "run")

Proceed(r, k) == Enter(r, k, <<>>, req[r].handler.body)

(* requestHelper returned an error with connKey k: the caller replies      *)
(* through the registry, or to the peer itself when k is "", and returns   *)
(* unless it is a handler that forgets to.                                 *)
Refuse(r, k) ==
    Enter(r, k,
          IF k = NoKey /\ req[r].handler.dup = "direct" THEN <<"direct">> ELSE <<"key">>,
          IF req[r].handler.falls THEN req[r].handler.body ELSE {<<>>})

(* Mutant: what is not answered through the registry is put there, too.    *)
Dispatch_Registers(r) ==
    /\ pc[H(r)] = "idle"
    /\ req[r].handler.helper = "none"
    /\ Proceed(r, NoKey)
    /\ conns' = [conns EXCEPT ![UserKey(r)] = r]
    /\ clash' = clash \cup Clashes(r)
    /\ UNCHANGED <<req, dup, got, chn, res, timers, results, stops, answers, up>>

(* A request of the methods that are not registered, or a FIX message. *)
Dispatch(r) ==
    /\ pc[H(r)] = "idle"
    /\ req[r].handler.helper = "none"
    /\ Proceed(r, NoKey)
    /\ clash' = clash \cup Clashes(r)
    /\ UNCHANGED <<req, dup, got, chn, res, conns, timers, results, stops, answers, up>>

(* A request is refused before requestHelper: the rate limit, a malformed  *)
(* message, invalid parameters.  Nothing is registered.                    *)
Reject(r) ==
    /\ pc[H(r)] = "idle"
    /\ CanWrite(r)
    /\ Answer(r, H(r))
    /\ Goto(H(r), "done")
    /\ UNCHANGED <<locals, conns, timers, results, stops, clash, up>>

-----------------------------------------------------------------------------
(* The others call requestHelper, which calls RegisterProtocolRequest: the *)
(* existence check and the write are two critical sections, and the write  *)
(* happens whatever the check said.                                        *)
RegisterCheck(r) ==
    /\ pc[H(r)] = "idle"
    /\ req[r].handler.helper # "none"
    /\ dup' = [dup EXCEPT ![r] = conns[AnonKey(r)] # Absent]
    /\ Goto(H(r), "write")
    /\ clash' = clash \cup Clashes(r)
    /\ UNCHANGED <<req, script, connKey, got, chn, res, conns, timers, results, stops, answers, up>>

(* The write, then the tests of requestHelper up to UpgradeProtocol.       *)
RegisterWrite(r) ==
    /\ pc[H(r)] = "write"
    /\ conns' = [conns EXCEPT ![AnonKey(r)] = r]
    /\ dup' = [dup EXCEPT ![r] = FALSE]
    /\ \/ dup[r] /\ Refuse(r, NoKey)
       \/ /\ ~dup[r]
          /\ req[r].handler.helper = "anon" \/ (req[r].user = NoUser /\ ~IsWs(r))
          /\ Proceed(r, AnonKey(r))
       \/ /\ ~dup[r]
          /\ req[r].handler.helper = "token" /\ req[r].user = NoUser /\ IsWs(r)
          /\ Refuse(r, AnonKey(r))
       \/ /\ ~dup[r]
          /\ req[r].handler.helper = "token" /\ req[r].user # NoUser
          /\ Goto(H(r), "read")
          /\ UNCHANGED <<script, connKey>>
    /\ UNCHANGED <<req, got, chn, res, timers, results, stops, answers, clash, up>>

(* Mutant: the old connection is looked up under the new key. *)
UpgradeRead_NewKey(r) ==
    /\ pc[H(r)] = "read"
    /\ got' = [got EXCEPT ![H(r)] =
                 IF conns[UserKey(r)] = Absent THEN Zero ELSE conns[UserKey(r)]]
    /\ Goto(H(r), "exist")
    /\ UNCHANGED <<req, script, connKey, dup, chn, res, shared>>

(* UpgradeProtocol: three critical sections.  A missing old entry reads as *)
(* the zero ProtocolRequest.                                               *)
UpgradeRead(r) ==
    /\ pc[H(r)] = "read"
    /\ got' = [got EXCEPT ![H(r)] =
                 IF conns[AnonKey(r)] = Absent THEN Zero ELSE conns[AnonKey(r)]]
    /\ Goto(H(r), "exist")
    /\ UNCHANGED <<req, script, connKey, dup, chn, res, shared>>

UpgradeCheck(r) ==
    /\ pc[H(r)] = "exist"
    /\ dup' = [dup EXCEPT ![r] = conns[UserKey(r)] # Absent]
    /\ Goto(H(r), "move")
    /\ UNCHANGED <<req, script, connKey, got, chn, res, shared>>

(* Mutant: the old entry is deleted and the new one not written. *)
UpgradeMove_OnlyDeletes(r) ==
    /\ pc[H(r)] = "move"
    /\ conns' = [conns EXCEPT ![AnonKey(r)] = Absent]
    /\ got' = [got EXCEPT ![H(r)] = Absent]
    /\ dup' = [dup EXCEPT ![r] = FALSE]
    /\ IF dup[r] /\ IsWs(r) THEN Refuse(r, UserKey(r)) ELSE Proceed(r, UserKey(r))
    /\ UNCHANGED <<req, chn, res, timers, results, stops, answers, clash, up>>

(* The HTTP requestHelper ignores the duplicate flag. *)
UpgradeMove(r) ==
    /\ pc[H(r)] = "move"
    /\ conns' = [conns EXCEPT ![UserKey(r)] = got[H(r)], ![AnonKey(r)] = Absent]
    /\ got' = [got EXCEPT ![H(r)] = Absent]
    /\ dup' = [dup EXCEPT ![r] = FALSE]
    /\ IF dup[r] /\ IsWs(r) THEN Refuse(r, UserKey(r)) ELSE Proceed(r, UserKey(r))
    /\ UNCHANGED <<req, chn, res, timers, results, stops, answers, clash, up>>

-----------------------------------------------------------------------------
(* The handler's script, one call at a time.                               *)
Calls(r, token) ==
    /\ pc[H(r)] = "run"
    /\ script[r] # <<>>
    /\ Head(script[r]) = token
    /\ script' = [script EXCEPT ![r] = Tail(@)]

CallTimeOutProtocol(r) ==
    /\ Calls(r, "go")
    /\ Goto(G(r), "arm")
    /\ UNCHANGED <<req, connKey, dup, got, chn, res, shared>>

CallRegisterChannel(r) ==
    /\ Calls(r, "chan")
    /\ Goto(G(r), "poll")
    /\ UNCHANGED <<req, connKey, dup, got, chn, res, shared>>

SendDirect(r) ==
    /\ Calls(r, "direct")
    /\ CanWrite(r)
    /\ Answer(r, H(r))
    /\ UNCHANGED <<req, connKey, dup, got, chn, res, pc, conns, timers, results, stops, clash, up>>

(* The channel stored is never closed nor written to: storing it wakes no  *)
(* one, RegisterChannel keeps waiting for a result or for its context.     *)
UnregisterChannel(r) ==
    /\ Calls(r, "stop")
    /\ stops' = stops \cup {connKey[r]}
    /\ UNCHANGED <<req, connKey, dup, got, chn, res, pc, conns, timers, results, answers, clash, up>>

Produce(r) ==
    /\ \/ Calls(r, "produce") /\ Goto(A(r), "order")
       \/ Calls(r, "produceAll") /\ Goto(A(r), "cancelled")
    /\ UNCHANGED <<req, connKey, dup, got, chn, res, shared>>

(* res := <-channel, the rendezvous with RegisterChannel, and r.JSON. *)
ReceiveResult(r) ==
    /\ Calls(r, "wait")
    /\ pc[G(r)] = "offer"
    /\ Answer(r, res[r])
    /\ res' = [res EXCEPT ![r] = Absent]
    /\ Goto(G(r), "done")
    /\ UNCHANGED <<req, connKey, dup, got, chn, conns, timers, results, stops, clash, up>>

Crash(r) ==
    /\ Calls(r, "crash")
    /\ Goto(H(r), "panic")
    /\ UNCHANGED <<req, connKey, dup, got, chn, res, shared>>

-----------------------------------------------------------------------------
(* doSend(key), which the handler calls with the token "key" and the other *)
(* goroutines at "get".                                                    *)
Ret(t) == IF t[1] = "h" THEN "run" ELSE "done"

(* GetProtocol.  With no entry doSend returns false.  A zero entry is      *)
(* taken for a WebSocket without client and dereferenced: net/http         *)
(* recovers the panic of an HTTP handler, nothing recovers the others.     *)
GetProtocol(t) ==
    /\ IF t[1] = "h" THEN Calls(t[2], "key") ELSE pc[t] = "get" /\ UNCHANGED script
    /\ LET conn == IF KeyOf(t) = NoKey THEN Absent ELSE conns[KeyOf(t)]
       IN  \/ /\ conn = Absent
              /\ Goto(t, Ret(t))
              /\ UNCHANGED got
           \/ /\ conn = Zero
              /\ Goto(t, IF t[1] = "h" /\ ~IsWs(t[2]) THEN "aborted" ELSE "panic")
              /\ UNCHANGED got
           \/ /\ conn \in Requests
              /\ got' = [got EXCEPT ![t] = conn]
              /\ Goto(t, "send")
    /\ UNCHANGED <<req, connKey, dup, chn, res, shared>>

(* The switch on conn.Protocol. *)
DoSend(t) ==
    /\ pc[t] = "send"
    /\ \/ /\ req[got[t]].handler.proto = "ws"
          /\ ClientOf[got[t]] \in up
          /\ Answer(got[t], t)
          /\ Goto(t, "peek")
          /\ UNCHANGED results
       \/ /\ req[got[t]].handler.proto = "http"
          /\ Answer(got[t], t)
          /\ Goto(t, "free")
          /\ UNCHANGED results
       \/ /\ req[got[t]].handler.proto = "channel"
          /\ results' = [results EXCEPT ![KeyOf(t)] = t]
          /\ Goto(t, "free")
          /\ UNCHANGED answers
    /\ UNCHANGED <<locals, conns, timers, stops, clash, up>>

(* Mutant: the nil check on the channel is dropped. *)
PeekTimeout_NoNilCheck(t) ==
    /\ pc[t] = "peek"
    /\ Goto(t, "aim")
    /\ UNCHANGED <<locals, shared>>

(* timeout := channelTimeout[key], under the read lock ... *)
PeekTimeout(t) ==
    /\ pc[t] = "peek"
    /\ Goto(t, IF TimerOf(KeyOf(t)) = Absent THEN "free" ELSE "aim")
    /\ UNCHANGED <<locals, shared>>

(* ... and channelTimeout[key] <- true reads the map again without it. *)
AimTimeout(t) ==
    /\ pc[t] = "aim"
    /\ chn' = [chn EXCEPT ![t] = TimerOf(KeyOf(t))]
    /\ Goto(t, "sync")
    /\ UNCHANGED <<req, script, connKey, dup, got, res, shared>>

(* The send and the receive of the unbuffered channel are one step. *)
SignalTimeout(t, r) ==
    /\ pc[t] = "sync" /\ chn[t] # Absent
    /\ pc[G(r)] = "select" /\ chn[G(r)] = chn[t]
    /\ pc' = [pc EXCEPT ![t] = "free", ![G(r)] = "disarm"]
    /\ chn' = [chn EXCEPT ![t] = Absent, ![G(r)] = Absent]
    /\ UNCHANGED <<req, script, connKey, dup, got, res, shared>>

(* Mutants: the answered connection stays registered; or the handler's key *)
(* is taken for the one it had before authentication.                      *)
UnregisterProtocol_Forgotten(t) ==
    /\ pc[t] = "free"
    /\ got' = [got EXCEPT ![t] = Absent]
    /\ Goto(t, Ret(t))
    /\ UNCHANGED <<req, script, connKey, dup, chn, res, conns, timers, results, stops,
                   answers, clash, up>>

UnregisterProtocol_AnonKey(t) ==
    /\ pc[t] = "free"
    /\ conns' = [conns EXCEPT ![AnonKey(t[2])] = Absent]
    /\ got' = [got EXCEPT ![t] = Absent]
    /\ Goto(t, Ret(t))
    /\ UNCHANGED <<req, script, connKey, dup, chn, res, timers, results, stops, answers, clash, up>>

UnregisterProtocol(t) ==
    /\ pc[t] = "free"
    /\ conns' = [conns EXCEPT ![KeyOf(t)] = Absent]
    /\ got' = [got EXCEPT ![t] = Absent]
    /\ Goto(t, Ret(t))
    /\ UNCHANGED <<req, script, connKey, dup, chn, res, timers, results, stops, answers, clash, up>>

-----------------------------------------------------------------------------
(* TimeOutProtocol(key).                                                   *)
ArmTimeout(r) ==
    /\ pc[G(r)] = "arm"
    /\ SetTimer(connKey[r], r)
    /\ Goto(G(r), "eval")
    /\ UNCHANGED <<locals, conns, results, stops, answers, clash, up>>

(* select evaluates channelTimeout[key] once, without the lock. *)
EvalTimeout(r) ==
    /\ pc[G(r)] = "eval"
    /\ chn' = [chn EXCEPT ![G(r)] = TimerOf(connKey[r])]
    /\ Goto(G(r), "select")
    /\ UNCHANGED <<req, script, connKey, dup, got, res, shared>>

Expire(r) ==
    /\ pc[G(r)] = "select"
    /\ Goto(G(r), "expired")
    /\ chn' = [chn EXCEPT ![G(r)] = Absent]
    /\ UNCHANGED <<req, script, connKey, dup, got, res, shared>>

(* Mutants: the entry is not deleted once the timeout has been signalled;  *)
(* or not when the ticker fired; or the ticker's case does not answer.     *)
DeleteTimeout_KeptIfSignalled(r) ==
    /\ pc[G(r)] \in {"expired", "disarm"}
    /\ IF pc[G(r)] = "disarm" THEN UNCHANGED timers ELSE SetTimer(connKey[r], Absent)
    /\ Goto(G(r), IF pc[G(r)] = "expired" THEN "get" ELSE "done")
    /\ UNCHANGED <<locals, conns, results, stops, answers, clash, up>>

DeleteTimeout_KeptIfExpired(r) ==
    /\ pc[G(r)] \in {"expired", "disarm"}
    /\ IF pc[G(r)] = "expired" THEN UNCHANGED timers ELSE SetTimer(connKey[r], Absent)
    /\ Goto(G(r), IF pc[G(r)] = "expired" THEN "get" ELSE "done")
    /\ UNCHANGED <<locals, conns, results, stops, answers, clash, up>>

DeleteTimeout_Silent(r) ==
    /\ pc[G(r)] \in {"expired", "disarm"}
    /\ SetTimer(connKey[r], Absent)
    /\ Goto(G(r), "done")
    /\ UNCHANGED <<locals, conns, results, stops, answers, clash, up>>

(* Both cases delete the entry of the key, whichever channel it holds; the *)
(* ticker's case then sends TIME_OUT.                                      *)
DeleteTimeout(r) ==
    /\ pc[G(r)] \in {"expired", "disarm"}
    /\ SetTimer(connKey[r], Absent)
    /\ Goto(G(r), IF pc[G(r)] = "expired" THEN "get" ELSE "done")
    /\ UNCHANGED <<locals, conns, results, stops, answers, clash, up>>

(* Those two reads of the map, here and in doSend, may meet a write: the   *)
(* Go runtime then ends the process (concurrent map read and map write).   *)
ConcurrentMapAccess(t) ==
    /\ pc[t] \in {"eval", "aim"}
    /\ \E r \in Requests : pc[G(r)] \in {"arm", "expired", "disarm"}
    /\ Goto(t, "panic")
    /\ UNCHANGED <<locals, shared>>

-----------------------------------------------------------------------------
(* Mutants: results are looked up by user alone; the context is not        *)
(* watched, only UnregisterChannel's stop.                                 *)
PollResult_ByUser(r) ==
    /\ pc[G(r)] = "poll"
    /\ \E k \in Keys : /\ k[2] = connKey[r][2] /\ results[k] # Absent
                       /\ res' = [res EXCEPT ![r] = results[k]]
    /\ Goto(G(r), "clear")
    /\ UNCHANGED <<req, script, connKey, dup, got, chn, shared>>

ContextDone_OnlyStopped(r) ==
    /\ pc[G(r)] = "poll"
    /\ connKey[r] \in stops
    /\ res' = [res EXCEPT ![r] = G(r)]
    /\ Goto(G(r), "clear")
    /\ UNCHANGED <<req, script, connKey, dup, got, chn, shared>>

(* RegisterChannel(key, channel, ctx): poll for a result until the context *)
(* ends, delete the result, hand it to the handler.  A result of its own   *)
(* (G(r)) is TIME_OUT.                                                     *)
PollResult(r) ==
    /\ pc[G(r)] = "poll"
    /\ ResultOf(connKey[r]) # Absent
    /\ res' = [res EXCEPT ![r] = ResultOf(connKey[r])]
    /\ Goto(G(r), "clear")
    /\ UNCHANGED <<req, script, connKey, dup, got, chn, shared>>

ContextDone(r) ==
    /\ pc[G(r)] = "poll"
    /\ res' = [res EXCEPT ![r] = G(r)]
    /\ Goto(G(r), "clear")
    /\ UNCHANGED <<req, script, connKey, dup, got, chn, shared>>

ClearResult(r) ==
    /\ pc[G(r)] = "clear"
    /\ results' = [results EXCEPT ![connKey[r]] = Absent]
    /\ Goto(G(r), "offer")
    /\ UNCHANGED <<locals, conns, timers, stops, answers, clash, up>>

-----------------------------------------------------------------------------
(* The matching engine's message reaches the gateway.  Every message of    *)
(* topic ENGINE has a goroutine of its own; topic CANCELLED_ORDER is       *)
(* served by its consumer loop, one message at a time.                     *)
PublishOrder(r) ==
    /\ pc[A(r)] = "order"
    /\ Goto(A(r), "get")
    /\ UNCHANGED <<locals, shared>>

(* Mutant: the cancellation is published at every closeConnection. *)
PublishCancelAll_AtEveryClose(r) ==
    /\ CancelledAtEnd(r)
    /\ pc[A(r)] # "idle" /\ pc[C(r)] \in {"idle", "done"}
    /\ Goto(C(r), "cancelled")
    /\ UNCHANGED <<locals, shared>>

(* The connection that placed the order ends: the order comes back on      *)
(* CANCELLED_ORDER for its own user and id, however long ago it was        *)
(* answered itself.                                                        *)
PublishCancelAll(r) ==
    /\ CancelledAtEnd(r)
    /\ pc[A(r)] # "idle" /\ pc[C(r)] = "idle"
    /\ Goto(C(r), "cancelled")
    /\ UNCHANGED <<locals, shared>>

CancelledOrders(t) == t[1] = "c" \/ (t[1] = "a" /\ Asks(t[2], "produceAll"))

handleTopicCancelledOrders(t) ==
    /\ pc[t] = "cancelled"
    /\ \A u \in Threads : CancelledOrders(u) => pc[u] \in {"idle", "cancelled", "done"}
    /\ Goto(t, "get")
    /\ UNCHANGED <<locals, shared>>

(* The writeHandler of a WebSocket returns: a write failed. *)
Disconnect(c) ==
    /\ c \in up \cap Closing
    /\ up' = up \ {c}
    /\ UNCHANGED <<locals, pc, conns, timers, results, stops, answers, clash>>
-----------------------------------------------------------------------------
SendStep(t) ==
    \/ GetProtocol(t) \/ DoSend(t) \/ PeekTimeout(t) \/ AimTimeout(t)
    \/ (\E r \in Requests : SignalTimeout(t, r)) \/ UnregisterProtocol(t)

HandlerStep(r) ==
    \/ RegisterWrite(r)
    \/ UpgradeRead(r) \/ UpgradeCheck(r) \/ UpgradeMove(r)
    \/ CallTimeOutProtocol(r) \/ CallRegisterChannel(r)
    \/ SendDirect(r) \/ UnregisterChannel(r) \/ Produce(r) \/ ReceiveResult(r)
    \/ Crash(r)

SpawnedStep(r) ==
    \/ ArmTimeout(r) \/ EvalTimeout(r) \/ Expire(r) \/ DeleteTimeout(r)
    \/ PollResult(r) \/ ContextDone(r) \/ ClearResult(r)

Environment ==
    \/ \E r \in Requests : Dispatch(r) \/ RegisterCheck(r) \/ Reject(r)
    \/ \E r \in Requests : PublishOrder(r) \/ PublishCancelAll(r)
    \/ \E t \in Threads : handleTopicCancelledOrders(t)
    \/ \E c \in Clients : Disconnect(c)
    \/ \E t \in Threads : ConcurrentMapAccess(t)

(* A panic outside an HTTP handler ends the process, as a fatal error does. *)
Panicked == \E t \in Threads : pc[t] = "panic"

Next ==
    /\ ~Panicked
    /\ \/ Environment
       \/ \E r \in Requests : HandlerStep(r) \/ SpawnedStep(r)
       \/ \E t \in Threads : SendStep(t)

Spec == Init /\ [][Next]_vars

(* The Go scheduler runs every goroutine that can run, and tickers and     *)
(* contexts fire; clients and the engine promise nothing.                  *)
Fairness ==
    /\ \A r \in Requests : WF_vars(~Panicked /\ HandlerStep(r))
    /\ \A r \in Requests : WF_vars(~Panicked /\ SpawnedStep(r))
    /\ \A t \in Threads : WF_vars(~Panicked /\ SendStep(t))

FairSpec == Spec /\ Fairness

-----------------------------------------------------------------------------
Typed ==
    /\ req \in [Requests -> Input]
    /\ pc \in [Threads -> Labels]
    /\ script \in [Requests -> Seq(Token)]
    /\ connKey \in [Requests -> Keys \cup {NoKey}]
    /\ dup \in [Requests -> BOOLEAN]
    /\ got \in [Threads -> Requests \cup {Absent, Zero}]
    /\ chn \in [Threads -> Requests \cup {Absent}]
    /\ res \in [Requests -> Threads \cup {Absent}]
    /\ conns \in [Keys -> Requests \cup {Absent, Zero}]
    /\ timers \in [Keys -> Requests \cup {Absent}]
    /\ results \in [Keys -> Threads \cup {Absent}]
    /\ stops \in SUBSET (Keys \cup {NoKey})
    /\ answers \in [Requests -> [Threads -> Nat]]
    /\ clash \in SUBSET Requests
    /\ up \in SUBSET Clients

Registers(r) == req[r].handler.helper # "none"

(* Each variable has its type.  Under a key there are only requests with   *)
(* its id that called RegisterProtocolRequest, and results of goroutines   *)
(* whose request has its id.                                               *)
TypeOK ==
    /\ Typed
    /\ \A k \in Keys : conns[k] \in Requests =>
            Registers(conns[k]) /\ req[conns[k]].id = k[1]
    /\ \A k \in Keys : results[k] \in Threads => req[results[k][2]].id = k[1]

(* So far no other request used the id of r while r was being served; one  *)
(* that had finished before r arrived may have.                            *)
Alone(r) == r \notin clash

Answered(r) == \E t \in Threads : answers[r][t] > 0

(* Every answer a peer gets echoes an id of its own: whatever requests are *)
(* in flight and however they overwrite each other's registrations, an     *)
(* answer written for one request reaches a request with the same id.      *)
IdEcho ==
    \A r \in Requests, t \in Threads : answers[r][t] > 0 => req[t[2]].id = req[r].id

(* A request served alone under its id is answered by its own goroutines   *)
(* only, and they answer nobody else, whatever requests with other ids do; *)
(* an order shares its id for as long as its connection's end may cancel   *)
(* it.                                                                     *)
Isolation ==
    \A r, s \in Requests : Alone(r) /\ s # r =>
        \A x \in {"h", "g", "a", "c"} : answers[s][<<x, r>>] = 0 /\ answers[r][<<x, s>>] = 0

(* Handlers that reply through the registry once at most. *)
RepliesOnce(h) ==
    /\ ~h.falls
    /\ \A b \in h.body : \A i, j \in DOMAIN b : b[i] = "key" /\ b[j] = "key" => i = j

(* Of its own goroutines a request gets at most one answer that is not     *)
(* TIME_OUT and at most one TIME_OUT; over HTTP at most one in all.  Where *)
(* the handler replies once, that the entry is moved, replaced or deleted  *)
(* by other requests does not change it (they may answer it too, see       *)
(* Isolation).  A handler that replies again after an error relies on its  *)
(* first reply having deleted the entry, which another request with its id *)
(* may have put back.  The ticker racing a late answer is why a WebSocket  *)
(* client may get both.                                                    *)
AnswerBound ==
    \A r \in Requests : Alone(r) \/ RepliesOnce(req[r].handler) =>
        /\ answers[r][H(r)] + answers[r][A(r)] <= 1
        /\ answers[r][G(r)] <= 1
        /\ ~IsWs(r) => answers[r][H(r)] + answers[r][A(r)] + answers[r][G(r)] <= 1

(* The entry UpgradeProtocol stores without a connection, whose use panics *)
(* in doSend, takes two requests served at a time with the id of its key.  *)
ZeroNeedsSharedId ==
    \A k \in Keys : conns[k] = Zero =>
        \E r, s \in clash : r # s /\ req[r].id = k[1] /\ req[s].id = k[1]

(* A timeout channel in the map still has the goroutine that made it: a    *)
(* sender that finds one finds somebody who receives or is about to delete *)
(* it, even when requests share keys and delete each other's entries.      *)
TimerHasReceiver ==
    Panicked \/ \A k \in Keys : timers[k] # Absent =>
        /\ pc[G(timers[k])] \in {"eval", "select", "expired", "disarm"}
        /\ connKey[timers[k]] = k

(* channelTimeout[key] <- true blocks for ever when no goroutine waits on  *)
(* the channel, nor is about to.                                           *)
Stuck(t) ==
    /\ pc[t] = "sync"
    /\ ~\E r \in Requests :
          \/ pc[G(r)] = "select" /\ chn[G(r)] = chn[t] /\ chn[t] # Absent
          \/ pc[G(r)] = "eval" /\ TimerOf(connKey[r]) = chn[t] /\ chn[t] # Absent

(* For a request served alone under its id a goroutine can block like that *)
(* only after it has written its own answer, and only while the timeout is *)
(* sending TIME_OUT for the same request or has done so, or when the order *)
(* and its cancellation at the connection's end have both been answered.   *)
StuckOnlyByTimeout ==
    Panicked \/ \A t \in Threads : Stuck(t) /\ Alone(t[2]) =>
        LET own == answers[t[2]]
        IN  /\ own[t] > 0
            /\ \/ pc[G(t[2])] \in {"expired", "get", "send"} \/ own[G(t[2])] > 0
               \/ own[A(t[2])] > 0 /\ own[C(t[2])] > 0

(* The registration of a request served alone under its id is never lost:  *)
(* it moves to the user's key, or leaves the registry once the peer has    *)
(* been answered (over an HTTP channel, once a result has been stored).    *)
NeverDropped ==
    [][\A r \in Requests, k \in Keys :
          (conns[k] = r /\ conns'[k] # r /\ Alone(r)) =>
              \/ \E l \in Keys : conns'[l] = r
              \/ Answered(r)
              \/ req[r].handler.proto = "channel"]_vars

(* Every WebSocket request is answered, if only by TIME_OUT, unless its    *)
(* connection closes or another request uses its id.                       *)
WsAnswered ==
    \A r \in Requests :
        (IsWs(r) /\ pc[H(r)] # "idle") ~>
            (Answered(r) \/ ClientOf[r] \notin up \/ ~Alone(r) \/ Panicked)

(* An HTTP handler waiting for the engine is always released, whoever else *)
(* uses its id: by a result or by its ten second context.                  *)
HttpReleased ==
    \A r \in Requests :
        (pc[H(r)] = "run" /\ script[r] # <<>> /\ Head(script[r]) = "wait") ~>
            (Answered(r) \/ Panicked)

(* Once its timeout has been started, a WebSocket request does not stay in *)
(* the registry: its id can be used again.                                 *)
KeyReleased ==
    \A r \in Requests :
        (IsWs(r) /\ pc[G(r)] = "arm") ~>
            ((\A k \in Keys : conns[k] # r)
                \/ ClientOf[r] \notin up \/ ~Alone(r) \/ Panicked)
=============================================================================
