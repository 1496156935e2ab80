----------------------------- MODULE MCProtocol -----------------------------
(* Instances of Protocol for TLC. *)
EXTENDS Protocol, TLC

Ws   == INSTANCE WsHandlers
Http == INSTANCE HttpHandlers
Fix  == INSTANCE FixHandlers

CONSTANTS r1, r2, c1, c2, i1

(* Two peers with one request each. *)
MCClientOf == (r1 :> c1 @@ r2 :> c2)

(* Every handler of the repository. *)
MCHttp == Http!HttpAll
MCAll  == Ws!WsAll \cup MCHttp \cup Fix!FixAll

(* Pairs of requests with one id that use the registry in different ways:  *)
(* one reaches the engine, over HTTP it waits for it; the other does, too, *)
(* or it answers by itself, once or twice, or goes on after requestHelper  *)
(* refused it.                                                             *)
MCAlone == {Ws!auth, Ws!EnableCancelOnDisconnect,
            Http!getUserTradeByInstrument, Http!getIndexPrice}
MCWait  == {Http!buy, Http!cancelAll}
MCPairs == ({Ws!buy} \X ({Ws!buy, Ws!privateSubscribe} \cup MCWait \cup MCAlone))
             \cup ({Http!buy} \X (MCWait \cup MCAlone \cup {Ws!getInstruments}))
             \cup ({Http!cancelAll} \X (MCAlone \cup {Http!cancelAll}))

(* Requests that reach the engine, over the three transports: only those   *)
(* that are not refused.                                                   *)
Accepted(h) == [h EXCEPT !.body = {b \in @ : \E i \in DOMAIN b : b[i] \in {"produce", "produceAll"}}]
MCApart == {Accepted(Ws!buy)} \X {Accepted(Ws!buy), Accepted(Ws!cancelAll),
                                   Accepted(Http!buy), Accepted(Fix!onNewOrderSingle)}
             \cup {<<Accepted(Http!buy), Accepted(Http!buy)>>}

MCHandlers == UNION {{p[1], p[2]} : p \in MCPairs \cup MCApart}

(* One id, or two: an order whose connection may end and another one, or   *)
(* two that wait.  Ids are opaque to the gateway, the first request has i1.*)
(* Of two requests with one id in flight at once Isolation says nothing:   *)
(* no connection ends then.                                                *)
MCInit ==
    /\ Init
    /\ req[r1].id = i1
    /\ <<req[r1].handler, req[r2].handler>> \in
            IF req[r2].id = i1 THEN MCPairs ELSE MCApart

MCSpec ==
    /\ MCInit
    /\ [][Next /\ (clash = {} \/ (up = Clients /\ pc[C(r1)] = "idle"))']_vars

(* For what every request may rely on: one request of any handler, the     *)
(* second staying away, or two HTTP requests that wait for the engine.     *)
MCHttpWait == {<<Http!buy, Http!buy>>, <<Http!buy, Http!cancelAll>>}
MCWaiting == <<req[r1].handler, req[r2].handler>> \in MCHttpWait
MCServed ==
    /\ Init /\ (MCWaiting \/ req[r2].handler = Http!buy)
    /\ [][Next /\ IF MCWaiting THEN up' = up ELSE pc'[H(r2)] = "idle"]_vars
    /\ Fairness
=============================================================================
