----------------------------- MODULE WsHandlers -----------------------------
(***************************************************************************)
(* What each WebSocket handler (internal/ws/controller) does with the      *)
(* request registry: how it calls requestHelper and, per outcome of its    *)
(* validations and of the service it calls, the sequence of its calls into *)
(* pkg/protocol.  Protocol.Token explains the words.  The subscriptions    *)
(* some of them make afterwards are in SocketMethods.                      *)
(***************************************************************************)

(* Most handlers reply to the peer when connKey is "" and return. *)
WsHandler(helper, body) ==
    [proto |-> "ws", helper |-> helper, dup |-> "direct", falls |-> FALSE, body |-> body]

(* These reply through the registry even then, where "" is never found. *)
Silent(h) == [h EXCEPT !.dup = "silent"]

Query == {<<"go", "key">>}

-----------------------------------------------------------------------------
(* private.go *)
buy  == WsHandler("token", {<<"go", "key">>, <<"go", "produce">>})
sell == WsHandler("token", {<<"go", "key">>, <<"go", "produce">>})

(* An order id that is not an ObjectID is answered before the timeout is   *)
(* started and leaves the request registered.                              *)
edit == WsHandler("token", {<<"direct">>, <<"go", "key">>, <<"go", "produce">>})

(* So does an error of the service, but the timeout is running then. *)
cancel == WsHandler("token", {<<"direct">>, <<"go", "direct">>, <<"go", "produce">>})

cancelByInstrument == Silent(WsHandler("token", {<<"go", "key">>, <<"go", "produceAll">>}))
cancelAll == WsHandler("token", {<<"go", "key">>, <<"go", "produceAll">>})

getUserTradesByInstrument   == WsHandler("token", Query)
getOpenOrdersByInstrument   == WsHandler("token", Query)
getOrderHistoryByInstrument == WsHandler("token", Query)
getUserTradesByOrder        == WsHandler("token", {<<"key">>, <<"go", "key">>})
getOrderState               == WsHandler("token", {<<"key">>, <<"go", "key">>})
getOrderStateByLabel        == WsHandler("token", {<<"key">>, <<"go", "key">>})

(* The error of the query for the user is ignored, and user.Email read.    *)
getAccountSummary == WsHandler("token", Query \cup {<<"go", "crash">>})

privateUnsubscribeAll == Silent(WsHandler("anon", {<<"key">>}))

(* The channels are confirmed before they are subscribed to; one that      *)
(* turns out not to be subscribable is reported under the same key again.  *)
privateSubscribe   == WsHandler("token", {<<"go", "key">>, <<"go", "key", "key">>})

(* A channel without a dot is split and indexed all the same, here after   *)
(* the confirmation and in publicSubscribe before (deribit_price_index) or *)
(* after it (quote).                                                       *)
privateUnsubscribe == Silent(WsHandler("anon", {<<"key">>, <<"key", "crash">>}))

EnableCancelOnDisconnect  == Silent(WsHandler("token", {<<"key">>}))
DisableCancelOnDisconnect == Silent(WsHandler("token", {<<"key">>}))
GetCancelOnDisconnect     == Silent(WsHandler("token", {<<"key">>}))

(* No return after requestHelper's error has been reported. *)
getInstruments          == [WsHandler("token", Query) EXCEPT !.falls = TRUE]
getOrderBook            == WsHandler("token", Query)
getTradingviewChartData == WsHandler("token", Query)

-----------------------------------------------------------------------------
(* public.go *)

(* client_signature reports a missing parameter and goes on to the login,  *)
(* which reports its own outcome; a grant_type that is none of the three   *)
(* leaves user nil, and user.ID is read.                                   *)
auth == WsHandler("anon", {<<"go", "key">>, <<"go", "key", "key">>, <<"go", "crash">>})

publicSubscribe ==
    WsHandler("anon", {<<"go", "key">>, <<"go", "key", "key">>, <<"go", "crash">>,
                       <<"go", "key", "crash">>})
publicUnsubscribe         == WsHandler("anon", {<<"key">>})
publicUnsubscribeAll      == WsHandler("anon", {<<"key">>})
getLastTradesByInstrument == WsHandler("anon", Query)
getIndexPrice             == WsHandler("anon", Query)
getDeliveryPrices         == WsHandler("anon", Query)
setHeartbeat              == WsHandler("anon", {<<"key">>})
test                      == WsHandler("anon", {<<"key">>})

(* The one method that is not registered at all. *)
publicGetTime == WsHandler("none", {<<"direct">>})

WsAll ==
    {buy, sell, edit, cancel, cancelByInstrument, cancelAll,
     getUserTradesByInstrument, getOpenOrdersByInstrument,
     getOrderHistoryByInstrument, getUserTradesByOrder, getOrderState,
     getAccountSummary, getOrderStateByLabel, privateUnsubscribeAll,
     privateSubscribe, privateUnsubscribe, EnableCancelOnDisconnect,
     DisableCancelOnDisconnect, GetCancelOnDisconnect, getInstruments,
     getOrderBook, getTradingviewChartData,
     auth, publicSubscribe, publicUnsubscribe, publicUnsubscribeAll,
     getLastTradesByInstrument, getIndexPrice, getDeliveryPrices,
     setHeartbeat, test, publicGetTime}
=============================================================================
