---------------------------- MODULE HttpHandlers ----------------------------
(***************************************************************************)
(* The HTTP handlers (internal/deribit/controller), like WsHandlers.       *)
(* requestHelper registers the six order methods with protocol Channel:    *)
(* the handler waits for the engine's answer.  The others are answered by  *)
(* the handler itself.                                                     *)
(***************************************************************************)
HttpHandler(proto, helper, body) ==
    [proto |-> proto, helper |-> helper, dup |-> "direct", falls |-> FALSE, body |-> body]

(* A service error is written to the peer; the registration stays, and the *)
(* RegisterChannel goroutine is told to stop.                              *)
Refused == <<"chan", "direct", "stop">>

-----------------------------------------------------------------------------
(* private.go *)
buy    == HttpHandler("channel", "token", {Refused, <<"chan", "produce", "wait">>})
sell   == HttpHandler("channel", "token", {Refused, <<"chan", "produce", "wait">>})
edit   == HttpHandler("channel", "token", {Refused, <<"chan", "produce", "wait">>})
cancel == HttpHandler("channel", "token", {Refused, <<"chan", "produce", "wait">>})

(* Here the error is sent under the key, that is, stored as the result the *)
(* handler no longer waits for: the peer gets an empty response.           *)
cancelByInstrument ==
    HttpHandler("channel", "token", {<<"chan", "key", "stop">>, <<"chan", "produceAll", "wait">>})
cancelAll ==
    HttpHandler("channel", "token", {<<"chan", "key", "stop">>, <<"chan", "produceAll", "wait">>})

(* An invalid instrument is answered without giving the key back. *)
getUserTradeByInstrument    == HttpHandler("http", "token", {<<"direct">>, <<"key">>})
getOpenOrdersByInstrument   == HttpHandler("http", "token", {<<"key">>})
getOrderHistoryByInstrument == HttpHandler("http", "token", {<<"key">>})
getOrderStateByLabel        == HttpHandler("http", "token", {<<"key">>})
getOrderState               == HttpHandler("http", "token", {<<"key">>})
getUserTradesByOrder        == HttpHandler("http", "token", {<<"key">>})
getInstruments              == HttpHandler("http", "token", {<<"key">>})
getOrderBook                == HttpHandler("http", "token", {<<"key">>})
getTradingviewChartData     == HttpHandler("http", "token", {<<"key">>})

(* As over WebSocket, but net/http recovers: the connection is closed, the *)
(* request stays registered.                                               *)
getAccountSummary == HttpHandler("http", "token", {<<"key">>, << >>})

-----------------------------------------------------------------------------
(* public.go *)

(* validateSignatureAuth reports a missing parameter and does not stop the *)
(* handler, which reports again.                                           *)
auth                      == HttpHandler("http", "anon", {<<"key">>, <<"key", "key">>})
getIndexPrice             == HttpHandler("http", "anon", {<<"key">>})
getLastTradesByInstrument == HttpHandler("http", "anon", {<<"key">>})
getDeliveryPrices         == HttpHandler("http", "anon", {<<"key">>})
test                      == HttpHandler("http", "none", {<<"direct">>})
getTime                   == HttpHandler("http", "none", {<<"direct">>})

HttpAll ==
    {buy, sell, edit, cancel, cancelByInstrument, cancelAll,
     getUserTradeByInstrument, getOpenOrdersByInstrument,
     getOrderHistoryByInstrument, getOrderStateByLabel, getOrderState,
     getUserTradesByOrder, getAccountSummary, getInstruments, getOrderBook,
     getTradingviewChartData, auth, getIndexPrice,
     getLastTradesByInstrument, getDeliveryPrices, test, getTime}
=============================================================================
