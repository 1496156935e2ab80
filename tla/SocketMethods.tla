---------------------------- MODULE SocketMethods ----------------------------
(***************************************************************************)
(* What each WebSocket method that subscribes, unsubscribes or sets the    *)
(* cancellation does, in order, to its connection and to a socket; the     *)
(* module Connection explains the words.  Each is the set of the scripts a *)
(* call may turn out to be, for one channel.                               *)
(***************************************************************************)
EXTENDS Sequences

-----------------------------------------------------------------------------
(* The services (internal/ws/service): a subscription with initial data,   *)
(* an error before or after it, a subscription without initial data.       *)
SubscribeQuote == {<<"send">>, <<"subscribe", "register", "send">>}

(* The snapshot is read and sent when updates are already streamed; a      *)
(* marshalling error ends it.                                              *)
SubscribeBook ==
    {<<"send">>, <<"subscribe", "register">>, <<"subscribe", "register", "send">>}

SubscribeTicker == {<<"send">>, <<"subscribe", "register", "send">>}

SubscribeUserChange == {<<"subscribe", "register">>}
SubscribeUserOrder  == {<<"subscribe", "register">>}
SubscribeUserTrades == {<<"subscribe", "register">>}
SubscribeTrades     == {<<"subscribe", "register">>}
SubscribeRawPrice   == {<<"subscribe", "register">>}

-----------------------------------------------------------------------------
(* The methods (internal/ws/controller): those that subscribe answer       *)
(* first; a request that is refused is answered and does nothing else.     *)
Refused == {<<"confirm">>}

Confirmed(scripts) == {<<"confirm">> \o s : s \in scripts}

publicSubscribe ==
    Refused \cup Confirmed(SubscribeQuote \cup SubscribeBook \cup SubscribeTicker
                               \cup SubscribeTrades \cup SubscribeRawPrice)

privateSubscribe ==
    Refused \cup Confirmed(SubscribeUserChange \cup SubscribeUserOrder \cup SubscribeUserTrades)

(* Three of these answer afterwards; one, first. *)
publicUnsubscribe     == Refused \cup {<<"unsubscribe", "confirm">>}
publicUnsubscribeAll  == Refused \cup {<<"unsubscribe", "confirm">>}
privateUnsubscribeAll == Refused \cup {<<"unsubscribe", "confirm">>}
privateUnsubscribe    == Refused \cup {<<"confirm", "unsubscribe">>}

EnableCancelOnDisconnect  == Refused \cup {<<"enable", "confirm">>}
DisableCancelOnDisconnect == Refused \cup {<<"disable", "confirm">>}
=============================================================================
