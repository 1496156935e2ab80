----------------------------- MODULE FixHandlers -----------------------------
(***************************************************************************)
(* The order messages of the FIX acceptor (internal/fix-acceptor), like    *)
(* WsHandlers.  They register nothing: the session is told of its orders   *)
(* by OrderConfirmation.  But the engine answers them on the topics of all *)
(* orders, and the consumer looks for a request with the number ClOrdID    *)
(* parses to, 0 if it is none, and the session's user.                     *)
(***************************************************************************)
FixHandler(body) ==
    [proto |-> "fix", helper |-> "none", dup |-> "silent", falls |-> FALSE, body |-> body]

onNewOrderSingle     == FixHandler({<<>>, <<"produce">>})
onOrderUpdateRequest == FixHandler({<<>>, <<"produce">>})
onOrderCancelRequest == FixHandler({<<>>, <<"produce">>})

(* A cancellation per open order, all with the ClOrdID of the message: one *)
(* of them; several are several requests with one id.                      *)
onOrderMassCancelRequest == FixHandler({<<>>, <<"produce">>})

FixAll ==
    {onNewOrderSingle, onOrderUpdateRequest, onOrderCancelRequest, onOrderMassCancelRequest}
=============================================================================
