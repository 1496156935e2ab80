----------------------------- MODULE MCHeartbeat ----------------------------
(* An instance of Heartbeat for TLC. *)
EXTENDS Heartbeat, TLC

CONSTANTS c1, c2

(* The client that answers may ask for a second heartbeat. *)
MCMaxLoops == (c1 :> 1 @@ c2 :> 2)

(* A client with two heartbeats does not call test unasked, nor does one   *)
(* that has unsubscribed. *)
MCFew == (\E l \in Loops : l[2] = 2 /\ loop[l] # "idle") \/ left # {} => tests \cap (Clients \X {0}) = {}
MCSpec == Init /\ [][Next /\ MCFew']_vars /\ Fairness
=============================================================================
