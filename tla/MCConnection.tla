---------------------------- MODULE MCConnection ----------------------------
(* Instances of Connection for TLC. *)
EXTENDS Connection, TLC

M == INSTANCE SocketMethods

(* Channels are opaque to the socket. *)
MCSymmetry == Permutations(Channels)

(* A subscription without initial data. *)
MCTrades == M!privateSubscribe

(* With the unsubscription that is answered first: the goroutines of two   *)
(* requests meet.                                                          *)
MCOverlap == {s \in M!privateSubscribe \cup M!privateUnsubscribe : Len(s) > 1}

(* Cancellation on disconnect, beside what a broadcast and a request may   *)
(* contend for: the subscription that takes the most steps and the         *)
(* unsubscription that waits for the socket before it answers.             *)
MCCancel == {s \in M!EnableCancelOnDisconnect \cup M!DisableCancelOnDisconnect
                      \cup M!publicUnsubscribe : Len(s) > 1}
                \cup {s \in M!publicSubscribe : Len(s) > 3}
=============================================================================
