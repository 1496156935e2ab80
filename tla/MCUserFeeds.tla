---------------------------- MODULE MCUserFeeds ----------------------------
(* Instances of UserFeeds for TLC. *)
EXTENDS UserFeeds, TLC

CONSTANTS o1, o2, u1, u2

(* Two orders of two users. *)
MCOwner == (o1 :> u1 @@ o2 :> u2)
MCInstOf == [o \in Orders |-> CHOOSE i \in Insts : TRUE]

(* The users are alike.  The first message is about u1, as the taker if it *)
(* has one.  Two consumers meet in the entry of one user, and one of them  *)
(* has another user to go on with: three orders in all messages, or the    *)
(* same trade twice.  The ticker of u1 runs between any steps of theirs,   *)
(* that of u2 while no consumer runs.                                      *)
MCFew ==
    msg # << >> =>
        /\ o1 \in ToSet(msg[1].orders)
        /\ msg[1].kind = "saved" => Taker(1) = o1
        /\ feed \in {"changes", "orders"} =>
             FoldLeft(LAMBDA n, m : n + Len(m.orders), 0, msg) <= 3
        /\ feed = "trades" => \A m \in DOMAIN msg : msg[m] = msg[1]
        /\ feed = "ticker" => \A m \in DOMAIN msg : Len(msg[m].orders) = 1
        /\ (\E j \in Live : j[1] = "100ms" /\ j[2][2] = u2 /\ job[j].place # "tick") =>
             \A k \in Live : k[1] # "consumer"

MCSpec == Init /\ [][Next /\ MCFew']_vars /\ \A j \in Jobs : WF_vars(Run(j))
=============================================================================
