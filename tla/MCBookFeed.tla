----------------------------- MODULE MCBookFeed -----------------------------
(* Instances of BookFeed for TLC. *)
EXTENDS BookFeed, TLC

CONSTANTS i1, i2, o1, o2, o3

(* The instruments are a call and a put with one strike and expiry. *)
MCSeries == [i \in Insts |-> "series"]

Ask(i, price) == [inst |-> i, side |-> "SELL", price |-> price, amount |-> 1]

(* An order to sell in each of two instruments, and one that buys.         *)
MCThree == (o1 :> Ask(i1, 1) @@ o2 :> Ask(i2, 1)
            @@ o3 :> [Ask(i1, 1) EXCEPT !.side = "BUY"])

(* Two orders to sell at one price. *)
MCSamePrice == (o1 :> Ask(i1, 1) @@ o2 :> Ask(i1, 1))

(* A cancellation of both instruments is broadcast one instrument after    *)
(* the other: the subscriber meets the second one's raw change.            *)
Both == \A o \in Resting : order[o].left = 0

MCOne ==
    msg[1].change.status = "CANCELLED_ALL" /\ Both =>
        /\ msg[1].todo \in {<<i1, i2>>, <<i2>>, << >>}
        /\ \A c \in Subs : chosen[c] \in {None, <<i2, "raw">>}

MCOneSpec == Init /\ [][Next /\ MCOne']_vars

(* The orders are alike: o1 is the first. *)
MCInTurn == clock = 1 => order[o2].new

MCInTurnSpec ==
    Init /\ [][Next /\ MCInTurn']_vars /\ \A j \in Jobs : WF_vars(Run(j))
=============================================================================
