----------------------------- MODULE FreshFeed ------------------------------
(***************************************************************************)
(* What a feed of best prices promises, however it is computed and         *)
(* whoever computes several at once: what is sent because of a change has  *)
(* that change in it, and nothing that is not saved yet, or the book could *)
(* not be read.                                                            *)
(***************************************************************************)
EXTENDS Naturals

CONSTANTS
    Receivers,
    MaxMsgs     \* bound: changes

VARIABLES
    saved,      \* how many changes there are
    shown       \* <<r, m, v>>: r has been sent for change m the prices as
                \* of change v, or for 0 those of a book
                \* that could not be read

Init == saved = 0 /\ shown = {}

Save ==
    /\ saved < MaxMsgs
    /\ saved' = saved + 1
    /\ UNCHANGED shown

Show ==
    \E m \in 1 .. saved : \E v \in {0} \cup (m .. saved), R \in SUBSET Receivers :
        /\ shown' = shown \cup {<<r, m, v>> : r \in R}
        /\ UNCHANGED saved

Spec == Init /\ [][Save \/ Show]_<<saved, shown>>
=============================================================================
