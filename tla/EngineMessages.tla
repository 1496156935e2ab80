--------------------------- MODULE EngineMessages ---------------------------
(***************************************************************************)
(* The matching engine as the gateway sees it: it publishes a message on   *)
(* ENGINE (or CANCELLED_ORDER); another process writes the orders to       *)
(* MongoDB, message by message, and publishes ENGINE_SAVED (or             *)
(* CANCELLED_ORDER_SAVED) when it has.  What reads MongoDB on the first    *)
(* topic may thus come too early; what does on the second may only be      *)
(* overtaken.                                                              *)
(***************************************************************************)
EXTENDS Naturals, Sequences

CONSTANTS
    Insts,      \* instruments
    Series,     \* underlying, expiry and strike of each, as one value
    Users,
    Events,     \* what the engine may say, see Messages
    MaxMsgs     \* bound: messages of the engine

Msgs == 1 .. MaxMsgs

(* An order that was accepted, in part or whole executed, amended or       *)
(* cancelled, with one maker per trade; one that was rejected; orders      *)
(* cancelled together.  insts: the instrument of each order; open: how     *)
(* many orders of each of these are open then.                             *)
Messages ==
    {e \in [kind : {"order", "rejected", "cancelled"}, insts : Seq(Insts) \ {<< >>},
            taker : Users, makers : Seq(Users), open : Nat] :
        e.kind # "cancelled" => Len(e.insts) = 1}

ASSUME EngineAssumption == Events \subseteq Messages /\ MaxMsgs \in Nat

VARIABLES
    msg,    \* what the engine has published
    saved,  \* how many of them are in MongoDB
    book,   \* the last of those that changed the book of a series, or 0
    open    \* how many open orders of an instrument there are

engine == <<msg, saved, book, open>>

InitEngine ==
    /\ msg = << >>
    /\ saved = 0
    /\ book = [x \in {Series[i] : i \in Insts} |-> 0]
    /\ open = [i \in Insts |-> 0]

Publish ==
    /\ Len(msg) < MaxMsgs
    /\ \E e \in Events : msg' = Append(msg, e)
    /\ UNCHANGED <<saved, book, open>>

Instruments(m) == {msg[m].insts[n] : n \in DOMAIN msg[m].insts}

SaveNext ==
    LET m == saved + 1
        changed == IF msg[m].kind = "rejected" THEN {} ELSE Instruments(m)
    IN  /\ saved < Len(msg)
        /\ saved' = m
        /\ book' = [x \in DOMAIN book |->
                        IF \E i \in changed : Series[i] = x THEN m ELSE book[x]]
        /\ open' = [i \in Insts |-> IF i \in changed THEN msg[m].open ELSE open[i]]
        /\ UNCHANGED msg

EngineNext == Publish \/ SaveNext

(* What has arrived on ENGINE, ENGINE_SAVED and CANCELLED_ORDER_SAVED.     *)
Answered == {m \in DOMAIN msg : msg[m].kind # "cancelled"}
OrderSaved == {m \in DOMAIN msg : m <= saved /\ msg[m].kind = "order"}
CancelSaved == {m \in DOMAIN msg : m <= saved /\ msg[m].kind = "cancelled"}

Instrument(m) == msg[m].insts[1]

(* Mutant: changes that are not saved yet are found.                       *)
Version_Early(i) == IF book[Series[i]] < Len(msg) THEN book[Series[i]] + 1 ELSE 0

(* What GetOrderBook finds: the book of the series (the query does not     *)
(* match contracts) as of its last change.                                 *)
Version(i) == book[Series[i]]

(* A query that fails or takes too long is taken for one without orders,   *)
(* so that one side of the book or both come out empty: 0, such a book     *)
(* shows no change.                                                        *)
Finds(i) == {Version(i), 0}

Empty(i) == \A x \in Insts : Series[x] = Series[i] => open[x] = 0
=============================================================================
