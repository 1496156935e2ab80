--------------------------- MODULE MCEngineTopics ---------------------------
(* Instances of EngineTopics for TLC. *)
EXTENDS EngineTopics

CONSTANTS i1, i2, u1, u2, s1, s2, c1, Topics

(* A call and a put of one strike. *)
MCSeries == [i \in Insts |-> "strike"]

MCOrders == [kind : {"order"}, insts : {<<i>> : i \in Insts}, taker : {u1},
             makers : {<< >>, <<u2>>}, open : 0 .. 2]
MCOther == [kind : {"rejected", "cancelled"}, insts : {<<i1>>, <<i1, i2>>},
            taker : {u1}, makers : {<< >>}, open : {0}]
MCEvents == MCOrders \cup {e \in MCOther : e.kind = "cancelled" <=> Len(e.insts) = 2}

(* The gateway does one kind of thing at a time, whose state the others do *)
(* not share: the goroutines that work for other topics have nothing to do.*)
VARIABLE topic

FixTopics == {"V", "A", "X", "AD", "order"}

FixJobs ==
    CASE topic \in {"V", "AD"} -> {"trade"}
      [] topic \in {"A", "X"} -> {"saved"}
      [] topic = "order" -> {"taker", "maker"}

(* Messages that tell the topic's cases apart. *)
Says(e) ==
    CASE topic = "V"  -> e.makers = << >> /\ e.open < 2 /\ e.insts[1] = i1
      [] topic = "A"  -> e.makers = << >> /\ e.open # 1
      [] topic = "X"  -> e.makers = << >> /\ e.open > 0 /\ e.insts[1] = i1
      [] topic = "AD" -> e.open = 1 /\ e.insts[1] = i1
      [] topic = "order" -> (e.open = 1 \/ e.kind = "rejected") /\ e.insts[1] = i1
      [] topic = "log" -> e.makers = << >> /\ e.open = 1 /\ e.kind = "order"
      [] topic = "quotes" -> e.makers = << >> /\ (e.kind = "order" => e.open = 1)
      [] topic = "asked" -> e.makers = << >> /\ e.open = 1 /\ e.insts = <<i1>>

(* Orders of two users at two sessions; else one user.  Two sessions that  *)
(* subscribe to quotes, the second one stays; else one.                    *)
FewRequests ==
    /\ \A s \in Sessions : request'[s].todo # << >> =>
        /\ request'[s].todo[1][2] \in {topic, ""} \/ s \notin loggedOn'
        /\ request'[s].key \in {i1, NoInst}
        /\ topic # "order" => request'[s].user # u2
    /\ topic \in {"V", "AD", "X"} => s2 \notin loggedOn' /\ request'[s2] = Idle
    /\ topic = "A" =>
        /\ request'[s2].type \in {"", "updates"}
        /\ s2 \in loggedOn => s2 \in loggedOn'
    /\ topic \in {"order", "V"} => requests' <= 3
    /\ topic \in {"V", "A", "AD"} => running'

MaxOf(t) == IF t \in {"A", "AD", "order"} THEN 1 ELSE IF t = "log" THEN 3 ELSE 2

Of(kind) == {j \in DOMAIN work' : j[1] = kind}

FewCalls ==
    /\ \A j \in Of("subscribe") : work'[j].insts = <<i1>>
    /\ \A j \in Of("get_order_book") : work'[j].insts = <<i1>> /\ work'[j].user = u1
    /\ topic = "log" => Of("quote") \cup Of("subscribe") \cup Of("get_order_book") = {}
    /\ topic # "log" => Of("engine") = {}
    /\ topic = "quotes" => Of("get_order_book") = {}

MCNext ==
    /\ \/ /\ topic \in FixTopics /\ AcceptorStep /\ FewRequests
          /\ \A j \in DOMAIN job' : j[1] \in FixJobs
       \/ topic \notin FixTopics /\ ServiceStep /\ FewCalls
       \/ EngineStep /\ Len(msg') <= MaxOf(topic) /\ (msg' # msg => Says(msg'[Len(msg')]))
    /\ topic' = topic

MCInit == InitBoth /\ topic \in Topics

MCSpec == MCInit /\ [][MCNext]_<<all, topic>>
=============================================================================
