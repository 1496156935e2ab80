----------------------- MODULE EngineMessages_proofs ------------------------
(***************************************************************************)
(* What every process can rely on that hears the engine, and facts about   *)
(* the lists of steps its goroutines work off.                             *)
(***************************************************************************)
EXTENDS EngineMessages, TLAPS

(* The book of a series is at least as new as each saved message that      *)
(* changed it.                                                             *)
BookOK ==
    /\ book \in [{Series[i] : i \in Insts} -> 0 .. saved]
    /\ \A m \in 1 .. saved : msg[m].kind # "rejected" =>
            \A i \in Instruments(m) : book[Series[i]] >= m

EngineOK ==
    /\ msg \in Seq(Messages) /\ Len(msg) <= MaxMsgs
    /\ saved \in Nat /\ saved <= Len(msg)
    /\ BookOK

-----------------------------------------------------------------------------
LEMMA TailOfSeq ==
    ASSUME NEW S, NEW t \in Seq(S), t # << >>
    PROVE  /\ Tail(t) \in Seq(S) /\ t[1] \in S /\ 1 \in DOMAIN t
           /\ \A n \in DOMAIN Tail(t) :
                n \in Nat \ {0} /\ n + 1 \in DOMAIN t /\ Tail(t)[n] = t[n + 1]
BY SMT

LEMMA TailEmpty ==
    ASSUME NEW S, NEW t \in Seq(S), t # << >>
    PROVE  Tail(t) = << >> <=> Len(t) = 1
<1>1. Tail(t) \in Seq(S) /\ Len(Tail(t)) = Len(t) - 1 /\ Len(t) \in Nat \ {0}
  BY SMT
<1>2. Tail(t) = << >> <=> Len(Tail(t)) = 0
  BY SMTT(20), <1>1
<1> QED BY <1>1, <1>2

LEMMA Concat ==
    ASSUME NEW S, NEW a \in Seq(S), NEW b \in Seq(S)
    PROVE  /\ a \o b \in Seq(S)
           /\ \A n \in DOMAIN (a \o b) :
                \/ n \in DOMAIN a /\ (a \o b)[n] = a[n]
                \/ n - Len(a) \in DOMAIN b /\ (a \o b)[n] = b[n - Len(a)]
BY SMT

LEMMA MapOfSeq ==
    ASSUME NEW S, NEW T, NEW a \in Seq(S), NEW f \in [DOMAIN a -> T]
    PROVE  f \in Seq(T)
BY SMT

LEMMA MessageType ==
    ASSUME EngineOK, NEW m \in DOMAIN msg
    PROVE  /\ m \in 1 .. MaxMsgs /\ m \in Nat /\ msg[m] \in Messages
           /\ Instrument(m) \in Instruments(m) /\ Instruments(m) \subseteq Insts
           /\ Instrument(m) \in Insts /\ msg[m].taker \in Users
           /\ msg[m].makers \in Seq(Users) /\ msg[m].insts \in Seq(Insts)
           /\ msg[m].insts # << >>
           /\ msg[m].kind # "cancelled" => Instruments(m) = {Instrument(m)}
<1>1. m \in 1 .. MaxMsgs /\ m \in Nat /\ msg[m] \in Messages
  BY EngineAssumption DEF EngineOK
<1>2. /\ msg[m].taker \in Users /\ msg[m].makers \in Seq(Users)
      /\ msg[m].insts \in Seq(Insts) /\ msg[m].insts # << >>
  BY <1>1 DEF Messages
<1>3. 1 \in DOMAIN msg[m].insts /\ \A n \in DOMAIN msg[m].insts : msg[m].insts[n] \in Insts
  BY <1>2
<1>4. msg[m].kind # "cancelled" => DOMAIN msg[m].insts = {1}
  BY <1>1, <1>2 DEF Messages
<1>5. msg[m].kind # "cancelled" => Instruments(m) = {Instrument(m)}
  BY <1>4 DEF Instrument, Instruments
<1> QED BY <1>1, <1>2, <1>3, <1>5 DEF Instrument, Instruments

(* A book that is read once a message is saved has that message's change.  *)
LEMMA VersionFresh ==
    ASSUME EngineOK, NEW m \in DOMAIN msg, m <= saved, msg[m].kind # "rejected",
           NEW i \in Instruments(m)
    PROVE  Version(i) \in m .. saved
<1>1. m \in 1 .. saved /\ i \in Insts
  BY MessageType DEF EngineOK
<1>2. book[Series[i]] \in 0 .. saved
  BY <1>1 DEF EngineOK, BookOK
<1>3. book[Series[i]] >= m
  BY <1>1 DEF EngineOK, BookOK
<1> QED BY <1>1, <1>2, <1>3 DEF EngineOK, Version

LEMMA VersionType ==
    ASSUME EngineOK, NEW i \in Insts
    PROVE  Version(i) \in 0 .. saved
BY DEF EngineOK, BookOK, Version

(* Whether or not the query fails.                                         *)
LEMMA FindsType ==
    ASSUME EngineOK, NEW i \in Insts
    PROVE  Finds(i) \subseteq 0 .. saved
BY VersionType DEF EngineOK, Finds

LEMMA FindsFresh ==
    ASSUME EngineOK, NEW m \in DOMAIN msg, m <= saved, msg[m].kind # "rejected",
           NEW i \in Instruments(m)
    PROVE  Finds(i) \subseteq {0} \cup (m .. saved)
BY VersionFresh DEF Finds

(* A book is as of m, or the query for it failed.                          *)
NoOlder(v, m) == v = 0 \/ v >= m

(* What is shown for change m are the prices as of v, see FreshFeed.       *)
OfChange(m, v) == m \in 1 .. saved /\ v \in {0} \cup (m .. saved)

LEMMA EngineStarts == InitEngine => EngineOK
BY EngineAssumption DEF InitEngine, EngineOK, BookOK

LEMMA PublishKeeps ==
    ASSUME EngineOK, Publish
    PROVE  /\ EngineOK' /\ saved' = saved
           /\ \A m \in DOMAIN msg : m \in DOMAIN msg' /\ msg'[m] = msg[m]
<1>1. PICK e \in Events : msg' = Append(msg, e)
  BY DEF Publish
<1>2. e \in Messages
  BY EngineAssumption
<1>3. /\ msg' \in Seq(Messages) /\ Len(msg') = Len(msg) + 1
      /\ \A m \in DOMAIN msg : m \in DOMAIN msg' /\ msg'[m] = msg[m]
  BY <1>1, <1>2 DEF EngineOK
<1>4. UNCHANGED <<saved, book>>
  BY DEF Publish
<1>5. \A m \in 1 .. saved : msg'[m] = msg[m] /\ Instruments(m)' = Instruments(m)
  BY <1>3 DEF EngineOK, Instruments
<1>6. BookOK'
  BY <1>4, <1>5 DEF EngineOK, BookOK
<1> QED BY <1>3, <1>4, <1>6, EngineAssumption DEF EngineOK, Publish

LEMMA SaveKeeps ==
    ASSUME EngineOK, SaveNext
    PROVE  EngineOK' /\ saved' = saved + 1 /\ msg' = msg
<1> DEFINE m == saved + 1
           changed == IF msg[m].kind = "rejected" THEN {} ELSE Instruments(m)
<1>1. /\ saved < Len(msg) /\ saved' = m /\ msg' = msg
      /\ book' = [x \in DOMAIN book |->
                    IF \E i \in changed : Series[i] = x THEN m ELSE book[x]]
  BY DEF SaveNext
<1>2. book' \in [{Series[i] : i \in Insts} -> 0 .. saved']
  BY <1>1 DEF EngineOK, BookOK
<1>3. ASSUME NEW n \in 1 .. saved', msg'[n].kind # "rejected", NEW i \in Instruments(n)'
      PROVE  book'[Series[i]] >= n
  <2>1. n \in DOMAIN msg /\ i \in Instruments(n) /\ i \in Insts
    BY <1>1, <1>3, MessageType DEF EngineOK, Instruments
  <2>2. Series[i] \in DOMAIN book /\ book[Series[i]] \in 0 .. saved
    BY <2>1 DEF EngineOK, BookOK
  <2>3. CASE n = m
    BY <1>1, <1>3, <2>1, <2>2, <2>3
  <2>4. CASE n # m
    <3>1. book[Series[i]] >= n
      BY <1>1, <1>3, <2>1, <2>4 DEF EngineOK, BookOK
    <3> QED BY <1>1, <2>2, <3>1, <1>3 DEF EngineOK
  <2> QED BY <2>3, <2>4
<1>4. BookOK'
  BY <1>2, <1>3 DEF BookOK
<1> QED BY <1>1, <1>4 DEF EngineOK

(* A step of the engine takes nothing back.                                *)
LEMMA EngineKeeps ==
    ASSUME EngineOK, EngineNext
    PROVE  /\ EngineOK' /\ saved' \in {saved, saved + 1}
           /\ \A m \in DOMAIN msg : m \in DOMAIN msg' /\ msg'[m] = msg[m]
BY PublishKeeps, SaveKeeps DEF EngineNext, EngineOK
=============================================================================
