-------------------------- MODULE UserFeeds_proofs --------------------------
(***************************************************************************)
(* What the five feeds of the users promise, for any messages and any      *)
(* interleaving of their consumers and tickers.                            *)
(*                                                                         *)
(* FeedOK says what every goroutine and every entry may hold.  On it rest  *)
(* StoreOK (what was stored is in the entry, or read by the ticker that    *)
(* will clear it), OnceOK (the loop of a consumer stores nothing that has  *)
(* been broadcast) and AlongOK (the trades are stored and read no earlier  *)
(* than the orders they come with).                                        *)
(***************************************************************************)
EXTENDS UserFeeds, FiniteSetTheorems, TLAPS

-----------------------------------------------------------------------------
(* Induction over the natural numbers, of a set.                           *)
LEMMA LeastNat ==
    ASSUME NEW T, T \subseteq Nat, T # {}
    PROVE  \E x \in T : \A y \in T : x <= y
<1> DEFINE U == {1 .. x : x \in T}
<1>1. U \subseteq FiniteSubsetsOf(Nat) /\ U # {}
  <2>1. ASSUME NEW x \in T PROVE 1 .. x \in FiniteSubsetsOf(Nat)
    <3>1. IsFiniteSet(1 .. x)
      BY FS_Interval
    <3> QED BY <3>1 DEF FiniteSubsetsOf
  <2> QED BY <2>1
<1>2. \E u \in U : \A v \in U : ~(<<v, u>> \in StrictSubsetOrdering(Nat))
  <2> HIDE DEF U
  <2> QED BY <1>1, FS_StrictSubsetOrderingWellFounded, WFMin
<1>3. PICK x \in T : \A y \in T : ~(<<1 .. y, 1 .. x>> \in StrictSubsetOrdering(Nat))
  BY <1>2
<1>4. ASSUME NEW y \in T, ~(x <= y) PROVE FALSE
  <2>1. x \in Int /\ y \in Int /\ y < x
    BY <1>4
  <2>2. 1 .. y \subseteq 1 .. x /\ x \in 1 .. x /\ x \notin 1 .. y
    BY <2>1, <1>4
  <2>3. 1 .. y \in SUBSET Nat /\ 1 .. x \in SUBSET Nat
    BY <2>1
  <2> QED BY <1>3, <2>2, <2>3 DEF StrictSubsetOrdering
<1> QED BY <1>4

(* ... so what holds of 1, and with n of n + 1, holds of all. *)
LEMMA FromOneOn ==
    ASSUME NEW T, 1 \in T, \A n \in Nat \ {0} : n \in T => n + 1 \in T
    PROVE  Nat \ {0} \subseteq T
<1> SUFFICES ASSUME (Nat \ {0}) \ T # {} PROVE FALSE
  OBVIOUS
<1>1. PICK x \in (Nat \ {0}) \ T : \A y \in (Nat \ {0}) \ T : x <= y
  BY LeastNat
<1>2. x # 1 /\ x - 1 \in Nat \ {0}
  BY <1>1
<1>3. x - 1 \in T
  BY <1>1, <1>2
<1> QED BY <1>1, <1>2, <1>3

-----------------------------------------------------------------------------
(* FlattenSeq: its recursion defines a function, ...                       *)
Flattens(f, s, l) ==
    f = [i \in 1 .. l |-> IF i = 1 THEN s[i] ELSE f[i - 1] \o s[i]]

LEMMA FlattensAt ==
    ASSUME NEW f, NEW s, NEW l \in Nat, Flattens(f, s, l), NEW n \in Nat \ {0}, n + 1 <= l
    PROVE  f[n + 1] = f[n] \o s[n + 1]
<1>1. n + 1 \in 1 .. l /\ n + 1 # 1 /\ (n + 1) - 1 = n
  OBVIOUS
<1>2. f[n + 1] = IF n + 1 = 1 THEN s[n + 1] ELSE f[(n + 1) - 1] \o s[n + 1]
  BY <1>1, Zenon DEF Flattens
<1> QED BY <1>1, <1>2, Zenon

(* ... there is such a function, ... *)
LEMMA FlattenExists ==
    ASSUME NEW s, NEW l \in Nat \ {0}
    PROVE  \E f : Flattens(f, s, l)
<1> DEFINE T == {n \in Nat \ {0} : \E f : Flattens(f, s, n)}
<1>1. 1 \in T
  <2> DEFINE f == [i \in 1 .. 1 |-> s[i]]
  <2>1. Flattens(f, s, 1)
    BY DEF Flattens
  <2> QED BY <2>1
<1>2. ASSUME NEW n \in Nat \ {0}, n \in T PROVE n + 1 \in T
  <2>1. PICK f : Flattens(f, s, n)
    BY <1>2
  <2> DEFINE g == [i \in 1 .. n + 1 |-> IF i = n + 1 THEN f[n] \o s[n + 1] ELSE f[i]]
             h == [i \in 1 .. n + 1 |-> IF i = 1 THEN s[i] ELSE g[i - 1] \o s[i]]
  <2>2. ASSUME NEW i \in 1 .. n + 1 PROVE g[i] = h[i]
    <3>1. CASE i = n + 1
      <4>1. i # 1 /\ i - 1 = n /\ n \in 1 .. n + 1 /\ n # n + 1
        BY <3>1
      <4>2. g[n] = f[n] /\ g[i] = f[n] \o s[n + 1]
        BY <3>1, <4>1, Zenon
      <4>3. h[i] = g[i - 1] \o s[i]
        BY <4>1, Zenon
      <4> QED BY <3>1, <4>1, <4>2, <4>3, Zenon
    <3>2. CASE i # n + 1 /\ i = 1
      BY <2>1, <3>2 DEF Flattens
    <3>3. CASE i # n + 1 /\ i # 1
      <4>1. i \in 1 .. n /\ i - 1 \in 1 .. n /\ i - 1 # n + 1
        BY <3>3
      <4>2. f[i] = f[i - 1] \o s[i]
        BY <2>1, <3>3, <4>1, Zenon DEF Flattens
      <4>3. i - 1 \in 1 .. n + 1
        BY <4>1
      <4>4. g[i] = f[i] /\ g[i - 1] = f[i - 1]
        BY <3>3, <4>1, <4>3, Zenon
      <4>5. h[i] = g[i - 1] \o s[i]
        BY <3>3, Zenon
      <4> QED BY <4>2, <4>4, <4>5, Zenon
    <3> QED BY <3>1, <3>2, <3>3
  <2>3. g = h
    BY <2>2
  <2>4. Flattens(g, s, n + 1)
    BY <2>3 DEF Flattens
  <2> QED BY <2>4
<1> HIDE DEF T
<1>3. Nat \ {0} \subseteq T
  BY <1>1, <1>2, FromOneOn
<1> QED BY <1>3 DEF T

(* ... and FlattenSeq is its last value. *)
LEMMA FlattenIs ==
    ASSUME NEW S, NEW s \in Seq(Seq(S)), s # << >>
    PROVE  \E f : Flattens(f, s, Len(s)) /\ FlattenSeq(s) = f[Len(s)]
<1>1. Len(s) \in Nat \ {0}
  OBVIOUS
<1>2. Flattens(CHOOSE f : Flattens(f, s, Len(s)), s, Len(s))
  BY <1>1, FlattenExists
<1> QED BY <1>1, <1>2 DEF FlattenSeq, Flattens

(* ... and every element of the result is one of an element, each once.    *)
IsPlace(s, t, a, b, n) ==
    /\ \A p \in DOMAIN t :
          a[p] \in 1 .. n /\ b[p] \in DOMAIN s[a[p]] /\ t[p] = s[a[p]][b[p]]
    /\ \A p, q \in DOMAIN t : a[p] = a[q] /\ b[p] = b[q] => p = q

(* One more sequence is put behind. *)
LEMMA PlacedMore ==
    ASSUME NEW S, NEW s \in Seq(Seq(S)), NEW n \in Nat \ {0}, n + 1 <= Len(s),
           NEW t \in Seq(S), NEW a, NEW b, IsPlace(s, t, a, b, n)
    PROVE  \E a2, b2 : IsPlace(s, t \o s[n + 1], a2, b2, n + 1)
<1> DEFINE u == s[n + 1]
           v == t \o u
           a2 == [p \in DOMAIN v |-> IF p <= Len(t) THEN a[p] ELSE n + 1]
           b2 == [p \in DOMAIN v |-> IF p <= Len(t) THEN b[p] ELSE p - Len(t)]
<1>1. u \in Seq(S) /\ n + 1 \in DOMAIN s
  OBVIOUS
<1>2. /\ v \in Seq(S) /\ Len(v) = Len(t) + Len(u) /\ DOMAIN v = 1 .. Len(v)
      /\ Len(t) \in Nat /\ Len(u) \in Nat
      /\ DOMAIN t = 1 .. Len(t) /\ DOMAIN u = 1 .. Len(u)
  BY <1>1
<1>3. ASSUME NEW p \in DOMAIN v, p <= Len(t)
      PROVE  /\ a2[p] \in 1 .. n /\ a2[p] \in 1 .. n + 1 /\ b2[p] \in DOMAIN s[a2[p]]
             /\ v[p] = s[a2[p]][b2[p]] /\ p \in DOMAIN t /\ a2[p] = a[p] /\ b2[p] = b[p]
  <2>1. p \in DOMAIN t
    BY <1>2, <1>3
  <2>2. v[p] = t[p]
    BY <1>1, <2>1
  <2>3. a2[p] = a[p] /\ b2[p] = b[p]
    BY <1>3
  <2>4. a[p] \in 1 .. n /\ b[p] \in DOMAIN s[a[p]] /\ t[p] = s[a[p]][b[p]]
    BY <2>1 DEF IsPlace
  <2>5. a2[p] \in 1 .. n
    BY <2>3, <2>4, Zenon
  <2>6. a2[p] \in 1 .. n + 1
    BY <2>5
  <2> HIDE DEF a2, b2, v
  <2> QED BY <2>1, <2>2, <2>3, <2>4, <2>5, <2>6, Zenon
<1>4. ASSUME NEW p \in DOMAIN v, ~(p <= Len(t))
      PROVE  /\ a2[p] = n + 1 /\ b2[p] = p - Len(t) /\ b2[p] \in DOMAIN u /\ v[p] = u[b2[p]]
  <2>1. a2[p] = n + 1 /\ b2[p] = p - Len(t)
    BY <1>4
  <2>2. p - Len(t) \in 1 .. Len(u) /\ p \in 1 .. Len(t) + Len(u)
    BY <1>2, <1>4
  <2>3. v[p] = u[p - Len(t)]
    BY <1>1, <1>4, <2>2
  <2> HIDE DEF a2, b2, v, u
  <2> QED BY <2>1, <2>2, <2>3, <1>2
<1>5. ASSUME NEW p \in DOMAIN v, NEW q \in DOMAIN v, a2[p] = a2[q], b2[p] = b2[q] PROVE p = q
  <2>1. CASE p <= Len(t) /\ q <= Len(t)
    <3>1. a[p] = a[q] /\ b[p] = b[q] /\ p \in DOMAIN t /\ q \in DOMAIN t
      <4> HIDE DEF a2, b2, v
      <4> QED BY <1>3, <1>5, <2>1
    <3> QED BY <3>1, Zenon DEF IsPlace
  <2>2. CASE p <= Len(t) /\ ~(q <= Len(t))
    <3>1. a2[p] \in 1 .. n /\ a2[q] = n + 1
      <4> HIDE DEF a2, b2, v
      <4> QED BY <1>3, <1>4, <2>2
    <3> HIDE DEF a2, b2
    <3> QED BY <3>1, <1>5
  <2>3. CASE ~(p <= Len(t)) /\ q <= Len(t)
    <3>1. a2[q] \in 1 .. n /\ a2[p] = n + 1
      <4> HIDE DEF a2, b2, v
      <4> QED BY <1>3, <1>4, <2>3
    <3> HIDE DEF a2, b2
    <3> QED BY <3>1, <1>5
  <2>4. CASE ~(p <= Len(t)) /\ ~(q <= Len(t))
    <3>1. b2[p] = p - Len(t) /\ b2[q] = q - Len(t)
      <4> HIDE DEF a2, b2, v
      <4> QED BY <1>4, <2>4
    <3>2. p \in Nat /\ q \in Nat
      BY <1>2
    <3> HIDE DEF a2, b2, v
    <3> QED BY <3>1, <3>2, <1>5, <1>2
  <2> QED BY <2>1, <2>2, <2>3, <2>4, Zenon
<1> HIDE DEF a2, b2
<1>6. ASSUME NEW p \in DOMAIN v
      PROVE  a2[p] \in 1 .. n + 1 /\ b2[p] \in DOMAIN s[a2[p]] /\ v[p] = s[a2[p]][b2[p]]
  <2>1. CASE p <= Len(t)
    BY <2>1, <1>3, Zenon
  <2>2. CASE ~(p <= Len(t))
    <3>1. n + 1 \in 1 .. n + 1
      OBVIOUS
    <3> QED BY <2>2, <3>1, <1>4, Zenon
  <2> QED BY <2>1, <2>2, Zenon
<1>7. IsPlace(s, v, a2, b2, n + 1)
  BY <1>5, <1>6, Zenon DEF IsPlace
<1> QED BY <1>7, Zenon

(* FlattenSeq puts the elements of its sequences one behind the other. *)
LEMMA FlattenPlaces ==
    ASSUME NEW S, NEW s \in Seq(Seq(S))
    PROVE  /\ FlattenSeq(s) \in Seq(S)
           /\ \E a, b : IsPlace(s, FlattenSeq(s), a, b, Len(s))
<1>1. CASE s = << >>
  <2>1. FlattenSeq(s) = << >>
    BY <1>1 DEF FlattenSeq
  <2>2. IsPlace(s, << >>, << >>, << >>, Len(s))
    BY DEF IsPlace
  <2> QED BY <2>1, <2>2
<1>2. CASE s # << >>
  <2>1. PICK f : Flattens(f, s, Len(s)) /\ FlattenSeq(s) = f[Len(s)]
    BY <1>2, FlattenIs
  <2> DEFINE T == {n \in Nat \ {0} : n <= Len(s) =>
                       f[n] \in Seq(S) /\ \E a, b : IsPlace(s, f[n], a, b, n)}
  <2>0. Len(s) \in Nat \ {0} /\ \A n \in 1 .. Len(s) : s[n] \in Seq(S)
    BY <1>2
  <2>2. 1 \in T
    <3>1. f[1] = s[1] /\ s[1] \in Seq(S)
      BY <2>1, <2>0 DEF Flattens
    <3> DEFINE a == [p \in DOMAIN s[1] |-> 1]
               b == [p \in DOMAIN s[1] |-> p]
    <3>2. ASSUME NEW p \in DOMAIN f[1] PROVE a[p] = 1 /\ b[p] = p
      BY <3>1, <3>2
    <3>3. 1 \in 1 .. 1
      OBVIOUS
    <3> HIDE DEF a, b
    <3>4. IsPlace(s, f[1], a, b, 1)
      BY <3>1, <3>2, <3>3, Zenon DEF IsPlace
    <3> QED BY <3>1, <3>4
  <2>3. ASSUME NEW n \in Nat \ {0}, n \in T PROVE n + 1 \in T
    <3>1. ASSUME n + 1 <= Len(s)
          PROVE  f[n + 1] \in Seq(S) /\ \E a, b : IsPlace(s, f[n + 1], a, b, n + 1)
      <4>0. Len(s) \in Nat
        BY <2>0
      <4>1. f[n + 1] = f[n] \o s[n + 1]
        BY <2>1, <3>1, <4>0, FlattensAt, Zenon
      <4>2. f[n] \in Seq(S) /\ s[n + 1] \in Seq(S)
        BY <2>3, <3>1
      <4>3. PICK a, b : IsPlace(s, f[n], a, b, n)
        BY <2>3, <3>1, <4>0
      <4>4. \E a2, b2 : IsPlace(s, f[n] \o s[n + 1], a2, b2, n + 1)
        BY <3>1, <4>2, <4>3, PlacedMore, Zenon
      <4>5. f[n] \o s[n + 1] \in Seq(S)
        BY <4>2
      <4> QED BY <4>1, <4>4, <4>5, Zenon
    <3> QED BY <3>1
  <2> HIDE DEF T
  <2>4. Nat \ {0} \subseteq T
    BY <2>2, <2>3, FromOneOn
  <2>5. Len(s) \in T
    BY <1>2, <2>4
  <2> QED BY <2>0, <2>1, <2>5 DEF T
<1> QED BY <1>1, <1>2

-----------------------------------------------------------------------------
(* No element twice.                                                       *)
Single(seq) == \A p, q \in DOMAIN seq : seq[p] = seq[q] => p = q

(* Distinct repeats nothing. *)
LEMMA DistinctIs ==
    ASSUME NEW S, NEW seq \in Seq(S)
    PROVE  /\ Distinct(seq) \in Seq(S) /\ Single(Distinct(seq))
           /\ ToSet(Distinct(seq)) \subseteq ToSet(seq)
<1> DEFINE s == [n \in DOMAIN seq |->
                    IF \E m \in 1 .. n - 1 : seq[m] = seq[n] THEN << >> ELSE <<seq[n]>>]
           t == Distinct(seq)
<1>0. DOMAIN seq = 1 .. Len(seq) /\ Len(seq) \in Nat
  OBVIOUS
<1>1. s \in Seq(Seq(S)) /\ Len(s) = Len(seq)
  <2>1. ASSUME NEW n \in DOMAIN seq PROVE s[n] \in Seq(S)
    OBVIOUS
  <2>2. s \in [1 .. Len(seq) -> Seq(S)]
    BY <1>0, <2>1
  <2> HIDE DEF s
  <2> QED BY <1>0, <2>2
<1>2. t = FlattenSeq(s)
  BY Zenon DEF Distinct
<1>3. t \in Seq(S)
  <2> HIDE DEF s
  <2> QED BY <1>1, <1>2, FlattenPlaces
<1>4. PICK a, b : IsPlace(s, t, a, b, Len(s))
  <2> HIDE DEF s
  <2> QED BY <1>1, <1>2, FlattenPlaces
<1>5. ASSUME NEW p \in DOMAIN t
      PROVE  /\ a[p] \in DOMAIN seq /\ t[p] = seq[a[p]] /\ b[p] = 1
             /\ ~ \E m \in 1 .. a[p] - 1 : seq[m] = seq[a[p]]
  <2>1. a[p] \in DOMAIN seq /\ b[p] \in DOMAIN s[a[p]] /\ t[p] = s[a[p]][b[p]]
    <3> HIDE DEF s, t
    <3> QED BY <1>4, <1>1, <1>0 DEF IsPlace
  <2>2. CASE \E m \in 1 .. a[p] - 1 : seq[m] = seq[a[p]]
    <3>1. s[a[p]] = << >>
      BY <2>1, <2>2, Zenon
    <3> QED BY <2>1, <3>1
  <2>3. CASE ~ \E m \in 1 .. a[p] - 1 : seq[m] = seq[a[p]]
    <3>1. s[a[p]] = <<seq[a[p]]>>
      BY <2>1, <2>3, Zenon
    <3>2. b[p] = 1 /\ s[a[p]][1] = seq[a[p]]
      <4> HIDE DEF s, t
      <4> QED BY <2>1, <3>1
    <3> QED BY <2>1, <2>3, <3>2, Zenon
  <2> QED BY <2>2, <2>3
<1> HIDE DEF s, t
<1>6. ASSUME NEW p \in DOMAIN t, NEW q \in DOMAIN t, t[p] = t[q] PROVE p = q
  <2>1. a[p] \in 1 .. Len(seq) /\ a[q] \in 1 .. Len(seq) /\ seq[a[p]] = seq[a[q]]
    BY <1>0, <1>5, <1>6, Zenon
  <2>2. a[p] \notin 1 .. a[q] - 1 /\ a[q] \notin 1 .. a[p] - 1
    BY <2>1, <1>5, Zenon
  <2>3. a[p] = a[q]
    BY <1>0, <2>1, <2>2
  <2> QED BY <1>4, <1>5, <2>3, Zenon DEF IsPlace
<1>7. ToSet(t) \subseteq ToSet(seq)
  BY <1>5 DEF ToSet
<1> QED BY <1>3, <1>6, <1>7, Zenon DEF Single, t

(* SetToSeq, whose sequence the library chooses, has each element once. *)
LEMMA SetToSeqIs ==
    ASSUME NEW S, IsFiniteSet(S)
    PROVE  /\ SetToSeq(S) \in Seq(S) /\ Single(SetToSeq(S))
           /\ S # {} => SetToSeq(S) # << >>
<1>1. Cardinality(S) \in Nat /\ ExistsBijection(1 .. Cardinality(S), S)
  BY FS_CardinalityType
<1>2. PICK f \in Bijection(1 .. Cardinality(S), S) : TRUE
  BY <1>1 DEF ExistsBijection
<1>3. f \in [1 .. Cardinality(S) -> S] /\ IsInjective(f)
  BY <1>2 DEF Bijection, Injection
<1>4. SetToSeq(S) \in [1 .. Cardinality(S) -> S] /\ IsInjective(SetToSeq(S))
  BY <1>3, Zenon DEF SetToSeq
<1>5. SetToSeq(S) \in Seq(S) /\ DOMAIN SetToSeq(S) = 1 .. Cardinality(S)
  BY <1>1, <1>4
<1>6. Single(SetToSeq(S))
  BY <1>4, Zenon DEF IsInjective, Single
<1>7. ASSUME S # {} PROVE SetToSeq(S) # << >>
  <2>1. Cardinality(S) # 0
    BY <1>7, FS_EmptySet
  <2>2. 1 \in DOMAIN SetToSeq(S)
    BY <1>1, <1>5, <2>1
  <2> QED BY <2>2
<1> QED BY <1>5, <1>6, <1>7

(* The engine's messages: no order twice, and all of a saved one are of    *)
(* one instrument.                                                         *)
MsgOK ==
    /\ msg \in Seq([kind : {"saved", "cancelled"}, orders : Seq(Orders)])
    /\ Len(msg) <= MaxMsgs
    /\ \A m \in DOMAIN msg :
          /\ msg[m].orders # << >> /\ Single(msg[m].orders)
          /\ msg[m].kind = "saved" =>
                \A o \in ToSet(msg[m].orders) : InstOf[o] = InstOf[Taker(m)]

(* A round of the consumer of message m. *)
Rounds(m) ==
    {x \in [key : Keys, orders : SUBSET Orders] :
        /\ x.orders \subseteq ToSet(msg[m].orders)
        /\ x.orders # {} \/ Makers(m) # {} =>
              \A o \in ToSet(msg[m].orders) : InstOf[o] = x.key[1]
        /\ msg[m].kind = "cancelled" => x.orders = {}}

Apart(f, kind, todo) ==
    \A n1, n2 \in DOMAIN todo :
        n1 # n2 /\ todo[n1].key = todo[n2].key =>
            \/ f = "orders" /\ todo[n1].orders \cap todo[n2].orders = {}
            \/ kind = "cancelled"

LEMMA ElementOf ==
    ASSUME NEW S, NEW s \in Seq(S), NEW n \in DOMAIN s
    PROVE  s[n] \in S
  OBVIOUS

(* What a message is made of. *)
LEMMA MessageIs ==
    ASSUME MsgOK, NEW m \in DOMAIN msg
    PROVE  /\ msg[m].kind \in {"saved", "cancelled"} /\ msg[m].orders \in Seq(Orders)
           /\ m \in Msgs /\ m \in Nat /\ msg[m].orders # << >>
           /\ Taker(m) \in ToSet(msg[m].orders) /\ Taker(m) \in Orders
           /\ ToSet(msg[m].orders) \subseteq Orders
           /\ Makers(m) \subseteq ToSet(msg[m].orders)
           /\ Makers(m) # {} => msg[m].kind = "saved"
<1> DEFINE s == msg[m].orders
<1>1. msg[m] \in [kind : {"saved", "cancelled"}, orders : Seq(Orders)] /\ s # << >>
  <2>1. msg \in Seq([kind : {"saved", "cancelled"}, orders : Seq(Orders)])
    BY DEF MsgOK
  <2>2. s # << >>
    BY DEF MsgOK
  <2>3. msg[m] \in [kind : {"saved", "cancelled"}, orders : Seq(Orders)]
    BY <2>1, ElementOf, Zenon
  <2> QED BY <2>2, <2>3
<1>2. s \in Seq(Orders) /\ Len(s) \in DOMAIN s /\ Len(s) \in Nat /\ DOMAIN s = 1 .. Len(s)
  BY <1>1
<1>3. m \in 1 .. Len(msg) /\ Len(msg) \in Nat /\ Len(msg) <= MaxMsgs /\ MaxMsgs \in Nat
  BY ConstantsOK DEF MsgOK
<1>4. Taker(m) \in ToSet(s)
  BY <1>2 DEF Taker, Last, ToSet
<1>5. ToSet(s) \subseteq Orders
  BY <1>2 DEF ToSet
<1>6. ASSUME NEW o \in ToSet(Front(s)) PROVE o \in ToSet(s)
  <2>1. PICK n \in DOMAIN Front(s) : o = Front(s)[n]
    BY <1>6 DEF ToSet
  <2>2. n \in 1 .. Len(s) - 1 /\ Front(s)[n] = s[n]
    BY <1>2, <2>1 DEF Front
  <2>3. n \in DOMAIN s
    BY <1>2, <2>2
  <2> QED BY <2>1, <2>2, <2>3 DEF ToSet
<1> QED BY <1>1, <1>2, <1>3, <1>4, <1>5, <1>6 DEF Makers, Msgs

(* Owners names each user once. *)
LEMMA OwnersAre ==
    ASSUME NEW seq \in Seq(Orders)
    PROVE  Owners(seq) \in Seq(Users) /\ Single(Owners(seq))
<1> DEFINE s == [n \in DOMAIN seq |-> Owner[seq[n]]]
<1>1. s \in Seq(Users)
  BY ConstantsOK
<1>2. Owners(seq) = Distinct(s)
  BY Zenon DEF Owners, Each
<1> HIDE DEF s
<1> QED BY <1>1, <1>2, DistinctIs

LEMMA RoundIs ==
    ASSUME NEW m, NEW i \in Insts, NEW u \in Users \cup {Everyone}, NEW os \in SUBSET Orders,
           os \subseteq ToSet(msg[m].orders),
           os # {} \/ Makers(m) # {} => \A o \in ToSet(msg[m].orders) : InstOf[o] = i,
           msg[m].kind = "cancelled" => os = {}
    PROVE  For(i, u, os) \in Rounds(m) /\ For(i, u, os).key = <<i, u>> /\ For(i, u, os).orders = os
  BY DEF For, Rounds, Keys

(* A loop over the owners of some orders has each key once. *)
LEMMA RoundsOfOwners ==
    ASSUME NEW m, NEW i \in Insts, NEW us \in Seq(Users), Single(us), NEW os \in SUBSET Orders,
           os \subseteq ToSet(msg[m].orders),
           os # {} \/ Makers(m) # {} => \A o \in ToSet(msg[m].orders) : InstOf[o] = i,
           msg[m].kind = "cancelled" => os = {},
           NEW todo, todo = [n \in DOMAIN us |-> For(i, us[n], os)]
    PROVE  todo \in Seq(Rounds(m)) /\ Apart(feed, msg[m].kind, todo)
<1>1. ASSUME NEW n \in DOMAIN us PROVE todo[n] \in Rounds(m) /\ todo[n].key = <<i, us[n]>>
  <2>1. us[n] \in Users \cup {Everyone}
    OBVIOUS
  <2>2. todo[n] = For(i, us[n], os)
    OBVIOUS
  <2>3. For(i, us[n], os) \in Rounds(m) /\ For(i, us[n], os).key = <<i, us[n]>>
    <3> DEFINE u == us[n]
    <3>1. u \in Users \cup {Everyone}
      BY <2>1
    <3> HIDE DEF u
    <3>2. For(i, u, os) \in Rounds(m)
      BY <3>1, RoundIs
    <3>3. For(i, u, os).key = <<i, u>>
      BY DEF For
    <3> QED BY <3>2, <3>3 DEF u
  <2> QED BY <2>2, <2>3, Zenon
<1>2. DOMAIN todo = DOMAIN us /\ DOMAIN us = 1 .. Len(us) /\ Len(us) \in Nat
  OBVIOUS
<1>3. todo \in Seq(Rounds(m))
  <2>1. todo \in [1 .. Len(us) -> Rounds(m)]
    BY <1>1, <1>2
  <2> QED BY <1>2, <2>1
<1>4. ASSUME NEW n1 \in DOMAIN todo, NEW n2 \in DOMAIN todo, todo[n1].key = todo[n2].key
      PROVE  n1 = n2
  <2>1. us[n1] = us[n2]
    BY <1>1, <1>2, <1>4
  <2> QED BY <1>2, <2>1 DEF Single
<1> QED BY <1>3, <1>4, Zenon DEF Apart

(* The loops of HandleConsumeUserChange, ... *)
LEMMA TodoOfChange ==
    ASSUME MsgOK, NEW m \in DOMAIN msg, msg[m].kind = "saved"
    PROVE  LET todo == HandleConsumeUserChange(InstOf[Taker(m)], msg[m].orders)
           IN  todo \in Seq(Rounds(m)) /\ Apart(feed, msg[m].kind, todo)
<1> DEFINE us == Owners(msg[m].orders)
           i == InstOf[Taker(m)]
           os == ToSet(msg[m].orders)
<1>1. us \in Seq(Users) /\ Single(us)
  BY MessageIs, OwnersAre
<1>2. i \in Insts /\ os \in SUBSET Orders /\ \A o \in os : InstOf[o] = i
  BY MessageIs, ConstantsOK DEF MsgOK
<1>3. HandleConsumeUserChange(i, msg[m].orders) = [n \in DOMAIN us |-> For(i, us[n], os)]
  BY Zenon DEF HandleConsumeUserChange, Each
<1> HIDE DEF us, i
<1> QED BY <1>1, <1>2, <1>3, RoundsOfOwners DEF i

(* ... of the two that consume trades, ... *)
LEMMA TodoOfTrades ==
    ASSUME MsgOK, NEW m \in DOMAIN msg, Makers(m) # {}
    PROVE  /\ LET todo == HandleConsumeUserTrades(InstOf[Taker(m)], msg[m].orders)
              IN  todo \in Seq(Rounds(m)) /\ Apart(feed, msg[m].kind, todo)
           /\ LET todo == HandleConsumeInstrumentTrades(InstOf[Taker(m)])
              IN  todo \in Seq(Rounds(m)) /\ Apart(feed, msg[m].kind, todo)
<1> DEFINE s == msg[m].orders
           us == Owners(<<Last(s)>> \o Front(s))
           i == InstOf[Taker(m)]
           one == HandleConsumeInstrumentTrades(i)
<1>0. msg[m].kind = "saved" /\ s \in Seq(Orders) /\ s # << >>
  BY MessageIs
<1>1. us \in Seq(Users) /\ Single(us)
  <2>1. <<Last(s)>> \in Seq(Orders) /\ Front(s) \in Seq(Orders)
    BY <1>0 DEF Last, Front
  <2>2. <<Last(s)>> \o Front(s) \in Seq(Orders)
    BY <2>1
  <2> QED BY <2>2, OwnersAre
<1>2. i \in Insts /\ \A o \in ToSet(s) : InstOf[o] = i
  BY <1>0, MessageIs, ConstantsOK DEF MsgOK
<1>3. HandleConsumeUserTrades(i, s) = [n \in DOMAIN us |-> For(i, us[n], {})]
  BY Zenon DEF HandleConsumeUserTrades, Each
<1>4. one = <<For(i, Everyone, {})>>
  BY DEF HandleConsumeInstrumentTrades
<1>5. For(i, Everyone, {}) \in Rounds(m)
  BY <1>2, RoundIs
<1>6. one \in Seq(Rounds(m)) /\ Apart(feed, msg[m].kind, one)
  <2>1. one \in Seq(Rounds(m)) /\ \A n \in DOMAIN one : n = 1
    BY <1>4, <1>5
  <2> QED BY <2>1, Zenon DEF Apart
<1> HIDE DEF us, i, one
<1>7. LET todo == HandleConsumeUserTrades(i, s) IN todo \in Seq(Rounds(m)) /\ Apart(feed, msg[m].kind, todo)
  BY <1>1, <1>2, <1>3, RoundsOfOwners
<1> QED BY <1>6, <1>7 DEF i, one

(* ... of the one that consumes cancelled orders, ... *)
LEMMA TodoOfCancel ==
    ASSUME MsgOK, NEW m \in DOMAIN msg, msg[m].kind = "cancelled"
    PROVE  LET todo == HandleConsumeUserChangeCancel(msg[m].orders)
           IN  todo \in Seq(Rounds(m)) /\ Apart(feed, msg[m].kind, todo)
<1> DEFINE s == msg[m].orders
           todo == [n \in DOMAIN s |-> For(InstOf[s[n]], Owner[s[n]], {})]
<1>1. s \in Seq(Orders) /\ Makers(m) = {}
  BY MessageIs DEF Makers
<1>2. ASSUME NEW n \in DOMAIN s PROVE todo[n] \in Rounds(m)
  <2>1. InstOf[s[n]] \in Insts /\ Owner[s[n]] \in Users
    BY <1>1, ConstantsOK
  <2>2. For(InstOf[s[n]], Owner[s[n]], {}) \in Rounds(m)
    BY <1>1, <2>1, RoundIs
  <2> QED BY <2>2
<1>3. todo \in Seq(Rounds(m))
  <2>1. DOMAIN s = 1 .. Len(s) /\ Len(s) \in Nat
    BY <1>1
  <2>2. todo \in [1 .. Len(s) -> Rounds(m)]
    BY <1>2, <2>1
  <2> HIDE DEF todo
  <2> QED BY <2>1, <2>2
<1>4. Apart(feed, msg[m].kind, todo)
  BY DEF Apart
<1>5. todo = HandleConsumeUserChangeCancel(s)
  BY Zenon DEF HandleConsumeUserChangeCancel, Each
<1> HIDE DEF todo
<1> QED BY <1>3, <1>4, <1>5

(* ... of HandleConsumeTicker, ... *)
LEMMA TodoOfTicker ==
    ASSUME MsgOK, NEW m \in DOMAIN msg
    PROVE  LET todo == HandleConsumeTicker(msg[m].orders)
           IN  todo \in Seq(Rounds(m)) /\ Apart(feed, msg[m].kind, todo)
<1> DEFINE s == msg[m].orders
           all == [n \in DOMAIN s |-> InstOf[s[n]]]
           is == Distinct(all)
           todo == [n \in DOMAIN is |-> For(is[n], Everyone, {})]
<1>1. s \in Seq(Orders)
  BY MessageIs
<1>2. all \in Seq(Insts)
  BY <1>1, ConstantsOK
<1>3. is \in Seq(Insts) /\ Single(is) /\ ToSet(is) \subseteq ToSet(all)
  <2> HIDE DEF all
  <2> QED BY <1>2, DistinctIs
<1>4. ASSUME NEW n \in DOMAIN is PROVE todo[n] \in Rounds(m) /\ todo[n].key = <<is[n], Everyone>>
  <2>0. is[n] \in ToSet(all)
    <3> HIDE DEF is, all
    <3> QED BY <1>3, <1>4 DEF ToSet
  <2>1. PICK p \in DOMAIN s : is[n] = InstOf[s[p]]
    <3> HIDE DEF is
    <3> QED BY <2>0 DEF ToSet
  <2>2. s[p] \in ToSet(s)
    BY <2>1 DEF ToSet
  <2>3. Makers(m) # {} => \A o \in ToSet(s) : InstOf[o] = is[n]
    <3> HIDE DEF is
    <3> QED BY <2>1, <2>2, MessageIs DEF MsgOK
  <2>4. is[n] \in Insts
    <3> HIDE DEF is
    <3> QED BY <1>3, <1>4
  <2> HIDE DEF is
  <2>5. For(is[n], Everyone, {}) \in Rounds(m) /\ For(is[n], Everyone, {}).key = <<is[n], Everyone>>
    <3> DEFINE i == is[n]
    <3>1. i \in Insts /\ (Makers(m) # {} => \A o \in ToSet(s) : InstOf[o] = i)
      BY <2>3, <2>4
    <3> HIDE DEF i
    <3>2. For(i, Everyone, {}) \in Rounds(m)
      BY <3>1, RoundIs
    <3>3. For(i, Everyone, {}).key = <<i, Everyone>>
      BY DEF For
    <3> QED BY <3>2, <3>3 DEF i
  <2>6. todo[n] = For(is[n], Everyone, {})
    BY <1>4, Zenon
  <2> QED BY <2>5, <2>6, Zenon
<1>5. todo = HandleConsumeTicker(s)
  BY Zenon DEF HandleConsumeTicker, Each
<1> HIDE DEF is
<1>6. DOMAIN todo = DOMAIN is /\ DOMAIN is = 1 .. Len(is) /\ Len(is) \in Nat
  BY <1>3
<1>7. todo \in Seq(Rounds(m))
  <2>1. todo \in [1 .. Len(is) -> Rounds(m)]
    BY <1>4, <1>6
  <2> HIDE DEF todo
  <2> QED BY <1>6, <2>1
<1> HIDE DEF todo
<1>8. ASSUME NEW n1 \in DOMAIN todo, NEW n2 \in DOMAIN todo, todo[n1].key = todo[n2].key
      PROVE  n1 = n2
  <2>1. is[n1] = is[n2]
    BY <1>4, <1>6, <1>8
  <2> QED BY <1>3, <1>6, <2>1 DEF Single
<1>9. Apart(feed, msg[m].kind, todo)
  BY <1>8, Zenon DEF Apart
<1> QED BY <1>5, <1>7, <1>9

OrdersApart(t) == \A p, q \in DOMAIN t : p # q => t[p].orders \cap t[q].orders = {}

HasKey(x, i, u) == x.key = <<i, u>>

OwnRounds(i, u, s) ==
    FlattenSeq([n \in DOMAIN s |->
        IF Owner[s[n]] = u THEN <<For(i, u, {s[n]})>> ELSE << >>])

(* ... and of HandleConsumeUserOrder: the rounds of one user, ... *)
LEMMA RoundsOfOne ==
    ASSUME NEW m, NEW i \in Insts, NEW u \in Users, NEW s \in Seq(Orders), Single(s),
           s = msg[m].orders, \A o \in ToSet(s) : InstOf[o] = i, msg[m].kind = "saved",
           NEW t, t = OwnRounds(i, u, s)
    PROVE  /\ t \in Seq(Rounds(m)) /\ \A p \in DOMAIN t : HasKey(t[p], i, u)
           /\ OrdersApart(t)
<1> DEFINE z == [n \in DOMAIN s |-> IF Owner[s[n]] = u THEN <<For(i, u, {s[n]})>> ELSE << >>]
<1>0. DOMAIN s = 1 .. Len(s) /\ Len(s) \in Nat /\ DOMAIN z = 1 .. Len(s)
  OBVIOUS
<1>1. ASSUME NEW n \in DOMAIN s
      PROVE  For(i, u, {s[n]}) \in Rounds(m) /\ For(i, u, {s[n]}).key = <<i, u>>
             /\ For(i, u, {s[n]}).orders = {s[n]}
  <2>1. s[n] \in Orders /\ s[n] \in ToSet(s)
    BY DEF ToSet
  <2> DEFINE os == {s[n]}
  <2>2. os \in SUBSET Orders /\ os \subseteq ToSet(s) /\ u \in Users \cup {Everyone}
    BY <2>1
  <2> HIDE DEF os
  <2>3. os \subseteq ToSet(msg[m].orders) /\ \A o \in ToSet(msg[m].orders) : InstOf[o] = i
    BY <2>2
  <2>4. For(i, u, os) \in Rounds(m)
    BY <2>2, <2>3, RoundIs
  <2>5. For(i, u, os).key = <<i, u>> /\ For(i, u, os).orders = os
    BY DEF For
  <2> QED BY <2>4, <2>5 DEF os
<1>2. ASSUME NEW n \in DOMAIN s PROVE z[n] \in Seq(Rounds(m))
  <2>1. CASE Owner[s[n]] = u
    <3>1. z[n] = <<For(i, u, {s[n]})>>
      BY <2>1
    <3> DEFINE r == For(i, u, {s[n]})
    <3>2. r \in Rounds(m) /\ z[n] = <<r>>
      BY <1>1, <3>1
    <3> HIDE DEF r, z
    <3> QED BY <3>2
  <2>2. CASE Owner[s[n]] # u
    <3>1. z[n] = << >>
      BY <2>2
    <3> QED BY <3>1
  <2> QED BY <2>1, <2>2
<1>3. z \in Seq(Seq(Rounds(m))) /\ Len(z) = Len(s)
  <2>1. z \in [1 .. Len(s) -> Seq(Rounds(m))]
    BY <1>0, <1>2
  <2> HIDE DEF z
  <2> QED BY <1>0, <2>1
<1>4. t = FlattenSeq(z)
  BY Zenon DEF OwnRounds
<1>5. t \in Seq(Rounds(m))
  <2> HIDE DEF z
  <2> QED BY <1>3, <1>4, FlattenPlaces
<1>6. PICK a, b : IsPlace(z, t, a, b, Len(z))
  <2> HIDE DEF z
  <2> QED BY <1>3, <1>4, FlattenPlaces
<1>7. ASSUME NEW p \in DOMAIN t
      PROVE  /\ a[p] \in DOMAIN s /\ b[p] = 1 /\ t[p] = For(i, u, {s[a[p]]})
  <2>1. a[p] \in DOMAIN s /\ b[p] \in DOMAIN z[a[p]] /\ t[p] = z[a[p]][b[p]]
    <3> HIDE DEF z
    <3> QED BY <1>6, <1>3, <1>0 DEF IsPlace
  <2>2. CASE Owner[s[a[p]]] = u
    <3>1. z[a[p]] = <<For(i, u, {s[a[p]]})>>
      BY <2>1, <2>2, Zenon
    <3> HIDE DEF z
    <3> QED BY <2>1, <3>1
  <2>3. CASE Owner[s[a[p]]] # u
    <3>1. z[a[p]] = << >>
      BY <2>1, <2>3, Zenon
    <3> HIDE DEF z
    <3> QED BY <2>1, <3>1
  <2> QED BY <2>2, <2>3, Zenon
<1> HIDE DEF z
<1>8. ASSUME NEW p \in DOMAIN t PROVE t[p].key = <<i, u>> /\ t[p].orders = {s[a[p]]}
  <2>1. t[p] = For(i, u, {s[a[p]]})
    BY <1>7
  <2>2. a[p] \in DOMAIN s
    BY <1>7
  <2>3. For(i, u, {s[a[p]]}).key = <<i, u>> /\ For(i, u, {s[a[p]]}).orders = {s[a[p]]}
    BY <1>1, <2>2
  <2> QED BY <2>1, <2>3, Zenon
<1>9. ASSUME NEW p \in DOMAIN t, NEW q \in DOMAIN t, p # q
      PROVE  t[p].orders \cap t[q].orders = {}
  <2>1. a[p] # a[q]
    BY <1>6, <1>7, <1>9, Zenon DEF IsPlace
  <2>2. s[a[p]] # s[a[q]]
    BY <2>1, <1>7, Zenon DEF Single
  <2> QED BY <2>2, <1>8
<1> QED BY <1>5, <1>8, <1>9, Zenon DEF HasKey, OrdersApart

(* ... and those of all. *)
LEMMA TodoOfOrder ==
    ASSUME MsgOK, NEW m \in DOMAIN msg, msg[m].kind = "saved", feed = "orders"
    PROVE  LET todo == HandleConsumeUserOrder(InstOf[Taker(m)], msg[m].orders)
           IN  todo \in Seq(Rounds(m)) /\ Apart(feed, msg[m].kind, todo)
<1> DEFINE s == msg[m].orders
           i == InstOf[Taker(m)]
           us == Owners(s)
           z == [n \in DOMAIN us |-> OwnRounds(i, us[n], s)]
           t == FlattenSeq(z)
<1>1. s \in Seq(Orders) /\ Single(s)
  BY MessageIs DEF MsgOK
<1>2. i \in Insts /\ \A o \in ToSet(s) : InstOf[o] = i
  BY MessageIs, ConstantsOK DEF MsgOK
<1>3. us \in Seq(Users) /\ Single(us)
  BY <1>1, OwnersAre
<1> HIDE DEF us, i
<1>4. t = HandleConsumeUserOrder(i, s)
  <2>1. \A u : OwnRounds(i, u, s) = FlattenSeq(Each(s, LAMBDA o :
                    IF Owner[o] = u THEN <<For(i, u, {o})>> ELSE << >>))
    BY Zenon DEF Each, OwnRounds
  <2> QED BY <2>1, Zenon DEF Each, HandleConsumeUserOrder, us
<1>5. ASSUME NEW n \in DOMAIN us
      PROVE  /\ z[n] \in Seq(Rounds(m)) /\ \A p \in DOMAIN z[n] : z[n][p].key = <<i, us[n]>>
             /\ \A p, q \in DOMAIN z[n] : p # q => z[n][p].orders \cap z[n][q].orders = {}
  <2>1. us[n] \in Users
    BY <1>3
  <2>2. z[n] = OwnRounds(i, us[n], s)
    OBVIOUS
  <2> HIDE DEF z
  <2> DEFINE u == us[n]
             w == z[n]
  <2>3. u \in Users /\ w = OwnRounds(i, u, s)
    BY <2>1, <2>2
  <2> HIDE DEF u, w
  <2>4. /\ w \in Seq(Rounds(m)) /\ \A p \in DOMAIN w : w[p].key = <<i, u>>
        /\ \A p, q \in DOMAIN w : p # q => w[p].orders \cap w[q].orders = {}
    <3>1. s = msg[m].orders
      OBVIOUS
    <3> HIDE DEF s
    <3>2. i \in Insts /\ u \in Users /\ s \in Seq(Orders) /\ Single(s)
      BY <1>1, <1>2, <2>3
    <3>3. \A o \in ToSet(s) : InstOf[o] = i
      BY <1>2
    <3>4. w \in Seq(Rounds(m))
      BY <2>3, <3>1, <3>2, <3>3, RoundsOfOne
    <3>5. \A p \in DOMAIN w : HasKey(w[p], i, u)
      BY <2>3, <3>1, <3>2, <3>3, RoundsOfOne
    <3>6. OrdersApart(w)
      BY <2>3, <3>1, <3>2, <3>3, RoundsOfOne
    <3> QED BY <3>4, <3>5, <3>6 DEF HasKey, OrdersApart
  <2> QED BY <2>4 DEF u, w
<1>6. DOMAIN us = 1 .. Len(us) /\ Len(us) \in Nat
  BY <1>3
<1>7. z \in Seq(Seq(Rounds(m))) /\ Len(z) = Len(us)
  <2>1. z \in [1 .. Len(us) -> Seq(Rounds(m))]
    BY <1>5, <1>6
  <2> HIDE DEF z
  <2> QED BY <1>6, <2>1
<1>8. t \in Seq(Rounds(m))
  <2> HIDE DEF z
  <2> QED BY <1>7, FlattenPlaces
<1>9. PICK a, b : IsPlace(z, t, a, b, Len(z))
  <2> HIDE DEF z
  <2> QED BY <1>7, FlattenPlaces
<1> HIDE DEF z, t
<1>10. ASSUME NEW p \in DOMAIN t
       PROVE  a[p] \in DOMAIN us /\ b[p] \in DOMAIN z[a[p]] /\ t[p] = z[a[p]][b[p]]
              /\ t[p].key = <<i, us[a[p]]>>
  <2>1. a[p] \in DOMAIN us /\ b[p] \in DOMAIN z[a[p]] /\ t[p] = z[a[p]][b[p]]
    BY <1>6, <1>7, <1>9 DEF IsPlace
  <2> QED BY <1>5, <2>1
<1>11. ASSUME NEW p \in DOMAIN t, NEW q \in DOMAIN t, p # q, t[p].key = t[q].key
       PROVE  t[p].orders \cap t[q].orders = {}
  <2>1. us[a[p]] = us[a[q]]
    BY <1>10, <1>11
  <2>2. a[p] = a[q]
    BY <1>3, <1>10, <2>1, Zenon DEF Single
  <2>3. b[p] # b[q]
    BY <1>9, <1>11, <2>2, Zenon DEF IsPlace
  <2>4. t[p] = z[a[p]][b[p]] /\ t[q] = z[a[p]][b[q]] /\ a[p] \in DOMAIN us
    BY <1>10, <2>2, Zenon
  <2>5. b[p] \in DOMAIN z[a[p]] /\ b[q] \in DOMAIN z[a[p]]
    BY <1>10, <2>2, Zenon
  <2> QED BY <1>5, <2>3, <2>4, <2>5
<1>12. Apart(feed, msg[m].kind, t)
  BY <1>11, Zenon DEF Apart
<1> QED BY <1>4, <1>8, <1>12 DEF i

(* Whatever the feed, the loop of a message is over its own rounds, apart. *)
LEMMA TodoIs ==
    ASSUME MsgOK, NEW m \in DOMAIN msg, feed \in Feeds
    PROVE  Todo(m) \in Seq(Rounds(m)) /\ Apart(feed, msg[m].kind, Todo(m))
<1> DEFINE s == msg[m].orders
           i == InstOf[Taker(m)]
           t == Todo(m)
<1>0. feed \in {"changes", "orders", "trades", "market", "ticker"}
      /\ msg[m].kind \in {"saved", "cancelled"}
  BY ConstantsOK, MessageIs
<1>1. CASE feed = "changes" /\ msg[m].kind = "saved"
  <2>1. t = HandleConsumeUserChange(i, s)
    BY <1>1 DEF Todo
  <2> QED BY <1>1, <2>1, TodoOfChange
<1>2. CASE feed = "changes" /\ msg[m].kind = "cancelled"
  <2>1. t = HandleConsumeUserChangeCancel(s)
    BY <1>2 DEF Todo
  <2> QED BY <1>2, <2>1, TodoOfCancel
<1>3. CASE feed = "orders" /\ msg[m].kind = "saved"
  <2>1. t = HandleConsumeUserOrder(i, s)
    BY <1>3 DEF Todo
  <2> QED BY <1>3, <2>1, TodoOfOrder
<1>4. CASE feed = "trades" /\ Makers(m) # {}
  <2>1. t = HandleConsumeUserTrades(i, s)
    BY <1>4 DEF Todo
  <2> QED BY <1>4, <2>1, TodoOfTrades
<1>5. CASE feed = "market" /\ Makers(m) # {}
  <2>1. t = HandleConsumeInstrumentTrades(i)
    BY <1>5 DEF Todo
  <2> QED BY <1>5, <2>1, TodoOfTrades
<1>6. CASE feed = "ticker"
  <2>1. t = HandleConsumeTicker(s)
    BY <1>6 DEF Todo
  <2> QED BY <2>1, TodoOfTicker
<1>7. CASE \/ feed = "orders" /\ msg[m].kind = "cancelled"
           \/ feed \in {"trades", "market"} /\ Makers(m) = {}
  <2>1. t = << >>
    BY <1>7 DEF Todo
  <2> QED BY <2>1 DEF Apart
<1> QED BY <1>0, <1>1, <1>2, <1>3, <1>4, <1>5, <1>6, <1>7

-----------------------------------------------------------------------------
(* The last change of an order is no older than a message about it. *)
LEMMA LastChangeIs ==
    ASSUME MsgOK, NEW m \in DOMAIN msg, NEW o \in ToSet(msg[m].orders)
    PROVE  LastChange(o) \in Msgs /\ LastChange(o) >= m
<1> DEFINE T == {n \in DOMAIN msg : o \in ToSet(msg[n].orders)}
           U == {Len(msg) - n : n \in T}
<1>1. DOMAIN msg = 1 .. Len(msg) /\ Len(msg) \in Nat /\ Len(msg) <= MaxMsgs /\ MaxMsgs \in Nat
  BY ConstantsOK DEF MsgOK
<1>2. U \subseteq Nat /\ U # {}
  BY <1>1
<1>3. PICK y \in U : \A z \in U : y <= z
  <2> HIDE DEF U
  <2> QED BY <1>2, LeastNat
<1>4. PICK x \in T : y = Len(msg) - x
  BY <1>3
<1>5. ASSUME NEW n \in T PROVE x >= n
  <2>1. Len(msg) - n \in U
    BY <1>5
  <2>2. n \in Nat /\ x \in Nat
    BY <1>1
  <2>3. Len(msg) - x <= Len(msg) - n
    BY <1>3, <1>4, <2>1
  <2> QED BY <1>1, <2>2, <2>3
<1>6. \E z \in T : \A n \in T : z >= n
  BY <1>5
<1>7. LastChange(o) \in T /\ \A n \in T : LastChange(o) >= n
  BY <1>6, Zenon DEF LastChange, Max
<1> QED BY <1>1, <1>7 DEF Msgs

(* The loops of a message are its own: they stay what they are.            *)
TodoOK ==
    \A m \in DOMAIN msg : Todo(m) \in Seq(Rounds(m)) /\ Apart(feed, msg[m].kind, Todo(m))

LEMMA TodoAll == MsgOK /\ feed \in Feeds => TodoOK
<1> SUFFICES ASSUME MsgOK, feed \in Feeds PROVE TodoOK
  OBVIOUS
<1> QED BY TodoIs DEF TodoOK

(* The round of a ticker, feed by feed. *)
LEMMA AfterIs ==
    ASSUME feed \in Feeds
    PROVE  /\ feed = "changes" =>
                /\ ToSet(Round) = {"tick", "trades", "flush", "reset"}
                /\ After("tick") = "trades" /\ After("trades") = "flush"
                /\ After("flush") = "reset" /\ After("reset") = "tick"
           /\ feed = "ticker" =>
                /\ ToSet(Round) = {"tick", "reset", "query", "flush"}
                /\ After("tick") = "reset" /\ After("reset") = "query"
                /\ After("query") = "flush" /\ After("flush") = "tick"
           /\ feed \notin {"changes", "ticker"} =>
                /\ ToSet(Round) = {"tick", "flush", "reset"}
                /\ After("tick") = "flush" /\ After("flush") = "reset" /\ After("reset") = "tick"
<1>1. CASE feed = "changes"
  <2>1. Round = <<"tick", "trades", "flush", "reset">>
    BY <1>1 DEF Round
  <2>2. ToSet(Round) = {"tick", "trades", "flush", "reset"}
    BY <2>1 DEF ToSet
  <2>3. After("tick") = "trades" /\ After("trades") = "flush"
    BY <2>1 DEF After
  <2>4. After("flush") = "reset" /\ After("reset") = "tick"
    BY <2>1 DEF After
  <2> QED BY <1>1, <2>2, <2>3, <2>4
<1>2. CASE feed = "ticker"
  <2>1. Round = <<"tick", "reset", "query", "flush">>
    BY <1>2 DEF Round
  <2>2. ToSet(Round) = {"tick", "reset", "query", "flush"}
    BY <2>1 DEF ToSet
  <2>3. After("tick") = "reset" /\ After("reset") = "query"
    BY <2>1 DEF After
  <2>4. After("query") = "flush" /\ After("flush") = "tick"
    BY <2>1 DEF After
  <2> QED BY <1>2, <2>2, <2>3, <2>4
<1>3. CASE feed \notin {"changes", "ticker"}
  <2>1. Round = <<"tick", "flush", "reset">>
    BY <1>3 DEF Round
  <2>2. ToSet(Round) = {"tick", "flush", "reset"}
    BY <2>1 DEF ToSet
  <2>3. After("tick") = "flush" /\ After("flush") = "reset" /\ After("reset") = "tick"
    BY <2>1 DEF After
  <2> QED BY <1>3, <2>2, <2>3
<1> QED BY <1>1, <1>2, <1>3

-----------------------------------------------------------------------------
(* What is put into the feed of a key is of an order of a saved message,   *)
(* of the key's instrument, and the key is that of a party.                *)
Parties(ms, e) ==
    IF e[3] = 0 THEN {Owner[e[2]], Owner[Last(ms[e[1]].orders)]} ELSE {Owner[e[2]]}

Fits(ms, key, e) ==
    /\ key \in Keys /\ e \in Entries
    /\ e[1] \in DOMAIN ms /\ ms[e[1]].kind = "saved"
    /\ key[1] = InstOf[e[2]]
    /\ key[2] \in Parties(ms, e) \cup {Everyone}

RoundType == [key : Keys, orders : SUBSET Orders]

JobType == [place : Places, todo : Seq(RoundType),
            new : BOOLEAN, found : SUBSET Entries, main : SUBSET (Entries \cup Mark),
            trades : SUBSET Entries, seen : 0 .. MaxMsgs]

ConsumerOK(j) ==
    LET m == j[2]
        x == job[j]
    IN  /\ m \in DOMAIN msg
        /\ x.todo \in Seq(Rounds(m)) /\ x.todo # << >> /\ Apart(feed, msg[m].kind, x.todo)
        /\ x.place \in {"find", "read", "look", "store", "send"}
        /\ \A e \in x.found : e[1] = m /\ e[2] \in ToSet(msg[m].orders) /\ e[3] # 0
        /\ \A e \in x.main \cup x.trades : e[1] = m /\ Fits(msg, KeyOf(j), e)
        /\ x.place \in {"find", "read"} => x.main = {} /\ x.trades = {}
        /\ x.place # "store" => ~x.new
        /\ x.place = "store" /\ ~x.new => KeyOf(j) \in DOMAIN buffer
        /\ feed = "ticker" => x.main = {}
        /\ feed # "changes" => x.trades = {}
        /\ feed = "orders" => \A e \in x.main : e[2] \in Item(j).orders
        /\ feed = "changes" /\ x.main # {} => x.trades = TradesOf(m, KeyOf(j)[2])

TickerOK(j) ==
    LET x == job[j]
    IN  /\ x.todo = << >> /\ x.found = {} /\ ~x.new
        /\ x.place \in ToSet(Round)
        /\ x.place = "tick" => x.main = {} /\ x.trades = {}
        /\ x.place # "flush" => x.trades = {}
        /\ \A e \in x.main : <<j[2], e>> \in stored \/ (e \in Mark /\ feed = "ticker")
        /\ \A e \in x.trades : <<j[2], e>> \in stored /\ feed = "changes"
        /\ j[2] \in DOMAIN buffer

JobOK(j) ==
    /\ job[j] \in JobType
    /\ j \in Consumers => ConsumerOK(j)
    /\ j \in Tickers => TickerOK(j)

JobsOK == Live \subseteq Jobs /\ IsFiniteSet(Live) /\ \A j \in Live : JobOK(j)

MapsOK ==
    /\ DOMAIN buffer \subseteq Keys
    /\ \A k \in DOMAIN buffer : \A e \in buffer[k] :
          <<k, e>> \in stored \/ (e \in Mark /\ feed = "ticker")
    /\ userChangesTrades \in [Keys -> SUBSET Entries]
    /\ \A k \in Keys : \A e \in userChangesTrades[k] :
          <<k, e>> \in stored /\ feed = "changes"

LogsOK ==
    /\ stored \cup raw \subseteq Keys \X Entries
    /\ \A x \in stored \cup raw : Fits(msg, x[1], x[2])
    /\ feed = "ticker" => stored = {}
    /\ sent \subseteq stored /\ twice \subseteq sent /\ late \subseteq stored
    /\ shown \in [Insts -> 0 .. MaxMsgs] /\ failed \subseteq Msgs

FeedOK == feed \in Feeds /\ MsgOK /\ JobsOK /\ MapsOK /\ LogsOK

(* A consumer that is about to replace an entry drops nothing, and neither *)
(* does a ticker that has read one.                                        *)
StoreConsumer(j) ==
    job[j].place = "store" /\ job[j].new =>
        \A x \in stored : x[1] = KeyOf(j) => x \in late

StoreTicker(j) ==
    \A x \in stored \ (sent \cup late) : x[1] = j[2] =>
        /\ job[j].place = "trades" => x[2] \in job[j].main \cup userChangesTrades[j[2]]
        /\ job[j].place = "flush" => x[2] \in job[j].main \cup job[j].trades
        /\ job[j].place # "reset"

StoreOK ==
    /\ \A x \in stored : x[1] \in DOMAIN buffer
    /\ \A j \in Live \cap Consumers : StoreConsumer(j)
    /\ \A j \in Live \cap Tickers : StoreTicker(j)
    /\ StoredUntilSent

(* Once. *)
FreshItem(j, n) ==
    \A x \in stored : x[1] = job[j].todo[n].key /\ x[2][1] = j[2] =>
        feed = "orders" /\ x[2][2] \notin job[j].todo[n].orders

ReadOnce(k) ==
    /\ (\A j \in Live \cap Tickers : j[2] = k => job[j].place # "reset") =>
          \A e \in buffer[k] \cup userChangesTrades[k] : <<k, e>> \notin sent
    /\ \A j \in Live \cap Tickers : j[2] = k =>
          \A e \in job[j].main \cup job[j].trades : <<k, e>> \notin sent

ConsumerOnce(j) ==
    /\ \A n \in DOMAIN job[j].todo : FreshItem(j, n) \/ (n = 1 /\ job[j].place = "send")
    /\ job[j].place = "store" /\ job[j].new => <<"100ms", KeyOf(j), j[2]>> \notin Live

OnceOK ==
    /\ \A j \in Live \cap Consumers : ConsumerOnce(j)
    /\ \A k \in DOMAIN buffer : \E j \in Live \cap Tickers : j[2] = k
    /\ \A k \in DOMAIN buffer : Twins(k) \/ ReadOnce(k)
    /\ NoTwice

Along(k) ==
    /\ \A e \in buffer[k] : TradesOf(e[1], k[2]) \subseteq userChangesTrades[k]
    /\ \A j \in Live \cap Tickers : j[2] = k =>
          /\ job[j].place = "trades" =>
                \A e \in job[j].main : TradesOf(e[1], k[2]) \subseteq userChangesTrades[k]
          /\ job[j].place = "flush" =>
                \A e \in job[j].main : TradesOf(e[1], k[2]) \subseteq job[j].trades

AlongOK ==
    feed = "changes" => \A k \in DOMAIN buffer : Twins(k) \/ Along(k)

-----------------------------------------------------------------------------
(* A goroutine is of one kind. *)
LEMMA Kinds ==
    /\ \A j \in Consumers : /\ j \in Jobs /\ j[1] = "consumer" /\ j[2] \in Msgs
                            /\ j \notin Tickers /\ j \notin Aggs
    /\ \A j \in Aggs : j \in Jobs /\ j[1] = "agg2" /\ j \notin Tickers /\ j \notin Consumers
    /\ \A j \in Tickers : /\ j \in Jobs /\ j[1] = "100ms" /\ j[2] \in Keys /\ j[3] \in Msgs
                          /\ j \notin Consumers /\ j \notin Aggs
<1>1. \A j \in Consumers : j[1] = "consumer" /\ j[2] \in Msgs
  BY DEF Consumers
<1>2. \A j \in Aggs : j[1] = "agg2"
  BY DEF Aggs
<1>3. \A j \in Tickers : j[1] = "100ms" /\ j[2] \in Keys /\ j[3] \in Msgs
  BY DEF Tickers
<1>4. \A j \in Consumers \cup Aggs \cup Tickers : j \in Jobs
  BY DEF Jobs
<1> QED BY <1>1, <1>2, <1>3, <1>4

(* A message has one consumer. *)
LEMMA SameConsumer ==
    ASSUME NEW j \in Consumers, NEW k \in Consumers, j[2] = k[2]
    PROVE  j = k
BY DEF Consumers

(* Every step keeps the messages there are. *)
Grows ==
    /\ feed' = feed
    /\ \A m \in DOMAIN msg : m \in DOMAIN msg' /\ msg'[m] = msg[m]

(* What is said of a message stays true while messages are added. *)
LEMMA KeptMessages ==
    ASSUME Grows, NEW m \in DOMAIN msg
    PROVE  /\ m \in DOMAIN msg' /\ msg'[m] = msg[m]
           /\ Makers(m)' = Makers(m) /\ Taker(m)' = Taker(m) /\ Rounds(m)' = Rounds(m)
           /\ \A u : TradesOf(m, u)' = TradesOf(m, u)
           /\ \A k, e : e[1] = m /\ Fits(msg, k, e) => Fits(msg', k, e)
<1>1. m \in DOMAIN msg' /\ msg'[m] = msg[m] /\ feed' = feed
  BY DEF Grows
<1>2. Makers(m)' = Makers(m) /\ Taker(m)' = Taker(m)
  BY <1>1 DEF Makers, Taker
<1>3. Rounds(m)' = Rounds(m)
  BY <1>1, <1>2 DEF Rounds
<1>4. \A u : TradesOf(m, u)' = TradesOf(m, u)
  BY <1>2, Zenon DEF TradesOf, FindTradesByInstrument, FindTradesEachUser
<1>6. ASSUME NEW k, NEW e, e[1] = m, Fits(msg, k, e) PROVE Fits(msg', k, e)
  <2>1. Parties(msg', e) = Parties(msg, e)
    BY <1>1, <1>6, Zenon DEF Parties
  <2> QED BY <1>1, <1>6, <2>1 DEF Fits
<1> QED BY <1>1, <1>2, <1>3, <1>4, <1>6

(* A job that a step does not touch.                                       *)
Stays(k) == k \in Live /\ k \in Live' /\ job'[k] = job[k]

MapsGrow == DOMAIN buffer \subseteq DOMAIN buffer' /\ stored \subseteq stored'

(* A job that a step does not touch stays right. *)
LEMMA StaysOK ==
    ASSUME FeedOK, Grows, MapsGrow, NEW k, Stays(k)
    PROVE  JobOK(k)'
<1>1. JobOK(k) /\ job'[k] = job[k] /\ feed' = feed
  BY DEF FeedOK, JobsOK, Stays, Grows
<1>2. job'[k] \in JobType
  BY <1>1 DEF JobOK
<1>3. ASSUME k \in Consumers PROVE ConsumerOK(k)'
  <2> DEFINE m == k[2]
             x == job[k]
  <2>1. ConsumerOK(k) /\ m \in DOMAIN msg
    BY <1>1, <1>3 DEF JobOK, ConsumerOK
  <2>2. /\ m \in DOMAIN msg' /\ msg'[m] = msg[m] /\ Rounds(m)' = Rounds(m)
        /\ \A u : TradesOf(m, u)' = TradesOf(m, u)
        /\ \A k2, e : e[1] = m /\ Fits(msg, k2, e) => Fits(msg', k2, e)
    BY <2>1, KeptMessages
  <2>3. KeyOf(k)' = KeyOf(k) /\ Item(k)' = Item(k)
    BY <1>1 DEF KeyOf, Item
  <2>4. Apart(feed', msg'[m].kind, job'[k].todo)
    BY <1>1, <2>1, <2>2 DEF ConsumerOK
  <2>5. \A e \in x.main \cup x.trades : e[1] = m /\ Fits(msg', KeyOf(k), e)
    BY <2>1, <2>2 DEF ConsumerOK
  <2>6. KeyOf(k) \in DOMAIN buffer => KeyOf(k) \in DOMAIN buffer'
    BY DEF MapsGrow
  <2> QED BY <1>1, <2>1, <2>2, <2>3, <2>4, <2>5, <2>6 DEF ConsumerOK
<1>4. ASSUME k \in Tickers PROVE TickerOK(k)'
  <2>1. TickerOK(k)
    BY <1>1, <1>4 DEF JobOK
  <2>2. Round' = Round
    BY <1>1 DEF Round
  <2> QED BY <1>1, <2>1, <2>2 DEF TickerOK, MapsGrow
<1> QED BY <1>2, <1>3, <1>4 DEF JobOK

(* How the goroutines change.                                              *)
LEMMA BecomeIs ==
    ASSUME NEW j \in Live, NEW new, Become(j, new)
    PROVE  Live' = Live /\ job'[j] = new /\ \A k \in Live \ {j} : Stays(k)
BY DEF Become, Live, Stays

(* It ends. *)
LEMMA EndIs ==
    ASSUME NEW j \in Live, job' = [k \in Live \ {j} |-> job[k]]
    PROVE  Live' = Live \ {j} /\ \A k \in Live \ {j} : Stays(k)
<1>1. Live' = Live \ {j}
  BY DEF Live
<1>2. ASSUME NEW k \in Live \ {j} PROVE job'[k] = job[k]
  BY <1>2, Zenon
<1> QED BY <1>1, <1>2 DEF Stays

(* To the next round of the loop, or to its end.                           *)
LEMMA SeqSubset ==
    ASSUME NEW S, NEW T, S \subseteq T, NEW s \in Seq(S)
    PROVE  s \in Seq(T)
OBVIOUS

LEMMA AtIs ==
    ASSUME NEW p \in Places, NEW todo \in Seq(RoundType)
    PROVE  /\ At(p, todo) \in JobType
           /\ At(p, todo).place = p /\ At(p, todo).todo = todo /\ ~At(p, todo).new
           /\ At(p, todo).found = {} /\ At(p, todo).main = {} /\ At(p, todo).trades = {}
BY ConstantsOK DEF At, JobType

LEMMA FoundIs ==
    ASSUME NEW x \in JobType, NEW f \in SUBSET Entries, NEW y, y = [x EXCEPT !.found = f]
    PROVE  /\ y \in JobType /\ y.found = f
           /\ y.place = x.place /\ y.todo = x.todo /\ y.new = x.new
           /\ y.main = x.main /\ y.trades = x.trades
BY DEF JobType

LEMMA TailIs ==
    ASSUME NEW S, NEW s \in Seq(S), s # << >>
    PROVE  /\ Tail(s) \in Seq(S) /\ DOMAIN Tail(s) = 1 .. Len(s) - 1
           /\ Len(s) \in Nat /\ DOMAIN s = 1 .. Len(s) /\ 1 \in DOMAIN s /\ Head(s) = s[1]
           /\ \A n \in DOMAIN Tail(s) : n + 1 \in DOMAIN s /\ n + 1 # 1 /\ Tail(s)[n] = s[n + 1]
OBVIOUS

LEMMA NextRoundIs ==
    ASSUME FeedOK, Grows, NEW j \in Live \cap Consumers, NextRound(j)
    PROVE  /\ \A k \in Live \ {j} : Stays(k)
           /\ \/ Live' = Live \ {j}
              \/ /\ Live' = Live /\ job'[j] \in JobType
                 /\ job'[j].todo = Tail(job[j].todo) /\ Tail(job[j].todo) # << >>
                 /\ job'[j].place \in {"find", "read"} /\ ~job'[j].new
                 /\ job'[j].found = job[j].found
                 /\ job'[j].main = {} /\ job'[j].trades = {}
                 /\ ConsumerOK(j)'
<1> DEFINE todo == Tail(job[j].todo)
           again == IF msg[j[2]].kind = "cancelled" THEN First ELSE "read"
           new == [At(again, todo) EXCEPT !.found = job[j].found]
           m == j[2]
<1>1. JobOK(j) /\ ConsumerOK(j) /\ job[j] \in JobType /\ j \in Live
  BY DEF FeedOK, JobsOK, JobOK
<1>2. CASE todo = << >>
  <2>1. job' = [k \in Live \ {j} |-> job[k]]
    BY <1>2 DEF NextRound
  <2> QED BY <1>1, <2>1, EndIs
<1>3. CASE todo # << >>
  <2>1. Become(j, new)
    BY <1>3 DEF NextRound
  <2>2. Live' = Live /\ job'[j] = new /\ \A k \in Live \ {j} : Stays(k)
    BY <1>1, <2>1, BecomeIs
  <2>3. again \in {"find", "read"}
    BY DEF First
  <2>5. job[j].todo \in Seq(Rounds(m)) /\ job[j].todo # << >> /\ Apart(feed, msg[m].kind, job[j].todo)
        /\ m \in DOMAIN msg
    BY <1>1 DEF ConsumerOK
  <2>6. /\ todo \in Seq(Rounds(m)) /\ DOMAIN todo = 1 .. Len(job[j].todo) - 1
        /\ \A n \in DOMAIN todo : /\ n + 1 \in DOMAIN job[j].todo
                                  /\ todo[n] = job[j].todo[n + 1]
    BY <2>5, TailIs
  <2>7. Apart(feed, msg[m].kind, todo)
    <3>1. ASSUME NEW n1 \in DOMAIN todo, NEW n2 \in DOMAIN todo, n1 # n2
          PROVE  n1 + 1 # n2 + 1
      BY <2>5, TailIs, <3>1
    <3> HIDE DEF todo
    <3>2. ASSUME NEW n1 \in DOMAIN todo, NEW n2 \in DOMAIN todo,
                 n1 # n2 /\ todo[n1].key = todo[n2].key
          PROVE  \/ feed = "orders" /\ todo[n1].orders \cap todo[n2].orders = {}
                 \/ msg[m].kind = "cancelled"
      <4> DEFINE p1 == n1 + 1
                 p2 == n2 + 1
      <4>1. /\ p1 \in DOMAIN job[j].todo /\ p2 \in DOMAIN job[j].todo /\ p1 # p2
            /\ todo[n1] = job[j].todo[p1] /\ todo[n2] = job[j].todo[p2]
        BY <2>6, <3>1, <3>2
      <4> HIDE DEF p1, p2
      <4> QED BY <2>5, <3>2, <4>1, Zenon DEF Apart
    <3> QED BY <3>2, Zenon DEF Apart
  <2>8. Rounds(m)' = Rounds(m) /\ m \in DOMAIN msg' /\ msg'[m] = msg[m] /\ feed' = feed
        /\ Apart(feed', msg'[m].kind, todo)
    BY <2>5, <2>7, KeptMessages DEF Grows
  <2>9. /\ new \in JobType
        /\ new.place = again /\ new.todo = todo /\ ~new.new /\ new.found = job[j].found
        /\ new.main = {} /\ new.trades = {}
    <3>1. job[j].found \in SUBSET Entries
      BY <1>1 DEF JobType
    <3>2. again \in Places
      BY <2>3 DEF Places
    <3>3. todo \in Seq(RoundType)
      <4>1. Rounds(m) \subseteq RoundType
        BY DEF Rounds, RoundType
      <4> HIDE DEF todo
      <4> QED BY <2>6, <4>1, SeqSubset
    <3>4. new = [At(again, todo) EXCEPT !.found = job[j].found]
      OBVIOUS
    <3> HIDE DEF todo, again, new
    <3>5. /\ At(again, todo) \in JobType
          /\ At(again, todo).place = again /\ At(again, todo).todo = todo /\ ~At(again, todo).new
          /\ At(again, todo).main = {} /\ At(again, todo).trades = {}
      BY <3>2, <3>3, AtIs
    <3> QED BY <3>1, <3>4, <3>5, FoundIs
  <2>10. ConsumerOK(j)'
    <3> HIDE DEF todo, again, new
    <3>1. /\ job'[j].place \in {"find", "read"} /\ job'[j].todo = todo /\ ~job'[j].new
          /\ job'[j].found = job[j].found /\ job'[j].main = {} /\ job'[j].trades = {}
      BY <2>2, <2>3, <2>9
    <3>2. \A e \in job[j].found : e[1] = m /\ e[2] \in ToSet(msg[m].orders) /\ e[3] # 0
      BY <1>1 DEF ConsumerOK
    <3> QED BY <1>3, <2>6, <2>8, <3>1, <3>2 DEF ConsumerOK
  <2> HIDE DEF todo, again, new
  <2>11. /\ job'[j].place \in {"find", "read"} /\ job'[j].todo = todo /\ ~job'[j].new
         /\ job'[j].found = job[j].found /\ job'[j].main = {} /\ job'[j].trades = {}
    BY <2>2, <2>3, <2>9
  <2> QED BY <1>3, <2>2, <2>9, <2>10, <2>11 DEF todo
<1> QED BY <1>2, <1>3

-----------------------------------------------------------------------------
Quiet == UNCHANGED <<feed, msg, maps, stored, sent, twice, late>>

(* A step of a consumer, or the end of it, that stores nothing.            *)
ConsumerStep(j) ==
    /\ j \in Live \cap Consumers /\ Quiet
    /\ \A k \in Live \ {j} : Stays(k)
    /\ Live' \subseteq Live
    /\ j \in Live' =>
         /\ job'[j].place \in {"find", "read", "look"}
         /\ \/ job'[j].todo = job[j].todo /\ job[j].place # "send"
            \/ job'[j].todo = Tail(job[j].todo)

LEMMA QuietGrows ==
    ASSUME Quiet
    PROVE  Grows /\ MapsGrow /\ feed' = feed /\ msg' = msg /\ buffer' = buffer
           /\ userChangesTrades' = userChangesTrades /\ stored' = stored
           /\ sent' = sent /\ twice' = twice /\ late' = late
BY DEF Quiet, Grows, MapsGrow, maps

(* One goroutine goes on, ... *)
LEMMA OneJobOK ==
    ASSUME FeedOK, Grows, MapsGrow, NEW j \in Live, Live' = Live,
           \A k \in Live \ {j} : Stays(k), JobOK(j)'
    PROVE  JobsOK'
<1>1. ASSUME NEW k \in Live' PROVE JobOK(k)'
  BY <1>1, StaysOK
<1> QED BY <1>1 DEF JobsOK, FeedOK

(* ... or ends. *)
LEMMA NoJobOK ==
    ASSUME FeedOK, Grows, MapsGrow, NEW j \in Live, Live' = Live \ {j},
           \A k \in Live \ {j} : Stays(k)
    PROVE  JobsOK'
<1>1. ASSUME NEW k \in Live' PROVE JobOK(k)'
  BY <1>1, StaysOK
<1>2. IsFiniteSet(Live')
  BY FS_RemoveElement DEF FeedOK, JobsOK
<1> QED BY <1>1, <1>2 DEF JobsOK, FeedOK

(* What else is needed after a step that stores nothing. *)
LEMMA QuietOK ==
    ASSUME FeedOK, Quiet, JobsOK', shown' \in [Insts -> 0 .. MaxMsgs], failed' \subseteq Msgs,
           raw' \subseteq Keys \X Entries, \A x \in raw' : Fits(msg, x[1], x[2])
    PROVE  FeedOK'
<1>1. /\ feed' = feed /\ msg' = msg /\ buffer' = buffer
      /\ userChangesTrades' = userChangesTrades /\ stored' = stored
      /\ sent' = sent /\ twice' = twice /\ late' = late
  BY QuietGrows
<1>2. MsgOK'
  <2>1. MsgOK
    BY DEF FeedOK
  <2> QED BY <1>1, <2>1 DEF MsgOK, Taker
<1>3. MapsOK'
  BY <1>1 DEF FeedOK, MapsOK
<1>4. LogsOK'
  BY <1>1 DEF FeedOK, LogsOK
<1> QED BY <1>1, <1>2, <1>3, <1>4 DEF FeedOK

(* The round a consumer is in. *)
LEMMA ItemIs ==
    ASSUME FeedOK, NEW j \in Live \cap Consumers
    PROVE  /\ JobOK(j) /\ ConsumerOK(j) /\ job[j] \in JobType /\ j[2] \in DOMAIN msg /\ j[2] \in Msgs
           /\ Item(j) \in Rounds(j[2]) /\ Item(j).key \in Keys /\ Item(j) = job[j].todo[1]
           /\ KeyOf(j) = Item(j).key /\ 1 \in DOMAIN job[j].todo
<1>1. JobOK(j) /\ ConsumerOK(j) /\ job[j] \in JobType /\ j[2] \in DOMAIN msg
  BY DEF FeedOK, JobsOK, JobOK, ConsumerOK
<1>2. job[j].todo \in Seq(Rounds(j[2])) /\ job[j].todo # << >>
  BY <1>1 DEF ConsumerOK
<1>3. Item(j) = job[j].todo[1] /\ 1 \in DOMAIN job[j].todo
  BY <1>2, TailIs DEF Item
<1>4. Item(j) \in Rounds(j[2])
  BY <1>2, <1>3, ElementOf
<1>5. Item(j).key \in Keys
  BY <1>4 DEF Rounds
<1>6. KeyOf(j) = Item(j).key /\ j[2] \in Msgs
  BY Kinds DEF KeyOf
<1> QED BY <1>1, <1>3, <1>4, <1>5, <1>6

(* The trades it finds belong to the key. *)
LEMMA TradesFit ==
    ASSUME FeedOK, NEW m \in DOMAIN msg, NEW y \in Rounds(m), NEW e \in TradesOf(m, y.key[2])
    PROVE  e \in Entries /\ e[1] = m /\ Fits(msg, y.key, e)
<1>1. PICK o \in Makers(m) : /\ e = <<m, o, 0>>
                             /\ y.key[2] \in {Everyone, Owner[Taker(m)], Owner[o]}
  BY DEF TradesOf, FindTradesByInstrument, FindTradesEachUser
<1>2. MsgOK
  BY DEF FeedOK
<1>3. m \in Msgs /\ o \in Orders /\ msg[m].kind = "saved" /\ o \in ToSet(msg[m].orders)
  BY <1>2, MessageIs
<1>4. e \in Entries /\ e[1] = m /\ e[2] = o /\ e[3] = 0
  BY <1>1, <1>3, ConstantsOK DEF Entries
<1>5. y.key \in Keys /\ InstOf[o] = y.key[1]
  BY <1>1, <1>3 DEF Rounds
<1>6. y.key[2] \in Parties(msg, e) \cup {Everyone}
  BY <1>1, <1>4 DEF Parties, Taker
<1> QED BY <1>3, <1>4, <1>5, <1>6 DEF Fits

(* It ends, ... *)
LEMMA EndStep ==
    ASSUME FeedOK, Quiet, NEW j \in Live \cap Consumers, job' = [k \in Live \ {j} |-> job[k]]
    PROVE  JobsOK' /\ ConsumerStep(j)
<1>1. Live' = Live \ {j} /\ \A k \in Live \ {j} : Stays(k)
  BY EndIs
<1>2. JobsOK'
  BY <1>1, QuietGrows, NoJobOK
<1>3. ConsumerStep(j)
  BY <1>1 DEF ConsumerStep
<1> QED BY <1>2, <1>3

(* ... or begins another round. *)
LEMMA NextRoundStep ==
    ASSUME FeedOK, Quiet, NEW j \in Live \cap Consumers, NextRound(j)
    PROVE  JobsOK' /\ ConsumerStep(j)
<1>1. CASE Live' = Live \ {j} /\ \A k \in Live \ {j} : Stays(k)
  <2>1. JobsOK'
    BY <1>1, QuietGrows, NoJobOK
  <2>2. ConsumerStep(j)
    BY <1>1 DEF ConsumerStep
  <2> QED BY <2>1, <2>2
<1>2. CASE /\ Live' = Live /\ \A k \in Live \ {j} : Stays(k)
           /\ job'[j] \in JobType /\ job'[j].todo = Tail(job[j].todo)
           /\ job'[j].place \in {"find", "read"} /\ ConsumerOK(j)'
  <2>1. JobOK(j)'
    BY <1>2, Kinds DEF JobOK
  <2>2. JobsOK'
    BY <1>2, <2>1, QuietGrows, OneJobOK
  <2>3. ConsumerStep(j)
    BY <1>2 DEF ConsumerStep
  <2> QED BY <2>2, <2>3
<1> QED BY <1>1, <1>2, QuietGrows, NextRoundIs

(* The first query of the consumers of changed orders. *)
LEMMA FindStep ==
    ASSUME FeedOK, NEW j \in Live, Find(j)
    PROVE  FeedOK' /\ ConsumerStep(j)
<1> DEFINE m == j[2]
<1>1. j \in Live \cap Consumers /\ job[j].place = "find"
  BY DEF Find, Consumer
<1>2. /\ JobOK(j) /\ ConsumerOK(j) /\ job[j] \in JobType /\ m \in DOMAIN msg /\ m \in Msgs
  BY <1>1, ItemIs
<1>3. Quiet /\ raw' = raw /\ shown' = shown /\ failed' \subseteq Msgs
  <2>1. failed \subseteq Msgs
    BY DEF FeedOK, LogsOK
  <2>2. \/ UNCHANGED <<feed, msg, maps, ghosts>>
        \/ Fails(j)
    BY DEF Find
  <2>3. CASE UNCHANGED <<feed, msg, maps, ghosts>>
    BY <2>1, <2>3 DEF Quiet, ghosts
  <2>4. CASE Fails(j)
    BY <1>2, <2>1, <2>4 DEF Quiet, Fails
  <2> QED BY <2>2, <2>3, <2>4
<1>4. Grows /\ MapsGrow /\ feed' = feed /\ msg' = msg
  BY <1>3, QuietGrows
<1>5. JobsOK' => FeedOK'
  <2>1. raw \subseteq Keys \X Entries /\ (\A x \in raw : Fits(msg, x[1], x[2]))
        /\ shown \in [Insts -> 0 .. MaxMsgs]
    BY DEF FeedOK, LogsOK
  <2> QED BY <1>3, <2>1, QuietOK
<1>6. CASE Become(j, [job[j] EXCEPT !.place = "read", !.found = ChangeOrders(m)])
  <2> DEFINE new == [job[j] EXCEPT !.place = "read", !.found = ChangeOrders(m)]
  <2>1. Live' = Live /\ job'[j] = new /\ \A k \in Live \ {j} : Stays(k)
    BY <1>6, BecomeIs
  <2>2. ChangeOrders(m) \subseteq Entries
        /\ \A e \in ChangeOrders(m) : e[1] = m /\ e[2] \in ToSet(msg[m].orders) /\ e[3] # 0
    <3>1. MsgOK
      BY DEF FeedOK
    <3>2. ASSUME NEW o \in ToSet(msg[m].orders)
          PROVE  o \in Orders /\ LastChange(o) \in 0 .. MaxMsgs /\ LastChange(o) # 0
      BY <1>2, <3>1, <3>2, LastChangeIs, MessageIs, ConstantsOK DEF Msgs
    <3> QED BY <1>2, <3>2 DEF ChangeOrders, Entries
  <2>3. /\ new \in JobType /\ new.place = "read" /\ new.found = ChangeOrders(m)
        /\ new.todo = job[j].todo /\ new.new = job[j].new /\ new.main = job[j].main
        /\ new.trades = job[j].trades
    BY <1>2, <2>2 DEF JobType, Places
  <2> HIDE DEF new
  <2>4. Rounds(m)' = Rounds(m)
    BY <1>2, <1>4, KeptMessages
  <2>5. ConsumerOK(j)'
    BY <1>1, <1>2, <1>4, <2>1, <2>2, <2>3, <2>4 DEF ConsumerOK
  <2>6. JobOK(j)'
    BY <1>1, <2>1, <2>3, <2>5, Kinds DEF JobOK
  <2>7. JobsOK'
    BY <1>4, <2>1, <2>6, OneJobOK
  <2>8. ConsumerStep(j)
    BY <1>1, <1>3, <2>1, <2>3 DEF ConsumerStep
  <2> QED BY <1>5, <2>7, <2>8
<1>7. CASE job' = [k \in Live \ {j} |-> job[k]]
  BY <1>1, <1>3, <1>5, <1>7, EndStep
<1>8. CASE NextRound(j)
  BY <1>1, <1>3, <1>5, <1>8, NextRoundStep
<1> QED BY <1>6, <1>7, <1>8 DEF Find

(* What the log of failures adds.                                          *)
LEMMA FailsQuiet ==
    ASSUME FeedOK, NEW j \in Live \cap Consumers,
           Fails(j) \/ UNCHANGED <<feed, msg, maps, ghosts>>
    PROVE  Quiet /\ raw' = raw /\ (JobsOK' => FeedOK')
<1>1. j[2] \in Msgs
  BY Kinds
<1>2. failed \subseteq Msgs /\ raw \subseteq Keys \X Entries
      /\ (\A x \in raw : Fits(msg, x[1], x[2])) /\ shown \in [Insts -> 0 .. MaxMsgs]
  BY DEF FeedOK, LogsOK
<1>3. Quiet /\ raw' = raw /\ shown' = shown /\ failed' \subseteq Msgs
  <2>1. CASE UNCHANGED <<feed, msg, maps, ghosts>>
    BY <1>2, <2>1 DEF Quiet, ghosts
  <2>2. CASE Fails(j)
    BY <1>1, <1>2, <2>2 DEF Quiet, Fails
  <2> QED BY <2>1, <2>2
<1> QED BY <1>2, <1>3, QuietOK

(* A consumer reads its orders, trades or prices. *)
LEMMA ReadStep ==
    ASSUME FeedOK, NEW j \in Live, Read(j)
    PROVE  FeedOK' /\ ConsumerStep(j)
<1> DEFINE m == j[2]
           trades == TradesOf(m, Item(j).key[2])
           ready == [job[j] EXCEPT !.place = "look"]
           new == CASE feed \in {"changes", "orders"} ->
                            [ready EXCEPT !.main = OrdersOf(j),
                                !.trades = IF feed = "changes" THEN trades ELSE {}]
                    [] feed \in {"trades", "market"} -> [ready EXCEPT !.main = trades]
                    [] OTHER -> [ready EXCEPT !.seen = Len(msg)]
<1>1. j \in Live \cap Consumers /\ job[j].place = "read"
  BY DEF Read, Consumer
<1>2. /\ JobOK(j) /\ ConsumerOK(j) /\ job[j] \in JobType /\ m \in DOMAIN msg /\ m \in Msgs
      /\ Item(j) \in Rounds(m) /\ Item(j).key \in Keys /\ KeyOf(j) = Item(j).key
      /\ Item(j) = Head(job[j].todo)
  BY <1>1, ItemIs DEF Item
<1>3. CASE Become(j, new) /\ UNCHANGED <<feed, msg, maps, ghosts>>
  <2>1. Quiet /\ raw' = raw /\ (JobsOK' => FeedOK')
    BY <1>1, <1>3, FailsQuiet
  <2>2. Grows /\ MapsGrow /\ feed' = feed /\ msg' = msg /\ buffer' = buffer
    BY <2>1, QuietGrows
  <2>3. Live' = Live /\ job'[j] = new /\ \A k \in Live \ {j} : Stays(k)
    <3> HIDE DEF new
    <3> QED BY <1>3, BecomeIs
  <2>4. /\ ready \in JobType /\ ready.place = "look" /\ ready.found = job[j].found
        /\ ready.todo = job[j].todo /\ ready.new = job[j].new /\ ready.main = job[j].main
        /\ ready.trades = job[j].trades /\ ready.main = {} /\ ready.trades = {}
    BY <1>1, <1>2 DEF JobType, Places, ConsumerOK
  <2>5. ASSUME NEW e \in trades PROVE e \in Entries /\ e[1] = m /\ Fits(msg, KeyOf(j), e)
    BY <1>2, <2>5, TradesFit
  <2>6. ASSUME NEW e \in OrdersOf(j)
        PROVE  e \in Entries /\ e[1] = m /\ Fits(msg, KeyOf(j), e) /\ e[2] \in Item(j).orders
    <3>1. /\ e \in job[j].found /\ e[2] \in Item(j).orders /\ Owner[e[2]] = Item(j).key[2]
          /\ e \in Entries
      BY <1>2, <2>6 DEF OrdersOf, JobType
    <3>2. e[1] = m /\ e[2] \in ToSet(msg[m].orders) /\ e[3] # 0
      BY <1>2, <3>1 DEF ConsumerOK
    <3>3. InstOf[e[2]] = Item(j).key[1] /\ msg[m].kind # "cancelled"
      BY <1>2, <3>1, <3>2 DEF Rounds
    <3>4. msg[m].kind = "saved"
      BY <1>2, <3>3, MessageIs DEF FeedOK
    <3>5. Parties(msg, e) = {Owner[e[2]]}
      BY <3>2 DEF Parties
    <3> QED BY <1>2, <3>1, <3>2, <3>3, <3>4, <3>5 DEF Fits
  <2>7. Len(msg) \in 0 .. MaxMsgs
    BY ConstantsOK DEF FeedOK, MsgOK
  <2>8. /\ new \in JobType /\ new.place = "look" /\ new.found = job[j].found
        /\ new.todo = job[j].todo /\ new.new = job[j].new
        /\ feed \in {"changes", "orders"} => new.main = OrdersOf(j)
        /\ feed = "changes" => new.trades = trades
        /\ feed # "changes" => new.trades = {}
        /\ feed \in {"trades", "market"} => new.main = trades
        /\ feed \notin {"changes", "orders", "trades", "market"} => new.main = {}
    <3> HIDE DEF trades, ready
    <3>1. trades \in SUBSET Entries /\ OrdersOf(j) \in SUBSET Entries
      BY <2>5, <2>6
    <3>2. CASE feed \in {"changes", "orders"}
      <4> DEFINE ts == IF feed = "changes" THEN trades ELSE {}
      <4>1. new = [ready EXCEPT !.main = OrdersOf(j), !.trades = ts]
        BY <3>2
      <4>2. ts \in SUBSET Entries
        BY <3>1
      <4> HIDE DEF ts, new
      <4>3. /\ new \in JobType /\ new.place = "look" /\ new.found = job[j].found
            /\ new.todo = job[j].todo /\ new.new = job[j].new
            /\ new.main = OrdersOf(j) /\ new.trades = ts
        BY <2>4, <3>1, <4>1, <4>2 DEF JobType
      <4> QED BY <3>2, <4>3 DEF ts
    <3>3. CASE feed \in {"trades", "market"}
      <4>1. new = [ready EXCEPT !.main = trades]
        BY <3>3
      <4> HIDE DEF new
      <4>2. /\ new \in JobType /\ new.place = "look" /\ new.found = job[j].found
            /\ new.todo = job[j].todo /\ new.new = job[j].new
            /\ new.main = trades /\ new.trades = {}
        BY <2>4, <3>1, <4>1 DEF JobType
      <4> QED BY <3>3, <4>2
    <3>4. CASE feed \notin {"changes", "orders", "trades", "market"}
      <4>1. new = [ready EXCEPT !.seen = Len(msg)]
        BY <3>4
      <4> HIDE DEF new
      <4>2. /\ new \in JobType /\ new.place = "look" /\ new.found = job[j].found
            /\ new.todo = job[j].todo /\ new.new = job[j].new
            /\ new.main = {} /\ new.trades = {}
        BY <2>4, <2>7, <4>1 DEF JobType
      <4> QED BY <3>4, <4>2
    <3> QED BY <3>2, <3>3, <3>4
  <2> HIDE DEF new, trades, ready
  <2>9. Rounds(m)' = Rounds(m) /\ \A u : TradesOf(m, u)' = TradesOf(m, u)
    BY <1>2, <2>2, KeptMessages
  <2>10. KeyOf(j)' = KeyOf(j) /\ Item(j)' = Item(j)
    BY <2>3, <2>8 DEF KeyOf, Item
  <2>11. \A e \in new.main \cup new.trades : e[1] = m /\ Fits(msg, KeyOf(j), e)
    BY <2>5, <2>6, <2>8
  <2>12. feed \in {"changes", "orders"} => \A e \in new.main : e[2] \in Item(j).orders
    BY <2>6, <2>8
  <2>13. feed = "changes" => new.trades = TradesOf(m, KeyOf(j)[2])
    BY <1>2, <2>8 DEF trades
  <2>14. feed = "ticker" => new.main = {}
    BY <2>8
  <2>15. ~new.new
    BY <1>1, <1>2, <2>8 DEF ConsumerOK
  <2>16. ConsumerOK(j)'
    BY <1>2, <2>2, <2>3, <2>8, <2>9, <2>10, <2>11, <2>12, <2>13, <2>14, <2>15 DEF ConsumerOK
  <2>17. JobOK(j)'
    BY <1>1, <2>3, <2>8, <2>16, Kinds DEF JobOK
  <2>18. JobsOK'
    BY <2>2, <2>3, <2>17, OneJobOK
  <2>19. ConsumerStep(j)
    BY <1>1, <2>1, <2>3, <2>8 DEF ConsumerStep
  <2> QED BY <2>1, <2>18, <2>19
<1>4. CASE NextRound(j) /\ Fails(j)
  BY <1>1, <1>4, FailsQuiet, NextRoundStep
<1> QED BY <1>3, <1>4, Zenon DEF Read

(* A consumer broadcasts at once. *)
LEMMA BroadcastStep ==
    ASSUME FeedOK, NEW j \in Live, Broadcast(j)
    PROVE  FeedOK' /\ ConsumerStep(j)
<1>1. j \in Live \cap Consumers
  BY DEF Broadcast, Consumer
<1>2. Quiet /\ NextRound(j) /\ shown' = shown /\ failed' = failed
      /\ raw' = raw \cup {<<KeyOf(j), e>> : e \in job[j].main \cup job[j].trades}
  BY DEF Broadcast, Quiet
<1>3. JobsOK' /\ ConsumerStep(j)
  BY <1>1, <1>2, NextRoundStep
<1>4. ConsumerOK(j) /\ KeyOf(j) \in Keys
  BY <1>1, ItemIs
<1>5. ASSUME NEW x \in raw' PROVE x \in Keys \X Entries /\ Fits(msg, x[1], x[2])
  <2>1. CASE x \in raw
    BY <2>1 DEF FeedOK, LogsOK
  <2>2. CASE x \notin raw
    <3>1. PICK e \in job[j].main \cup job[j].trades : x = <<KeyOf(j), e>>
      BY <1>2, <1>5, <2>2
    <3>2. Fits(msg, KeyOf(j), e) /\ e \in Entries
      BY <1>4, <3>1 DEF ConsumerOK, Fits
    <3> QED BY <1>4, <3>1, <3>2
  <2> QED BY <2>1, <2>2
<1>6. shown \in [Insts -> 0 .. MaxMsgs] /\ failed \subseteq Msgs
  BY DEF FeedOK, LogsOK
<1> QED BY <1>2, <1>3, <1>5, <1>6, QuietOK

(* The aggregated ticker reads and ends. *)
LEMMA AggStep ==
    ASSUME FeedOK, NEW j \in Live, AggTicker(j)
    PROVE  FeedOK' /\ Quiet /\ j \in Aggs /\ Live' = Live \ {j} /\ \A k \in Live \ {j} : Stays(k)
<1>1. j \in Aggs /\ job' = [k \in Live \ {j} |-> job[k]] /\ UNCHANGED <<feed, msg, maps, ghosts>>
  BY DEF AggTicker
<1>2. Quiet /\ UNCHANGED <<raw, shown, failed>>
  BY <1>1 DEF Quiet, ghosts
<1>3. Live' = Live \ {j} /\ \A k \in Live \ {j} : Stays(k)
  BY <1>1, EndIs
<1>4. JobsOK'
  BY <1>2, <1>3, QuietGrows, NoJobOK
<1>5. /\ raw \subseteq Keys \X Entries /\ \A x \in raw : Fits(msg, x[1], x[2])
      /\ shown \in [Insts -> 0 .. MaxMsgs] /\ failed \subseteq Msgs
  BY DEF FeedOK, LogsOK
<1>6. FeedOK'
  BY <1>2, <1>4, <1>5, QuietOK
<1> QED BY <1>1, <1>2, <1>3, <1>6

(* A goroutine that has just been started. *)
LEMMA NewJob ==
    ASSUME NEW p \in Places
    PROVE  /\ At(p, << >>) \in JobType
           /\ At(p, << >>).place = p /\ At(p, << >>).todo = << >> /\ ~At(p, << >>).new
           /\ At(p, << >>).found = {} /\ At(p, << >>).main = {} /\ At(p, << >>).trades = {}
<1> DEFINE todo == << >>
<1>1. todo \in Seq(RoundType)
  OBVIOUS
<1> HIDE DEF todo
<1>2. /\ At(p, todo) \in JobType
      /\ At(p, todo).place = p /\ At(p, todo).todo = todo /\ ~At(p, todo).new
      /\ At(p, todo).found = {} /\ At(p, todo).main = {} /\ At(p, todo).trades = {}
  BY <1>1, AtIs
<1> QED BY <1>2 DEF todo

(* A consumer looks for the entry. *)
LEMMA LookStep ==
    ASSUME FeedOK, NEW j \in Live, Look(j)
    PROVE  /\ FeedOK' /\ j \in Live \cap Consumers /\ job[j].place = "look" /\ Quiet
           /\ \A k \in Live \ {j} : Stays(k)
           /\ Live \subseteq Live' /\ Live' \ Live \subseteq Aggs
           /\ job'[j].place = "store" /\ (job'[j].new <=> KeyOf(j) \notin DOMAIN buffer)
           /\ job'[j].todo = job[j].todo /\ KeyOf(j)' = KeyOf(j)
<1> DEFINE m == j[2]
           agg == <<"agg2", m, KeyOf(j)[1]>>
           aggs == IF feed = "ticker" THEN {agg} ELSE {}
           new == [job[j] EXCEPT !.place = "store", !.new = KeyOf(j) \notin DOMAIN buffer]
<1>1. /\ j \in Live \cap Consumers /\ job[j].place = "look"
      /\ job' = [k \in Live \cup aggs |->
                   IF k = j THEN new ELSE IF k \in Live THEN job[k] ELSE At("read", << >>)]
      /\ UNCHANGED <<feed, msg, maps, ghosts>>
  BY Zenon DEF Look, Consumer
<1>2. /\ JobOK(j) /\ ConsumerOK(j) /\ job[j] \in JobType /\ m \in DOMAIN msg /\ m \in Msgs
      /\ KeyOf(j) \in Keys
  BY <1>1, ItemIs
<1>3. Quiet /\ raw' = raw /\ (JobsOK' => FeedOK')
  BY <1>1, FailsQuiet
<1>4. Grows /\ MapsGrow /\ feed' = feed /\ msg' = msg /\ buffer' = buffer
  BY <1>3, QuietGrows
<1>5. agg \in Aggs
  BY <1>2 DEF Aggs, Keys
<1>6. aggs \subseteq Aggs /\ IsFiniteSet(aggs)
  <2>1. IsFiniteSet({agg}) /\ IsFiniteSet({})
    BY FS_Singleton, FS_EmptySet
  <2> QED BY <1>5, <2>1
<1> HIDE DEF aggs
<1>7. Live' = Live \cup aggs
  BY <1>1, Zenon DEF Live
<1>8. ASSUME NEW k \in Live \ {j} PROVE Stays(k)
  <2>1. job'[k] = job[k]
    BY <1>1, <1>8
  <2> QED BY <1>7, <2>1 DEF Stays
<1>9. job'[j] = new
  BY <1>1, Zenon
<1>10. /\ new \in JobType /\ new.place = "store" /\ new.found = job[j].found
       /\ new.todo = job[j].todo /\ (new.new <=> KeyOf(j) \notin DOMAIN buffer)
       /\ new.main = job[j].main /\ new.trades = job[j].trades
  BY <1>2 DEF JobType, Places
<1> HIDE DEF new
<1>11. KeyOf(j)' = KeyOf(j) /\ Item(j)' = Item(j)
  BY <1>9, <1>10 DEF KeyOf, Item
<1>12. Rounds(m)' = Rounds(m) /\ \A u : TradesOf(m, u)' = TradesOf(m, u)
  BY <1>2, <1>4, KeptMessages
<1>13. ConsumerOK(j)'
  BY <1>2, <1>4, <1>9, <1>10, <1>11, <1>12 DEF ConsumerOK
<1>14. JobOK(j)'
  BY <1>1, <1>9, <1>10, <1>13, Kinds DEF JobOK
<1>15. ASSUME NEW k \in aggs, k \notin Live PROVE JobOK(k)'
  <2>1. job'[k] = At("read", << >>)
    BY <1>1, <1>15
  <2>2. "read" \in Places
    BY DEF Places
  <2>3. job'[k] \in JobType
    BY <2>1, <2>2, NewJob
  <2> QED BY <1>6, <2>3, Kinds DEF JobOK
<1>16. JobsOK'
  <2>1. \A k \in Live' : JobOK(k)'
    BY <1>4, <1>7, <1>8, <1>14, <1>15, StaysOK
  <2>2. IsFiniteSet(Live')
    BY <1>6, <1>7, FS_Union DEF FeedOK, JobsOK
  <2>3. Live' \subseteq Jobs
    BY <1>6, <1>7, Kinds DEF FeedOK, JobsOK
  <2> QED BY <2>1, <2>2, <2>3 DEF JobsOK
<1> QED BY <1>1, <1>3, <1>6, <1>7, <1>8, <1>9, <1>10, <1>11, <1>16

-----------------------------------------------------------------------------
(* What a consumer puts into the maps.                                     *)
New(j) == job[j].main \cup job[j].trades

StoreStep(j) ==
    LET key == KeyOf(j)
        new == job[j].new
        t == <<"100ms", key, j[2]>>
        entries == {<<key, e>> : e \in New(j)}
    IN  /\ j \in Live \cap Consumers /\ job[j].place = "store"
        /\ key \in Keys /\ t \in Tickers
        /\ UNCHANGED <<feed, msg, sent, twice>>
        /\ \A k \in Live \ {j} : Stays(k)
        /\ Live' = Live \cup {x \in {t} : new}
        /\ job'[j].place = "send" /\ ~job'[j].new /\ job'[j].todo = job[j].todo
        /\ \A k \in Live' \ Live : job'[k] = At("tick", << >>)
        /\ DOMAIN buffer' = DOMAIN buffer \cup {key}
        /\ \A k \in DOMAIN buffer \ {key} : buffer'[k] = buffer[k]
        /\ buffer'[key] = IF key \in DOMAIN buffer
                          THEN Merged(buffer[key], Main(j), new) ELSE Main(j)
        /\ \A k \in Keys \ {key} : userChangesTrades'[k] = userChangesTrades[k]
        /\ userChangesTrades'[key] = TradesAfter(j, userChangesTrades[key])
        /\ stored' = stored \cup entries
        /\ late' = IF Clears(key)' THEN late \cup entries ELSE late

(* What Store does, conjunct by conjunct. *)
LEMMA StoreIs ==
    ASSUME FeedOK, NEW j \in Live, Store(j)
    PROVE  /\ StoreStep(j) /\ KeyOf(j)' = KeyOf(j) /\ Item(j)' = Item(j)
           /\ job'[j] = [job[j] EXCEPT !.place = "send", !.new = FALSE]
           /\ UNCHANGED <<raw, shown, failed>>
           /\ userChangesTrades' =
                [userChangesTrades EXCEPT ![KeyOf(j)] = TradesAfter(j, @)]
<1> DEFINE key == KeyOf(j)
           new == job[j].new
           t == <<"100ms", key, j[2]>>
           ts == {x \in {t} : new}
           entries == {<<key, e>> : e \in New(j)}
           next == [job[j] EXCEPT !.place = "send", !.new = FALSE]
<1>1. /\ j \in Live \cap Consumers /\ job[j].place = "store"
      /\ buffer' = [k \in DOMAIN buffer \cup {key} |->
                IF k # key THEN buffer[k]
                ELSE IF key \in DOMAIN buffer
                     THEN Merged(buffer[key], Main(j), new) ELSE Main(j)]
      /\ userChangesTrades' =
                [userChangesTrades EXCEPT ![key] = TradesAfter(j, @)]
      /\ stored' = stored \cup entries
      /\ job' = [k \in Live \cup ts |->
                IF k = j THEN next ELSE IF k \in Live THEN job[k] ELSE At("tick", << >>)]
      /\ late' = IF Clears(key)' THEN late \cup entries ELSE late
      /\ UNCHANGED <<feed, msg, raw, sent, twice, shown, failed>>
  BY Zenon DEF Store, Consumer, New
<1>2. job[j] \in JobType /\ key \in Keys /\ j[2] \in Msgs
  BY <1>1, ItemIs
<1>3. t \in Tickers
  BY <1>2 DEF Tickers
<1>4. userChangesTrades \in [Keys -> SUBSET Entries]
  BY DEF FeedOK, MapsOK
<1> HIDE DEF ts, key, new, entries
<1>5. Live' = Live \cup ts
  BY <1>1, Zenon DEF Live
<1>6. ASSUME NEW k \in Live \ {j} PROVE Stays(k)
  <2>1. job'[k] = job[k]
    BY <1>1, <1>6
  <2> QED BY <1>5, <2>1 DEF Stays
<1>7. job'[j] = next
  BY <1>1, Zenon
<1>8. /\ next.place = "send" /\ ~next.new /\ next.todo = job[j].todo
  BY <1>2 DEF JobType
<1>9. KeyOf(j)' = KeyOf(j) /\ Item(j)' = Item(j)
  <2> HIDE DEF next
  <2> QED BY <1>7, <1>8 DEF KeyOf, Item
<1>10. \A k \in Live' \ Live : job'[k] = At("tick", << >>)
  BY <1>1, <1>5
<1>11. /\ DOMAIN buffer' = DOMAIN buffer \cup {key}
       /\ \A k \in DOMAIN buffer \ {key} : buffer'[k] = buffer[k]
       /\ buffer'[key] = IF key \in DOMAIN buffer
                         THEN Merged(buffer[key], Main(j), new) ELSE Main(j)
  <2>1. key \in DOMAIN buffer \cup {key}
    OBVIOUS
  <2> QED BY <1>1, <2>1, Zenon
<1>12. /\ \A k \in Keys \ {key} : userChangesTrades'[k] = userChangesTrades[k]
       /\ userChangesTrades'[key] = TradesAfter(j, userChangesTrades[key])
  BY <1>1, <1>2, <1>4
<1>13. StoreStep(j)
  <2> HIDE DEF next
  <2> QED BY <1>1, <1>2, <1>3, <1>5, <1>6, <1>7, <1>8, <1>10, <1>11, <1>12
        DEF StoreStep, ts, key, new, entries
<1> QED BY <1>1, <1>7, <1>9, <1>13 DEF key

(* What a consumer stores is its own. *)
LEMMA NewIs ==
    ASSUME FeedOK, NEW j \in Live \cap Consumers, NEW e \in New(j)
    PROVE  /\ e \in Entries /\ e[1] = j[2] /\ Fits(msg, KeyOf(j), e) /\ KeyOf(j) \in Keys
           /\ feed # "ticker" /\ (e \in job[j].trades => feed = "changes")
           /\ msg[j[2]].kind = "saved" /\ e \in job[j].main \cup job[j].trades
<1>1. ConsumerOK(j) /\ KeyOf(j) \in Keys
  BY ItemIs
<1>2. e \in job[j].main \cup job[j].trades
  BY DEF New
<1>3. e[1] = j[2] /\ Fits(msg, KeyOf(j), e)
  BY <1>1, <1>2 DEF ConsumerOK
<1>4. feed # "ticker" /\ (e \in job[j].trades => feed = "changes")
  BY <1>1, <1>2 DEF ConsumerOK
<1> QED BY <1>1, <1>2, <1>3, <1>4 DEF Fits

(* A consumer stores. *)
LEMMA StoreOKs ==
    ASSUME FeedOK, NEW j \in Live, Store(j)
    PROVE  FeedOK'
<1> DEFINE key == KeyOf(j)
           m == j[2]
           t == <<"100ms", key, m>>
           entries == {<<key, e>> : e \in New(j)}
           new == [job[j] EXCEPT !.place = "send", !.new = FALSE]
<1>1. StoreStep(j) /\ KeyOf(j)' = key /\ Item(j)' = Item(j) /\ job'[j] = new
      /\ UNCHANGED <<raw, shown, failed>>
      /\ userChangesTrades' = [userChangesTrades EXCEPT ![key] = TradesAfter(j, @)]
  BY StoreIs
<1>2. j \in Live \cap Consumers /\ job[j].place = "store" /\ key \in Keys /\ t \in Tickers
  BY <1>1 DEF StoreStep
<1>3. /\ JobOK(j) /\ ConsumerOK(j) /\ job[j] \in JobType /\ m \in DOMAIN msg /\ m \in Msgs
  BY <1>2, ItemIs
<1>4. /\ feed' = feed /\ msg' = msg /\ sent' = sent /\ twice' = twice /\ raw' = raw
      /\ shown' = shown /\ failed' = failed
      /\ stored' = stored \cup entries
      /\ late' \subseteq late \cup entries /\ late \subseteq late'
      /\ DOMAIN buffer' = DOMAIN buffer \cup {key}
  BY <1>1 DEF StoreStep
<1>5. Grows /\ MapsGrow
  BY <1>4 DEF Grows, MapsGrow
<1>6. MsgOK'
  <2>1. MsgOK
    BY DEF FeedOK
  <2> QED BY <1>4, <2>1 DEF MsgOK, Taker
<1>7. ConsumerOK(j)'
  <2>1. /\ new.place = "send" /\ ~new.new /\ new.todo = job[j].todo
        /\ new.main = job[j].main /\ new.trades = job[j].trades /\ new.found = job[j].found
    BY <1>3 DEF JobType
  <2>2. Rounds(m)' = Rounds(m) /\ \A u : TradesOf(m, u)' = TradesOf(m, u)
    BY <1>3, <1>5, KeptMessages
  <2> HIDE DEF new
  <2> QED BY <1>1, <1>3, <1>4, <2>1, <2>2 DEF ConsumerOK
<1>8. JobOK(j)'
  <2>1. new \in JobType
    BY <1>3 DEF JobType, Places
  <2> HIDE DEF new
  <2> QED BY <1>1, <1>2, <1>7, <2>1, Kinds DEF JobOK
<1>9. ASSUME NEW k \in Live' \ Live PROVE JobOK(k)'
  <2>1. k = t /\ job'[k] = At("tick", << >>)
    BY <1>1, <1>9 DEF StoreStep
  <2>2. "tick" \in Places
    BY DEF Places
  <2>3. /\ job'[k] \in JobType /\ job'[k].place = "tick" /\ job'[k].todo = << >> /\ ~job'[k].new
        /\ job'[k].found = {} /\ job'[k].main = {} /\ job'[k].trades = {}
    BY <2>1, <2>2, NewJob
  <2>4. "tick" \in ToSet(Round)'
    <3>1. "tick" \in ToSet(Round)
      BY AfterIs DEF FeedOK
    <3>2. Round' = Round
      BY <1>4 DEF Round
    <3> QED BY <3>1, <3>2
  <2>5. k[2] = key /\ k[2] \in DOMAIN buffer'
    BY <1>4, <2>1
  <2>6. TickerOK(k)'
    BY <2>3, <2>4, <2>5 DEF TickerOK
  <2>7. k \in Tickers
    BY <1>2, <2>1
  <2> QED BY <2>3, <2>6, <2>7, Kinds DEF JobOK
<1>10. JobsOK'
  <2>1. \A k \in Live \ {j} : Stays(k)
    BY <1>1 DEF StoreStep
  <2>2. \A k \in Live' : JobOK(k)'
    BY <1>5, <1>8, <1>9, <2>1, StaysOK
  <2> DEFINE ts == {x \in {t} : job[j].new}
  <2>3. Live' = Live \cup ts
    BY <1>1 DEF StoreStep
  <2>4. ts \subseteq Tickers /\ IsFiniteSet(ts)
    <3>1. IsFiniteSet({t}) /\ IsFiniteSet({}) /\ (ts = {t} \/ ts = {})
      BY FS_Singleton, FS_EmptySet
    <3> QED BY <1>2, <3>1
  <2> HIDE DEF ts
  <2>5. IsFiniteSet(Live')
    BY <2>3, <2>4, FS_Union DEF FeedOK, JobsOK
  <2>6. Live' \subseteq Jobs
    BY <2>3, <2>4, Kinds DEF FeedOK, JobsOK
  <2> QED BY <2>2, <2>5, <2>6 DEF JobsOK
<1>11. ASSUME NEW e \in New(j)
       PROVE  /\ e \in Entries /\ <<key, e>> \in stored' /\ <<key, e>> \in Keys \X Entries
              /\ Fits(msg, key, e) /\ feed # "ticker"
  BY <1>2, <1>4, NewIs
<1>12. MapsOK'
  <2>0. MapsOK
    BY DEF FeedOK
  <2>1. ASSUME NEW k \in DOMAIN buffer', NEW e \in buffer'[k]
        PROVE  <<k, e>> \in stored' \/ (e \in Mark /\ feed' = "ticker")
    <3>1. CASE k # key
      BY <1>1, <1>4, <2>0, <2>1, <3>1 DEF StoreStep, MapsOK
    <3>2. CASE k = key
      <4>1. CASE key \in DOMAIN buffer /\ e \in buffer[key]
        BY <1>4, <2>0, <3>2, <4>1 DEF MapsOK
      <4>2. CASE ~(key \in DOMAIN buffer /\ e \in buffer[key])
        <5>1. e \in Main(j)
          BY <1>1, <2>1, <3>2, <4>2 DEF StoreStep, Merged
        <5>2. CASE feed = "ticker"
          BY <1>4, <5>1, <5>2 DEF Main
        <5>3. CASE feed # "ticker"
          BY <1>11, <3>2, <5>1, <5>3 DEF Main, New
        <5> QED BY <5>2, <5>3
      <4> QED BY <4>1, <4>2
    <3> QED BY <3>1, <3>2
  <2>2. ASSUME NEW k \in Keys, NEW e \in userChangesTrades'[k]
        PROVE  <<k, e>> \in stored' /\ feed' = "changes" /\ e \in Entries
    <3>1. CASE e \in userChangesTrades[k]
      BY <1>4, <2>0, <3>1 DEF MapsOK
    <3>2. CASE e \notin userChangesTrades[k]
      <4>1. k = key
        BY <1>1, <2>2, <3>2 DEF StoreStep
      <4>2. e \in job[j].trades
        BY <1>1, <2>2, <3>2, <4>1 DEF StoreStep, TradesAfter, Merged
      <4>3. e \in New(j)
        BY <4>2 DEF New
      <4> QED BY <1>2, <1>4, <1>11, <4>1, <4>2, <4>3, NewIs
    <3> QED BY <3>1, <3>2
  <2>3. DOMAIN buffer' \subseteq Keys
    BY <1>2, <1>4, <2>0 DEF MapsOK
  <2>4. userChangesTrades' \in [Keys -> SUBSET Entries]
    <3>1. DOMAIN userChangesTrades' = Keys
      BY <1>1, <2>0 DEF MapsOK
    <3>2. userChangesTrades' = [k \in Keys |-> userChangesTrades'[k]]
      <4>1. userChangesTrades = [k \in Keys |-> userChangesTrades[k]]
        BY <2>0 DEF MapsOK
      <4> QED BY <1>1, <4>1
    <3>3. \A k \in Keys : userChangesTrades'[k] \subseteq Entries
      BY <2>2
    <3> QED BY <3>2, <3>3
  <2> QED BY <2>1, <2>2, <2>3, <2>4 DEF MapsOK
<1>13. LogsOK'
  <2>0. LogsOK
    BY DEF FeedOK
  <2>1. ASSUME NEW x \in stored' \cup raw' PROVE x \in Keys \X Entries /\ Fits(msg', x[1], x[2])
    <3>1. CASE x \in stored \cup raw
      BY <1>4, <2>0, <3>1 DEF LogsOK
    <3>2. CASE x \notin stored \cup raw
      <4>1. PICK e \in New(j) : x = <<key, e>>
        BY <1>4, <2>1, <3>2
      <4> QED BY <1>4, <1>11, <4>1
    <3> QED BY <3>1, <3>2
  <2>2. feed' = "ticker" => stored' = {}
    BY <1>4, <1>11, <2>0 DEF LogsOK
  <2>3. sent' \subseteq stored' /\ twice' \subseteq sent' /\ late' \subseteq stored'
    BY <1>4, <2>0 DEF LogsOK
  <2> QED BY <1>4, <2>0, <2>1, <2>2, <2>3 DEF LogsOK
<1> QED BY <1>4, <1>6, <1>10, <1>12, <1>13 DEF FeedOK

-----------------------------------------------------------------------------
(* A step of a ticker that only reads. *)
TickerStep(j) ==
    /\ j \in Live \cap Tickers /\ j[2] \in Keys /\ j[2] \in DOMAIN buffer
    /\ Live' = Live /\ \A k \in Live \ {j} : Stays(k)

(* What is known of a ticker. *)
LEMMA TickerIs ==
    ASSUME FeedOK, NEW j \in Live \cap Tickers
    PROVE  /\ JobOK(j) /\ TickerOK(j) /\ job[j] \in JobType /\ j[2] \in Keys
           /\ j[2] \in DOMAIN buffer /\ feed \in Feeds
           /\ buffer[j[2]] \subseteq Entries \cup Mark
           /\ userChangesTrades[j[2]] \subseteq Entries
           /\ feed \in {"changes", "orders", "trades", "market", "ticker"}
<1>1. JobOK(j) /\ TickerOK(j) /\ job[j] \in JobType /\ j[2] \in DOMAIN buffer /\ j[2] \in Keys
  BY Kinds DEF FeedOK, JobsOK, JobOK, TickerOK
<1>2. ASSUME NEW e \in buffer[j[2]] PROVE e \in Entries \cup Mark
  <2>1. <<j[2], e>> \in stored \/ e \in Mark
    BY <1>1, <1>2 DEF FeedOK, MapsOK
  <2>2. <<j[2], e>> \in stored => e \in Entries
    BY DEF FeedOK, LogsOK
  <2> QED BY <2>1, <2>2
<1>3. userChangesTrades[j[2]] \subseteq Entries
  BY <1>1 DEF FeedOK, MapsOK
<1> QED BY <1>1, <1>2, <1>3, ConstantsOK DEF FeedOK

(* A ticker reads: it learns nothing that is not in the entry. *)
LEMMA ReadingOK ==
    ASSUME FeedOK, UNCHANGED <<feed, msg, maps, stored, raw, sent, twice, late, shown>>,
           failed' \subseteq Msgs, NEW j \in Live \cap Tickers,
           NEW new, Become(j, new), new \in JobType,
           new.todo = << >>, new.found = {}, ~new.new,
           new.place \in ToSet(Round), new.place # "tick", new.place # "flush" => new.trades = {},
           new.main \subseteq job[j].main \cup buffer[j[2]],
           new.trades \subseteq job[j].trades \cup userChangesTrades[j[2]]
    PROVE  FeedOK' /\ Quiet /\ TickerStep(j) /\ job'[j] = new
<1>1. Live' = Live /\ job'[j] = new /\ \A k \in Live \ {j} : Stays(k)
  BY BecomeIs
<1>2. Quiet /\ UNCHANGED <<raw, shown>>
  BY DEF Quiet
<1>3. /\ Grows /\ MapsGrow /\ feed' = feed /\ stored' = stored /\ buffer' = buffer
  BY <1>2, QuietGrows
<1>4. TickerOK(j) /\ j[2] \in DOMAIN buffer /\ j[2] \in Keys
  BY TickerIs
<1>5. ASSUME NEW e \in new.main PROVE <<j[2], e>> \in stored \/ (e \in Mark /\ feed = "ticker")
  BY <1>4, <1>5 DEF TickerOK, FeedOK, MapsOK
<1>6. ASSUME NEW e \in new.trades PROVE <<j[2], e>> \in stored /\ feed = "changes"
  BY <1>4, <1>6 DEF TickerOK, FeedOK, MapsOK
<1>7. Round' = Round
  BY <1>3 DEF Round
<1>8. TickerOK(j)'
  BY <1>1, <1>3, <1>4, <1>5, <1>6, <1>7 DEF TickerOK
<1>9. JobOK(j)'
  BY <1>1, <1>8, Kinds DEF JobOK
<1>10. JobsOK'
  BY <1>1, <1>3, <1>9, OneJobOK
<1>11. /\ raw \subseteq Keys \X Entries /\ \A x \in raw : Fits(msg, x[1], x[2])
       /\ shown \in [Insts -> 0 .. MaxMsgs]
  BY DEF FeedOK, LogsOK
<1>12. FeedOK'
  BY <1>2, <1>10, <1>11, QuietOK
<1> QED BY <1>1, <1>2, <1>4, <1>12 DEF TickerStep

(* A tick, ... *)
LEMMA TickStep ==
    ASSUME FeedOK, NEW j \in Live, Tick(j)
    PROVE  /\ FeedOK' /\ Quiet /\ TickerStep(j) /\ job[j].place = "tick"
           /\ job'[j].place = After("tick") /\ job'[j].place # "tick"
           /\ job'[j].main = buffer[j[2]] /\ job'[j].trades = {}
<1> DEFINE new == [job[j] EXCEPT !.place = After(@), !.main = buffer[j[2]]]
<1>1. /\ j \in Live \cap Tickers /\ job[j].place = "tick" /\ Become(j, new)
      /\ UNCHANGED <<feed, msg, maps, stored, raw, sent, twice, late, shown>>
      /\ failed' \subseteq Msgs
  BY DEF ghosts, FeedOK, LogsOK, Tick, Ticker
<1>2. TickerOK(j) /\ job[j] \in JobType /\ buffer[j[2]] \subseteq Entries \cup Mark /\ feed \in Feeds
  BY <1>1, TickerIs
<1>3. After("tick") \in ToSet(Round) /\ After("tick") \in Places /\ After("tick") # "tick"
  BY <1>2, AfterIs DEF Places
<1>4. /\ new \in JobType /\ new.place = After("tick") /\ new.main = buffer[j[2]]
      /\ new.todo = job[j].todo /\ new.found = job[j].found /\ new.new = job[j].new
      /\ new.trades = job[j].trades
  BY <1>1, <1>2, <1>3 DEF JobType
<1> HIDE DEF new
<1>5. job[j].todo = << >> /\ job[j].found = {} /\ ~job[j].new /\ job[j].trades = {}
  BY <1>1, <1>2 DEF TickerOK
<1>6. FeedOK' /\ Quiet /\ TickerStep(j) /\ job'[j] = new
  BY <1>1, <1>3, <1>4, <1>5, ReadingOK
<1> QED BY <1>1, <1>3, <1>4, <1>5, <1>6

(* ... the trades beside it, ... *)
LEMMA TickTradesStep ==
    ASSUME FeedOK, NEW j \in Live, TickTrades(j)
    PROVE  /\ FeedOK' /\ Quiet /\ TickerStep(j) /\ job[j].place = "trades" /\ feed = "changes"
           /\ job'[j].place = "flush"
           /\ job'[j].main = job[j].main /\ job'[j].trades = userChangesTrades[j[2]]
<1> DEFINE new == [job[j] EXCEPT !.place = After(@), !.trades = userChangesTrades[j[2]]]
<1>1. /\ j \in Live \cap Tickers /\ job[j].place = "trades" /\ Become(j, new)
      /\ UNCHANGED <<feed, msg, maps, stored, raw, sent, twice, late, shown>>
      /\ failed' \subseteq Msgs
  BY DEF ghosts, FeedOK, LogsOK, TickTrades, Ticker
<1>2. TickerOK(j) /\ job[j] \in JobType /\ userChangesTrades[j[2]] \subseteq Entries /\ feed \in Feeds
  BY <1>1, TickerIs
<1>3. feed = "changes" /\ After("trades") = "flush" /\ "flush" \in ToSet(Round) /\ "flush" \in Places
  BY <1>1, <1>2, AfterIs DEF Places, TickerOK
<1>4. /\ new \in JobType /\ new.place = "flush" /\ new.main = job[j].main
      /\ new.todo = job[j].todo /\ new.found = job[j].found /\ new.new = job[j].new
      /\ new.trades = userChangesTrades[j[2]]
  BY <1>1, <1>2, <1>3 DEF JobType
<1> HIDE DEF new
<1>5. job[j].todo = << >> /\ job[j].found = {} /\ ~job[j].new
  BY <1>1, <1>2 DEF TickerOK
<1>6. FeedOK' /\ Quiet /\ TickerStep(j) /\ job'[j] = new
  BY <1>1, <1>3, <1>4, <1>5, ReadingOK
<1> QED BY <1>1, <1>3, <1>4, <1>6

(* ... the query of a ticker, ... *)
LEMMA QueryStep ==
    ASSUME FeedOK, NEW j \in Live, Query(j)
    PROVE  /\ FeedOK' /\ Quiet /\ TickerStep(j) /\ job[j].place = "query" /\ feed = "ticker"
           /\ job'[j].place = "flush"
           /\ job'[j].main = job[j].main /\ job'[j].trades = job[j].trades
<1>0. PICK v \in {0, Len(msg)} :
        Become(j, [job[j] EXCEPT !.place = After(@), !.seen = v])
  BY DEF Query
<1> DEFINE new == [job[j] EXCEPT !.place = After(@), !.seen = v]
<1>1. /\ j \in Live \cap Tickers /\ job[j].place = "query" /\ Become(j, new)
      /\ UNCHANGED <<feed, msg, maps, stored, raw, sent, twice, late, shown>>
  BY <1>0 DEF Query, Ticker
<1>2. TickerOK(j) /\ job[j] \in JobType /\ feed \in Feeds
  BY <1>1, TickerIs
<1>3. feed = "ticker" /\ After("query") = "flush" /\ "flush" \in ToSet(Round) /\ "flush" \in Places
  BY <1>1, <1>2, AfterIs DEF Places, TickerOK
<1>4. v \in 0 .. MaxMsgs
  BY ConstantsOK DEF FeedOK, MsgOK
<1>5. /\ new \in JobType /\ new.place = "flush" /\ new.main = job[j].main
      /\ new.todo = job[j].todo /\ new.found = job[j].found /\ new.new = job[j].new
      /\ new.trades = job[j].trades
  BY <1>1, <1>2, <1>3, <1>4 DEF JobType
<1> HIDE DEF new
<1>6. job[j].todo = << >> /\ job[j].found = {} /\ ~job[j].new
  BY <1>1, <1>2 DEF TickerOK
<1>7. failed' \subseteq Msgs
  <2>1. DOMAIN msg \subseteq Msgs
    BY MessageIs DEF FeedOK
  <2>2. failed' = failed \/ failed' = failed \cup Concerned(j[2][1])
    BY DEF Query
  <2>3. Concerned(j[2][1]) \subseteq DOMAIN msg
    BY DEF Concerned
  <2>4. failed \subseteq Msgs
    BY DEF FeedOK, LogsOK
  <2> QED BY <2>1, <2>2, <2>3, <2>4
<1>8. FeedOK' /\ Quiet /\ TickerStep(j) /\ job'[j] = new
  BY <1>1, <1>3, <1>5, <1>6, <1>7, ReadingOK
<1> QED BY <1>1, <1>3, <1>5, <1>8

(* A ticker that begins again. *)
LEMMA ClearedOK ==
    ASSUME FeedOK, NEW j \in Live \cap Tickers, NEW p \in ToSet(Round) \cap Places,
           Become(j, At(p, << >>)), feed' = feed, msg' = msg, MapsGrow
    PROVE  /\ JobsOK' /\ TickerStep(j) /\ job'[j].place = p
           /\ job'[j].main = {} /\ job'[j].trades = {}
<1> DEFINE new == At(p, << >>)
<1>1. Live' = Live /\ job'[j] = new /\ \A k \in Live \ {j} : Stays(k)
  BY BecomeIs
<1>2. /\ new \in JobType /\ new.place = p /\ new.todo = << >> /\ ~new.new
      /\ new.found = {} /\ new.main = {} /\ new.trades = {}
  BY NewJob
<1>3. Grows /\ Round' = Round
  BY DEF Grows, Round
<1>4. TickerOK(j) /\ j[2] \in DOMAIN buffer /\ j[2] \in Keys
  BY TickerIs
<1>5. TickerOK(j)'
  BY <1>1, <1>2, <1>3, <1>4 DEF TickerOK, MapsGrow
<1>6. JobOK(j)'
  BY <1>1, <1>2, <1>5, Kinds DEF JobOK
<1>7. JobsOK'
  BY <1>1, <1>3, <1>6, OneJobOK
<1> QED BY <1>1, <1>2, <1>4, <1>7 DEF TickerStep

(* ... the broadcast, ... *)
LEMMA FlushStep ==
    ASSUME FeedOK, NEW j \in Live, Flush(j)
    PROVE  /\ FeedOK' /\ TickerStep(j) /\ job[j].place = "flush"
           /\ UNCHANGED <<feed, msg, buffer, userChangesTrades, stored, raw, late>>
           /\ sent' = sent \cup {<<j[2], e>> : e \in (job[j].main \cup job[j].trades) \ Mark}
           /\ twice' = twice \cup
                ({<<j[2], e>> : e \in (job[j].main \cup job[j].trades) \ Mark} \cap sent)
           /\ job'[j].place = After("flush") /\ job'[j].main = {} /\ job'[j].trades = {}
<1> DEFINE entries == {<<j[2], e>> : e \in (job[j].main \cup job[j].trades) \ Mark}
<1>1. /\ j \in Live \cap Tickers /\ job[j].place = "flush"
      /\ UNCHANGED <<feed, msg, buffer, userChangesTrades, stored, raw, late, failed>>
      /\ sent' = sent \cup entries /\ twice' = twice \cup (entries \cap sent)
      /\ shown' = IF feed = "ticker"
                  THEN [shown EXCEPT ![j[2][1]] = job[j].seen] ELSE shown
      /\ Become(j, At(After("flush"), << >>))
  BY DEF Flush, Ticker, maps
<1>2. TickerOK(j) /\ job[j] \in JobType /\ feed \in Feeds /\ j[2] \in Keys
  BY <1>1, TickerIs
<1>3. After("flush") \in ToSet(Round) \cap Places
  BY <1>1, <1>2, AfterIs DEF Places
<1>4. MapsGrow
  BY <1>1 DEF MapsGrow
<1>5. /\ JobsOK' /\ TickerStep(j) /\ job'[j].place = After("flush")
      /\ job'[j].main = {} /\ job'[j].trades = {}
  BY <1>1, <1>3, <1>4, ClearedOK
<1>6. MsgOK' /\ MapsOK'
  <2>1. MsgOK /\ MapsOK
    BY DEF FeedOK
  <2> QED BY <1>1, <2>1 DEF MsgOK, Taker, MapsOK
<1>7. entries \subseteq stored
  BY <1>2 DEF TickerOK
<1>8. shown' \in [Insts -> 0 .. MaxMsgs]
  <2>1. shown \in [Insts -> 0 .. MaxMsgs] /\ job[j].seen \in 0 .. MaxMsgs
    BY <1>2 DEF JobType, FeedOK, LogsOK
  <2> QED BY <1>1, <2>1
<1>9. LogsOK'
  <2>1. LogsOK
    BY DEF FeedOK
  <2> HIDE DEF entries
  <2> QED BY <1>1, <1>7, <1>8, <2>1 DEF LogsOK
<1>10. FeedOK'
  BY <1>1, <1>5, <1>6, <1>9 DEF FeedOK
<1> QED BY <1>1, <1>5, <1>10

(* ... and the clearing of the entry. *)
LEMMA ResetStep ==
    ASSUME FeedOK, NEW j \in Live, Reset(j)
    PROVE  /\ FeedOK' /\ TickerStep(j) /\ job[j].place = "reset"
           /\ UNCHANGED <<feed, msg, stored, raw, sent, twice, late>>
           /\ DOMAIN buffer' = DOMAIN buffer /\ buffer'[j[2]] = {} /\ userChangesTrades'[j[2]] = {}
           /\ \A k \in DOMAIN buffer \ {j[2]} : buffer'[k] = buffer[k]
           /\ \A k \in Keys \ {j[2]} : userChangesTrades'[k] = userChangesTrades[k]
           /\ job'[j].place = After("reset") /\ job'[j].main = {} /\ job'[j].trades = {}
<1>1. /\ j \in Live \cap Tickers /\ job[j].place = "reset"
      /\ UNCHANGED <<feed, msg, stored, raw, sent, twice, late, shown, failed>>
      /\ buffer' = [buffer EXCEPT ![j[2]] = {}]
      /\ userChangesTrades' = [userChangesTrades EXCEPT ![j[2]] = {}]
      /\ Become(j, At(After("reset"), << >>))
  BY DEF Reset, Ticker, ghosts
<1>2. TickerOK(j) /\ job[j] \in JobType /\ feed \in Feeds /\ j[2] \in Keys /\ j[2] \in DOMAIN buffer
  BY <1>1, TickerIs
<1>3. After("reset") \in ToSet(Round) \cap Places
  BY <1>1, <1>2, AfterIs DEF Places
<1>4. DOMAIN buffer' = DOMAIN buffer /\ buffer'[j[2]] = {}
      /\ \A k \in DOMAIN buffer \ {j[2]} : buffer'[k] = buffer[k]
  BY <1>1, <1>2
<1>5. MapsOK
  BY DEF FeedOK
<1>6. /\ userChangesTrades'[j[2]] = {} /\ userChangesTrades' \in [Keys -> SUBSET Entries]
      /\ \A k \in Keys \ {j[2]} : userChangesTrades'[k] = userChangesTrades[k]
  BY <1>1, <1>2, <1>5 DEF MapsOK
<1>7. MapsGrow
  BY <1>1, <1>4 DEF MapsGrow
<1>8. /\ JobsOK' /\ TickerStep(j) /\ job'[j].place = After("reset")
      /\ job'[j].main = {} /\ job'[j].trades = {}
  BY <1>1, <1>3, <1>7, ClearedOK
<1>9. MsgOK'
  <2>1. MsgOK
    BY DEF FeedOK
  <2> QED BY <1>1, <2>1 DEF MsgOK, Taker
<1>10. MapsOK'
  <2>1. ASSUME NEW k \in DOMAIN buffer', NEW e \in buffer'[k]
        PROVE  <<k, e>> \in stored' \/ (e \in Mark /\ feed' = "ticker")
    BY <1>1, <1>4, <1>5, <2>1 DEF MapsOK
  <2>2. ASSUME NEW k \in Keys, NEW e \in userChangesTrades'[k]
        PROVE  <<k, e>> \in stored' /\ feed' = "changes"
    BY <1>1, <1>5, <1>6, <2>2 DEF MapsOK
  <2> QED BY <1>4, <1>5, <1>6, <2>1, <2>2 DEF MapsOK
<1>11. LogsOK'
  <2>1. LogsOK
    BY DEF FeedOK
  <2> QED BY <1>1, <2>1 DEF LogsOK
<1>12. FeedOK'
  BY <1>1, <1>8, <1>9, <1>10, <1>11 DEF FeedOK
<1> QED BY <1>1, <1>4, <1>6, <1>8, <1>12

-----------------------------------------------------------------------------
(* The engine sends a message. *)
LEMMA TodoOfLast ==
    ASSUME TodoOK, NEW n \in DOMAIN msg, n = Len(msg)
    PROVE  Todo(Len(msg)) \in Seq(Rounds(n)) /\ Apart(feed, msg[n].kind, Todo(Len(msg)))
BY DEF TodoOK

LastOK ==
    \A n \in DOMAIN msg : n = Len(msg) =>
        Todo(Len(msg)) \in Seq(Rounds(n)) /\ Apart(feed, msg[n].kind, Todo(Len(msg)))

LEMMA LastNext == (MsgOK /\ feed \in Feeds => LastOK)'
<1>1. MsgOK /\ feed \in Feeds => LastOK
  BY TodoAll, TodoOfLast DEF LastOK
<1> QED BY <1>1, PTL

SendStep ==
    LET n == Len(msg) + 1
        c == <<"consumer", n>>
    IN  /\ FeedOK' /\ Grows /\ n \notin DOMAIN msg
        /\ UNCHANGED <<buffer, userChangesTrades, stored, raw, sent, twice, late>>
        /\ c \in Consumers /\ c \notin Live /\ Live \subseteq Live' /\ Live' \subseteq Live \cup {c}
        /\ \A k \in Live : Stays(k)
        /\ c \in Live' => job'[c].place \in {"find", "read"} /\ ~job'[c].new

LEMMA AppendIs ==
    ASSUME NEW S, NEW s \in Seq(S), NEW x \in S
    PROVE  Append(s, x) \in Seq(S)
OBVIOUS

(* The message is appended and its consumer started. *)
LEMMA SendIs ==
    ASSUME FeedOK, NEW kind \in {"saved", "cancelled"}, NEW orders \in Seq(Orders),
           orders # << >>, Single(orders),
           kind = "saved" => \A o \in ToSet(orders) : InstOf[o] = InstOf[Last(orders)],
           Send(kind, orders)
    PROVE  SendStep
<1>0. PICK n : n = Len(msg) + 1
  OBVIOUS
<1>00. PICK c : c = <<"consumer", n>>
  OBVIOUS
<1> DEFINE rec == [kind |-> kind, orders |-> orders]
           todo == Todo(Len(msg))'
           cs == {x \in {c} : todo # << >>}
<1>1. /\ Len(msg) < MaxMsgs /\ msg' = Append(msg, rec)
      /\ UNCHANGED <<feed, maps, ghosts>>
      /\ job' = [k \in Live \cup cs |-> IF k \in Live THEN job[k] ELSE At(First, todo)]
  BY <1>0, <1>00, Zenon DEF Send
<1>2. /\ feed' = feed /\ buffer' = buffer /\ userChangesTrades' = userChangesTrades
      /\ stored' = stored /\ raw' = raw /\ sent' = sent /\ twice' = twice /\ late' = late
      /\ shown' = shown /\ failed' = failed
  BY <1>1 DEF maps, ghosts
<1>3. MsgOK
  BY DEF FeedOK, MsgOK
<1>4. /\ Len(msg) \in Nat /\ DOMAIN msg = 1 .. Len(msg) /\ n \notin DOMAIN msg
      /\ n \in Msgs /\ DOMAIN msg' = 1 .. n /\ Len(msg') = n /\ n \in DOMAIN msg'
      /\ msg'[n] = rec /\ \A m \in DOMAIN msg : m \in DOMAIN msg' /\ msg'[m] = msg[m]
      /\ \A m \in DOMAIN msg' : m = n \/ m \in DOMAIN msg
  <2>1. msg \in Seq([kind : {"saved", "cancelled"}, orders : Seq(Orders)])
    BY <1>3 DEF MsgOK
  <2>2. Len(msg) \in Nat /\ DOMAIN msg = 1 .. Len(msg)
    BY <2>1
  <2>3. n \notin DOMAIN msg /\ n \in Msgs
    BY <1>0, <1>1, <2>2, ConstantsOK DEF Msgs
  <2> DEFINE r == rec
  <2>4. r \in [kind : {"saved", "cancelled"}, orders : Seq(Orders)] /\ msg' = Append(msg, r)
    BY <1>1
  <2> HIDE DEF r
  <2>5. /\ Len(msg') = n /\ DOMAIN msg' = 1 .. n
        /\ msg'[n] = r /\ \A m \in DOMAIN msg : msg'[m] = msg[m]
    BY <1>0, <2>1, <2>2, <2>4
  <2>6. n \in 1 .. n /\ (\A m \in 1 .. Len(msg) : m \in 1 .. n)
        /\ \A m \in 1 .. n : m = n \/ m \in 1 .. Len(msg)
    BY <1>0, <2>2
  <2> QED BY <2>2, <2>3, <2>5, <2>6 DEF r
<1>5. Grows
  BY <1>2, <1>4 DEF Grows
<1>6. MsgOK'
  <2>1. msg' \in Seq([kind : {"saved", "cancelled"}, orders : Seq(Orders)])
    <3>1. rec \in [kind : {"saved", "cancelled"}, orders : Seq(Orders)]
      OBVIOUS
    <3>2. msg \in Seq([kind : {"saved", "cancelled"}, orders : Seq(Orders)])
      BY <1>3 DEF MsgOK
    <3> HIDE DEF rec
    <3> QED BY <1>1, <3>1, <3>2, AppendIs
  <2>2. Len(msg') <= MaxMsgs
    BY <1>0, <1>1, <1>4, ConstantsOK
  <2>3. ASSUME NEW m \in DOMAIN msg'
        PROVE  /\ msg'[m].orders # << >> /\ Single(msg'[m].orders)
               /\ msg'[m].kind = "saved" =>
                     \A o \in ToSet(msg'[m].orders) : InstOf[o] = InstOf[Last(msg'[m].orders)]
    <3>1. CASE m = n
      BY <1>4, <3>1
    <3>2. CASE m \in DOMAIN msg
      BY <1>3, <1>4, <3>2 DEF MsgOK, Taker
    <3> QED BY <1>4, <3>1, <3>2
  <2> QED BY <2>1, <2>2, <2>3 DEF MsgOK, Taker
<1>7. feed \in Feeds /\ LastOK'
  BY <1>2, <1>6, LastNext DEF FeedOK
<1>8. todo \in Seq(Rounds(n)') /\ Apart(feed, kind, todo)
  <2>1. \A m \in DOMAIN msg' : m = Len(msg') =>
          todo \in Seq(Rounds(m)') /\ Apart(feed', msg'[m].kind, todo)
    BY <1>7 DEF LastOK
  <2> HIDE DEF todo
  <2> QED BY <1>2, <1>4, <2>1
<1>9. c \in Consumers
  BY <1>00, <1>4 DEF Consumers
<1>10. c \notin Live
  <2>1. c \in Live => ConsumerOK(c)
    BY <1>9 DEF FeedOK, JobsOK, JobOK
  <2>2. c[2] = n
    BY <1>00
  <2> QED BY <1>4, <2>1, <2>2 DEF ConsumerOK
<1> HIDE DEF todo, cs
<1>11. Live' = Live \cup cs /\ cs \subseteq {c} /\ (c \in cs => todo # << >>)
  <2>1. Live' = Live \cup cs
    BY <1>1, Zenon DEF Live
  <2> QED BY <2>1 DEF cs
<1>12. ASSUME NEW k \in Live PROVE Stays(k)
  <2>1. job'[k] = job[k]
    BY <1>1, <1>12
  <2> QED BY <1>11, <2>1 DEF Stays
<1>13. ASSUME c \in Live'
       PROVE  JobOK(c)' /\ job'[c].place \in {"find", "read"} /\ ~job'[c].new
  <2>1. job'[c] = At(First, todo) /\ todo # << >>
    BY <1>1, <1>10, <1>11, <1>13
  <2>2. First \in {"find", "read"}
    BY DEF First
  <2>3. Rounds(n)' \subseteq RoundType
    BY DEF Rounds, RoundType
  <2>4. todo \in Seq(RoundType)
    BY <1>8, <2>3, SeqSubset
  <2>5. First \in Places
    BY <2>2 DEF Places
  <2>6. /\ job'[c] \in JobType /\ job'[c].place = First /\ job'[c].todo = todo /\ ~job'[c].new
        /\ job'[c].found = {} /\ job'[c].main = {} /\ job'[c].trades = {}
    BY <2>1, <2>4, <2>5, AtIs
  <2>7. c[2] = n /\ msg'[n].kind = kind
    BY <1>00, <1>4
  <2>8. ConsumerOK(c)'
    BY <1>2, <1>4, <1>8, <2>1, <2>2, <2>6, <2>7 DEF ConsumerOK
  <2> QED BY <1>9, <2>2, <2>6, <2>8, Kinds DEF JobOK
<1>14. JobsOK'
  <2>1. MapsGrow
    BY <1>2 DEF MapsGrow
  <2>2. ASSUME NEW k \in Live' PROVE JobOK(k)'
    <3>1. CASE k \in Live
      BY <1>5, <1>12, <2>1, <3>1, StaysOK
    <3>2. CASE k \notin Live
      <4>1. k = c
        BY <1>11, <2>2, <3>2
      <4> QED BY <1>13, <2>2, <4>1
    <3> QED BY <3>1, <3>2
  <2>3. IsFiniteSet(Live')
    <3>1. IsFiniteSet(cs)
      <4>1. IsFiniteSet({c})
        BY FS_Singleton
      <4> QED BY <1>11, <4>1, FS_Subset
    <3> QED BY <1>11, <3>1, FS_Union DEF FeedOK, JobsOK
  <2>4. Live' \subseteq Jobs
    BY <1>9, <1>11, Kinds DEF FeedOK, JobsOK
  <2> QED BY <2>2, <2>3, <2>4 DEF JobsOK
<1>15. MapsOK'
  BY <1>2 DEF FeedOK, MapsOK
<1>16. LogsOK'
  <2>0. LogsOK
    BY DEF FeedOK
  <2>1. ASSUME NEW x \in stored \cup raw PROVE Fits(msg', x[1], x[2])
    <3>1. Fits(msg, x[1], x[2])
      BY <2>0, <2>1 DEF LogsOK
    <3>2. x[2][1] \in DOMAIN msg
      BY <3>1 DEF Fits
    <3> QED BY <1>5, <3>1, <3>2, KeptMessages
  <2> QED BY <1>2, <2>0, <2>1 DEF LogsOK
<1>17. FeedOK'
  BY <1>2, <1>6, <1>7, <1>14, <1>15, <1>16 DEF FeedOK
<1>18. /\ Live \subseteq Live' /\ Live' \subseteq Live \cup {c}
  BY <1>11
<1> QED BY <1>0, <1>00, <1>2, <1>4, <1>5, <1>9, <1>10, <1>12, <1>13, <1>17, <1>18 DEF SendStep

(* Save and CancelAll send a message without repetitions. *)
LEMMA SaveStep ==
    ASSUME FeedOK, NEW makers \in SUBSET Orders, NEW taker \in Orders, Save(makers, taker)
    PROVE  SendStep
<1> DEFINE s == SetToSeq(makers)
           orders == Append(s, taker)
<1>1. Send("saved", orders) /\ \A o \in makers : o # taker /\ InstOf[o] = InstOf[taker]
  BY DEF Save
<1>2. IsFiniteSet(makers)
  BY ConstantsOK, FS_Subset
<1>3. s \in Seq(makers) /\ Single(s)
  BY <1>2, SetToSeqIs
<1> HIDE DEF s
<1>4. /\ Len(s) \in Nat /\ DOMAIN s = 1 .. Len(s) /\ \A p \in DOMAIN s : s[p] \in makers
      /\ orders \in Seq(Orders) /\ DOMAIN orders = 1 .. Len(s) + 1 /\ Len(orders) = Len(s) + 1
      /\ orders[Len(s) + 1] = taker /\ \A p \in DOMAIN s : orders[p] = s[p]
      /\ \A p \in DOMAIN orders : p = Len(s) + 1 \/ p \in DOMAIN s
  <2>1. s \in Seq(Orders)
    BY <1>3, SeqSubset
  <2> QED BY <1>3, <2>1
<1>5. orders # << >>
  BY <1>4
<1> HIDE DEF orders
<1>6. Single(orders)
  <2>1. ASSUME NEW p \in DOMAIN orders, NEW q \in DOMAIN orders, orders[p] = orders[q]
        PROVE  p = q
    <3>1. CASE p \in DOMAIN s /\ q \in DOMAIN s
      BY <1>3, <1>4, <2>1, <3>1 DEF Single
    <3>2. CASE p \in DOMAIN s /\ q = Len(s) + 1
      BY <1>1, <1>4, <2>1, <3>2
    <3>3. CASE q \in DOMAIN s /\ p = Len(s) + 1
      BY <1>1, <1>4, <2>1, <3>3
    <3> QED BY <1>4, <3>1, <3>2, <3>3
  <2> QED BY <2>1 DEF Single
<1>7. Last(orders) = taker
  BY <1>4 DEF Last
<1>8. ASSUME NEW o \in ToSet(orders) PROVE InstOf[o] = InstOf[Last(orders)]
  <2>1. PICK p \in DOMAIN orders : o = orders[p]
    BY <1>8 DEF ToSet
  <2> QED BY <1>1, <1>4, <1>7, <2>1
<1> QED BY <1>1, <1>4, <1>5, <1>6, <1>8, SendIs

LEMMA CancelStep ==
    ASSUME FeedOK, NEW orders \in SUBSET Orders, CancelAll(orders)
    PROVE  SendStep
<1> DEFINE s == SetToSeq(orders)
<1>1. Send("cancelled", s) /\ orders # {}
  BY DEF CancelAll
<1>2. IsFiniteSet(orders)
  BY ConstantsOK, FS_Subset
<1>3. s \in Seq(orders) /\ Single(s) /\ s # << >>
  BY <1>1, <1>2, SetToSeqIs
<1> HIDE DEF s
<1>4. s \in Seq(Orders)
  BY <1>3, SeqSubset
<1> QED BY <1>1, <1>3, <1>4, SendIs

-----------------------------------------------------------------------------
(* The invariant of what is where: it holds at first, ... *)
LEMMA InitOK == Init => FeedOK
<1> SUFFICES ASSUME Init PROVE FeedOK
  OBVIOUS
<1>1. feed \in Feeds /\ msg = << >> /\ DOMAIN buffer = {} /\ Live = {}
  BY DEF Init, Live
<1>2. MsgOK
  <2>1. msg \in Seq([kind : {"saved", "cancelled"}, orders : Seq(Orders)]) /\ Len(msg) = 0
        /\ DOMAIN msg = {}
    BY <1>1
  <2>2. MaxMsgs \in Nat
    BY ConstantsOK
  <2> QED BY <2>1, <2>2 DEF MsgOK
<1>3. JobsOK
  BY <1>1, FS_EmptySet DEF JobsOK
<1>4. MapsOK
  <2>1. userChangesTrades = [k \in Keys |-> {}]
    BY DEF Init
  <2> QED BY <1>1, <2>1 DEF MapsOK
<1>5. LogsOK
  <2>1. stored = {} /\ raw = {} /\ sent = {} /\ twice = {} /\ late = {} /\ failed = {}
        /\ shown = [i \in Insts |-> 0]
    BY DEF Init
  <2>2. shown \in [Insts -> 0 .. MaxMsgs]
    BY <2>1, ConstantsOK
  <2> QED BY <2>1, <2>2 DEF LogsOK
<1> QED BY <1>1, <1>2, <1>3, <1>4, <1>5 DEF FeedOK

LEMMA SameOK == FeedOK /\ UNCHANGED vars => FeedOK'
<1> SUFFICES ASSUME FeedOK, UNCHANGED vars PROVE FeedOK'
  OBVIOUS
<1>1. UNCHANGED <<feed, msg, buffer, userChangesTrades, job, stored, raw, sent, twice, late,
                  shown, failed>>
  BY DEF vars, maps, ghosts
<1>2. Live' = Live
  BY <1>1 DEF Live
<1>3. Grows /\ MapsGrow /\ Quiet
  BY <1>1 DEF Grows, MapsGrow, Quiet, maps
<1>4. \A k \in Live : Stays(k)
  BY <1>1, <1>2 DEF Stays
<1>5. JobsOK'
  <2>1. ASSUME NEW k \in Live' PROVE JobOK(k)'
    BY <1>2, <1>3, <1>4, StaysOK
  <2> QED BY <1>2, <2>1 DEF FeedOK, JobsOK
<1>6. /\ shown' \in [Insts -> 0 .. MaxMsgs] /\ failed' \subseteq Msgs
      /\ raw' \subseteq Keys \X Entries /\ \A x \in raw' : Fits(msg, x[1], x[2])
  BY <1>1 DEF FeedOK, LogsOK
<1> QED BY <1>3, <1>5, <1>6, QuietOK

(* ... and every step keeps it. *)
LEMMA StepOK == FeedOK /\ [Next]_vars => FeedOK'
<1> SUFFICES ASSUME FeedOK, [Next]_vars PROVE FeedOK'
  OBVIOUS
<1>1. CASE UNCHANGED vars
  BY <1>1, SameOK
<1>2. ASSUME NEW makers \in SUBSET Orders, NEW taker \in Orders, Save(makers, taker)
      PROVE  FeedOK'
  BY <1>2, SaveStep DEF SendStep
<1>3. ASSUME NEW orders \in SUBSET Orders, CancelAll(orders) PROVE FeedOK'
  BY <1>3, CancelStep DEF SendStep
<1>4. ASSUME NEW j \in Live, Run(j) PROVE FeedOK'
  <2>1. CASE Find(j)
    BY <2>1, FindStep
  <2>2. CASE Read(j)
    BY <2>2, ReadStep
  <2>3. CASE Look(j)
    BY <2>3, LookStep
  <2>4. CASE Store(j)
    BY <2>4, StoreOKs
  <2>5. CASE Broadcast(j)
    BY <2>5, BroadcastStep
  <2>6. CASE AggTicker(j)
    BY <2>6, AggStep
  <2>7. CASE Tick(j)
    BY <2>7, TickStep
  <2>8. CASE TickTrades(j)
    BY <2>8, TickTradesStep
  <2>9. CASE Flush(j)
    BY <2>9, FlushStep
  <2>10. CASE Reset(j)
    BY <2>10, ResetStep
  <2>11. CASE Query(j)
    BY <2>11, QueryStep
  <2> QED BY <1>4, <2>1, <2>2, <2>3, <2>4, <2>5, <2>6, <2>7, <2>8, <2>9, <2>10, <2>11 DEF Run
<1> QED BY <1>1, <1>2, <1>3, <1>4 DEF Next

(* What the goroutines have read and what the entries hold was stored, and *)
(* what is stored, or told at once, belongs to the key: the facts all      *)
(* others rest on.                                                         *)
THEOREM FeedInv == Spec => []FeedOK
BY InitOK, StepOK, PTL DEF Spec

LEMMA TypeOfFeed == FeedOK => TypeOK
<1> SUFFICES ASSUME FeedOK PROVE TypeOK
  OBVIOUS
<1>1. feed \in Feeds /\ MsgOK /\ JobsOK /\ MapsOK /\ LogsOK
  BY DEF FeedOK
<1>2. msg \in Seq([kind : {"saved", "cancelled"}, orders : Seq(Orders)]) /\ Len(msg) <= MaxMsgs
  BY <1>1 DEF MsgOK
<1>3. \A x \in stored : x[2] \in Entries
  BY <1>1 DEF LogsOK, Fits
<1>4. \A k \in DOMAIN buffer : buffer[k] \subseteq Entries \cup Mark
  <2>1. ASSUME NEW k \in DOMAIN buffer, NEW e \in buffer[k] PROVE e \in Entries \cup Mark
    <3>1. <<k, e>> \in stored \/ e \in Mark
      BY <1>1 DEF MapsOK
    <3>2. <<k, e>> \in stored => e \in Entries
      BY <1>1 DEF LogsOK
    <3> QED BY <3>1, <3>2
  <2> QED BY <2>1
<1>5. Live \subseteq Jobs /\ \A j \in Live : IsJob(job[j])
  <2>1. ASSUME NEW j \in Live PROVE IsJob(job[j])
    <3>1. job[j] \in JobType
      BY <1>1 DEF JobsOK, JobOK
    <3>2. job[j].todo \in Seq([key : Keys, orders : SUBSET Orders])
      BY <3>1 DEF JobType, RoundType
    <3>3. /\ job[j].place \in Places /\ job[j].new \in BOOLEAN /\ job[j].seen \in 0 .. MaxMsgs
          /\ job[j].found \subseteq Entries /\ job[j].trades \subseteq Entries
          /\ job[j].main \subseteq Entries \cup Mark
      BY <3>1 DEF JobType
    <3> QED BY <3>2, <3>3 DEF IsJob
  <2> QED BY <1>1, <2>1 DEF JobsOK
<1>6. /\ \A s \in {stored, raw, sent, twice, late} : s \subseteq Keys \X Entries
      /\ shown \in [Insts -> 0 .. MaxMsgs] /\ failed \subseteq Msgs
  <2>1. /\ stored \subseteq Keys \X Entries /\ raw \subseteq Keys \X Entries
        /\ sent \subseteq stored /\ twice \subseteq sent /\ late \subseteq stored
        /\ shown \in [Insts -> 0 .. MaxMsgs] /\ failed \subseteq Msgs
    BY <1>1 DEF LogsOK
  <2> QED BY <2>1
<1>7. DOMAIN buffer \subseteq Keys /\ userChangesTrades \in [Keys -> SUBSET Entries]
  BY <1>1 DEF MapsOK
<1> QED BY <1>1, <1>2, <1>4, <1>5, <1>6, <1>7 DEF TypeOK

(* The state has the shape that TypeOK gives it. *)
THEOREM TypeCorrect == Spec => []TypeOK
BY FeedInv, TypeOfFeed, PTL

LEMMA OwnOfFeed == FeedOK => OwnFeed
<1> SUFFICES ASSUME FeedOK, NEW x \in stored \cup raw \cup sent
             PROVE  LET m == x[2][1]
                        o == x[2][2]
                        parties == IF x[2][3] = 0 THEN {Owner[o], Owner[Taker(m)]}
                                   ELSE {Owner[o]}
                    IN  x[1][1] = InstOf[o] /\ x[1][2] \in parties \cup {Everyone}
  BY DEF OwnFeed
<1>1. Fits(msg, x[1], x[2])
  BY DEF FeedOK, LogsOK
<1>2. x[1][1] = InstOf[x[2][2]] /\ x[1][2] \in Parties(msg, x[2]) \cup {Everyone}
  BY <1>1 DEF Fits
<1>3. Taker(x[2][1]) = Last(msg[x[2][1]].orders)
  BY DEF Taker
<1> QED BY <1>2, <1>3, Zenon DEF Parties

(* Whatever messages there are and however the consumers and the tickers   *)
(* interleave, a user is told of no other user's orders and trades, and in *)
(* the channel of their instrument.                                        *)
THEOREM OwnFeedOnly == Spec => []OwnFeed
BY FeedInv, OwnOfFeed, PTL

-----------------------------------------------------------------------------
LEMMA InitStore == Init => StoreOK
<1> SUFFICES ASSUME Init PROVE StoreOK
  OBVIOUS
<1>1. stored = {} /\ Live = {}
  BY DEF Init, Live
<1> QED BY <1>1 DEF StoreOK, StoredUntilSent

(* Steps that leave the entries and the logs alone. *)
LEMMA QuietStore ==
    ASSUME FeedOK, StoreOK, UNCHANGED <<buffer, userChangesTrades, stored, sent, late>>,
           \A k \in Live' : \/ Stays(k)
                            \/ /\ k \in Consumers => StoreConsumer(k)'
                               /\ k \in Tickers => StoreTicker(k)'
    PROVE  StoreOK'
<1>1. ASSUME NEW k \in Live', k \in Consumers PROVE StoreConsumer(k)'
  <2>1. ASSUME Stays(k) PROVE StoreConsumer(k)'
    <3>1. KeyOf(k)' = KeyOf(k)
      BY <2>1 DEF Stays, KeyOf, Item
    <3>2. StoreConsumer(k)
      BY <1>1, <2>1 DEF StoreOK, Stays
    <3> QED BY <2>1, <3>1, <3>2 DEF StoreConsumer, Stays
  <2> QED BY <1>1, <2>1
<1>2. ASSUME NEW k \in Live', k \in Tickers PROVE StoreTicker(k)'
  <2>1. ASSUME Stays(k) PROVE StoreTicker(k)'
    <3>1. StoreTicker(k)
      BY <1>2, <2>1 DEF StoreOK, Stays
    <3> QED BY <2>1, <3>1 DEF StoreTicker, Stays
  <2> QED BY <1>2, <2>1
<1>3. StoredUntilSent'
  <2>1. StoredUntilSent
    BY DEF StoreOK
  <2> QED BY <2>1 DEF StoredUntilSent, Buffered
<1>4. \A x \in stored' : x[1] \in DOMAIN buffer'
  BY DEF StoreOK
<1> QED BY <1>1, <1>2, <1>3, <1>4 DEF StoreOK

(* Of the consumers, ... *)
LEMMA ConsumerStore ==
    ASSUME FeedOK, StoreOK, NEW j \in Live, ConsumerStep(j)
    PROVE  StoreOK'
<1>1. UNCHANGED <<buffer, userChangesTrades, stored, sent, late>>
  BY DEF ConsumerStep, Quiet, maps
<1>2. ASSUME NEW k \in Live'
      PROVE  \/ Stays(k)
             \/ /\ k \in Consumers => StoreConsumer(k)'
                /\ k \in Tickers => StoreTicker(k)'
  <2>1. CASE k # j
    BY <1>2, <2>1 DEF ConsumerStep
  <2>2. CASE k = j
    <3>1. j \notin Tickers
      BY Kinds DEF ConsumerStep
    <3>2. job'[j].place # "store"
      BY <1>2, <2>2 DEF ConsumerStep
    <3> QED BY <2>2, <3>1, <3>2 DEF StoreConsumer
  <2> QED BY <2>1, <2>2
<1> QED BY <1>1, <1>2, QuietStore

(* ... one that looks for the entry, ... *)
LEMMA LookStore ==
    ASSUME FeedOK, StoreOK, NEW j \in Live, Look(j)
    PROVE  StoreOK'
<1>1. /\ j \in Live \cap Consumers /\ Quiet
      /\ \A k \in Live \ {j} : Stays(k)
      /\ Live' \ Live \subseteq Aggs
      /\ (job'[j].new <=> KeyOf(j) \notin DOMAIN buffer)
      /\ KeyOf(j)' = KeyOf(j)
  BY LookStep
<1>2. UNCHANGED <<buffer, userChangesTrades, stored, sent, late>>
  BY <1>1 DEF Quiet, maps
<1>3. StoreConsumer(j)'
  BY <1>1, <1>2 DEF StoreConsumer, StoreOK
<1>4. ASSUME NEW k \in Live'
      PROVE  \/ Stays(k)
             \/ /\ k \in Consumers => StoreConsumer(k)'
                /\ k \in Tickers => StoreTicker(k)'
  BY <1>1, <1>3, Kinds
<1> QED BY <1>2, <1>4, QuietStore

(* ... of a ticker that reads, ... *)
LEMMA TickerStore ==
    ASSUME FeedOK, StoreOK, Quiet, NEW j, TickerStep(j), StoreTicker(j)'
    PROVE  StoreOK'
<1>1. UNCHANGED <<buffer, userChangesTrades, stored, sent, late>>
  BY DEF Quiet, maps
<1>2. ASSUME NEW k \in Live'
      PROVE  \/ Stays(k)
             \/ /\ k \in Consumers => StoreConsumer(k)'
                /\ k \in Tickers => StoreTicker(k)'
  BY Kinds DEF TickerStep
<1> QED BY <1>1, <1>2, QuietStore

(* ... namely the entry, ... *)
LEMMA TickStore ==
    ASSUME FeedOK, StoreOK, NEW j \in Live, Tick(j)
    PROVE  StoreOK'
<1>1. /\ Quiet /\ TickerStep(j)
      /\ job'[j].place = After("tick")
      /\ job'[j].main = buffer[j[2]] /\ job'[j].trades = {}
  BY TickStep
<1>2. UNCHANGED <<feed, buffer, userChangesTrades, stored, sent, late>>
  BY <1>1 DEF Quiet, maps
<1>3. feed \in Feeds /\ MapsOK /\ LogsOK
  BY DEF FeedOK
<1>4. ASSUME NEW x \in stored \ (sent \cup late), x[1] = j[2]
      PROVE  x[2] \in buffer[j[2]] \cup userChangesTrades[j[2]]
  BY <1>4 DEF StoreOK, StoredUntilSent, Buffered
<1>5. j[2] \in Keys
  BY <1>1 DEF TickerStep
<1>6. StoreTicker(j)'
  <2>1. CASE feed = "changes"
    <3>1. job'[j].place = "trades"
      BY <1>1, <1>3, <2>1, AfterIs
    <3> QED BY <1>1, <1>2, <1>4, <3>1 DEF StoreTicker
  <2>2. CASE feed = "ticker"
    <3>1. stored' = {}
      BY <1>2, <1>3, <2>2 DEF LogsOK
    <3> QED BY <3>1 DEF StoreTicker
  <2>3. CASE feed \notin {"changes", "ticker"}
    <3>1. job'[j].place = "flush"
      BY <1>1, <1>3, <2>3, AfterIs
    <3>2. userChangesTrades[j[2]] = {}
      BY <1>3, <1>5, <2>3 DEF MapsOK
    <3> QED BY <1>1, <1>2, <1>4, <3>1, <3>2 DEF StoreTicker
  <2> QED BY <2>1, <2>2, <2>3
<1> QED BY <1>1, <1>6, TickerStore

(* ... the trades ... *)
LEMMA TickTradesStore ==
    ASSUME FeedOK, StoreOK, NEW j \in Live, TickTrades(j)
    PROVE  StoreOK'
<1>1. /\ Quiet /\ TickerStep(j) /\ job[j].place = "trades"
      /\ job'[j].place = "flush"
      /\ job'[j].main = job[j].main /\ job'[j].trades = userChangesTrades[j[2]]
  BY TickTradesStep
<1>2. UNCHANGED <<stored, sent, late>>
  BY <1>1 DEF Quiet
<1>3. StoreTicker(j)
  BY <1>1 DEF TickerStep, StoreOK
<1>4. StoreTicker(j)'
  BY <1>1, <1>2, <1>3 DEF StoreTicker
<1> QED BY <1>1, <1>4, TickerStore

(* ... and the prices. *)
LEMMA QueryStore ==
    ASSUME FeedOK, StoreOK, NEW j \in Live, Query(j)
    PROVE  StoreOK'
<1>1. Quiet /\ TickerStep(j) /\ feed = "ticker"
  BY QueryStep
<1>2. stored' = {}
  BY <1>1 DEF Quiet, FeedOK, LogsOK
<1>3. StoreTicker(j)'
  BY <1>2 DEF StoreTicker
<1> QED BY <1>1, <1>3, TickerStore

(* All that was outstanding when the ticker read is sent, ... *)
LEMMA FlushStore ==
    ASSUME FeedOK, StoreOK, NEW j \in Live, Flush(j)
    PROVE  StoreOK'
<1>1. /\ TickerStep(j) /\ job[j].place = "flush"
      /\ UNCHANGED <<buffer, userChangesTrades, stored, late>>
      /\ sent' = sent \cup {<<j[2], e>> : e \in (job[j].main \cup job[j].trades) \ Mark}
  BY FlushStep
<1>2. StoreTicker(j)
  BY <1>1 DEF TickerStep, StoreOK
<1>3. ASSUME NEW x \in stored \ (sent' \cup late), x[1] = j[2]
      PROVE  FALSE
  <2>1. x[2] \in job[j].main \cup job[j].trades
    BY <1>1, <1>2, <1>3 DEF StoreTicker
  <2>2. x = <<x[1], x[2]>> /\ x[2] \in Entries
    BY DEF FeedOK, LogsOK
  <2>3. x[2] \notin Mark
    BY <2>2 DEF Entries, Mark, Msgs
  <2>4. <<j[2], x[2]>> \in sent'
    BY <1>1, <2>1, <2>3
  <2> QED BY <1>3, <2>2, <2>4
<1>4. ASSUME NEW k \in Live', k \in Tickers PROVE StoreTicker(k)'
  <2>1. CASE k[2] = j[2]
    BY <1>1, <1>3, <2>1 DEF StoreTicker
  <2>2. CASE k[2] # j[2]
    <3>1. Stays(k) /\ k \in Live
      BY <1>1, <1>4, <2>2 DEF TickerStep
    <3>2. StoreTicker(k)
      BY <1>4, <3>1 DEF StoreOK
    <3> QED BY <1>1, <3>1, <3>2 DEF StoreTicker, Stays
  <2> QED BY <2>1, <2>2
<1>5. ASSUME NEW k \in Live', k \in Consumers PROVE StoreConsumer(k)'
  <2>1. Stays(k) /\ k \in Live
    BY <1>1, <1>5, Kinds DEF TickerStep
  <2>2. KeyOf(k)' = KeyOf(k) /\ StoreConsumer(k)
    BY <1>5, <2>1 DEF Stays, KeyOf, Item, StoreOK
  <2> QED BY <1>1, <2>1, <2>2 DEF StoreConsumer, Stays
<1>6. StoredUntilSent'
  BY <1>1 DEF StoreOK, StoredUntilSent, Buffered
<1>7. \A x \in stored' : x[1] \in DOMAIN buffer'
  BY <1>1 DEF StoreOK
<1> QED BY <1>4, <1>5, <1>6, <1>7 DEF StoreOK

(* ... so that clearing the entry drops only what is late. *)
LEMMA ResetStore ==
    ASSUME FeedOK, StoreOK, NEW j \in Live, Reset(j)
    PROVE  StoreOK'
<1>1. /\ TickerStep(j) /\ job[j].place = "reset"
      /\ UNCHANGED <<stored, sent, late>>
      /\ DOMAIN buffer' = DOMAIN buffer
      /\ \A k \in DOMAIN buffer \ {j[2]} : buffer'[k] = buffer[k]
      /\ \A k \in Keys \ {j[2]} : userChangesTrades'[k] = userChangesTrades[k]
  BY ResetStep
<1>2. StoreTicker(j)
  BY <1>1 DEF TickerStep, StoreOK
<1>3. ASSUME NEW x \in stored, x[1] = j[2]
      PROVE  x \in sent \cup late
  BY <1>1, <1>2, <1>3 DEF StoreTicker
<1>4. ASSUME NEW k \in Live', k \in Tickers PROVE StoreTicker(k)'
  <2>1. CASE k[2] = j[2]
    BY <1>1, <1>3, <2>1 DEF StoreTicker
  <2>2. CASE k[2] # j[2]
    <3>1. Stays(k) /\ k \in Live
      BY <1>1, <1>4, <2>2 DEF TickerStep
    <3>2. StoreTicker(k)
      BY <1>4, <3>1 DEF StoreOK
    <3>3. k[2] \in Keys \ {j[2]}
      BY <1>4, <2>2, Kinds
    <3> QED BY <1>1, <3>1, <3>2, <3>3 DEF StoreTicker, Stays
  <2> QED BY <2>1, <2>2
<1>5. ASSUME NEW k \in Live', k \in Consumers PROVE StoreConsumer(k)'
  <2>1. Stays(k) /\ k \in Live
    BY <1>1, <1>5, Kinds DEF TickerStep
  <2>2. KeyOf(k)' = KeyOf(k) /\ StoreConsumer(k)
    BY <1>5, <2>1 DEF Stays, KeyOf, Item, StoreOK
  <2> QED BY <1>1, <2>1, <2>2 DEF StoreConsumer, Stays
<1>6. StoredUntilSent'
  <2>1. ASSUME NEW x \in stored PROVE Buffered(x)' \/ x \in sent \/ x \in late
    <3>1. Buffered(x) \/ x \in sent \/ x \in late
      BY DEF StoreOK, StoredUntilSent
    <3>2. x[1] \in Keys
      BY DEF FeedOK, LogsOK
    <3> QED BY <1>1, <1>3, <3>1, <3>2 DEF Buffered
  <2> QED BY <1>1, <2>1 DEF StoredUntilSent
<1>7. \A x \in stored' : x[1] \in DOMAIN buffer'
  BY <1>1 DEF StoreOK
<1> QED BY <1>4, <1>5, <1>6, <1>7 DEF StoreOK

(* What Store puts where: its own entries, and what was there before       *)
(* unless it replaces it.                                                  *)
LEMMA StoredAt ==
    ASSUME FeedOK, NEW j \in Live, Store(j)
    PROVE  /\ \A e \in New(j) : e \in buffer'[KeyOf(j)] \cup userChangesTrades'[KeyOf(j)]
           /\ ~job[j].new =>
                /\ KeyOf(j) \in DOMAIN buffer /\ buffer[KeyOf(j)] \subseteq buffer'[KeyOf(j)]
                /\ userChangesTrades[KeyOf(j)] \subseteq userChangesTrades'[KeyOf(j)]
<1> DEFINE key == KeyOf(j)
<1>1. StoreStep(j)
  BY StoreIs
<1>2. /\ job[j].place = "store" /\ key \in Keys
      /\ buffer'[key] = IF key \in DOMAIN buffer
                        THEN Merged(buffer[key], Main(j), job[j].new) ELSE Main(j)
      /\ userChangesTrades'[key] = TradesAfter(j, userChangesTrades[key])
  BY <1>1, Zenon DEF StoreStep
<1>3. ASSUME ~job[j].new
      PROVE  /\ key \in DOMAIN buffer /\ buffer[key] \subseteq buffer'[key]
             /\ userChangesTrades[key] \subseteq userChangesTrades'[key]
  <2>1. key \in DOMAIN buffer
    BY <1>1, <1>2, <1>3, ItemIs DEF ConsumerOK, StoreStep
  <2>2. buffer'[key] = buffer[key] \cup Main(j)
    BY <1>2, <1>3, <2>1 DEF Merged
  <2>3. userChangesTrades[key] \subseteq userChangesTrades'[key]
    BY <1>2, <1>3 DEF TradesAfter, Merged
  <2> QED BY <2>1, <2>2, <2>3
<1>4. ASSUME NEW e \in New(j) PROVE e \in buffer'[key] \cup userChangesTrades'[key]
  <2>1. /\ feed # "ticker" /\ msg[j[2]].kind = "saved"
        /\ e \in job[j].main \cup job[j].trades
    BY <1>1, NewIs DEF StoreStep
  <2>2. CASE e \in job[j].main
    <3>1. Main(j) = job[j].main
      BY <2>1 DEF Main
    <3>2. Main(j) \subseteq buffer'[key]
      BY <1>2 DEF Merged
    <3> QED BY <2>2, <3>1, <3>2
  <2>3. CASE e \in job[j].trades
    <3>1. userChangesTrades'[key] = Merged(userChangesTrades[key], job[j].trades, job[j].new)
      BY <1>2, <2>1 DEF TradesAfter
    <3>2. job[j].trades \subseteq userChangesTrades'[key]
      BY <3>1 DEF Merged
    <3> QED BY <2>3, <3>2
  <2> QED BY <2>1, <2>2, <2>3
<1> HIDE DEF key
<1> QED BY <1>3, <1>4 DEF key

(* The goroutines beside it. *)
LEMMA StoreOthers ==
    ASSUME FeedOK, NEW j \in Live, StoreStep(j), NEW k \in Live'
    PROVE  /\ k \in Consumers => k = j \/ Stays(k)
           /\ k \in Tickers => Stays(k) \/ job'[k].place = "tick"
           /\ Stays(k) => KeyOf(k)' = KeyOf(k)
           /\ KeyOf(j)' = KeyOf(j)
           /\ k = j => k \notin Tickers /\ job'[k].place = "send"
<1>1. /\ j \in Consumers /\ (\A x \in Live \ {j} : Stays(x))
      /\ Live' \subseteq Live \cup {<<"100ms", KeyOf(j), j[2]>>}
      /\ job'[j].place = "send" /\ job'[j].todo = job[j].todo
      /\ \A x \in Live' \ Live : job'[x] = At("tick", << >>)
      /\ <<"100ms", KeyOf(j), j[2]>> \in Tickers
  BY DEF StoreStep
<1>2. k \notin Live => k = <<"100ms", KeyOf(j), j[2]>> /\ job'[k].place = "tick"
  BY <1>1 DEF At
<1>3. KeyOf(j)' = KeyOf(j)
  BY <1>1, Kinds DEF KeyOf, Item
<1>4. Stays(k) => KeyOf(k)' = KeyOf(k)
  BY DEF Stays, KeyOf, Item
<1> QED BY <1>1, <1>2, <1>3, <1>4, Kinds

(* A consumer adds to an entry; it replaces one only with what is late. *)
LEMMA StoreStore ==
    ASSUME FeedOK, StoreOK, NEW j \in Live, Store(j)
    PROVE  StoreOK'
<1> DEFINE entries == {<<KeyOf(j), e>> : e \in New(j)}
<1>1. StoreStep(j)
  BY StoreIs
<1>2. /\ j \in Live \cap Consumers /\ job[j].place = "store" /\ KeyOf(j) \in Keys
      /\ sent' = sent /\ stored' = stored \cup entries
      /\ late' = IF Clears(KeyOf(j))' THEN late \cup entries ELSE late
      /\ DOMAIN buffer' = DOMAIN buffer \cup {KeyOf(j)}
      /\ \A k \in DOMAIN buffer \ {KeyOf(j)} : buffer'[k] = buffer[k]
      /\ \A k \in Keys \ {KeyOf(j)} : userChangesTrades'[k] = userChangesTrades[k]
  BY <1>1, Zenon DEF StoreStep
<1>3. /\ \A e \in New(j) : e \in buffer'[KeyOf(j)] \cup userChangesTrades'[KeyOf(j)]
      /\ ~job[j].new =>
           /\ KeyOf(j) \in DOMAIN buffer /\ buffer[KeyOf(j)] \subseteq buffer'[KeyOf(j)]
           /\ userChangesTrades[KeyOf(j)] \subseteq userChangesTrades'[KeyOf(j)]
  BY StoredAt
<1>4. ASSUME NEW x \in entries PROVE x[1] = KeyOf(j) /\ \E e \in New(j) : x = <<KeyOf(j), e>> /\ x[2] = e
  BY <1>4
<1>5. job[j].new => \A x \in stored : x[1] = KeyOf(j) => x \in late
  BY <1>2 DEF StoreOK, StoreConsumer
<1>6. late \subseteq late' /\ (Clears(KeyOf(j))' => entries \subseteq late')
  BY <1>2
<1> HIDE DEF entries
<1>7. ASSUME NEW k \in Live', k \in Consumers PROVE StoreConsumer(k)'
  <2>1. CASE k = j
    BY <1>1, <2>1, StoreOthers DEF StoreConsumer
  <2>2. CASE Stays(k) /\ KeyOf(k)' = KeyOf(k)
    <3>1. StoreConsumer(k) /\ job'[k] = job[k]
      BY <1>7, <2>2 DEF StoreOK, Stays
    <3>2. CASE KeyOf(k) = KeyOf(j)
      <4>1. KeyOf(k)' = KeyOf(j)' /\ KeyOf(j)' = KeyOf(j)
        BY <1>1, <1>7, <2>2, <3>2, StoreOthers
      <4>2. job'[k].place = "store" /\ job'[k].new => Clears(KeyOf(j))'
        BY <1>7, <4>1 DEF Clears
      <4> QED BY <1>2, <1>6, <2>2, <3>1, <4>1, <4>2 DEF StoreConsumer
    <3>3. CASE KeyOf(k) # KeyOf(j)
      BY <1>2, <1>4, <1>6, <2>2, <3>1, <3>3 DEF StoreConsumer
    <3> QED BY <3>2, <3>3
  <2> QED BY <1>1, <1>7, <2>1, <2>2, StoreOthers
<1>8. ASSUME NEW k \in Live', k \in Tickers PROVE StoreTicker(k)'
  <2>1. CASE job'[k].place = "tick"
    BY <2>1 DEF StoreTicker
  <2>2. CASE Stays(k) /\ job'[k].place # "tick"
    <3>1. StoreTicker(k) /\ job'[k] = job[k]
      BY <1>8, <2>2 DEF StoreOK, Stays
    <3>2. ASSUME NEW x \in stored' \ (sent' \cup late'), x[1] = k[2]
          PROVE  x \in stored \ (sent \cup late)
      <4>1. ASSUME x \in entries PROVE FALSE
        <5>1. k[2] = KeyOf(j) /\ KeyOf(j)' = KeyOf(j)
          BY <1>1, <1>4, <1>8, <3>2, <4>1, StoreOthers
        <5>2. Clears(KeyOf(j))'
          BY <1>8, <2>2, <5>1 DEF Clears
        <5> QED BY <1>6, <3>2, <4>1, <5>1, <5>2
      <4> QED BY <1>2, <1>6, <3>2, <4>1
    <3>3. ASSUME NEW x \in stored' \ (sent' \cup late'), x[1] = k[2]
          PROVE  userChangesTrades[k[2]] \subseteq userChangesTrades'[k[2]]
      <4>1. k[2] \in Keys
        BY <1>8, Kinds
      <4>2. CASE k[2] # KeyOf(j)
        BY <1>2, <4>1, <4>2
      <4>3. CASE k[2] = KeyOf(j)
        <5>1. x \in stored \ (sent \cup late) /\ x[1] = KeyOf(j)
          BY <3>2, <3>3, <4>3
        <5>2. ~job[j].new
          BY <1>5, <5>1
        <5> QED BY <1>3, <4>3, <5>2
      <4> QED BY <4>2, <4>3
    <3>4. ASSUME NEW x \in stored' \ (sent' \cup late'), x[1] = k[2]
          PROVE  /\ job'[k].place = "trades" => x[2] \in job'[k].main \cup userChangesTrades'[k[2]]
                 /\ job'[k].place = "flush" => x[2] \in job'[k].main \cup job'[k].trades
                 /\ job'[k].place # "reset"
      <4>1. x \in stored \ (sent \cup late) /\ userChangesTrades[k[2]] \subseteq userChangesTrades'[k[2]]
        BY <3>2, <3>3, <3>4
      <4> QED BY <3>1, <3>4, <4>1 DEF StoreTicker
    <3> QED BY <3>4 DEF StoreTicker
  <2> QED BY <1>1, <1>8, <2>1, <2>2, StoreOthers
<1>9. StoredUntilSent'
  <2>1. ASSUME NEW x \in stored' PROVE Buffered(x)' \/ x \in sent' \/ x \in late'
    <3>1. CASE x \in entries
      <4>1. x[1] = KeyOf(j) /\ x[2] \in buffer'[KeyOf(j)] \cup userChangesTrades'[KeyOf(j)]
        BY <1>3, <1>4, <3>1
      <4> QED BY <1>2, <4>1 DEF Buffered
    <3>2. CASE x \in stored
      <4>1. Buffered(x) \/ x \in sent \/ x \in late
        BY <3>2 DEF StoreOK, StoredUntilSent
      <4>2. x[1] \in Keys
        BY <3>2 DEF FeedOK, LogsOK
      <4>3. CASE x[1] # KeyOf(j)
        BY <1>2, <1>6, <4>1, <4>2, <4>3 DEF Buffered
      <4>4. CASE x[1] = KeyOf(j) /\ job[j].new
        BY <1>5, <1>6, <3>2, <4>4
      <4>5. CASE x[1] = KeyOf(j) /\ ~job[j].new
        BY <1>2, <1>3, <1>6, <4>1, <4>5 DEF Buffered
      <4> QED BY <4>3, <4>4, <4>5
    <3> QED BY <1>2, <2>1, <3>1, <3>2
  <2> QED BY <2>1 DEF StoredUntilSent
<1>10. \A x \in stored' : x[1] \in DOMAIN buffer'
  BY <1>2, <1>4 DEF StoreOK
<1> QED BY <1>7, <1>8, <1>9, <1>10 DEF StoreOK

LEMMA SendStore ==
    ASSUME FeedOK, StoreOK, SendStep
    PROVE  StoreOK'
<1> DEFINE c == <<"consumer", Len(msg) + 1>>
<1>1. /\ UNCHANGED <<buffer, userChangesTrades, stored, sent, late>>
      /\ c \in Consumers /\ Live' \subseteq Live \cup {c}
      /\ \A k \in Live : Stays(k)
      /\ c \in Live' => ~job'[c].new
  BY DEF SendStep
<1> HIDE DEF c
<1>2. ASSUME NEW k \in Live'
      PROVE  \/ Stays(k)
             \/ /\ k \in Consumers => StoreConsumer(k)'
                /\ k \in Tickers => StoreTicker(k)'
  <2>1. CASE k = c
    BY <1>1, <1>2, <2>1, Kinds DEF StoreConsumer
  <2> QED BY <1>1, <2>1
<1> QED BY <1>1, <1>2, QuietStore

LEMMA StepStore == FeedOK /\ StoreOK /\ [Next]_vars => StoreOK'
<1> SUFFICES ASSUME FeedOK, StoreOK, [Next]_vars PROVE StoreOK'
  OBVIOUS
<1>1. CASE UNCHANGED vars
  <2>1. UNCHANGED <<buffer, userChangesTrades, stored, sent, late, job>> /\ Live' = Live
    BY <1>1 DEF vars, maps, ghosts, Live
  <2>2. \A k \in Live' : Stays(k)
    BY <2>1 DEF Stays
  <2> QED BY <2>1, <2>2, QuietStore
<1>2. ASSUME NEW makers \in SUBSET Orders, NEW taker \in Orders, Save(makers, taker)
      PROVE  StoreOK'
  BY <1>2, SaveStep, SendStore
<1>3. ASSUME NEW orders \in SUBSET Orders, CancelAll(orders) PROVE StoreOK'
  BY <1>3, CancelStep, SendStore
<1>4. ASSUME NEW j \in Live, Run(j) PROVE StoreOK'
  <2>1. CASE Find(j) \/ Read(j) \/ Broadcast(j)
    BY <2>1, FindStep, ReadStep, BroadcastStep, ConsumerStore
  <2>3. CASE Look(j)
    BY <2>3, LookStore
  <2>4. CASE Store(j)
    BY <2>4, StoreStore
  <2>6. CASE AggTicker(j)
    <3>1. Quiet /\ Live' = Live \ {j} /\ \A k \in Live \ {j} : Stays(k)
      BY <2>6, AggStep
    <3>2. UNCHANGED <<buffer, userChangesTrades, stored, sent, late>>
      BY <3>1 DEF Quiet, maps
    <3> QED BY <3>1, <3>2, QuietStore
  <2>7. CASE Tick(j)
    BY <2>7, TickStore
  <2>8. CASE TickTrades(j)
    BY <2>8, TickTradesStore
  <2>9. CASE Flush(j)
    BY <2>9, FlushStore
  <2>10. CASE Reset(j)
    BY <2>10, ResetStore
  <2>11. CASE Query(j)
    BY <2>11, QueryStore
  <2> QED BY <1>4, <2>1, <2>3, <2>4, <2>6, <2>7, <2>8, <2>9, <2>10, <2>11 DEF Run
<1> QED BY <1>1, <1>2, <1>3, <1>4 DEF Next

(* Nothing that was stored is lost. *)
LEMMA StoreInv == Spec => []StoreOK
BY FeedInv, InitStore, StepStore, PTL DEF Spec

(* StoredUntilSent: an entry of the maps is dropped only if it was stored  *)
(* while a ticker was about to clear the map, or another consumer to       *)
(* replace it.                                                             *)
THEOREM KeptUntilSent == Spec => []StoredUntilSent
<1>1. StoreOK => StoredUntilSent
  BY DEF StoreOK
<1> QED BY <1>1, StoreInv, PTL

-----------------------------------------------------------------------------
(* More than one ticker of a key: they are never fewer.                    *)
TickersOf(k) == {t \in Live \cap Tickers : t[2] = k}

LEMMA TickersFinite ==
    FeedOK => \A k : IsFiniteSet(TickersOf(k)) /\ Cardinality(TickersOf(k)) \in Nat
<1> SUFFICES ASSUME FeedOK, NEW k
             PROVE  IsFiniteSet(TickersOf(k)) /\ Cardinality(TickersOf(k)) \in Nat
  OBVIOUS
<1>1. IsFiniteSet(Live)
  BY DEF FeedOK, JobsOK
<1>2. TickersOf(k) \subseteq Live
  BY DEF TickersOf
<1>3. IsFiniteSet(TickersOf(k))
  BY <1>1, <1>2, FS_Subset
<1> QED BY <1>3, FS_CardinalityType

LEMMA TickersFiniteNext ==
    (FeedOK => \A k : IsFiniteSet(TickersOf(k)) /\ Cardinality(TickersOf(k)) \in Nat)'
BY TickersFinite, PTL

(* Tickers do not end. *)
LEMMA TwinsKept ==
    ASSUME FeedOK', Live \cap Tickers \subseteq Live', NEW k, Twins(k)
    PROVE  Twins(k)'
<1>1. Cardinality(TickersOf(k)) > 1
  BY DEF Twins, TickersOf
<1>2. IsFiniteSet(TickersOf(k)') /\ Cardinality(TickersOf(k)') \in Nat
  BY TickersFiniteNext
<1>3. TickersOf(k) \subseteq TickersOf(k)'
  BY DEF TickersOf
<1>4. /\ Cardinality(TickersOf(k)) \in Nat
      /\ Cardinality(TickersOf(k)) <= Cardinality(TickersOf(k)')
  BY <1>2, <1>3, FS_Subset, FS_CardinalityType
<1>5. Cardinality(TickersOf(k)') > 1
  BY <1>1, <1>2, <1>4
<1> QED BY <1>5 DEF Twins, TickersOf

(* Two tickers of a key are twins. *)
LEMMA TwinsOf ==
    FeedOK => \A k : \A t, u \in Live \cap Tickers :
        t # u /\ t[2] = k /\ u[2] = k => Twins(k)
<1> SUFFICES ASSUME FeedOK, NEW k, NEW t \in Live \cap Tickers, NEW u \in Live \cap Tickers,
                    t # u, t[2] = k, u[2] = k
             PROVE  Twins(k)
  OBVIOUS
<1>1. IsFiniteSet(TickersOf(k)) /\ Cardinality(TickersOf(k)) \in Nat
  BY TickersFinite
<1>2. {t} \cup {u} \subseteq TickersOf(k)
  BY DEF TickersOf
<1>3. IsFiniteSet({t}) /\ Cardinality({t}) = 1
  BY FS_Singleton
<1>4. Cardinality({t} \cup {u}) = 2
  <2>1. u \notin {t}
    OBVIOUS
  <2>2. Cardinality({t} \cup {u}) = Cardinality({t}) + 1
    BY <1>3, <2>1, FS_AddElement
  <2> QED BY <1>3, <2>2
<1>5. Cardinality({t} \cup {u}) <= Cardinality(TickersOf(k))
  BY <1>1, <1>2, FS_Subset
<1>6. Cardinality(TickersOf(k)) > 1
  BY <1>1, <1>4, <1>5
<1> QED BY <1>6 DEF Twins, TickersOf

LEMMA TwinsOfNext ==
    (FeedOK => \A k : \A t, u \in Live \cap Tickers :
        t # u /\ t[2] = k /\ u[2] = k => Twins(k))'
BY TwinsOf, PTL

LEMMA InitOnce == Init => OnceOK
<1> SUFFICES ASSUME Init PROVE OnceOK
  OBVIOUS
<1>1. twice = {} /\ Live = {} /\ DOMAIN buffer = {}
  BY DEF Init, Live
<1> QED BY <1>1 DEF OnceOK, NoTwice

(* Steps that leave the maps, the logs and the tickers alone. *)
LEMMA QuietOnce ==
    ASSUME FeedOK, FeedOK', OnceOK, feed' = feed,
           UNCHANGED <<buffer, userChangesTrades, stored, sent, twice>>,
           \A k \in Live \cap Tickers : k \in Live',
           \A k \in Live' \cap Tickers : Stays(k),
           \A k \in Live' \cap Consumers : Stays(k) \/ ConsumerOnce(k)'
    PROVE  OnceOK'
<1>1. ASSUME NEW k \in Live' \cap Consumers PROVE ConsumerOnce(k)'
  <2>1. CASE Stays(k)
    <3>1. ConsumerOnce(k) /\ job'[k] = job[k]
      BY <1>1, <2>1 DEF OnceOK, Stays
    <3>2. KeyOf(k)' = KeyOf(k)
      BY <2>1 DEF Stays, KeyOf, Item
    <3>3. \A n : FreshItem(k, n)' <=> FreshItem(k, n)
      BY <3>1 DEF FreshItem
    <3>4. ASSUME <<"100ms", KeyOf(k), k[2]>> \notin Live, job[k].place = "store", job[k].new
          PROVE  <<"100ms", KeyOf(k), k[2]>> \notin Live'
      <4>1. KeyOf(k) \in Keys /\ k[2] \in Msgs
        BY <1>1, <2>1, ItemIs DEF Stays
      <4>2. <<"100ms", KeyOf(k), k[2]>> \in Tickers
        BY <4>1 DEF Tickers
      <4> QED BY <3>4, <4>2 DEF Stays
    <3> QED BY <3>1, <3>2, <3>3, <3>4 DEF ConsumerOnce
  <2> QED BY <1>1, <2>1
<1>2. \A k \in DOMAIN buffer' : \E j \in Live' \cap Tickers : j[2] = k
  BY DEF OnceOK
<1>3. ASSUME NEW k \in DOMAIN buffer' PROVE Twins(k)' \/ ReadOnce(k)'
  <2>1. CASE Twins(k)
    BY <2>1, TwinsKept
  <2>2. CASE ReadOnce(k)
    BY <2>2 DEF ReadOnce, Stays
  <2> QED BY <1>3, <2>1, <2>2 DEF OnceOK
<1>4. NoTwice'
  <2>1. ASSUME NEW x \in twice PROVE Twins(x[1])'
    <3>1. PICK k : k = x[1]
      OBVIOUS
    <3>2. Twins(k)
      BY <3>1 DEF OnceOK, NoTwice
    <3> QED BY <3>1, <3>2, TwinsKept
  <2> QED BY <2>1 DEF NoTwice
<1> QED BY <1>1, <1>2, <1>3, <1>4 DEF OnceOK

(* A consumer stores only in its own rounds. *)
LEMMA ConsumerOnceStep ==
    ASSUME FeedOK, FeedOK', OnceOK, NEW j \in Live, ConsumerStep(j)
    PROVE  OnceOK'
<1>1. /\ UNCHANGED <<feed, buffer, userChangesTrades, stored, sent, twice>>
      /\ j \in Live \cap Consumers /\ (\A k \in Live \ {j} : Stays(k)) /\ Live' \subseteq Live
  BY DEF ConsumerStep, Quiet, maps
<1>2. ASSUME j \in Live' PROVE ConsumerOnce(j)'
  <2>1. job'[j].place # "store"
    BY <1>2 DEF ConsumerStep
  <2>2. ConsumerOnce(j) /\ ConsumerOK(j)
    BY <1>1, ItemIs DEF OnceOK
  <2>3. CASE job'[j].todo = job[j].todo /\ job[j].place # "send"
    BY <1>1, <2>1, <2>2, <2>3 DEF ConsumerOnce, FreshItem
  <2>4. CASE job'[j].todo = Tail(job[j].todo)
    <3>1. \A n \in DOMAIN Tail(job[j].todo) :
             n + 1 \in DOMAIN job[j].todo /\ n + 1 # 1 /\ Tail(job[j].todo)[n] = job[j].todo[n + 1]
      BY <2>2, TailIs DEF ConsumerOK
    <3>2. ASSUME NEW n \in DOMAIN job'[j].todo PROVE FreshItem(j, n)'
      <4>1. PICK p \in DOMAIN job[j].todo : p # 1 /\ job'[j].todo[n] = job[j].todo[p]
        BY <2>4, <3>1, <3>2
      <4>2. FreshItem(j, p)
        BY <2>2, <4>1 DEF ConsumerOnce
      <4> QED BY <1>1, <4>1, <4>2, Zenon DEF FreshItem
    <3> QED BY <2>1, <3>2 DEF ConsumerOnce
  <2> QED BY <1>2, <2>3, <2>4 DEF ConsumerStep
<1>3. \A k \in Live \cap Tickers : k \in Live'
  BY <1>1, Kinds DEF Stays
<1>4. \A k \in Live' \cap Tickers : Stays(k)
  BY <1>1, Kinds
<1>5. \A k \in Live' \cap Consumers : Stays(k) \/ ConsumerOnce(k)'
  BY <1>1, <1>2
<1> QED BY <1>1, <1>3, <1>4, <1>5, QuietOnce

LEMMA LookOnce ==
    ASSUME FeedOK, OnceOK, NEW j \in Live, Look(j)
    PROVE  OnceOK'
<1>1. /\ FeedOK' /\ j \in Live \cap Consumers /\ job[j].place = "look" /\ Quiet
      /\ \A k \in Live \ {j} : Stays(k)
      /\ Live \subseteq Live' /\ Live' \ Live \subseteq Aggs
      /\ job'[j].place = "store" /\ (job'[j].new <=> KeyOf(j) \notin DOMAIN buffer)
      /\ job'[j].todo = job[j].todo /\ KeyOf(j)' = KeyOf(j)
  BY LookStep
<1>2. UNCHANGED <<feed, buffer, userChangesTrades, stored, sent, twice>>
  BY <1>1 DEF Quiet, maps
<1>3. ConsumerOnce(j)'
  <2>1. ASSUME NEW n \in DOMAIN job[j].todo PROVE FreshItem(j, n)
    BY <1>1, <2>1 DEF OnceOK, ConsumerOnce
  <2>2. \A n \in DOMAIN job[j].todo : FreshItem(j, n)'
    BY <1>1, <1>2, <2>1 DEF FreshItem
  <2>3. ASSUME KeyOf(j) \notin DOMAIN buffer PROVE <<"100ms", KeyOf(j), j[2]>> \notin Live'
    <3> DEFINE t == <<"100ms", KeyOf(j), j[2]>>
    <3>1. KeyOf(j) \in Keys /\ j[2] \in Msgs
      BY <1>1, ItemIs
    <3>2. t \in Tickers /\ t[2] = KeyOf(j)
      BY <3>1 DEF Tickers
    <3> HIDE DEF t
    <3>3. t \notin Live
      BY <2>3, <3>2, TickerIs
    <3>4. t \notin Live'
      BY <1>1, <3>2, <3>3, Kinds
    <3> QED BY <3>4 DEF t
  <2> QED BY <1>1, <2>2, <2>3 DEF ConsumerOnce
<1> QED BY <1>1, <1>2, <1>3, Kinds, QuietOnce

LEMMA SendOnce ==
    ASSUME FeedOK, OnceOK, SendStep
    PROVE  OnceOK'
<1>1. PICK n, c :
        /\ UNCHANGED <<buffer, userChangesTrades, stored, sent, twice>> /\ FeedOK' /\ feed' = feed
        /\ n \notin DOMAIN msg
        /\ c \in Consumers /\ c[2] = n /\ Live \subseteq Live' /\ Live' \subseteq Live \cup {c}
        /\ \A k \in Live : Stays(k)
        /\ c \in Live' => ~job'[c].new
  <2> DEFINE n0 == Len(msg) + 1
             c0 == <<"consumer", n0>>
  <2>1. c0[2] = n0
    OBVIOUS
  <2>2. /\ UNCHANGED <<buffer, userChangesTrades, stored, sent, twice>> /\ FeedOK' /\ feed' = feed
        /\ n0 \notin DOMAIN msg
        /\ c0 \in Consumers /\ Live \subseteq Live' /\ Live' \subseteq Live \cup {c0}
        /\ \A k \in Live : Stays(k)
        /\ c0 \in Live' => ~job'[c0].new
    BY DEF SendStep, Grows
  <2> HIDE DEF c0, n0
  <2> QED BY <2>1, <2>2
<1>3. ASSUME c \in Live' PROVE ConsumerOnce(c)'
  <2>1. \A x \in stored : x[2][1] # c[2]
    BY <1>1 DEF FeedOK, LogsOK, Fits
  <2>2. \A p : FreshItem(c, p)'
    BY <1>1, <2>1 DEF FreshItem
  <2> QED BY <1>1, <1>3, <2>2 DEF ConsumerOnce
<1> QED BY <1>1, <1>3, Kinds, QuietOnce

(* A step of a ticker: nothing is stored.                                  *)
LEMMA TickerOnce ==
    ASSUME FeedOK, FeedOK', OnceOK, feed' = feed, UNCHANGED stored,
           DOMAIN buffer' = DOMAIN buffer, NEW j, TickerStep(j),
           \A k \in DOMAIN buffer : k = j[2] \/
               (/\ buffer'[k] = buffer[k] /\ userChangesTrades'[k] = userChangesTrades[k]
                /\ \A e : <<k, e>> \in sent' => <<k, e>> \in sent),
           Twins(j[2]) \/ ReadOnce(j[2])',
           \A x \in twice' : x \in twice \/ Twins(x[1])
    PROVE  OnceOK'
<1>1. Live' = Live /\ (\A k \in Live \ {j} : Stays(k)) /\ j \in Tickers
  BY DEF TickerStep
<1>2. ASSUME NEW k \in Live' \cap Consumers PROVE ConsumerOnce(k)'
  <2>1. Stays(k)
    BY <1>1, <1>2, Kinds
  <2>2. ConsumerOnce(k) /\ job'[k] = job[k]
    BY <1>2, <2>1 DEF OnceOK, Stays
  <2>3. KeyOf(k)' = KeyOf(k)
    BY <2>1 DEF Stays, KeyOf, Item
  <2>4. \A n : FreshItem(k, n)' <=> FreshItem(k, n)
    BY <2>2 DEF FreshItem
  <2> QED BY <1>1, <2>2, <2>3, <2>4 DEF ConsumerOnce
<1>3. \A k \in DOMAIN buffer' : \E t \in Live' \cap Tickers : t[2] = k
  BY <1>1 DEF OnceOK
<1>4. ASSUME NEW k \in DOMAIN buffer' PROVE Twins(k)' \/ ReadOnce(k)'
  <2>1. CASE Twins(k)
    BY <1>1, <2>1, TwinsKept
  <2>2. CASE k # j[2] /\ ReadOnce(k)
    <3>1. \A t \in Live \cap Tickers : t[2] = k => t \in Live' /\ job'[t] = job[t]
      BY <1>1, <2>2 DEF Stays
    <3>2. /\ buffer'[k] = buffer[k] /\ userChangesTrades'[k] = userChangesTrades[k]
          /\ \A e : <<k, e>> \in sent' => <<k, e>> \in sent
      BY <1>4, <2>2
    <3> QED BY <1>1, <2>2, <3>1, <3>2 DEF ReadOnce
  <2>3. CASE k = j[2]
    BY <2>1, <2>3
  <2> QED BY <1>4, <2>1, <2>2, <2>3 DEF OnceOK
<1>5. NoTwice'
  <2>1. ASSUME NEW x \in twice' PROVE Twins(x[1])'
    <3>1. PICK k : k = x[1]
      OBVIOUS
    <3>2. Twins(k)
      BY <2>1, <3>1 DEF OnceOK, NoTwice
    <3> QED BY <1>1, <3>1, <3>2, TwinsKept
  <2> QED BY <2>1 DEF NoTwice
<1> QED BY <1>2, <1>3, <1>4, <1>5 DEF OnceOK

(* The only ticker of its key.                                             *)
LEMMA OnlyTicker ==
    ASSUME FeedOK, NEW j \in Live \cap Tickers, ~Twins(j[2]),
           NEW t \in Live \cap Tickers, t[2] = j[2]
    PROVE  t = j
BY TwinsOf

(* It reads.                                                               *)
LEMMA ReadingOnce ==
    ASSUME FeedOK, FeedOK', OnceOK, Quiet, NEW j, TickerStep(j), job[j].place # "reset",
           ~Twins(j[2]) =>
               \A e \in job'[j].main \cup job'[j].trades :
                   e \in job[j].main \cup job[j].trades \cup buffer[j[2]]
                         \cup userChangesTrades[j[2]]
    PROVE  OnceOK'
<1>1. /\ UNCHANGED <<feed, buffer, userChangesTrades, stored, sent, twice>>
      /\ Live' = Live /\ j \in Live \cap Tickers /\ j[2] \in DOMAIN buffer
      /\ \A k \in Live \ {j} : Stays(k)
  BY DEF Quiet, maps, TickerStep
<1>2. ASSUME ~Twins(j[2]) PROVE ReadOnce(j[2])'
  <2>1. \A t \in Live \cap Tickers : t[2] = j[2] => t = j
    BY <1>1, <1>2, OnlyTicker
  <2>2. ReadOnce(j[2])
    BY <1>1, <1>2 DEF OnceOK
  <2>3. \A t \in Live \cap Tickers : t[2] = j[2] => job[t].place # "reset"
    BY <2>1
  <2>4. /\ \A e \in buffer[j[2]] \cup userChangesTrades[j[2]] : <<j[2], e>> \notin sent
        /\ \A e \in job[j].main \cup job[j].trades : <<j[2], e>> \notin sent
    BY <1>1, <2>2, <2>3 DEF ReadOnce
  <2>5. \A e \in job'[j].main \cup job'[j].trades : <<j[2], e>> \notin sent
    BY <1>2, <2>4
  <2> QED BY <1>1, <2>1, <2>4, <2>5 DEF ReadOnce
<1> QED BY <1>1, <1>2, TickerOnce

LEMMA TickOnce ==
    ASSUME FeedOK, OnceOK, NEW j \in Live, Tick(j)
    PROVE  OnceOK'
BY TickStep, ReadingOnce

LEMMA TickTradesOnce ==
    ASSUME FeedOK, OnceOK, NEW j \in Live, TickTrades(j)
    PROVE  OnceOK'
BY TickTradesStep, ReadingOnce

LEMMA QueryOnce ==
    ASSUME FeedOK, OnceOK, NEW j \in Live, Query(j)
    PROVE  OnceOK'
BY QueryStep, ReadingOnce

(* What the only ticker of a key sends has not been sent. *)
LEMMA FlushOnce ==
    ASSUME FeedOK, OnceOK, NEW j \in Live, Flush(j)
    PROVE  OnceOK'
<1>1. /\ FeedOK' /\ TickerStep(j)
      /\ UNCHANGED <<feed, buffer, userChangesTrades, stored>>
      /\ sent' = sent \cup {<<j[2], e>> : e \in (job[j].main \cup job[j].trades) \ Mark}
      /\ twice' = twice \cup
           ({<<j[2], e>> : e \in (job[j].main \cup job[j].trades) \ Mark} \cap sent)
      /\ job'[j].place = After("flush") /\ job'[j].main = {} /\ job'[j].trades = {}
  BY FlushStep
<1>2. j \in Live \cap Tickers /\ j[2] \in DOMAIN buffer /\ Live' = Live
      /\ \A k \in Live \ {j} : Stays(k)
  BY <1>1 DEF TickerStep
<1>3. \A k : k # j[2] => \A e : <<k, e>> \in sent' => <<k, e>> \in sent
  BY <1>1
<1>4. \A x \in twice' : x \in twice \/ Twins(x[1])
  <2>1. CASE Twins(j[2])
    BY <1>1, <2>1
  <2>2. CASE ReadOnce(j[2])
    <3>1. \A e \in job[j].main \cup job[j].trades : <<j[2], e>> \notin sent
      BY <1>2, <2>2 DEF ReadOnce
    <3> QED BY <1>1, <3>1
  <2> QED BY <1>2, <2>1, <2>2 DEF OnceOK
<1>5. ReadOnce(j[2])' \/ Twins(j[2])
  <2>1. CASE feed = "ticker"
    <3>1. sent' = {}
      BY <1>1, <2>1 DEF FeedOK, LogsOK
    <3> QED BY <3>1 DEF ReadOnce
  <2>2. CASE feed # "ticker" /\ ~Twins(j[2])
    <3>1. feed \in Feeds
      BY DEF FeedOK
    <3>2. job'[j].place = "reset"
      BY <1>1, <2>2, <3>1, AfterIs
    <3>3. \A t \in Live' \cap Tickers : t[2] = j[2] => t = j
      BY <1>2, <2>2, OnlyTicker
    <3> QED BY <1>1, <1>2, <3>2, <3>3 DEF ReadOnce
  <2> QED BY <2>1, <2>2
<1> QED BY <1>1, <1>3, <1>4, <1>5, TickerOnce

LEMMA ResetOnce ==
    ASSUME FeedOK, OnceOK, NEW j \in Live, Reset(j)
    PROVE  OnceOK'
<1>1. /\ FeedOK' /\ TickerStep(j)
      /\ UNCHANGED <<feed, stored, sent, twice>>
      /\ DOMAIN buffer' = DOMAIN buffer /\ buffer'[j[2]] = {} /\ userChangesTrades'[j[2]] = {}
      /\ \A k \in DOMAIN buffer \ {j[2]} : buffer'[k] = buffer[k]
      /\ \A k \in Keys \ {j[2]} : userChangesTrades'[k] = userChangesTrades[k]
      /\ job'[j].main = {} /\ job'[j].trades = {}
  BY ResetStep
<1>2. j \in Live \cap Tickers /\ j[2] \in DOMAIN buffer /\ Live' = Live
  BY <1>1 DEF TickerStep
<1>3. DOMAIN buffer \subseteq Keys
  BY DEF FeedOK, MapsOK
<1>4. ReadOnce(j[2])' \/ Twins(j[2])
  <2>1. ASSUME ~Twins(j[2]) PROVE ReadOnce(j[2])'
    <3>1. \A t \in Live' \cap Tickers : t[2] = j[2] => t = j
      BY <1>2, <2>1, OnlyTicker
    <3> QED BY <1>1, <3>1 DEF ReadOnce
  <2> QED BY <2>1
<1> QED BY <1>1, <1>3, <1>4, TickerOnce

(* What is in an entry after Store: what was there, and its own.           *)
LEMMA StoredFrom ==
    ASSUME FeedOK, NEW j \in Live, Store(j)
    PROVE  /\ \A e \in userChangesTrades'[KeyOf(j)] :
                e \in userChangesTrades[KeyOf(j)] \/ e \in job[j].trades
           /\ KeyOf(j) \in DOMAIN buffer =>
                \A e \in buffer'[KeyOf(j)] : e \in buffer[KeyOf(j)] \/ e \in Main(j)
           /\ KeyOf(j) \notin DOMAIN buffer => buffer'[KeyOf(j)] = Main(j) /\ job[j].new
<1> DEFINE key == KeyOf(j)
<1>1. StoreStep(j)
  BY StoreIs
<1>2. /\ job[j].place = "store" /\ key \in Keys
      /\ buffer'[key] = IF key \in DOMAIN buffer
                        THEN Merged(buffer[key], Main(j), job[j].new) ELSE Main(j)
      /\ userChangesTrades'[key] = TradesAfter(j, userChangesTrades[key])
  BY <1>1, Zenon DEF StoreStep
<1>3. key \notin DOMAIN buffer => job[j].new
  BY <1>1, <1>2, ItemIs DEF ConsumerOK, StoreStep
<1> QED BY <1>2, <1>3 DEF TradesAfter, Merged

(* What a consumer stores has not been sent; the ticker it starts beside   *)
(* another is a twin.                                                      *)
LEMMA StoreOnce ==
    ASSUME FeedOK, StoreOK, OnceOK, NEW j \in Live, Store(j)
    PROVE  OnceOK'
<1>0. PICK key, t : key = KeyOf(j) /\ t = <<"100ms", KeyOf(j), j[2]>>
  OBVIOUS
<1>1. StoreStep(j)
  BY StoreIs
<1>2. /\ j \in Live \cap Consumers /\ job[j].place = "store" /\ key \in Keys /\ t \in Tickers
      /\ UNCHANGED <<feed, msg, sent, twice>>
      /\ \A k \in Live \ {j} : Stays(k)
      /\ Live' = Live \cup {x \in {t} : job[j].new}
      /\ job'[j].place = "send" /\ ~job'[j].new /\ job'[j].todo = job[j].todo
      /\ \A k \in Live' \ Live : job'[k] = At("tick", << >>)
      /\ stored' = stored \cup {<<key, e>> : e \in New(j)}
      /\ DOMAIN buffer' = DOMAIN buffer \cup {key}
      /\ \A k \in DOMAIN buffer \ {key} : buffer'[k] = buffer[k]
      /\ \A k \in Keys \ {key} : userChangesTrades'[k] = userChangesTrades[k]
  BY <1>0, <1>1, Zenon DEF StoreStep
<1>3. /\ \A e \in userChangesTrades'[key] : e \in userChangesTrades[key] \/ e \in job[j].trades
      /\ key \in DOMAIN buffer => \A e \in buffer'[key] : e \in buffer[key] \/ e \in Main(j)
      /\ key \notin DOMAIN buffer => buffer'[key] = Main(j) /\ job[j].new
  BY <1>0, StoredFrom
<1>4. FeedOK'
  BY StoreOKs
<1>5. ConsumerOnce(j) /\ ConsumerOK(j) /\ t[2] = key /\ key = job[j].todo[1].key
      /\ Item(j) = job[j].todo[1] /\ 1 \in DOMAIN job[j].todo
  BY <1>0, <1>2, ItemIs DEF OnceOK
<1>6. job[j].new => t \notin Live
  BY <1>0, <1>2, <1>5 DEF ConsumerOnce
<1>7. \A e \in New(j) : /\ e[1] = j[2] /\ msg[j[2]].kind = "saved"
                        /\ feed = "orders" => e[2] \in Item(j).orders
  <2>1. ASSUME NEW e \in New(j), feed = "orders" PROVE e[2] \in Item(j).orders
    BY <1>5, <2>1 DEF ConsumerOK, New
  <2> QED BY <1>2, <2>1, NewIs
<1>8. Live \cap Tickers \subseteq Live'
  BY <1>2
<1>9. ASSUME NEW k \in Live' \cap Consumers PROVE ConsumerOnce(k)'
  <2>1. CASE k = j
    <3>1. ASSUME NEW n \in DOMAIN job[j].todo, n # 1 PROVE FreshItem(j, n)'
      <4>1. FreshItem(j, n)
        BY <1>5, <3>1 DEF ConsumerOnce
      <4>2. Apart(feed, msg[j[2]].kind, job[j].todo)
        BY <1>5 DEF ConsumerOK
      <4>3. ASSUME NEW e \in New(j), key = job[j].todo[n].key
            PROVE  feed = "orders" /\ e[2] \notin job[j].todo[n].orders
        <5>1. \/ feed = "orders" /\ job[j].todo[1].orders \cap job[j].todo[n].orders = {}
              \/ msg[j[2]].kind = "cancelled"
          BY <1>5, <3>1, <4>2, <4>3 DEF Apart
        <5> QED BY <1>5, <1>7, <5>1
      <4>4. ASSUME NEW x \in stored', x[1] = job'[j].todo[n].key, x[2][1] = j[2]
            PROVE  feed' = "orders" /\ x[2][2] \notin job'[j].todo[n].orders
        <5>1. CASE x \in stored
          BY <1>2, <4>1, <4>4, <5>1 DEF FreshItem
        <5>2. CASE x \notin stored
          <6>1. PICK e \in New(j) : x = <<key, e>>
            BY <1>2, <5>2
          <6> QED BY <1>2, <4>3, <4>4, <6>1
        <5> QED BY <5>1, <5>2
      <4> QED BY <4>4 DEF FreshItem
    <3> QED BY <1>2, <2>1, <3>1 DEF ConsumerOnce
  <2>2. CASE k # j
    <3>1. Stays(k) /\ k \in Live /\ k[2] # j[2] /\ KeyOf(k)' = KeyOf(k)
      <4>1. Stays(k)
        BY <1>1, <1>9, <2>2, StoreOthers
      <4>2. k[2] # j[2]
        BY <1>2, <1>9, <2>2, SameConsumer
      <4>3. KeyOf(k)' = KeyOf(k)
        BY <4>1 DEF Stays, KeyOf, Item
      <4> QED BY <4>1, <4>2, <4>3 DEF Stays
    <3>2. ConsumerOnce(k) /\ job'[k] = job[k]
      BY <1>9, <3>1 DEF OnceOK, Stays
    <3>3. ASSUME NEW n, FreshItem(k, n) PROVE FreshItem(k, n)'
      <4>1. \A x \in stored' : x[2][1] = k[2] => x \in stored
        BY <1>2, <1>7, <3>1
      <4> QED BY <1>2, <3>2, <3>3, <4>1 DEF FreshItem
    <3>4. ASSUME <<"100ms", KeyOf(k), k[2]>> \notin Live
          PROVE  <<"100ms", KeyOf(k), k[2]>> \notin Live'
      <4>1. <<"100ms", KeyOf(k), k[2]>> # t
        BY <1>0, <3>1
      <4> QED BY <1>2, <3>4, <4>1
    <3> QED BY <3>1, <3>2, <3>3, <3>4 DEF ConsumerOnce
  <2> QED BY <2>1, <2>2
<1>10. ASSUME NEW k \in DOMAIN buffer' PROVE \E u \in Live' \cap Tickers : u[2] = k
  <2>1. CASE k \in DOMAIN buffer
    BY <1>8, <2>1 DEF OnceOK
  <2>2. CASE k \notin DOMAIN buffer
    <3>1. k = key /\ job[j].new
      BY <1>2, <1>3, <1>10, <2>2
    <3> QED BY <1>2, <1>5, <3>1
  <2> QED BY <2>1, <2>2
<1>11. \A u \in Live' \cap Tickers :
          /\ u \in Live => job'[u] = job[u]
          /\ u \notin Live => u = t /\ job'[u].main = {} /\ job'[u].trades = {}
                              /\ job'[u].place = "tick"
  <2>1. ASSUME NEW u \in Live' \cap Tickers, u \in Live PROVE job'[u] = job[u]
    BY <1>2, <2>1, Kinds DEF Stays
  <2>2. ASSUME NEW u \in Live' \cap Tickers, u \notin Live
        PROVE  u = t /\ job'[u].main = {} /\ job'[u].trades = {} /\ job'[u].place = "tick"
    BY <1>2, <2>2 DEF At
  <2> QED BY <2>1, <2>2
<1>12. ASSUME NEW k \in DOMAIN buffer' PROVE Twins(k)' \/ ReadOnce(k)'
  <2>1. CASE k # key
    <3>1. k \in DOMAIN buffer /\ k \in Keys
      BY <1>2, <1>12, <2>1 DEF FeedOK, MapsOK
    <3>2. CASE Twins(k)
      BY <1>4, <1>8, <3>2, TwinsKept
    <3>3. CASE ReadOnce(k)
      <4>1. \A u \in Live' \cap Tickers : u[2] = k => u \in Live /\ job'[u] = job[u]
        BY <1>5, <1>11, <2>1
      <4>2. /\ buffer'[k] = buffer[k] /\ userChangesTrades'[k] = userChangesTrades[k]
            /\ sent' = sent
        BY <1>2, <2>1, <3>1
      <4> QED BY <1>8, <3>3, <4>1, <4>2 DEF ReadOnce
    <3> QED BY <3>1, <3>2, <3>3 DEF OnceOK
  <2>2. CASE k = key /\ key \notin DOMAIN buffer
    <3>1. \A e : <<k, e>> \notin stored
      BY <2>2 DEF StoreOK
    <3>2. \A e : <<k, e>> \notin sent'
      BY <1>2, <3>1 DEF FeedOK, LogsOK
    <3> QED BY <3>2 DEF ReadOnce
  <2>3. CASE k = key /\ key \in DOMAIN buffer /\ job[j].new
    <3>1. PICK u \in Live \cap Tickers : u[2] = key
      BY <2>3 DEF OnceOK
    <3>2. u # t /\ u \in Live' \cap Tickers /\ t \in Live' \cap Tickers
      BY <1>2, <1>6, <1>8, <2>3, <3>1
    <3> QED BY <1>4, <1>5, <2>3, <3>1, <3>2, TwinsOfNext
  <2>4. CASE k = key /\ key \in DOMAIN buffer /\ ~job[j].new
    <3>1. CASE Twins(k)
      BY <1>4, <1>8, <3>1, TwinsKept
    <3>2. CASE ReadOnce(k)
      <4>1. Live' = Live /\ sent' = sent
        BY <1>2, <2>4
      <4>2. ASSUME NEW e \in New(j) PROVE <<key, e>> \notin sent
        <5>1. FreshItem(j, 1)
          BY <1>2, <1>5 DEF ConsumerOnce
        <5>2. <<key, e>> \notin stored
          BY <1>5, <1>7, <5>1 DEF FreshItem
        <5> QED BY <5>2 DEF FeedOK, LogsOK
      <4>3. ASSUME NEW e \in Main(j) PROVE <<key, e>> \notin sent
        <5>1. CASE feed = "ticker"
          <6>1. sent = {}
            BY <5>1 DEF FeedOK, LogsOK
          <6> QED BY <6>1
        <5>2. CASE feed # "ticker"
          BY <4>2, <4>3, <5>2 DEF Main, New
        <5> QED BY <5>1, <5>2
      <4>4. \A e \in job[j].trades : <<key, e>> \notin sent
        BY <4>2 DEF New
      <4>5. ASSUME \A u \in Live \cap Tickers : u[2] = k => job[u].place # "reset",
                   NEW e \in buffer'[k] \cup userChangesTrades'[k]
            PROVE  <<k, e>> \notin sent
        <5>1. \A d \in buffer[k] \cup userChangesTrades[k] : <<k, d>> \notin sent
          BY <3>2, <4>5 DEF ReadOnce
        <5> QED BY <1>3, <2>4, <4>3, <4>4, <4>5, <5>1
      <4>6. \A u \in Live \cap Tickers : job'[u] = job[u]
        BY <1>11, <4>1
      <4>7. \A u \in Live \cap Tickers : u[2] = k =>
               \A e \in job'[u].main \cup job'[u].trades : <<k, e>> \notin sent
        BY <3>2, <4>6 DEF ReadOnce
      <4> QED BY <4>1, <4>5, <4>6, <4>7 DEF ReadOnce
    <3> QED BY <2>4, <3>1, <3>2 DEF OnceOK
  <2> QED BY <2>1, <2>2, <2>3, <2>4
<1>13. NoTwice'
  <2>1. ASSUME NEW x \in twice PROVE Twins(x[1])'
    <3>1. PICK k : k = x[1]
      OBVIOUS
    <3>2. Twins(k)
      BY <3>1 DEF OnceOK, NoTwice
    <3> QED BY <1>4, <1>8, <3>1, <3>2, TwinsKept
  <2> QED BY <1>2, <2>1 DEF NoTwice
<1> QED BY <1>9, <1>10, <1>12, <1>13 DEF OnceOK

LEMMA StepOnce == FeedOK /\ StoreOK /\ OnceOK /\ [Next]_vars => OnceOK'
<1> SUFFICES ASSUME FeedOK, StoreOK, OnceOK, [Next]_vars PROVE OnceOK'
  OBVIOUS
<1>0. FeedOK'
  BY StepOK
<1>1. CASE UNCHANGED vars
  <2>1. UNCHANGED <<feed, buffer, userChangesTrades, stored, sent, twice, job>> /\ Live' = Live
    BY <1>1 DEF vars, maps, ghosts, Live
  <2>2. \A k \in Live' : Stays(k)
    BY <2>1 DEF Stays
  <2> QED BY <1>0, <2>1, <2>2, QuietOnce
<1>2. ASSUME NEW makers \in SUBSET Orders, NEW taker \in Orders, Save(makers, taker)
      PROVE  OnceOK'
  BY <1>2, SaveStep, SendOnce
<1>3. ASSUME NEW orders \in SUBSET Orders, CancelAll(orders) PROVE OnceOK'
  BY <1>3, CancelStep, SendOnce
<1>4. ASSUME NEW j \in Live, Run(j) PROVE OnceOK'
  <2>1. CASE Find(j) \/ Read(j) \/ Broadcast(j)
    BY <1>0, <2>1, FindStep, ReadStep, BroadcastStep, ConsumerOnceStep
  <2>3. CASE Look(j)
    BY <2>3, LookOnce
  <2>4. CASE Store(j)
    BY <2>4, StoreOnce
  <2>6. CASE AggTicker(j)
    <3>1. /\ UNCHANGED <<feed, buffer, userChangesTrades, stored, sent, twice>>
          /\ j \in Aggs /\ Live' = Live \ {j} /\ \A k \in Live \ {j} : Stays(k)
      BY <2>6, AggStep DEF Quiet, maps
    <3>2. /\ \A k \in Live \cap Tickers : k \in Live'
          /\ \A k \in Live' : Stays(k)
      BY <3>1, Kinds
    <3> QED BY <1>0, <3>1, <3>2, QuietOnce
  <2>7. CASE Tick(j)
    BY <2>7, TickOnce
  <2>8. CASE TickTrades(j)
    BY <2>8, TickTradesOnce
  <2>9. CASE Flush(j)
    BY <2>9, FlushOnce
  <2>10. CASE Reset(j)
    BY <2>10, ResetOnce
  <2>11. CASE Query(j)
    BY <2>11, QueryOnce
  <2> QED BY <1>4, <2>1, <2>3, <2>4, <2>6, <2>7, <2>8, <2>9, <2>10, <2>11 DEF Run
<1> QED BY <1>1, <1>2, <1>3, <1>4 DEF Next

(* Nothing is sent twice without twins. *)
LEMMA OnceInv == Spec => []OnceOK
BY FeedInv, StoreInv, InitOnce, StepOnce, PTL DEF Spec

(* NoTwice: only where two consumers of a new key have each started a      *)
(* ticker is anything broadcast in two ticks.                              *)
THEOREM SentOnce == Spec => []NoTwice
<1>1. OnceOK => NoTwice
  BY DEF OnceOK
<1> QED BY <1>1, OnceInv, PTL

-----------------------------------------------------------------------------
LEMMA InitAlong == Init => AlongOK
<1> SUFFICES ASSUME Init PROVE AlongOK
  OBVIOUS
<1>1. DOMAIN buffer = {}
  BY DEF Init
<1> QED BY <1>1 DEF AlongOK

(* What is stored, or read from what is stored, is of a message there is.  *)
LEMMA StoredMsg ==
    ASSUME FeedOK, feed = "changes"
    PROVE  /\ \A k \in DOMAIN buffer : \A e \in buffer[k] : e[1] \in DOMAIN msg
           /\ \A t \in Live \cap Tickers : \A e \in job[t].main : e[1] \in DOMAIN msg
<1>1. \A x \in stored : x[2][1] \in DOMAIN msg
  BY DEF FeedOK, LogsOK, Fits
<1>2. ASSUME NEW k, NEW e, <<k, e>> \in stored PROVE e[1] \in DOMAIN msg
  BY <1>1, <1>2
<1>3. ASSUME NEW k \in DOMAIN buffer, NEW e \in buffer[k] PROVE <<k, e>> \in stored
  BY <1>3 DEF FeedOK, MapsOK
<1>4. ASSUME NEW t \in Live \cap Tickers, NEW e \in job[t].main PROVE <<t[2], e>> \in stored
  BY <1>4, TickerIs DEF TickerOK
<1> QED BY <1>2, <1>3, <1>4

LEMMA SameTrades ==
    ASSUME FeedOK, feed = "changes", Grows
    PROVE  /\ \A k \in DOMAIN buffer : \A e \in buffer[k] :
                \A u : TradesOf(e[1], u)' = TradesOf(e[1], u)
           /\ \A t \in Live \cap Tickers : \A e \in job[t].main :
                \A u : TradesOf(e[1], u)' = TradesOf(e[1], u)
<1>1. ASSUME NEW m \in DOMAIN msg PROVE \A u : TradesOf(m, u)' = TradesOf(m, u)
  BY <1>1, KeptMessages
<1>2. ASSUME NEW k \in DOMAIN buffer, NEW e \in buffer[k]
      PROVE  \A u : TradesOf(e[1], u)' = TradesOf(e[1], u)
  <2>1. PICK m \in DOMAIN msg : m = e[1]
    BY <1>2, StoredMsg
  <2>2. \A u : TradesOf(m, u)' = TradesOf(m, u)
    BY <1>1
  <2> QED BY <2>1, <2>2
<1>3. ASSUME NEW t \in Live \cap Tickers, NEW e \in job[t].main
      PROVE  \A u : TradesOf(e[1], u)' = TradesOf(e[1], u)
  <2>1. PICK m \in DOMAIN msg : m = e[1]
    BY <1>3, StoredMsg
  <2>2. \A u : TradesOf(m, u)' = TradesOf(m, u)
    BY <1>1
  <2> QED BY <2>1, <2>2
<1> QED BY <1>2, <1>3

(* The entry and the tickers of k are as they were. *)
LEMMA SameAlong ==
    ASSUME FeedOK, feed = "changes", Grows, NEW k \in DOMAIN buffer, Along(k),
           buffer'[k] = buffer[k], userChangesTrades[k] \subseteq userChangesTrades'[k],
           \A t \in Live' \cap Tickers : t[2] = k => Stays(t) \/ job'[t].place = "tick"
    PROVE  Along(k)'
<1>1. \A e \in buffer[k] : \A u : TradesOf(e[1], u)' = TradesOf(e[1], u)
  BY SameTrades
<1>2. \A t \in Live \cap Tickers : \A e \in job[t].main :
          \A u : TradesOf(e[1], u)' = TradesOf(e[1], u)
  BY SameTrades
<1>3. \A e \in buffer'[k] : TradesOf(e[1], k[2])' \subseteq userChangesTrades'[k]
  BY <1>1 DEF Along
<1>4. ASSUME NEW t \in Live' \cap Tickers, t[2] = k
      PROVE  /\ job'[t].place = "trades" =>
                   \A e \in job'[t].main : TradesOf(e[1], k[2])' \subseteq userChangesTrades'[k]
             /\ job'[t].place = "flush" =>
                   \A e \in job'[t].main : TradesOf(e[1], k[2])' \subseteq job'[t].trades
  <2>1. CASE job'[t].place = "tick"
    BY <2>1
  <2>2. CASE Stays(t)
    <3>1. t \in Live \cap Tickers /\ job'[t] = job[t]
      BY <1>4, <2>2 DEF Stays
    <3> QED BY <1>2, <1>4, <3>1 DEF Along
  <2> QED BY <1>4, <2>1, <2>2
<1> QED BY <1>3, <1>4 DEF Along

(* Steps that leave the entries and the tickers alone. *)
LEMMA QuietAlong ==
    ASSUME FeedOK, FeedOK', AlongOK, Grows, UNCHANGED <<buffer, userChangesTrades>>,
           \A k \in Live \cap Tickers : k \in Live',
           \A k \in Live' \cap Tickers : Stays(k)
    PROVE  AlongOK'
<1>1. ASSUME feed = "changes", NEW k \in DOMAIN buffer' PROVE Twins(k)' \/ Along(k)'
  <2>1. CASE Twins(k)
    BY <2>1, TwinsKept
  <2>2. CASE Along(k)
    BY <1>1, <2>2, SameAlong
  <2> QED BY <1>1, <2>1, <2>2 DEF AlongOK
<1> QED BY <1>1 DEF AlongOK, Grows

(* A step of a ticker. *)
LEMMA TickerAlong ==
    ASSUME FeedOK, FeedOK', AlongOK, UNCHANGED <<feed, msg>>,
           DOMAIN buffer' = DOMAIN buffer, NEW j, TickerStep(j),
           \A k \in DOMAIN buffer : k = j[2] \/
               (buffer'[k] = buffer[k] /\ userChangesTrades'[k] = userChangesTrades[k]),
           feed = "changes" /\ ~Twins(j[2]) =>
               /\ \A e \in buffer'[j[2]] : TradesOf(e[1], j[2][2]) \subseteq userChangesTrades'[j[2]]
               /\ job'[j].place = "trades" =>
                    \A e \in job'[j].main : TradesOf(e[1], j[2][2]) \subseteq userChangesTrades'[j[2]]
               /\ job'[j].place = "flush" =>
                    \A e \in job'[j].main : TradesOf(e[1], j[2][2]) \subseteq job'[j].trades
    PROVE  AlongOK'
<1>1. Live' = Live /\ (\A k \in Live \ {j} : Stays(k)) /\ j \in Live \cap Tickers
  BY DEF TickerStep
<1>2. Grows
  BY DEF Grows
<1>3. \A m, u : TradesOf(m, u)' = TradesOf(m, u)
  BY Zenon DEF TradesOf, FindTradesByInstrument, FindTradesEachUser, Makers, Taker
<1>4. ASSUME feed = "changes", NEW k \in DOMAIN buffer' PROVE Twins(k)' \/ Along(k)'
  <2>1. CASE Twins(k)
    BY <1>1, <2>1, TwinsKept
  <2>2. CASE k # j[2] /\ Along(k)
    <3>1. \A t \in Live' \cap Tickers : t[2] = k => Stays(t)
      BY <1>1, <2>2
    <3>2. buffer'[k] = buffer[k] /\ userChangesTrades'[k] = userChangesTrades[k]
          /\ k \in DOMAIN buffer
      BY <1>4, <2>2
    <3> QED BY <1>2, <1>4, <2>2, <3>1, <3>2, SameAlong
  <2>3. CASE k = j[2] /\ ~Twins(k)
    <3>1. \A t \in Live' \cap Tickers : t[2] = k => t = j
      BY <1>1, <2>3, OnlyTicker
    <3>2. /\ \A e \in buffer'[k] : TradesOf(e[1], k[2])' \subseteq userChangesTrades'[k]
          /\ job'[j].place = "trades" =>
               \A e \in job'[j].main : TradesOf(e[1], k[2])' \subseteq userChangesTrades'[k]
          /\ job'[j].place = "flush" =>
               \A e \in job'[j].main : TradesOf(e[1], k[2])' \subseteq job'[j].trades
      BY <1>3, <1>4, <2>3
    <3> QED BY <3>1, <3>2 DEF Along
  <2> QED BY <1>4, <2>1, <2>2, <2>3 DEF AlongOK
<1> QED BY <1>4 DEF AlongOK

LEMMA TickAlong ==
    ASSUME FeedOK, AlongOK, NEW j \in Live, Tick(j)
    PROVE  AlongOK'
<1>1. /\ FeedOK' /\ Quiet /\ TickerStep(j)
      /\ job'[j].place = After("tick") /\ job'[j].main = buffer[j[2]]
  BY TickStep
<1>2. UNCHANGED <<feed, msg, buffer, userChangesTrades>> /\ j[2] \in DOMAIN buffer
      /\ feed \in Feeds
  BY <1>1 DEF Quiet, maps, TickerStep, FeedOK
<1>3. feed = "changes" => job'[j].place = "trades"
  BY <1>1, <1>2, AfterIs
<1>4. feed = "changes" /\ ~Twins(j[2]) =>
        \A e \in buffer[j[2]] : TradesOf(e[1], j[2][2]) \subseteq userChangesTrades[j[2]]
  BY <1>2 DEF AlongOK, Along
<1> QED BY <1>1, <1>2, <1>3, <1>4, TickerAlong

LEMMA TickTradesAlong ==
    ASSUME FeedOK, AlongOK, NEW j \in Live, TickTrades(j)
    PROVE  AlongOK'
<1>1. /\ FeedOK' /\ Quiet /\ TickerStep(j) /\ job[j].place = "trades"
      /\ job'[j].place = "flush"
      /\ job'[j].main = job[j].main /\ job'[j].trades = userChangesTrades[j[2]]
  BY TickTradesStep
<1>2. UNCHANGED <<feed, msg, buffer, userChangesTrades>> /\ j[2] \in DOMAIN buffer
      /\ j \in Live \cap Tickers
  BY <1>1 DEF Quiet, maps, TickerStep
<1>3. feed = "changes" /\ ~Twins(j[2]) =>
        /\ \A e \in buffer[j[2]] : TradesOf(e[1], j[2][2]) \subseteq userChangesTrades[j[2]]
        /\ \A e \in job[j].main : TradesOf(e[1], j[2][2]) \subseteq userChangesTrades[j[2]]
  BY <1>1, <1>2 DEF AlongOK, Along
<1> QED BY <1>1, <1>2, <1>3, TickerAlong

LEMMA QueryAlong ==
    ASSUME FeedOK, AlongOK, NEW j \in Live, Query(j)
    PROVE  AlongOK'
<1>1. Quiet /\ feed = "ticker"
  BY QueryStep
<1> QED BY <1>1 DEF AlongOK, Quiet

LEMMA FlushAlong ==
    ASSUME FeedOK, AlongOK, NEW j \in Live, Flush(j)
    PROVE  AlongOK'
<1>1. /\ FeedOK' /\ TickerStep(j) /\ UNCHANGED <<feed, msg, buffer, userChangesTrades>>
      /\ job'[j].place = After("flush") /\ job'[j].main = {}
  BY FlushStep
<1>2. j[2] \in DOMAIN buffer
  BY <1>1 DEF TickerStep
<1>3. feed = "changes" /\ ~Twins(j[2]) =>
        \A e \in buffer[j[2]] : TradesOf(e[1], j[2][2]) \subseteq userChangesTrades[j[2]]
  BY <1>2 DEF AlongOK, Along
<1> QED BY <1>1, <1>3, TickerAlong

LEMMA ResetAlong ==
    ASSUME FeedOK, AlongOK, NEW j \in Live, Reset(j)
    PROVE  AlongOK'
<1>1. /\ FeedOK' /\ TickerStep(j) /\ UNCHANGED <<feed, msg>>
      /\ DOMAIN buffer' = DOMAIN buffer /\ buffer'[j[2]] = {}
      /\ \A k \in DOMAIN buffer \ {j[2]} : buffer'[k] = buffer[k]
      /\ \A k \in Keys \ {j[2]} : userChangesTrades'[k] = userChangesTrades[k]
      /\ job'[j].main = {}
  BY ResetStep
<1>2. DOMAIN buffer \subseteq Keys
  BY DEF FeedOK, MapsOK
<1> QED BY <1>1, <1>2, TickerAlong

(* Orders are stored with the trades of their message. *)
LEMMA StoreAlong ==
    ASSUME FeedOK, OnceOK, AlongOK, NEW j \in Live, Store(j)
    PROVE  AlongOK'
<1>0. PICK key, t : key = KeyOf(j) /\ t = <<"100ms", KeyOf(j), j[2]>>
  OBVIOUS
<1>1. StoreStep(j) /\ FeedOK'
  BY StoreIs, StoreOKs
<1>2. /\ j \in Live \cap Consumers /\ job[j].place = "store" /\ key \in Keys /\ t \in Tickers
      /\ UNCHANGED <<feed, msg>>
      /\ Live' = Live \cup {x \in {t} : job[j].new}
      /\ DOMAIN buffer' = DOMAIN buffer \cup {key}
      /\ \A k \in DOMAIN buffer \ {key} : buffer'[k] = buffer[k]
      /\ \A k \in Keys \ {key} : userChangesTrades'[k] = userChangesTrades[k]
      /\ userChangesTrades'[key] = TradesAfter(j, userChangesTrades[key])
  BY <1>0, <1>1, Zenon DEF StoreStep
<1>3. /\ key \in DOMAIN buffer => \A e \in buffer'[key] : e \in buffer[key] \/ e \in Main(j)
      /\ key \notin DOMAIN buffer => buffer'[key] = Main(j) /\ job[j].new
      /\ ~job[j].new => userChangesTrades[key] \subseteq userChangesTrades'[key]
  BY <1>0, StoredFrom, StoredAt
<1>4. ConsumerOnce(j) /\ ConsumerOK(j) /\ t[2] = key
  BY <1>0, <1>2, ItemIs DEF OnceOK
<1>5. job[j].new => t \notin Live
  BY <1>0, <1>2, <1>4 DEF ConsumerOnce
<1>6. Live \cap Tickers \subseteq Live' /\ Grows
  BY <1>2 DEF Grows
<1>7. \A m, u : TradesOf(m, u)' = TradesOf(m, u)
  BY <1>2, Zenon DEF TradesOf, FindTradesByInstrument, FindTradesEachUser, Makers, Taker
<1>8. \A u \in Live' \cap Tickers : Stays(u) \/ job'[u].place = "tick"
  BY <1>1, StoreOthers
<1>9. ASSUME feed = "changes", NEW e \in Main(j)
      PROVE  TradesOf(e[1], key[2]) \subseteq userChangesTrades'[key]
  <2>1. e \in job[j].main /\ e \in New(j)
    BY <1>9 DEF Main, New
  <2>2. e[1] = j[2] /\ msg[j[2]].kind = "saved"
    BY <1>2, <2>1, NewIs
  <2>3. job[j].trades = TradesOf(j[2], key[2])
    BY <1>0, <1>4, <1>9, <2>1 DEF ConsumerOK
  <2>4. job[j].trades \subseteq userChangesTrades'[key]
    BY <1>2, <2>2 DEF TradesAfter, Merged
  <2> QED BY <2>2, <2>3, <2>4
<1>10. ASSUME feed = "changes", NEW k \in DOMAIN buffer' PROVE Twins(k)' \/ Along(k)'
  <2>1. CASE Twins(k)
    BY <1>1, <1>6, <2>1, TwinsKept
  <2>2. CASE k # key /\ Along(k)
    <3>1. /\ k \in DOMAIN buffer /\ k \in Keys /\ buffer'[k] = buffer[k]
          /\ userChangesTrades'[k] = userChangesTrades[k]
      BY <1>2, <1>10, <2>2 DEF FeedOK, MapsOK
    <3> QED BY <1>6, <1>8, <1>10, <2>2, <3>1, SameAlong
  <2>3. CASE k = key /\ key \notin DOMAIN buffer
    <3>1. \A e \in buffer'[k] : TradesOf(e[1], k[2])' \subseteq userChangesTrades'[k]
      BY <1>3, <1>7, <1>9, <1>10, <2>3
    <3>2. \A u \in Live' \cap Tickers : u[2] = k => job'[u].place = "tick"
      <4>1. \A u \in Live \cap Tickers : u[2] # k
        BY <2>3, TickerIs
      <4> QED BY <1>8, <4>1 DEF Stays
    <3> QED BY <3>1, <3>2 DEF Along
  <2>4. CASE k = key /\ key \in DOMAIN buffer /\ job[j].new
    <3>1. PICK u \in Live \cap Tickers : u[2] = key
      BY <2>4 DEF OnceOK
    <3>2. u # t /\ u \in Live' \cap Tickers /\ t \in Live' \cap Tickers
      BY <1>2, <1>5, <1>6, <2>4, <3>1
    <3> QED BY <1>1, <1>4, <2>4, <3>1, <3>2, TwinsOfNext
  <2>5. CASE k = key /\ key \in DOMAIN buffer /\ ~job[j].new /\ Along(k)
    <3>1. userChangesTrades[k] \subseteq userChangesTrades'[k]
      BY <1>3, <2>5
    <3>2. \A e \in buffer[k] : TradesOf(e[1], k[2]) \subseteq userChangesTrades'[k]
      BY <2>5, <3>1 DEF Along
    <3>3. \A e \in buffer'[k] : TradesOf(e[1], k[2])' \subseteq userChangesTrades'[k]
      BY <1>3, <1>7, <1>9, <1>10, <2>5, <3>2
    <3>4. ASSUME NEW u \in Live' \cap Tickers, u[2] = k
          PROVE  /\ job'[u].place = "trades" =>
                      \A e \in job'[u].main : TradesOf(e[1], k[2])' \subseteq userChangesTrades'[k]
                 /\ job'[u].place = "flush" =>
                      \A e \in job'[u].main : TradesOf(e[1], k[2])' \subseteq job'[u].trades
      <4>1. CASE job'[u].place = "tick"
        BY <4>1
      <4>2. CASE Stays(u)
        <5>1. u \in Live \cap Tickers /\ job'[u] = job[u]
          BY <3>4, <4>2 DEF Stays
        <5> QED BY <1>7, <2>5, <3>1, <3>4, <5>1 DEF Along
      <4> QED BY <1>8, <3>4, <4>1, <4>2
    <3> QED BY <3>3, <3>4 DEF Along
  <2> QED BY <1>2, <1>10, <2>1, <2>2, <2>3, <2>4, <2>5 DEF AlongOK
<1> QED BY <1>2, <1>10 DEF AlongOK

LEMMA ConsumerAlong ==
    ASSUME FeedOK, FeedOK', AlongOK, NEW j \in Live, ConsumerStep(j)
    PROVE  AlongOK'
<1>1. /\ UNCHANGED <<buffer, userChangesTrades>> /\ Grows
      /\ j \in Live \cap Consumers /\ (\A k \in Live \ {j} : Stays(k)) /\ Live' \subseteq Live
  BY QuietGrows DEF ConsumerStep
<1>2. \A k \in Live \cap Tickers : k \in Live'
  BY <1>1, Kinds DEF Stays
<1>3. \A k \in Live' \cap Tickers : Stays(k)
  BY <1>1, Kinds
<1> QED BY <1>1, <1>2, <1>3, QuietAlong

LEMMA StepAlong == FeedOK /\ OnceOK /\ AlongOK /\ [Next]_vars => AlongOK'
<1> SUFFICES ASSUME FeedOK, OnceOK, AlongOK, [Next]_vars PROVE AlongOK'
  OBVIOUS
<1>0. FeedOK'
  BY StepOK
<1>1. CASE UNCHANGED vars
  <2>1. UNCHANGED <<feed, msg, buffer, userChangesTrades, job>> /\ Live' = Live
    BY <1>1 DEF vars, maps, Live
  <2>2. (\A k \in Live' : Stays(k)) /\ Grows
    BY <2>1 DEF Stays, Grows
  <2> QED BY <1>0, <2>1, <2>2, QuietAlong
<1>2. ASSUME SendStep PROVE AlongOK'
  <2>1. PICK c \in Consumers : Live' \subseteq Live \cup {c}
    BY <1>2 DEF SendStep
  <2>2. /\ UNCHANGED <<buffer, userChangesTrades>> /\ Grows /\ Live \subseteq Live'
        /\ \A k \in Live : Stays(k)
    BY <1>2 DEF SendStep
  <2>3. \A k \in Live' \cap Tickers : Stays(k)
    BY <2>1, <2>2, Kinds
  <2> QED BY <1>0, <2>2, <2>3, QuietAlong
<1>3. ASSUME NEW j \in Live, Run(j) PROVE AlongOK'
  <2>1. CASE Find(j) \/ Read(j) \/ Broadcast(j)
    BY <1>0, <2>1, FindStep, ReadStep, BroadcastStep, ConsumerAlong
  <2>3. CASE Look(j)
    <3>1. /\ j \in Live \cap Consumers /\ Quiet /\ (\A k \in Live \ {j} : Stays(k))
          /\ Live \subseteq Live' /\ Live' \ Live \subseteq Aggs
      BY <2>3, LookStep
    <3>2. \A k \in Live' \cap Tickers : Stays(k)
      BY <3>1, Kinds
    <3> QED BY <1>0, <3>1, <3>2, QuietGrows, QuietAlong
  <2>4. CASE Store(j)
    BY <2>4, StoreAlong
  <2>6. CASE AggTicker(j)
    <3>1. Quiet /\ j \in Aggs /\ Live' = Live \ {j} /\ \A k \in Live \ {j} : Stays(k)
      BY <2>6, AggStep
    <3>2. /\ \A k \in Live \cap Tickers : k \in Live'
          /\ \A k \in Live' : Stays(k)
      BY <3>1, Kinds
    <3> QED BY <1>0, <3>1, <3>2, QuietGrows, QuietAlong
  <2>7. CASE Tick(j)
    BY <2>7, TickAlong
  <2>8. CASE TickTrades(j)
    BY <2>8, TickTradesAlong
  <2>9. CASE Flush(j)
    BY <2>9, FlushAlong
  <2>10. CASE Reset(j)
    BY <2>10, ResetAlong
  <2>11. CASE Query(j)
    BY <2>11, QueryAlong
  <2> QED BY <1>3, <2>1, <2>3, <2>4, <2>6, <2>7, <2>8, <2>9, <2>10, <2>11 DEF Run
<1> QED BY <1>1, <1>2, <1>3, SaveStep, CancelStep DEF Next

(* The trades come along, from the entry to the broadcast. *)
LEMMA AlongInv == Spec => []AlongOK
BY FeedInv, OnceInv, InitAlong, StepAlong, PTL DEF Spec

LEMMA AlongComes == FeedOK /\ AlongOK => TradesComeAlong
<1> SUFFICES ASSUME FeedOK, AlongOK, NEW j \in Live \cap Tickers,
                    feed = "changes", job[j].place = "flush", ~Twins(j[2])
             PROVE  \A e \in job[j].main : TradesOf(e[1], j[2][2]) \subseteq job[j].trades
  BY DEF TradesComeAlong
<1>1. j[2] \in DOMAIN buffer
  BY TickerIs
<1>2. Along(j[2])
  BY <1>1 DEF AlongOK
<1> QED BY <1>2 DEF Along

(* TradesComeAlong: although userChanges and userChangesTrades are read one*)
(* after the other, orders and their trades are broadcast together.        *)
THEOREM SentTogether == Spec => []TradesComeAlong
BY FeedInv, AlongInv, AlongComes, PTL
=============================================================================
