--------------------------- MODULE BookFeed_proofs ---------------------------
(***************************************************************************)
(* Invariants of BookFeed, for any instruments, orders, messages, clients  *)
(* and replies of Redis: what CHANGEID keeps of the last raw change, that  *)
(* a subscriber misses no change after its snapshot, that the state has    *)
(* the code's types, and that the 100ms feed goes forward.                 *)
(*                                                                         *)
(* The operators that add up what is open, and collect what is cancelled,  *)
(* are folds, which are recursive functions.  The first part shows that    *)
(* those exist and that their values have a type, by induction over the    *)
(* subsets of a finite set.                                                *)
(***************************************************************************)
EXTENDS BookFeed, FiniteSetTheorems, TLAPS

(* What holds of the empty set, and of a set if it holds without one of    *)
(* its elements, holds of the subsets of a finite set.                     *)
LEMMA Subsets ==
    ASSUME NEW S, IsFiniteSet(S), NEW F, {} \in F,
           \A T \in SUBSET S : \A x \in T : T \ {x} \in F => T \in F
    PROVE  SUBSET S \subseteq F
<1> SUFFICES ASSUME (SUBSET S) \ F # {} PROVE FALSE
  OBVIOUS
<1> DEFINE D == (SUBSET S) \ F
<1>1. D \subseteq FiniteSubsetsOf(S) /\ D # {}
  BY FS_Subset DEF FiniteSubsetsOf
<1>2. \E T \in D : \A U \in D : ~(<<U, T>> \in StrictSubsetOrdering(S))
  <2> HIDE DEF D
  <2> QED BY <1>1, FS_StrictSubsetOrderingWellFounded, WFMin
<1>3. PICK T \in D : \A U \in D : ~(<<U, T>> \in StrictSubsetOrdering(S))
  BY <1>2
<1>4. PICK x \in T : TRUE
  BY <1>3
<1>5. <<T \ {x}, T>> \in StrictSubsetOrdering(S) /\ T \ {x} \in SUBSET S
  BY <1>3, <1>4 DEF StrictSubsetOrdering
<1> QED BY <1>3, <1>4, <1>5

(* Induction over the natural numbers, of a set.                           *)
LEMMA FromOneOn ==
    ASSUME NEW T, 1 \in T, \A n \in Nat \ {0} : n \in T => n + 1 \in T
    PROVE  Nat \ {0} \subseteq T
<1> SUFFICES ASSUME NEW n \in Nat \ {0} PROVE n \in T
  OBVIOUS
<1> DEFINE N == 1 .. n
           F == {U \in SUBSET N : U = {} \/ Cardinality(U) \in T}
<1>1. IsFiniteSet(N) /\ Cardinality(N) = n
  BY FS_Interval
<1>2. ASSUME NEW U \in SUBSET N, NEW x \in U, U \ {x} \in F PROVE U \in F
  <2>1. IsFiniteSet(U) /\ Cardinality(U) \in Nat /\ Cardinality(U) # 0
    BY <1>1, FS_Subset, FS_CardinalityType, FS_EmptySet
  <2>2. Cardinality(U \ {x}) = Cardinality(U) - 1
    BY <2>1, FS_RemoveElement
  <2>3. CASE U \ {x} = {}
    <3>1. Cardinality(U) - 1 = 0
      BY <2>2, <2>3, FS_EmptySet
    <3>2. Cardinality(U) = 1
      BY <2>1, <3>1
    <3> QED BY <3>2
  <2>4. CASE Cardinality(U \ {x}) \in T /\ U \ {x} # {}
    <3>1. IsFiniteSet(U \ {x})
      BY <2>1, FS_RemoveElement
    <3>2. Cardinality(U \ {x}) # 0
      BY <2>4, <3>1, FS_EmptySet
    <3>3. Cardinality(U) - 1 \in Nat \ {0}
      BY <2>1, <2>2, <3>2
    <3>4. (Cardinality(U) - 1) + 1 \in T
      BY <2>2, <2>4, <3>3
    <3> QED BY <2>1, <3>4
  <2> QED BY <1>2, <2>3, <2>4
<1>3. SUBSET N \subseteq F
  <2>1. {} \in F
    OBVIOUS
  <2>2. \A U \in SUBSET N : \A x \in U : U \ {x} \in F => U \in F
    BY <1>2
  <2> HIDE DEF N, F
  <2> QED BY <1>1, <2>1, <2>2, Subsets
<1>4. N # {} /\ N \in SUBSET N
  <2>1. 1 \in 1 .. n
    OBVIOUS
  <2> QED BY <2>1
<1> QED BY <1>1, <1>3, <1>4

-----------------------------------------------------------------------------
(* The recursion over sets by which the folds are defined: there is such a *)
(* function, ...                                                           *)
Recurs(g, s, base, pick, step) ==
    g[s] = IF s = {} THEN base ELSE step[<<pick[s], g[s \ {pick[s]}]>>]

LEMMA RecursOnce ==
    ASSUME NEW S, IsFiniteSet(S), NEW V, NEW base \in V, NEW pick,
           \A s \in SUBSET S : s # {} => pick[s] \in s,
           NEW step \in [S \X V -> V]
    PROVE  \E g \in [SUBSET S -> V] : \A s \in SUBSET S : Recurs(g, s, base, pick, step)
<1> DEFINE Up(g, n) == \A s \in SUBSET S : Cardinality(s) < n => Recurs(g, s, base, pick, step)
           T == {n \in Nat \ {0} : \E g \in [SUBSET S -> V] : Up(g, n)}
<1>0. \A s \in SUBSET S : /\ IsFiniteSet(s) /\ Cardinality(s) \in Nat
                          /\ Cardinality(s) = 0 <=> s = {}
  BY FS_Subset, FS_CardinalityType, FS_EmptySet
<1>1. 1 \in T
  <2> DEFINE g == [s \in SUBSET S |-> base]
  <2>1. g \in [SUBSET S -> V]
    OBVIOUS
  <2>2. Up(g, 1)
    BY <1>0 DEF Recurs
  <2> HIDE DEF g, Up
  <2> QED BY <2>1, <2>2
<1>2. ASSUME NEW n \in Nat \ {0}, n \in T PROVE n + 1 \in T
  <2>1. PICK g \in [SUBSET S -> V] : Up(g, n)
    BY <1>2
  <2> DEFINE next(s) == step[<<pick[s], g[s \ {pick[s]}]>>]
             h == [s \in SUBSET S |-> IF Cardinality(s) = n THEN next(s) ELSE g[s]]
  <2>2. ASSUME NEW s \in SUBSET S, s # {}
        PROVE  /\ pick[s] \in s /\ s \ {pick[s]} \in SUBSET S
               /\ Cardinality(s \ {pick[s]}) = Cardinality(s) - 1
               /\ next(s) \in V
    <3>1. pick[s] \in s /\ s \ {pick[s]} \in SUBSET S /\ pick[s] \in S
      BY <2>2
    <3>2. Cardinality(s \ {pick[s]}) = Cardinality(s) - 1
      BY <1>0, <3>1, FS_RemoveElement
    <3>3. <<pick[s], g[s \ {pick[s]}]>> \in S \X V
      BY <2>1, <3>1
    <3> QED BY <3>1, <3>2, <3>3
  <2>3. \A s \in SUBSET S : Cardinality(s) = n => s # {}
    BY <1>0
  <2>4. h \in [SUBSET S -> V]
    <3> HIDE DEF next
    <3> QED BY <2>1, <2>2, <2>3
  <2>5. ASSUME NEW s \in SUBSET S, Cardinality(s) < n + 1 PROVE Recurs(h, s, base, pick, step)
    <3>1. CASE s = {}
      <4>1. Cardinality(s) = 0
        BY <1>0, <3>1
      <4>2. h[s] = g[s] /\ Recurs(g, s, base, pick, step)
        <5>1. Cardinality(s) # n /\ Cardinality(s) < n
          BY <4>1
        <5>2. Recurs(g, s, base, pick, step)
          BY <2>1, <5>1
        <5> HIDE DEF next
        <5> QED BY <5>1, <5>2
      <4> HIDE DEF h
      <4> QED BY <3>1, <4>2 DEF Recurs
    <3>2. CASE s # {}
      <4>1. /\ Cardinality(s \ {pick[s]}) < n /\ s \ {pick[s]} \in SUBSET S
            /\ Cardinality(s) \in Nat
        <5>1. Cardinality(s) \in Nat /\ s \ {pick[s]} \in SUBSET S
          BY <1>0, <2>2, <3>2
        <5>2. Cardinality(s \ {pick[s]}) = Cardinality(s) - 1
          BY <2>2, <3>2
        <5> QED BY <2>5, <5>1, <5>2
      <4>2. h[s \ {pick[s]}] = g[s \ {pick[s]}]
        <5>1. Cardinality(s \ {pick[s]}) # n
          <6>1. Cardinality(s \ {pick[s]}) \in Nat
            BY <1>0, <4>1
          <6> QED BY <4>1, <6>1
        <5> HIDE DEF next
        <5> QED BY <4>1, <5>1
      <4>3. h[s] = next(s)
        <5>1. CASE Cardinality(s) = n
          <6> HIDE DEF next
          <6> QED BY <5>1
        <5>2. CASE Cardinality(s) # n
          <6>1. h[s] = g[s]
            BY <5>2
          <6>2. Cardinality(s) < n
            BY <2>5, <4>1, <5>2
          <6> HIDE DEF h
          <6> QED BY <2>1, <3>2, <6>1, <6>2 DEF Recurs
        <5> QED BY <5>1, <5>2
      <4> HIDE DEF h
      <4> QED BY <3>2, <4>2, <4>3 DEF Recurs
    <3> QED BY <3>1, <3>2
  <2> HIDE DEF h, Up
  <2>6. Up(h, n + 1)
    BY <2>5 DEF Up
  <2> QED BY <2>4, <2>6
<1> HIDE DEF T
<1>3. Cardinality(S) + 1 \in T
  <2>1. Nat \ {0} \subseteq T
    BY <1>1, <1>2, FromOneOn
  <2> QED BY <1>0, <2>1
<1>4. PICK g \in [SUBSET S -> V] : Up(g, Cardinality(S) + 1)
  BY <1>3 DEF T
<1>5. \A s \in SUBSET S : Cardinality(s) < Cardinality(S) + 1
  BY <1>0, FS_Subset
<1> QED BY <1>4, <1>5

(* ... and what it computes stays where the steps stay.                    *)
LEMMA RecursStays ==
    ASSUME NEW S, IsFiniteSet(S), NEW V, NEW pick, NEW g,
           \A s \in SUBSET S : s # {} => pick[s] \in s,
           g[{}] \in V,
           \A s \in SUBSET S : s # {} /\ g[s \ {pick[s]}] \in V => g[s] \in V
    PROVE  \A s \in SUBSET S : g[s] \in V
<1> DEFINE Up(n) == \A s \in SUBSET S : Cardinality(s) < n => g[s] \in V
           T == {n \in Nat \ {0} : Up(n)}
<1>0. \A s \in SUBSET S : /\ IsFiniteSet(s) /\ Cardinality(s) \in Nat
                          /\ Cardinality(s) = 0 <=> s = {}
  BY FS_Subset, FS_CardinalityType, FS_EmptySet
<1>1. 1 \in T
  BY <1>0
<1>2. ASSUME NEW n \in Nat \ {0}, n \in T PROVE n + 1 \in T
  <2>1. ASSUME NEW s \in SUBSET S, Cardinality(s) < n + 1, s # {} PROVE g[s] \in V
    <3>1. pick[s] \in s /\ s \ {pick[s]} \in SUBSET S
      BY <2>1
    <3>2. Cardinality(s \ {pick[s]}) = Cardinality(s) - 1
      BY <1>0, <3>1, FS_RemoveElement
    <3>3. Cardinality(s \ {pick[s]}) < n
      BY <1>0, <2>1, <3>2
    <3> QED BY <1>2, <2>1, <3>1, <3>3
  <2>2. Up(n + 1)
    BY <2>1
  <2> HIDE DEF Up
  <2> QED BY <2>2
<1> HIDE DEF T
<1>3. Cardinality(S) + 1 \in T
  <2>1. Nat \ {0} \subseteq T
    BY <1>1, <1>2, FromOneOn
  <2> QED BY <1>0, <2>1
<1>4. \A s \in SUBSET S : Cardinality(s) < Cardinality(S) + 1
  BY <1>0, FS_Subset
<1> QED BY <1>3, <1>4 DEF T

(* Sums: there is a function that adds up a finite set's numbers, ...      *)
Sums(g, w, S) ==
    \A s \in SUBSET S :
        g[s] = IF s = {} THEN 0 ELSE w[CHOOSE x \in s : TRUE] + g[s \ {CHOOSE x \in s : TRUE}]

LEMMA SumExists ==
    ASSUME NEW S, IsFiniteSet(S), NEW w \in [S -> Nat]
    PROVE  \E g \in [SUBSET S -> Nat] : Sums(g, w, S)
<1> DEFINE pick == [s \in SUBSET S |-> CHOOSE x \in s : TRUE]
           step == [p \in S \X Nat |-> w[p[1]] + p[2]]
<1>1. \A s \in SUBSET S : s # {} => pick[s] \in s
  OBVIOUS
<1>2. step \in [S \X Nat -> Nat]
  OBVIOUS
<1>3. \E g \in [SUBSET S -> Nat] : \A s \in SUBSET S : Recurs(g, s, 0, pick, step)
  <2> HIDE DEF pick, step
  <2> QED BY <1>1, <1>2, RecursOnce
<1>4. PICK g \in [SUBSET S -> Nat] : \A s \in SUBSET S : Recurs(g, s, 0, pick, step)
  BY <1>3
<1>5. ASSUME NEW s \in SUBSET S, s # {}
      PROVE  g[s] = w[CHOOSE x \in s : TRUE] + g[s \ {CHOOSE x \in s : TRUE}]
  <2> DEFINE x == CHOOSE x \in s : TRUE
             r == g[s \ {x}]
  <2>1. x \in s /\ pick[s] = x
    BY <1>5
  <2>2. s \ {x} \in SUBSET S /\ <<x, r>> \in S \X Nat
    BY <2>1
  <2>3. step[<<x, r>>] = w[x] + r
    <3> HIDE DEF x, r
    <3> QED BY <2>2
  <2>4. g[s] = step[<<pick[s], g[s \ {pick[s]}]>>]
    BY <1>4, <1>5, Zenon DEF Recurs
  <2> HIDE DEF pick, step
  <2> QED BY <2>1, <2>3, <2>4
<1>6. g[{}] = 0
  <2> HIDE DEF pick, step
  <2> QED BY <1>4 DEF Recurs
<1> QED BY <1>5, <1>6 DEF Sums

(* ... and whichever does has numbers as its values.                       *)
LEMMA SumStays ==
    ASSUME NEW S, IsFiniteSet(S), NEW w \in [S -> Nat], NEW g, Sums(g, w, S)
    PROVE  g[S] \in Nat
<1> DEFINE pick == [s \in SUBSET S |-> CHOOSE x \in s : TRUE]
<1>1. \A s \in SUBSET S : s # {} => pick[s] \in s
  OBVIOUS
<1>2. g[{}] \in Nat
  BY DEF Sums
<1>3. ASSUME NEW s \in SUBSET S, s # {}, g[s \ {pick[s]}] \in Nat PROVE g[s] \in Nat
  <2> DEFINE x == CHOOSE x \in s : TRUE
  <2>1. pick[s] = x /\ x \in S
    BY <1>3
  <2>2. g[s] = w[x] + g[s \ {x}]
    BY <1>3, Zenon DEF Sums
  <2> HIDE DEF pick, x
  <2> QED BY <1>3, <2>1, <2>2
<1> HIDE DEF pick
<1>4. \A s \in SUBSET S : g[s] \in Nat
  <2>1. \A s \in SUBSET S : s # {} /\ g[s \ {pick[s]}] \in Nat => g[s] \in Nat
    BY <1>3
  <2> QED BY <1>1, <1>2, <2>1, RecursStays
<1> QED BY <1>4

(* So the totals of a book and of what is open are numbers.                *)
LEMMA TotalNat ==
    ASSUME NEW K, IsFiniteSet(K), NEW book, \A k \in K : book[k] \in Nat
    PROVE  Total(book, K) \in Nat
<1> DEFINE w == [k \in K |-> book[k]]
           Is(g) == g = [s \in SUBSET K |-> IF s = {} THEN 0
                           ELSE book[CHOOSE x \in s : TRUE] + g[s \ {CHOOSE x \in s : TRUE}]]
<1>1. w \in [K -> Nat]
  OBVIOUS
<1>2. \A s \in SUBSET K : s # {} => w[CHOOSE x \in s : TRUE] = book[CHOOSE x \in s : TRUE]
  OBVIOUS
<1> HIDE DEF w
<1>3. \E g : Is(g)
  <2>1. PICK g \in [SUBSET K -> Nat] : Sums(g, w, K)
    BY <1>1, SumExists
  <2> DEFINE h == [s \in SUBSET K |-> IF s = {} THEN 0
                     ELSE book[CHOOSE x \in s : TRUE] + g[s \ {CHOOSE x \in s : TRUE}]]
  <2>2. ASSUME NEW s \in SUBSET K PROVE g[s] = h[s]
    BY <1>2, <2>1, Zenon DEF Sums
  <2>3. g = h
    <3>1. /\ DOMAIN h = SUBSET K /\ DOMAIN g = SUBSET K
          /\ h = [s \in DOMAIN h |-> h[s]] /\ g = [s \in DOMAIN g |-> g[s]]
      BY <2>1
    <3> HIDE DEF h
    <3> QED BY <2>2, <3>1
  <2> QED BY <2>3, Zenon
<1> DEFINE g == CHOOSE g : Is(g)
<1>4. Is(g)
  BY <1>3
<1>5. Total(book, K) = g[K]
  BY Zenon DEF Total, MapThenSumSet, MapThenFoldSet
<1>6. Sums(g, w, K)
  <2> SUFFICES ASSUME NEW s \in SUBSET K
               PROVE  g[s] = IF s = {} THEN 0
                             ELSE w[CHOOSE x \in s : TRUE] + g[s \ {CHOOSE x \in s : TRUE}]
    BY DEF Sums
  <2>1. g[s] = IF s = {} THEN 0
               ELSE book[CHOOSE x \in s : TRUE] + g[s \ {CHOOSE x \in s : TRUE}]
    <3> HIDE DEF g
    <3> QED BY <1>4, Zenon
  <2> HIDE DEF g
  <2> QED BY <1>2, <2>1, Zenon
<1> HIDE DEF g
<1> QED BY <1>1, <1>5, <1>6, SumStays

(* The same of what is open of a set of orders.                           *)
LEMMA LeftNat ==
    ASSUME NEW K, IsFiniteSet(K), \A o \in K : order[o].left \in Nat
    PROVE  Left(K) \in Nat
<1> DEFINE w == [o \in K |-> order[o].left]
           Is(g) == g = [s \in SUBSET K |-> IF s = {} THEN 0
                           ELSE order[CHOOSE x \in s : TRUE].left
                                  + g[s \ {CHOOSE x \in s : TRUE}]]
<1>1. w \in [K -> Nat]
  OBVIOUS
<1>2. \A s \in SUBSET K :
          s # {} => w[CHOOSE x \in s : TRUE] = order[CHOOSE x \in s : TRUE].left
  OBVIOUS
<1> HIDE DEF w
<1>3. \E g : Is(g)
  <2>1. PICK g \in [SUBSET K -> Nat] : Sums(g, w, K)
    BY <1>1, SumExists
  <2> DEFINE h == [s \in SUBSET K |-> IF s = {} THEN 0
                     ELSE order[CHOOSE x \in s : TRUE].left + g[s \ {CHOOSE x \in s : TRUE}]]
  <2>2. ASSUME NEW s \in SUBSET K PROVE g[s] = h[s]
    BY <1>2, <2>1, Zenon DEF Sums
  <2>3. g = h
    <3>1. /\ DOMAIN h = SUBSET K /\ DOMAIN g = SUBSET K
          /\ h = [s \in DOMAIN h |-> h[s]] /\ g = [s \in DOMAIN g |-> g[s]]
      BY <2>1
    <3> HIDE DEF h
    <3> QED BY <2>2, <3>1
  <2> QED BY <2>3, Zenon
<1> DEFINE g == CHOOSE g : Is(g)
<1>4. Is(g)
  BY <1>3
<1>5. Left(K) = g[K]
  BY Zenon DEF Left, MapThenSumSet, MapThenFoldSet
<1>6. Sums(g, w, K)
  <2> SUFFICES ASSUME NEW s \in SUBSET K
               PROVE  g[s] = IF s = {} THEN 0
                             ELSE w[CHOOSE x \in s : TRUE] + g[s \ {CHOOSE x \in s : TRUE}]
    BY DEF Sums
  <2>1. g[s] = IF s = {} THEN 0
               ELSE order[CHOOSE x \in s : TRUE].left + g[s \ {CHOOSE x \in s : TRUE}]
    <3> HIDE DEF g
    <3> QED BY <1>4, Zenon
  <2> HIDE DEF g
  <2> QED BY <1>2, <2>1, Zenon
<1> HIDE DEF g
<1> QED BY <1>1, <1>5, <1>6, SumStays

-----------------------------------------------------------------------------
(* Books.                                                                  *)
LEMMA LevelsFinite == IsFiniteSet(Levels)
<1>1. IsFiniteSet(Sides)
  <2>1. IsFiniteSet({"SELL"}) /\ IsFiniteSet({"BUY"})
    BY FS_Singleton
  <2>2. Sides = {"SELL"} \cup {"BUY"}
    BY DEF Sides
  <2> QED BY <2>1, <2>2, FS_Union
<1> QED BY <1>1, ConstantsOK, FS_Product DEF Levels

(* A book in buckets is a book, ...                                       *)
LEMMA BucketsBook ==
    ASSUME NEW book, IsBook(book)
    PROVE  IsBook(Buckets(book))
<1> DEFINE below(l) == {k \in DOMAIN book : k[1] = l[1] /\ k[2] < l[2]}
           second(l, k) == k[1] = l[1] /\ l \in below(k) /\ below(k) = below(l) \cup {l}
           firsts == {k \in DOMAIN book : Cardinality(below(k)) % 2 = 0}
           both(l) == {l} \cup {k \in DOMAIN book : second(l, k)}
<1>1. Buckets(book) = [l \in firsts |-> Total(book, both(l))]
  BY Zenon DEF Buckets
<1>2. firsts \subseteq DOMAIN book
  OBVIOUS
<1>3. \A l \in DOMAIN book : both(l) \subseteq DOMAIN book
  OBVIOUS
<1> HIDE DEF below, second, firsts, both
<1>4. ASSUME NEW l \in firsts PROVE Total(book, both(l)) \in Nat
  <2>1. both(l) \in SUBSET Levels
    BY <1>2, <1>3 DEF IsBook
  <2>2. IsFiniteSet(both(l))
    BY <2>1, LevelsFinite, FS_Subset
  <2>3. \A k \in both(l) : book[k] \in Nat
    BY <1>2, <1>3 DEF IsBook
  <2> QED BY <2>2, <2>3, TotalNat
<1> QED BY <1>1, <1>2, <1>4 DEF IsBook

(* ... so is what the query finds, ...                                    *)
LEMMA OpenBook ==
    ASSUME NEW i, NEW t, \A o \in Orders : order[o].left \in Nat
    PROVE  IsBook(GetOrderLatestTimestamp(i, t))
<1> DEFINE at(l) == {o \in Orders : /\ Series[Order[o].inst] = Series[i]
                                    /\ Order[o].side = l[1]
                                    /\ order[o].price = l[2] /\ order[o].updatedAt < t}
<1>1. GetOrderLatestTimestamp(i, t) = [l \in {k \in Levels : Left(at(k)) # 0} |-> Left(at(l))]
  BY Zenon DEF GetOrderLatestTimestamp, Book
<1>2. \A l : at(l) \in SUBSET Orders
  OBVIOUS
<1> HIDE DEF at
<1>3. ASSUME NEW l PROVE Left(at(l)) \in Nat
  <2>1. IsFiniteSet(at(l))
    BY <1>2, ConstantsOK, FS_Subset
  <2> QED BY <1>2, <2>1, LeftNat
<1> QED BY <1>1, <1>3 DEF IsBook

(* ... and the rows of a change name levels of a book.                    *)
LEMMA RowsTyped ==
    ASSUME NEW base, IsBook(base), NEW seen, IsBook(seen), NEW c, IsChange(c)
    PROVE  Rows(base, seen, c) \subseteq {"new", "change", "delete"} \X Levels \X Nat
<1>1. Changed(base, seen) \subseteq {"new", "change", "delete"} \X Levels \X Nat
  <2> SUFFICES ASSUME NEW l \in DOMAIN seen
               PROVE  <<IF l \in DOMAIN base THEN "change" ELSE "new", l, seen[l]>>
                         \in {"new", "change", "delete"} \X Levels \X Nat
    BY DEF Changed
  <2>1. l \in Levels /\ seen[l] \in Nat
    BY DEF IsBook
  <2> QED BY <2>1
<1>2. ASSUME NEW r \in Deleted(base, seen, c)
      PROVE  r \in {"new", "change", "delete"} \X Levels \X Nat
  <2> DEFINE other == IF c.side = "BUY" THEN "SELL" ELSE "BUY"
             emptied(sd) == {l \in {<<sd, c.price>>} : Amount(base, l) = c.amount}
             gone == {l \in DOMAIN c.books :
                    /\ Amount(base, l) = c.books[l]
                    /\ \A x \in Changed(base, seen) : x[2] # l}
             moved == {l \in {<<c.side, c.old>>} : l \in DOMAIN base /\ c.old # c.price}
             all == CASE c.status = "CANCELLED_ALL" -> gone
                      [] c.status = "CANCELLED" -> emptied(c.side)
                      [] c.status = "FILLED" -> emptied(other)
                      [] OTHER -> moved
  <2>1. Deleted(base, seen, c) = {<<"delete", l, 0>> : l \in all}
    BY Zenon DEF Deleted
  <2>2. gone \subseteq Levels /\ moved \subseteq Levels
    BY DEF IsBook, IsChange
  <2>3. c.price \in Prices => emptied(c.side) \subseteq Levels /\ emptied(other) \subseteq Levels
    BY DEF IsChange, Levels, Sides
  <2>4. c.status \in {"CANCELLED", "FILLED"} => c.price \in Prices
    BY DEF IsChange
  <2> HIDE DEF gone, moved, emptied, other
  <2>5. all \subseteq Levels
    BY <2>2, <2>3, <2>4
  <2> HIDE DEF all
  <2>6. PICK l \in all : r = <<"delete", l, 0>>
    BY <2>1
  <2> QED BY <2>5, <2>6
<1> QED BY <1>1, <1>2 DEF Rows

(* The last of a set of places in a list is one of them.                  *)
LEMMA MaxIn ==
    ASSUME NEW n \in Nat
    PROVE  \A s \in SUBSET (1 .. n) : s # {} => Max(s) \in s
<1> DEFINE N == 1 .. n
           F == {s \in SUBSET N : s = {} \/ \E x \in s : \A y \in s : x >= y}
<1>1. ASSUME NEW s \in SUBSET N, NEW x \in s, s \ {x} \in F PROVE s \in F
  <2>1. CASE s \ {x} = {}
    <3>1. \A y \in s : x >= y
      BY <2>1
    <3> QED BY <3>1
  <2>2. CASE \E z \in s \ {x} : \A y \in s \ {x} : z >= y
    <3>1. PICK z \in s \ {x} : \A y \in s \ {x} : z >= y
      BY <2>2
    <3>2. CASE x >= z
      <4>1. \A y \in s : x >= y
        BY <3>1, <3>2
      <4> QED BY <4>1
    <3>3. CASE ~(x >= z)
      <4>1. z >= x
        BY <3>1, <3>3
      <4>2. \A y \in s : z >= y
        BY <3>1, <4>1
      <4> QED BY <4>2
    <3> QED BY <3>2, <3>3
  <2> QED BY <1>1, <2>1, <2>2
<1>2. SUBSET N \subseteq F
  <2>1. IsFiniteSet(N)
    BY FS_Interval
  <2>2. {} \in F
    OBVIOUS
  <2>3. \A s \in SUBSET N : \A x \in s : s \ {x} \in F => s \in F
    BY <1>1
  <2> HIDE DEF N, F
  <2> QED BY <2>1, <2>2, <2>3, Subsets
<1> QED BY <1>2 DEF Max

(* What HandleConsumeBookCancel has collected, however far it is.          *)
Collected == [insts : SUBSET Insts, books : UNION {[D -> Nat] : D \in SUBSET Levels}]

(* One order more that was cancelled.                                     *)
LEMMA CollectTyped ==
    ASSUME NEW acc \in Collected, NEW o \in Orders, order[o].price \in Prices
    PROVE  Collect(acc, o) \in Collected
<1> DEFINE l == <<Order[o].side, order[o].price>>
           amount == Order[o].amount
           D == DOMAIN acc.books \cup {l}
           books == [k \in D |-> IF k # l THEN acc.books[k]
                                 ELSE IF Order[o].inst \notin acc.insts THEN amount
                                 ELSE Amount(acc.books, l) + amount]
<1>1. /\ l \in Levels /\ amount \in Nat /\ Order[o].inst \in Insts
  BY ConstantsOK DEF Levels
<1>2. PICK E \in SUBSET Levels : acc.books \in [E -> Nat]
  BY DEF Collected
<1>3. acc.insts \subseteq Insts
  BY DEF Collected
<1>4. Amount(acc.books, l) \in Nat
  BY <1>2 DEF Amount
<1>5. D \in SUBSET Levels /\ books \in [D -> Nat]
  <2> HIDE DEF l, amount
  <2> QED BY <1>1, <1>2, <1>4
<1>6. Collect(acc, o) = [insts |-> acc.insts \cup {Order[o].inst}, books |-> books]
  BY Zenon DEF Collect
<1> HIDE DEF books, D, l, amount
<1> QED BY <1>1, <1>3, <1>5, <1>6 DEF Collected

(* What is collected is a book.                                           *)
LEMMA CancelledBook ==
    ASSUME NEW n \in Nat, NEW orders \in [1 .. n -> Orders],
           \A o \in Orders : order[o].price \in Prices
    PROVE  IsBook(CancelledBooks(orders))
<1> DEFINE N == 1 .. n
           none == [insts |-> {}, books |-> NoBook]
           pick == [s \in SUBSET N |-> Max(s)]
           step == [p \in N \X Collected |-> Collect(p[2], orders[p[1]])]
           Is(g) == g = [s \in SUBSET N |-> IF s = {} THEN none
                           ELSE Collect(g[s \ {Max(s)}], orders[Max(s)])]
<1>1. IsFiniteSet(N)
  BY FS_Interval
<1>2. \A s \in SUBSET N : s # {} => Max(s) \in s /\ Max(s) \in N /\ s \ {Max(s)} \in SUBSET N
  BY MaxIn
<1>3. none \in Collected
  <2>1. NoBook \in [{} -> Nat]
    BY DEF NoBook
  <2> QED BY <2>1 DEF Collected
<1>4. \A m \in N : orders[m] \in Orders
  OBVIOUS
<1>5. step \in [N \X Collected -> Collected]
  <2>1. \A p \in N \X Collected : Collect(p[2], orders[p[1]]) \in Collected
    BY <1>4, CollectTyped
  <2> QED BY <2>1
<1>6. \A s \in SUBSET N : s # {} => pick[s] \in s
  BY <1>2
<1> HIDE DEF none
<1>7. \E g : Is(g)
  <2>1. \E g \in [SUBSET N -> Collected] : \A s \in SUBSET N : Recurs(g, s, none, pick, step)
    <3> HIDE DEF N, pick, step
    <3> QED BY <1>1, <1>3, <1>5, <1>6, RecursOnce
  <2>2. PICK g \in [SUBSET N -> Collected] : \A s \in SUBSET N : Recurs(g, s, none, pick, step)
    BY <2>1
  <2> DEFINE h == [s \in SUBSET N |-> IF s = {} THEN none
                     ELSE Collect(g[s \ {Max(s)}], orders[Max(s)])]
  <2>3. ASSUME NEW s \in SUBSET N PROVE g[s] = h[s]
    <3>1. CASE s = {}
      <4> HIDE DEF pick, step
      <4> QED BY <2>2, <3>1 DEF Recurs
    <3>2. CASE s # {}
      <4> DEFINE x == Max(s)
                 r == g[s \ {x}]
      <4>1. pick[s] = x /\ x \in N /\ s \ {x} \in SUBSET N
        BY <1>2, <3>2
      <4>2. <<x, r>> \in N \X Collected
        BY <2>2, <4>1
      <4>3. g[s] = step[<<pick[s], g[s \ {pick[s]}]>>]
        BY <2>2, <3>2, Zenon DEF Recurs
      <4>4. step[<<x, r>>] = Collect(r, orders[x])
        <5> HIDE DEF x, r
        <5> QED BY <4>2
      <4>5. h[s] = Collect(r, orders[x])
        BY <3>2, Zenon
      <4> HIDE DEF x, pick, step, h
      <4> QED BY <4>1, <4>3, <4>4, <4>5
    <3> QED BY <3>1, <3>2
  <2>4. g = h
    <3>1. DOMAIN h = SUBSET N /\ DOMAIN g = SUBSET N
          /\ h = [s \in DOMAIN h |-> h[s]] /\ g = [s \in DOMAIN g |-> g[s]]
      BY <2>2
    <3> HIDE DEF h
    <3> QED BY <2>3, <3>1
  <2> QED BY <2>4, Zenon
<1> DEFINE g == CHOOSE g : Is(g)
<1>8. Is(g)
  BY <1>7
<1>9. CancelledBooks(orders) = g[N].books
  <2>1. DOMAIN orders = N
    OBVIOUS
  <2> QED BY <2>1, Zenon DEF CancelledBooks, FoldLeft, MapThenFoldSet, none
<1>10. g[{}] \in Collected
  <2>1. g[{}] = none
    <3> HIDE DEF g
    <3> QED BY <1>8
  <2> QED BY <1>3, <2>1
<1>11. ASSUME NEW s \in SUBSET N, s # {}, g[s \ {pick[s]}] \in Collected
       PROVE  g[s] \in Collected
  <2>1. g[s] = Collect(g[s \ {Max(s)}], orders[Max(s)])
    <3> HIDE DEF g
    <3> QED BY <1>8, <1>11, Zenon
  <2>2. g[s \ {Max(s)}] \in Collected /\ orders[Max(s)] \in Orders
    <3>1. pick[s] = Max(s)
      OBVIOUS
    <3> HIDE DEF g, pick
    <3> QED BY <1>2, <1>4, <1>11, <3>1
  <2> HIDE DEF g
  <2> QED BY <2>1, <2>2, CollectTyped
<1>12. g[N] \in Collected
  <2>1. \A s \in SUBSET N : s # {} /\ g[s \ {pick[s]}] \in Collected => g[s] \in Collected
    BY <1>11
  <2>2. N \in SUBSET N
    OBVIOUS
  <2> HIDE DEF N, g, pick
  <2> QED BY <1>1, <1>6, <1>10, <2>1, <2>2, RecursStays
<1> HIDE DEF g
<1>13. g[N].books \in UNION {[D -> Nat] : D \in SUBSET Levels}
  BY <1>12 DEF Collected
<1> QED BY <1>9, <1>13 DEF IsBook

-----------------------------------------------------------------------------
(* What a goroutine writes back, and what CHANGEID keeps.                  *)
Fields == {"id", "idPrev", "timestamp", "raw", "agg2", "hundred"}

JobFields == {"place", "inst", "base", "seen", "timestamp", "prev", "rows"}

(* The records have their fields.  (A goroutine of no instrument would read *)
(* and write nothing that the invariant speaks of.)                        *)
HasShape(r) ==
    DOMAIN r = JobFields /\ (r.inst \in Insts => DOMAIN r.base = Fields)

Shape ==
    /\ DOMAIN redis = Insts /\ DOMAIN last = Insts
    /\ \A i \in Insts : DOMAIN redis[i] = Fields
    /\ \A j \in Live : HasShape(job[j])

(* What a goroutine that nobody has overtaken writes back is built on what *)
(* Redis still has.                                                        *)
Current(j) ==
    job[j].place \in Holding /\ j \notin stale /\ job[j].inst \in Insts /\ ~failed =>
        job[j].base = redis[job[j].inst]

IInv ==
    /\ Shape
    /\ \A j \in Live : Current(j)
    /\ LastChangeKept

-----------------------------------------------------------------------------
LEMMA BecomeJob ==
    ASSUME NEW j \in Live, NEW new, Become(j, new)
    PROVE  /\ Live' = Live /\ job'[j] = new
           /\ \A k \in Live \ {j} : job'[k] = job[k]
BY DEF Become, Live

LEMMA EndJob ==
    ASSUME NEW j \in Live, End(j)
    PROVE  /\ Live' = Live \ {j}
           /\ \A k \in Live' : job'[k] = job[k]
BY DEF End, Live

LEMMA StartJob ==
    ASSUME NEW j, NEW new, Start(j, new)
    PROVE  /\ Live' = Live \cup {j} /\ job'[j] = new
           /\ \A k \in Live \ {j} : job'[k] = job[k]
BY DEF Start, Live

LEMMA AtShape ==
    ASSUME NEW place, NEW i
    PROVE  HasShape(At(place, i)) /\ At(place, i).place = place
BY DEF At, NoValue, HasShape, JobFields, Fields

(* A step that writes nothing to Redis.                                    *)
LEMMA NoWrite ==
    ASSUME IInv, UNCHANGED <<redis, last, lost>>, failed => failed',
           \A k \in Live' : HasShape(job'[k]) /\ Current(k)'
    PROVE  IInv'
BY DEF IInv, Shape, LastChangeKept

(* A step that does: it leaves the goroutines of other instruments alone,  *)
(* and gives the instrument a new last change or keeps the one it has.     *)
LEMMA Overwrites ==
    ASSUME IInv, NEW j \in Live, NEW value, NEW ok \in BOOLEAN,
           NEW i, i = job[j].inst,
           Write(j, value, ok), i \in Insts => DOMAIN value = Fields,
           \A k \in Live' :
               /\ HasShape(job'[k])
               /\ job'[k].place \in Holding =>
                    k \in Live \ {j} /\ job'[k] = job[k],
           ~ok => last' = last,
           DOMAIN last' = Insts, \A k \in Insts \ {i} : last'[k] = last[k],
           ok /\ i \in Insts \ lost' /\ ~failed' /\ last'[i].id # 0 =>
               value.id = last'[i].id /\ value.raw = last'[i].raw
    PROVE  IInv'
<1>1. CASE ~ok
  <2>1. UNCHANGED <<redis, last, lost>> /\ stale' = stale
    BY <1>1 DEF Write
  <2>2. failed'
    BY <1>1 DEF Write
  <2> QED BY <2>1, <2>2, NoWrite DEF Current
<1>2. CASE ok
  <2>1. redis' = [redis EXCEPT ![i] = value]
    BY <1>2 DEF Write
  <2>2. stale' = stale \cup {k \in Live \ {j} : job[k].inst = i /\ job[k].place \in Holding}
    BY <1>2 DEF Write
  <2>3. failed => failed'
    BY DEF Write
  <2>4. \A k \in Insts : k \in lost => k \in lost'
    BY DEF Write
  <2>5. Shape'
    BY <2>1 DEF IInv, Shape
  <2>6. \A k \in Live' : Current(k)'
    BY <2>1, <2>2, <2>3 DEF IInv, Shape, Current
  <2>7. LastChangeKept'
    BY <1>2, <2>1, <2>3, <2>4 DEF IInv, Shape, LastChangeKept
  <2> QED BY <2>5, <2>6, <2>7 DEF IInv
<1> QED BY <1>1, <1>2

-----------------------------------------------------------------------------
(* What is read from Redis is what Redis has, or Redis has failed.         *)
LEMMA Reads ==
    ASSUME IInv, NEW j \in Live, NEW new, NEW ok \in Replies,
           UNCHANGED <<redis, last, lost>>, Read(j, ok),
           \/ End(j)
           \/ /\ Become(j, new) /\ HasShape(new)
              /\ \/ new.place \notin Holding
                 \/ new.inst = job[j].inst /\ new.base = Value(j, ok)
    PROVE  IInv'
<1>1. ok \in BOOLEAN
  BY ConstantsOK
<1>2. /\ stale' = stale \ {j}
      /\ ~failed' => ok /\ ~failed
      /\ failed => failed'
  BY <1>1 DEF Read
<1>3. CASE End(j)
  BY <1>2, <1>3, EndJob, NoWrite DEF IInv, Shape, Current
<1>4. CASE Become(j, new) /\ ~End(j)
  <2>1. Live' = Live /\ job'[j] = new /\ \A k \in Live \ {j} : job'[k] = job[k]
    BY <1>4, BecomeJob
  <2>2. \A k \in Live \ {j} : HasShape(job'[k]) /\ Current(k)'
    BY <1>2, <2>1 DEF IInv, Shape, Current
  <2>3. HasShape(job'[j])
    BY <1>4, <2>1
  <2>4. Current(j)'
    BY <1>2, <1>4, <2>1 DEF Current, Value
  <2> QED BY <1>2, <2>1, <2>2, <2>3, <2>4, NoWrite
<1> QED BY <1>3, <1>4

(* A step that neither reads CHANGEID nor writes it.                       *)
LEMMA Elsewhere ==
    ASSUME IInv, UNCHANGED <<redis, last, lost, stale>>, failed => failed',
           \A k \in Live' :
               /\ HasShape(job'[k])
               /\ job'[k].place \in Holding =>
                    /\ k \in Live /\ job[k].place \in Holding
                    /\ job'[k].inst = job[k].inst /\ job'[k].base = job[k].base
    PROVE  IInv'
<1>1. \A k \in Live' : Current(k)'
  BY DEF IInv, Current
<1> QED BY <1>1, NoWrite

LEMMA ValueShape ==
    ASSUME IInv, NEW j \in Live, NEW ok
    PROVE  job[j].inst \in Insts => DOMAIN Value(j, ok) = Fields
BY DEF IInv, Shape, Value, NoValue, Fields

(* A goroutine that writes its value back with the same Id and raw levels. *)
LEMMA WritesBack ==
    ASSUME IInv, NEW j \in Live, NEW value, NEW new, NEW ok \in Replies,
           Write(j, value, ok), last' = last, Become(j, new),
           job[j].place \in Holding,
           HasShape(new), new.place \notin Holding,
           job[j].inst \in Insts =>
               /\ DOMAIN value = Fields
               /\ value.id = job[j].base.id /\ value.raw = job[j].base.raw
    PROVE  IInv'
<1>1. ok \in BOOLEAN
  BY ConstantsOK
<1> DEFINE i == job[j].inst
<1>2. ok /\ i \in Insts \ lost' /\ ~failed' /\ last'[i].id # 0 =>
          value.id = last'[i].id /\ value.raw = last'[i].raw
  <2> SUFFICES ASSUME ok, i \in Insts \ lost', ~failed', last[i].id # 0
               PROVE  value.id = last[i].id /\ value.raw = last[i].raw
    OBVIOUS
  <2>1. j \notin stale /\ i \notin lost /\ ~failed
    BY <1>1 DEF Write
  <2>2. job[j].base = redis[i]
    BY <2>1 DEF IInv, Current
  <2>3. redis[i].id = last[i].id /\ redis[i].raw = last[i].raw
    BY <2>1 DEF IInv, LastChangeKept
  <2> QED BY <2>2, <2>3
<1>3. /\ DOMAIN last' = Insts /\ \A k \in Insts : last'[k] = last[k]
      /\ \A k \in Live : HasShape(job[k])
  BY DEF IInv, Shape
<1>4. \A k \in Live' :
          /\ HasShape(job'[k])
          /\ job'[k].place \in Holding => k \in Live \ {j} /\ job'[k] = job[k]
  BY <1>3, BecomeJob
<1> QED BY <1>1, <1>2, <1>3, <1>4, Overwrites

LEMMA BookStep ==
    ASSUME IInv, NEW j \in Live,
           BookGet(j) \/ BookRead(j) \/ BookSet(j) \/ BookShare(j) \/ BookSend(j)
    PROVE  IInv'
<1>0. HasShape(job[j]) /\ \A k \in Live : HasShape(job[k])
  BY DEF IInv, Shape
<1>1. CASE BookGet(j)
  <2>1. PICK ok \in Replies, t \in {clock + d : d \in Lags} :
            /\ Become(j, [job[j] EXCEPT !.place = "read", !.base = Value(j, ok),
                                        !.timestamp = t])
            /\ Read(j, ok)
    BY <1>1 DEF BookGet
  <2> DEFINE new == [job[j] EXCEPT !.place = "read", !.base = Value(j, ok),
                                   !.timestamp = t]
  <2>2. /\ DOMAIN new = JobFields
        /\ new.inst = job[j].inst /\ new.base = Value(j, ok)
    BY <1>0 DEF HasShape, JobFields
  <2>3. HasShape(new)
    BY <2>2, ValueShape DEF HasShape
  <2>4. UNCHANGED <<redis, last, lost>>
    BY <1>1 DEF BookGet
  <2> HIDE DEF new
  <2>5. Become(j, new)
    BY <2>1 DEF new
  <2> QED BY <2>1, <2>2, <2>3, <2>4, <2>5, Reads
<1>2. CASE BookRead(j)
  <2> DEFINE seen == GetOrderLatestTimestamp(job[j].inst, job[j].timestamp)
             new == [job[j] EXCEPT !.place = "set", !.seen = seen]
  <2>1. Become(j, new) /\ job[j].place \in Holding
    BY <1>2 DEF BookRead, Holding
  <2>2. HasShape(new) /\ new.inst = job[j].inst /\ new.base = job[j].base
    BY <1>0 DEF HasShape, JobFields
  <2>3. UNCHANGED <<redis, last, lost, stale, failed>>
    BY <1>2 DEF BookRead, ghosts
  <2> HIDE DEF new
  <2> QED BY <1>0, <2>1, <2>2, <2>3, BecomeJob, Elsewhere
<1>3. CASE BookSet(j)
  <2>1. PICK ok \in Replies :
            /\ Write(j, NewChange(j), ok)
            /\ last' = IF ok THEN [last EXCEPT ![job[j].inst] =
                                [id |-> NewChange(j).id, raw |-> job[j].seen]]
                       ELSE last
    BY <1>3 DEF BookSet
  <2>2. ok \in BOOLEAN
    BY ConstantsOK
  <2>3. job[j].inst \in Insts =>
            DOMAIN NewChange(j) = Fields /\ NewChange(j).raw = job[j].seen
    BY <1>0 DEF HasShape, NewChange, Fields
  <2>4. /\ DOMAIN last' = Insts
        /\ \A k \in Insts \ {job[j].inst} : last'[k] = last[k]
        /\ ok /\ job[j].inst \in Insts =>
               last'[job[j].inst].id = NewChange(j).id /\ last'[job[j].inst].raw = job[j].seen
    BY <2>1 DEF IInv, Shape
  <2> DEFINE rows == Rows(job[j].base.raw, job[j].seen, MsgOf(j).change)
             new == [job[j] EXCEPT !.place = "share", !.rows = rows]
  <2>5. HasShape(new) /\ new.place \notin Holding
    BY <1>0 DEF HasShape, JobFields, Holding
  <2>6. HasShape(At("get", job[j].inst)) /\ At("get", job[j].inst).place \notin Holding
    BY AtShape DEF Holding
  <2>7. /\ Live' = Live \cup {<<"agg2", j[2], job[j].inst>>}
        /\ \A k \in Live' : job'[k] = IF k = j THEN new
                            ELSE IF k \in Live THEN job[k] ELSE At("get", job[j].inst)
    BY <1>3 DEF BookSet, Live
  <2> HIDE DEF new
  <2>8. \A k \in Live' :
            /\ HasShape(job'[k])
            /\ job'[k].place \in Holding => k \in Live \ {j} /\ job'[k] = job[k]
    BY <1>0, <2>5, <2>6, <2>7
  <2> QED BY <2>1, <2>2, <2>3, <2>4, <2>8, Overwrites
<1>4. CASE BookShare(j)
  <2> DEFINE new == [job[j] EXCEPT !.place = "send"]
  <2>1. HasShape(new) /\ new.place \notin Holding
    BY <1>0 DEF HasShape, JobFields, Holding
  <2>2. HasShape(At("tick", job[j].inst)) /\ At("tick", job[j].inst).place \notin Holding
    BY AtShape DEF Holding
  <2> DEFINE tickers == {t \in {<<"100ms", job[j].inst>>} : changeId100ms[job[j].inst].id = 0}
  <2> HIDE DEF tickers
  <2>5. job' = [k \in Live \cup tickers |->
              IF k = j THEN new
              ELSE IF k \in Live THEN job[k] ELSE At("tick", job[j].inst)]
    BY <1>4 DEF BookShare, tickers
  <2>3. \A k \in Live' :
            \/ k = j /\ job'[k] = new
            \/ k \in Live /\ job'[k] = job[k]
            \/ job'[k] = At("tick", job[j].inst)
    BY <2>5 DEF Live
  <2>4. UNCHANGED <<redis, last, lost, stale, failed>>
    BY <1>4 DEF BookShare, ghosts
  <2> HIDE DEF new
  <2> QED BY <1>0, <2>1, <2>2, <2>3, <2>4, Elsewhere
<1>5. CASE BookSend(j)
  <2> DEFINE inst == Head(Tail(MsgOf(j).todo))
             next == At("get", inst)
  <2> HIDE DEF inst
  <2>1. HasShape(next) /\ next.place \notin Holding
    BY AtShape DEF Holding
  <2>2. UNCHANGED <<redis, last, lost, stale, failed>>
    BY <1>5 DEF BookSend
  <2>3. End(j) \/ Become(j, next)
    BY <1>5 DEF BookSend, inst
  <2> HIDE DEF next
  <2> QED BY <1>0, <2>1, <2>2, <2>3, EndJob, BecomeJob, Elsewhere
<1> QED BY <1>1, <1>2, <1>3, <1>4, <1>5

LEMMA AggStep ==
    ASSUME IInv, NEW j \in Live,
           AggGet(j) \/ AggRead(j) \/ AggSet(j) \/ AggSend(j)
    PROVE  IInv'
<1>0. HasShape(job[j]) /\ \A k \in Live : HasShape(job[k])
  BY DEF IInv, Shape
<1>1. CASE AggGet(j)
  <2>1. PICK ok \in Replies :
            /\ IF Value(j, ok) = NoValue THEN End(j)
               ELSE Become(j, [job[j] EXCEPT !.place = "read", !.base = Value(j, ok)])
            /\ Read(j, ok)
    BY <1>1 DEF AggGet
  <2> DEFINE new == [job[j] EXCEPT !.place = "read", !.base = Value(j, ok)]
  <2>2. /\ DOMAIN new = JobFields
        /\ new.inst = job[j].inst /\ new.base = Value(j, ok)
    BY <1>0 DEF HasShape, JobFields
  <2>3. HasShape(new)
    BY <2>2, ValueShape DEF HasShape
  <2>4. UNCHANGED <<redis, last, lost>>
    BY <1>1 DEF AggGet
  <2>5. End(j) \/ Become(j, new)
    BY <2>1
  <2> HIDE DEF new
  <2> QED BY <2>1, <2>2, <2>3, <2>4, <2>5, Reads
<1>2. CASE AggRead(j)
  <2> DEFINE seen == Buckets(GetOrderLatestTimestamp(job[j].inst, job[j].base.timestamp))
             new == [job[j] EXCEPT !.place = "set", !.seen = seen]
  <2>1. Become(j, new) /\ job[j].place \in Holding
    BY <1>2 DEF AggRead, Holding
  <2>2. HasShape(new) /\ new.inst = job[j].inst /\ new.base = job[j].base
    BY <1>0 DEF HasShape, JobFields
  <2>3. UNCHANGED <<redis, last, lost, stale, failed>>
    BY <1>2 DEF AggRead, ghosts
  <2> HIDE DEF new
  <2> QED BY <1>0, <2>1, <2>2, <2>3, BecomeJob, Elsewhere
<1>3. CASE AggSet(j)
  <2> DEFINE value == [job[j].base EXCEPT !.agg2 = job[j].seen]
             rows == Rows(job[j].base.agg2, job[j].seen, MsgOf(j).change)
             new == [job[j] EXCEPT !.place = "send", !.rows = rows]
  <2>1. PICK ok \in Replies : Write(j, value, ok)
    BY <1>3 DEF AggSet
  <2>2. /\ job[j].place \in Holding /\ last' = last
        /\ Become(j, new)
    BY <1>3 DEF AggSet, Holding
  <2>3. HasShape(new) /\ new.place \notin Holding
    BY <1>0 DEF HasShape, JobFields, Holding
  <2>4. job[j].inst \in Insts =>
            /\ DOMAIN value = Fields
            /\ value.id = job[j].base.id /\ value.raw = job[j].base.raw
    BY <1>0 DEF HasShape, Fields
  <2> HIDE DEF value, new
  <2> QED BY <1>0, <2>1, <2>2, <2>3, <2>4, WritesBack
<1>4. CASE AggSend(j)
  <2>1. UNCHANGED <<redis, last, lost, stale, failed>> /\ End(j)
    BY <1>4 DEF AggSend
  <2> QED BY <1>0, <2>1, EndJob, Elsewhere DEF HasShape
<1> QED BY <1>1, <1>2, <1>3, <1>4

LEMMA TickStep ==
    ASSUME IInv, NEW j \in Live,
           Tick(j) \/ TickGet(j) \/ TickRead(j) \/ TickSet(j) \/ TickSend(j)
    PROVE  IInv'
<1>0. HasShape(job[j]) /\ \A k \in Live : HasShape(job[k])
  BY DEF IInv, Shape
<1>1. CASE Tick(j)
  <2>1. PICK prev : Become(j, [job[j] EXCEPT !.place = "get", !.prev = prev])
    BY <1>1 DEF Tick
  <2> DEFINE new == [job[j] EXCEPT !.place = "get", !.prev = prev]
  <2>2. HasShape(new) /\ new.place \notin Holding
    BY <1>0 DEF HasShape, JobFields, Holding
  <2>3. UNCHANGED <<redis, last, lost, stale>> /\ (failed => failed')
    BY <1>1 DEF Tick
  <2> HIDE DEF new
  <2>4. Become(j, new)
    BY <2>1 DEF new
  <2> QED BY <1>0, <2>2, <2>3, <2>4, BecomeJob, Elsewhere
<1>2. CASE TickGet(j)
  <2>1. PICK ok \in Replies, t \in {clock + d : d \in Lags} :
            /\ Become(j, IF Value(j, ok) = NoValue THEN At("tick", job[j].inst)
                         ELSE [job[j] EXCEPT !.place = "read", !.timestamp = t,
                                             !.base = Value(j, ok)])
            /\ Read(j, ok)
    BY <1>2 DEF TickGet
  <2> DEFINE read == [job[j] EXCEPT !.place = "read", !.timestamp = t,
                                    !.base = Value(j, ok)]
             new == IF Value(j, ok) = NoValue THEN At("tick", job[j].inst) ELSE read
  <2>2. /\ DOMAIN read = JobFields
        /\ read.inst = job[j].inst /\ read.base = Value(j, ok)
    BY <1>0 DEF HasShape, JobFields
  <2>3. HasShape(read)
    BY <2>2, ValueShape DEF HasShape
  <2>4. HasShape(At("tick", job[j].inst)) /\ At("tick", job[j].inst).place \notin Holding
    BY AtShape DEF Holding
  <2>5. UNCHANGED <<redis, last, lost>>
    BY <1>2 DEF TickGet
  <2>6. Become(j, new)
    BY <2>1
  <2>7. /\ HasShape(new)
        /\ \/ new.place \notin Holding
           \/ new.inst = job[j].inst /\ new.base = Value(j, ok)
    <3> HIDE DEF read
    <3> QED BY <2>2, <2>3, <2>4
  <2> HIDE DEF new
  <2> QED BY <2>1, <2>5, <2>6, <2>7, Reads
<1>3. CASE TickRead(j)
  <2> DEFINE seen == GetOrderLatestTimestamp(job[j].inst, job[j].timestamp)
             new == [job[j] EXCEPT !.place = "set", !.seen = seen]
  <2>1. Become(j, new) /\ job[j].place \in Holding
    BY <1>3 DEF TickRead, Holding
  <2>2. HasShape(new) /\ new.inst = job[j].inst /\ new.base = job[j].base
    BY <1>0 DEF HasShape, JobFields
  <2>3. UNCHANGED <<redis, last, lost, stale, failed>>
    BY <1>3 DEF TickRead, ghosts
  <2> HIDE DEF new
  <2> QED BY <1>0, <2>1, <2>2, <2>3, BecomeJob, Elsewhere
<1>4. CASE TickSet(j)
  <2> DEFINE value == [job[j].base EXCEPT !.hundred = job[j].seen]
             rows == Rows(job[j].base.hundred, job[j].seen,
                          changeIdLocalVar[job[j].inst].change)
             new == [job[j] EXCEPT !.place = "send", !.rows = rows]
  <2>1. PICK ok \in Replies : Write(j, value, ok)
    BY <1>4 DEF TickSet
  <2>2. /\ job[j].place \in Holding /\ last' = last
        /\ Become(j, new)
    BY <1>4 DEF TickSet, Holding
  <2>3. HasShape(new) /\ new.place \notin Holding
    BY <1>0 DEF HasShape, JobFields, Holding
  <2>4. job[j].inst \in Insts =>
            /\ DOMAIN value = Fields
            /\ value.id = job[j].base.id /\ value.raw = job[j].base.raw
    BY <1>0 DEF HasShape, Fields
  <2> HIDE DEF value, new
  <2> QED BY <1>0, <2>1, <2>2, <2>3, <2>4, WritesBack
<1>5. CASE TickSend(j)
  <2> DEFINE new == At("tick", job[j].inst)
  <2>1. HasShape(new) /\ new.place \notin Holding
    BY AtShape DEF Holding
  <2>2. UNCHANGED <<redis, last, lost, stale, failed>> /\ Become(j, new)
    BY <1>5 DEF TickSend
  <2> HIDE DEF new
  <2> QED BY <1>0, <2>1, <2>2, BecomeJob, Elsewhere
<1> QED BY <1>1, <1>2, <1>3, <1>4, <1>5

(* The value a subscription writes has the Id and the raw levels of the    *)
(* one it read, unless that was absent.                                    *)
LEMMA FirstKeeps ==
    ASSUME NEW j \in Live, Writes(j),
           DOMAIN job[j].base = Fields \/ job[j].base = NoValue
    PROVE  /\ DOMAIN First(j) = Fields
           /\ job[j].base # NoValue =>
                  First(j).id = job[j].base.id /\ First(j).raw = job[j].base.raw
<1>1. CASE job[j].base = NoValue
  BY <1>1 DEF First, NoValue, Fields
<1>2. CASE job[j].base # NoValue
  <2>1. Interval(j) \in {"agg2", "100ms"}
    BY <1>2 DEF Writes
  <2>2. First(j) \in {[job[j].base EXCEPT !.agg2 = job[j].seen],
                      [job[j].base EXCEPT !.hundred = job[j].seen]}
    BY <1>2, <2>1 DEF First
  <2> QED BY <1>2, <2>2 DEF Fields
<1> QED BY <1>1, <1>2

LEMMA SnapStep ==
    ASSUME IInv, NEW j \in Live,
           SnapGet(j) \/ SnapRead(j) \/ SnapSet(j) \/ SnapMark(j) \/ SnapSend(j)
    PROVE  IInv'
<1>0. HasShape(job[j]) /\ \A k \in Live : HasShape(job[k])
  BY DEF IInv, Shape
<1>1. CASE SnapGet(j)
  <2>0. PICK ok \in Replies :
            \E t : /\ Become(j, [job[j] EXCEPT !.place = "read",
                                   !.base = Value(j, ok), !.timestamp = t])
                  /\ Read(j, ok)
    BY <1>1 DEF SnapGet
  <2>1. PICK t : /\ Become(j, [job[j] EXCEPT !.place = "read",
                                   !.base = Value(j, ok), !.timestamp = t])
                 /\ Read(j, ok)
    BY <2>0
  <2> DEFINE new == [job[j] EXCEPT !.place = "read", !.base = Value(j, ok),
                                   !.timestamp = t]
  <2>2. /\ DOMAIN new = JobFields
        /\ new.inst = job[j].inst /\ new.base = Value(j, ok)
    BY <1>0 DEF HasShape, JobFields
  <2>3. HasShape(new)
    BY <2>2, ValueShape DEF HasShape
  <2>4. UNCHANGED <<redis, last, lost>>
    BY <1>1 DEF SnapGet
  <2> HIDE DEF new
  <2>5. Become(j, new)
    BY <2>1 DEF new
  <2> QED BY <2>1, <2>2, <2>3, <2>4, <2>5, Reads
<1>2. CASE SnapRead(j)
  <2>1. PICK seen : Become(j, [job[j] EXCEPT !.place = "set", !.seen = seen])
    BY <1>2 DEF SnapRead
  <2> DEFINE new == [job[j] EXCEPT !.place = "set", !.seen = seen]
  <2>2. HasShape(new) /\ new.inst = job[j].inst /\ new.base = job[j].base
    BY <1>0 DEF HasShape, JobFields
  <2>3. UNCHANGED <<redis, last, lost, stale, failed>> /\ job[j].place \in Holding
    BY <1>2 DEF SnapRead, ghosts, Holding
  <2> HIDE DEF new
  <2>4. Become(j, new)
    BY <2>1 DEF new
  <2> QED BY <1>0, <2>2, <2>3, <2>4, BecomeJob, Elsewhere
<1>3. CASE SnapSet(j)
  <2> DEFINE place == IF Interval(j) = "100ms" THEN "mark" ELSE "send"
             base == IF Writes(j) THEN First(j) ELSE job[j].base
             new == [job[j] EXCEPT !.place = place, !.base = base]
  <2>1. Become(j, new) /\ last' = last /\ job[j].place \in Holding
    BY <1>3 DEF SnapSet, Holding
  <2>2. place \notin Holding
    BY DEF Holding
  <2>3. job[j].inst \in Insts => DOMAIN base = Fields
    BY <1>0, FirstKeeps DEF HasShape
  <2> HIDE DEF place, base
  <2>4. HasShape(new) /\ new.place \notin Holding
    BY <1>0, <2>2, <2>3 DEF HasShape, JobFields
  <2> HIDE DEF new
  <2>5. CASE ~Writes(j)
    <3>1. UNCHANGED <<redis, last, lost, stale, failed>>
      BY <1>3, <2>5 DEF SnapSet
    <3> QED BY <1>0, <2>1, <2>4, <3>1, BecomeJob, Elsewhere
  <2>6. CASE Writes(j) /\ job[j].base # NoValue
    <3>1. PICK ok \in Replies : Write(j, First(j), ok)
      BY <1>3, <2>6 DEF SnapSet
    <3>2. job[j].inst \in Insts =>
              /\ DOMAIN First(j) = Fields
              /\ First(j).id = job[j].base.id /\ First(j).raw = job[j].base.raw
      BY <1>0, <2>6, FirstKeeps DEF HasShape
    <3> QED BY <2>1, <2>4, <3>1, <3>2, WritesBack
  <2>7. CASE Writes(j) /\ job[j].base = NoValue
    <3>1. PICK ok \in Replies : Write(j, First(j), ok)
      BY <1>3, <2>7 DEF SnapSet
    <3>2. ok \in BOOLEAN
      BY ConstantsOK
    <3>3. ~(ok /\ job[j].inst \in Insts \ lost' /\ ~failed' /\ last[job[j].inst].id # 0)
      <4> SUFFICES ASSUME ok, job[j].inst \in Insts \ lost', ~failed',
                          last[job[j].inst].id # 0
                   PROVE  FALSE
        OBVIOUS
      <4>1. j \notin stale /\ job[j].inst \notin lost /\ ~failed
        BY <3>1, <3>2 DEF Write
      <4>2. redis[job[j].inst] = NoValue
        BY <2>1, <2>7, <4>1 DEF IInv, Current
      <4>3. redis[job[j].inst].id = last[job[j].inst].id
        BY <4>1 DEF IInv, LastChangeKept
      <4> QED BY <4>2, <4>3 DEF NoValue
    <3>4. DOMAIN First(j) = Fields
      BY <2>7, FirstKeeps
    <3>5. DOMAIN last' = Insts /\ \A k \in Insts : last'[k] = last[k]
      BY <2>1 DEF IInv, Shape
    <3>6. \A k \in Live' :
              /\ HasShape(job'[k])
              /\ job'[k].place \in Holding => k \in Live \ {j} /\ job'[k] = job[k]
      BY <1>0, <2>1, <2>4, BecomeJob
    <3> QED BY <2>1, <3>1, <3>2, <3>3, <3>4, <3>5, <3>6, Overwrites
  <2> QED BY <2>5, <2>6, <2>7
<1>4. CASE SnapMark(j)
  <2> DEFINE new == [job[j] EXCEPT !.place = "send"]
  <2>1. HasShape(new) /\ new.place \notin Holding
    BY <1>0 DEF HasShape, JobFields, Holding
  <2>2. /\ UNCHANGED <<redis, last, lost, stale>> /\ (failed => failed')
        /\ Become(j, new)
    BY <1>4 DEF SnapMark
  <2> HIDE DEF new
  <2> QED BY <1>0, <2>1, <2>2, BecomeJob, Elsewhere
<1>5. CASE SnapSend(j)
  <2>1. UNCHANGED <<redis, last, lost, stale, failed>> /\ End(j)
    BY <1>5 DEF SnapSend, ghosts
  <2> QED BY <1>0, <2>1, EndJob, Elsewhere
<1> QED BY <1>1, <1>2, <1>3, <1>4, <1>5

(* The engine and the clients only start goroutines.                       *)
LEMMA Starts ==
    ASSUME IInv, NEW j, NEW i, Start(j, At("get", i)),
           UNCHANGED <<redis, last, lost, stale, failed>>
    PROVE  IInv'
<1>1. HasShape(At("get", i)) /\ At("get", i).place \notin Holding
  BY AtShape DEF Holding
<1>2. \A k \in Live : HasShape(job[k])
  BY DEF IInv, Shape
<1> QED BY <1>1, <1>2, StartJob, Elsewhere

LEMMA Sends ==
    ASSUME IInv, NEW change, NEW insts, Send(change, insts)
    PROVE  IInv'
<1>1. PICK m \in Msgs : Start(<<"raw", m>>, At("get", Head(insts)))
  BY DEF Send
<1>2. UNCHANGED <<redis, last, lost, stale, failed>>
  BY DEF Send, ghosts
<1> QED BY <1>1, <1>2, Starts

-----------------------------------------------------------------------------
LEMMA NextKeeps == IInv /\ [Next]_vars => IInv'
<1> SUFFICES ASSUME IInv, [Next]_vars PROVE IInv'
  OBVIOUS
<1>1. CASE Engine
  <2>1. ASSUME NEW o \in Orders, Rest(o) PROVE IInv'
    BY <2>1, Sends DEF Rest
  <2>2. ASSUME NEW o \in Orders, Cancel(o) PROVE IInv'
    BY <2>2, Sends DEF Cancel
  <2>3. ASSUME NEW o \in Orders, Amend(o) PROVE IInv'
    BY <2>3, Sends DEF Amend
  <2>4. ASSUME NEW o \in Orders, NEW maker \in Orders, Trade(o, maker) PROVE IInv'
    BY <2>4, Sends DEF Trade
  <2>5. ASSUME NEW S \in SUBSET Orders, CancelAll(S) PROVE IInv'
    BY <2>5, Sends DEF CancelAll
  <2> QED BY <1>1, <2>1, <2>2, <2>3, <2>4, <2>5 DEF Engine
<1>2. ASSUME NEW c \in Subs, SubscribeBook(c) PROVE IInv'
  BY <1>2, Starts DEF SubscribeBook, ghosts
<1>3. ASSUME NEW j \in Live, Run(j) PROVE IInv'
  BY <1>3, BookStep, AggStep, TickStep, SnapStep DEF Run
<1>4. CASE UNCHANGED vars
  BY <1>4, NoWrite DEF vars, ghosts, IInv, Shape, Current, Live
<1> QED BY <1>1, <1>2, <1>3, <1>4 DEF Next

(* CHANGEID keeps the Id and the levels of the last raw change through     *)
(* every aggregated book, tick and subscription that rewrites it, as long  *)
(* as none of them is overtaken and Redis answers.                         *)
THEOREM ChangesKept == Spec => []LastChangeKept
<1>1. Init => IInv
  BY DEF Init, IInv, Shape, LastChangeKept, Live, NoValue, Fields
<1>2. IInv => LastChangeKept
  BY DEF IInv
<1> QED BY <1>1, <1>2, NextKeeps, PTL DEF Spec

-----------------------------------------------------------------------------
(* A change is on its way to the broadcast.                                *)
Sending(j) == job[j].place \in {"share", "send"}

(* Whom a change is owed to is subscribed where it will be broadcast, and  *)
(* a goroutine with a change is not started a second time.                 *)
Heard ==
    /\ \A c \in Subs, j \in Jobs : <<c, j>> \in owed =>
           /\ j \in Live /\ Sending(j)
           /\ c \in Asked /\ chosen[c] = <<job[j].inst, Channel(j)>>
    /\ \A c \in Asked : c \in subscribed /\ chosen[c] \in Insts \X Intervals
    /\ \A m \in Msgs : <<"raw", m>> \in Live => msg[m].change # NoChange
    /\ DOMAIN chosen = Subs /\ DOMAIN msg = Msgs
    /\ \A m \in Msgs : DOMAIN msg[m] = {"change", "todo"}

(* The messages stay what they are but for the instruments handled.        *)
SameMsgs ==
    /\ DOMAIN msg' = Msgs
    /\ \A m \in Msgs :
           DOMAIN msg'[m] = {"change", "todo"} /\ msg'[m].change = msg[m].change
    /\ \A m \in Msgs : <<"raw", m>> \in Live' => <<"raw", m>> \in Live

(* A subscription is broadcast to nobody.                                  *)
LEMMA NoneOwed ==
    ASSUME Heard, NEW c \in Asked, NEW i, NEW j \in Snaps
    PROVE  chosen[c] # <<i, Channel(j)>>
<1>1. Channel(j) = "none"
  BY DEF Channel, Snaps
<1>2. "none" \notin Intervals
  BY ConstantsOK
<1> QED BY <1>1, <1>2 DEF Heard

(* A step that writes nothing and broadcasts nothing.                      *)
LEMMA Quiet ==
    ASSUME Heard, UNCHANGED <<owed, chosen, subscribed>>, SameMsgs,
           \A k \in Live : Sending(k) /\ k \notin Snaps =>
               k \in Live' /\ Sending(k)' /\ job'[k].inst = job[k].inst
    PROVE  Heard'
<1>1. Asked' = Asked /\ \A j : Channel(j)' = Channel(j)
  BY DEF Asked, Channel
<1>2. \A c \in Subs, j \in Jobs : <<c, j>> \in owed => j \notin Snaps
  BY NoneOwed DEF Heard
<1> QED BY <1>1, <1>2 DEF Heard, SameMsgs

LEMMA QuietBecome ==
    ASSUME Heard, NEW j \in Live, NEW new, Become(j, new),
           UNCHANGED <<owed, chosen, subscribed, msg>>,
           \/ ~Sending(j) \/ j \in Snaps
           \/ new.place \in {"share", "send"} /\ new.inst = job[j].inst
    PROVE  Heard'
<1>1. SameMsgs
  BY BecomeJob DEF SameMsgs, Heard
<1> QED BY <1>1, BecomeJob, Quiet DEF Sending

LEMMA QuietEnd ==
    ASSUME Heard, NEW j \in Live, End(j),
           UNCHANGED <<owed, chosen, subscribed, msg>>,
           ~Sending(j) \/ j \in Snaps
    PROVE  Heard'
<1>1. SameMsgs
  BY EndJob DEF SameMsgs, Heard
<1> QED BY <1>1, EndJob, Quiet DEF Sending

(* A step that writes a change goes on to broadcast it.                    *)
LEMMA Written ==
    ASSUME Heard, NEW j \in Live, NEW value, NEW ok, Write(j, value, ok),
           UNCHANGED <<chosen, subscribed>>, SameMsgs,
           \A k \in Live \ {j} : k \in Live' /\ job'[k] = job[k],
           \/ j \in Snaps
           \/ j \in Live' /\ Sending(j)' /\ job'[j].inst = job[j].inst
    PROVE  Heard'
<1>1. Asked' = Asked /\ \A k : Channel(k)' = Channel(k)
  BY DEF Asked, Channel
<1>2. owed' \subseteq owed \cup
          {<<c, j>> : c \in {d \in Asked : chosen[d] = <<job[j].inst, Channel(j)>>}}
  BY DEF Write
<1>3. ASSUME NEW c \in Subs, NEW k \in Jobs, <<c, k>> \in owed'
      PROVE  /\ k \in Live /\ k \notin Snaps
             /\ k # j => Sending(k)
             /\ c \in Asked /\ chosen[c] = <<job[k].inst, Channel(k)>>
  <2>1. CASE <<c, k>> \in owed
    BY <2>1, NoneOwed DEF Heard
  <2>2. CASE k = j /\ c \in Asked /\ chosen[c] = <<job[j].inst, Channel(j)>>
    BY <2>2, NoneOwed
  <2> QED BY <1>2, <1>3, <2>1, <2>2
<1>4. ASSUME NEW c \in Subs, NEW k \in Jobs, <<c, k>> \in owed'
      PROVE  /\ k \in Live' /\ Sending(k)'
             /\ c \in Asked' /\ chosen'[c] = <<job'[k].inst, Channel(k)'>>
  BY <1>1, <1>3, <1>4 DEF Sending
<1> QED BY <1>1, <1>4 DEF Heard, SameMsgs

(* A broadcast reaches everyone it was owed to.                            *)
LEMMA Sent ==
    ASSUME Heard, NEW j \in Live, BroadcastMessage(j),
           UNCHANGED <<chosen, subscribed>>, SameMsgs,
           \A k \in Live \ {j} : k \in Live' /\ job'[k] = job[k]
    PROVE  Heard'
<1>1. Asked' = Asked /\ \A k : Channel(k)' = Channel(k)
  BY DEF Asked, Channel
<1>2. ASSUME NEW c \in Subs, NEW k \in Jobs, <<c, k>> \in owed'
      PROVE  <<c, k>> \in owed /\ k # j
  BY <1>2 DEF BroadcastMessage, Heard
<1>3. ASSUME NEW c \in Subs, NEW k \in Jobs, <<c, k>> \in owed'
      PROVE  /\ k \in Live' /\ Sending(k)'
             /\ c \in Asked' /\ chosen'[c] = <<job'[k].inst, Channel(k)'>>
  BY <1>1, <1>2, <1>3 DEF Heard, Sending
<1> QED BY <1>1, <1>3 DEF Heard, SameMsgs

LEMMA HearsBook ==
    ASSUME IInv, Heard, NEW j \in Live,
           BookGet(j) \/ BookRead(j) \/ BookSet(j) \/ BookShare(j) \/ BookSend(j)
    PROVE  Heard'
<1>0. HasShape(job[j])
  BY DEF IInv, Shape
<1>1. CASE BookGet(j)
  <2>1. PICK new : Become(j, new)
    BY <1>1 DEF BookGet
  <2>2. UNCHANGED <<owed, chosen, subscribed, msg>> /\ ~Sending(j)
    BY <1>1 DEF BookGet, rest, sockets, Sending
  <2> QED BY <2>1, <2>2, QuietBecome
<1>2. CASE BookRead(j)
  <2>1. PICK new : Become(j, new)
    BY <1>2 DEF BookRead
  <2>2. UNCHANGED <<owed, chosen, subscribed, msg>> /\ ~Sending(j)
    BY <1>2 DEF BookRead, rest, sockets, ghosts, Sending
  <2> QED BY <2>1, <2>2, QuietBecome
<1>3. CASE BookSet(j)
  <2>1. PICK ok \in Replies : Write(j, NewChange(j), ok)
    BY <1>3 DEF BookSet
  <2> DEFINE rows == Rows(job[j].base.raw, job[j].seen, MsgOf(j).change)
             new == [job[j] EXCEPT !.place = "share", !.rows = rows]
  <2>2. new.place = "share" /\ new.inst = job[j].inst
    BY <1>0 DEF HasShape, JobFields
  <2>3. /\ Live' = Live \cup {<<"agg2", j[2], job[j].inst>>}
        /\ \A k \in Live' : job'[k] = IF k = j THEN new
                            ELSE IF k \in Live THEN job[k] ELSE At("get", job[j].inst)
    BY <1>3 DEF BookSet, Live
  <2> HIDE DEF new
  <2>4. UNCHANGED <<chosen, subscribed, msg>>
    BY <1>3 DEF BookSet, rest, sockets
  <2>5. SameMsgs
    BY <2>3, <2>4 DEF SameMsgs, Heard
  <2> QED BY <2>1, <2>2, <2>3, <2>4, <2>5, Written DEF Sending
<1>4. CASE BookShare(j)
  <2> DEFINE new == [job[j] EXCEPT !.place = "send"]
             tickers == {t \in {<<"100ms", job[j].inst>>} : changeId100ms[job[j].inst].id = 0}
  <2>1. new.place = "send" /\ new.inst = job[j].inst
    BY <1>0 DEF HasShape, JobFields
  <2>2. \A m \in Msgs : <<"raw", m>> \notin tickers
    OBVIOUS
  <2> HIDE DEF tickers
  <2>3. job' = [k \in Live \cup tickers |->
              IF k = j THEN new
              ELSE IF k \in Live THEN job[k] ELSE At("tick", job[j].inst)]
    BY <1>4 DEF BookShare, tickers
  <2> HIDE DEF new
  <2>4. Live' = Live \cup tickers
    BY <2>3 DEF Live
  <2>5. UNCHANGED <<owed, chosen, subscribed, msg>>
    BY <1>4 DEF BookShare, rest, sockets, ghosts
  <2>6. SameMsgs
    BY <2>2, <2>4, <2>5 DEF SameMsgs, Heard
  <2>7. \A k \in Live : Sending(k) =>
            k \in Live' /\ Sending(k)' /\ job'[k].inst = job[k].inst
    BY <2>1, <2>3, <2>4 DEF Sending
  <2> QED BY <2>5, <2>6, <2>7, Quiet
<1>5. CASE BookSend(j)
  <2>1. PICK new : End(j) \/ Become(j, new)
    BY <1>5 DEF BookSend
  <2>2. BroadcastMessage(j) /\ UNCHANGED <<chosen, subscribed>>
    BY <1>5 DEF BookSend, rest, sockets
  <2>3. \A k \in Live \ {j} : k \in Live' /\ job'[k] = job[k]
    BY <2>1, EndJob, BecomeJob
  <2>4. Live' \subseteq Live
    BY <2>1, EndJob, BecomeJob
  <2>5. PICK todo : msg' = [msg EXCEPT ![j[2]].todo = todo]
    BY <1>5 DEF BookSend
  <2>6. SameMsgs
    BY <2>4, <2>5 DEF SameMsgs, Heard
  <2> QED BY <2>2, <2>3, <2>6, Sent
<1> QED BY <1>1, <1>2, <1>3, <1>4, <1>5

LEMMA HearsAgg ==
    ASSUME IInv, Heard, NEW j \in Live,
           AggGet(j) \/ AggRead(j) \/ AggSet(j) \/ AggSend(j)
    PROVE  Heard'
<1>0. HasShape(job[j])
  BY DEF IInv, Shape
<1>1. CASE AggGet(j)
  <2>1. PICK new : End(j) \/ Become(j, new)
    BY <1>1 DEF AggGet
  <2>2. UNCHANGED <<owed, chosen, subscribed, msg>> /\ ~Sending(j)
    BY <1>1 DEF AggGet, rest, sockets, Sending
  <2> QED BY <2>1, <2>2, QuietBecome, QuietEnd
<1>2. CASE AggRead(j)
  <2>1. PICK new : Become(j, new)
    BY <1>2 DEF AggRead
  <2>2. UNCHANGED <<owed, chosen, subscribed, msg>> /\ ~Sending(j)
    BY <1>2 DEF AggRead, rest, sockets, ghosts, Sending
  <2> QED BY <2>1, <2>2, QuietBecome
<1>3. CASE AggSet(j)
  <2> DEFINE rows == Rows(job[j].base.agg2, job[j].seen, MsgOf(j).change)
             new == [job[j] EXCEPT !.place = "send", !.rows = rows]
  <2>1. PICK value, ok : Write(j, value, ok)
    BY <1>3 DEF AggSet
  <2>2. Become(j, new) /\ UNCHANGED <<chosen, subscribed, msg>>
    BY <1>3 DEF AggSet, rest, sockets
  <2>3. new.place = "send" /\ new.inst = job[j].inst
    BY <1>0 DEF HasShape, JobFields
  <2> HIDE DEF new
  <2>4. SameMsgs
    BY <2>2, BecomeJob DEF SameMsgs, Heard
  <2> QED BY <2>1, <2>2, <2>3, <2>4, BecomeJob, Written DEF Sending
<1>4. CASE AggSend(j)
  <2>1. /\ BroadcastMessage(j) /\ End(j)
        /\ UNCHANGED <<chosen, subscribed, msg>>
    BY <1>4 DEF AggSend, rest, sockets
  <2>2. SameMsgs
    BY <2>1, EndJob DEF SameMsgs, Heard
  <2> QED BY <2>1, <2>2, EndJob, Sent
<1> QED BY <1>1, <1>2, <1>3, <1>4

LEMMA HearsTick ==
    ASSUME IInv, Heard, NEW j \in Live,
           Tick(j) \/ TickGet(j) \/ TickRead(j) \/ TickSet(j) \/ TickSend(j)
    PROVE  Heard'
<1>0. HasShape(job[j])
  BY DEF IInv, Shape
<1>1. CASE Tick(j) \/ TickGet(j) \/ TickRead(j)
  <2>1. PICK new : Become(j, new)
    BY <1>1 DEF Tick, TickGet, TickRead
  <2>2. UNCHANGED <<owed, chosen, subscribed, msg>> /\ ~Sending(j)
    BY <1>1 DEF Tick, TickGet, TickRead, rest, sockets, ghosts, Sending
  <2> QED BY <2>1, <2>2, QuietBecome
<1>2. CASE TickSet(j)
  <2> DEFINE rows == Rows(job[j].base.hundred, job[j].seen,
                          changeIdLocalVar[job[j].inst].change)
             new == [job[j] EXCEPT !.place = "send", !.rows = rows]
  <2>1. PICK value, ok : Write(j, value, ok)
    BY <1>2 DEF TickSet
  <2>2. Become(j, new) /\ UNCHANGED <<chosen, subscribed, msg>>
    BY <1>2 DEF TickSet, rest, sockets
  <2>3. new.place = "send" /\ new.inst = job[j].inst
    BY <1>0 DEF HasShape, JobFields
  <2> HIDE DEF new
  <2>4. SameMsgs
    BY <2>2, BecomeJob DEF SameMsgs, Heard
  <2> QED BY <2>1, <2>2, <2>3, <2>4, BecomeJob, Written DEF Sending
<1>3. CASE TickSend(j)
  <2>1. PICK new : Become(j, new)
    BY <1>3 DEF TickSend
  <2>2. BroadcastMessage(j) /\ UNCHANGED <<chosen, subscribed, msg>>
    BY <1>3 DEF TickSend, rest, sockets
  <2>3. SameMsgs
    BY <2>1, <2>2, BecomeJob DEF SameMsgs, Heard
  <2> QED BY <2>1, <2>2, <2>3, BecomeJob, Sent
<1> QED BY <1>1, <1>2, <1>3

LEMMA HearsSnap ==
    ASSUME Heard, NEW j \in Live,
           SnapGet(j) \/ SnapRead(j) \/ SnapSet(j) \/ SnapMark(j) \/ SnapSend(j)
    PROVE  Heard'
<1>1. j \in Snaps
  BY DEF SnapGet, SnapRead, SnapSet, SnapMark, SnapSend
<1>2. CASE SnapGet(j) \/ SnapRead(j) \/ SnapMark(j)
  <2>1. PICK new : Become(j, new)
    BY <1>2 DEF SnapGet, SnapRead, SnapMark
  <2>2. UNCHANGED <<owed, chosen, subscribed, msg>>
    BY <1>2 DEF SnapGet, SnapRead, SnapMark, rest, sockets, ghosts
  <2> QED BY <1>1, <2>1, <2>2, QuietBecome
<1>3. CASE SnapSet(j)
  <2>1. PICK new : Become(j, new)
    BY <1>3 DEF SnapSet
  <2>2. UNCHANGED <<chosen, subscribed, msg>>
    BY <1>3 DEF SnapSet, rest, sockets
  <2>3. CASE Writes(j)
    <3>1. PICK ok : Write(j, First(j), ok)
      BY <1>3, <2>3 DEF SnapSet
    <3>2. SameMsgs
      BY <2>1, <2>2, BecomeJob DEF SameMsgs, Heard
    <3> QED BY <1>1, <2>1, <2>2, <3>1, <3>2, BecomeJob, Written
  <2>4. CASE ~Writes(j)
    BY <1>1, <1>3, <2>1, <2>2, <2>4, QuietBecome DEF SnapSet
  <2> QED BY <2>3, <2>4
<1>4. CASE SnapSend(j)
  BY <1>1, <1>4, QuietEnd DEF SnapSend, rest, sockets, ghosts
<1> QED BY <1>2, <1>3, <1>4, <1>1

(* A message is a new one.                                                 *)
LEMMA HearsSend ==
    ASSUME Heard, NEW change, change # NoChange, NEW insts, Send(change, insts)
    PROVE  Heard'
<1>1. PICK m \in Msgs :
          /\ msg[m].change = NoChange
          /\ msg' = [msg EXCEPT ![m] = [change |-> change, todo |-> insts]]
          /\ Start(<<"raw", m>>, At("get", Head(insts)))
  BY DEF Send
<1>2. UNCHANGED <<owed, chosen, subscribed>>
  BY DEF Send, sockets, ghosts
<1>3. <<"raw", m>> \notin Live
  BY <1>1 DEF Heard
<1>4. /\ Live' = Live \cup {<<"raw", m>>}
      /\ \A k \in Live : job'[k] = job[k]
  BY <1>1, <1>3, StartJob
<1>5. Asked' = Asked /\ \A k : Channel(k)' = Channel(k)
  BY <1>2 DEF Asked, Channel
<1>6. \A n \in Msgs : <<"raw", n>> \in Live' => msg'[n].change # NoChange
  BY <1>1, <1>4 DEF Heard
<1>7. DOMAIN msg' = Msgs /\ \A n \in Msgs : DOMAIN msg'[n] = {"change", "todo"}
  BY <1>1 DEF Heard
<1> QED BY <1>2, <1>4, <1>5, <1>6, <1>7 DEF Heard, Sending

LEMMA AboutIsNew ==
    ASSUME NEW o, NEW status, NEW price, NEW old, status # ""
    PROVE  About(o, status, price, old) # NoChange
BY DEF About, NoChange

LEMMA HearsEngine == ASSUME Heard, Engine PROVE Heard'
<1>1. ASSUME NEW o \in Orders, Rest(o) PROVE Heard'
  BY <1>1, AboutIsNew, HearsSend DEF Rest
<1>2. ASSUME NEW o \in Orders, Cancel(o) PROVE Heard'
  BY <1>2, AboutIsNew, HearsSend DEF Cancel
<1>3. ASSUME NEW o \in Orders, Amend(o) PROVE Heard'
  BY <1>3, AboutIsNew, HearsSend DEF Amend
<1>4. ASSUME NEW o \in Orders, NEW maker \in Orders, Trade(o, maker) PROVE Heard'
  <2>1. PICK status, insts :
            status # "" /\ Send(About(o, status, order[o].price, 0), insts)
    BY <1>4 DEF Trade
  <2> QED BY <2>1, AboutIsNew, HearsSend
<1>5. ASSUME NEW S \in SUBSET Orders, CancelAll(S) PROVE Heard'
  <2>1. PICK books, insts :
            Send([NoChange EXCEPT !.status = "CANCELLED_ALL", !.books = books], insts)
    BY <1>5 DEF CancelAll
  <2>2. [NoChange EXCEPT !.status = "CANCELLED_ALL", !.books = books] # NoChange
    BY DEF NoChange
  <2> QED BY <2>1, <2>2, HearsSend
<1> QED BY <1>1, <1>2, <1>3, <1>4, <1>5 DEF Engine

(* A new subscriber: nothing was owed to it, nor by the snapshot it starts. *)
LEMMA HearsSubscribe ==
    ASSUME Heard, NEW c \in Subs, SubscribeBook(c) PROVE Heard'
<1>1. PICK i \in Insts, k \in Intervals :
          /\ chosen' = [chosen EXCEPT ![c] = <<i, k>>]
          /\ Start(<<"snap", c>>, At("get", i))
  BY DEF SubscribeBook
<1>2. /\ chosen[c] = None /\ subscribed' = subscribed \cup {c}
      /\ UNCHANGED <<owed, msg>>
  BY DEF SubscribeBook, ghosts
<1>3. <<i, k>> # None
  BY ConstantsOK
<1>4. /\ Asked' = Asked \cup {c} /\ c \notin Asked
      /\ chosen'[c] = <<i, k>> /\ \A d \in Asked : chosen'[d] = chosen[d]
      /\ DOMAIN chosen' = Subs
  BY <1>1, <1>2, <1>3 DEF Asked, Heard
<1>5. /\ Live' = Live \cup {<<"snap", c>>}
      /\ \A j \in Live \ {<<"snap", c>>} : job'[j] = job[j]
  BY <1>1, StartJob
<1>6. \A m \in Msgs : <<"raw", m>> # <<"snap", c>>
  OBVIOUS
<1>7. \A j : Channel(j)' = Channel(j)
  BY DEF Channel
<1>8. ASSUME NEW d \in Subs, NEW j \in Jobs, <<d, j>> \in owed
      PROVE  /\ j \in Live' /\ Sending(j)'
             /\ d \in Asked' /\ chosen'[d] = <<job'[j].inst, Channel(j)'>>
  <2>1. /\ j \in Live /\ Sending(j) /\ d \in Asked
        /\ chosen[d] = <<job[j].inst, Channel(j)>>
    BY <1>8 DEF Heard
  <2>2. j # <<"snap", c>>
    BY <2>1, NoneOwed DEF Snaps
  <2> QED BY <1>4, <1>5, <1>7, <2>1, <2>2 DEF Sending
<1>9. \A d \in Asked' : d \in subscribed' /\ chosen'[d] \in Insts \X Intervals
  BY <1>2, <1>4 DEF Heard
<1>10. \A m \in Msgs : <<"raw", m>> \in Live' => msg'[m].change # NoChange
  BY <1>2, <1>5, <1>6 DEF Heard
<1>11. DOMAIN msg' = Msgs /\ \A m \in Msgs : DOMAIN msg'[m] = {"change", "todo"}
  BY <1>2 DEF Heard
<1> QED BY <1>2, <1>4, <1>8, <1>9, <1>10, <1>11 DEF Heard

LEMMA NextHears == IInv /\ Heard /\ [Next]_vars => Heard'
<1> SUFFICES ASSUME IInv, Heard, [Next]_vars PROVE Heard'
  OBVIOUS
<1>1. ASSUME NEW j \in Live, Run(j) PROVE Heard'
  BY <1>1, HearsBook, HearsAgg, HearsTick, HearsSnap DEF Run
<1>2. CASE UNCHANGED vars
  <2>1. UNCHANGED <<owed, chosen, subscribed, msg, job>>
    BY <1>2 DEF vars, ghosts, sockets
  <2>2. Asked' = Asked /\ Live' = Live /\ \A k : Channel(k)' = Channel(k)
    BY <2>1 DEF Asked, Live, Channel
  <2> QED BY <2>1, <2>2 DEF Heard, Sending
<1> QED BY <1>1, <1>2, HearsEngine, HearsSubscribe DEF Next

(* Whoever has subscribed before a change is written, and whose snapshot   *)
(* has been read before, is in the broadcast of that change: at any number *)
(* of clients and messages, also when Redis fails or a value is lost.      *)
THEOREM ChangesHeard == Spec => []NoChangeMissed
<1>1. Init => IInv
  BY DEF Init, IInv, Shape, LastChangeKept, Live, NoValue, Fields
<1>2. Init => Heard
  BY DEF Init, Heard, Asked, Live
<1>3. IInv /\ Heard => NoChangeMissed
  BY DEF Heard, Sending, NoChangeMissed
<1> QED BY <1>1, <1>2, <1>3, NextKeeps, NextHears, PTL DEF Spec

-----------------------------------------------------------------------------
(* The type invariant.                                                     *)

(* What TypeOK leaves open: the functions' domains, and that a message     *)
(* being handled has an instrument left.                                   *)
Forms ==
    /\ DOMAIN msg = Msgs /\ \A m \in Msgs : DOMAIN msg[m] = {"change", "todo"}
    /\ DOMAIN changeId100ms = Insts /\ DOMAIN changeIdLocalVar = Insts
    /\ DOMAIN chosen = Subs
    /\ \A m \in Msgs : <<"raw", m>> \in Live => msg[m].todo # << >>

OrdersOK ==
    /\ order \in [Orders -> [left : Nat, price : Prices, old : Prices \cup {0},
                             updatedAt : Nat, new : BOOLEAN]]
    /\ clock \in Nat

MessagesOK ==
    /\ \A m \in Msgs : IsChange(msg[m].change) /\ msg[m].todo \in Seq(Insts)
    /\ DOMAIN msg = Msgs /\ \A m \in Msgs : DOMAIN msg[m] = {"change", "todo"}
    /\ \A m \in Msgs : <<"raw", m>> \in Live => msg[m].todo # << >>

RedisOK ==
    /\ \A i \in Insts : IsValue(redis[i]) /\ last[i].id \in Nat /\ IsBook(last[i].raw)
    /\ snapshotId \in [Insts -> Nat]

HundredOK ==
    /\ DOMAIN changeId100ms = Insts /\ DOMAIN changeIdLocalVar = Insts
    /\ \A i \in Insts :
        /\ changeId100ms[i].id \in Nat /\ IsChange(changeId100ms[i].change)
        /\ changeIdLocalVar[i].id \in Nat /\ IsChange(changeIdLocalVar[i].change)
    /\ feed \in [Insts -> [id : Nat, idPrev : Nat]]

JobsOK == Live \subseteq Jobs /\ \A j \in Live : IsJob(job[j])

SubsOK ==
    /\ \A c \in Subs : chosen[c] # None => chosen[c] \in Insts \X Intervals
    /\ DOMAIN chosen = Subs
    /\ subscribed \subseteq Subs

GhostsOK ==
    /\ stale \subseteq Jobs /\ lost \subseteq Insts /\ failed \in BOOLEAN
    /\ owed \subseteq Subs \X Jobs

(* TypeOK, part by part.                                                  *)
LEMMA Parts ==
    TypeOK /\ Forms <=>
        OrdersOK /\ MessagesOK /\ RedisOK /\ HundredOK /\ JobsOK /\ SubsOK /\ GhostsOK
<1>1. TypeOK /\ Forms =>
        OrdersOK /\ MessagesOK /\ RedisOK /\ HundredOK /\ JobsOK /\ SubsOK /\ GhostsOK
  BY DEF TypeOK, Forms, OrdersOK, MessagesOK, RedisOK, HundredOK, JobsOK, SubsOK, GhostsOK
<1>2. ASSUME OrdersOK, MessagesOK, RedisOK, HundredOK, JobsOK, SubsOK, GhostsOK
      PROVE  TypeOK /\ Forms
  BY <1>2 DEF TypeOK, Forms, OrdersOK, MessagesOK, RedisOK, HundredOK, JobsOK, SubsOK, GhostsOK
<1> QED BY <1>1, <1>2

Typed ==
    OrdersOK /\ MessagesOK /\ RedisOK /\ HundredOK /\ JobsOK /\ SubsOK /\ GhostsOK

(* The zero values.                                                       *)
LEMMA NothingTyped ==
    /\ IsBook(NoBook) /\ IsValue(NoValue) /\ IsChange(NoChange)
    /\ DOMAIN NoValue = Fields
<1>1. IsBook(NoBook)
  BY DEF IsBook, NoBook
<1> QED BY <1>1 DEF IsValue, NoValue, IsChange, NoChange, Statuses, Sides, Fields

(* A goroutine that starts.                                               *)
LEMMA AtTyped ==
    ASSUME NEW place \in {"tick", "get"}, NEW i \in Insts
    PROVE  IsJob(At(place, i)) /\ At(place, i).place = place /\ At(place, i).inst = i
BY NothingTyped DEF IsJob, At, Places

LEMMA JobsBecome ==
    ASSUME JobsOK, NEW j \in Live, NEW new, Become(j, new), IsJob(new)
    PROVE  JobsOK' /\ Live' = Live
BY BecomeJob DEF JobsOK

LEMMA JobsEnd ==
    ASSUME JobsOK, NEW j \in Live, End(j)
    PROVE  JobsOK' /\ Live' = Live \ {j}
BY EndJob DEF JobsOK

LEMMA JobsStart ==
    ASSUME JobsOK, NEW j \in Jobs, NEW i \in Insts, Start(j, At("get", i))
    PROVE  JobsOK' /\ Live' = Live \cup {j}
BY StartJob, AtTyped DEF JobsOK

LEMMA ReadTyped ==
    ASSUME GhostsOK, NEW j, NEW ok \in BOOLEAN, Read(j, ok), UNCHANGED <<lost, owed>>
    PROVE  GhostsOK'
BY DEF GhostsOK, Read

LEMMA ValueTyped ==
    ASSUME RedisOK, NEW j \in Live, NEW ok, job[j].inst \in Insts
    PROVE  IsValue(Value(j, ok))
BY NothingTyped DEF RedisOK, Value

LEMMA WriteTyped ==
    ASSUME Shape, RedisOK, GhostsOK, JobsOK, NEW j \in Live, NEW value, IsValue(value),
           NEW ok \in BOOLEAN, Write(j, value, ok), job[j].inst \in Insts
    PROVE  /\ GhostsOK' /\ \A i \in Insts : IsValue(redis'[i])
<1>1. stale' \subseteq Jobs /\ lost' \subseteq Insts /\ failed' \in BOOLEAN
  BY DEF Write, GhostsOK, JobsOK
<1>2. owed' \subseteq Subs \X Jobs
  <2> DEFINE told == {d \in Asked : /\ chosen[d] = <<job[j].inst, Channel(j)>>
                                    /\ ~Waits(<<"snap", d>>)}
  <2>1. owed' = owed \cup {<<c, j>> : c \in told}
    BY DEF Write
  <2>2. told \subseteq Subs /\ j \in Jobs
    BY DEF Asked, JobsOK
  <2> HIDE DEF told
  <2> QED BY <2>1, <2>2 DEF GhostsOK
<1>3. \A i \in Insts : IsValue(redis'[i])
  BY DEF Write, RedisOK, Shape
<1> QED BY <1>1, <1>2, <1>3 DEF GhostsOK

LEMMA BroadcastTyped ==
    ASSUME GhostsOK, NEW j, BroadcastMessage(j), UNCHANGED <<stale, lost, failed>>
    PROVE  GhostsOK'
BY DEF GhostsOK, BroadcastMessage

(* The parts that a step leaves alone.                                     *)
LEMMA SameOrders ==
    ASSUME OrdersOK, UNCHANGED <<order, clock>>
    PROVE  OrdersOK'
BY DEF OrdersOK

LEMMA SameMessages ==
    ASSUME MessagesOK, UNCHANGED msg,
           \A m \in Msgs : <<"raw", m>> \in Live' => <<"raw", m>> \in Live
    PROVE  MessagesOK'
BY DEF MessagesOK

LEMMA SameRedis ==
    ASSUME RedisOK, UNCHANGED <<redis, last, snapshotId>>
    PROVE  RedisOK'
BY DEF RedisOK

LEMMA SameHundred ==
    ASSUME HundredOK, UNCHANGED <<changeId100ms, changeIdLocalVar, feed>>
    PROVE  HundredOK'
BY DEF HundredOK

LEMMA SameSubs ==
    ASSUME SubsOK, UNCHANGED <<chosen, subscribed>>
    PROVE  SubsOK'
BY DEF SubsOK

LEMMA SameGhosts ==
    ASSUME GhostsOK, UNCHANGED <<stale, lost, failed, owed>>
    PROVE  GhostsOK'
BY DEF GhostsOK

(* What a step of a goroutine that is not a message leaves alone.         *)
LEMMA Alone ==
    ASSUME Typed, UNCHANGED <<order, clock, chosen, subscribed, msg>>,
           \A m \in Msgs : <<"raw", m>> \in Live' => <<"raw", m>> \in Live
    PROVE  OrdersOK' /\ MessagesOK' /\ SubsOK'
BY SameOrders, SameMessages, SameSubs DEF Typed

(* A goroutine and what it has.                                            *)
LEMMA JobIs ==
    ASSUME Typed, IInv, NEW j \in Live
    PROVE  /\ IsJob(job[j]) /\ DOMAIN job[j] = JobFields /\ DOMAIN job[j].base = Fields
           /\ job[j].inst \in Insts /\ j \in Jobs
           /\ IsValue(job[j].base) /\ IsBook(job[j].seen)
           /\ job[j].timestamp \in Nat /\ job[j].prev \in Nat
BY DEF Typed, JobsOK, IsJob, IInv, Shape, HasShape

LEMMA JobReads ==
    ASSUME NEW r, IsJob(r), DOMAIN r = JobFields, NEW v, IsValue(v), NEW t \in Nat
    PROVE  /\ IsJob([r EXCEPT !.place = "read", !.base = v])
           /\ IsJob([r EXCEPT !.place = "read", !.base = v, !.timestamp = t])
           /\ IsJob([r EXCEPT !.place = "read", !.timestamp = t, !.base = v])
           /\ IsJob([r EXCEPT !.place = "get", !.prev = t])
BY DEF IsJob, JobFields, Places

LEMMA JobSees ==
    ASSUME NEW r, IsJob(r), DOMAIN r = JobFields, NEW b, IsBook(b),
           NEW rows \in SUBSET ({"new", "change", "delete"} \X Levels \X Nat),
           NEW p \in {"share", "send"}, NEW q \in {"mark", "send"}, NEW v, IsValue(v)
    PROVE  /\ IsJob([r EXCEPT !.place = "set", !.seen = b])
           /\ IsJob([r EXCEPT !.place = p, !.rows = rows])
           /\ IsJob([r EXCEPT !.place = q, !.base = v])
           /\ IsJob([r EXCEPT !.place = "send"])
BY DEF IsJob, JobFields, Places

LEMMA ValueWith ==
    ASSUME NEW v, IsValue(v), DOMAIN v = Fields, NEW b, IsBook(b), NEW t \in Nat
    PROVE  /\ IsValue([v EXCEPT !.raw = b]) /\ IsValue([v EXCEPT !.agg2 = b])
           /\ IsValue([v EXCEPT !.hundred = b])
           /\ IsValue([v EXCEPT !.id = @ + 1, !.idPrev = v.id, !.timestamp = t, !.raw = b])
           /\ IsValue([NoValue EXCEPT !.id = 1, !.timestamp = t])
           /\ DOMAIN [NoValue EXCEPT !.id = 1, !.timestamp = t] = Fields
BY NothingTyped DEF IsValue, Fields, NoValue

(* A book that is read has numbers for amounts.                            *)
LEMMA Seen ==
    ASSUME Typed, NEW i, NEW t
    PROVE  /\ IsBook(GetOrderLatestTimestamp(i, t))
           /\ IsBook(Buckets(GetOrderLatestTimestamp(i, t)))
<1>1. \A o \in Orders : order[o].left \in Nat
  BY DEF Typed, OrdersOK
<1> QED BY <1>1, OpenBook, BucketsBook

(* A step that reads CHANGEID.                                             *)
LEMMA GetTyped ==
    ASSUME Typed, NEW j \in Live, NEW ok \in BOOLEAN, Read(j, ok), NEW new,
           UNCHANGED <<rest, msg, redis, hundred, last, lost, owed>>,
           (Become(j, new) /\ IsJob(new)) \/ End(j)
    PROVE  Typed'
<1>1. JobsOK' /\ Live' \subseteq Live
  BY JobsBecome, JobsEnd DEF Typed
<1>2. GhostsOK'
  BY ReadTyped DEF Typed
<1>3. RedisOK' /\ HundredOK'
  BY SameRedis, SameHundred DEF Typed, rest, hundred
<1>4. OrdersOK' /\ MessagesOK' /\ SubsOK'
  BY <1>1, Alone DEF rest, sockets
<1> QED BY <1>1, <1>2, <1>3, <1>4 DEF Typed

(* A step that changes nothing but what its goroutine has.                 *)
LEMMA OwnTyped ==
    ASSUME Typed, NEW j \in Live, NEW new,
           UNCHANGED <<rest, msg, redis, hundred, last, stale, lost, failed>>,
           owed' \subseteq owed,
           (Become(j, new) /\ IsJob(new)) \/ End(j)
    PROVE  Typed'
<1>1. JobsOK' /\ Live' \subseteq Live
  BY JobsBecome, JobsEnd DEF Typed
<1>2. GhostsOK'
  BY DEF Typed, GhostsOK
<1>3. RedisOK' /\ HundredOK'
  BY SameRedis, SameHundred DEF Typed, rest, hundred
<1>4. OrdersOK' /\ MessagesOK' /\ SubsOK'
  BY <1>1, Alone DEF rest, sockets
<1> QED BY <1>1, <1>2, <1>3, <1>4 DEF Typed

(* A step that writes CHANGEID.                                            *)
LEMMA SetTyped ==
    ASSUME Typed, IInv, NEW j \in Live, NEW new, NEW value, IsValue(value), NEW ok \in BOOLEAN,
           UNCHANGED <<rest, msg, hundred, last>>, Write(j, value, ok),
           Become(j, new), IsJob(new)
    PROVE  Typed'
<1>1. JobsOK' /\ Live' = Live
  BY JobsBecome DEF Typed
<1>2. GhostsOK' /\ \A i \in Insts : IsValue(redis'[i])
  BY JobIs, WriteTyped DEF Typed, IInv
<1>3. RedisOK' /\ HundredOK'
  BY <1>2, SameHundred DEF Typed, RedisOK, rest, hundred
<1>4. OrdersOK' /\ MessagesOK' /\ SubsOK'
  BY <1>1, Alone DEF rest, sockets
<1> QED BY <1>1, <1>2, <1>3, <1>4 DEF Typed

(* HandleConsumeBook leaves everything of its type, ...                   *)
LEMMA BookTyped ==
    ASSUME Typed, IInv, NEW j \in Live,
           BookGet(j) \/ BookRead(j) \/ BookSet(j) \/ BookShare(j) \/ BookSend(j)
    PROVE  Typed'
<1>0. /\ IsJob(job[j]) /\ DOMAIN job[j] = JobFields /\ DOMAIN job[j].base = Fields
      /\ job[j].inst \in Insts /\ j \in Jobs
      /\ IsValue(job[j].base) /\ IsBook(job[j].seen)
      /\ job[j].timestamp \in Nat /\ job[j].prev \in Nat
  BY JobIs
<1>00. j \in Raws /\ j[2] \in Msgs /\ j = <<"raw", j[2]>>
  <2>1. j \in Raws
    BY DEF BookGet, BookRead, BookSet, BookShare, BookSend
  <2>2. PICK m \in Msgs : j = <<"raw", m>>
    BY <2>1 DEF Raws
  <2> QED BY <2>1, <2>2
<1>01. /\ IsChange(MsgOf(j).change) /\ MsgOf(j).todo \in Seq(Insts) /\ MsgOf(j).todo # << >>
       /\ DOMAIN MsgOf(j) = {"change", "todo"}
  BY <1>00 DEF Typed, MessagesOK, MsgOf
<1>02. clock \in Nat
  BY DEF Typed, OrdersOK
<1>1. CASE BookGet(j)
  <2>1. PICK ok \in Replies, t \in {clock + d : d \in Lags} :
            /\ Become(j, [job[j] EXCEPT !.place = "read", !.base = Value(j, ok),
                                        !.timestamp = t])
            /\ Read(j, ok)
    BY <1>1 DEF BookGet
  <2>2. ok \in BOOLEAN /\ t \in Nat
    BY <1>02, ConstantsOK
  <2>3. IsValue(Value(j, ok))
    BY <1>0, ValueTyped DEF Typed
  <2> DEFINE new == [job[j] EXCEPT !.place = "read", !.base = Value(j, ok), !.timestamp = t]
  <2>4. IsJob(new)
    BY <1>0, <2>2, <2>3, JobReads
  <2>5. UNCHANGED <<rest, msg, redis, hundred, last, lost, owed>>
    BY <1>1 DEF BookGet
  <2>6. Become(j, new)
    BY <2>1
  <2> HIDE DEF new
  <2> QED BY <2>1, <2>2, <2>4, <2>5, <2>6, GetTyped
<1>2. CASE BookRead(j)
  <2> DEFINE b == GetOrderLatestTimestamp(job[j].inst, job[j].timestamp)
             new == [job[j] EXCEPT !.place = "set", !.seen = b]
  <2>1. IsBook(b)
    BY Seen
  <2>2. Become(j, new)
    BY <1>2 DEF BookRead
  <2>3. UNCHANGED <<rest, msg, redis, hundred, last, stale, lost, failed, owed>>
    BY <1>2 DEF BookRead, ghosts
  <2> HIDE DEF b
  <2>4. IsJob(new)
    BY <1>0, <2>1, JobSees
  <2> HIDE DEF new
  <2> QED BY <2>2, <2>3, <2>4, OwnTyped
<1>3. CASE BookSet(j)
  <2>1. PICK ok \in Replies :
            /\ Write(j, NewChange(j), ok)
            /\ last' = IF ok THEN [last EXCEPT ![job[j].inst] =
                                [id |-> NewChange(j).id, raw |-> job[j].seen]]
                       ELSE last
    BY <1>3 DEF BookSet
  <2>2. ok \in BOOLEAN
    BY ConstantsOK
  <2>3. IsValue(NewChange(j)) /\ NewChange(j).id \in Nat
    <3>1. IsValue(NewChange(j))
      BY <1>0, ValueWith DEF NewChange
    <3> QED BY <3>1 DEF IsValue
  <2>4. GhostsOK' /\ \A i \in Insts : IsValue(redis'[i])
    BY <1>0, <2>1, <2>2, <2>3, WriteTyped DEF Typed, IInv
  <2>5. \A i \in Insts : last'[i].id \in Nat /\ IsBook(last'[i].raw)
    <3>1. DOMAIN last = Insts
      BY DEF IInv, Shape
    <3> QED BY <1>0, <2>1, <2>3, <3>1 DEF Typed, RedisOK
  <2>6. RedisOK'
    BY <1>3, <2>4, <2>5 DEF BookSet, rest, Typed, RedisOK
  <2> DEFINE rows == Rows(job[j].base.raw, job[j].seen, MsgOf(j).change)
             new == [job[j] EXCEPT !.place = "share", !.rows = rows]
             agg == <<"agg2", j[2], job[j].inst>>
  <2>7. IsJob(new)
    <3>1. rows \in SUBSET ({"new", "change", "delete"} \X Levels \X Nat)
      BY <1>0, <1>01, RowsTyped DEF IsValue
    <3> HIDE DEF rows
    <3> QED BY <1>0, <3>1, NothingTyped, JobSees
  <2>8. /\ Live' = Live \cup {agg}
        /\ \A k \in Live' : job'[k] = IF k = j THEN new
                            ELSE IF k \in Live THEN job[k] ELSE At("get", job[j].inst)
    BY <1>3 DEF BookSet, Live
  <2>9. agg \in Jobs
    BY <1>0, <1>00 DEF Jobs, Aggs
  <2>10. IsJob(At("get", job[j].inst))
    BY <1>0, AtTyped
  <2>11. \A m \in Msgs : <<"raw", m>> \in Live' => <<"raw", m>> \in Live
    BY <2>8
  <2> HIDE DEF new, agg
  <2>12. JobsOK'
    BY <2>7, <2>8, <2>9, <2>10 DEF Typed, JobsOK
  <2>13. HundredOK' /\ OrdersOK' /\ MessagesOK' /\ SubsOK'
    BY <1>3, <2>11, SameHundred, Alone DEF BookSet, rest, hundred, sockets, Typed
  <2> QED BY <2>4, <2>6, <2>12, <2>13 DEF Typed
<1>4. CASE BookShare(j)
  <2> DEFINE new == [job[j] EXCEPT !.place = "send"]
             i == job[j].inst
             tickers == {t \in {<<"100ms", i>>} : changeId100ms[i].id = 0}
  <2>1. IsJob(new)
    BY <1>0, NothingTyped, JobSees
  <2>2. job' = [k \in Live \cup tickers |->
              IF k = j THEN new ELSE IF k \in Live THEN job[k] ELSE At("tick", i)]
    BY <1>4 DEF BookShare
  <2>3. tickers \subseteq Jobs
    BY <1>0 DEF Jobs, Tickers
  <2>4. \A m \in Msgs : <<"raw", m>> \notin tickers
    OBVIOUS
  <2>5. IsJob(At("tick", i))
    BY <1>0, AtTyped
  <2>6. changeId100ms' = [changeId100ms EXCEPT ![i] =
                [id |-> job[j].base.id + 1, change |-> MsgOf(j).change]]
    BY <1>4 DEF BookShare
  <2> HIDE DEF new, tickers
  <2>7. JobsOK' /\ \A m \in Msgs : <<"raw", m>> \in Live' => <<"raw", m>> \in Live
    BY <2>1, <2>2, <2>3, <2>4, <2>5 DEF Typed, JobsOK, Live
  <2>8. job[j].base.id + 1 \in Nat
    BY <1>0 DEF IsValue
  <2>9. HundredOK'
    <3>1. UNCHANGED <<changeIdLocalVar, feed>>
      BY <1>4 DEF BookShare
    <3> QED BY <1>0, <1>01, <2>6, <2>8, <3>1 DEF Typed, HundredOK
  <2>10. RedisOK' /\ GhostsOK' /\ OrdersOK' /\ MessagesOK' /\ SubsOK'
    BY <1>4, <2>7, SameRedis, SameGhosts, Alone DEF BookShare, rest, ghosts, sockets, Typed
  <2> QED BY <2>7, <2>9, <2>10 DEF Typed
<1>5. CASE BookSend(j)
  <2> DEFINE todo == Tail(MsgOf(j).todo)
  <2>1. todo \in Seq(Insts)
    BY <1>01
  <2>2. todo # << >> => Head(todo) \in Insts
    BY <2>1
  <2>3. /\ IF todo = << >> THEN End(j) ELSE Become(j, At("get", Head(todo)))
        /\ msg' = [msg EXCEPT ![j[2]].todo = todo]
        /\ BroadcastMessage(j)
        /\ UNCHANGED <<rest, redis, hundred, last, stale, lost, failed>>
    BY <1>5 DEF BookSend
  <2> HIDE DEF todo
  <2>4. /\ JobsOK' /\ Live' \subseteq Live
        /\ todo = << >> => j \notin Live'
    BY <2>2, <2>3, AtTyped, JobsEnd, JobsBecome DEF Typed
  <2>5. GhostsOK'
    BY <2>3, BroadcastTyped DEF Typed
  <2>6. MessagesOK'
    <3>1. /\ DOMAIN msg' = Msgs
          /\ \A m \in Msgs \ {j[2]} : msg'[m] = msg[m]
          /\ msg'[j[2]] = [MsgOf(j) EXCEPT !.todo = todo]
      BY <1>00, <2>3 DEF Typed, MessagesOK, MsgOf
    <3>2. /\ msg'[j[2]].todo = todo /\ msg'[j[2]].change = MsgOf(j).change
          /\ DOMAIN msg'[j[2]] = {"change", "todo"}
      BY <1>01, <3>1
    <3>3. ASSUME NEW m \in Msgs
          PROVE  /\ IsChange(msg'[m].change) /\ msg'[m].todo \in Seq(Insts)
                 /\ DOMAIN msg'[m] = {"change", "todo"}
                 /\ <<"raw", m>> \in Live' => msg'[m].todo # << >>
      <4>1. CASE m = j[2]
        BY <1>00, <1>01, <2>1, <2>4, <3>2, <4>1
      <4>2. CASE m # j[2]
        BY <2>4, <3>1, <4>2 DEF Typed, MessagesOK
      <4> QED BY <4>1, <4>2
    <3> QED BY <3>1, <3>3 DEF MessagesOK
  <2>7. RedisOK' /\ HundredOK' /\ OrdersOK' /\ SubsOK'
    BY <2>3, SameRedis, SameHundred, SameOrders, SameSubs DEF rest, hundred, sockets, Typed
  <2> QED BY <2>4, <2>5, <2>6, <2>7 DEF Typed
<1> QED BY <1>1, <1>2, <1>3, <1>4, <1>5

(* ... so does HandleConsumeBookAgg, ...                                  *)
LEMMA AggTyped ==
    ASSUME Typed, IInv, NEW j \in Live,
           AggGet(j) \/ AggRead(j) \/ AggSet(j) \/ AggSend(j)
    PROVE  Typed'
<1>0. /\ IsJob(job[j]) /\ DOMAIN job[j] = JobFields /\ DOMAIN job[j].base = Fields
      /\ job[j].inst \in Insts /\ IsValue(job[j].base) /\ IsBook(job[j].seen)
      /\ job[j].timestamp \in Nat
  BY JobIs
<1>1. CASE AggGet(j)
  <2>1. PICK ok \in Replies :
            /\ IF Value(j, ok) = NoValue THEN End(j)
               ELSE Become(j, [job[j] EXCEPT !.place = "read", !.base = Value(j, ok)])
            /\ Read(j, ok)
    BY <1>1 DEF AggGet
  <2>2. ok \in BOOLEAN
    BY ConstantsOK
  <2>3. IsValue(Value(j, ok))
    BY <1>0, ValueTyped DEF Typed
  <2> DEFINE new == [job[j] EXCEPT !.place = "read", !.base = Value(j, ok)]
  <2>4. IsJob(new)
    BY <1>0, <2>3, JobReads
  <2>5. UNCHANGED <<rest, msg, redis, hundred, last, lost, owed>>
    BY <1>1 DEF AggGet
  <2>6. Become(j, new) \/ End(j)
    BY <2>1
  <2> HIDE DEF new
  <2> QED BY <2>1, <2>2, <2>4, <2>5, <2>6, GetTyped
<1>2. CASE AggRead(j)
  <2> DEFINE b == Buckets(GetOrderLatestTimestamp(job[j].inst, job[j].base.timestamp))
             new == [job[j] EXCEPT !.place = "set", !.seen = b]
  <2>1. IsBook(b)
    BY Seen
  <2>2. Become(j, new)
    BY <1>2 DEF AggRead
  <2>3. UNCHANGED <<rest, msg, redis, hundred, last, stale, lost, failed, owed>>
    BY <1>2 DEF AggRead, ghosts
  <2> HIDE DEF b
  <2>4. IsJob(new)
    BY <1>0, <2>1, NothingTyped, JobSees
  <2> HIDE DEF new
  <2> QED BY <2>2, <2>3, <2>4, OwnTyped
<1>3. CASE AggSet(j)
  <2> DEFINE value == [job[j].base EXCEPT !.agg2 = job[j].seen]
             rows == Rows(job[j].base.agg2, job[j].seen, MsgOf(j).change)
             new == [job[j] EXCEPT !.place = "send", !.rows = rows]
  <2>1. PICK ok \in Replies : Write(j, value, ok)
    BY <1>3 DEF AggSet
  <2>2. ok \in BOOLEAN
    BY ConstantsOK
  <2>3. IsValue(value)
    BY <1>0, ValueWith
  <2>4. IsChange(MsgOf(j).change)
    <3>1. j \in Aggs
      BY <1>3 DEF AggSet
    <3>2. PICK m \in Msgs, i \in Insts : j = <<"agg2", m, i>>
      BY <3>1 DEF Aggs
    <3>3. j[2] \in Msgs
      BY <3>2
    <3> QED BY <3>3 DEF Typed, MessagesOK, MsgOf
  <2>5. rows \in SUBSET ({"new", "change", "delete"} \X Levels \X Nat)
    BY <1>0, <2>4, RowsTyped DEF IsValue
  <2>6. Become(j, new) /\ UNCHANGED <<rest, msg, hundred, last>>
    BY <1>3 DEF AggSet
  <2> HIDE DEF rows
  <2>7. IsJob(new)
    BY <1>0, <2>5, NothingTyped, JobSees
  <2> HIDE DEF new, value
  <2> QED BY <2>1, <2>2, <2>3, <2>6, <2>7, SetTyped
<1>4. CASE AggSend(j)
  <2>1. /\ BroadcastMessage(j) /\ End(j)
        /\ UNCHANGED <<rest, msg, redis, hundred, last, stale, lost, failed>>
    BY <1>4 DEF AggSend
  <2>2. owed' \subseteq owed
    BY <2>1 DEF BroadcastMessage
  <2> QED BY <2>1, <2>2, OwnTyped
<1> QED BY <1>1, <1>2, <1>3, <1>4

(* ... a ticker, ...                                                      *)
LEMMA TickTyped ==
    ASSUME Typed, IInv, NEW j \in Live,
           Tick(j) \/ TickGet(j) \/ TickRead(j) \/ TickSet(j) \/ TickSend(j)
    PROVE  Typed'
<1>0. /\ IsJob(job[j]) /\ DOMAIN job[j] = JobFields /\ DOMAIN job[j].base = Fields
      /\ job[j].inst \in Insts /\ IsValue(job[j].base) /\ IsBook(job[j].seen)
      /\ job[j].timestamp \in Nat /\ job[j].prev \in Nat
      /\ job[j].base.id \in Nat
  BY JobIs DEF IsValue
<1>01. /\ clock \in Nat /\ snapshotId[job[j].inst] \in Nat
       /\ changeIdLocalVar[job[j].inst].id \in Nat
       /\ IsChange(changeIdLocalVar[job[j].inst].change)
       /\ changeId100ms[job[j].inst].id \in Nat
       /\ IsChange(changeId100ms[job[j].inst].change)
  BY <1>0 DEF Typed, OrdersOK, RedisOK, HundredOK
<1>1. CASE Tick(j)
  <2> DEFINE i == job[j].inst
             local == changeIdLocalVar[i].id
  <2>1. PICK ok \in Replies :
            /\ Become(j, [job[j] EXCEPT !.place = "get",
                   !.prev = IF local # 0 THEN local
                            ELSE IF ok THEN snapshotId[i] ELSE 0])
            /\ failed' = (failed \/ ~ok)
    BY <1>1 DEF Tick
  <2> DEFINE prev == IF local # 0 THEN local ELSE IF ok THEN snapshotId[i] ELSE 0
             new == [job[j] EXCEPT !.place = "get", !.prev = prev]
  <2>2. prev \in Nat /\ ok \in BOOLEAN
    BY <1>01, ConstantsOK
  <2>3. Become(j, new)
    BY <2>1
  <2>4. /\ changeIdLocalVar' = [changeIdLocalVar EXCEPT ![i] = changeId100ms[i]]
        /\ UNCHANGED <<rest, msg, redis, changeId100ms, feed, last, stale, lost, owed>>
    BY <1>1 DEF Tick
  <2> HIDE DEF prev
  <2>5. IsJob(new)
    BY <1>0, <2>2, NothingTyped, JobReads
  <2> HIDE DEF new
  <2>6. JobsOK' /\ Live' = Live
    BY <2>3, <2>5, JobsBecome DEF Typed
  <2>7. HundredOK'
    BY <1>0, <1>01, <2>4 DEF Typed, HundredOK
  <2>8. GhostsOK'
    BY <2>1, <2>2, <2>4 DEF Typed, GhostsOK
  <2>9. RedisOK' /\ OrdersOK' /\ MessagesOK' /\ SubsOK'
    BY <2>4, <2>6, SameRedis, Alone DEF rest, sockets, Typed
  <2> QED BY <2>6, <2>7, <2>8, <2>9 DEF Typed
<1>2. CASE TickGet(j)
  <2>1. PICK ok \in Replies, t \in {clock + d : d \in Lags} :
            /\ Become(j, IF Value(j, ok) = NoValue THEN At("tick", job[j].inst)
                         ELSE [job[j] EXCEPT !.place = "read", !.timestamp = t,
                                             !.base = Value(j, ok)])
            /\ Read(j, ok)
    BY <1>2 DEF TickGet
  <2>2. ok \in BOOLEAN /\ t \in Nat
    BY <1>01, ConstantsOK
  <2>3. IsValue(Value(j, ok))
    BY <1>0, ValueTyped DEF Typed
  <2> DEFINE read == [job[j] EXCEPT !.place = "read", !.timestamp = t, !.base = Value(j, ok)]
             new == IF Value(j, ok) = NoValue THEN At("tick", job[j].inst) ELSE read
  <2>4. IsJob(read)
    BY <1>0, <2>2, <2>3, JobReads
  <2>5. UNCHANGED <<rest, msg, redis, hundred, last, lost, owed>>
    BY <1>2 DEF TickGet
  <2>6. Become(j, new)
    BY <2>1
  <2> HIDE DEF read
  <2>7. IsJob(new)
    BY <1>0, <2>4, AtTyped
  <2> HIDE DEF new
  <2> QED BY <2>1, <2>2, <2>5, <2>6, <2>7, GetTyped
<1>3. CASE TickRead(j)
  <2> DEFINE b == GetOrderLatestTimestamp(job[j].inst, job[j].timestamp)
             new == [job[j] EXCEPT !.place = "set", !.seen = b]
  <2>1. IsBook(b)
    BY Seen
  <2>2. Become(j, new)
    BY <1>3 DEF TickRead
  <2>3. UNCHANGED <<rest, msg, redis, hundred, last, stale, lost, failed, owed>>
    BY <1>3 DEF TickRead, ghosts
  <2> HIDE DEF b
  <2>4. IsJob(new)
    BY <1>0, <2>1, NothingTyped, JobSees
  <2> HIDE DEF new
  <2> QED BY <2>2, <2>3, <2>4, OwnTyped
<1>4. CASE TickSet(j)
  <2> DEFINE value == [job[j].base EXCEPT !.hundred = job[j].seen]
             rows == Rows(job[j].base.hundred, job[j].seen,
                          changeIdLocalVar[job[j].inst].change)
             new == [job[j] EXCEPT !.place = "send", !.rows = rows]
  <2>1. PICK ok \in Replies : Write(j, value, ok)
    BY <1>4 DEF TickSet
  <2>2. ok \in BOOLEAN
    BY ConstantsOK
  <2>3. IsValue(value)
    BY <1>0, ValueWith
  <2>5. rows \in SUBSET ({"new", "change", "delete"} \X Levels \X Nat)
    BY <1>0, <1>01, RowsTyped DEF IsValue
  <2>6. Become(j, new) /\ UNCHANGED <<rest, msg, hundred, last>>
    BY <1>4 DEF TickSet
  <2> HIDE DEF rows
  <2>7. IsJob(new)
    BY <1>0, <2>5, NothingTyped, JobSees
  <2> HIDE DEF new, value
  <2> QED BY <2>1, <2>2, <2>3, <2>6, <2>7, SetTyped
<1>5. CASE TickSend(j)
  <2> DEFINE i == job[j].inst
             new == At("tick", i)
  <2>1. /\ feed' = [feed EXCEPT ![i] = [id |-> job[j].base.id, idPrev |-> job[j].prev]]
        /\ BroadcastMessage(j) /\ Become(j, new)
        /\ UNCHANGED <<rest, msg, redis, changeId100ms, changeIdLocalVar,
                       last, stale, lost, failed>>
    BY <1>5 DEF TickSend
  <2>2. IsJob(new)
    BY <1>0, AtTyped
  <2> HIDE DEF new
  <2>3. JobsOK' /\ Live' = Live
    BY <2>1, <2>2, JobsBecome DEF Typed
  <2>4. HundredOK'
    <3>1. feed' \in [Insts -> [id : Nat, idPrev : Nat]]
      BY <1>0, <2>1 DEF Typed, HundredOK
    <3> QED BY <2>1, <3>1 DEF Typed, HundredOK
  <2>5. GhostsOK'
    BY <2>1, BroadcastTyped DEF Typed
  <2>6. RedisOK' /\ OrdersOK' /\ MessagesOK' /\ SubsOK'
    BY <2>1, <2>3, SameRedis, Alone DEF rest, sockets, Typed
  <2> QED BY <2>3, <2>4, <2>5, <2>6 DEF Typed
<1> QED BY <1>1, <1>2, <1>3, <1>4, <1>5

(* ... whatever it writes, ...                                            *)
LEMMA FirstTyped ==
    ASSUME Typed, IInv, NEW j \in Live
    PROVE  IsValue(First(j))
<1>0. /\ DOMAIN job[j].base = Fields /\ IsValue(job[j].base) /\ IsBook(job[j].seen)
      /\ job[j].timestamp \in Nat
  BY JobIs
<1> DEFINE new == IF job[j].base = NoValue
                  THEN [NoValue EXCEPT !.id = 1, !.timestamp = job[j].timestamp]
                  ELSE job[j].base
<1>1. IsValue(new) /\ DOMAIN new = Fields
  BY <1>0, NothingTyped, ValueWith
<1>2. First(j) = CASE Interval(j) = "agg2"  -> [new EXCEPT !.agg2 = job[j].seen]
                   [] Interval(j) = "100ms" -> [new EXCEPT !.hundred = job[j].seen]
                   [] OTHER                 -> [new EXCEPT !.raw = job[j].seen]
  BY Zenon DEF First
<1> HIDE DEF new
<1>3. First(j) \in {[new EXCEPT !.agg2 = job[j].seen], [new EXCEPT !.hundred = job[j].seen],
                    [new EXCEPT !.raw = job[j].seen]}
  BY <1>2
<1>4. /\ IsValue([new EXCEPT !.agg2 = job[j].seen]) /\ IsValue([new EXCEPT !.raw = job[j].seen])
      /\ IsValue([new EXCEPT !.hundred = job[j].seen])
  BY <1>0, <1>1, ValueWith
<1> QED BY <1>3, <1>4

(* ... a subscription, ...                                                *)
LEMMA SnapTyped ==
    ASSUME Typed, IInv, NEW j \in Live,
           SnapGet(j) \/ SnapRead(j) \/ SnapSet(j) \/ SnapMark(j) \/ SnapSend(j)
    PROVE  Typed'
<1>0. /\ IsJob(job[j]) /\ DOMAIN job[j] = JobFields /\ DOMAIN job[j].base = Fields
      /\ job[j].inst \in Insts /\ IsValue(job[j].base) /\ IsBook(job[j].seen)
      /\ job[j].timestamp \in Nat
      /\ job[j].base.id \in Nat
  BY JobIs DEF IsValue
<1>01. clock \in Nat
  BY DEF Typed, OrdersOK
<1>1. CASE SnapGet(j)
  <2>1. PICK ok \in Replies, t \in {clock + d : d \in Lags} :
            /\ Become(j, [job[j] EXCEPT !.place = "read", !.base = Value(j, ok),
                   !.timestamp = IF Value(j, ok) = NoValue THEN t
                                 ELSE Value(j, ok).timestamp])
            /\ Read(j, ok)
    BY <1>1 DEF SnapGet
  <2> DEFINE at == IF Value(j, ok) = NoValue THEN t ELSE Value(j, ok).timestamp
             new == [job[j] EXCEPT !.place = "read", !.base = Value(j, ok), !.timestamp = at]
  <2>2. IsValue(Value(j, ok))
    BY <1>0, ValueTyped DEF Typed
  <2>3. ok \in BOOLEAN /\ t \in Nat
    BY <1>01, ConstantsOK
  <2>4. at \in Nat
    BY <2>2, <2>3 DEF IsValue
  <2>5. Become(j, new)
    BY <2>1
  <2> HIDE DEF at
  <2>6. IsJob(new)
    BY <1>0, <2>2, <2>4, JobReads
  <2>7. UNCHANGED <<rest, msg, redis, hundred, last, lost, owed>>
    BY <1>1 DEF SnapGet
  <2> HIDE DEF new
  <2> QED BY <2>1, <2>3, <2>5, <2>6, <2>7, GetTyped
<1>2. CASE SnapRead(j)
  <2> DEFINE b == IF Interval(j) = "agg2"
                  THEN Buckets(GetOrderLatestTimestamp(job[j].inst, clock + 1))
                  ELSE GetOrderLatestTimestamp(job[j].inst, job[j].timestamp)
             new == [job[j] EXCEPT !.place = "set", !.seen = b]
  <2>1. IsBook(b)
    BY Seen
  <2>2. Become(j, new)
    BY <1>2 DEF SnapRead
  <2>3. UNCHANGED <<rest, msg, redis, hundred, last, stale, lost, failed, owed>>
    BY <1>2 DEF SnapRead, ghosts
  <2> HIDE DEF b
  <2>4. IsJob(new)
    BY <1>0, <2>1, NothingTyped, JobSees
  <2> HIDE DEF new
  <2> QED BY <2>2, <2>3, <2>4, OwnTyped
<1>3. CASE SnapSet(j)
  <2> DEFINE place == IF Interval(j) = "100ms" THEN "mark" ELSE "send"
             base == IF Writes(j) THEN First(j) ELSE job[j].base
             new == [job[j] EXCEPT !.place = place, !.base = base]
  <2>1. Become(j, new) /\ UNCHANGED <<rest, msg, hundred, last>>
    BY <1>3 DEF SnapSet
  <2>2. place \in {"mark", "send"} /\ IsValue(base)
    BY <1>0, FirstTyped
  <2> HIDE DEF place, base
  <2>3. IsJob(new)
    BY <1>0, <2>2, NothingTyped, JobSees
  <2> HIDE DEF new
  <2>4. CASE Writes(j)
    <3>1. PICK ok \in Replies : Write(j, First(j), ok)
      BY <1>3, <2>4 DEF SnapSet
    <3>2. ok \in BOOLEAN
      BY ConstantsOK
    <3> QED BY <2>1, <2>3, <3>1, <3>2, FirstTyped, SetTyped
  <2>5. CASE ~Writes(j)
    <3>1. UNCHANGED <<redis, stale, lost, failed, owed>>
      BY <1>3, <2>5 DEF SnapSet
    <3> QED BY <2>1, <2>3, <3>1, OwnTyped
  <2> QED BY <2>4, <2>5
<1>4. CASE SnapMark(j)
  <2> DEFINE new == [job[j] EXCEPT !.place = "send"]
  <2>1. PICK ok \in Replies :
            /\ snapshotId' = IF ok THEN [snapshotId EXCEPT ![job[j].inst] = job[j].base.id]
                             ELSE snapshotId
            /\ failed' = (failed \/ ~ok)
    BY <1>4 DEF SnapMark
  <2>2. /\ Become(j, new)
        /\ UNCHANGED <<engine, sockets, msg, redis, hundred, last, stale, lost, owed>>
    BY <1>4 DEF SnapMark
  <2>3. IsJob(new)
    BY <1>0, NothingTyped, JobSees
  <2> HIDE DEF new
  <2>4. JobsOK' /\ Live' = Live
    BY <2>2, <2>3, JobsBecome DEF Typed
  <2>5. snapshotId' \in [Insts -> Nat] /\ failed' \in BOOLEAN
    <3>1. ok \in BOOLEAN
      BY ConstantsOK
    <3> QED BY <1>0, <2>1, <3>1 DEF Typed, RedisOK, GhostsOK
  <2>6. RedisOK' /\ GhostsOK'
    BY <2>2, <2>5 DEF Typed, RedisOK, GhostsOK
  <2>7. HundredOK' /\ OrdersOK' /\ MessagesOK' /\ SubsOK'
    BY <2>2, <2>4, SameHundred, Alone DEF engine, sockets, hundred, Typed
  <2> QED BY <2>4, <2>6, <2>7 DEF Typed
<1>5. CASE SnapSend(j)
  <2>1. End(j) /\ UNCHANGED <<rest, msg, redis, hundred, last, stale, lost, failed, owed>>
    BY <1>5 DEF SnapSend, ghosts
  <2> QED BY <2>1, OwnTyped
<1> QED BY <1>1, <1>2, <1>3, <1>4, <1>5

(* The engine has saved its orders and sends a message.                    *)
LEMMA SendTyped ==
    ASSUME Typed, NEW change, IsChange(change), NEW insts \in Seq(Insts), insts # << >>,
           Send(change, insts),
           order' \in [Orders -> [left : Nat, price : Prices, old : Prices \cup {0},
                                  updatedAt : Nat, new : BOOLEAN]]
    PROVE  Typed'
<1>1. PICK m \in Msgs :
        /\ msg' = [msg EXCEPT ![m] = [change |-> change, todo |-> insts]]
        /\ Start(<<"raw", m>>, At("get", Head(insts)))
        /\ clock' = clock + 1
        /\ UNCHANGED <<redis, snapshotId, hundred, sockets, ghosts>>
  BY DEF Send
<1>2. Head(insts) \in Insts
  OBVIOUS
<1>3. <<"raw", m>> \in Jobs
  BY DEF Jobs, Raws
<1>4. JobsOK' /\ Live' = Live \cup {<<"raw", m>>}
  BY <1>1, <1>2, <1>3, JobsStart DEF Typed
<1>5. MessagesOK'
  BY <1>1, <1>4 DEF Typed, MessagesOK
<1>6. OrdersOK'
  BY <1>1 DEF Typed, OrdersOK
<1>7. RedisOK' /\ HundredOK' /\ SubsOK' /\ GhostsOK'
  BY <1>1, SameRedis, SameHundred, SameSubs, SameGhosts DEF Typed, hundred, sockets, ghosts
<1> QED BY <1>4, <1>5, <1>6, <1>7 DEF Typed

(* What the engine says of an order, and saves of it.                     *)
LEMMA AboutTyped ==
    ASSUME NEW o \in Orders, NEW status \in Statuses, NEW price \in Prices,
           NEW old \in Prices \cup {0}
    PROVE  IsChange(About(o, status, price, old))
<1>1. IsChange(NoChange) /\ Order[o].side \in Sides /\ Order[o].amount \in Nat
  BY NothingTyped, ConstantsOK
<1> DEFINE c == About(o, status, price, old)
<1>2. /\ c.status = status /\ c.side = Order[o].side /\ c.price = price
      /\ c.amount = Order[o].amount /\ c.old = old /\ c.books = NoBook
  BY DEF About, NoChange
<1> HIDE DEF c
<1>3. IsBook(NoBook)
  BY NothingTyped
<1>4. IsChange(c)
  BY <1>1, <1>2, <1>3 DEF IsChange
<1> QED BY <1>4 DEF c

LEMMA UpdateTyped ==
    ASSUME OrdersOK, NEW o \in Orders, NEW left \in Nat, NEW price \in Prices,
           NEW old \in Prices \cup {0}
    PROVE  Update(o, left, price, old) \in
              [Orders -> [left : Nat, price : Prices, old : Prices \cup {0},
                          updatedAt : Nat, new : BOOLEAN]]
BY DEF OrdersOK, Update

(* What a trade fills is no more than either order has.                   *)
LEMMA MinOf ==
    ASSUME NEW a \in Nat, NEW b \in Nat
    PROVE  Min({a, b}) \in Nat /\ Min({a, b}) <= a /\ Min({a, b}) <= b
<1>1. \E x \in {a, b} : \A y \in {a, b} : x <= y
  <2>1. CASE a <= b
    BY <2>1
  <2>2. CASE b <= a
    BY <2>2
  <2> QED BY <2>1, <2>2
<1>2. Min({a, b}) \in {a, b} /\ \A y \in {a, b} : Min({a, b}) <= y
  BY <1>1 DEF Min
<1> QED BY <1>2

(* A list of the elements of a set.                                       *)
LEMMA Listed ==
    ASSUME NEW S, IsFiniteSet(S), S # {}, NEW s \in SetToSeqs(S), NEW T, S \subseteq T
    PROVE  /\ Cardinality(S) \in Nat /\ s \in [1 .. Cardinality(S) -> T]
           /\ s # << >> /\ s \in Seq(T)
<1> DEFINE n == Cardinality(S)
<1>1. n \in Nat /\ n # 0
  BY FS_CardinalityType, FS_EmptySet
<1>2. s \in [1 .. n -> S]
  BY Zenon DEF SetToSeqs
<1> HIDE DEF n
<1>3. s \in [1 .. n -> T]
  BY <1>2
<1>4. s \in Seq(T) /\ Len(s) = n
  BY <1>1, <1>3
<1>5. s # << >>
  BY <1>1, <1>4
<1> QED BY <1>1, <1>3, <1>4, <1>5 DEF n

(* ... and the engine.                                                    *)
LEMMA EngineTyped ==
    ASSUME Typed, Engine
    PROVE  Typed'
<1>0. /\ OrdersOK
      /\ \A o \in Orders : /\ order[o].left \in Nat /\ order[o].price \in Prices
                           /\ order[o].old \in Prices \cup {0}
                           /\ Order[o].inst \in Insts /\ Order[o].amount \in Nat
  BY ConstantsOK DEF Typed, OrdersOK
<1>00. \A i \in Insts : <<i>> \in Seq(Insts) /\ <<i>> # << >>
  OBVIOUS
<1>1. ASSUME NEW o \in Orders, Rest(o) PROVE Typed'
  <2>1. order' = Update(o, Order[o].amount, order[o].price, 0)
        /\ Send(About(o, "OPEN", order[o].price, 0), <<Order[o].inst>>)
    BY <1>1 DEF Rest
  <2>2. IsChange(About(o, "OPEN", order[o].price, 0))
    BY <1>0, AboutTyped DEF Statuses
  <2>3. order' \in [Orders -> [left : Nat, price : Prices, old : Prices \cup {0},
                               updatedAt : Nat, new : BOOLEAN]]
    BY <1>0, <2>1, UpdateTyped
  <2> QED BY <1>0, <1>00, <2>1, <2>2, <2>3, SendTyped
<1>2. ASSUME NEW o \in Orders, Cancel(o) PROVE Typed'
  <2>1. order' = Update(o, 0, order[o].price, order[o].old)
        /\ Send(About(o, "CANCELLED", order[o].price, order[o].old), <<Order[o].inst>>)
    BY <1>2 DEF Cancel
  <2>2. IsChange(About(o, "CANCELLED", order[o].price, order[o].old))
    BY <1>0, AboutTyped DEF Statuses
  <2>3. order' \in [Orders -> [left : Nat, price : Prices, old : Prices \cup {0},
                               updatedAt : Nat, new : BOOLEAN]]
    BY <1>0, <2>1, UpdateTyped
  <2> QED BY <1>0, <1>00, <2>1, <2>2, <2>3, SendTyped
<1>3. ASSUME NEW o \in Orders, Amend(o) PROVE Typed'
  <2>1. PICK p \in Prices :
          /\ order' = Update(o, order[o].left, p, order[o].price)
          /\ Send(About(o, "OPEN", p, order[o].price), <<Order[o].inst>>)
    BY <1>3 DEF Amend
  <2>2. IsChange(About(o, "OPEN", p, order[o].price))
    BY <1>0, AboutTyped DEF Statuses
  <2>3. order' \in [Orders -> [left : Nat, price : Prices, old : Prices \cup {0},
                               updatedAt : Nat, new : BOOLEAN]]
    BY <1>0, <2>1, UpdateTyped
  <2> QED BY <1>0, <1>00, <2>1, <2>2, <2>3, SendTyped
<1>4. ASSUME NEW o \in Orders, NEW maker \in Orders, Trade(o, maker) PROVE Typed'
  <2> DEFINE filled == Min({Order[o].amount, order[maker].left})
             left == Order[o].amount - filled
             status == IF left = 0 THEN "FILLED" ELSE "PARTIALLY_FILLED"
             updated == Update(o, left, order[o].price, 0)
  <2>1. /\ order' = [updated EXCEPT ![maker].left = @ - filled,
                                    ![maker].updatedAt = clock + 1]
        /\ Order[maker].side # Order[o].side
        /\ Send(About(o, status, order[o].price, 0), <<Order[o].inst>>)
    BY <1>4 DEF Trade
  <2>2. /\ filled \in Nat /\ filled <= Order[o].amount /\ filled <= order[maker].left
        /\ left \in Nat
    <3>1. filled \in Nat /\ filled <= Order[o].amount /\ filled <= order[maker].left
      BY <1>0, MinOf
    <3> HIDE DEF filled
    <3> QED BY <1>0, <3>1
  <2>3. status \in Statuses
    BY DEF Statuses
  <2> HIDE DEF filled, left, status
  <2>4. IsChange(About(o, status, order[o].price, 0))
    BY <1>0, <2>3, AboutTyped
  <2>5. updated \in [Orders -> [left : Nat, price : Prices, old : Prices \cup {0},
                                updatedAt : Nat, new : BOOLEAN]]
    BY <1>0, <2>2, UpdateTyped
  <2>6. updated[maker].left = order[maker].left
    <3>1. maker # o
      BY <2>1
    <3> QED BY <1>0, <3>1 DEF Update, OrdersOK
  <2>7. updated[maker].left - filled \in Nat
    BY <1>0, <2>2, <2>6
  <2>8. clock + 1 \in Nat
    BY <1>0 DEF OrdersOK
  <2> HIDE DEF updated
  <2>9. order' \in [Orders -> [left : Nat, price : Prices, old : Prices \cup {0},
                               updatedAt : Nat, new : BOOLEAN]]
    BY <2>1, <2>5, <2>7, <2>8
  <2> QED BY <1>0, <1>00, <2>1, <2>4, <2>9, SendTyped
<1>5. ASSUME NEW S \in SUBSET Orders, CancelAll(S) PROVE Typed'
  <2> DEFINE I == {Order[o].inst : o \in S}
  <2>1. PICK orders \in SetToSeqs(S), insts \in SetToSeqs(I) :
            Send([NoChange EXCEPT !.status = "CANCELLED_ALL",
                                  !.books = CancelledBooks(orders)], insts)
    BY <1>5 DEF CancelAll
  <2>2. S # {} /\ IsFiniteSet(S)
    BY <1>5, ConstantsOK, FS_Subset DEF CancelAll
  <2>3. I # {} /\ I \subseteq Insts
    BY <1>0, <2>2
  <2>4. IsFiniteSet(I)
    <3> DEFINE f == [o \in S |-> Order[o].inst]
    <3>1. f \in Surjection(S, I)
      BY DEF Surjection
    <3> HIDE DEF f, I
    <3> QED BY <2>2, <3>1, FS_Surjection
  <2> HIDE DEF I
  <2>5. Cardinality(S) \in Nat /\ orders \in [1 .. Cardinality(S) -> Orders]
    BY <2>2, Listed
  <2>7. IsBook(CancelledBooks(orders))
    BY <1>0, <2>5, CancelledBook
  <2>8. insts \in Seq(Insts) /\ insts # << >>
    BY <2>3, <2>4, Listed
  <2> DEFINE change == [NoChange EXCEPT !.status = "CANCELLED_ALL",
                                        !.books = CancelledBooks(orders)]
  <2>9. IsChange(change)
    BY <2>7, NothingTyped DEF IsChange, NoChange, Statuses
  <2>10. order' \in [Orders -> [left : Nat, price : Prices, old : Prices \cup {0},
                                updatedAt : Nat, new : BOOLEAN]]
    <3>1. order' = [o \in Orders |-> IF o \in S
                      THEN [order[o] EXCEPT !.left = 0, !.updatedAt = clock + 1] ELSE order[o]]
      BY <1>5 DEF CancelAll
    <3>2. clock + 1 \in Nat /\ \A o \in Orders :
             order[o] \in [left : Nat, price : Prices, old : Prices \cup {0},
                           updatedAt : Nat, new : BOOLEAN]
      BY <1>0 DEF OrdersOK
    <3>3. \A o \in Orders : [order[o] EXCEPT !.left = 0, !.updatedAt = clock + 1]
              \in [left : Nat, price : Prices, old : Prices \cup {0},
                   updatedAt : Nat, new : BOOLEAN]
      BY <3>2
    <3> QED BY <3>1, <3>2, <3>3
  <2> HIDE DEF change
  <2>11. Send(change, insts)
    BY <2>1 DEF change
  <2> QED BY <2>8, <2>9, <2>10, <2>11, SendTyped
<1> QED BY <1>1, <1>2, <1>3, <1>4, <1>5 DEF Engine

LEMMA SubscribeTyped ==
    ASSUME Typed, NEW c \in Subs, SubscribeBook(c)
    PROVE  Typed'
<1>1. PICK i \in Insts, k \in Intervals :
        /\ chosen' = [chosen EXCEPT ![c] = <<i, k>>]
        /\ Start(<<"snap", c>>, At("get", i))
  BY DEF SubscribeBook
<1>2. <<"snap", c>> \in Jobs
  BY DEF Jobs, Snaps
<1>3. JobsOK' /\ Live' = Live \cup {<<"snap", c>>}
  BY <1>1, <1>2, JobsStart DEF Typed
<1>4. /\ subscribed' = subscribed \cup {c}
      /\ UNCHANGED <<engine, msg, redis, snapshotId, hundred, ghosts>>
  BY DEF SubscribeBook
<1>5. SubsOK'
  BY <1>1, <1>4 DEF Typed, SubsOK
<1>6. MessagesOK'
  BY <1>3, <1>4, SameMessages DEF Typed
<1>7. OrdersOK' /\ RedisOK' /\ HundredOK' /\ GhostsOK'
  BY <1>4, SameOrders, SameRedis, SameHundred, SameGhosts DEF Typed, engine, hundred, ghosts
<1> QED BY <1>3, <1>5, <1>6, <1>7 DEF Typed

LEMMA TypedKept == IInv /\ Typed /\ [Next]_vars => Typed'
<1> SUFFICES ASSUME IInv, Typed, [Next]_vars PROVE Typed'
  OBVIOUS
<1>1. CASE Engine
  BY <1>1, EngineTyped
<1>2. ASSUME NEW c \in Subs, SubscribeBook(c) PROVE Typed'
  BY <1>2, SubscribeTyped
<1>3. ASSUME NEW j \in Live, Run(j) PROVE Typed'
  BY <1>3, BookTyped, AggTyped, TickTyped, SnapTyped DEF Run
<1>4. CASE UNCHANGED vars
  <2>1. JobsOK' /\ Live' = Live
    BY <1>4 DEF vars, Typed, JobsOK, Live
  <2> QED BY <1>4, <2>1, SameOrders, SameMessages, SameRedis, SameHundred, SameSubs, SameGhosts
          DEF vars, engine, hundred, sockets, ghosts, Typed
<1> QED BY <1>1, <1>2, <1>3, <1>4 DEF Next

LEMMA InitTyped == Init => Typed
<1> SUFFICES ASSUME Init PROVE Typed
  OBVIOUS
<1>1. OrdersOK
  <2>1. \A o \in Orders : Order[o].amount \in Nat /\ Order[o].price \in Prices
    BY ConstantsOK
  <2> QED BY <2>1 DEF Init, OrdersOK
<1>2. MessagesOK
  <2>1. msg = [m \in Msgs |-> [change |-> NoChange, todo |-> << >>]] /\ Live = {}
    BY DEF Init, Live
  <2>2. << >> \in Seq(Insts)
    OBVIOUS
  <2> QED BY <2>1, <2>2, NothingTyped DEF MessagesOK
<1>3. RedisOK
  BY NothingTyped DEF Init, RedisOK
<1>4. HundredOK
  BY NothingTyped DEF Init, HundredOK
<1>5. JobsOK
  BY DEF Init, JobsOK, Live
<1>6. SubsOK /\ GhostsOK
  BY DEF Init, SubsOK, GhostsOK
<1> QED BY <1>1, <1>2, <1>3, <1>4, <1>5, <1>6 DEF Typed

LEMMA InvAlways == Spec => []IInv
<1>1. Init => IInv
  BY DEF Init, IInv, Shape, LastChangeKept, Live, NoValue, Fields
<1> QED BY <1>1, NextKeeps, PTL DEF Spec

(* Whatever is read, written, added up or collected, in any order and with*)
(* any replies of Redis, the state keeps the types of the code's: ids and *)
(* amounts are never negative, a book names levels of known prices only,  *)
(* and a goroutine that runs has an instrument and a message to handle.   *)
THEOREM TypeCorrect == Spec => []TypeOK
<1>1. Typed => TypeOK
  BY Parts DEF Typed
<1> QED BY <1>1, InitTyped, TypedKept, InvAlways, PTL DEF Spec

-----------------------------------------------------------------------------
(* The order of the 100ms feed.                                            *)

(* Nobody has written over what another had written, and Redis answers. *)
Fine(i) == i \notin lost /\ ~failed

(* What a goroutine has read is not ahead of Redis; a ticker has read no   *)
(* less than what it broadcast last, and than what it will say it follows. *)
Within(j) ==
    LET id == redis[job[j].inst].id
    IN  /\ job[j].base.id <= id
        /\ job[j].place = "share" => job[j].base.id + 1 <= id
        /\ j \in Tickers =>
              /\ job[j].prev <= id
              /\ job[j].place \in {"read", "set", "send"} =>
                    feed[job[j].inst].id <= job[j].base.id /\ job[j].prev <= job[j].base.id

Behind(i) ==
    /\ feed[i].id <= redis[i].id /\ snapshotId[i] <= redis[i].id
    /\ changeId100ms[i].id <= redis[i].id /\ changeIdLocalVar[i].id <= redis[i].id

OrderedOK ==
    /\ \A j \in Live \cap Tickers : job[j].inst = j[2]
    /\ \A i \in Insts : Fine(i) => Behind(i)
    /\ \A j \in Live : Fine(job[j].inst) => Within(j)

-----------------------------------------------------------------------------
(* Every Id is a number.                                                   *)
LEMMA Ids ==
    ASSUME Typed, NEW i \in Insts
    PROVE  /\ redis[i].id \in Nat /\ feed[i].id \in Nat /\ snapshotId[i] \in Nat
           /\ changeId100ms[i].id \in Nat /\ changeIdLocalVar[i].id \in Nat
<1>1. IsValue(redis[i]) /\ snapshotId[i] \in Nat
  BY DEF Typed, RedisOK
<1>2. feed[i].id \in Nat /\ changeId100ms[i].id \in Nat /\ changeIdLocalVar[i].id \in Nat
  BY DEF Typed, HundredOK
<1> QED BY <1>1, <1>2 DEF IsValue

LEMMA JobIds ==
    ASSUME Typed, NEW j \in Live
    PROVE  job[j].base.id \in Nat /\ job[j].prev \in Nat /\ job[j].inst \in Insts
BY DEF Typed, JobsOK, IsJob, IsValue

LEMMA AtIds ==
    ASSUME NEW place, NEW i
    PROVE  /\ At(place, i).place = place /\ At(place, i).inst = i
           /\ At(place, i).base.id = 0 /\ At(place, i).prev = 0
BY DEF At, NoValue

(* No Id goes back as long as nothing is written over.                     *)
Forward == \A i \in Insts : Fine(i)' => Fine(i) /\ redis[i].id <= redis'[i].id

(* A goroutine with what it had, or one whose new value is in order.       *)
Ordered(k) ==
    \/ /\ k \in Live /\ job'[k] = job[k]
       /\ k \in Tickers => feed'[job[k].inst] = feed[job[k].inst]
    \/ /\ k \in Tickers => job'[k].inst = k[2]
       /\ Fine(job[k].inst)' => Within(k)'

LEMMA StaysWithin ==
    ASSUME OrderedOK, Typed, Typed', Forward, NEW k \in Live, k \in Live',
           job'[k] = job[k], k \in Tickers => feed'[job[k].inst] = feed[job[k].inst],
           Fine(job[k].inst)'
    PROVE  Within(k)'
<1> DEFINE i == job[k].inst
<1>1. i \in Insts /\ job[k].base.id \in Nat /\ job[k].prev \in Nat
  BY JobIds
<1>2. redis[i].id \in Nat /\ redis'[i].id \in Nat
  <2>1. redis[i].id \in Nat
    BY <1>1, Ids
  <2>2. IsValue(redis'[i])
    BY <1>1 DEF Typed, RedisOK
  <2> QED BY <2>1, <2>2 DEF IsValue
<1>3. Fine(i) /\ redis[i].id <= redis'[i].id
  BY <1>1 DEF Forward
<1>4. Within(k)
  BY <1>3 DEF OrderedOK
<1> QED BY <1>1, <1>2, <1>3, <1>4 DEF Within

LEMMA StepOrdered ==
    ASSUME OrderedOK, Typed, Typed', Forward,
           \A i \in Insts : Fine(i)' => Behind(i)',
           \A k \in Live' : Ordered(k)
    PROVE  OrderedOK'
<1>1. ASSUME NEW k \in Live', k \in Tickers
      PROVE  job'[k].inst = k[2]
  BY <1>1 DEF Ordered, OrderedOK
<1>2. ASSUME NEW k \in Live', Fine(job[k].inst)'
      PROVE  Within(k)'
  BY <1>2, StaysWithin DEF Ordered
<1> QED BY <1>1, <1>2 DEF OrderedOK

(* A step that leaves what the tickers share alone.                        *)
LEMMA StillBehind ==
    ASSUME OrderedOK, Typed, Typed', Forward, UNCHANGED <<hundred, snapshotId>>
    PROVE  \A i \in Insts : Fine(i)' => Behind(i)'
<1> SUFFICES ASSUME NEW i \in Insts, Fine(i)' PROVE Behind(i)'
  OBVIOUS
<1>1. Fine(i) /\ redis[i].id <= redis'[i].id
  BY DEF Forward
<1>2. Behind(i)
  BY <1>1 DEF OrderedOK
<1>3. /\ redis[i].id \in Nat /\ feed[i].id \in Nat /\ snapshotId[i] \in Nat
      /\ changeId100ms[i].id \in Nat /\ changeIdLocalVar[i].id \in Nat
  BY Ids
<1>4. redis'[i].id \in Nat
  <2>1. IsValue(redis'[i])
    BY DEF Typed, RedisOK
  <2> QED BY <2>1 DEF IsValue
<1>5. UNCHANGED <<feed, changeId100ms, changeIdLocalVar, snapshotId>>
  BY DEF hundred
<1> QED BY <1>1, <1>2, <1>3, <1>4, <1>5 DEF Behind

(* Without a write, the Ids stand.                                         *)
LEMMA Stands ==
    ASSUME Typed, UNCHANGED <<redis, lost>>, failed => failed'
    PROVE  Forward
<1>1. \A i \in Insts : redis[i].id \in Nat
  BY Ids
<1> QED BY <1>1 DEF Forward, Fine

(* A step of one goroutine, that goes on in order or ends.                 *)
LEMMA Becomes ==
    ASSUME OrderedOK, Typed, Typed', Forward, NEW j \in Live, NEW new, NEW i \in Insts,
           i = job[j].inst,
           \A l \in Insts : Fine(l)' => Behind(l)',
           \A k \in (Live \cap Tickers) \ {j} : feed'[job[k].inst] = feed[job[k].inst],
           End(j) \/ (Become(j, new) /\ new.inst = i /\ (Fine(i)' => Within(j)'))
    PROVE  OrderedOK'
<1>1. \A k \in Live \ {j} : k \in Live' => job'[k] = job[k]
  BY EndJob, BecomeJob
<1>2. Live' \subseteq Live
  BY EndJob, BecomeJob
<1>3. ASSUME NEW k \in Live', k # j PROVE Ordered(k)
  BY <1>1, <1>2, <1>3 DEF Ordered
<1>4. ASSUME j \in Live' PROVE Ordered(j)
  <2>1. Become(j, new) /\ new.inst = i /\ (Fine(i)' => Within(j)')
    BY <1>4, EndJob
  <2>2. job'[j] = new
    BY <2>1, BecomeJob
  <2>3. j \in Tickers => job[j].inst = j[2]
    BY DEF OrderedOK
  <2> QED BY <2>1, <2>2, <2>3 DEF Ordered
<1> QED BY <1>3, <1>4, StepOrdered

(* One that reads CHANGEID has what Redis has.                             *)
LEMMA ReadsOrdered ==
    ASSUME OrderedOK, Typed, Typed', NEW j \in Live, NEW new, NEW ok \in BOOLEAN,
           Read(j, ok), UNCHANGED <<rest, redis, hundred, lost>>,
           \/ End(j)
           \/ /\ Become(j, new) /\ new.inst = job[j].inst
              /\ \/ /\ new.place = "read" /\ new.prev = job[j].prev
                    /\ new.base = Value(j, ok)
                 \/ new.place = "tick" /\ new.prev = 0 /\ new.base.id = 0
    PROVE  OrderedOK'
<1>0. PICK i \in Insts : i = job[j].inst
  BY JobIds
<1>1. i \in Insts /\ job[j].prev \in Nat
  BY <1>0, JobIds
<1>2. failed' = (failed \/ ~ok)
  BY <1>0 DEF Read
<1>3. Forward
  BY <1>2, Stands
<1>4. UNCHANGED <<hundred, snapshotId>> /\ feed' = feed
  BY DEF rest, hundred
<1>5. \A l \in Insts : Fine(l)' => Behind(l)'
  BY <1>3, <1>4, StillBehind
<1>6. redis[i].id \in Nat /\ feed[i].id \in Nat
  BY <1>0, <1>1, Ids
<1>7. ASSUME Become(j, new), new.inst = i, Fine(i)',
             \/ new.place = "read" /\ new.prev = job[j].prev /\ new.base = Value(j, ok)
             \/ new.place = "tick" /\ new.prev = 0 /\ new.base.id = 0
      PROVE  Within(j)'
  <2>1. job'[j] = new
    BY <1>0, <1>7, BecomeJob
  <2>2. Fine(i) /\ ok
    BY <1>0, <1>1, <1>2, <1>3, <1>7 DEF Forward, Fine
  <2>3. Behind(i) /\ Within(j)
    BY <1>0, <1>1, <2>2 DEF OrderedOK
  <2>4. Value(j, ok) = redis[i]
    BY <1>0, <2>2 DEF Value
  <2>5. feed[i].id <= redis[i].id /\ (j \in Tickers => job[j].prev <= redis[i].id)
    BY <1>0, <2>3 DEF Behind, Within
  <2>6. CASE new.place = "read" /\ new.prev = job[j].prev /\ new.base = Value(j, ok)
    BY <1>0, <1>1, <1>4, <1>6, <1>7, <2>1, <2>4, <2>5, <2>6 DEF Within
  <2>7. CASE new.place = "tick" /\ new.prev = 0 /\ new.base.id = 0
    BY <1>0, <1>1, <1>4, <1>6, <1>7, <2>1, <2>7 DEF Within
  <2> QED BY <1>0, <1>7, <2>6, <2>7
<1>8. End(j) \/ (Become(j, new) /\ new.inst = i /\ (Fine(i)' => Within(j)'))
  BY <1>0, <1>7
<1>9. \A k \in (Live \cap Tickers) \ {j} : feed'[job[k].inst] = feed[job[k].inst]
  BY <1>4
<1> QED BY <1>0, <1>1, <1>3, <1>5, <1>8, <1>9, Becomes

(* One that goes on with what it has, or starts over.                      *)
LEMMA OwnOrdered ==
    ASSUME OrderedOK, Typed, Typed', NEW j \in Live, NEW new,
           UNCHANGED <<redis, lost, failed>>,
           \A l \in Insts : Fine(l)' => Behind(l)',
           \A k \in (Live \cap Tickers) \ {j} : feed'[job[k].inst] = feed[job[k].inst],
           \/ End(j)
           \/ /\ Become(j, new) /\ new.inst = job[j].inst
              /\ \/ /\ new.prev = job[j].prev /\ new.base = job[j].base
                    /\ new.place \in {"set", "send"} /\ feed' = feed
                    /\ j \in Tickers => job[j].place \in {"read", "set"}
                 \/ new.place \in {"get", "tick"} /\ new.prev = 0 /\ new.base.id = 0
    PROVE  OrderedOK'
<1>0. PICK i \in Insts : i = job[j].inst
  BY JobIds
<1>1. i \in Insts /\ job[j].prev \in Nat /\ job[j].base.id \in Nat
  BY <1>0, JobIds
<1>2. redis[i].id \in Nat
  BY <1>0, <1>1, Ids
<1>3. Forward
  BY Stands
<1>4. ASSUME Become(j, new), new.inst = i, Fine(i)',
             \/ /\ new.prev = job[j].prev /\ new.base = job[j].base
                /\ new.place \in {"set", "send"} /\ feed' = feed
                /\ j \in Tickers => job[j].place \in {"read", "set"}
             \/ new.place \in {"get", "tick"} /\ new.prev = 0 /\ new.base.id = 0
      PROVE  Within(j)'
  <2>1. job'[j] = new
    BY <1>0, <1>4, BecomeJob
  <2>2. Within(j)
    BY <1>0, <1>1, <1>3, <1>4 DEF OrderedOK, Forward
  <2>3. CASE new.place \in {"get", "tick"} /\ new.prev = 0 /\ new.base.id = 0
    BY <1>0, <1>2, <1>4, <2>1, <2>3 DEF Within
  <2>4. CASE /\ new.prev = job[j].prev /\ new.base = job[j].base
             /\ new.place \in {"set", "send"} /\ feed' = feed
             /\ j \in Tickers => job[j].place \in {"read", "set"}
    BY <1>0, <1>4, <2>1, <2>2, <2>4 DEF Within
  <2> QED BY <1>0, <1>4, <2>3, <2>4
<1>5. End(j) \/ (Become(j, new) /\ new.inst = i /\ (Fine(i)' => Within(j)'))
  BY <1>0, <1>4
<1> QED BY <1>0, <1>1, <1>3, <1>5, Becomes

(* What a goroutine writes that nobody has overtaken is no step back.      *)
LEMMA WriteForward ==
    ASSUME IInv, Typed, NEW j \in Live, NEW value, NEW ok \in BOOLEAN, Write(j, value, ok),
           job[j].place \in Holding, value.id \in Nat, job[j].base.id <= value.id
    PROVE  /\ Forward
           /\ ok => redis'[job[j].inst] = value
           /\ ~ok => failed'
<1>0. PICK i \in Insts : i = job[j].inst
  BY JobIds
<1>1. i \in Insts /\ \A l \in Insts : redis[l].id \in Nat
  BY <1>0, JobIds, Ids
<1>2. DOMAIN redis = Insts
  BY <1>0 DEF IInv, Shape
<1>3. ok => redis'[i] = value
  BY <1>0, <1>1, <1>2 DEF Write
<1>4. ~ok => failed'
  BY <1>0 DEF Write
<1>5. ASSUME NEW l \in Insts, Fine(l)'
      PROVE  Fine(l) /\ redis[l].id <= redis'[l].id
  <2>1. Fine(l) /\ ok
    BY <1>0, <1>5 DEF Fine, Write
  <2>2. CASE l = i
    <3>1. j \notin stale /\ ~failed
      BY <1>0, <1>5, <2>1, <2>2 DEF Fine, Write
    <3>2. job[j].base = redis[i]
      BY <1>0, <1>1, <3>1 DEF IInv, Current
    <3> QED BY <1>0, <1>3, <2>1, <2>2, <3>2
  <2>3. CASE l # i
    BY <1>0, <1>1, <2>1, <2>3 DEF Write
  <2> QED BY <1>0, <2>1, <2>2, <2>3
<1> QED BY <1>0, <1>3, <1>4, <1>5 DEF Forward

(* One that writes CHANGEID and goes on to broadcast.                      *)
LEMMA SetOrdered ==
    ASSUME IInv, OrderedOK, Typed, Typed', NEW j \in Live, NEW new, NEW value,
           NEW ok \in BOOLEAN, Write(j, value, ok), UNCHANGED <<rest, hundred>>,
           job[j].place \in Holding, value.id \in Nat, job[j].base.id <= value.id,
           Become(j, new), new.inst = job[j].inst, new.prev = job[j].prev,
           new.base.id <= value.id, new.place \in {"mark", "send"},
           j \in Tickers => new.base = job[j].base
    PROVE  OrderedOK'
<1>0. PICK i \in Insts : i = job[j].inst
  BY JobIds
<1>1. i \in Insts /\ job[j].prev \in Nat /\ job[j].base.id \in Nat
  BY <1>0, JobIds
<1>2. /\ Forward
      /\ ok => redis'[i] = value
      /\ ~ok => failed'
  BY <1>0, WriteForward
<1>3. UNCHANGED <<hundred, snapshotId>> /\ feed' = feed
  BY DEF rest, hundred
<1>4. \A l \in Insts : Fine(l)' => Behind(l)'
  BY <1>2, <1>3, StillBehind
<1>5. ASSUME Fine(i)' PROVE Within(j)'
  <2>1. Within(j) /\ redis'[i] = value /\ redis[i].id <= redis'[i].id /\ redis[i].id \in Nat
    BY <1>0, <1>1, <1>2, <1>5, Ids DEF OrderedOK, Forward, Fine
  <2>2. job'[j] = new
    BY BecomeJob
  <2>3. j \in Tickers => /\ job[j].prev <= redis[i].id
                         /\ feed[i].id <= job[j].base.id /\ job[j].prev <= job[j].base.id
    BY <1>0, <2>1 DEF Within, Holding
  <2>4. redis'[i].id \in Nat /\ job[j].prev <= redis[i].id => job[j].prev <= redis'[i].id
    BY <1>0, <1>1, <2>1
  <2> QED BY <1>0, <1>3, <2>1, <2>2, <2>3, <2>4 DEF Within
<1>6. \A k \in (Live \cap Tickers) \ {j} : feed'[job[k].inst] = feed[job[k].inst]
  BY <1>0, <1>3
<1>7. Become(j, new) /\ new.inst = i /\ (Fine(i)' => Within(j)')
  BY <1>0, <1>5
<1> QED BY <1>0, <1>1, <1>2, <1>4, <1>6, <1>7, Becomes

(* One that has its book, or that goes on to broadcast.                    *)
LEMMA KeepsOrdered ==
    ASSUME OrderedOK, Typed, Typed', NEW j \in Live, NEW new,
           UNCHANGED <<rest, redis, hundred, lost, failed>>,
           \/ End(j)
           \/ /\ Become(j, new) /\ new.inst = job[j].inst
              /\ new.prev = job[j].prev /\ new.base = job[j].base
              /\ new.place \in {"set", "send"}
              /\ j \in Tickers => job[j].place \in {"read", "set"}
    PROVE  OrderedOK'
<1>1. UNCHANGED <<hundred, snapshotId>> /\ feed' = feed
  BY DEF rest, hundred
<1>2. \A l \in Insts : Fine(l)' => Behind(l)'
  BY <1>1, Stands, StillBehind
<1> QED BY <1>1, <1>2, OwnOrdered

(* HandleConsumeBook keeps the order, ...                                 *)
LEMMA BookOrdered ==
    ASSUME IInv, OrderedOK, Typed, Typed', NEW j \in Live,
           BookGet(j) \/ BookRead(j) \/ BookSet(j) \/ BookShare(j) \/ BookSend(j)
    PROVE  OrderedOK'
<1>0. DOMAIN job[j] = JobFields /\ DOMAIN job[j].base = Fields
  BY JobIs
<1>00. j \notin Tickers
  BY DEF BookGet, BookRead, BookSet, BookShare, BookSend, Raws, Tickers
<1>1. CASE BookGet(j)
  <2>1. PICK ok \in Replies, t \in {clock + d : d \in Lags} :
            /\ Become(j, [job[j] EXCEPT !.place = "read", !.base = Value(j, ok),
                                        !.timestamp = t])
            /\ Read(j, ok)
    BY <1>1 DEF BookGet
  <2>2. ok \in BOOLEAN
    BY ConstantsOK
  <2> DEFINE new == [job[j] EXCEPT !.place = "read", !.base = Value(j, ok), !.timestamp = t]
  <2>3. /\ new.inst = job[j].inst /\ new.place = "read"
        /\ new.prev = job[j].prev /\ new.base = Value(j, ok)
    BY <1>0 DEF JobFields
  <2>4. UNCHANGED <<rest, redis, hundred, lost>>
    BY <1>1 DEF BookGet
  <2>5. Become(j, new)
    BY <2>1
  <2> HIDE DEF new
  <2> QED BY <2>1, <2>2, <2>3, <2>4, <2>5, ReadsOrdered
<1>2. CASE BookRead(j)
  <2> DEFINE b == GetOrderLatestTimestamp(job[j].inst, job[j].timestamp)
             new == [job[j] EXCEPT !.place = "set", !.seen = b]
  <2>1. Become(j, new) /\ UNCHANGED <<rest, redis, hundred, lost, failed>>
    BY <1>2 DEF BookRead, ghosts
  <2>2. /\ new.inst = job[j].inst /\ new.place = "set"
        /\ new.prev = job[j].prev /\ new.base = job[j].base
    BY <1>0 DEF JobFields
  <2> HIDE DEF new
  <2> QED BY <1>00, <2>1, <2>2, KeepsOrdered
<1>3. CASE BookSet(j)
  <2>0. PICK i \in Insts : i = job[j].inst
    BY JobIds
  <2>1. PICK ok \in Replies : Write(j, NewChange(j), ok)
    BY <1>3 DEF BookSet
  <2>2. ok \in BOOLEAN /\ job[j].base.id \in Nat
    BY ConstantsOK, JobIds
  <2>3. NewChange(j).id = job[j].base.id + 1
    BY <1>0 DEF NewChange, Fields
  <2>4. job[j].place \in Holding
    BY <1>3 DEF BookSet, Holding
  <2>5. /\ Forward
        /\ ok => redis'[i] = NewChange(j)
        /\ ~ok => failed'
    <3>1. NewChange(j).id \in Nat /\ job[j].base.id <= NewChange(j).id
      BY <2>2, <2>3
    <3> QED BY <2>0, <2>1, <2>2, <2>4, <3>1, WriteForward
  <2>6. UNCHANGED <<hundred, snapshotId>> /\ feed' = feed
    BY <1>3 DEF BookSet, rest, hundred
  <2>7. \A l \in Insts : Fine(l)' => Behind(l)'
    BY <2>5, <2>6, StillBehind
  <2> DEFINE rows == Rows(job[j].base.raw, job[j].seen, MsgOf(j).change)
             new == [job[j] EXCEPT !.place = "share", !.rows = rows]
             agg == <<"agg2", j[2], i>>
  <2>8. new.inst = i /\ new.place = "share" /\ new.base = job[j].base
    BY <1>0, <2>0 DEF JobFields
  <2>9. agg \notin Tickers
    BY DEF Tickers
  <2>10. \A k \in Live' : job'[k] = IF k = j THEN new
                          ELSE IF k \in Live THEN job[k] ELSE At("get", i)
    BY <1>3, <2>0 DEF BookSet, Live
  <2>11. Live' = Live \cup {agg}
    BY <1>3, <2>0 DEF BookSet, Live
  <2> HIDE DEF new, agg
  <2>12. ASSUME Fine(i)' PROVE Within(j)'
    <3>1. redis'[i].id = job[j].base.id + 1
      BY <2>3, <2>5, <2>12 DEF Fine
    <3>2. job'[j] = new
      BY <2>10, <2>11
    <3> QED BY <1>00, <2>2, <2>8, <3>1, <3>2 DEF Within
  <2>13. ASSUME agg \in Live', agg \notin Live, Fine(i)' PROVE Within(agg)'
    <3>1. redis'[i].id \in Nat
      BY <2>2, <2>3, <2>5, <2>13 DEF Fine
    <3>2. job'[agg] = At("get", i)
      BY <2>10, <2>11, <2>13
    <3> QED BY <2>9, <3>1, <3>2, AtIds DEF Within
  <2>14. ASSUME NEW k \in Live' PROVE Ordered(k)
    <3>1. CASE k = j
      BY <1>00, <2>8, <2>10, <2>12, <3>1 DEF Ordered
    <3>2. CASE k # j /\ k \in Live
      BY <2>6, <2>10, <3>2 DEF Ordered
    <3>3. CASE k # j /\ k \notin Live
      <4>1. k = agg /\ job'[k].inst = i
        BY <2>10, <2>11, <3>3, AtIds
      <4> QED BY <2>9, <2>13, <3>3, <4>1 DEF Ordered
    <3> QED BY <3>1, <3>2, <3>3
  <2> QED BY <2>5, <2>7, <2>14, StepOrdered
<1>4. CASE BookShare(j)
  <2>0. PICK i \in Insts : i = job[j].inst
    BY JobIds
  <2> DEFINE new == [job[j] EXCEPT !.place = "send"]
             tickers == {t \in {<<"100ms", i>>} : changeId100ms[i].id = 0}
  <2>1. new.inst = i /\ new.place = "send" /\ new.base = job[j].base
    BY <1>0, <2>0 DEF JobFields
  <2>2. job' = [k \in Live \cup tickers |->
              IF k = j THEN new ELSE IF k \in Live THEN job[k] ELSE At("tick", i)]
    BY <1>4, <2>0 DEF BookShare
  <2>3. \A k \in tickers : k[2] = i
    OBVIOUS
  <2> HIDE DEF new, tickers
  <2>4. UNCHANGED <<redis, lost, failed, feed, snapshotId, changeIdLocalVar>>
    BY <1>4 DEF BookShare, rest, ghosts
  <2>5. Forward
    BY <2>4, Stands
  <2>6. ASSUME NEW l \in Insts, Fine(l)' PROVE Behind(l)'
    <3>1. Fine(l) /\ Behind(l)
      BY <2>4, <2>6 DEF Fine, OrderedOK
    <3>2. l = i => job[j].base.id + 1 <= redis[l].id
      BY <1>4, <2>0, <3>1 DEF BookShare, OrderedOK, Within
    <3>3. changeId100ms' = [changeId100ms EXCEPT ![i] =
                [id |-> job[j].base.id + 1, change |-> MsgOf(j).change]]
      BY <1>4, <2>0 DEF BookShare
    <3>4. changeId100ms'[l].id <= redis[l].id
      <4>1. DOMAIN changeId100ms = Insts
        BY DEF Typed, HundredOK
      <4> QED BY <3>1, <3>2, <3>3, <4>1 DEF Behind
    <3> QED BY <2>4, <3>1, <3>4 DEF Behind
  <2>7. ASSUME NEW k \in Live' PROVE Ordered(k)
    <3>1. CASE k = j
      <4>1. job'[k] = new
        BY <2>2, <3>1
      <4>2. Fine(i)' => Within(j)
        BY <2>0, <2>4 DEF Fine, OrderedOK
      <4>3. Fine(i)' => Within(j)'
        BY <1>00, <2>0, <2>1, <2>4, <3>1, <4>1, <4>2 DEF Within
      <4> QED BY <1>00, <2>1, <3>1, <4>1, <4>3 DEF Ordered
    <3>2. CASE k # j /\ k \in Live
      BY <2>2, <2>4, <3>2 DEF Ordered
    <3>3. CASE k # j /\ k \notin Live
      <4>1. k \in tickers /\ job'[k] = At("tick", i)
        BY <2>2, <3>3 DEF Live
      <4>2. redis[i].id \in Nat /\ feed[i].id \in Nat
        BY Ids
      <4>3. Within(k)'
        BY <2>4, <4>1, <4>2, AtIds DEF Within
      <4> QED BY <2>3, <4>1, <4>3, AtIds DEF Ordered
    <3> QED BY <3>1, <3>2, <3>3
  <2> QED BY <2>5, <2>6, <2>7, StepOrdered
<1>5. CASE BookSend(j)
  <2>1. PICK i \in Insts : End(j) \/ (Become(j, At("get", i)))
    <3>1. PICK todo : /\ todo = Tail(MsgOf(j).todo)
                      /\ IF todo = << >> THEN End(j) ELSE Become(j, At("get", Head(todo)))
      BY <1>5 DEF BookSend
    <3>2. CASE todo = << >>
      BY <3>1, <3>2, JobIds
    <3>3. CASE todo # << >>
      <4>1. Become(j, At("get", Head(todo)))
        BY <3>1, <3>3
      <4>2. job'[j] = At("get", Head(todo)) /\ j \in Live'
        BY <4>1, BecomeJob
      <4>3. Head(todo) \in Insts
        BY <4>2, AtIds DEF Typed, JobsOK, IsJob
      <4> QED BY <4>1, <4>3
    <3> QED BY <3>2, <3>3
  <2>2. UNCHANGED <<redis, hundred, snapshotId, lost, failed, feed>>
    BY <1>5 DEF BookSend, rest, hundred
  <2>3. Forward
    BY <2>2, Stands
  <2>4. \A l \in Insts : Fine(l)' => Behind(l)'
    BY <2>2, <2>3, StillBehind
  <2>5. ASSUME NEW k \in Live' PROVE Ordered(k)
    <3>1. CASE k = j
      <4>1. job'[k] = At("get", i)
        BY <2>1, <3>1, EndJob, BecomeJob
      <4>2. redis[i].id \in Nat
        BY Ids
      <4>3. Within(k)'
        BY <1>00, <2>2, <3>1, <4>1, <4>2, AtIds DEF Within
      <4> QED BY <1>00, <3>1, <4>3 DEF Ordered
    <3>2. CASE k # j
      <4>1. k \in Live /\ job'[k] = job[k]
        BY <2>1, <3>2, EndJob, BecomeJob
      <4> QED BY <2>2, <4>1 DEF Ordered
    <3> QED BY <3>1, <3>2
  <2> QED BY <2>3, <2>4, <2>5, StepOrdered
<1> QED BY <1>1, <1>2, <1>3, <1>4, <1>5

(* A snapshot with the value it had, on its way to the client.             *)
LEMMA Rests ==
    ASSUME OrderedOK, Typed, Typed', NEW j \in Live \ Tickers, NEW new,
           UNCHANGED <<redis, lost, hundred>>, failed => failed',
           \A l \in Insts : Fine(l)' => Behind(l)',
           Become(j, new), new.inst = job[j].inst, new.base = job[j].base,
           new.place # "share"
    PROVE  OrderedOK'
<1>0. PICK i \in Insts : i = job[j].inst
  BY JobIds
<1>1. Forward
  BY Stands
<1>2. ASSUME Fine(i)' PROVE Within(j)'
  <2>1. Within(j)
    BY <1>0, <1>1, <1>2 DEF Forward, OrderedOK
  <2>2. job'[j] = new
    BY BecomeJob
  <2> QED BY <2>1, <2>2 DEF Within
<1>3. \A k \in (Live \cap Tickers) \ {j} : feed'[job[k].inst] = feed[job[k].inst]
  BY DEF hundred
<1> QED BY <1>0, <1>1, <1>2, <1>3, Becomes

(* What a snapshot writes has the Id it read, or the first.                *)
LEMMA FirstForward ==
    ASSUME IInv, Typed, NEW j \in Live
    PROVE  First(j).id \in Nat /\ job[j].base.id <= First(j).id
<1>0. DOMAIN job[j].base = Fields /\ job[j].base.id \in Nat
  BY JobIs, JobIds
<1> DEFINE new == IF job[j].base = NoValue
                  THEN [NoValue EXCEPT !.id = 1, !.timestamp = job[j].timestamp]
                  ELSE job[j].base
<1>1. DOMAIN new = Fields /\ new.id \in Nat /\ job[j].base.id <= new.id
  BY <1>0 DEF NoValue, Fields
<1>2. First(j) = CASE Interval(j) = "agg2"  -> [new EXCEPT !.agg2 = job[j].seen]
                   [] Interval(j) = "100ms" -> [new EXCEPT !.hundred = job[j].seen]
                   [] OTHER                 -> [new EXCEPT !.raw = job[j].seen]
  BY Zenon DEF First
<1> HIDE DEF new
<1>3. First(j) \in {[new EXCEPT !.agg2 = job[j].seen], [new EXCEPT !.hundred = job[j].seen],
                    [new EXCEPT !.raw = job[j].seen]}
  BY <1>2
<1>4. First(j).id = new.id
  BY <1>1, <1>3 DEF Fields
<1> QED BY <1>1, <1>4

(* ... so does HandleConsumeBookAgg, ...                                  *)
LEMMA AggOrdered ==
    ASSUME IInv, OrderedOK, Typed, Typed', NEW j \in Live,
           AggGet(j) \/ AggRead(j) \/ AggSet(j) \/ AggSend(j)
    PROVE  OrderedOK'
<1>0. /\ DOMAIN job[j] = JobFields /\ DOMAIN job[j].base = Fields
      /\ job[j].base.id \in Nat
  BY JobIs, JobIds
<1>00. j \notin Tickers
  BY DEF AggGet, AggRead, AggSet, AggSend, Aggs, Tickers
<1>1. CASE AggGet(j)
  <2>1. PICK ok \in Replies :
            /\ IF Value(j, ok) = NoValue THEN End(j)
               ELSE Become(j, [job[j] EXCEPT !.place = "read", !.base = Value(j, ok)])
            /\ Read(j, ok)
    BY <1>1 DEF AggGet
  <2>2. ok \in BOOLEAN
    BY ConstantsOK
  <2> DEFINE new == [job[j] EXCEPT !.place = "read", !.base = Value(j, ok)]
  <2>3. /\ new.inst = job[j].inst /\ new.place = "read"
        /\ new.prev = job[j].prev /\ new.base = Value(j, ok)
    BY <1>0 DEF JobFields
  <2>4. UNCHANGED <<rest, redis, hundred, lost>>
    BY <1>1 DEF AggGet
  <2>5. Become(j, new) \/ End(j)
    BY <2>1
  <2> HIDE DEF new
  <2> QED BY <2>1, <2>2, <2>3, <2>4, <2>5, ReadsOrdered
<1>2. CASE AggRead(j)
  <2> DEFINE b == Buckets(GetOrderLatestTimestamp(job[j].inst, job[j].base.timestamp))
             new == [job[j] EXCEPT !.place = "set", !.seen = b]
  <2>1. Become(j, new) /\ UNCHANGED <<rest, redis, hundred, lost, failed>>
    BY <1>2 DEF AggRead, ghosts
  <2>2. /\ new.inst = job[j].inst /\ new.place = "set"
        /\ new.prev = job[j].prev /\ new.base = job[j].base
    BY <1>0 DEF JobFields
  <2> HIDE DEF new
  <2> QED BY <1>00, <2>1, <2>2, KeepsOrdered
<1>3. CASE AggSet(j)
  <2> DEFINE value == [job[j].base EXCEPT !.agg2 = job[j].seen]
             rows == Rows(job[j].base.agg2, job[j].seen, MsgOf(j).change)
             new == [job[j] EXCEPT !.place = "send", !.rows = rows]
  <2>1. PICK ok \in Replies : Write(j, value, ok)
    BY <1>3 DEF AggSet
  <2>2. ok \in BOOLEAN
    BY ConstantsOK
  <2>3. value.id = job[j].base.id
    BY <1>0 DEF Fields
  <2>4. /\ new.inst = job[j].inst /\ new.place = "send"
        /\ new.prev = job[j].prev /\ new.base = job[j].base
    BY <1>0 DEF JobFields
  <2>5. Become(j, new) /\ UNCHANGED <<rest, hundred>> /\ job[j].place \in Holding
    BY <1>3 DEF AggSet, Holding
  <2> HIDE DEF new, value
  <2>6. /\ value.id \in Nat /\ job[j].base.id <= value.id /\ new.base.id <= value.id
    BY <1>0, <2>3, <2>4
  <2> QED BY <2>1, <2>2, <2>4, <2>5, <2>6, SetOrdered
<1>4. CASE AggSend(j)
  <2>1. End(j) /\ UNCHANGED <<rest, redis, hundred, lost, failed>>
    BY <1>4 DEF AggSend
  <2> QED BY <2>1, KeepsOrdered
<1> QED BY <1>1, <1>2, <1>3, <1>4

(* ... a ticker, ...                                                      *)
LEMMA TickOrdered ==
    ASSUME IInv, OrderedOK, Typed, Typed', NEW j \in Live,
           Tick(j) \/ TickGet(j) \/ TickRead(j) \/ TickSet(j) \/ TickSend(j)
    PROVE  OrderedOK'
<1>0. /\ DOMAIN job[j] = JobFields /\ DOMAIN job[j].base = Fields
      /\ job[j].base.id \in Nat /\ job[j].prev \in Nat
  BY JobIs, JobIds
<1>1. CASE Tick(j)
  <2>0. PICK i \in Insts : i = job[j].inst
    BY JobIds
  <2>1. PICK ok \in Replies, prev \in {changeIdLocalVar[i].id, snapshotId[i], 0} :
            /\ Become(j, [job[j] EXCEPT !.place = "get", !.prev = prev])
            /\ failed' = (failed \/ ~ok)
    BY <1>1, <2>0 DEF Tick
  <2>2. ok \in BOOLEAN
    BY ConstantsOK
  <2>3. /\ changeIdLocalVar' = [changeIdLocalVar EXCEPT ![i] = changeId100ms[i]]
        /\ UNCHANGED <<redis, lost, feed, changeId100ms, snapshotId>>
    BY <1>1, <2>0 DEF Tick, rest
  <2>4. Forward
    BY <2>1, <2>3, Stands
  <2> DEFINE new == [job[j] EXCEPT !.place = "get", !.prev = prev]
  <2>5. new.inst = i /\ new.place = "get" /\ new.prev = prev /\ new.base = job[j].base
    BY <1>0, <2>0 DEF JobFields
  <2>6. Become(j, new)
    BY <2>1
  <2> HIDE DEF new
  <2>7. ASSUME NEW l \in Insts, Fine(l)' PROVE Behind(l)'
    <3>1. Behind(l)
      BY <2>4, <2>7 DEF Forward, OrderedOK
    <3>2. changeIdLocalVar'[l] \in {changeIdLocalVar[l], changeId100ms[l]}
      BY <2>3 DEF Typed, HundredOK
    <3> QED BY <2>3, <3>1, <3>2 DEF Behind
  <2>8. ASSUME Fine(i)' PROVE Within(j)'
    <3>1. Behind(i) /\ Within(j)
      BY <2>0, <2>4, <2>8 DEF Forward, OrderedOK
    <3>2. prev <= redis[i].id
      <4>1. redis[i].id \in Nat
        BY Ids
      <4> QED BY <2>1, <3>1, <4>1 DEF Behind
    <3>3. job'[j] = new
      BY <2>6, BecomeJob
    <3> QED BY <2>0, <2>3, <2>5, <3>1, <3>2, <3>3 DEF Within
  <2>9. \A k \in (Live \cap Tickers) \ {j} : feed'[job[k].inst] = feed[job[k].inst]
    BY <2>3
  <2> QED BY <2>0, <2>4, <2>5, <2>6, <2>7, <2>8, <2>9, Becomes
<1>2. CASE TickGet(j)
  <2>1. PICK ok \in Replies, t \in {clock + d : d \in Lags} :
            /\ Become(j, IF Value(j, ok) = NoValue THEN At("tick", job[j].inst)
                         ELSE [job[j] EXCEPT !.place = "read", !.timestamp = t,
                                             !.base = Value(j, ok)])
            /\ Read(j, ok)
    BY <1>2 DEF TickGet
  <2>2. ok \in BOOLEAN
    BY ConstantsOK
  <2> DEFINE read == [job[j] EXCEPT !.place = "read", !.timestamp = t, !.base = Value(j, ok)]
             new == IF Value(j, ok) = NoValue THEN At("tick", job[j].inst) ELSE read
  <2>3. /\ read.inst = job[j].inst /\ read.place = "read"
        /\ read.prev = job[j].prev /\ read.base = Value(j, ok)
    BY <1>0 DEF JobFields
  <2>4. UNCHANGED <<rest, redis, hundred, lost>>
    BY <1>2 DEF TickGet
  <2>5. Become(j, new)
    BY <2>1
  <2> HIDE DEF read
  <2>6. /\ new.inst = job[j].inst
        /\ \/ /\ new.place = "read" /\ new.prev = job[j].prev
              /\ new.base = Value(j, ok)
           \/ new.place = "tick" /\ new.prev = 0 /\ new.base.id = 0
    BY <2>3, AtIds
  <2> HIDE DEF new
  <2> QED BY <2>1, <2>2, <2>4, <2>5, <2>6, ReadsOrdered
<1>3. CASE TickRead(j)
  <2> DEFINE b == GetOrderLatestTimestamp(job[j].inst, job[j].timestamp)
             new == [job[j] EXCEPT !.place = "set", !.seen = b]
  <2>1. /\ Become(j, new) /\ UNCHANGED <<rest, redis, hundred, lost, failed>>
        /\ job[j].place = "read"
    BY <1>3 DEF TickRead, ghosts
  <2>2. /\ new.inst = job[j].inst /\ new.place = "set"
        /\ new.prev = job[j].prev /\ new.base = job[j].base
    BY <1>0 DEF JobFields
  <2> HIDE DEF new
  <2> QED BY <2>1, <2>2, KeepsOrdered
<1>4. CASE TickSet(j)
  <2> DEFINE value == [job[j].base EXCEPT !.hundred = job[j].seen]
             rows == Rows(job[j].base.hundred, job[j].seen,
                          changeIdLocalVar[job[j].inst].change)
             new == [job[j] EXCEPT !.place = "send", !.rows = rows]
  <2>1. PICK ok \in Replies : Write(j, value, ok)
    BY <1>4 DEF TickSet
  <2>2. ok \in BOOLEAN
    BY ConstantsOK
  <2>3. value.id = job[j].base.id
    BY <1>0 DEF Fields
  <2>4. /\ new.inst = job[j].inst /\ new.place = "send"
        /\ new.prev = job[j].prev /\ new.base = job[j].base
    BY <1>0 DEF JobFields
  <2>5. Become(j, new) /\ UNCHANGED <<rest, hundred>> /\ job[j].place \in Holding
    BY <1>4 DEF TickSet, Holding
  <2> HIDE DEF new, value
  <2>6. /\ value.id \in Nat /\ job[j].base.id <= value.id /\ new.base.id <= value.id
    BY <1>0, <2>3, <2>4
  <2> QED BY <2>1, <2>2, <2>4, <2>5, <2>6, SetOrdered
<1>5. CASE TickSend(j)
  <2>0. PICK i \in Insts : i = job[j].inst
    BY JobIds
  <2>1. /\ feed' = [feed EXCEPT ![i] = [id |-> job[j].base.id, idPrev |-> job[j].prev]]
        /\ Become(j, At("tick", i))
        /\ UNCHANGED <<redis, changeId100ms, changeIdLocalVar, snapshotId, lost, failed>>
    BY <1>5, <2>0 DEF TickSend, rest
  <2>2. ASSUME NEW l \in Insts, Fine(l)' PROVE Behind(l)'
    <3>1. Fine(l) /\ Behind(l)
      BY <2>1, <2>2 DEF Fine, OrderedOK
    <3>2. feed'[l].id <= redis[l].id
      <4>1. CASE l = i
        <5>1. Within(j)
          BY <2>0, <3>1, <4>1 DEF OrderedOK
        <5>2. feed'[l].id = job[j].base.id
          BY <2>1, <4>1 DEF Typed, HundredOK
        <5> QED BY <2>0, <4>1, <5>1, <5>2 DEF Within
      <4>2. CASE l # i
        BY <2>1, <3>1, <4>2 DEF Behind
      <4> QED BY <4>1, <4>2
    <3> QED BY <2>1, <3>1, <3>2 DEF Behind
  <2>3. ASSUME NEW k \in (Live \cap Tickers) \ {j}
        PROVE  feed'[job[k].inst] = feed[job[k].inst]
    <3>1. job[k].inst = k[2] /\ job[j].inst = j[2]
      BY <1>5 DEF OrderedOK, TickSend
    <3>2. k[2] # j[2]
      BY <1>5 DEF Tickers, TickSend
    <3> QED BY <2>0, <2>1, <3>1, <3>2
  <2> DEFINE new == At("tick", i)
  <2>4. new.inst = job[j].inst /\ new.place = "tick" /\ new.prev = 0 /\ new.base.id = 0
    BY <2>0, AtIds
  <2>5. Become(j, new)
    BY <2>1
  <2> HIDE DEF new
  <2> QED BY <2>1, <2>2, <2>3, <2>4, <2>5, OwnOrdered
<1> QED BY <1>1, <1>2, <1>3, <1>4, <1>5

(* ... and a subscription.                                                *)
LEMMA SnapOrdered ==
    ASSUME IInv, OrderedOK, Typed, Typed', NEW j \in Live,
           SnapGet(j) \/ SnapRead(j) \/ SnapSet(j) \/ SnapMark(j) \/ SnapSend(j)
    PROVE  OrderedOK'
<1>0. /\ DOMAIN job[j] = JobFields /\ DOMAIN job[j].base = Fields
      /\ job[j].base.id \in Nat /\ job[j].prev \in Nat
  BY JobIs, JobIds
<1>00. j \notin Tickers
  BY DEF SnapGet, SnapRead, SnapSet, SnapMark, SnapSend, Snaps, Tickers
<1>1. CASE SnapGet(j)
  <2>0. PICK ok \in Replies :
            /\ \E t : Become(j, [job[j] EXCEPT !.place = "read", !.base = Value(j, ok),
                                              !.timestamp = t])
            /\ Read(j, ok)
    BY <1>1 DEF SnapGet
  <2>1. PICK t : Become(j, [job[j] EXCEPT !.place = "read", !.base = Value(j, ok),
                                          !.timestamp = t])
    BY <2>0
  <2>2. ok \in BOOLEAN
    BY ConstantsOK
  <2> DEFINE new == [job[j] EXCEPT !.place = "read", !.base = Value(j, ok), !.timestamp = t]
  <2>3. /\ new.inst = job[j].inst /\ new.place = "read"
        /\ new.prev = job[j].prev /\ new.base = Value(j, ok)
    BY <1>0 DEF JobFields
  <2>4. UNCHANGED <<rest, redis, hundred, lost>>
    BY <1>1 DEF SnapGet
  <2>5. Become(j, new)
    BY <2>1
  <2> HIDE DEF new
  <2> QED BY <2>0, <2>2, <2>3, <2>4, <2>5, ReadsOrdered
<1>2. CASE SnapRead(j)
  <2>1. PICK b : Become(j, [job[j] EXCEPT !.place = "set", !.seen = b])
    BY <1>2 DEF SnapRead
  <2> DEFINE new == [job[j] EXCEPT !.place = "set", !.seen = b]
  <2>2. UNCHANGED <<rest, redis, hundred, lost, failed>>
    BY <1>2 DEF SnapRead, ghosts
  <2>3. /\ new.inst = job[j].inst /\ new.place = "set"
        /\ new.prev = job[j].prev /\ new.base = job[j].base
    BY <1>0 DEF JobFields
  <2>4. Become(j, new)
    BY <2>1
  <2> HIDE DEF new
  <2> QED BY <1>00, <2>2, <2>3, <2>4, KeepsOrdered
<1>3. CASE SnapSet(j)
  <2> DEFINE place == IF Interval(j) = "100ms" THEN "mark" ELSE "send"
             base == IF Writes(j) THEN First(j) ELSE job[j].base
             new == [job[j] EXCEPT !.place = place, !.base = base]
  <2>1. Become(j, new) /\ UNCHANGED <<rest, hundred>> /\ job[j].place \in Holding
    BY <1>3 DEF SnapSet, Holding
  <2>2. /\ new.inst = job[j].inst /\ new.place \in {"mark", "send"}
        /\ new.prev = job[j].prev /\ new.base = base
    BY <1>0 DEF JobFields
  <2>3. base = IF Writes(j) THEN First(j) ELSE job[j].base
    OBVIOUS
  <2> HIDE DEF new, base
  <2>4. CASE Writes(j)
    <3>1. PICK ok \in Replies : Write(j, First(j), ok)
      BY <1>3, <2>4 DEF SnapSet
    <3>2. ok \in BOOLEAN
      BY ConstantsOK
    <3>3. First(j).id \in Nat /\ job[j].base.id <= First(j).id
      BY FirstForward
    <3> QED BY <1>00, <2>1, <2>2, <2>3, <2>4, <3>1, <3>2, <3>3, SetOrdered
  <2>5. CASE ~Writes(j)
    <3>1. UNCHANGED <<redis, lost, failed>> /\ base = job[j].base
      BY <1>3, <2>3, <2>5 DEF SnapSet
    <3>2. UNCHANGED <<hundred, snapshotId>>
      BY <2>1 DEF rest
    <3>3. \A l \in Insts : Fine(l)' => Behind(l)'
      BY <3>1, <3>2, Stands, StillBehind
    <3> QED BY <1>00, <2>1, <2>2, <3>1, <3>2, <3>3, Rests
  <2> QED BY <2>4, <2>5
<1>4. CASE SnapMark(j)
  <2>0. PICK i \in Insts : i = job[j].inst
    BY JobIds
  <2>1. PICK ok \in Replies :
            /\ snapshotId' = IF ok THEN [snapshotId EXCEPT ![i] = job[j].base.id]
                             ELSE snapshotId
            /\ failed' = (failed \/ ~ok)
    BY <1>4, <2>0 DEF SnapMark
  <2> DEFINE new == [job[j] EXCEPT !.place = "send"]
  <2>2. Become(j, new) /\ UNCHANGED <<redis, lost, hundred>>
    BY <1>4 DEF SnapMark
  <2>3. /\ new.inst = job[j].inst /\ new.place = "send"
        /\ new.prev = job[j].prev /\ new.base = job[j].base
    BY <1>0 DEF JobFields
  <2> HIDE DEF new
  <2>4. Forward
    BY <2>1, <2>2, Stands
  <2>5. ASSUME NEW l \in Insts, Fine(l)' PROVE Behind(l)'
    <3>1. Fine(l) /\ Behind(l)
      BY <2>4, <2>5 DEF Forward, OrderedOK
    <3>2. snapshotId'[l] <= redis[l].id
      <4>1. l = i => job[j].base.id <= redis[l].id
        BY <2>0, <3>1 DEF OrderedOK, Within
      <4>2. snapshotId \in [Insts -> Nat] /\ snapshotId[l] <= redis[l].id
        BY <3>1 DEF Typed, RedisOK, Behind
      <4> QED BY <2>1, <4>1, <4>2
    <3>3. UNCHANGED <<feed, changeId100ms, changeIdLocalVar, redis>>
      BY <2>2 DEF hundred
    <3> QED BY <3>1, <3>2, <3>3 DEF Behind
  <2>6. UNCHANGED hundred /\ (failed => failed')
    BY <2>1, <2>2
  <2> QED BY <1>00, <2>2, <2>3, <2>4, <2>5, <2>6, Rests
<1>5. CASE SnapSend(j)
  <2>1. End(j) /\ UNCHANGED <<rest, redis, hundred, lost, failed>>
    BY <1>5 DEF SnapSend, ghosts
  <2> QED BY <2>1, KeepsOrdered
<1> QED BY <1>1, <1>2, <1>3, <1>4, <1>5

(* A goroutine that starts has read nothing.                               *)
LEMMA StartOrdered ==
    ASSUME OrderedOK, Typed, Typed', NEW j, j \notin Tickers, NEW i,
           Start(j, At("get", i)), UNCHANGED <<redis, lost, failed, hundred, snapshotId>>
    PROVE  OrderedOK'
<1>1. Forward
  BY Stands
<1>2. \A l \in Insts : Fine(l)' => Behind(l)'
  BY <1>1, StillBehind
<1>3. /\ Live' = Live \cup {j} /\ job'[j] = At("get", i)
      /\ \A k \in Live \ {j} : job'[k] = job[k]
  BY StartJob
<1>4. i \in Insts
  BY <1>3, AtIds DEF Typed, JobsOK, IsJob
<1>5. redis[i].id \in Nat
  BY <1>4, Ids
<1>6. Within(j)'
  BY <1>3, <1>5, AtIds DEF Within
<1>7. \A k \in Live' : Ordered(k)
  BY <1>3, <1>6 DEF Ordered, hundred
<1> QED BY <1>1, <1>2, <1>7, StepOrdered

(* The engine and the clients only start goroutines.                      *)
LEMMA EngineOrdered ==
    ASSUME OrderedOK, Typed, Typed', Engine
    PROVE  OrderedOK'
<1>1. PICK change, insts : Send(change, insts)
  BY DEF Engine, Rest, Cancel, Amend, Trade, CancelAll
<1>2. PICK m \in Msgs : /\ Start(<<"raw", m>>, At("get", Head(insts)))
                        /\ UNCHANGED <<redis, snapshotId, hundred, ghosts>>
  BY <1>1 DEF Send
<1>3. <<"raw", m>> \notin Tickers
  BY DEF Tickers
<1> QED BY <1>2, <1>3, StartOrdered DEF ghosts

LEMMA SubscribeOrdered ==
    ASSUME OrderedOK, Typed, Typed', NEW c \in Subs, SubscribeBook(c)
    PROVE  OrderedOK'
<1>1. PICK i \in Insts : Start(<<"snap", c>>, At("get", i))
  BY DEF SubscribeBook
<1>2. UNCHANGED <<redis, snapshotId, hundred, ghosts>>
  BY DEF SubscribeBook
<1>3. <<"snap", c>> \notin Tickers
  BY DEF Tickers
<1> QED BY <1>1, <1>2, <1>3, StartOrdered DEF ghosts

LEMMA OrderedKept == IInv /\ Typed /\ OrderedOK /\ [Next]_vars => OrderedOK'
<1> SUFFICES ASSUME IInv, Typed, OrderedOK, [Next]_vars PROVE OrderedOK'
  OBVIOUS
<1>1. Typed'
  BY TypedKept
<1>2. CASE Engine
  BY <1>1, <1>2, EngineOrdered
<1>3. ASSUME NEW c \in Subs, SubscribeBook(c) PROVE OrderedOK'
  BY <1>1, <1>3, SubscribeOrdered
<1>4. ASSUME NEW j \in Live, Run(j) PROVE OrderedOK'
  BY <1>1, <1>4, BookOrdered, AggOrdered, TickOrdered, SnapOrdered DEF Run
<1>5. CASE UNCHANGED vars
  <2>1. UNCHANGED <<redis, lost, failed, feed, snapshotId, changeId100ms,
                    changeIdLocalVar, job>>
    BY <1>5 DEF vars, ghosts, hundred
  <2>2. Live' = Live
    BY <2>1 DEF Live
  <2>3. /\ (\A i \in Insts : Fine(i) => Behind(i))'
        /\ (\A j \in Live : Fine(job[j].inst) => Within(j))'
    BY <2>1, <2>2 DEF OrderedOK, Fine, Behind, Within
  <2> QED BY <2>1, <2>2, <2>3 DEF OrderedOK
<1> QED BY <1>2, <1>3, <1>4, <1>5 DEF Next

LEMMA InitOrdered == Init => OrderedOK
<1> SUFFICES ASSUME Init PROVE OrderedOK
  OBVIOUS
<1>1. Live = {}
  BY DEF Init, Live
<1>2. \A i \in Insts : Behind(i)
  BY DEF Init, Behind, NoValue
<1> QED BY <1>1, <1>2 DEF OrderedOK

(* Only a ticker broadcasts, and what it has read is not behind.           *)
LEMMA FeedForward ==
    ASSUME IInv, Typed, OrderedOK, [Next]_vars,
           NEW i \in Insts, feed'[i] # feed[i], i \notin lost', ~failed'
    PROVE  feed'[i].id >= feed[i].id /\ feed'[i].id >= feed'[i].idPrev
<1>1. PICK j \in Live : TickSend(j)
  <2>1. ~Engine
    BY DEF Engine, Rest, Cancel, Amend, Trade, CancelAll, Send, hundred
  <2>2. \A c \in Subs : ~SubscribeBook(c)
    BY DEF SubscribeBook, hundred
  <2>3. ~UNCHANGED vars
    BY DEF vars, hundred
  <2>4. PICK j \in Live : Run(j)
    BY <2>1, <2>2, <2>3 DEF Next
  <2>5. /\ ~BookGet(j) /\ ~BookRead(j) /\ ~BookSet(j) /\ ~BookShare(j) /\ ~BookSend(j)
    BY DEF BookGet, BookRead, BookSet, BookShare, BookSend, hundred
  <2>6. ~AggGet(j) /\ ~AggRead(j) /\ ~AggSet(j) /\ ~AggSend(j)
    BY DEF AggGet, AggRead, AggSet, AggSend, hundred
  <2>7. ~Tick(j) /\ ~TickGet(j) /\ ~TickRead(j) /\ ~TickSet(j)
    BY DEF Tick, TickGet, TickRead, TickSet, hundred
  <2>8. ~SnapGet(j) /\ ~SnapRead(j) /\ ~SnapSet(j) /\ ~SnapMark(j) /\ ~SnapSend(j)
    BY DEF SnapGet, SnapRead, SnapSet, SnapMark, SnapSend, hundred
  <2> QED BY <2>4, <2>5, <2>6, <2>7, <2>8 DEF Run
<1>2. /\ feed' = [feed EXCEPT ![job[j].inst] = [id |-> job[j].base.id, idPrev |-> job[j].prev]]
      /\ UNCHANGED <<lost, failed>> /\ job[j].place = "send" /\ j \in Tickers
  BY <1>1 DEF TickSend
<1>3. i = job[j].inst /\ feed'[i].id = job[j].base.id /\ feed'[i].idPrev = job[j].prev
  BY <1>2 DEF Typed, HundredOK
<1>4. Within(j)
  BY <1>2, <1>3 DEF OrderedOK, Fine
<1>5. job[j].base.id \in Nat /\ job[j].prev \in Nat /\ feed[i].id \in Nat
  BY JobIds, Ids
<1> QED BY <1>2, <1>3, <1>4, <1>5 DEF Within

(* The 100ms feed of an instrument whose CHANGEID nobody has written over  *)
(* goes forward: no change has a lower Id than the one before it or than   *)
(* the one it says it follows, at any number of tickers, instruments,      *)
(* messages and subscriptions.                                             *)
THEOREM HundredForward == Spec => HundredOrdered
<1>1. IInv /\ Typed /\ OrderedOK /\ [Next]_vars =>
        [\A i \in Insts : feed'[i] # feed[i] /\ i \notin lost' /\ ~failed' =>
            feed'[i].id >= feed[i].id /\ feed'[i].id >= feed'[i].idPrev]_vars
  BY FeedForward
<1> QED BY <1>1, InitTyped, TypedKept, InitOrdered, OrderedKept, InvAlways, PTL
        DEF Spec, HundredOrdered
=============================================================================
