-------------------------- MODULE DatabaseLemmas ---------------------------
(***************************************************************************)
(* Lemmas about the lists of the two databases, and about the slots of a   *)
(* pool4 list and their numbers.  The proofs about every module that keeps *)
(* such a list rest on them.                                               *)
(***************************************************************************)
EXTENDS Pool4, Client, FiniteSetTheorems, SequenceTheorems, TLAPS

-----------------------------------------------------------------------------
(***************************************************************************)
(* Counting the elements that come before one.  The code numbers list      *)
(* nodes and turns of its loops with counters; the model counts the ones   *)
(* that come before.  These lemmas say that the two numberings agree: in a *)
(* finite set with a strict total order the count takes each of the values *)
(* from 0 to the size minus one exactly once.                              *)
(***************************************************************************)

(* R orders S: no two elements are unrelated, and it has no cycle.         *)
Orders(R, S) ==
  /\ \A s \in S : <<s, s>> \notin R
  /\ \A s, t, u \in S : <<s, t>> \in R /\ <<t, u>> \in R => <<s, u>> \in R
  /\ \A s, t \in S : s # t => <<s, t>> \in R \/ <<t, s>> \in R

Below(R, S, s) == {t \in S : <<t, s>> \in R}

Place(R, S) == [s \in S |-> Cardinality(Below(R, S, s))]

(* Of two elements the earlier has fewer elements before it.               *)
LEMMA FewerBelow ==
  ASSUME NEW R, NEW S, IsFiniteSet(S), Orders(R, S),
         NEW s \in S, NEW t \in S, <<s, t>> \in R
  PROVE  Cardinality(Below(R, S, s)) < Cardinality(Below(R, S, t))
<1>1. /\ IsFiniteSet(Below(R, S, t))
      /\ IsFiniteSet(Below(R, S, s))
  BY FS_Subset DEF Below
<1>2. Below(R, S, s) \in SUBSET Below(R, S, t)
  BY DEF Below, Orders
<1>3. s \in Below(R, S, t) /\ s \notin Below(R, S, s)
  BY DEF Below, Orders
<1>4. /\ Cardinality(Below(R, S, s)) <= Cardinality(Below(R, S, t))
      /\ Cardinality(Below(R, S, t)) # Cardinality(Below(R, S, s))
  BY <1>1, <1>2, <1>3, FS_Subset
<1>5. /\ Cardinality(Below(R, S, s)) \in Nat
      /\ Cardinality(Below(R, S, t)) \in Nat
  BY <1>1, FS_CardinalityType
<1> QED BY <1>4, <1>5

(* The places of the elements of S are 0 .. Cardinality(S) - 1, each taken *)
(* once.                                                                   *)
LEMMA PlaceIsBijection ==
  ASSUME NEW R, NEW S, IsFiniteSet(S), Orders(R, S)
  PROVE  Place(R, S) \in Bijection(S, 0 .. Cardinality(S) - 1)
<1> DEFINE N == Cardinality(S)
           f == Place(R, S)
<1>1. N \in Nat
  BY FS_CardinalityType
<1>2. ASSUME NEW s \in S PROVE f[s] \in 0 .. N - 1
  <2>1. /\ IsFiniteSet(Below(R, S, s))
        /\ Cardinality(Below(R, S, s)) <= N
        /\ N # Cardinality(Below(R, S, s))
    <3>1. Below(R, S, s) \in SUBSET S
      BY DEF Below
    <3>2. s \notin Below(R, S, s)
      BY DEF Below, Orders
    <3> QED BY <3>1, <3>2, FS_Subset
  <2>2. Cardinality(Below(R, S, s)) \in Nat
    BY <2>1, FS_CardinalityType
  <2>3. Cardinality(Below(R, S, s)) \in 0 .. N - 1
    BY <1>1, <2>1, <2>2
  <2> QED BY <2>3 DEF Place
<1>3. ASSUME NEW s \in S, NEW t \in S, f[s] = f[t] PROVE s = t
  <2>1. SUFFICES ASSUME s # t PROVE FALSE
    OBVIOUS
  <2>2. Cardinality(Below(R, S, s)) = Cardinality(Below(R, S, t))
    BY <1>3 DEF Place
  <2>3. Cardinality(Below(R, S, s)) \in Nat
    BY FS_Subset, FS_CardinalityType DEF Below
  <2>4. CASE <<s, t>> \in R
    <3>1. Cardinality(Below(R, S, s)) < Cardinality(Below(R, S, t))
      BY <2>4, FewerBelow
    <3> QED BY <3>1, <2>2, <2>3
  <2>5. CASE <<t, s>> \in R
    <3>1. Cardinality(Below(R, S, t)) < Cardinality(Below(R, S, s))
      BY <2>5, FewerBelow
    <3> QED BY <3>1, <2>2, <2>3
  <2> QED BY <2>1, <2>4, <2>5 DEF Orders
<1>4. f \in Injection(S, 0 .. N - 1)
  BY <1>2, <1>3 DEF Injection, IsInjective, Place
<1>5. IsFiniteSet(0 .. N - 1) /\ Cardinality(0 .. N - 1) = N
  BY <1>1, FS_Interval
<1>6. f \in Surjection(S, 0 .. N - 1)
  BY <1>4, <1>5, FS_Injection
<1> QED BY <1>4, <1>6 DEF Bijection

(* The order of the natural numbers, as a relation on S.                   *)
LessOn(S) == {p \in S \X S : p[1] < p[2]}

LEMMA LessOrders ==
  ASSUME NEW S \in SUBSET Int
  PROVE  Orders(LessOn(S), S)
BY DEF Orders, LessOn

(* A finite set of integers has exactly one i-th element, counted from 0.  *)
LEMMA IthExists ==
  ASSUME NEW S \in SUBSET Int, IsFiniteSet(S),
         NEW i \in 0 .. Cardinality(S) - 1
  PROVE  \E k \in S : Cardinality({j \in S : j < k}) = i
<1>1. Place(LessOn(S), S) \in Surjection(S, 0 .. Cardinality(S) - 1)
  BY PlaceIsBijection, LessOrders DEF Bijection
<1>2. PICK k \in S : Place(LessOn(S), S)[k] = i
  BY <1>1 DEF Surjection
<1>3. Below(LessOn(S), S, k) = {j \in S : j < k}
  BY DEF Below, LessOn
<1> QED BY <1>2, <1>3 DEF Place

(* A non-empty finite set of integers has a least element.                 *)
LEMMA LeastExists ==
  ASSUME NEW S \in SUBSET Int, IsFiniteSet(S), S # {}
  PROVE  \E k \in S : \A j \in S : k <= j
<1>1. Cardinality(S) \in Nat \ {0}
  BY FS_CardinalityType, FS_EmptySet
<1>2. PICK k \in S : Cardinality({j \in S : j < k}) = 0
  BY <1>1, IthExists
<1>3. IsFiniteSet({j \in S : j < k})
  BY FS_Subset
<1>4. {j \in S : j < k} = {}
  BY <1>2, <1>3, FS_EmptySet
<1> QED BY <1>4

(* What holds of 0, and of n + 1 whenever of n, holds up to any number:    *)
(* induction, for a set in place of a predicate.                           *)
LEMMA Upwards ==
  ASSUME NEW N \in Nat, NEW S, 0 \in S,
         \A n \in 0 .. N : n \in S /\ n < N => n + 1 \in S
  PROVE  0 .. N \subseteq S
<1> DEFINE B == (0 .. N) \ S
<1>1. SUFFICES ASSUME B # {} PROVE FALSE
  OBVIOUS
<1>2. B \in SUBSET Int /\ IsFiniteSet(B)
  <2>1. B \in SUBSET (0 .. N) /\ IsFiniteSet(0 .. N)
    BY FS_Interval
  <2> QED BY <2>1, FS_Subset
<1>3. PICK b \in B : \A j \in B : b <= j
  <2> HIDE DEF B
  <2> QED BY <1>1, <1>2, LeastExists
<1>4. b \in Nat /\ b <= N /\ b # 0 /\ b \notin S
  BY <1>3
<1>5. b - 1 \in 0 .. N /\ b - 1 \in S
  BY <1>3, <1>4
<1>6. (b - 1) + 1 \in S
  BY <1>4, <1>5
<1> QED BY <1>4, <1>6

-----------------------------------------------------------------------------
(* Words.                                                                  *)

(* A word holds a number below 2^WordBits as it is.                        *)
LEMMA UintSmall ==
  ASSUME NEW n \in Nat, n < 2^WordBits
  PROVE  Uint(n) = n
<1> DEFINE w == 2^WordBits
<1>1. w \in Nat /\ n < w
  BY TypesAssumption
<1> HIDE DEF w
<1>2. n % w = n
  BY <1>1
<1> QED BY <1>2 DEF Uint, w

LEMMA UintType ==
  ASSUME NEW n \in Int
  PROVE  Uint(n) \in Word
<1> DEFINE w == 2^WordBits
<1>1. w \in Nat /\ w > 1
  BY TypesAssumption
<1> HIDE DEF w
<1>2. n % w \in 0 .. w - 1
  BY <1>1
<1> QED BY <1>2 DEF Uint, Word, w

-----------------------------------------------------------------------------
(* The lists.                                                              *)

(* The sub-list at some of the positions of a list is a list of the same   *)
(* kind of elements: pool4_rm() leaves nothing else behind.                *)
LEMMA SelectAtType ==
  ASSUME NEW T, NEW s \in Seq(T), NEW K \in SUBSET DOMAIN s
  PROVE  SelectAt(s, K) \in Seq(T)
<1> DEFINE n == Cardinality(K)
<1>1. IsFiniteSet(DOMAIN s) /\ K \in SUBSET Int
  BY FS_Interval, LenProperties
<1>2. IsFiniteSet(K) /\ n \in Nat
  BY <1>1, FS_Subset, FS_CardinalityType
<1>3. ASSUME NEW i \in 1 .. n PROVE Nth(K, i) \in K
  <2>1. i - 1 \in 0 .. n - 1
    BY <1>2
  <2>2. \E k \in K : Cardinality({j \in K : j < k}) = i - 1
    BY <1>1, <1>2, <2>1, IthExists
  <2> QED BY <2>2 DEF Nth
<1>4. \A i \in 1 .. n : s[Nth(K, i)] \in T
  BY <1>3, ElementOfSeq
<1>5. SelectAt(s, K) \in [1 .. n -> T]
  BY <1>4 DEF SelectAt
<1> QED BY <1>2, <1>5

LEMMA RemoveNodeType ==
  ASSUME NEW T, NEW s \in Seq(T), NEW k \in DOMAIN s
  PROVE  RemoveNode(s, k) \in Seq(T)
<1>1. Len(s) \in Nat /\ DOMAIN s = 1 .. Len(s) /\ k \in 1 .. Len(s)
  BY LenProperties
<1>2. \A i \in 1 .. Len(s) : s[i] \in T
  BY <1>1, ElementOfSeq
<1>3. RemoveNode(s, k) \in [1 .. Len(s) - 1 -> T]
  BY <1>1, <1>2 DEF RemoveNode
<1>4. Len(s) - 1 \in Nat
  BY <1>1
<1> QED BY <1>3, <1>4

(* First() is the least element of a non-empty set of list positions.      *)
LEMMA FirstIsLeast ==
  ASSUME NEW T, NEW s \in Seq(T), NEW K \in SUBSET DOMAIN s, K # {}
  PROVE  First(K) \in K /\ \A j \in K : First(K) <= j
<1>1. IsFiniteSet(DOMAIN s) /\ K \in SUBSET Int
  BY FS_Interval, LenProperties
<1>2. \E k \in K : \A j \in K : k <= j
  BY <1>1, FS_Subset, LeastExists
<1> QED BY <1>2 DEF First

(* Removals leave a list of the same kind of elements, whatever is removed.*)
LEMMA RmType ==
  ASSUME NEW T, NEW list \in Seq(T), NEW e
  PROVE  pool4_rm(list, e) \in Seq(T)
BY SelectAtType DEF pool4_rm

LEMMA DeleteType ==
  ASSUME NEW T, NEW list \in Seq(T), NEW p
  PROVE  client_delete(list, p) \in Seq(T)
<1>1. Matching(list, p) \in SUBSET DOMAIN list
  BY DEF Matching
<1>2. CASE Matching(list, p) = {}
  BY <1>2 DEF client_delete
<1>3. CASE Matching(list, p) # {}
  <2>1. First(Matching(list, p)) \in DOMAIN list
    BY <1>1, <1>3, FirstIsLeast
  <2> QED BY <1>3, <2>1, RemoveNodeType DEF client_delete
<1> QED BY <1>2, <1>3

(* Clients are added at the tail as well.                                  *)
LEMMA AppendKeepsHolding ==
  ASSUME NEW T, NEW list \in Seq(T), NEW p \in T, NEW addr,
         NEW k \in Holding(list, addr), \A j \in Holding(list, addr) : k <= j
  PROVE  /\ k \in Holding(Append(list, p), addr)
         /\ \A j \in Holding(Append(list, p), addr) : k <= j
<1>1. /\ Len(list) \in Nat /\ DOMAIN list = 1 .. Len(list)
      /\ DOMAIN Append(list, p) = 1 .. Len(list) + 1
      /\ \A i \in 1 .. Len(list) : Append(list, p)[i] = list[i]
  BY LenProperties, AppendProperties
<1>2. \A i \in 1 .. Len(list) :
        i \in Holding(Append(list, p), addr) <=> i \in Holding(list, addr)
  BY <1>1 DEF Holding
<1>3. k \in 1 .. Len(list)
  BY <1>1 DEF Holding
<1>4. ASSUME NEW j \in Holding(Append(list, p), addr) PROVE k <= j
  <2>1. j \in 1 .. Len(list) + 1
    BY <1>1 DEF Holding
  <2> QED BY <1>1, <1>2, <1>3, <2>1
<1> QED BY <1>2, <1>3, <1>4

(* Deleting a client leaves the clients before it in their places.         *)
LEMMA DeleteKeepsHolding ==
  ASSUME NEW T, NEW list \in Seq(T), NEW d \in DOMAIN list, NEW addr,
         NEW k \in Holding(list, addr), k < d,
         \A j \in Holding(list, addr) : k <= j
  PROVE  /\ k \in Holding(RemoveNode(list, d), addr)
         /\ \A j \in Holding(RemoveNode(list, d), addr) : k <= j
<1> DEFINE rest == RemoveNode(list, d)
<1>1. Len(list) \in Nat /\ DOMAIN list = 1 .. Len(list)
  BY LenProperties
<1>2. /\ DOMAIN rest = 1 .. Len(list) - 1
      /\ \A i \in 1 .. Len(list) - 1 :
           rest[i] = IF i < d THEN list[i] ELSE list[i+1]
  BY DEF RemoveNode
<1>3. k \in 1 .. Len(list) /\ d \in 1 .. Len(list)
  BY <1>1 DEF Holding
<1>4. k \in DOMAIN rest /\ rest[k] = list[k]
  BY <1>1, <1>2, <1>3
<1>5. k \in Holding(rest, addr)
  BY <1>4 DEF Holding
<1>6. ASSUME NEW j \in Holding(rest, addr), j < k PROVE FALSE
  <2>1. j \in 1 .. Len(list) - 1 /\ prefix_contains(rest[j], addr)
    BY <1>2 DEF Holding
  <2>2. j \in DOMAIN list /\ rest[j] = list[j]
    BY <1>1, <1>2, <1>3, <1>6, <2>1
  <2>3. j \in Holding(list, addr)
    BY <2>1, <2>2 DEF Holding
  <2> QED BY <1>3, <1>6, <2>1, <2>3
<1>7. \A j \in Holding(rest, addr) : j \in Int
  BY <1>1, <1>2 DEF Holding
<1> QED BY <1>3, <1>5, <1>6, <1>7

LEMMA PlaceBeforeDeleted ==
  ASSUME NEW T, NEW list \in Seq(T), NEW p, NEW addr,
         NEW k \in Holding(list, addr), \A j \in Holding(list, addr) : k <= j,
         Matching(list, p) # {} => k < First(Matching(list, p))
  PROVE  /\ k \in Holding(client_delete(list, p), addr)
         /\ \A j \in Holding(client_delete(list, p), addr) : k <= j
<1>1. CASE Matching(list, p) = {}
  BY <1>1 DEF client_delete
<1>2. CASE Matching(list, p) # {}
  <2>1. Matching(list, p) \in SUBSET DOMAIN list
    BY DEF Matching
  <2>2. First(Matching(list, p)) \in DOMAIN list
    BY <1>2, <2>1, FirstIsLeast
  <2> QED BY <1>2, <2>2, DeleteKeepsHolding DEF client_delete
<1> QED BY <1>1, <1>2

(* The members of an entry, and of a slot.                                 *)
LEMMA PortsType ==
  ASSUME NEW list \in Seq(Entry), NEW j \in DOMAIN list
  PROVE  /\ list[j].min \in 0 .. MaxPort /\ list[j].max \in 0 .. MaxPort
         /\ list[j].addr \in Nat /\ MaxPort \in Nat
<1>1. list[j] \in Entry
  BY LenProperties, ElementOfSeq
<1>2. list[j] \in [mark : Nat, proto : Nat, addr : Nat,
                   min : 0 .. MaxPort, max : 0 .. MaxPort]
  BY <1>1, Pool4Assumption
<1> QED BY <1>2, Pool4Assumption

LEMMA SlotType ==
  ASSUME NEW list \in Seq(Entry), NEW s \in Slots(list)
  PROVE  /\ s[1] \in DOMAIN list /\ s[1] \in 1 .. Len(list) /\ s[1] \in Nat
         /\ s[2] \in 0 .. MaxPort /\ s[2] \in Nat
         /\ s = <<s[1], s[2]>>
<1>1. DOMAIN list = 1 .. Len(list) /\ Len(list) \in Nat
  BY LenProperties
<1> QED BY <1>1, Pool4Assumption DEF Slots

(* The slots of a list are finite in number, and so are those before one.  *)
LEMMA SlotsFinite ==
  ASSUME NEW list \in Seq(Entry)
  PROVE  IsFiniteSet(Slots(list))
<1>1. IsFiniteSet(DOMAIN list) /\ IsFiniteSet(0 .. MaxPort)
  BY FS_Interval, LenProperties, Pool4Assumption
<1>2. IsFiniteSet((DOMAIN list) \X (0 .. MaxPort))
  BY <1>1, FS_Product
<1>3. Slots(list) \in SUBSET ((DOMAIN list) \X (0 .. MaxPort))
  BY DEF Slots
<1> QED BY <1>2, <1>3, FS_Subset

LEMMA TaddrType ==
  ASSUME NEW list \in Seq(Entry), NEW s \in Slots(list)
  PROVE  TaddrOf(list, s) \in Taddr
<1>1. s[1] \in DOMAIN list /\ s[2] \in 0 .. MaxPort
  BY DEF Slots
<1>2. list[s[1]] \in Entry
  BY <1>1, LenProperties, ElementOfSeq
<1>3. list[s[1]].addr \in Nat
  BY <1>2, Pool4Assumption
<1> QED BY <1>1, <1>3 DEF TaddrOf, Taddr

-----------------------------------------------------------------------------
(* Slots and their numbers.                                                *)

Order(list) == {p \in Slots(list) \X Slots(list) : Precedes(p[1], p[2])}

LEMMA SlotsOrdered ==
  ASSUME NEW list \in Seq(Entry)
  PROVE  Orders(Order(list), Slots(list))
<1> DEFINE Pairs == (DOMAIN list) \X (0 .. MaxPort)
<1>1. DOMAIN list \subseteq Nat /\ 0 .. MaxPort \subseteq Nat
  <2>1. DOMAIN list = 1 .. Len(list) /\ Len(list) \in Nat
    BY LenProperties
  <2> QED BY <2>1, Pool4Assumption
<1>2. \A s \in Slots(list) : s \in Pairs /\ s[1] \in Nat /\ s[2] \in Nat
  BY <1>1 DEF Slots
<1>3. \A s, t \in Slots(list) : s # t => s[1] # t[1] \/ s[2] # t[2]
  BY <1>2
<1> QED BY <1>2, <1>3 DEF Orders, Order, Precedes

LEMMA RankIsPlace ==
  ASSUME NEW list \in Seq(Entry), NEW s \in Slots(list)
  PROVE  Rank(list, s) = Place(Order(list), Slots(list))[s]
<1>1. Before(list, s) = Below(Order(list), Slots(list), s)
  BY DEF Before, Below, Order
<1> QED BY <1>1 DEF Rank, Place

(* No two turns of the loops have one number.                              *)
LEMMA RankInjective ==
  ASSUME NEW list \in Seq(Entry), NEW s \in Slots(list), NEW t \in Slots(list),
         Rank(list, s) = Rank(list, t)
  PROVE  s = t
<1>1. Place(Order(list), Slots(list)) \in
        Bijection(Slots(list), 0 .. Cardinality(Slots(list)) - 1)
  BY SlotsFinite, SlotsOrdered, PlaceIsBijection
<1> QED BY <1>1, RankIsPlace DEF Bijection, Injection, IsInjective

(* Numbers grow in the order of the loops, also for a place <<k, i>> the    *)
(* loops pass that is not a slot.                                          *)
LEMMA RankType ==
  ASSUME NEW list \in Seq(Entry), NEW s
  PROVE  /\ IsFiniteSet(Before(list, s))
         /\ Rank(list, s) \in 0 .. Cardinality(Slots(list))
<1>1. Before(list, s) \in SUBSET Slots(list)
  BY DEF Before
<1>2. /\ IsFiniteSet(Before(list, s))
      /\ Cardinality(Before(list, s)) <= Cardinality(Slots(list))
      /\ Cardinality(Slots(list)) \in Nat
  BY <1>1, SlotsFinite, FS_Subset, FS_CardinalityType
<1>3. Cardinality(Before(list, s)) \in Nat
  BY <1>2, FS_CardinalityType
<1> QED BY <1>2, <1>3 DEF Rank

LEMMA RankGrows ==
  ASSUME NEW list \in Seq(Entry), NEW s \in Slots(list), NEW t \in Slots(list),
         Precedes(s, t)
  PROVE  Rank(list, s) < Rank(list, t)
<1>1. <<s, t>> \in Order(list)
  BY DEF Order
<1>2. Cardinality(Below(Order(list), Slots(list), s))
        < Cardinality(Below(Order(list), Slots(list), t))
  BY <1>1, SlotsFinite, SlotsOrdered, FewerBelow
<1> QED BY <1>2, RankIsPlace DEF Place

(* The number of slots from one slot on and before another is the          *)
(* difference of their numbers.                                            *)
LEMMA SlotsBetween ==
  ASSUME NEW list \in Seq(Entry), NEW w \in Slots(list), NEW s \in Slots(list),
         ~Precedes(s, w)
  PROVE  Cardinality({t \in Slots(list) : ~Precedes(t, w) /\ Precedes(t, s)})
           = Rank(list, s) - Rank(list, w)
<1>1. /\ \A t \in Slots(list) : t[1] \in Int /\ t[2] \in Int
      /\ s # w => s[1] # w[1] \/ s[2] # w[2]
  <2>1. DOMAIN list = 1 .. Len(list) /\ Len(list) \in Nat /\ MaxPort \in Nat
    BY LenProperties, Pool4Assumption
  <2> QED BY <2>1 DEF Slots
<1>2. Before(list, s) \cap Before(list, w) = Before(list, w)
  <2>1. ASSUME NEW t \in Slots(list), Precedes(t, w) PROVE Precedes(t, s)
    BY <1>1, <2>1 DEF Precedes
  <2> QED BY <2>1 DEF Before
<1>3. Before(list, s) \ Before(list, w)
        = {t \in Slots(list) : ~Precedes(t, w) /\ Precedes(t, s)}
  BY DEF Before
<1>4. IsFiniteSet(Before(list, s))
  BY RankType
<1>5. Cardinality(Before(list, s) \ Before(list, w))
        = Cardinality(Before(list, s)) - Cardinality(Before(list, w))
  BY <1>2, <1>4, FS_Difference
<1> QED BY <1>3, <1>5 DEF Rank

(* Each number below the number of slots is the number of one.             *)
LEMMA RankReached ==
  ASSUME NEW list \in Seq(Entry), NEW n \in 0 .. Cardinality(Slots(list)) - 1
  PROVE  \E s \in Slots(list) : Rank(list, s) = n
<1>1. Place(Order(list), Slots(list)) \in
        Surjection(Slots(list), 0 .. Cardinality(Slots(list)) - 1)
  BY SlotsFinite, SlotsOrdered, PlaceIsBijection DEF Bijection
<1>2. PICK s \in Slots(list) : Place(Order(list), Slots(list))[s] = n
  BY <1>1 DEF Surjection
<1> QED BY <1>2, RankIsPlace

(* The window with a given number exists exactly when the pool has more    *)
(* masks than come before it.                                              *)
LEMMA DomainStartExists ==
  ASSUME NEW list \in Seq(Entry), NEW pos \in Nat, NEW mpc \in Nat
  PROVE  DomainStart(list, pos, mpc) # {} <=>
           pos * mpc < Cardinality(Slots(list))
<1> DEFINE N == Cardinality(Slots(list))
           f == Place(Order(list), Slots(list))
<1>1. f \in Bijection(Slots(list), 0 .. N - 1) /\ N \in Nat
  BY SlotsFinite, SlotsOrdered, PlaceIsBijection, FS_CardinalityType
<1>2. pos * mpc \in Nat
  OBVIOUS
<1>3. ASSUME pos * mpc < N PROVE DomainStart(list, pos, mpc) # {}
  <2>1. pos * mpc \in 0 .. N - 1
    BY <1>1, <1>2, <1>3
  <2>2. PICK s \in Slots(list) : f[s] = pos * mpc
    BY <1>1, <2>1 DEF Bijection, Surjection
  <2>3. Rank(list, s) = pos * mpc
    BY <2>2, RankIsPlace
  <2> QED BY <2>3 DEF DomainStart
<1>4. ASSUME DomainStart(list, pos, mpc) # {} PROVE pos * mpc < N
  <2>1. PICK s \in Slots(list) : Rank(list, s) = pos * mpc
    BY <1>4 DEF DomainStart
  <2>2. f[s] \in 0 .. N - 1
    BY <1>1 DEF Bijection, Injection
  <2>3. f[s] = pos * mpc
    BY <2>1, RankIsPlace
  <2> QED BY <1>1, <1>2, <2>2, <2>3
<1> QED BY <1>3, <1>4

(* Entries are added at the tail, which leaves the numbers and the masks   *)
(* of the slots as they were.                                              *)
LEMMA AppendKeepsSlots ==
  ASSUME NEW list \in Seq(Entry), NEW e \in Entry, NEW s \in Slots(list)
  PROVE  /\ s \in Slots(Append(list, e))
         /\ Rank(Append(list, e), s) = Rank(list, s)
         /\ TaddrOf(Append(list, e), s) = TaddrOf(list, s)
<1> DEFINE longer == Append(list, e)
           n == Len(list)
<1>1. /\ n \in Nat /\ DOMAIN list = 1 .. n /\ DOMAIN longer = 1 .. n + 1
      /\ \A k \in 1 .. n : longer[k] = list[k]
  BY LenProperties, AppendProperties
<1>2. \A t : t \in Slots(list) <=> t \in Slots(longer) /\ t[1] \in 1 .. n
  BY <1>1 DEF Slots
<1>3. s[1] \in 1 .. n
  BY <1>1 DEF Slots
<1>4. \A t \in Slots(longer) : Precedes(t, s) => t[1] \in 1 .. n
  BY <1>1, <1>3 DEF Slots, Precedes
<1>5. Before(longer, s) = Before(list, s)
  BY <1>2, <1>4 DEF Before
<1>6. TaddrOf(longer, s) = TaddrOf(list, s)
  BY <1>1, <1>3 DEF TaddrOf
<1> QED BY <1>2, <1>5, <1>6 DEF Rank

LEMMA AppendKeepsDomains ==
  ASSUME NEW list \in Seq(Entry), NEW e \in Entry, NEW pos, NEW mpc,
         NEW s \in DomainStart(list, pos, mpc)
  PROVE  /\ s \in DomainStart(Append(list, e), pos, mpc)
         /\ TaddrOf(Append(list, e), s) = TaddrOf(list, s)
BY AppendKeepsSlots DEF DomainStart

(* A pool that holds no mask twice held none twice before an addition.     *)
LEMMA NoOverlapBefore ==
  ASSUME NEW list \in Seq(Entry), NEW e \in Entry,
         NoOverlap(Append(list, e))
  PROVE  NoOverlap(list)
BY AppendKeepsSlots DEF NoOverlap

-----------------------------------------------------------------------------
(* A double loop over the entries and their ports: the number of the place *)
(* <<k, i>> it is at, from the start of the list to its end.               *)

LEMMA RankAtStart ==
  ASSUME NEW list \in Seq(Entry), NEW i \in Nat,
         1 \in DOMAIN list => i = list[1].min
  PROVE  Before(list, <<1, i>>) = {} /\ Rank(list, <<1, i>>) = 0
<1>1. \A t \in Slots(list) :
        /\ t[1] \in Nat /\ t[1] >= 1 /\ t[2] \in Nat
        /\ t[1] \in DOMAIN list /\ list[t[1]].min <= t[2]
        /\ list[t[1]].min \in Nat
  BY SlotType, PortsType DEF Slots
<1>2. Before(list, <<1, i>>) = {}
  BY <1>1 DEF Before, Precedes
<1>3. Rank(list, <<1, i>>) = 0
  BY <1>2, FS_EmptySet DEF Rank
<1> QED BY <1>2, <1>3

(* A turn of the inner loop. *)
LEMMA RankAfterSlot ==
  ASSUME NEW list \in Seq(Entry), NEW k, NEW i, <<k, i>> \in Slots(list)
  PROVE  /\ Before(list, <<k, i + 1>>) = Before(list, <<k, i>>) \cup {<<k, i>>}
         /\ Rank(list, <<k, i + 1>>) = Rank(list, <<k, i>>) + 1
<1>1. k \in Nat /\ i \in Nat
  BY SlotType
<1>2. \A t \in Slots(list) :
        t[1] \in Nat /\ t[2] \in Nat /\ t = <<t[1], t[2]>>
  BY SlotType
<1>3. Before(list, <<k, i + 1>>) = Before(list, <<k, i>>) \cup {<<k, i>>}
  BY <1>1, <1>2 DEF Before, Precedes
<1>4. <<k, i>> \notin Before(list, <<k, i>>)
  BY <1>1 DEF Before, Precedes
<1>5. Rank(list, <<k, i + 1>>) = Rank(list, <<k, i>>) + 1
  BY <1>3, <1>4, RankType, FS_AddElement DEF Rank
<1> QED BY <1>3, <1>5

(* From the end of the inner loop to the next entry. *)
LEMMA RankAfterEntry ==
  ASSUME NEW list \in Seq(Entry), NEW k \in DOMAIN list, NEW i \in Nat,
         list[k].max < i, NEW j \in Nat,
         k + 1 \in DOMAIN list => j = list[k + 1].min
  PROVE  /\ Before(list, <<k + 1, j>>) = Before(list, <<k, i>>)
         /\ Rank(list, <<k + 1, j>>) = Rank(list, <<k, i>>)
<1>1. \A t \in Slots(list) :
        /\ t[1] \in Nat /\ t[2] \in Nat /\ t[1] \in DOMAIN list
        /\ list[t[1]].min <= t[2] /\ t[2] <= list[t[1]].max
        /\ list[t[1]].min \in Nat /\ list[t[1]].max \in Nat
  BY SlotType, PortsType DEF Slots
<1>2. k \in Nat /\ list[k].max \in Nat
  <2>1. DOMAIN list = 1 .. Len(list) /\ Len(list) \in Nat
    BY LenProperties
  <2> QED BY <2>1, PortsType
<1>3. Before(list, <<k + 1, j>>) = Before(list, <<k, i>>)
  BY <1>1, <1>2 DEF Before, Precedes
<1>4. Rank(list, <<k + 1, j>>) = Rank(list, <<k, i>>)
  BY <1>3 DEF Rank
<1> QED BY <1>3, <1>4

LEMMA RankAtEnd ==
  ASSUME NEW list \in Seq(Entry), NEW k \in Nat, k > Len(list), NEW i
  PROVE  /\ Before(list, <<k, i>>) = Slots(list)
         /\ Rank(list, <<k, i>>) = Cardinality(Slots(list))
<1>1. Len(list) \in Nat
  BY LenProperties
<1>2. \A t \in Slots(list) : t[1] \in 1 .. Len(list)
  BY SlotType
<1>3. Before(list, <<k, i>>) = Slots(list)
  BY <1>1, <1>2 DEF Before, Precedes
<1>4. Rank(list, <<k, i>>) = Cardinality(Slots(list))
  BY <1>3 DEF Rank
<1> QED BY <1>3, <1>4

(* A slot has fewer masks before it than the pool has.                     *)
LEMMA RankOfSlot ==
  ASSUME NEW list \in Seq(Entry), NEW s \in Slots(list)
  PROVE  Rank(list, s) \in 0 .. Cardinality(Slots(list)) - 1
<1>1. Place(Order(list), Slots(list))
        \in [Slots(list) -> 0 .. Cardinality(Slots(list)) - 1]
  BY SlotsFinite, SlotsOrdered, PlaceIsBijection DEF Bijection, Injection
<1> QED BY <1>1, RankIsPlace

-----------------------------------------------------------------------------
(* The count of a pool.                                                    *)

(* A sum over a finite set, taken one element at a time, has one value:    *)
(* two functions of the subsets agree if each step to a larger subset      *)
(* keeps them equal.                                                       *)
LEMMA SumIsUnique ==
  ASSUME NEW S, IsFiniteSet(S), NEW g, NEW h, g[{}] = h[{}],
         \A T \in SUBSET S : T # {} =>
           \E x \in T : g[T \ {x}] = h[T \ {x}] => g[T] = h[T]
  PROVE  g[S] = h[S]
<1> DEFINE sizes == {Cardinality(T) : T \in {U \in SUBSET S : g[U] # h[U]}}
<1>1. SUFFICES ASSUME g[S] # h[S] PROVE FALSE
  OBVIOUS
<1>2. /\ Cardinality(S) \in Nat
      /\ \A T \in SUBSET S : /\ IsFiniteSet(T) /\ Cardinality(T) \in Nat
                             /\ Cardinality(T) <= Cardinality(S)
  BY FS_Subset, FS_CardinalityType
<1>3. sizes \in SUBSET (0 .. Cardinality(S)) /\ IsFiniteSet(0 .. Cardinality(S))
  BY <1>2, FS_Interval
<1>4. sizes # {} /\ IsFiniteSet(sizes) /\ sizes \in SUBSET Int
  BY <1>1, <1>3, FS_Subset
<1>5. PICK n \in sizes : \A m \in sizes : n <= m
  <2> HIDE DEF sizes
  <2> QED BY <1>4, LeastExists
<1>6. PICK T \in SUBSET S : g[T] # h[T] /\ n = Cardinality(T)
  BY <1>5
<1>7. PICK x \in T : g[T \ {x}] = h[T \ {x}] => g[T] = h[T]
  BY <1>6
<1>8. Cardinality(T \ {x}) = n - 1 /\ n \in Nat
  BY <1>2, <1>6, FS_RemoveElement
<1>9. T \ {x} \in SUBSET S /\ g[T \ {x}] # h[T \ {x}]
  BY <1>6, <1>7
<1>10. n - 1 \in sizes
  BY <1>8, <1>9
<1> QED BY <1>5, <1>8, <1>10

(* The places of an entry up to its last port, and those before its first, *)
(* for the entries of a set of positions.                                  *)
UpTo(list, K) == {s \in K \X (0 .. MaxPort) : s[2] <= list[s[1]].max}

Under(list, K) == {s \in K \X (0 .. MaxPort) : s[2] < list[s[1]].min}

LEMMA PlacesFinite ==
  ASSUME NEW list \in Seq(Entry), NEW K \in SUBSET DOMAIN list
  PROVE  /\ IsFiniteSet(UpTo(list, K)) /\ Cardinality(UpTo(list, K)) \in Nat
         /\ IsFiniteSet(Under(list, K)) /\ Cardinality(Under(list, K)) \in Nat
<1>1. IsFiniteSet(K) /\ IsFiniteSet(0 .. MaxPort)
  <2>1. IsFiniteSet(DOMAIN list)
    BY FS_Interval, LenProperties
  <2> QED BY <2>1, FS_Interval, FS_Subset, Pool4Assumption
<1>2. IsFiniteSet(K \X (0 .. MaxPort))
  BY <1>1, FS_Product
<1>3. /\ UpTo(list, K) \in SUBSET (K \X (0 .. MaxPort))
      /\ Under(list, K) \in SUBSET (K \X (0 .. MaxPort))
  BY DEF UpTo, Under
<1> QED BY <1>2, <1>3, FS_Subset, FS_CardinalityType

LEMMA DisjointUnion ==
  ASSUME NEW S, IsFiniteSet(S), NEW T, IsFiniteSet(T), S \cap T = {}
  PROVE  Cardinality(S \cup T) = Cardinality(S) + Cardinality(T)
<1>1. Cardinality(S \cup T)
        = Cardinality(S) + Cardinality(T) - Cardinality(S \cap T)
  BY FS_Union
<1>2. /\ Cardinality(S \cap T) = 0
      /\ Cardinality(S) \in Nat /\ Cardinality(T) \in Nat
  BY FS_EmptySet, FS_CardinalityType
<1> QED BY <1>1, <1>2

(* One entry has as many places up to its last port as ports, from 0 on.   *)
LEMMA PlacesOfEntry ==
  ASSUME NEW list \in Seq(Entry), NEW K \in SUBSET DOMAIN list, NEW k \in K
  PROVE  /\ Cardinality(UpTo(list, K))
              = list[k].max + 1 + Cardinality(UpTo(list, K \ {k}))
         /\ Cardinality(Under(list, K))
              = list[k].min + Cardinality(Under(list, K \ {k}))
<1> DEFINE Row(n) == {k} \X (0 .. n - 1)
<1>1. /\ MaxPort \in Nat
      /\ list[k].max \in 0 .. MaxPort /\ list[k].min \in 0 .. MaxPort
  BY PortsType
<1>2. ASSUME NEW n \in Nat
      PROVE  IsFiniteSet(Row(n)) /\ Cardinality(Row(n)) = n
  <2>1. IsFiniteSet({k}) /\ Cardinality({k}) = 1
    BY FS_Singleton
  <2>2. IsFiniteSet(0 .. n - 1) /\ Cardinality(0 .. n - 1) = n
    BY FS_Interval
  <2> QED BY <2>1, <2>2, FS_Product
<1>3. /\ UpTo(list, K) = UpTo(list, K \ {k}) \cup Row(list[k].max + 1)
      /\ UpTo(list, K \ {k}) \cap Row(list[k].max + 1) = {}
  BY <1>1 DEF UpTo
<1>4. /\ Under(list, K) = Under(list, K \ {k}) \cup Row(list[k].min)
      /\ Under(list, K \ {k}) \cap Row(list[k].min) = {}
  BY <1>1 DEF Under
<1>5. /\ IsFiniteSet(UpTo(list, K \ {k}))
      /\ Cardinality(UpTo(list, K \ {k})) \in Nat
      /\ IsFiniteSet(Under(list, K \ {k}))
      /\ Cardinality(Under(list, K \ {k})) \in Nat
  BY PlacesFinite
<1>6. Cardinality({}) = 0 /\ list[k].max + 1 \in Nat /\ list[k].min \in Nat
  BY <1>1, FS_EmptySet
<1> HIDE DEF Row
<1>7. Cardinality(UpTo(list, K))
        = Cardinality(UpTo(list, K \ {k})) + (list[k].max + 1)
  <2>1. /\ IsFiniteSet(Row(list[k].max + 1))
        /\ Cardinality(Row(list[k].max + 1)) = list[k].max + 1
    BY <1>2, <1>6
  <2>2. Cardinality(UpTo(list, K \ {k}) \cup Row(list[k].max + 1))
          = Cardinality(UpTo(list, K \ {k})) + Cardinality(Row(list[k].max + 1))
    BY <2>1, <1>3, <1>5, DisjointUnion
  <2> QED BY <2>1, <2>2, <1>3
<1>8. Cardinality(Under(list, K))
        = Cardinality(Under(list, K \ {k})) + list[k].min
  <2>1. /\ IsFiniteSet(Row(list[k].min))
        /\ Cardinality(Row(list[k].min)) = list[k].min
    BY <1>2, <1>6
  <2>2. Cardinality(Under(list, K \ {k}) \cup Row(list[k].min))
          = Cardinality(Under(list, K \ {k})) + Cardinality(Row(list[k].min))
    BY <2>1, <1>4, <1>5, DisjointUnion
  <2> QED BY <2>1, <2>2, <1>4
<1> QED BY <1>5, <1>6, <1>7, <1>8

(* What pool4_count() adds up, whatever ranges are upside down: the places *)
(* up to the last port of an entry less those before its first.            *)
LEMMA CountIsDifference ==
  ASSUME NEW list \in Seq(Entry)
  PROVE  pool4_count(list) = Uint(Cardinality(UpTo(list, DOMAIN list))
                                    - Cardinality(Under(list, DOMAIN list)))
<1> DEFINE D == DOMAIN list
           v == [T \in SUBSET D |->
                   Cardinality(UpTo(list, T)) - Cardinality(Under(list, T))]
           step(f) == [T \in SUBSET D |->
             IF T = {} THEN 0
             ELSE LET x == CHOOSE x \in T : TRUE
                  IN  (list[x].max - list[x].min + 1) + f[T \ {x}]]
           size == [x \in D |-> list[x].max - list[x].min + 1]
<1>1. v[{}] = 0
  <2>1. UpTo(list, {}) = {} /\ Under(list, {}) = {} /\ Cardinality({}) = 0
    BY FS_EmptySet DEF UpTo, Under
  <2>2. v[{}] = Cardinality(UpTo(list, {})) - Cardinality(Under(list, {}))
    OBVIOUS
  <2> HIDE DEF v
  <2>3. v[{}] = 0 - 0
    BY <2>1, <2>2
  <2> QED BY <2>3
<1>2. ASSUME NEW T \in SUBSET D, NEW x \in T
      PROVE  v[T] = (list[x].max - list[x].min + 1) + v[T \ {x}]
  <2>1. /\ Cardinality(UpTo(list, T))
             = list[x].max + 1 + Cardinality(UpTo(list, T \ {x}))
        /\ Cardinality(Under(list, T))
             = list[x].min + Cardinality(Under(list, T \ {x}))
    BY PlacesOfEntry
  <2>2. /\ Cardinality(UpTo(list, T \ {x})) \in Nat
        /\ Cardinality(Under(list, T \ {x})) \in Nat
    BY PlacesFinite
  <2>3. list[x].max \in Int /\ list[x].min \in Int
    BY PortsType
  <2> QED BY <2>1, <2>2, <2>3
<1>3. v = step(v)
  <2>1. ASSUME NEW T \in SUBSET D PROVE v[T] = step(v)[T]
    <3>1. CASE T = {}
      BY <3>1, <1>1
    <3>2. CASE T # {}
      <4> DEFINE x == CHOOSE x \in T : TRUE
      <4>1. x \in T
        BY <3>2
      <4>2. v[T] = (list[x].max - list[x].min + 1) + v[T \ {x}]
        BY <4>1, <1>2
      <4> HIDE DEF v
      <4> QED BY <3>2, <4>2
    <3> QED BY <3>1, <3>2
  <2> QED BY <2>1
<1> DEFINE iter == CHOOSE f : f = step(f)
<1>4. iter = step(iter)
  BY <1>3
<1>5. pool4_count(list) = Uint(iter[D])
  BY DEF pool4_count, MapThenSumSet, MapThenFoldSet
<1> HIDE DEF iter
<1>6. ASSUME NEW T \in SUBSET D, T # {}
      PROVE  \E x \in T : iter[T \ {x}] = v[T \ {x}] => iter[T] = v[T]
  <2> DEFINE x == CHOOSE x \in T : TRUE
  <2>1. x \in T /\ x \in D
    BY <1>6
  <2>2. size[x] = list[x].max - list[x].min + 1
    BY <2>1
  <2>3. v[T] = size[x] + v[T \ {x}]
    BY <2>1, <2>2, <1>2
  <2>4. step(iter)[T] = size[x] + iter[T \ {x}]
    BY <1>6, <2>2
  <2> HIDE DEF size, v, step
  <2>5. iter[T] = size[x] + iter[T \ {x}]
    BY <1>4, <2>4
  <2> QED BY <2>1, <2>3, <2>5
<1>7. iter[{}] = v[{}]
  BY <1>1, <1>4
<1>8. IsFiniteSet(D)
  BY FS_Interval, LenProperties
<1> HIDE DEF size
<1>9. iter[D] = v[D]
  <2> HIDE DEF D, v, step
  <2>1. \A T \in SUBSET D : T # {} =>
          \E x \in T : iter[T \ {x}] = v[T \ {x}] => iter[T] = v[T]
    BY <1>6
  <2> QED BY <2>1, <1>7, <1>8, SumIsUnique
<1> QED BY <1>5, <1>9

LEMMA CountType ==
  ASSUME NEW list \in Seq(Entry)
  PROVE  pool4_count(list) \in Word
<1> DEFINE n == Cardinality(UpTo(list, DOMAIN list))
                  - Cardinality(Under(list, DOMAIN list))
<1>1. n \in Int
  BY PlacesFinite
<1> HIDE DEF n
<1>2. n % 2^WordBits \in Word
  BY <1>1, TypesAssumption DEF Word
<1> QED BY <1>2, CountIsDifference DEF Uint, n

(* Without upside-down ranges pool4_count() is the number of the masks,    *)
(* but for the bits that do not fit an unsigned int.                       *)
LEMMA CountsTheSlots ==
  ASSUME NEW list \in Seq(Entry),
         \A n \in DOMAIN list : list[n].min <= list[n].max
  PROVE  pool4_count(list) = Uint(Cardinality(Slots(list)))
<1> DEFINE D == DOMAIN list
<1>1. \A n \in D : /\ list[n].min \in Int /\ list[n].max \in Int
                   /\ MaxPort \in Nat
  BY PortsType
<1>2. /\ UpTo(list, D) \cap Under(list, D) = Under(list, D)
      /\ UpTo(list, D) \ Under(list, D) = Slots(list)
  BY <1>1 DEF UpTo, Under, Slots
<1>3. Cardinality(UpTo(list, D) \ Under(list, D))
        = Cardinality(UpTo(list, D)) - Cardinality(Under(list, D))
  BY <1>2, PlacesFinite, FS_Difference
<1> QED BY <1>2, <1>3, CountIsDifference

-----------------------------------------------------------------------------
(* The walk over the addresses of a prefix.                                *)

LEMMA CountIsNat ==
  ASSUME NEW p \in ipv6_prefix
  PROVE  get_addr6_count(p) \in Nat
<1> DEFINE turns == ShiftCount(AddrBits - p.len, WordBits)
           w == 2^WordBits
<1>1. AddrBits - p.len \in Nat /\ WordBits \in Nat \ {0}
  BY TypesAssumption DEF ipv6_prefix, AddrBits
<1>2. turns \in 0 .. WordBits
  BY <1>1 DEF ShiftCount
<1>3. 2^turns \in Nat
  BY <1>2, PowersAssumption
<1>4. w \in Nat \ {0}
  BY TypesAssumption
<1>5. get_addr6_count(p) = (2^turns) % w
  BY DEF get_addr6_count, Uint
<1> HIDE DEF turns, w
<1> QED BY <1>3, <1>4, <1>5

LEMMA NextAddrType ==
  ASSUME NEW a \in in6_addr
  PROVE  addr6_iterations(a) \in in6_addr
<1> DEFINE w == 2^WordBits
<1>1. w \in Nat
  BY TypesAssumption
<1>2. in6_addr = [1 .. 4 -> 0 .. w - 1] /\ MAXipv6 = w - 1
  BY DEF in6_addr, Word, MAXipv6
<1> HIDE DEF w
<1>3. \A d \in 1 .. 4 : a[d] \in 0 .. w - 1
  BY <1>2
<1>4. \A d \in 1 .. 4 : a[d] # w - 1 => a[d] + 1 \in 0 .. w - 1
  BY <1>1, <1>3
<1>5. \A d \in 1 .. 4 : 0 \in 0 .. w - 1
  BY <1>1, <1>3
<1> QED BY <1>2, <1>4, <1>5 DEF addr6_iterations

(* The recursive function of Walk() exists: otherwise there is a least     *)
(* number of turns for which it does not, and one turn less makes it.      *)
LEMMA WalkExists ==
  ASSUME NEW start, NEW n \in Nat
  PROVE  \E f : f = [i \in 0 .. n |->
                       IF i = 0 THEN start ELSE addr6_iterations(f[i - 1])]
<1> DEFINE Is(f, m) == f = [i \in 0 .. m |->
                              IF i = 0 THEN start
                              ELSE addr6_iterations(f[i - 1])]
           S == {m \in 0 .. n : ~ \E f : Is(f, m)}
<1>1. SUFFICES ASSUME S # {} PROVE FALSE
  <2>1. n \in 0 .. n
    OBVIOUS
  <2> QED BY <2>1
<1>2. S \in SUBSET Int /\ IsFiniteSet(S)
  <2>1. S \in SUBSET (0 .. n) /\ IsFiniteSet(0 .. n)
    BY FS_Interval
  <2> QED BY <2>1, FS_Subset
<1>3. PICK m \in S : \A j \in S : m <= j
  <2> HIDE DEF S
  <2> QED BY <1>1, <1>2, LeastExists
<1>4. m \in 0 .. n
  OBVIOUS
<1>5. CASE m = 0
  <2> DEFINE f == [i \in 0 .. 0 |-> start]
  <2>1. Is(f, 0)
    OBVIOUS
  <2> QED BY <1>5, <2>1
<1>6. CASE m # 0
  <2>1. m - 1 \in 0 .. n /\ ~(m <= m - 1)
    BY <1>4, <1>6
  <2>2. PICK f : Is(f, m - 1)
    BY <1>3, <2>1
  <2> DEFINE g == [i \in 0 .. m |->
                     IF i = 0 THEN start ELSE addr6_iterations(f[i - 1])]
  <2>3. \A i \in 0 .. m - 1 : g[i] = f[i]
    BY <1>4, <2>2
  <2>4. \A i \in 0 .. m : i # 0 => i - 1 \in 0 .. m - 1
    BY <1>4
  <2>5. Is(g, m)
    BY <2>3, <2>4
  <2> QED BY <2>5
<1> QED BY <1>5, <1>6

(* The walk begins with the address of the prefix, and each address is     *)
(* followed by its successor.                                              *)
LEMMA WalkIs ==
  ASSUME NEW p \in ipv6_prefix
  PROVE  /\ DOMAIN Walk(p) = 1 .. get_addr6_count(p)
         /\ 1 \in DOMAIN Walk(p) => Walk(p)[1] = p.address
         /\ \A n \in Nat : n \in DOMAIN Walk(p) /\ n + 1 \in DOMAIN Walk(p) =>
              Walk(p)[n + 1] = addr6_iterations(Walk(p)[n])
<1> DEFINE turns == get_addr6_count(p)
           Is(f) == f = [i \in 0 .. turns |->
                           IF i = 0 THEN p.address
                           ELSE addr6_iterations(f[i - 1])]
           at == CHOOSE f : Is(f)
<1>1. turns \in Nat
  BY CountIsNat
<1>2. Is(at)
  BY <1>1, WalkExists
<1>3. Walk(p) = [i \in 1 .. turns |-> at[i - 1]]
  BY DEF Walk
<1> HIDE DEF at, turns
<1>4. \A i \in 0 .. turns :
        at[i] = IF i = 0 THEN p.address ELSE addr6_iterations(at[i - 1])
  BY <1>2
<1>5. 1 \in 1 .. turns => Walk(p)[1] = p.address
  BY <1>1, <1>3, <1>4
<1>6. ASSUME NEW n \in Nat, n \in 1 .. turns, n + 1 \in 1 .. turns
      PROVE  Walk(p)[n + 1] = addr6_iterations(Walk(p)[n])
  <2>1. Walk(p)[n + 1] = at[n] /\ Walk(p)[n] = at[n - 1]
    BY <1>1, <1>3, <1>6
  <2>2. n \in 0 .. turns /\ n # 0
    BY <1>1, <1>6
  <2> QED BY <1>4, <2>1, <2>2
<1>7. DOMAIN Walk(p) = 1 .. turns
  BY <1>3
<1> QED BY <1>5, <1>6, <1>7 DEF turns

-----------------------------------------------------------------------------
(* Sequences that are given as a function of the position.                 *)

LEMMA TableLength ==
  ASSUME NEW n \in Nat, NEW f, f = [j \in 1 .. n |-> f[j]]
  PROVE  Len(f) = n
<1> DEFINE S == {f[j] : j \in 1 .. n}
<1>1. f \in [1 .. n -> S]
  OBVIOUS
<1>2. f \in Seq(S)
  BY <1>1, SeqDef
<1> HIDE DEF S
<1>3. Len(f) \in Nat /\ DOMAIN f = 1 .. Len(f)
  BY <1>2, LenProperties
<1>4. 1 .. Len(f) = 1 .. n
  BY <1>1, <1>3
<1> QED BY <1>3, <1>4

LEMMA AppendTable ==
  ASSUME NEW S, NEW n \in Nat, NEW f \in [1 .. n -> S],
         NEW g \in [1 .. n + 1 -> S], \A j \in 1 .. n : g[j] = f[j]
  PROVE  Append(f, g[n + 1]) = g
<1> DEFINE e == g[n + 1]
<1>1. e \in S /\ n + 1 \in Nat /\ 1 .. n + 1 = (1 .. n) \cup {n + 1}
  OBVIOUS
<1>2. f \in Seq(S) /\ g \in Seq(S)
  BY <1>1, SeqDef
<1>3. Len(f) = n /\ Len(g) = n + 1
  BY <1>1, TableLength
<1> HIDE DEF e
<1>4. /\ Append(f, e) \in Seq(S) /\ Len(Append(f, e)) = n + 1
      /\ \A j \in 1 .. n : Append(f, e)[j] = f[j]
      /\ Append(f, e)[n + 1] = e
  BY <1>1, <1>2, <1>3, AppendProperties
<1>5. \A j \in 1 .. n + 1 : Append(f, e)[j] = g[j]
  BY <1>1, <1>4 DEF e
<1>6. Append(f, e) = g
  BY <1>2, <1>3, <1>4, <1>5, SeqEqual
<1> QED BY <1>6 DEF e

(* The recursive function of FlattenSeq() exists.                          *)
LEMMA FlatExists ==
  ASSUME NEW w, NEW N \in Nat
  PROVE  \E f : f = [j \in 1 .. N |-> IF j = 1 THEN w[j] ELSE f[j - 1] \o w[j]]
<1> DEFINE Is(f, n) ==
             f = [j \in 1 .. n |-> IF j = 1 THEN w[j] ELSE f[j - 1] \o w[j]]
           S == {n \in 0 .. N : \E f : Is(f, n)}
<1>1. 0 \in S
  <2> DEFINE g == [j \in 1 .. 0 |-> w[j]]
  <2>1. Is(g, 0)
    <3>1. \A j \in 1 .. 0 : g[j] = IF j = 1 THEN w[j] ELSE g[j - 1] \o w[j]
      OBVIOUS
    <3>2. g = [j \in 1 .. 0 |-> g[j]]
      OBVIOUS
    <3> HIDE DEF g
    <3> QED BY <3>1, <3>2
  <2> HIDE DEF Is, g
  <2> QED BY <2>1
<1>2. ASSUME NEW n \in 0 .. N, n \in S, n < N PROVE n + 1 \in S
  <2>1. PICK f : Is(f, n)
    BY <1>2
  <2> DEFINE g == [j \in 1 .. n + 1 |->
                     IF j = 1 THEN w[j] ELSE f[j - 1] \o w[j]]
  <2>2. \A j \in 1 .. n : g[j] = f[j]
    <3>1. \A j \in 1 .. n :
            f[j] = IF j = 1 THEN w[j] ELSE f[j - 1] \o w[j]
      BY <2>1
    <3>2. \A j \in 1 .. n : j \in 1 .. n + 1
      OBVIOUS
    <3> QED BY <3>1, <3>2
  <2>3. \A j \in 1 .. n + 1 : j # 1 => j - 1 \in 1 .. n
    OBVIOUS
  <2>4. Is(g, n + 1)
    BY <2>2, <2>3
  <2>5. n + 1 \in 0 .. N
    BY <1>2
  <2> QED BY <2>4, <2>5
<1>3. 0 .. N \subseteq S
  <2> HIDE DEF S
  <2> QED BY <1>1, <1>2, Upwards
<1>4. N \in S
  <2> HIDE DEF S
  <2> QED BY <1>3
<1> QED BY <1>4
=============================================================================
