------------------------- MODULE SamplePagingProofs -------------------------
(***************************************************************************)
(* Proofs about listing a database in pages, for lists, pages and numbers  *)
(* of edits of any size: what a listing returns although the list is       *)
(* edited between the calls.                                               *)
(***************************************************************************)
EXTENDS SamplePaging, DatabaseLemmas

-----------------------------------------------------------------------------
(* Removing nodes.  The nodes that are left stand in their old order: e is *)
(* where each of them was.                                                 *)

Thins(e, old, new) ==
  /\ e \in [DOMAIN new -> DOMAIN old]
  /\ \A m, n \in DOMAIN new : m < n => e[m] < e[n]
  /\ \A n \in DOMAIN new : new[n] = old[e[n]]

Leaves(e, new, k) == \E n \in DOMAIN new : e[n] = k

LEMMA SelectAtThins ==
  ASSUME NEW T, NEW s \in Seq(T), NEW K \in SUBSET DOMAIN s
  PROVE  \E e : /\ Thins(e, s, SelectAt(s, K))
                /\ \A k : Leaves(e, SelectAt(s, K), k) <=> k \in K
<1> DEFINE N == Cardinality(K)
           new == SelectAt(s, K)
           e == [n \in 1 .. N |-> Nth(K, n)]
           place == Place(LessOn(K), K)
<1>1. /\ DOMAIN s = 1 .. Len(s) /\ Len(s) \in Nat /\ K \in SUBSET Int
      /\ IsFiniteSet(K) /\ N \in Nat
  <2>1. DOMAIN s = 1 .. Len(s) /\ Len(s) \in Nat
    BY LenProperties
  <2>2. IsFiniteSet(DOMAIN s)
    BY <2>1, FS_Interval
  <2> QED BY <2>1, <2>2, FS_Subset, FS_CardinalityType
<1>2. place \in Bijection(K, 0 .. N - 1)
  BY <1>1, PlaceIsBijection, LessOrders
<1>3. \A k \in K : place[k] = Cardinality({j \in K : j < k})
  <2>1. \A k \in K : Below(LessOn(K), K, k) = {j \in K : j < k}
    BY DEF Below, LessOn
  <2> QED BY <2>1 DEF Place
<1>4. ASSUME NEW n \in 1 .. N
      PROVE  Nth(K, n) \in K /\ place[Nth(K, n)] = n - 1
  <2>1. n - 1 \in 0 .. N - 1
    BY <1>1
  <2>2. \E k \in K : Cardinality({j \in K : j < k}) = n - 1
    BY <1>1, <2>1, IthExists
  <2>3. Nth(K, n) \in K /\ Cardinality({j \in K : j < Nth(K, n)}) = n - 1
    BY <2>2 DEF Nth
  <2> QED BY <2>3, <1>3
<1>5. ASSUME NEW j \in K, NEW k \in K, j < k PROVE place[j] < place[k]
  <2>1. <<j, k>> \in LessOn(K)
    BY <1>5 DEF LessOn
  <2>2. Cardinality(Below(LessOn(K), K, j))
          < Cardinality(Below(LessOn(K), K, k))
    BY <1>1, <2>1, LessOrders, FewerBelow
  <2> QED BY <2>2 DEF Place
<1>6. DOMAIN new = 1 .. N /\ \A n \in 1 .. N : new[n] = s[Nth(K, n)]
  BY DEF SelectAt
<1>7. ASSUME NEW m \in 1 .. N, NEW n \in 1 .. N, m < n PROVE e[m] < e[n]
  <2>1. /\ Nth(K, m) \in K /\ place[Nth(K, m)] = m - 1
        /\ Nth(K, n) \in K /\ place[Nth(K, n)] = n - 1
    BY <1>4
  <2> HIDE DEF place
  <2>2. Nth(K, m) # Nth(K, n)
    BY <1>7, <2>1
  <2>3. ~(Nth(K, n) < Nth(K, m))
    BY <1>5, <1>7, <2>1
  <2>4. Nth(K, m) \in Int /\ Nth(K, n) \in Int
    BY <1>1, <2>1
  <2> QED BY <2>2, <2>3, <2>4
<1>8. Thins(e, s, new)
  <2>1. e \in [DOMAIN new -> DOMAIN s]
    BY <1>4, <1>6
  <2>2. \A n \in DOMAIN new : new[n] = s[e[n]]
    BY <1>6
  <2> HIDE DEF e, new
  <2> QED BY <1>6, <1>7, <2>1, <2>2 DEF Thins
<1>9. ASSUME NEW k, Leaves(e, new, k) PROVE k \in K
  <2>1. PICK n \in DOMAIN new : e[n] = k
    BY <1>9 DEF Leaves
  <2> QED BY <1>4, <1>6, <2>1
<1>10. ASSUME NEW k \in K PROVE Leaves(e, new, k)
  <2>1. place[k] \in 0 .. N - 1
    BY <1>2 DEF Bijection, Injection
  <2>2. place[k] + 1 \in 1 .. N /\ (place[k] + 1) - 1 = place[k]
    BY <1>1, <2>1
  <2> DEFINE n == place[k] + 1
  <2> HIDE DEF place
  <2>3. Nth(K, n) \in K /\ place[Nth(K, n)] = place[k]
    BY <1>4, <2>2
  <2>4. Nth(K, n) = k
    BY <1>2, <2>3 DEF Bijection, Injection, IsInjective
  <2> QED BY <1>6, <2>2, <2>4 DEF Leaves
<1> HIDE DEF e
<1> QED BY <1>8, <1>9, <1>10

LEMMA RemoveNodeThins ==
  ASSUME NEW T, NEW s \in Seq(T), NEW f \in DOMAIN s
  PROVE  \E e : /\ Thins(e, s, RemoveNode(s, f))
                /\ \A k : Leaves(e, RemoveNode(s, f), k)
                           <=> k \in DOMAIN s \ {f}
<1> DEFINE new == RemoveNode(s, f)
           e == [n \in 1 .. Len(s) - 1 |-> IF n < f THEN n ELSE n + 1]
<1>1. DOMAIN s = 1 .. Len(s) /\ Len(s) \in Nat /\ f \in 1 .. Len(s)
  BY LenProperties
<1>2. /\ DOMAIN new = 1 .. Len(s) - 1
      /\ \A n \in 1 .. Len(s) - 1 : new[n] = IF n < f THEN s[n] ELSE s[n + 1]
  BY DEF RemoveNode
<1>3. Thins(e, s, new)
  <2>1. e \in [DOMAIN new -> DOMAIN s]
    BY <1>1, <1>2
  <2>2. \A n \in DOMAIN new : new[n] = s[e[n]]
    BY <1>2
  <2>3. \A m, n \in DOMAIN new : m < n => e[m] < e[n]
    BY <1>1, <1>2
  <2> QED BY <2>1, <2>2, <2>3 DEF Thins
<1>4. ASSUME NEW k \in DOMAIN s \ {f} PROVE Leaves(e, new, k)
  <2>1. CASE k < f
    <3>1. k \in DOMAIN new /\ e[k] = k
      BY <1>1, <1>2, <2>1
    <3> QED BY <3>1 DEF Leaves
  <2>2. CASE k > f
    <3>1. k - 1 \in DOMAIN new /\ e[k - 1] = k
      BY <1>1, <1>2, <2>2
    <3> QED BY <3>1 DEF Leaves
  <2> QED BY <1>1, <2>1, <2>2
<1>5. ASSUME NEW k, Leaves(e, new, k) PROVE k \in DOMAIN s \ {f}
  <2>1. PICK n \in DOMAIN new : e[n] = k
    BY <1>5 DEF Leaves
  <2>2. n \in 1 .. Len(s) - 1 /\ k = IF n < f THEN n ELSE n + 1
    BY <1>2, <2>1
  <2> QED BY <1>1, <2>2
<1> HIDE DEF e
<1> QED BY <1>3, <1>4, <1>5

-----------------------------------------------------------------------------
(* Two items are the same when the code's comparison says so.              *)

LEMMA EqualsIs ==
  ASSUME db \in {"pool4", "client"}, NEW x \in Item, NEW y \in Item
  PROVE  Equals(x, y) <=> x = y
<1>1. CASE db = "pool4"
  <2>1. /\ x \in [mark : Nat, proto : Nat, addr : Nat,
                  min : 0 .. MaxPort, max : 0 .. MaxPort]
        /\ y \in [mark : Nat, proto : Nat, addr : Nat,
                  min : 0 .. MaxPort, max : 0 .. MaxPort]
    BY <1>1, Pool4Assumption DEF Item
  <2>2. pool4_equals(x, y) <=> x = y
    BY <2>1 DEF pool4_equals
  <2> QED BY <1>1, <2>2 DEF Equals
<1>2. CASE db = "client"
  <2>1. x \in ipv6_prefix /\ y \in ipv6_prefix
    BY <1>2, ClientAssumption DEF Item
  <2>2. prefix6_equals(x, y) <=> x = y
    BY <2>1 DEF prefix6_equals, ipv6_prefix
  <2> QED BY <1>2, <2>2 DEF Equals
<1> QED BY <1>1, <1>2

LEMMA NodesAre ==
  ASSUME TypeOK, NEW x \in Item
  PROVE  Nodes(x) = {k \in DOMAIN list : list[k] = x}
<1>1. \A k \in DOMAIN list : list[k] \in Item
  BY LenProperties, ElementOfSeq DEF TypeOK
<1> QED BY <1>1, EqualsIs DEF Nodes, TypeOK

LEMMA LastType ==
  ASSUME NEW T, NEW s \in Seq(T), s # << >>
  PROVE  Last(s) \in T /\ Len(s) \in Nat \ {0} /\ Last(s) = s[Len(s)]
<1>1. Len(s) \in Nat \ {0}
  BY EmptySeq
<1> QED BY <1>1, ElementOfSeq DEF Last

LEMMA DistinctIs ==
  ASSUME db \in {"pool4", "client"}, NEW s \in Seq(Item)
  PROVE  Distinct(s) <=> \A m, n \in DOMAIN s : s[m] = s[n] => m = n
<1>1. \A m \in DOMAIN s : s[m] \in Item
  BY LenProperties, ElementOfSeq
<1> QED BY <1>1, EqualsIs DEF Distinct

-----------------------------------------------------------------------------
(* One call.                                                               *)

LEMMA TakeIs ==
  ASSUME NEW T, seen \in Seq(T), NEW rest \in Seq(T), Take(rest)
  PROVE  \E c \in 0 .. Len(rest) :
           /\ seen' \in Seq(T) /\ Len(seen') = Len(seen) + c
           /\ \A n \in 1 .. Len(seen) : seen'[n] = seen[n]
           /\ \A n \in 1 .. c : seen'[Len(seen) + n] = rest[n]
           /\ \/ status' = "done" /\ c = Len(rest)
              \/ status' = status /\ c > 0
<1>1. Len(rest) \in Nat /\ Len(seen) \in Nat /\ PageSize \in Nat \ {0}
  BY LenProperties, SamplePagingAssumption
<1>2. ASSUME NEW part \in Seq(T), seen' = seen \o part,
             Len(part) \in 0 .. Len(rest),
             \A n \in 1 .. Len(part) : part[n] = rest[n]
      PROVE  /\ seen' \in Seq(T) /\ Len(seen') = Len(seen) + Len(part)
             /\ \A n \in 1 .. Len(seen) : seen'[n] = seen[n]
             /\ \A n \in 1 .. Len(part) : seen'[Len(seen) + n] = rest[n]
  <2>1. /\ seen' \in Seq(T) /\ Len(seen') = Len(seen) + Len(part)
        /\ \A n \in 1 .. Len(seen) + Len(part) : seen'[n] =
             IF n <= Len(seen) THEN seen[n] ELSE part[n - Len(seen)]
    BY <1>2, ConcatProperties
  <2>2. \A n \in 1 .. Len(seen) : seen'[n] = seen[n]
    BY <1>1, <1>2, <2>1
  <2>3. ASSUME NEW n \in 1 .. Len(part)
        PROVE  seen'[Len(seen) + n] = rest[n]
    <3>1. /\ Len(seen) + n \in 1 .. Len(seen) + Len(part)
          /\ ~(Len(seen) + n <= Len(seen)) /\ (Len(seen) + n) - Len(seen) = n
      BY <1>1, <1>2
    <3> QED BY <1>2, <2>1, <3>1
  <2> QED BY <2>1, <2>2, <2>3
<1>3. CASE Len(rest) >= PageSize
  <2> DEFINE part == SubSeq(rest, 1, PageSize)
  <2>1. \A n \in 1 .. PageSize : rest[n] \in T
    BY <1>1, <1>3, ElementOfSeq
  <2>2. /\ part \in Seq(T) /\ Len(part) = PageSize
        /\ \A n \in 1 .. PageSize : part[n] = rest[n]
    <3>1. /\ part \in Seq(T)
          /\ Len(part) = IF 1 <= PageSize THEN PageSize - 1 + 1 ELSE 0
          /\ \A n \in 1 .. PageSize - 1 + 1 : part[n] = rest[1 + n - 1]
      BY <1>1, <2>1, SubSeqProperties
    <3> QED BY <1>1, <3>1
  <2>3. seen' = seen \o part /\ status' = status
    BY <1>3 DEF Take
  <2> HIDE DEF part
  <2>4. Len(part) \in 0 .. Len(rest) /\ Len(part) > 0
    BY <1>1, <1>3, <2>2
  <2> QED BY <1>2, <2>2, <2>3, <2>4
<1>4. CASE ~(Len(rest) >= PageSize)
  <2>1. seen' = seen \o rest /\ status' = "done"
    BY <1>4 DEF Take
  <2>2. Len(rest) \in 0 .. Len(rest)
    BY <1>1
  <2> QED BY <1>2, <2>1, <2>2
<1> QED BY <1>3, <1>4

(* Where a call goes on: after the first node that equals the last item    *)
(* seen, or with the first node of all.                                    *)
Anchor == IF seen = << >> THEN 0 ELSE First(Nodes(Last(seen)))

LEMMA AnchorIs ==
  ASSUME TypeOK, seen # << >>, Nodes(Last(seen)) # {}
  PROVE  /\ Anchor \in DOMAIN list /\ list[Anchor] = Last(seen)
         /\ \A n \in DOMAIN list : list[n] = Last(seen) => Anchor <= n
<1>1. Last(seen) \in Item
  BY LastType DEF TypeOK
<1>2. Nodes(Last(seen)) = {k \in DOMAIN list : list[k] = Last(seen)}
  BY <1>1, NodesAre
<1>3. /\ Anchor \in Nodes(Last(seen))
      /\ \A n \in Nodes(Last(seen)) : Anchor <= n
  BY <1>2, FirstIsLeast DEF Anchor, TypeOK
<1> QED BY <1>2, <1>3

(* A call that does not fail takes the items after the anchor, all of them *)
(* when it is the last.                                                    *)
Takes(c) ==
  /\ Anchor + c <= Len(list)
  /\ Len(seen') = Len(seen) + c
  /\ \A n \in 1 .. Len(seen) : seen'[n] = seen[n]
  /\ \A n \in 1 .. c : seen'[Len(seen) + n] = list[Anchor + n]
  /\ \/ status' = "done" /\ Anchor + c = Len(list)
     \/ status' = "listing" /\ c > 0

LEMMA CallTakes ==
  ASSUME TypeOK, foreach_sample, status' # "esrch"
  PROVE  /\ seen' \in Seq(Item)
         /\ Anchor \in 0 .. Len(list)
         /\ seen # << >> => Nodes(Last(seen)) # {}
         /\ \E c \in Nat : Takes(c)
<1>1. /\ list \in Seq(Item) /\ seen \in Seq(Item)
      /\ Len(list) \in Nat /\ Len(seen) \in Nat /\ status = "listing"
      /\ DOMAIN list = 1 .. Len(list)
  BY LenProperties DEF TypeOK, foreach_sample
<1>2. CASE seen = << >>
  <2>1. Take(list) /\ Anchor = 0
    BY <1>2 DEF foreach_sample, Anchor
  <2>2. PICK c \in 0 .. Len(list) :
           /\ seen' \in Seq(Item) /\ Len(seen') = Len(seen) + c
           /\ \A n \in 1 .. Len(seen) : seen'[n] = seen[n]
           /\ \A n \in 1 .. c : seen'[Len(seen) + n] = list[n]
           /\ \/ status' = "done" /\ c = Len(list)
              \/ status' = status /\ c > 0
    BY <1>1, <2>1, TakeIs
  <2>3. \A n \in 1 .. c : 0 + n = n
    OBVIOUS
  <2>4. /\ c \in Nat /\ Anchor + c <= Len(list)
        /\ \A n \in 1 .. c : seen'[Len(seen) + n] = list[Anchor + n]
        /\ \/ status' = "done" /\ Anchor + c = Len(list)
           \/ status' = "listing" /\ c > 0
    <3>1. c \in Nat /\ c <= Len(list) /\ Anchor + c = c
      BY <1>1, <2>1
    <3>2. \A n \in 1 .. c : Anchor + n = n
      BY <2>1, <2>3
    <3>3. \A n \in 1 .. c : seen'[Len(seen) + n] = list[Anchor + n]
      BY <2>2, <3>2
    <3>4. \/ status' = "done" /\ Anchor + c = Len(list)
          \/ status' = "listing" /\ c > 0
      BY <1>1, <2>2, <3>1
    <3> QED BY <3>1, <3>3, <3>4
  <2>5. Takes(c)
    BY <2>2, <2>4 DEF Takes
  <2>6. \E n \in Nat : Takes(n)
    BY <2>5
  <2>7. 0 \in 0 .. Len(list)
    BY <1>1
  <2> QED BY <1>2, <2>1, <2>2, <2>6, <2>7
<1>3. CASE seen # << >>
  <2> DEFINE rest == After(Last(seen))
             p == Anchor
  <2>1. Nodes(Last(seen)) # {} /\ Take(rest)
    BY <1>3 DEF foreach_sample, Found
  <2>2. p \in 1 .. Len(list)
    BY <1>1, <1>3, <2>1, AnchorIs
  <2> HIDE DEF p
  <2>3. \A n \in p + 1 .. Len(list) : list[n] \in Item
    BY <1>1, <2>2, ElementOfSeq
  <2>4. /\ rest \in Seq(Item)
        /\ Len(rest) = Len(list) - p
        /\ \A n \in 1 .. Len(list) - p : rest[n] = list[p + n]
    <3>1. p + 1 \in Int /\ Len(list) \in Int
      BY <1>1, <2>2
    <3>2. /\ rest \in Seq(Item)
          /\ Len(rest) = IF p + 1 <= Len(list) THEN Len(list) - (p + 1) + 1
                         ELSE 0
          /\ \A n \in 1 .. Len(list) - (p + 1) + 1 :
               rest[n] = list[(p + 1) + n - 1]
      <4>1. rest = SubSeq(list, p + 1, Len(list))
        BY <1>3 DEF After, Anchor, p
      <4> HIDE DEF rest
      <4> QED BY <2>3, <3>1, <4>1, SubSeqProperties
    <3>3. \A n \in 1 .. Len(list) - p : (p + 1) + n - 1 = p + n
      BY <1>1, <2>2
    <3> HIDE DEF rest
    <3>4. Len(list) - (p + 1) + 1 = Len(list) - p
      BY <1>1, <2>2
    <3>5. Len(rest) = IF p + 1 <= Len(list) THEN Len(list) - (p + 1) + 1
                      ELSE 0
      BY <3>2
    <3>6. Len(rest) = Len(list) - p
      <4>1. \A m \in Nat : \A q \in 1 .. m :
              (IF q + 1 <= m THEN m - (q + 1) + 1 ELSE 0) = m - q
        OBVIOUS
      <4>2. Len(list) \in Nat
        BY <1>1
      <4> QED BY <2>2, <3>5, <4>1, <4>2
    <3> QED BY <3>2, <3>3, <3>4, <3>6
  <2> HIDE DEF rest
  <2>5. PICK c \in 0 .. Len(rest) :
           /\ seen' \in Seq(Item) /\ Len(seen') = Len(seen) + c
           /\ \A n \in 1 .. Len(seen) : seen'[n] = seen[n]
           /\ \A n \in 1 .. c : seen'[Len(seen) + n] = rest[n]
           /\ \/ status' = "done" /\ c = Len(rest)
              \/ status' = status /\ c > 0
    BY <1>1, <2>1, <2>4, TakeIs
  <2>6. /\ c \in Nat /\ p + c <= Len(list) /\ p \in 0 .. Len(list)
        /\ 1 .. c \subseteq 1 .. Len(list) - p
        /\ c = Len(rest) => p + c = Len(list)
    <3>1. Len(rest) = Len(list) - p
      BY <2>4
    <3>2. c \in Nat /\ c <= Len(list) - p /\ p \in Nat /\ Len(list) \in Nat
      BY <1>1, <2>2, <3>1
    <3>3. 1 .. c \subseteq 1 .. Len(list) - p
      BY <3>2
    <3>4. p + c <= Len(list) /\ p \in 0 .. Len(list)
      BY <3>2
    <3> QED BY <3>1, <3>2, <3>3, <3>4
  <2>7. \A n \in 1 .. c : seen'[Len(seen) + n] = list[p + n]
    BY <2>4, <2>5, <2>6
  <2>8. Takes(c)
    BY <1>1, <2>5, <2>6, <2>7 DEF Takes, p
  <2>9. \E n \in Nat : Takes(n)
    BY <2>8
  <2> QED BY <2>1, <2>5, <2>6, <2>9 DEF p
<1> QED BY <1>2, <1>3

-----------------------------------------------------------------------------
(* Removals: what is left, and in which order.                             *)

(* A removal leaves every other item; of the nodes that equal the removed  *)
(* item pool4_rm() leaves none and client_delete() all but the first.      *)
LEMMA DeleteThins ==
  ASSUME TypeOK, NEW x \in Item, Delete(x)
  PROVE  /\ list' \in Seq(Item)
         /\ \E e : /\ Thins(e, list, list')
                   /\ \A k \in DOMAIN list :
                        list[k] # x => Leaves(e, list', k)
                   /\ \A j, k \in DOMAIN list :
                        /\ list[j] = x /\ list[k] = x
                        /\ ~Leaves(e, list', j) /\ Leaves(e, list', k)
                        => j < k
<1>1. list \in Seq(Item) /\ db \in {"pool4", "client"}
  BY DEF TypeOK
<1>2. DOMAIN list = 1 .. Len(list) /\ Len(list) \in Nat
  BY <1>1, LenProperties
<1>3. \A k \in DOMAIN list : list[k] \in Item
  BY <1>1, <1>2, ElementOfSeq
<1>4. CASE db = "pool4"
  <2> DEFINE K == {k \in DOMAIN list : ~pool4_equals(x, list[k])}
  <2>1. list' = SelectAt(list, K)
    BY <1>4 DEF Delete, Edit, pool4_rm
  <2>2. \A k \in DOMAIN list : k \in K <=> list[k] # x
    BY <1>1, <1>3, <1>4, EqualsIs DEF Equals
  <2>3. K \in SUBSET DOMAIN list
    OBVIOUS
  <2> HIDE DEF K
  <2>4. list' \in Seq(Item)
    BY <1>1, <2>1, <2>3, SelectAtType
  <2>5. PICK e : /\ Thins(e, list, list')
                 /\ \A k : Leaves(e, list', k) <=> k \in K
    BY <1>1, <2>1, <2>3, SelectAtThins
  <2> QED BY <2>2, <2>4, <2>5
<1>5. CASE db = "client"
  <2> DEFINE K == Matching(list, x)
  <2>1. list' = client_delete(list, x)
    BY <1>5 DEF Delete, Edit
  <2>2. \A k \in DOMAIN list : k \in K <=> list[k] = x
    BY <1>1, <1>3, <1>5, EqualsIs DEF Equals, Matching
  <2>3. K \in SUBSET DOMAIN list
    BY DEF Matching
  <2>4. CASE K = {}
    <3>1. list' = list
      BY <2>1, <2>4 DEF client_delete
    <3> DEFINE e == [n \in DOMAIN list |-> n]
    <3>2. Thins(e, list, list') /\ \A k \in DOMAIN list : Leaves(e, list', k)
      BY <1>2, <3>1 DEF Thins, Leaves
    <3> HIDE DEF e
    <3> QED BY <1>1, <3>1, <3>2
  <2>5. CASE K # {}
    <3> DEFINE f == First(K)
    <3>1. list' = RemoveNode(list, f)
      BY <2>1, <2>5 DEF client_delete
    <3>2. f \in K /\ \A k \in K : f <= k
      BY <1>1, <2>3, <2>5, FirstIsLeast
    <3> HIDE DEF f, K
    <3>3. f \in DOMAIN list
      BY <2>3, <3>2
    <3>4. list' \in Seq(Item)
      BY <1>1, <3>1, <3>3, RemoveNodeType
    <3>5. PICK e : /\ Thins(e, list, list')
                   /\ \A k : Leaves(e, list', k) <=> k \in DOMAIN list \ {f}
      BY <1>1, <3>1, <3>3, RemoveNodeThins
    <3>6. ASSUME NEW i \in DOMAIN list, NEW k \in DOMAIN list,
                 list[i] = x, list[k] = x,
                 ~Leaves(e, list', i), Leaves(e, list', k)
          PROVE  i < k
      <4>1. i = f /\ k # f /\ f <= k
        BY <2>2, <3>2, <3>5, <3>6
      <4> QED BY <1>2, <4>1
    <3>7. \A k \in DOMAIN list : list[k] # x => Leaves(e, list', k)
      BY <2>2, <3>2, <3>5
    <3> QED BY <3>4, <3>5, <3>6, <3>7
  <2> QED BY <2>4, <2>5
<1> QED BY <1>1, <1>4, <1>5

-----------------------------------------------------------------------------
(* The inductive invariant.                                                *)

(* What was in the list all the time is in it now.                         *)
KeptListed == kept \subseteq ToSet(list)

DistinctNow ==
  distinct => \A m, n \in DOMAIN list : list[m] = list[n] => m = n

(* While the item the next call passes is in the list, every kept item was *)
(* seen or stands after it.                                                *)
NoneBehind ==
  status = "listing" /\ anchored /\ seen # << >> =>
    /\ Last(seen) \in ToSet(list)
    /\ \A x \in kept : x \notin ToSet(seen) =>
         \E p, n \in DOMAIN list :
           p < n /\ list[p] = Last(seen) /\ list[n] = x

(* In a list without repetitions no kept item that was seen stands after   *)
(* the one the next call passes.                                           *)
NoneAhead ==
  status = "listing" /\ distinct /\ seen # << >> =>
    \A p, n \in DOMAIN list :
      list[p] = Last(seen) /\ list[n] \in kept /\ list[n] \in ToSet(seen)
      => n <= p

MissInv == KeptListed /\ NoneBehind /\ NothingMissed /\ EsrchMeansRemoved

RepeatInv == KeptListed /\ DistinctNow /\ NoneAhead /\ NothingRepeated

IInv == TypeOK /\ MissInv /\ RepeatInv

LEMMA ListType ==
  ASSUME NEW T, NEW l \in BoundedSeq(T, MaxEntries)
  PROVE  l \in Seq(T)
<1>1. PICK m \in 0 .. MaxEntries : l \in [1 .. m -> T]
  BY DEF BoundedSeq, SeqOf
<1>2. m \in Nat
  BY <1>1, SamplePagingAssumption
<1> QED BY <1>1, <1>2, SeqDef

LEMMA InvInit == Init => IInv
<1> SUFFICES ASSUME Init PROVE IInv
  OBVIOUS
<1>1. list \in Seq(Item) /\ db \in {"pool4", "client"}
  BY ListType DEF Init
<1>2. DOMAIN list = 1 .. Len(list) /\ \A n \in DOMAIN list : list[n] \in Item
  BY <1>1, LenProperties, ElementOfSeq
<1>3. distinct \in BOOLEAN
  BY DEF Init, Distinct
<1>4. TypeOK
  BY <1>1, <1>2, <1>3, EmptySeq, SamplePagingAssumption
  DEF Init, TypeOK, ToSet
<1>5. MissInv
  BY DEF Init, MissInv, KeptListed, NoneBehind, NothingMissed,
     EsrchMeansRemoved
<1>6. DistinctNow
  BY <1>1, DistinctIs DEF Init, DistinctNow
<1>7. RepeatInv
  BY <1>6 DEF Init, RepeatInv, KeptListed, NoneAhead, NothingRepeated
<1> QED BY <1>4, <1>5, <1>7 DEF IInv

(* The list after an addition, and what an edit leaves alone.              *)
LEMMA AddIs ==
  ASSUME TypeOK, NEW x \in Item, Add(x)
  PROVE  /\ list' = Append(list, x) /\ list' \in Seq(Item)
         /\ DOMAIN list = 1 .. Len(list) /\ Len(list) \in Nat
         /\ DOMAIN list' = 1 .. Len(list) + 1
         /\ \A n \in DOMAIN list : list'[n] = list[n] /\ n \in DOMAIN list'
         /\ list'[Len(list) + 1] = x
         /\ anchored' = anchored
<1>1. list \in Seq(Item)
  BY DEF TypeOK
<1>2. list' = Append(list, x) /\ anchored' = anchored
  BY DEF Add, Edit, pool4_add, client_add
<1>3. DOMAIN list = 1 .. Len(list) /\ Len(list) \in Nat
  BY <1>1, LenProperties
<1>4. /\ list' \in Seq(Item) /\ Len(list') = Len(list) + 1
      /\ \A n \in 1 .. Len(list) : list'[n] = list[n]
      /\ list'[Len(list) + 1] = x
  BY <1>1, <1>2, AppendProperties
<1>5. DOMAIN list' = 1 .. Len(list) + 1
  BY <1>4, LenProperties
<1> QED BY <1>2, <1>3, <1>4, <1>5

LEMMA EditIs ==
  ASSUME TypeOK, NEW x \in Item, Add(x) \/ Delete(x)
  PROVE  /\ list' \in Seq(Item) /\ status = "listing"
         /\ UNCHANGED <<db, seen, status>> /\ edits' \in 0 .. MaxEdits
         /\ kept' = kept \cap ToSet(list')
         /\ distinct' = (distinct /\ Distinct(list'))
         /\ anchored' \in BOOLEAN
<1>1. list' \in Seq(Item)
  BY AddIs, DeleteThins
<1>2. PICK new : Edit(new)
  BY DEF Add, Delete
<1>3. edits' \in 0 .. MaxEdits
  BY <1>2, SamplePagingAssumption DEF Edit, TypeOK
<1>4. anchored' \in BOOLEAN
  BY DEF Add, Delete, TypeOK
<1> QED BY <1>1, <1>2, <1>3, <1>4 DEF Edit

LEMMA TypeStep == TypeOK /\ [Next]_vars => TypeOK'
<1> SUFFICES ASSUME TypeOK, [Next]_vars PROVE TypeOK'
  OBVIOUS
<1>1. CASE UNCHANGED vars
  BY <1>1 DEF vars, TypeOK, Item
<1>2. ASSUME foreach_sample PROVE TypeOK'
  <2>1. UNCHANGED <<db, list, edits, kept, distinct, anchored>>
    BY <1>2 DEF foreach_sample
  <2>2. CASE status' = "esrch"
    <3>1. seen' = seen
      BY <1>2, <2>2 DEF foreach_sample, Take, TypeOK
    <3> QED BY <2>1, <2>2, <3>1 DEF TypeOK, Item
  <2>3. CASE status' # "esrch"
    <3>1. seen' \in Seq(Item)
      BY <1>2, <2>3, CallTakes
    <3>2. status' \in {"listing", "done"}
      BY <1>2, <2>3, CallTakes DEF Takes
    <3> QED BY <2>1, <3>1, <3>2 DEF TypeOK, Item
  <2> QED BY <2>2, <2>3
<1>3. ASSUME NEW x \in Item, Add(x) \/ Delete(x) PROVE TypeOK'
  <2>1. /\ list' \in Seq(Item)
        /\ UNCHANGED <<db, seen, status>> /\ edits' \in 0 .. MaxEdits
        /\ kept' = kept \cap ToSet(list')
        /\ distinct' = (distinct /\ Distinct(list'))
        /\ anchored' \in BOOLEAN
    BY <1>3, EditIs
  <2>2. distinct' \in BOOLEAN
    BY <2>1 DEF TypeOK
  <2> QED BY <2>1, <2>2 DEF TypeOK, Item
<1> QED BY <1>1, <1>2, <1>3 DEF Next

(* What a call adds to the items seen, and where the next one goes on.     *)
LEMMA SeenGrows ==
  ASSUME TypeOK, foreach_sample, status' # "esrch", NEW c \in Nat, Takes(c)
  PROVE  /\ DOMAIN list = 1 .. Len(list) /\ Len(list) \in Nat
         /\ Anchor \in Nat
         /\ seen # << >> => Anchor \in DOMAIN list /\ list[Anchor] = Last(seen)
         /\ DOMAIN seen = 1 .. Len(seen) /\ Len(seen) \in Nat
         /\ DOMAIN seen' = 1 .. Len(seen) + c
         /\ ToSet(seen) \subseteq ToSet(seen')
         /\ \A n \in 1 .. c : list[Anchor + n] \in ToSet(seen')
         /\ ToSet(seen') \subseteq
              ToSet(seen) \cup {list[Anchor + n] : n \in 1 .. c}
         /\ c > 0 => Last(seen') = list[Anchor + c]
<1>1. /\ DOMAIN list = 1 .. Len(list) /\ Len(list) \in Nat
      /\ DOMAIN seen = 1 .. Len(seen) /\ Len(seen) \in Nat
  BY LenProperties DEF TypeOK
<1>2. Anchor \in Nat
  <2>1. Anchor \in 0 .. Len(list)
    BY CallTakes
  <2> QED BY <1>1, <2>1
<1>3. seen # << >> => Anchor \in DOMAIN list /\ list[Anchor] = Last(seen)
  BY CallTakes, AnchorIs
<1>4. /\ Len(seen') = Len(seen) + c
      /\ \A n \in 1 .. Len(seen) : seen'[n] = seen[n]
      /\ \A n \in 1 .. c : seen'[Len(seen) + n] = list[Anchor + n]
  BY DEF Takes
<1>5. DOMAIN seen' = 1 .. Len(seen) + c
  <2>1. seen' \in Seq(Item)
    BY CallTakes
  <2> QED BY <1>4, <2>1, LenProperties
<1>6. /\ \A n \in 1 .. Len(seen) : n \in 1 .. Len(seen) + c
      /\ \A n \in 1 .. c : Len(seen) + n \in 1 .. Len(seen) + c
  BY <1>1
<1>7. ToSet(seen) \subseteq ToSet(seen')
  BY <1>1, <1>4, <1>5, <1>6 DEF ToSet
<1>8. \A n \in 1 .. c : list[Anchor + n] \in ToSet(seen')
  BY <1>4, <1>5, <1>6 DEF ToSet
<1>9. ASSUME NEW j \in DOMAIN seen'
      PROVE  seen'[j] \in ToSet(seen) \cup {list[Anchor + n] : n \in 1 .. c}
  <2>1. CASE j \in 1 .. Len(seen)
    BY <1>1, <1>4, <2>1 DEF ToSet
  <2>2. CASE j \notin 1 .. Len(seen)
    <3>1. j - Len(seen) \in 1 .. c /\ Len(seen) + (j - Len(seen)) = j
      BY <1>1, <1>5, <2>2
    <3> QED BY <1>4, <3>1
  <2> QED BY <2>1, <2>2
<1>10. ASSUME c > 0 PROVE Last(seen') = list[Anchor + c]
  <2>1. c \in 1 .. c
    BY <1>10
  <2> QED BY <1>4, <2>1 DEF Last
<1>11. ToSet(seen') \subseteq
         ToSet(seen) \cup {list[Anchor + n] : n \in 1 .. c}
  BY <1>9 DEF ToSet
<1> QED BY <1>1, <1>2, <1>3, <1>5, <1>7, <1>8, <1>10, <1>11

(* A call leaves the listing without an item only if it failed.            *)
LEMMA FailsWhenMissing ==
  ASSUME TypeOK, foreach_sample, status' = "esrch"
  PROVE  /\ seen' = seen /\ seen # << >> /\ Last(seen) \notin ToSet(list)
         /\ UNCHANGED <<list, kept, distinct, anchored>>
<1>1. seen # << >> /\ ~Found(Last(seen)) /\ seen' = seen
  BY DEF foreach_sample, Take, TypeOK
<1>2. Last(seen) \in Item
  BY <1>1, LastType DEF TypeOK
<1>3. \A k \in DOMAIN list : list[k] # Last(seen)
  BY <1>1, <1>2, NodesAre DEF Found
<1> QED BY <1>1, <1>3 DEF foreach_sample, ToSet

-----------------------------------------------------------------------------
(* No item is missed.                                                      *)

LEMMA MissCall ==
  ASSUME TypeOK, MissInv, foreach_sample
  PROVE  MissInv'
<1>1. UNCHANGED <<list, kept, distinct, anchored>> /\ status = "listing"
  BY DEF foreach_sample
<1>2. CASE status' = "esrch"
  <2>1. seen' = seen /\ seen # << >> /\ Last(seen) \notin ToSet(list)
    BY <1>2, FailsWhenMissing
  <2> QED BY <1>1, <1>2, <2>1
      DEF MissInv, KeptListed, NoneBehind, NothingMissed, EsrchMeansRemoved
<1>3. CASE status' # "esrch"
  <2>1. PICK c \in Nat : Takes(c)
    BY <1>3, CallTakes
  <2>2. /\ DOMAIN list = 1 .. Len(list) /\ Len(list) \in Nat
        /\ Anchor \in Nat
        /\ ToSet(seen) \subseteq ToSet(seen')
        /\ \A n \in 1 .. c : list[Anchor + n] \in ToSet(seen')
        /\ c > 0 => Last(seen') = list[Anchor + c]
    BY <1>3, <2>1, SeenGrows
  <2>3. /\ Anchor + c <= Len(list)
        /\ \/ status' = "done" /\ Anchor + c = Len(list)
           \/ status' = "listing" /\ c > 0
    BY <2>1 DEF Takes
  <2>4. ASSUME anchored, NEW x \in kept, x \notin ToSet(seen')
        PROVE  \E n \in DOMAIN list : list[n] = x /\ Anchor + c < n
    <3>1. x \notin ToSet(seen)
      BY <2>2, <2>4
    <3>2. \E n \in DOMAIN list : list[n] = x /\ Anchor < n
      <4>1. CASE seen = << >>
        <5>1. Anchor = 0
          BY <4>1 DEF Anchor
        <5>2. PICK n \in DOMAIN list : list[n] = x
          BY <2>4 DEF MissInv, KeptListed, ToSet
        <5> QED BY <2>2, <5>1, <5>2
      <4>2. CASE seen # << >>
        <5>1. PICK p \in DOMAIN list, n \in DOMAIN list :
                 p < n /\ list[p] = Last(seen) /\ list[n] = x
          BY <1>1, <2>4, <3>1, <4>2 DEF MissInv, NoneBehind
        <5>2. Anchor <= p
          BY <1>3, <4>2, <5>1, CallTakes, AnchorIs
        <5> QED BY <2>2, <5>1, <5>2
      <4> QED BY <4>1, <4>2
    <3>3. PICK n \in DOMAIN list : list[n] = x /\ Anchor < n
      BY <3>2
    <3>4. CASE n <= Anchor + c
      <4>1. n - Anchor \in 1 .. c /\ Anchor + (n - Anchor) = n
        BY <2>2, <3>3, <3>4
      <4> QED BY <2>2, <2>4, <3>3, <4>1
    <3> QED BY <2>2, <3>3, <3>4
  <2>5. NoneBehind'
    <3> SUFFICES ASSUME status' = "listing", anchored
                 PROVE  /\ Last(seen') \in ToSet(list)
                        /\ \A x \in kept : x \notin ToSet(seen') =>
                             \E p, n \in DOMAIN list :
                               p < n /\ list[p] = Last(seen') /\ list[n] = x
      BY <1>1 DEF NoneBehind
    <3>1. Anchor + c \in DOMAIN list /\ list[Anchor + c] = Last(seen')
      BY <2>2, <2>3
    <3> QED BY <2>4, <3>1 DEF ToSet
  <2>6. NothingMissed'
    <3> SUFFICES ASSUME status' = "done", anchored,
                        NEW x \in kept, x \notin ToSet(seen')
                 PROVE  FALSE
      BY <1>1 DEF NothingMissed
    <3>1. PICK n \in DOMAIN list : list[n] = x /\ Anchor + c < n
      BY <2>4
    <3> QED BY <2>2, <2>3, <3>1
  <2> QED BY <1>1, <1>3, <2>5, <2>6
      DEF MissInv, KeptListed, EsrchMeansRemoved
<1> QED BY <1>2, <1>3

LEMMA MissAdd ==
  ASSUME TypeOK, MissInv, NEW x \in Item, Add(x)
  PROVE  MissInv'
<1>1. /\ status = "listing" /\ UNCHANGED <<seen, status>>
      /\ kept' = kept \cap ToSet(list')
  BY EditIs
<1>2. /\ DOMAIN list = 1 .. Len(list)
      /\ \A n \in DOMAIN list : list'[n] = list[n] /\ n \in DOMAIN list'
      /\ anchored' = anchored
  BY AddIs
<1>3. NoneBehind'
  <2> SUFFICES ASSUME anchored, seen # << >>
               PROVE  /\ Last(seen) \in ToSet(list')
                      /\ \A y \in kept' : y \notin ToSet(seen) =>
                           \E p, n \in DOMAIN list' :
                             p < n /\ list'[p] = Last(seen) /\ list'[n] = y
    BY <1>1, <1>2 DEF NoneBehind
  <2>1. Last(seen) \in ToSet(list')
    BY <1>1, <1>2 DEF MissInv, NoneBehind, ToSet
  <2>2. ASSUME NEW y \in kept', y \notin ToSet(seen)
        PROVE  \E p, n \in DOMAIN list' :
                 p < n /\ list'[p] = Last(seen) /\ list'[n] = y
    <3>1. PICK p \in DOMAIN list, n \in DOMAIN list :
             p < n /\ list[p] = Last(seen) /\ list[n] = y
      BY <1>1, <2>2 DEF MissInv, NoneBehind
    <3> QED BY <1>2, <3>1
  <2> QED BY <2>1, <2>2
<1> QED BY <1>1, <1>3
    DEF MissInv, KeptListed, NothingMissed, EsrchMeansRemoved

LEMMA MissDelete ==
  ASSUME TypeOK, MissInv, NEW x \in Item, Delete(x)
  PROVE  MissInv'
<1>1. /\ status = "listing" /\ UNCHANGED <<seen, status>>
      /\ kept' = kept \cap ToSet(list')
  BY EditIs
<1>2. PICK e : /\ Thins(e, list, list')
               /\ \A k \in DOMAIN list : list[k] # x => Leaves(e, list', k)
               /\ \A j, k \in DOMAIN list :
                    /\ list[j] = x /\ list[k] = x
                    /\ ~Leaves(e, list', j) /\ Leaves(e, list', k)
                    => j < k
  BY DeleteThins
<1>3. /\ DOMAIN list = 1 .. Len(list) /\ Len(list) \in Nat
      /\ DOMAIN list' = 1 .. Len(list') /\ Len(list') \in Nat
  BY EditIs, LenProperties DEF TypeOK
<1>4. ASSUME NEW p \in DOMAIN list', NEW n \in DOMAIN list', e[p] < e[n]
      PROVE  p < n
  <2>1. e[p] \in DOMAIN list /\ e[n] \in DOMAIN list
    BY <1>2 DEF Thins
  <2>2. ~(n < p) /\ n # p
    BY <1>2, <1>3, <1>4, <2>1 DEF Thins
  <2> QED BY <1>3, <2>2
<1>5. NoneBehind'
  <2> SUFFICES ASSUME anchored', seen # << >>
               PROVE  /\ Last(seen) \in ToSet(list')
                      /\ \A y \in kept' : y \notin ToSet(seen) =>
                           \E p, n \in DOMAIN list' :
                             p < n /\ list'[p] = Last(seen) /\ list'[n] = y
    BY <1>1 DEF NoneBehind
  <2>1. anchored /\ Last(seen) # x
    BY DEF Delete
  <2>2. ASSUME NEW k \in DOMAIN list, list[k] = Last(seen)
        PROVE  \E p \in DOMAIN list' : e[p] = k /\ list'[p] = Last(seen)
    <3>1. PICK p \in DOMAIN list' : e[p] = k
      BY <1>2, <2>1, <2>2 DEF Leaves
    <3> QED BY <1>2, <2>2, <3>1 DEF Thins
  <2>3. Last(seen) \in ToSet(list')
    <3>1. PICK k \in DOMAIN list : list[k] = Last(seen)
      BY <1>1, <2>1 DEF MissInv, NoneBehind, ToSet
    <3>2. PICK p \in DOMAIN list' : list'[p] = Last(seen)
      BY <2>2, <3>1
    <3> QED BY <3>2 DEF ToSet
  <2>4. ASSUME NEW y \in kept', y \notin ToSet(seen)
        PROVE  \E p, n \in DOMAIN list' :
                 p < n /\ list'[p] = Last(seen) /\ list'[n] = y
    <3>1. PICK i \in DOMAIN list, k \in DOMAIN list :
             i < k /\ list[i] = Last(seen) /\ list[k] = y
      BY <1>1, <2>1, <2>4 DEF MissInv, NoneBehind
    <3>2. PICK p \in DOMAIN list' : e[p] = i /\ list'[p] = Last(seen)
      BY <2>2, <3>1
    <3>3. \E n \in DOMAIN list' : i < e[n] /\ list'[n] = y
      <4>1. CASE Leaves(e, list', k)
        <5>1. PICK n \in DOMAIN list' : e[n] = k
          BY <4>1 DEF Leaves
        <5> QED BY <1>2, <3>1, <5>1 DEF Thins
      <4>2. CASE ~Leaves(e, list', k)
        <5>1. y = x
          BY <1>2, <3>1, <4>2
        <5>2. PICK n \in DOMAIN list' : list'[n] = y
          BY <1>1 DEF ToSet
        <5>3. e[n] \in DOMAIN list /\ list[e[n]] = y /\ Leaves(e, list', e[n])
          BY <1>2, <5>2 DEF Thins, Leaves
        <5>4. k < e[n]
          BY <1>2, <3>1, <4>2, <5>1, <5>3
        <5>5. i < e[n]
          BY <1>3, <3>1, <5>3, <5>4
        <5> QED BY <5>2, <5>5
      <4> QED BY <4>1, <4>2
    <3>4. PICK n \in DOMAIN list' : i < e[n] /\ list'[n] = y
      BY <3>3
    <3>5. p < n
      BY <1>4, <3>2, <3>4
    <3> QED BY <3>2, <3>4, <3>5
  <2> QED BY <2>3, <2>4
<1> QED BY <1>1, <1>5
    DEF MissInv, KeptListed, NothingMissed, EsrchMeansRemoved

LEMMA MissStep == TypeOK /\ MissInv /\ [Next]_vars => MissInv'
<1> SUFFICES ASSUME TypeOK, MissInv, [Next]_vars PROVE MissInv'
  OBVIOUS
<1>1. CASE UNCHANGED vars
  BY <1>1 DEF vars, MissInv, KeptListed, NoneBehind, NothingMissed,
     EsrchMeansRemoved
<1>2. ASSUME foreach_sample PROVE MissInv'
  BY <1>2, MissCall
<1>3. ASSUME NEW x \in Item, Add(x) \/ Delete(x) PROVE MissInv'
  BY <1>3, MissAdd, MissDelete
<1> QED BY <1>1, <1>2, <1>3 DEF Next

-----------------------------------------------------------------------------
(* No item is handed out twice.                                            *)

LEMMA RepeatCall ==
  ASSUME TypeOK, RepeatInv, foreach_sample
  PROVE  RepeatInv'
<1>1. UNCHANGED <<list, kept, distinct, anchored>> /\ status = "listing"
  BY DEF foreach_sample
<1>2. CASE status' = "esrch"
  <2>1. seen' = seen
    BY <1>2, FailsWhenMissing
  <2> QED BY <1>1, <1>2, <2>1
      DEF RepeatInv, KeptListed, DistinctNow, NoneAhead, NothingRepeated
<1>3. CASE status' # "esrch"
  <2>1. PICK c \in Nat : Takes(c)
    BY <1>3, CallTakes
  <2>2. /\ DOMAIN list = 1 .. Len(list) /\ Len(list) \in Nat
        /\ Anchor \in Nat
        /\ seen # << >> => Anchor \in DOMAIN list /\ list[Anchor] = Last(seen)
        /\ DOMAIN seen = 1 .. Len(seen) /\ Len(seen) \in Nat
        /\ DOMAIN seen' = 1 .. Len(seen) + c
        /\ ToSet(seen') \subseteq
             ToSet(seen) \cup {list[Anchor + n] : n \in 1 .. c}
        /\ c > 0 => Last(seen') = list[Anchor + c]
    BY <1>3, <2>1, SeenGrows
  <2>3. /\ Anchor + c <= Len(list)
        /\ \A n \in 1 .. Len(seen) : seen'[n] = seen[n]
        /\ \A n \in 1 .. c : seen'[Len(seen) + n] = list[Anchor + n]
        /\ status' = "listing" => c > 0
    BY <2>1 DEF Takes
  <2>4. \A n \in 1 .. c : Anchor + n \in DOMAIN list /\ Anchor + n <= Anchor + c
    BY <2>2, <2>3
  <2>5. ASSUME distinct, NEW n \in DOMAIN list,
               list[n] \in kept, list[n] \in ToSet(seen)
        PROVE  n <= Anchor
    <3>1. seen # << >>
      BY <2>2, <2>5, EmptySeq DEF ToSet
    <3> QED BY <1>1, <2>2, <2>5, <3>1 DEF RepeatInv, NoneAhead
  <2>6. NoneAhead'
    <3> SUFFICES ASSUME status' = "listing", distinct,
                        NEW p \in DOMAIN list, NEW n \in DOMAIN list,
                        list[p] = Last(seen'), list[n] \in kept,
                        list[n] \in ToSet(seen')
                 PROVE  n <= p
      BY <1>1 DEF NoneAhead
    <3>1. c \in 1 .. c
      BY <2>3
    <3>2. p = Anchor + c
      BY <2>2, <2>3, <2>4, <3>1 DEF RepeatInv, DistinctNow
    <3>3. CASE list[n] \in ToSet(seen)
      BY <2>2, <2>5, <3>2, <3>3
    <3>4. CASE list[n] \notin ToSet(seen)
      <4>1. PICK m \in 1 .. c : list[n] = list[Anchor + m]
        BY <2>2, <3>4
      <4>2. n = Anchor + m
        BY <2>4, <4>1 DEF RepeatInv, DistinctNow
      <4> QED BY <2>4, <3>2, <4>2
    <3> QED BY <3>3, <3>4
  <2>7. NothingRepeated'
    <3> SUFFICES ASSUME distinct, NEW j \in DOMAIN seen',
                        NEW k \in DOMAIN seen',
                        seen'[j] = seen'[k], seen'[j] \in kept
                 PROVE  j = k
      BY <1>1 DEF NothingRepeated
    <3>1. ASSUME NEW m \in DOMAIN seen'
          PROVE  \/ m \in 1 .. Len(seen) /\ seen'[m] = seen[m]
                 \/ m - Len(seen) \in 1 .. c
                    /\ seen'[m] = list[Anchor + (m - Len(seen))]
      <4>1. CASE m \in 1 .. Len(seen)
        BY <2>3, <4>1
      <4>2. CASE m \notin 1 .. Len(seen)
        <5>1. m - Len(seen) \in 1 .. c /\ Len(seen) + (m - Len(seen)) = m
          BY <2>2, <4>2
        <5> QED BY <2>3, <5>1
      <4> QED BY <4>1, <4>2
    <3>2. ASSUME NEW m \in DOMAIN seen', NEW n \in 1 .. Len(seen),
                 seen'[m] = seen[n], seen'[m] \in kept,
                 m - Len(seen) \in 1 .. c,
                 seen'[m] = list[Anchor + (m - Len(seen))]
          PROVE  FALSE
      <4> DEFINE q == Anchor + (m - Len(seen))
      <4>1. q \in DOMAIN list /\ Anchor < q
        BY <2>2, <2>4, <3>2
      <4>2. list[q] \in kept /\ list[q] \in ToSet(seen)
        BY <2>2, <3>2 DEF ToSet
      <4> HIDE DEF q
      <4>3. q <= Anchor
        BY <2>5, <4>1, <4>2
      <4> QED BY <2>2, <4>1, <4>3
    <3>3. CASE j \in 1 .. Len(seen) /\ k \in 1 .. Len(seen)
      <4>1. seen[j] = seen[k] /\ seen[j] \in kept
        BY <2>3, <3>3
      <4> QED BY <2>2, <3>3, <4>1 DEF RepeatInv, NothingRepeated
    <3>4. CASE j \in 1 .. Len(seen) /\ k \notin 1 .. Len(seen)
      <4>1. seen'[j] = seen[j]
        BY <2>3, <3>4
      <4> QED BY <3>1, <3>2, <3>4, <4>1
    <3>5. CASE j \notin 1 .. Len(seen) /\ k \in 1 .. Len(seen)
      <4>1. seen'[k] = seen[k]
        BY <2>3, <3>5
      <4> QED BY <3>1, <3>2, <3>5, <4>1
    <3>6. CASE j \notin 1 .. Len(seen) /\ k \notin 1 .. Len(seen)
      <4>1. /\ j - Len(seen) \in 1 .. c /\ k - Len(seen) \in 1 .. c
            /\ list[Anchor + (j - Len(seen))] = list[Anchor + (k - Len(seen))]
        BY <3>1, <3>6
      <4>2. Anchor + (j - Len(seen)) = Anchor + (k - Len(seen))
        BY <2>4, <4>1 DEF RepeatInv, DistinctNow
      <4> QED BY <2>2, <4>2
    <3> QED BY <3>3, <3>4, <3>5, <3>6
  <2> QED BY <1>1, <2>6, <2>7 DEF RepeatInv, KeptListed, DistinctNow
<1> QED BY <1>2, <1>3

LEMMA RepeatAdd ==
  ASSUME TypeOK, RepeatInv, NEW x \in Item, Add(x)
  PROVE  RepeatInv'
<1>1. /\ status = "listing" /\ UNCHANGED <<db, seen, status>>
      /\ list' \in Seq(Item)
      /\ kept' = kept \cap ToSet(list')
      /\ distinct' = (distinct /\ Distinct(list'))
  BY EditIs
<1>2. /\ DOMAIN list = 1 .. Len(list) /\ Len(list) \in Nat
      /\ DOMAIN list' = 1 .. Len(list) + 1
      /\ \A n \in DOMAIN list : list'[n] = list[n] /\ n \in DOMAIN list'
      /\ list'[Len(list) + 1] = x
  BY AddIs
<1>3. distinct' => distinct
                   /\ \A m, n \in DOMAIN list' : list'[m] = list'[n] => m = n
  BY <1>1, DistinctIs DEF TypeOK
<1>4. NoneAhead'
  <2> SUFFICES ASSUME distinct', seen # << >>,
                      NEW p \in DOMAIN list', NEW n \in DOMAIN list',
                      list'[p] = Last(seen), list'[n] \in kept,
                      list'[n] \in ToSet(seen)
               PROVE  n <= p
    BY <1>1 DEF NoneAhead
  <2>1. n \in DOMAIN list
    <3> SUFFICES ASSUME n \notin DOMAIN list PROVE FALSE
      OBVIOUS
    <3>1. n = Len(list) + 1
      BY <1>2
    <3>2. PICK m \in DOMAIN list : list[m] = list'[n]
      BY DEF RepeatInv, KeptListed, ToSet
    <3>3. m = n
      BY <1>2, <1>3, <3>2
    <3> QED BY <1>2, <3>1, <3>3
  <2>2. CASE p \in DOMAIN list
    BY <1>1, <1>2, <1>3, <2>1, <2>2 DEF RepeatInv, NoneAhead
  <2>3. CASE p \notin DOMAIN list
    BY <1>2, <2>1, <2>3
  <2> QED BY <2>2, <2>3
<1>5. NothingRepeated'
  BY <1>1 DEF RepeatInv, NothingRepeated
<1> QED BY <1>1, <1>3, <1>4, <1>5 DEF RepeatInv, KeptListed, DistinctNow

LEMMA RepeatDelete ==
  ASSUME TypeOK, RepeatInv, NEW x \in Item, Delete(x)
  PROVE  RepeatInv'
<1>1. /\ status = "listing" /\ UNCHANGED <<db, seen, status>>
      /\ list' \in Seq(Item)
      /\ kept' = kept \cap ToSet(list')
      /\ distinct' = (distinct /\ Distinct(list'))
  BY EditIs
<1>2. PICK e : Thins(e, list, list')
  BY DeleteThins
<1>3. /\ DOMAIN list = 1 .. Len(list) /\ Len(list) \in Nat
      /\ DOMAIN list' = 1 .. Len(list') /\ Len(list') \in Nat
  BY EditIs, LenProperties DEF TypeOK
<1>4. distinct' => distinct
                   /\ \A m, n \in DOMAIN list' : list'[m] = list'[n] => m = n
  BY <1>1, DistinctIs DEF TypeOK
<1>5. NoneAhead'
  <2> SUFFICES ASSUME distinct', seen # << >>,
                      NEW p \in DOMAIN list', NEW n \in DOMAIN list',
                      list'[p] = Last(seen), list'[n] \in kept,
                      list'[n] \in ToSet(seen)
               PROVE  n <= p
    BY <1>1 DEF NoneAhead
  <2>1. /\ e[p] \in DOMAIN list /\ list[e[p]] = list'[p]
        /\ e[n] \in DOMAIN list /\ list[e[n]] = list'[n]
    BY <1>2 DEF Thins
  <2>2. e[n] <= e[p]
    BY <1>1, <1>4, <2>1 DEF RepeatInv, NoneAhead
  <2>3. ~(p < n)
    BY <1>2, <1>3, <2>1, <2>2 DEF Thins
  <2> QED BY <1>3, <2>3
<1>6. NothingRepeated'
  BY <1>1 DEF RepeatInv, NothingRepeated
<1> QED BY <1>1, <1>4, <1>5, <1>6 DEF RepeatInv, KeptListed, DistinctNow

LEMMA RepeatStep == TypeOK /\ RepeatInv /\ [Next]_vars => RepeatInv'
<1> SUFFICES ASSUME TypeOK, RepeatInv, [Next]_vars PROVE RepeatInv'
  OBVIOUS
<1>1. CASE UNCHANGED vars
  BY <1>1 DEF vars, RepeatInv, KeptListed, DistinctNow, NoneAhead,
     NothingRepeated
<1>2. ASSUME foreach_sample PROVE RepeatInv'
  BY <1>2, RepeatCall
<1>3. ASSUME NEW x \in Item, Add(x) \/ Delete(x) PROVE RepeatInv'
  BY <1>3, RepeatAdd, RepeatDelete
<1> QED BY <1>1, <1>2, <1>3 DEF Next

-----------------------------------------------------------------------------
(* What every listing does.                                                *)

(* Every state a listing reaches has the types its variables state.        *)
THEOREM TypeCorrect == Spec => []TypeOK
<1>1. Init => TypeOK
  BY InvInit DEF IInv
<1> QED BY <1>1, TypeStep, PTL DEF Spec

(* The three parts of the invariant hold together in every state.          *)
LEMMA InvHolds == Spec => []IInv
<1>1. IInv /\ [Next]_vars => IInv'
  BY TypeStep, MissStep, RepeatStep DEF IInv
<1> QED BY <1>1, InvInit, PTL DEF Spec

(* A listing that ends without an error has every item that was in the     *)
(* database all the time, whatever was added or removed between the calls  *)
(* of pool4_foreach_sample() or client_for_eachsample(): unless the item a *)
(* call was to go on from was removed.                                     *)
THEOREM ListingIsWhole == Spec => []NothingMissed
<1>1. IInv => NothingMissed
  BY DEF IInv, MissInv
<1> QED BY <1>1, InvHolds, PTL

(* While the database holds no item twice, no call hands out an item again *)
(* that was in the database all the time.                                  *)
THEOREM NothingTwice == Spec => []NothingRepeated
<1>1. IInv => NothingRepeated
  BY DEF IInv, RepeatInv
<1> QED BY <1>1, InvHolds, PTL

(* A call returns -ESRCH only when the item it was to go on from has been  *)
(* removed since the listing began.                                        *)
THEOREM RefusalMeansRemoval == Spec => []EsrchMeansRemoved
<1>1. IInv => EsrchMeansRemoved
  BY DEF IInv, MissInv
<1> QED BY <1>1, InvHolds, PTL
=============================================================================
