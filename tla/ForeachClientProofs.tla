------------------------ MODULE ForeachClientProofs ------------------------
(***************************************************************************)
(* Proofs about client_for_each(), for every list of the bounds, every     *)
(* offset and every width of a word: the offset counted down and the count *)
(* of the second pass both measure the turns behind the loops, the         *)
(* callback sees only addresses of the database, and the two passes        *)
(* together are a rotation, which goes around when the index is not        *)
(* negative.                                                               *)
(***************************************************************************)
EXTENDS ForeachClient, DatabaseLemmas

-----------------------------------------------------------------------------
(* The turns that the loops take over the nodes of a set of positions, and *)
(* how many there are over the first n nodes.                              *)
TurnsOf(l, K) == {t \in K \X Word : t[2] < get_addr6_count(l[t[1]])}

Size(l, n) == Cardinality(TurnsOf(l, 1 .. n))

LEMMA ListType ==
  ASSUME NEW l \in BoundedSeq(Prefix, MaxClients)
  PROVE  l \in Seq(Prefix) /\ Len(l) <= MaxClients
<1>1. PICK m \in 0 .. MaxClients : l \in [1 .. m -> Prefix]
  BY DEF BoundedSeq, SeqOf
<1>2. m \in Nat /\ m <= MaxClients
  BY <1>1, ForeachClientAssumption
<1> QED BY <1>1, <1>2, SeqDef, LenProperties

LEMMA CountIsWord ==
  ASSUME NEW p \in ipv6_prefix
  PROVE  get_addr6_count(p) \in Word
<1> DEFINE turns == ShiftCount(AddrBits - p.len, WordBits)
<1>1. AddrBits - p.len \in Nat /\ WordBits \in Nat \ {0}
  BY TypesAssumption DEF ipv6_prefix, AddrBits
<1>2. turns \in 0 .. WordBits
  BY <1>1 DEF ShiftCount
<1>3. 2^turns \in Nat
  BY <1>2, PowersAssumption
<1>4. 2^turns \in Int
  BY <1>3
<1> QED BY <1>4, UintType DEF get_addr6_count

LEMMA WordIs == IsFiniteSet(Word) /\ Word \in SUBSET Nat
<1> DEFINE w == 2^WordBits
<1>1. w \in Nat
  BY TypesAssumption
<1>2. Word = 0 .. w - 1
  BY DEF Word
<1> HIDE DEF w
<1> QED BY <1>1, <1>2, FS_Interval

LEMMA TurnsFinite ==
  ASSUME NEW l \in Seq(Prefix), NEW K \in SUBSET DOMAIN l
  PROVE  IsFiniteSet(TurnsOf(l, K)) /\ Cardinality(TurnsOf(l, K)) \in Nat
<1>1. IsFiniteSet(K)
  <2>1. IsFiniteSet(DOMAIN l)
    BY FS_Interval, LenProperties
  <2> QED BY <2>1, FS_Subset
<1>2. IsFiniteSet(K \X Word)
  BY <1>1, WordIs, FS_Product
<1>3. TurnsOf(l, K) \in SUBSET (K \X Word)
  BY DEF TurnsOf
<1> QED BY <1>2, <1>3, FS_Subset, FS_CardinalityType

(* The addresses of one node are as many turns.                            *)
LEMMA TurnsOfNode ==
  ASSUME NEW l \in Seq(Prefix), NEW K \in SUBSET DOMAIN l, NEW n \in K
  PROVE  /\ get_addr6_count(l[n]) \in Nat
         /\ Cardinality(TurnsOf(l, K))
              = get_addr6_count(l[n]) + Cardinality(TurnsOf(l, K \ {n}))
<1> DEFINE c == get_addr6_count(l[n])
           Row == {n} \X (0 .. c - 1)
<1>1. l[n] \in ipv6_prefix
  <2>1. l[n] \in Prefix
    BY LenProperties
  <2> QED BY <2>1, ClientAssumption
<1>2. c \in Word /\ c \in Nat
  BY <1>1, CountIsWord, WordIs
<1>3. 0 .. c - 1 \in SUBSET Word
  <2> DEFINE w == 2^WordBits
  <2>1. Word = 0 .. w - 1 /\ w \in Nat
    BY TypesAssumption DEF Word
  <2> HIDE DEF w, c
  <2> QED BY <1>2, <2>1
<1>4. /\ TurnsOf(l, K) = TurnsOf(l, K \ {n}) \cup Row
      /\ TurnsOf(l, K \ {n}) \cap Row = {}
  <2>1. \A x \in Word : x < c <=> x \in 0 .. c - 1
    <3> HIDE DEF c
    <3> QED BY <1>2, WordIs
  <2> QED BY <1>3, <2>1 DEF TurnsOf
<1>5. IsFiniteSet(Row) /\ Cardinality(Row) = c
  <2> HIDE DEF c
  <2>1. IsFiniteSet({n}) /\ Cardinality({n}) = 1
    BY FS_Singleton
  <2>2. IsFiniteSet(0 .. c - 1) /\ Cardinality(0 .. c - 1) = c
    BY <1>2, FS_Interval
  <2> QED BY <1>2, <2>1, <2>2, FS_Product
<1>6. /\ IsFiniteSet(TurnsOf(l, K \ {n}))
      /\ Cardinality(TurnsOf(l, K \ {n})) \in Nat
  BY TurnsFinite
<1> HIDE DEF Row, c
<1>7. Cardinality(TurnsOf(l, K \ {n}) \cup Row)
        = Cardinality(TurnsOf(l, K \ {n})) + Cardinality(Row)
  BY <1>4, <1>5, <1>6, DisjointUnion
<1> QED BY <1>2, <1>4, <1>5, <1>6, <1>7 DEF c

(* The sizes of the nodes, one after the other.                            *)
LEMMA SizeGrows ==
  ASSUME NEW l \in Seq(Prefix)
  PROVE  /\ Size(l, 0) = 0
         /\ \A n \in 0 .. Len(l) : Size(l, n) \in Nat
         /\ \A n \in DOMAIN l :
              /\ n - 1 \in 0 .. Len(l) /\ get_addr6_count(l[n]) \in Nat
              /\ Size(l, n) = Size(l, n - 1) + get_addr6_count(l[n])
              /\ Size(l, n) <= Size(l, Len(l))
<1>1. DOMAIN l = 1 .. Len(l) /\ Len(l) \in Nat
  BY LenProperties
<1>2. Size(l, 0) = 0
  <2>1. TurnsOf(l, 1 .. 0) = {}
    BY DEF TurnsOf
  <2> QED BY <2>1, FS_EmptySet DEF Size
<1>3. ASSUME NEW n \in 0 .. Len(l)
      PROVE  /\ Size(l, n) \in Nat /\ Size(l, n) <= Size(l, Len(l))
  <2>1. 1 .. n \in SUBSET DOMAIN l /\ 1 .. Len(l) \in SUBSET DOMAIN l
    BY <1>1
  <2>2. TurnsOf(l, 1 .. n) \in SUBSET TurnsOf(l, 1 .. Len(l))
    BY <1>1, <2>1 DEF TurnsOf
  <2>3. /\ Cardinality(TurnsOf(l, 1 .. n)) \in Nat
        /\ IsFiniteSet(TurnsOf(l, 1 .. Len(l)))
    BY <2>1, TurnsFinite
  <2> QED BY <2>2, <2>3, FS_Subset DEF Size
<1>4. ASSUME NEW n \in DOMAIN l
      PROVE  /\ n - 1 \in 0 .. Len(l) /\ get_addr6_count(l[n]) \in Nat
             /\ Size(l, n) = Size(l, n - 1) + get_addr6_count(l[n])
  <2>1. /\ n - 1 \in 0 .. Len(l) /\ n \in 1 .. n
        /\ 1 .. n \in SUBSET DOMAIN l
    BY <1>1
  <2>2. (1 .. n) \ {n} = 1 .. n - 1
    BY <1>1
  <2>3. /\ get_addr6_count(l[n]) \in Nat
        /\ Cardinality(TurnsOf(l, 1 .. n)) = get_addr6_count(l[n])
             + Cardinality(TurnsOf(l, (1 .. n) \ {n}))
    BY <2>1, TurnsOfNode
  <2>4. Size(l, n - 1) \in Nat
    BY <1>3, <2>1
  <2>5. Size(l, n) = get_addr6_count(l[n]) + Size(l, n - 1)
    BY <2>2, <2>3 DEF Size
  <2> QED BY <2>1, <2>3, <2>4, <2>5
<1> QED BY <1>1, <1>2, <1>3, <1>4

(* client_count() adds the sizes up, but for the bits an unsigned int      *)
(* loses.                                                                  *)
LEMMA CountIsSize ==
  ASSUME NEW l \in Seq(Prefix)
  PROVE  client_count(l) = Uint(Size(l, Len(l)))
<1> DEFINE D == DOMAIN l
           v == [T \in SUBSET D |-> Cardinality(TurnsOf(l, T))]
           step(f) == [T \in SUBSET D |->
             IF T = {} THEN 0
             ELSE LET x == CHOOSE x \in T : TRUE
                  IN  get_addr6_count(l[x]) + f[T \ {x}]]
           size == [x \in D |-> get_addr6_count(l[x])]
<1>1. v[{}] = 0
  <2>1. TurnsOf(l, {}) = {} /\ Cardinality({}) = 0
    BY FS_EmptySet DEF TurnsOf
  <2> QED BY <2>1
<1>2. ASSUME NEW T \in SUBSET D, NEW x \in T
      PROVE  v[T] = get_addr6_count(l[x]) + v[T \ {x}]
  <2>1. Cardinality(TurnsOf(l, T))
          = get_addr6_count(l[x]) + Cardinality(TurnsOf(l, T \ {x}))
    BY TurnsOfNode
  <2> QED BY <2>1
<1>3. v = step(v)
  <2>1. ASSUME NEW T \in SUBSET D PROVE v[T] = step(v)[T]
    <3>1. CASE T = {}
      BY <3>1, <1>1
    <3>2. CASE T # {}
      <4> DEFINE x == CHOOSE x \in T : TRUE
      <4>1. x \in T
        BY <3>2
      <4>2. v[T] = get_addr6_count(l[x]) + v[T \ {x}]
        BY <4>1, <1>2
      <4> HIDE DEF v
      <4> QED BY <3>2, <4>2
    <3> QED BY <3>1, <3>2
  <2> QED BY <2>1
<1> DEFINE iter == CHOOSE f : f = step(f)
<1>4. iter = step(iter)
  BY <1>3
<1>5. client_count(l) = Uint(iter[D])
  BY DEF client_count, MapThenSumSet, MapThenFoldSet
<1> HIDE DEF iter
<1>6. ASSUME NEW T \in SUBSET D, T # {}
      PROVE  \E x \in T : iter[T \ {x}] = v[T \ {x}] => iter[T] = v[T]
  <2> DEFINE x == CHOOSE x \in T : TRUE
  <2>1. x \in T /\ x \in D
    BY <1>6
  <2>2. size[x] = get_addr6_count(l[x])
    BY <2>1
  <2>3. v[T] = size[x] + v[T \ {x}]
    BY <2>1, <2>2, <1>2
  <2>4. step(iter)[T] = size[x] + iter[T \ {x}]
    BY <1>6, <2>2
  <2> HIDE DEF size, v, step
  <2>5. iter[T] = size[x] + iter[T \ {x}]
    BY <1>4, <2>4
  <2> QED BY <2>1, <2>3, <2>5
<1>7. iter[{}] = v[{}]
  BY <1>1, <1>4
<1>8. IsFiniteSet(D)
  BY FS_Interval, LenProperties
<1> HIDE DEF size
<1>9. iter[D] = v[D]
  <2> HIDE DEF D, v, step
  <2>1. \A T \in SUBSET D : T # {} =>
          \E x \in T : iter[T \ {x}] = v[T \ {x}] => iter[T] = v[T]
    BY <1>6
  <2> QED BY <2>1, <1>7, <1>8, SumIsUnique
<1>10. v[D] = Size(l, Len(l))
  <2>1. D = 1 .. Len(l)
    BY LenProperties
  <2> QED BY <2>1 DEF Size
<1> QED BY <1>5, <1>9, <1>10

-----------------------------------------------------------------------------
(* The inductive invariant.                                                *)

Total == Size(list, Len(list))

(* How many turns are behind the one the loops are at.                     *)
At == Size(list, k - 1) + i

(* The loops are at a turn of the list, with its address in dummy.         *)
OnTheList ==
  /\ Len(list) <= MaxClients
  /\ k <= Len(list) + 1
  /\ k = 0 <=> pass = 0
  /\ k \in DOMAIN list => i <= get_addr6_count(list[k])
  /\ InPrefix => dummy = Walk(list[k])[i + 1]
  /\ k = Len(list) + 1 => i = 0

(* Before the loops nothing has happened; in them the offset is reduced.   *)
IndexIs ==
  /\ pass = 0 => client_index = 0 /\ client_index_aux = 0 /\ offset = request
  /\ pass # 0 => /\ client_count(list) # 0
                 /\ client_index = AsInt(Start)

(* What is left of the offset, and the count of the second pass, measure   *)
(* the turns behind.                                                       *)
CountsTurns ==
  /\ pass = 1 => /\ client_index_aux = 0
                 /\ offset = IF At < Start THEN Start - At ELSE 0
  /\ pass = 2 => offset = 0 /\ client_index_aux = At

(* How many addresses were handed to the callback.                         *)
Handed ==
  CASE pass = 0 -> 0
    [] pass = 1 -> IF Start < At THEN At - Start ELSE 0
    [] pass = 2 -> (Total - Start) + At

HandedOut ==
  /\ visited \in Seq(in6_addr)
  /\ Len(visited) = Handed
  /\ visited # << >> => client_addr_exist(list, Last(visited))

(* How the function ended.                                                 *)
EndIs ==
  /\ status = "trap" => pass = 0 /\ client_count(list) = 0
  /\ status = "done" =>
       /\ pass = 2
       /\ client_index_aux = IF client_index > 0 THEN client_index ELSE 0

PlaceInv == TypeOK /\ OnTheList /\ IndexIs /\ CountsTurns /\ HandedOut /\ EndIs

(* Of the words the int keeps the lower half, and makes the rest negative. *)
LEMMA AsIntIs ==
  ASSUME NEW n \in Word
  PROVE  /\ n \in Nat /\ AsInt(n) \in Int
         /\ IF AsInt(n) = n THEN AsInt(n) >= 0 ELSE AsInt(n) < 0
<1> DEFINE w == 2^WordBits
<1>1. w \in Nat /\ Word = 0 .. w - 1
  BY TypesAssumption DEF Word
<1>2. AsInt(n) = IF 2 * n < w THEN n ELSE n - w
  BY DEF AsInt
<1> HIDE DEF w
<1> QED BY <1>1, <1>2

(* The offset is left in the word, and below the number of the clients.    *)
LEMMA StartType ==
  ASSUME list \in Seq(Prefix), request \in Nat, client_count(list) # 0
  PROVE  /\ Start \in Word /\ Start \in Nat /\ Start <= request
         /\ Start < Total /\ Total \in Nat
<1> DEFINE c == client_count(list)
           w == 2^WordBits
<1>1. Total \in Nat
  BY LenProperties, SizeGrows DEF Total
<1>2. c = Total % w /\ w \in Nat /\ w > 1 /\ Word = 0 .. w - 1
  BY CountIsSize, TypesAssumption DEF Total, Uint, Word
<1>3. c # 0 /\ Start = request % c
  BY DEF Start
<1> HIDE DEF c, w
<1>4. c \in Nat /\ c <= Total /\ c < w
  <2>1. CASE Total < w
    <3>1. Total % w = Total
      BY <1>1, <1>2, <2>1
    <3> QED BY <1>1, <1>2, <2>1, <3>1
  <2>2. CASE w <= Total
    <3>1. Total % w \in 0 .. w - 1
      BY <1>1, <1>2
    <3> QED BY <1>1, <1>2, <2>2, <3>1
  <2> QED BY <1>1, <1>2, <2>1, <2>2
<1>5. Start \in 0 .. c - 1
  BY <1>3, <1>4
<1>6. Start <= request
  <2>1. CASE request < c
    <3>1. request % c = request
      BY <1>4, <2>1
    <3> QED BY <1>3, <3>1
  <2> QED BY <1>4, <1>5, <2>1
<1> QED BY <1>1, <1>2, <1>4, <1>5, <1>6

(* What the parts of the invariant say together of the numbers.            *)
LEMMA NumbersAre ==
  ASSUME PlaceInv
  PROVE  /\ list \in Seq(Prefix) /\ DOMAIN list = 1 .. Len(list)
         /\ Len(list) \in Nat /\ MaxClients \in Nat /\ MaxOffset \in Nat
         /\ Total \in Nat /\ k \in Nat /\ i \in Nat /\ request \in Nat
         /\ offset \in Nat /\ client_index \in Int /\ client_index_aux \in Nat
         /\ pass # 0 => /\ At \in 0 .. Total /\ Start \in Word
                        /\ Start \in Nat /\ Start < Total
                        /\ IF FitsInt THEN client_index = Start
                           ELSE client_index < 0
                        /\ k = Len(list) + 1 => At = Total
<1>1. /\ list \in Seq(Prefix) /\ k \in Nat /\ i \in Nat /\ request \in Nat
      /\ offset \in Nat /\ client_index \in Int /\ client_index_aux \in Nat
      /\ MaxClients \in Nat /\ MaxOffset \in Nat
  <2>1. client_index \in Int
    BY AsIntIs DEF PlaceInv, TypeOK
  <2> QED BY <2>1, ForeachClientAssumption DEF PlaceInv, TypeOK
<1>2. DOMAIN list = 1 .. Len(list) /\ Len(list) \in Nat
  BY <1>1, LenProperties
<1>3. Total \in Nat
  BY <1>1, <1>2, SizeGrows DEF Total
<1>4. ASSUME pass # 0
      PROVE  /\ Start \in Word /\ Start \in Nat /\ Start < Total
             /\ IF FitsInt THEN client_index = Start ELSE client_index < 0
  <2>1. client_count(list) # 0 /\ client_index = AsInt(Start)
    BY <1>4 DEF PlaceInv, IndexIs
  <2>2. Start \in Word /\ Start \in Nat /\ Start < Total
    BY <1>1, <2>1, StartType
  <2>3. FitsInt <=> AsInt(Start) = Start
    BY <2>1 DEF FitsInt
  <2> QED BY <2>1, <2>2, <2>3, AsIntIs
<1>5. ASSUME pass # 0
      PROVE  At \in 0 .. Total /\ (k = Len(list) + 1 => At = Total)
  <2>1. /\ k <= Len(list) + 1 /\ k # 0
        /\ k \in DOMAIN list => i <= get_addr6_count(list[k])
        /\ k = Len(list) + 1 => i = 0
    BY <1>5 DEF PlaceInv, OnTheList
  <2>2. CASE k \in DOMAIN list
    <3>1. /\ Size(list, k - 1) \in Nat /\ get_addr6_count(list[k]) \in Nat
          /\ Size(list, k) = Size(list, k - 1) + get_addr6_count(list[k])
          /\ Size(list, k) <= Total
      BY <1>1, <2>2, SizeGrows DEF Total
    <3>2. k # Len(list) + 1
      BY <1>2, <2>2
    <3> QED BY <1>1, <1>3, <2>1, <2>2, <3>1, <3>2 DEF At
  <2>3. CASE k \notin DOMAIN list
    <3>1. k = Len(list) + 1 /\ k - 1 = Len(list) /\ i = 0
      BY <1>1, <1>2, <2>1, <2>3
    <3>2. At = Total + 0
      BY <3>1 DEF At, Total
    <3> QED BY <1>3, <3>2
  <2> QED BY <2>2, <2>3
<1> QED BY <1>1, <1>2, <1>3, <1>4, <1>5

LEMMA FirstAddrType ==
  ASSUME PlaceInv, NEW n \in Nat
  PROVE  /\ FirstAddr(n) \in in6_addr
         /\ n \in DOMAIN list => list[n] \in ipv6_prefix
         /\ n \in DOMAIN list /\ 0 < get_addr6_count(list[n]) =>
              FirstAddr(n) = Walk(list[n])[0 + 1]
<1>1. list \in Seq(Prefix) /\ dummy \in in6_addr
  BY DEF PlaceInv, TypeOK
<1>2. ASSUME n \in DOMAIN list
      PROVE  list[n] \in ipv6_prefix /\ list[n].address \in in6_addr
  <2>1. list[n] \in Prefix
    BY <1>1, <1>2, LenProperties
  <2> QED BY <2>1, ClientAssumption DEF ipv6_prefix
<1>3. ASSUME n \in DOMAIN list, 0 < get_addr6_count(list[n])
      PROVE  FirstAddr(n) = Walk(list[n])[0 + 1]
  <2>1. get_addr6_count(list[n]) \in Nat
    BY <1>2, <1>3, CountIsNat
  <2>2. 1 \in DOMAIN Walk(list[n])
    BY <1>2, <1>3, <2>1, WalkIs
  <2> QED BY <1>2, <1>3, <2>2, WalkIs DEF FirstAddr
<1> QED BY <1>1, <1>2, <1>3 DEF FirstAddr

LEMMA PlaceInit == Init => PlaceInv
<1> SUFFICES ASSUME Init PROVE PlaceInv
  OBVIOUS
<1>1. list \in Seq(Prefix) /\ Len(list) <= MaxClients
  BY ListType DEF Init
<1>2. DOMAIN list = 1 .. Len(list) /\ Len(list) \in Nat
  BY <1>1, LenProperties
<1>3. MaxClients \in Nat /\ MaxOffset \in Nat
  BY ForeachClientAssumption
<1>4. dummy \in in6_addr
  <2> DEFINE w == 2^WordBits
  <2>1. w \in Nat /\ w > 1
    BY TypesAssumption
  <2>2. Word = 0 .. w - 1
    BY DEF Word
  <2> HIDE DEF w
  <2>3. 0 \in Word
    BY <2>1, <2>2
  <2> QED BY <2>3 DEF Init, in6_addr
<1>5. TypeOK
  <2> DEFINE w == 2^WordBits
  <2>1. w \in Nat /\ w > 1 /\ Word = 0 .. w - 1
    BY TypesAssumption DEF Word
  <2>2. AsInt(0) = IF 2 * 0 < w THEN 0 ELSE 0 - w
    BY DEF AsInt
  <2> HIDE DEF w
  <2>3. 0 \in Word /\ AsInt(0) = 0
    BY <2>1, <2>2
  <2>4. client_index \in {AsInt(n) : n \in Word}
    BY <2>3 DEF Init
  <2> QED BY <1>1, <1>3, <1>4, <2>4 DEF Init, TypeOK
<1>6. OnTheList
  BY <1>1, <1>2 DEF Init, OnTheList, InPrefix
<1>7. IndexIs /\ CountsTurns /\ EndIs
  BY DEF Init, IndexIs, CountsTurns, EndIs
<1>8. HandedOut
  <2>1. visited = << >> /\ Handed = 0
    BY DEF Init, Handed
  <2> QED BY <2>1, EmptySeq DEF HandedOut
<1> QED BY <1>5, <1>6, <1>7, <1>8 DEF PlaceInv

-----------------------------------------------------------------------------
(* The steps.                                                              *)

(* A pass begins at the first turn, which has none behind it.              *)
LEMMA PassBegins ==
  ASSUME PlaceInv, NEW p \in {1, 2}, BeginPass(p), list' = list
  PROVE  /\ pass' = p /\ k' = 1 /\ i' = 0 /\ At' = 0 /\ dummy' \in in6_addr
         /\ k' \in 0 .. MaxClients + 1
         /\ OnTheList'
<1>1. pass' = p /\ k' = 1 /\ i' = 0 /\ dummy' = FirstAddr(1)
  BY DEF BeginPass
<1>2. /\ list \in Seq(Prefix) /\ Len(list) \in Nat /\ MaxClients \in Nat
      /\ Len(list) <= MaxClients
  BY NumbersAre DEF PlaceInv, OnTheList
<1>3. At' = 0
  <2>1. Size(list, 0) = 0
    BY <1>2, SizeGrows
  <2>2. At' = Size(list, 1 - 1) + 0
    BY <1>1 DEF At
  <2> QED BY <2>1, <2>2
<1>4. /\ dummy' \in in6_addr
      /\ 1 \in DOMAIN list => get_addr6_count(list[1]) \in Nat
      /\ 1 \in DOMAIN list /\ 0 < get_addr6_count(list[1]) =>
           dummy' = Walk(list[1])[0 + 1]
  BY <1>1, <1>2, FirstAddrType, CountIsNat
<1>5. OnTheList'
  BY <1>1, <1>2, <1>4 DEF OnTheList, InPrefix
<1> QED BY <1>1, <1>2, <1>3, <1>4, <1>5

LEMMA LessNothing ==
  ASSUME NEW n \in Nat, NEW m \in Nat, m <= 0
  PROVE  n = IF m < n THEN n - m ELSE 0
OBVIOUS

LEMMA StepReduce ==
  ASSUME PlaceInv, Reduce, status = "running", UNCHANGED <<list, request>>
  PROVE  PlaceInv'
<1> DEFINE c == client_count(list)
<1>1. /\ pass = 0 /\ UNCHANGED <<client_index_aux, visited>>
      /\ offset = request /\ client_index_aux = 0 /\ client_index = 0
      /\ Len(visited) = 0 /\ visited \in Seq(in6_addr)
  BY DEF Reduce, PlaceInv, IndexIs, HandedOut, Handed
<1>2. visited = << >>
  BY <1>1, EmptySeq
<1>3. CASE c = 0
  <2>1. /\ status' = "trap"
        /\ UNCHANGED <<offset, client_index, pass, k, i, dummy>>
    BY <1>1, <1>3 DEF Reduce
  <2>2. TypeOK'
    BY <1>1, <2>1 DEF PlaceInv, TypeOK
  <2>3. OnTheList'
    BY <1>1, <2>1 DEF PlaceInv, OnTheList, InPrefix
  <2>4. IndexIs' /\ CountsTurns' /\ EndIs'
    BY <1>1, <1>3, <2>1 DEF IndexIs, CountsTurns, EndIs
  <2>5. HandedOut'
    BY <1>1, <1>2, <2>1 DEF HandedOut, Handed
  <2> QED BY <2>2, <2>3, <2>4, <2>5 DEF PlaceInv
<1>4. CASE c # 0
  <2>1. /\ offset' = Start /\ client_index' = AsInt(Start) /\ Start' = Start
        /\ BeginPass(1) /\ UNCHANGED status
    BY <1>1, <1>4 DEF Reduce, Reduced, Start
  <2>2. /\ pass' = 1 /\ k' = 1 /\ i' = 0 /\ At' = 0 /\ dummy' \in in6_addr
        /\ k' \in 0 .. MaxClients + 1 /\ OnTheList'
    BY <2>1, PassBegins
  <2>3. Start \in Nat /\ Start <= request /\ Start \in Word
    BY <1>4, NumbersAre, StartType
  <2>4. TypeOK'
    <3>1. /\ list \in Seq(Prefix) /\ request \in 0 .. MaxOffset
          /\ MaxOffset \in Nat /\ status \in {"running", "done", "stopped", "trap"}
      BY NumbersAre DEF PlaceInv, TypeOK
    <3>2. offset' \in 0 .. MaxOffset
      BY <2>1, <2>3, <3>1
    <3>3. client_index' \in {AsInt(n) : n \in Word} /\ client_index' \in Int
      BY <2>1, <2>3, AsIntIs
    <3>4. client_index_aux' \in
            0 .. IF client_index' > 0 THEN client_index' ELSE 0
      BY <1>1, <3>3
    <3> QED BY <1>1, <2>1, <2>2, <3>1, <3>2, <3>3, <3>4 DEF TypeOK
  <2>5. IndexIs' /\ EndIs'
    BY <1>1, <1>4, <2>1, <2>2 DEF PlaceInv, IndexIs, EndIs
  <2>6. CountsTurns'
    <3>1. At' \in Nat /\ At' <= 0
      BY <2>2
    <3>2. Start = IF At' < Start THEN Start - At' ELSE 0
      BY <2>3, <3>1, LessNothing
    <3> QED BY <1>1, <2>1, <2>2, <3>2 DEF CountsTurns
  <2>7. HandedOut'
    <3>1. Handed' = 0
      BY <2>1, <2>2, <2>3 DEF Handed
    <3> QED BY <1>1, <1>2, <3>1 DEF HandedOut
  <2> QED BY <2>2, <2>4, <2>5, <2>6, <2>7 DEF PlaceInv
<1> QED BY <1>3, <1>4

(* A turn of the loops, whichever the pass: the address of the turn is one *)
(* of the database, and the next turn of the node has the next address.    *)
LEMMA TurnHere ==
  ASSUME PlaceInv, InPrefix
  PROVE  /\ At \in Nat /\ At < Total /\ pass # 0 /\ k \in DOMAIN list
         /\ get_addr6_count(list[k]) \in Nat
         /\ dummy = Walk(list[k])[i + 1] /\ i + 1 \in DOMAIN Walk(list[k])
         /\ client_addr_exist(list, dummy)
<1>1. /\ list \in Seq(Prefix) /\ DOMAIN list = 1 .. Len(list) /\ k \in Nat
      /\ i \in Nat /\ Total \in Nat
  BY NumbersAre
<1>2. /\ k \in DOMAIN list /\ i < get_addr6_count(list[k])
      /\ dummy = Walk(list[k])[i + 1]
  BY DEF InPrefix, PlaceInv, OnTheList
<1>3. list[k] \in ipv6_prefix
  BY <1>1, <1>2, FirstAddrType
<1>4. get_addr6_count(list[k]) \in Nat
  BY <1>3, CountIsNat
<1>5. i + 1 \in DOMAIN Walk(list[k])
  BY <1>1, <1>2, <1>3, <1>4, WalkIs
<1>6. client_addr_exist(list, dummy)
  BY <1>2, <1>5 DEF client_addr_exist
<1>7. At \in Nat /\ At < Total
  <2>1. /\ Size(list, k - 1) \in Nat
        /\ Size(list, k) = Size(list, k - 1) + get_addr6_count(list[k])
        /\ Size(list, k) <= Total
    BY <1>1, <1>2, SizeGrows DEF Total
  <2>2. Size(list, k) \in Nat
    BY <1>4, <2>1
  <2> QED BY <1>1, <1>2, <1>4, <2>1, <2>2 DEF At
<1>8. pass # 0
  BY <1>1, <1>2 DEF PlaceInv, OnTheList
<1> QED BY <1>2, <1>4, <1>5, <1>6, <1>7, <1>8

LEMMA TurnGoesOn ==
  ASSUME PlaceInv, InPrefix, i' = i + 1, dummy' = addr6_iterations(dummy),
         UNCHANGED <<k, list, pass>>
  PROVE  /\ At' = At + 1 /\ Total' = Total /\ OnTheList'
         /\ i' \in Nat /\ dummy' \in in6_addr
<1>1. /\ list \in Seq(Prefix) /\ DOMAIN list = 1 .. Len(list) /\ k \in Nat
      /\ i \in Nat /\ dummy \in in6_addr
  BY NumbersAre DEF PlaceInv, TypeOK
<1>2. /\ k \in DOMAIN list /\ i < get_addr6_count(list[k])
      /\ get_addr6_count(list[k]) \in Nat
      /\ dummy = Walk(list[k])[i + 1] /\ i + 1 \in DOMAIN Walk(list[k])
  BY TurnHere DEF InPrefix
<1>3. list[k] \in ipv6_prefix
  BY <1>1, <1>2, FirstAddrType
<1>4. ASSUME i + 1 < get_addr6_count(list[k])
      PROVE  dummy' = Walk(list[k])[(i + 1) + 1]
  <2>1. i + 1 \in Nat /\ (i + 1) + 1 \in DOMAIN Walk(list[k])
    BY <1>1, <1>2, <1>3, <1>4, WalkIs
  <2>2. Walk(list[k])[(i + 1) + 1] = addr6_iterations(Walk(list[k])[i + 1])
    BY <1>2, <1>3, <2>1, WalkIs
  <2> QED BY <1>2, <2>2
<1>5. k # Len(list) + 1 /\ i + 1 <= get_addr6_count(list[k])
  BY <1>1, <1>2, LenProperties
<1>6. OnTheList'
  BY <1>1, <1>2, <1>4, <1>5 DEF PlaceInv, OnTheList, InPrefix
<1>7. At' = At + 1 /\ Total' = Total
  <2>1. Size(list, k - 1) \in Nat
    BY <1>1, <1>2, SizeGrows
  <2>2. At' = Size(list, k - 1) + (i + 1) /\ Total' = Total
    BY DEF At, Total
  <2> QED BY <1>1, <2>1, <2>2 DEF At
<1>8. dummy' \in in6_addr
  BY <1>1, NextAddrType
<1> QED BY <1>1, <1>6, <1>7, <1>8

LEMMA HandsOver ==
  ASSUME PlaceInv, InPrefix, CallBack, list' = list, Handed' = Handed + 1
  PROVE  HandedOut' /\ status' \in {"running", "stopped"}
<1>1. /\ visited' = Append(visited, dummy) /\ status' \in {"running", "stopped"}
  BY DEF CallBack
<1>2. /\ visited \in Seq(in6_addr) /\ dummy \in in6_addr
      /\ Len(visited) = Handed
  BY DEF PlaceInv, TypeOK, HandedOut
<1>3. /\ visited' \in Seq(in6_addr) /\ Len(visited') = Len(visited) + 1
      /\ visited'[Len(visited) + 1] = dummy
  BY <1>1, <1>2, AppendProperties
<1>4. Last(visited') = dummy
  BY <1>3 DEF Last
<1>5. client_addr_exist(list, dummy)
  BY TurnHere
<1> QED BY <1>1, <1>2, <1>3, <1>4, <1>5 DEF HandedOut

LEMMA StepFirstPassTurn ==
  ASSUME PlaceInv, FirstPassTurn, status = "running",
         UNCHANGED <<list, request>>
  PROVE  PlaceInv'
<1>1. /\ pass = 1 /\ InPrefix /\ i' = i + 1 /\ dummy' = addr6_iterations(dummy)
      /\ UNCHANGED <<client_index, client_index_aux, pass, k>>
  BY DEF FirstPassTurn
<1>2. /\ At' = At + 1 /\ Total' = Total /\ OnTheList'
      /\ i' \in Nat /\ dummy' \in in6_addr
  BY <1>1, TurnGoesOn
<1>3. /\ At \in Nat /\ Start \in Nat /\ Start' = Start /\ offset \in Nat
      /\ client_index_aux = 0
      /\ offset = IF At < Start THEN Start - At ELSE 0
  BY <1>1, TurnHere, NumbersAre DEF PlaceInv, CountsTurns, Start
<1>4. /\ IndexIs'
      /\ offset' \in 0 .. offset /\ status' \in {"running", "stopped"} => TypeOK'
      /\ status' \in {"running", "stopped"} => EndIs'
  <2>1. IndexIs'
    BY <1>1, <1>3 DEF PlaceInv, IndexIs
  <2>2. ASSUME offset' \in 0 .. offset, status' \in {"running", "stopped"}
        PROVE  TypeOK'
    <3>1. MaxOffset \in Nat /\ offset \in 0 .. MaxOffset
      BY NumbersAre DEF PlaceInv, TypeOK
    <3>2. offset' \in 0 .. MaxOffset
      BY <2>2, <3>1
    <3> QED BY <1>1, <1>2, <2>2, <3>2 DEF PlaceInv, TypeOK
  <2> QED BY <2>1, <2>2 DEF EndIs
<1>5. CASE offset = 0
  <2>1. CallBack /\ offset' = offset
    BY <1>5 DEF FirstPassTurn
  <2>2. Handed' = Handed + 1
    BY <1>1, <1>2, <1>3, <1>5 DEF Handed
  <2>3. HandedOut' /\ status' \in {"running", "stopped"}
    BY <1>1, <2>1, <2>2, HandsOver
  <2>4. CountsTurns'
    BY <1>1, <1>2, <1>3, <1>5, <2>1 DEF CountsTurns
  <2>5. offset' \in 0 .. offset
    BY <1>3, <2>1
  <2> QED BY <1>2, <1>4, <2>3, <2>4, <2>5 DEF PlaceInv
<1>6. CASE offset # 0
  <2>1. offset' = offset - 1 /\ UNCHANGED <<visited, status>>
    BY <1>6 DEF FirstPassTurn
  <2>2. Handed' = Handed
    BY <1>1, <1>2, <1>3, <1>6 DEF Handed
  <2>3. HandedOut'
    BY <2>1, <2>2 DEF PlaceInv, HandedOut
  <2>4. CountsTurns'
    BY <1>1, <1>2, <1>3, <1>6, <2>1 DEF CountsTurns
  <2>5. offset' \in 0 .. offset
    BY <1>3, <1>6, <2>1
  <2> QED BY <1>2, <1>4, <2>1, <2>3, <2>4, <2>5 DEF PlaceInv
<1> QED BY <1>5, <1>6

LEMMA StepSecondPassTurn ==
  ASSUME PlaceInv, SecondPassTurn, status = "running",
         UNCHANGED <<list, request>>
  PROVE  PlaceInv'
<1>1. /\ pass = 2 /\ InPrefix /\ UNCHANGED <<offset, client_index, pass, k>>
  BY DEF SecondPassTurn
<1>2. /\ At \in Nat /\ client_index \in Int /\ client_index_aux = At
      /\ client_index_aux \in 0 .. IF client_index > 0 THEN client_index ELSE 0
      /\ Total \in Nat /\ Start \in Nat /\ Start < Total /\ Start' = Start
  BY <1>1, TurnHere, NumbersAre DEF PlaceInv, CountsTurns, TypeOK, Start
<1>3. IndexIs'
  BY <1>1, <1>2 DEF PlaceInv, IndexIs
<1>4. CASE Behind
  <2>1. /\ CallBack /\ dummy' = addr6_iterations(dummy) /\ i' = i + 1
        /\ client_index_aux' = client_index_aux + 1
    BY <1>4 DEF SecondPassTurn
  <2>2. /\ At' = At + 1 /\ Total' = Total /\ OnTheList'
        /\ i' \in Nat /\ dummy' \in in6_addr
    BY <1>1, <2>1, TurnGoesOn
  <2>3. Handed' = Handed + 1
    BY <1>1, <1>2, <2>2 DEF Handed
  <2>4. HandedOut' /\ status' \in {"running", "stopped"}
    BY <1>1, <2>1, <2>3, HandsOver
  <2>5. client_index_aux' \in
          0 .. IF client_index' > 0 THEN client_index' ELSE 0
    BY <1>1, <1>2, <1>4, <2>1 DEF Behind
  <2>6. TypeOK'
    BY <1>1, <2>2, <2>4, <2>5 DEF PlaceInv, TypeOK
  <2>7. CountsTurns' /\ EndIs'
    BY <1>1, <1>2, <2>1, <2>2, <2>4 DEF PlaceInv, CountsTurns, EndIs
  <2> QED BY <1>3, <2>2, <2>4, <2>6, <2>7 DEF PlaceInv
<1>5. CASE ~Behind
  <2>1. status' = "done" /\ UNCHANGED <<visited, dummy, i, client_index_aux>>
    BY <1>5 DEF SecondPassTurn
  <2>2. At' = At /\ Total' = Total
    BY <1>1, <2>1 DEF At, Total
  <2>3. client_index_aux = IF client_index > 0 THEN client_index ELSE 0
    BY <1>2, <1>5 DEF Behind
  <2>4. TypeOK' /\ OnTheList'
    BY <1>1, <2>1 DEF PlaceInv, TypeOK, OnTheList, InPrefix
  <2>5. CountsTurns' /\ EndIs'
    <3>1. CountsTurns'
      BY <1>1, <1>2, <2>1, <2>2 DEF PlaceInv, CountsTurns
    <3>2. EndIs'
      BY <1>1, <2>1, <2>3 DEF EndIs
    <3> QED BY <3>1, <3>2
  <2>6. HandedOut'
    BY <1>1, <1>2, <2>1, <2>2 DEF PlaceInv, HandedOut, Handed
  <2> QED BY <1>3, <2>4, <2>5, <2>6 DEF PlaceInv
<1> QED BY <1>4, <1>5

LEMMA StepNextClient ==
  ASSUME PlaceInv, NextClient, status = "running", UNCHANGED <<list, request>>
  PROVE  PlaceInv' /\ At' = At
<1>1. /\ k \in DOMAIN list /\ ~InPrefix /\ k' = k + 1 /\ i' = 0
      /\ dummy' = FirstAddr(k + 1)
      /\ UNCHANGED <<offset, client_index, client_index_aux, pass, visited,
                     status>>
  BY DEF NextClient
<1>2. /\ list \in Seq(Prefix) /\ DOMAIN list = 1 .. Len(list)
      /\ Len(list) \in Nat /\ k \in Nat /\ i \in Nat /\ MaxClients \in Nat
      /\ Len(list) <= MaxClients /\ k <= Len(list)
      /\ i <= get_addr6_count(list[k])
      /\ k = 0 <=> pass = 0
  BY <1>1, NumbersAre DEF PlaceInv, OnTheList
<1>3. /\ dummy' \in in6_addr
      /\ k + 1 \in DOMAIN list => get_addr6_count(list[k + 1]) \in Nat
      /\ k + 1 \in DOMAIN list /\ 0 < get_addr6_count(list[k + 1]) =>
           dummy' = Walk(list[k + 1])[0 + 1]
  BY <1>1, <1>2, FirstAddrType, CountIsNat
<1>4. At' = At /\ Total' = Total /\ Start' = Start
  <2>1. /\ get_addr6_count(list[k]) \in Nat /\ Size(list, k - 1) \in Nat
        /\ Size(list, k) = Size(list, k - 1) + get_addr6_count(list[k])
    BY <1>1, <1>2, SizeGrows
  <2>2. i = get_addr6_count(list[k])
    BY <1>1, <1>2, <2>1 DEF InPrefix
  <2>3. At' = Size(list, (k + 1) - 1) + 0 /\ Total' = Total
    BY <1>1 DEF At, Total
  <2>4. (k + 1) - 1 = k
    BY <1>2
  <2> QED BY <2>1, <2>2, <2>3, <2>4 DEF At, Start
<1>5. OnTheList'
  BY <1>1, <1>2, <1>3 DEF OnTheList, InPrefix
<1>6. TypeOK'
  BY <1>1, <1>2, <1>3 DEF PlaceInv, TypeOK
<1>7. IndexIs' /\ CountsTurns' /\ EndIs'
  BY <1>1, <1>4 DEF PlaceInv, IndexIs, CountsTurns, EndIs
<1>8. HandedOut'
  BY <1>1, <1>4 DEF PlaceInv, HandedOut, Handed
<1> QED BY <1>4, <1>5, <1>6, <1>7, <1>8 DEF PlaceInv

(* The first pass ends with the offset counted down, and the second never  *)
(* reaches the end of the list: its last turn is the one the first pass    *)
(* handed out first.                                                       *)
LEMMA StepEndPass ==
  ASSUME PlaceInv, EndPass, status = "running", UNCHANGED <<list, request>>
  PROVE  /\ PlaceInv' /\ pass = 1 /\ BeginPass(2) /\ UNCHANGED status
         /\ Handed' = Handed
<1>1. /\ pass # 0 /\ k > Len(list)
      /\ UNCHANGED <<offset, client_index, client_index_aux, visited>>
  BY DEF EndPass
<1>2. /\ At = Total /\ Start < Total /\ Total \in Nat /\ Start \in Nat
      /\ IF FitsInt THEN client_index = Start ELSE client_index < 0
      /\ client_index_aux \in 0 .. IF client_index > 0 THEN client_index ELSE 0
      /\ pass \in 0 .. 2 /\ client_index \in Int
  <2>1. k <= Len(list) + 1
    BY DEF PlaceInv, OnTheList
  <2>2. k = Len(list) + 1
    BY <1>1, <2>1, NumbersAre
  <2> QED BY <1>1, <2>2, NumbersAre DEF PlaceInv, TypeOK
<1>3. pass = 1 /\ offset = 0 /\ client_index_aux = 0
  <2>1. pass # 2
    BY <1>2 DEF PlaceInv, CountsTurns
  <2>2. pass = 1
    BY <1>1, <1>2, <2>1
  <2> QED BY <1>2, <2>2 DEF PlaceInv, CountsTurns
<1>4. BeginPass(2) /\ UNCHANGED status
  BY <1>3 DEF EndPass
<1>5. /\ pass' = 2 /\ k' = 1 /\ i' = 0 /\ At' = 0 /\ dummy' \in in6_addr
      /\ k' \in 0 .. MaxClients + 1 /\ OnTheList'
  BY <1>4, PassBegins
<1>6. Total' = Total /\ Start' = Start
  BY DEF Total, Start
<1>7. Handed' = Handed
  BY <1>1, <1>2, <1>3, <1>5, <1>6 DEF Handed
<1>8. TypeOK'
  BY <1>1, <1>4, <1>5 DEF PlaceInv, TypeOK
<1>9. IndexIs' /\ CountsTurns' /\ EndIs'
  BY <1>1, <1>2, <1>3, <1>4, <1>5, <1>6
    DEF PlaceInv, IndexIs, CountsTurns, EndIs
<1>10. HandedOut'
  BY <1>1, <1>7 DEF PlaceInv, HandedOut
<1> QED BY <1>3, <1>4, <1>5, <1>7, <1>8, <1>9, <1>10 DEF PlaceInv

LEMMA PlaceStep == PlaceInv /\ [Next]_vars => PlaceInv'
<1> SUFFICES ASSUME PlaceInv, [Next]_vars PROVE PlaceInv'
  OBVIOUS
<1>1. CASE UNCHANGED vars
  <2> USE <1>1 DEF vars
  <2>1. TypeOK' /\ OnTheList' /\ IndexIs' /\ EndIs'
    BY DEF PlaceInv, TypeOK, OnTheList, InPrefix, IndexIs, EndIs, Start
  <2>2. At' = At /\ Total' = Total /\ Start' = Start
    BY DEF At, Total, Start
  <2>3. CountsTurns' /\ HandedOut'
    BY <2>2 DEF PlaceInv, CountsTurns, HandedOut, Handed
  <2> QED BY <2>1, <2>3 DEF PlaceInv
<1>2. CASE Next
  <2>1. status = "running" /\ UNCHANGED <<list, request>>
    BY <1>2 DEF Next
  <2> QED BY <1>2, <2>1, StepReduce, StepFirstPassTurn, StepSecondPassTurn,
             StepNextClient, StepEndPass DEF Next
<1> QED BY <1>1, <1>2

LEMMA PlaceHolds == Spec => []PlaceInv
BY PlaceInit, PlaceStep, PTL DEF Spec

(* Every state the function reaches has the types its variables state: the *)
(* loops stay on the list, the index is a word taken as an int, the count  *)
(* of the second pass never exceeds it, nor leaves 0 when it is negative,  *)
(* and no call ends with -ESRCH.                                           *)
THEOREM TypeCorrect == Spec => []TypeOK
<1>1. PlaceInv => TypeOK
  BY DEF PlaceInv
<1> QED BY <1>1, PlaceHolds, PTL

(* The iterator and the other functions of the database agree: the         *)
(* callback sees addresses that client_addr_exist() finds, and a call that *)
(* runs to its end calls it client_count() times, but for the bits that an *)
(* unsigned int loses and, when the index is negative, for the addresses   *)
(* before the offset, all of which are left out.                           *)
THEOREM CallbacksAreCounted == Spec => []CountsAgree
<1>1. ASSUME PlaceInv, status = "done"
      PROVE  Uint(Len(visited) + IF client_index < 0 THEN Start ELSE 0)
               = client_count(list)
  <2>1. /\ pass = 2 /\ client_index_aux = At /\ Len(visited) = Handed
        /\ client_index_aux = IF client_index > 0 THEN client_index ELSE 0
    BY <1>1 DEF PlaceInv, EndIs, CountsTurns, HandedOut
  <2>2. Handed = (Total - Start) + At
    BY <2>1 DEF Handed
  <2>3. /\ Total \in Nat /\ At \in Nat /\ Start \in Nat /\ client_index \in Int
        /\ IF FitsInt THEN client_index = Start ELSE client_index < 0
    BY <1>1, <2>1, NumbersAre
  <2> DEFINE leftOut == IF client_index < 0 THEN Start ELSE 0
  <2>4. Len(visited) + leftOut = Total
    <3>1. Len(visited) = (Total - Start) + At
      BY <2>1, <2>2
    <3>2. CASE client_index < 0
      <4>1. At = 0 /\ leftOut = Start
        BY <2>1, <2>3, <3>2
      <4> QED BY <2>3, <3>1, <4>1
    <3>3. CASE ~(client_index < 0)
      <4>1. At = Start /\ leftOut = 0
        BY <2>1, <2>3, <3>3
      <4> QED BY <2>3, <3>1, <4>1
    <3> QED BY <3>2, <3>3
  <2> QED BY <1>1, <2>4, NumbersAre, CountIsSize DEF Total
<1>2. PlaceInv => CountsAgree
  BY <1>1 DEF PlaceInv, HandedOut, CountsAgree
<1> QED BY <1>2, PlaceHolds, PTL

-----------------------------------------------------------------------------
(* The addresses in list order, by their numbers.                          *)

LEMMA SizesOrdered ==
  ASSUME NEW l \in Seq(Prefix), NEW n \in 0 .. Len(l), NEW m \in 0 .. n
  PROVE  Size(l, m) \in Nat /\ Size(l, n) \in Nat /\ Size(l, m) <= Size(l, n)
<1>1. DOMAIN l = 1 .. Len(l) /\ Len(l) \in Nat
  BY LenProperties
<1>2. 1 .. n \in SUBSET DOMAIN l /\ 1 .. m \in SUBSET 1 .. n
  BY <1>1
<1>3. TurnsOf(l, 1 .. m) \in SUBSET TurnsOf(l, 1 .. n)
  BY <1>2 DEF TurnsOf
<1>4. IsFiniteSet(TurnsOf(l, 1 .. n))
  BY <1>2, TurnsFinite
<1>5. Size(l, m) <= Size(l, n)
  BY <1>3, <1>4, FS_Subset DEF Size
<1>6. m \in 0 .. Len(l)
  BY <1>1
<1> QED BY <1>5, <1>6, SizeGrows

LEMMA WalkType ==
  ASSUME NEW p \in ipv6_prefix
  PROVE  Walk(p) \in Seq(in6_addr) /\ Len(Walk(p)) = get_addr6_count(p)
<1> DEFINE c == get_addr6_count(p)
           S == {n \in 0 .. c - 1 : Walk(p)[n + 1] \in in6_addr}
<1>1. c \in Nat /\ DOMAIN Walk(p) = 1 .. c
  BY CountIsNat, WalkIs
<1>2. ASSUME NEW j \in 1 .. c PROVE Walk(p)[j] \in in6_addr
  <2>1. c - 1 \in Nat /\ 0 \in 0 .. c - 1
    BY <1>1, <1>2
  <2>2. 0 \in S
    <3>1. 1 \in DOMAIN Walk(p) /\ p.address \in in6_addr
      BY <1>1, <1>2 DEF ipv6_prefix
    <3>2. Walk(p)[0 + 1] \in in6_addr
      BY <3>1, WalkIs
    <3> QED BY <2>1, <3>2
  <2>3. ASSUME NEW n \in 0 .. c - 1, n \in S, n < c - 1 PROVE n + 1 \in S
    <3>1. /\ n + 1 \in Nat /\ n + 1 \in DOMAIN Walk(p)
          /\ (n + 1) + 1 \in DOMAIN Walk(p) /\ n + 1 \in 0 .. c - 1
      BY <1>1, <2>3
    <3>2. Walk(p)[(n + 1) + 1] = addr6_iterations(Walk(p)[n + 1])
      BY <3>1, WalkIs
    <3>3. Walk(p)[(n + 1) + 1] \in in6_addr
      BY <2>3, <3>2, NextAddrType
    <3> QED BY <3>1, <3>3
  <2>4. 0 .. c - 1 \subseteq S
    <3> HIDE DEF S, c
    <3> QED BY <2>1, <2>2, <2>3, Upwards
  <2>5. j - 1 \in 0 .. c - 1 /\ (j - 1) + 1 = j
    BY <1>1
  <2> QED BY <2>4, <2>5
<1>3. Walk(p) = [j \in 1 .. c |-> Walk(p)[j]]
  BY <1>1 DEF Walk
<1>4. Walk(p) \in [1 .. c -> in6_addr]
  BY <1>2, <1>3
<1>5. Len(Walk(p)) = c
  <2> HIDE DEF c
  <2> QED BY <1>1, <1>3, TableLength
<1> QED BY <1>1, <1>4, <1>5, SeqDef

(* The j-th address of a node comes after those of the nodes before it.    *)
LEMMA FlatIs ==
  ASSUME NEW l \in Seq(Prefix), Len(l) # 0,
         NEW flat, flat = FlattenSeq([n \in DOMAIN l |-> Walk(l[n])])
  PROVE  /\ flat \in Seq(in6_addr) /\ Len(flat) = Size(l, Len(l))
         /\ \A m \in DOMAIN l : \A j \in 1 .. get_addr6_count(l[m]) :
              flat[Size(l, m - 1) + j] = Walk(l[m])[j]
<1> DEFINE N == Len(l)
           w == [n \in DOMAIN l |-> Walk(l[n])]
           Is(f) == f = [j \in 1 .. N |->
                           IF j = 1 THEN w[j] ELSE f[j - 1] \o w[j]]
           f == CHOOSE f : Is(f)
           Places(n) == \A m \in 1 .. n : \A j \in 1 .. get_addr6_count(l[m]) :
                          f[n][Size(l, m - 1) + j] = Walk(l[m])[j]
           Good(n) == /\ f[n] \in Seq(in6_addr) /\ Len(f[n]) = Size(l, n)
                      /\ Places(n)
           S == {n \in 0 .. N : n # 0 => Good(n)}
<1>1. /\ N \in Nat /\ DOMAIN l = 1 .. N
      /\ \A n \in 1 .. N : w[n] = Walk(l[n]) /\ l[n] \in ipv6_prefix
  <2>1. N \in Nat /\ DOMAIN l = 1 .. N
    BY LenProperties
  <2>2. \A n \in 1 .. N : l[n] \in Prefix
    BY LenProperties
  <2> QED BY <2>1, <2>2, ClientAssumption
<1>2. Len(w) = N
  <2> DEFINE v == w
  <2>1. v = [n \in 1 .. N |-> v[n]]
    BY <1>1
  <2> HIDE DEF v, N
  <2>2. Len(v) = N
    BY <1>1, <2>1, TableLength
  <2> QED BY <2>2 DEF v
<1>3. Is(f)
  <2> HIDE DEF w, N
  <2>1. \E g : Is(g)
    BY <1>1, FlatExists
  <2> QED BY <2>1
<1>4. flat = f[N]
  BY <1>2 DEF FlattenSeq
<1> HIDE DEF f, w
<1>5. /\ f[1] = Walk(l[1])
      /\ \A n \in 1 .. N : n # 1 => f[n] = f[n - 1] \o Walk(l[n])
  <2>1. 1 \in 1 .. N
    BY <1>1
  <2> QED BY <1>1, <1>3, <2>1
<1>6. \A n \in 1 .. N : /\ Walk(l[n]) \in Seq(in6_addr)
                        /\ Len(Walk(l[n])) = get_addr6_count(l[n])
  BY <1>1, WalkType
<1>7. \A n \in 1 .. N : /\ get_addr6_count(l[n]) \in Nat
                        /\ Size(l, n - 1) \in Nat
                        /\ Size(l, n) = Size(l, n - 1) + get_addr6_count(l[n])
  BY <1>1, SizeGrows
<1>8. ASSUME NEW n \in 0 .. N, n \in S, n < N PROVE n + 1 \in S
  <2> DEFINE c == get_addr6_count(l[n + 1])
  <2>1. /\ n + 1 \in 1 .. N /\ n + 1 \in 0 .. N /\ (n + 1) - 1 = n
        /\ n \in Nat /\ n \in 0 .. N
    BY <1>1, <1>8
  <2>2. /\ Walk(l[n + 1]) \in Seq(in6_addr) /\ Len(Walk(l[n + 1])) = c
        /\ c \in Nat /\ Size(l, n) \in Nat /\ Size(l, n + 1) = Size(l, n) + c
    BY <1>6, <1>7, <2>1
  <2>3. CASE n = 0
    <3>1. f[n + 1] = Walk(l[n + 1]) /\ Size(l, n) = 0
      BY <1>5, <2>3, SizeGrows
    <3>2. f[n + 1] \in Seq(in6_addr) /\ Len(f[n + 1]) = Size(l, n + 1)
      BY <2>2, <3>1
    <3>3. Places(n + 1)
      <4> SUFFICES ASSUME NEW m \in 1 .. n + 1,
                          NEW j \in 1 .. get_addr6_count(l[m])
                   PROVE  f[n + 1][Size(l, m - 1) + j] = Walk(l[m])[j]
        OBVIOUS
      <4>1. m = n + 1 /\ m - 1 = n
        BY <2>3
      <4>2. Size(l, m - 1) = 0
        BY <3>1, <4>1
      <4>3. Size(l, m - 1) + j = j
        BY <4>2
      <4> QED BY <3>1, <4>1, <4>3
    <3> QED BY <2>1, <3>2, <3>3
  <2>4. CASE n # 0
    <3>1. Good(n)
      BY <1>8, <2>4
    <3>2. f[n + 1] = f[n] \o Walk(l[n + 1])
      <4>1. n + 1 # 1
        BY <2>1, <2>4
      <4>2. f[n + 1] = f[(n + 1) - 1] \o Walk(l[n + 1])
        BY <1>5, <2>1, <4>1
      <4> QED BY <2>1, <4>2
    <3>3. /\ f[n + 1] \in Seq(in6_addr) /\ Len(f[n + 1]) = Size(l, n) + c
          /\ \A x \in 1 .. Size(l, n) + c :
               f[n + 1][x] = IF x <= Size(l, n) THEN f[n][x]
                             ELSE Walk(l[n + 1])[x - Size(l, n)]
      <4>1. /\ f[n] \o Walk(l[n + 1]) \in Seq(in6_addr)
            /\ Len(f[n] \o Walk(l[n + 1]))
                 = Len(f[n]) + Len(Walk(l[n + 1]))
            /\ \A x \in 1 .. Len(f[n]) + Len(Walk(l[n + 1])) :
                 (f[n] \o Walk(l[n + 1]))[x] =
                   IF x <= Len(f[n]) THEN f[n][x]
                   ELSE Walk(l[n + 1])[x - Len(f[n])]
        BY <2>2, <3>1, ConcatProperties
      <4> QED BY <2>2, <3>1, <3>2, <4>1
    <3>4. Places(n + 1)
      <4> SUFFICES ASSUME NEW m \in 1 .. n + 1,
                          NEW j \in 1 .. get_addr6_count(l[m])
                   PROVE  f[n + 1][Size(l, m - 1) + j] = Walk(l[m])[j]
        OBVIOUS
      <4>1. CASE m = n + 1
        <5>1. m - 1 = n /\ j \in 1 .. c
          BY <2>1, <4>1
        <5> HIDE DEF c
        <5>2. /\ Size(l, n) + j \in 1 .. Size(l, n) + c
              /\ ~(Size(l, n) + j <= Size(l, n))
              /\ (Size(l, n) + j) - Size(l, n) = j
          BY <2>2, <5>1
        <5>3. f[n + 1][Size(l, n) + j] = Walk(l[n + 1])[j]
          BY <3>3, <5>2
        <5> QED BY <4>1, <5>1, <5>3
      <4>2. CASE m # n + 1
        <5>1. m \in 1 .. n /\ m \in 1 .. N /\ m \in 0 .. n
          BY <2>1, <4>2
        <5>2. /\ Size(l, m - 1) \in Nat /\ get_addr6_count(l[m]) \in Nat
              /\ Size(l, m) = Size(l, m - 1) + get_addr6_count(l[m])
              /\ Size(l, m) <= Size(l, n) /\ Size(l, m) \in Nat
          BY <1>7, <2>1, <5>1, SizesOrdered
        <5>a. j \in 1 .. get_addr6_count(l[m]) /\ c \in Nat /\ Size(l, n) \in Nat
          BY <2>2
        <5> HIDE DEF c
        <5>3. /\ Size(l, m - 1) + j \in 1 .. Size(l, n) + c
              /\ Size(l, m - 1) + j <= Size(l, n)
          BY <5>a, <5>2
        <5>4. f[n + 1][Size(l, m - 1) + j] = f[n][Size(l, m - 1) + j]
          BY <3>3, <5>3
        <5> QED BY <3>1, <5>1, <5>4
      <4> QED BY <4>1, <4>2
    <3> QED BY <2>1, <2>2, <3>3, <3>4
  <2> QED BY <2>3, <2>4
<1>9. N \in S
  <2>1. 0 \in S
    BY <1>1
  <2>2. 0 .. N \subseteq S
    <3> HIDE DEF S, N
    <3> QED BY <1>1, <1>8, <2>1, Upwards
  <2> QED BY <1>1, <2>2
<1>10. Good(N)
  BY <1>9
<1> QED BY <1>1, <1>4, <1>10

-----------------------------------------------------------------------------
(* The rotation: what was handed out are the addresses from the offset on  *)
(* and around, as many as the turns behind say.                            *)
VisitedIs == visited = Promise!Around(Start, Handed)

IInv == PlaceInv /\ VisitedIs

LEMMA AddressesAre ==
  ASSUME PlaceInv, pass # 0
  PROVE  /\ Addresses \in Seq(in6_addr) /\ Len(Addresses) = Total /\ Total > 0
         /\ InPrefix => Addresses[At + 1] = dummy
<1>1. /\ list \in Seq(Prefix) /\ Len(list) \in Nat /\ Total \in Nat
      /\ Start \in Nat /\ Start < Total /\ i \in Nat
  BY NumbersAre
<1>2. Len(list) # 0
  <2>1. Size(list, 0) = 0
    BY <1>1, SizeGrows
  <2> QED BY <1>1, <2>1 DEF Total
<1>3. /\ Addresses \in Seq(in6_addr) /\ Len(Addresses) = Total
      /\ \A m \in DOMAIN list : \A j \in 1 .. get_addr6_count(list[m]) :
           Addresses[Size(list, m - 1) + j] = Walk(list[m])[j]
  BY <1>1, <1>2, FlatIs DEF Addresses, Total
<1>4. ASSUME InPrefix PROVE Addresses[At + 1] = dummy
  <2>1. /\ k \in DOMAIN list /\ i < get_addr6_count(list[k])
        /\ get_addr6_count(list[k]) \in Nat
        /\ dummy = Walk(list[k])[i + 1]
    BY <1>4, TurnHere DEF InPrefix
  <2>2. i + 1 \in 1 .. get_addr6_count(list[k])
    BY <1>1, <2>1
  <2>3. Addresses[Size(list, k - 1) + (i + 1)] = dummy
    BY <1>3, <2>1, <2>2
  <2>4. Size(list, k - 1) \in Nat
    BY <1>1, <2>1, SizeGrows
  <2>5. At + 1 = Size(list, k - 1) + (i + 1)
    BY <1>1, <2>4 DEF At
  <2> QED BY <2>3, <2>5
<1> QED BY <1>1, <1>3, <1>4

LEMMA AroundIs ==
  ASSUME PlaceInv, pass # 0, NEW start, NEW n \in Nat
  PROVE  /\ Promise!Around(start, n) =
              [j \in 1 .. n |-> Addresses[((start + j - 1) % Total) + 1]]
         /\ Len(Promise!Around(start, n)) = n
<1>1. Promise!Around(start, n) =
        [j \in 1 .. n |-> Addresses[((start + j - 1) % Total) + 1]]
  BY AddressesAre DEF Promise!Around
<1> DEFINE f == Promise!Around(start, n)
<1>2. f = [j \in 1 .. n |-> f[j]]
  BY <1>1
<1> HIDE DEF f
<1>3. Len(f) = n
  BY <1>2, TableLength
<1> QED BY <1>1, <1>3 DEF f

(* The reduced offset is where the rotation may start.                     *)
LEMMA StartIsOne ==
  ASSUME PlaceInv, pass # 0
  PROVE  Start \in Promise!Starts
<1>1. /\ Len(Addresses) = Total /\ Total \in Nat
      /\ Start \in Nat /\ Start < Total
  BY AddressesAre, NumbersAre
<1>2. Start = request % client_count(list)
  BY DEF Start
<1> QED BY <1>1, <1>2 DEF Promise!Starts

(* A turn that calls back hands out the next address of the rotation.      *)
LEMMA HandsOutNext ==
  ASSUME PlaceInv, VisitedIs, InPrefix, CallBack, Handed' = Handed + 1,
         IF pass = 1 THEN Start <= At ELSE At < client_index,
         UNCHANGED <<list, request>>
  PROVE  VisitedIs' /\ Promise!Visit
<1>1. /\ At \in Nat /\ At < Total /\ Total \in Nat /\ Start \in Nat
      /\ Start < Total /\ pass # 0 /\ pass \in {1, 2}
      /\ client_index \in Int
      /\ IF FitsInt THEN client_index = Start ELSE client_index < 0
  BY TurnHere, NumbersAre DEF PlaceInv, TypeOK
<1>2. /\ Addresses \in Seq(in6_addr) /\ Len(Addresses) = Total
      /\ Addresses[At + 1] = dummy
  BY <1>1, AddressesAre
<1>3. Handed = IF pass = 1 THEN At - Start ELSE (Total - Start) + At
  BY <1>1 DEF Handed
<1>4. /\ Handed \in Nat /\ Handed < Total
      /\ FitsInt \/ Start + Handed < Total
      /\ Start + Handed = At \/ Start + Handed = At + Total
  BY <1>1, <1>3
<1>5. (Start + (Handed + 1) - 1) % Total = At
  <2>1. /\ Start + (Handed + 1) - 1 = Start + Handed
        /\ At % Total = At /\ (At + Total) % Total = At
    BY <1>1, <1>4
  <2> QED BY <1>4, <2>1
<1> DEFINE g == Promise!Around(Start, Handed + 1)
           S == {g[j] : j \in 1 .. Handed + 1}
<1>6. g = [j \in 1 .. Handed + 1 |->
             Addresses[((Start + j - 1) % Total) + 1]]
  <2>1. Handed + 1 \in Nat
    BY <1>4
  <2> QED BY <1>1, <2>1, AroundIs
<1>7. /\ visited = [j \in 1 .. Handed |->
                      Addresses[((Start + j - 1) % Total) + 1]]
      /\ Len(visited) = Handed
  BY <1>1, <1>4, AroundIs DEF VisitedIs
<1> HIDE DEF g
<1>8. /\ g \in [1 .. Handed + 1 -> S] /\ visited \in [1 .. Handed -> S]
      /\ \A j \in 1 .. Handed : g[j] = visited[j]
  <2>1. \A j \in 1 .. Handed : j \in 1 .. Handed + 1
    BY <1>4
  <2>2. \A j \in 1 .. Handed : g[j] = visited[j]
    BY <2>1, <1>6, <1>7
  <2> QED BY <2>1, <2>2, <1>6, <1>7
<1>9. g[Handed + 1] = dummy
  <2>1. Handed + 1 \in 1 .. Handed + 1
    BY <1>4
  <2> QED BY <2>1, <1>2, <1>5, <1>6
<1>10. Append(visited, dummy) = g
  <2> HIDE DEF S
  <2>1. Append(visited, g[Handed + 1]) = g
    BY <1>4, <1>8, AppendTable
  <2> QED BY <2>1, <1>9
<1>11. visited' = g /\ status' \in {"running", "stopped"}
  BY <1>10 DEF CallBack
<1>12. Start \in Promise!Starts
  BY <1>1, StartIsOne
<1>13. VisitedIs'
  <2>1. Addresses' = Addresses /\ Start' = Start
    BY DEF Addresses, Start
  <2>2. Promise!Around(Start, Handed)' =
          [j \in 1 .. Handed' |->
             Addresses'[((Start' + j - 1) % Len(Addresses')) + 1]]
    BY DEF Promise!Around
  <2>3. Promise!Around(Start, Handed)' = g
    BY <1>2, <1>6, <2>1, <2>2
  <2> QED BY <1>11, <2>3 DEF VisitedIs
<1>14. Promise!Visit
  <2>1. /\ Len(visited) < Len(Addresses)
        /\ FitsInt \/ Start + Len(visited) < Len(Addresses)
    BY <1>2, <1>4, <1>7
  <2>2. /\ visited = Promise!Around(Start, Len(visited))
        /\ visited' = Promise!Around(Start, Len(visited) + 1)
    BY <1>7, <1>11 DEF VisitedIs, g
  <2> QED BY <1>11, <1>12, <2>1, <2>2 DEF Promise!Visit
<1> QED BY <1>13, <1>14

(* Nothing is handed out by a step that hands over no address.             *)
LEMMA SilentStep ==
  ASSUME VisitedIs, UNCHANGED <<list, request>>, visited' = visited,
         Handed' = Handed
  PROVE  VisitedIs'
<1>1. visited = [j \in 1 .. Handed |->
                   Addresses[((Start + j - 1) % Len(Addresses)) + 1]]
  BY DEF VisitedIs, Promise!Around
<1>2. Addresses' = Addresses /\ Start' = Start
  BY DEF Addresses, Start
<1>3. Promise!Around(Start, Handed)' =
        [j \in 1 .. Handed' |->
           Addresses'[((Start' + j - 1) % Len(Addresses')) + 1]]
  BY DEF Promise!Around
<1> QED BY <1>1, <1>2, <1>3 DEF VisitedIs

LEMMA RotationInit == Init => VisitedIs /\ Promise!Init
<1> SUFFICES ASSUME Init PROVE VisitedIs /\ Promise!Init
  OBVIOUS
<1>1. Handed = 0 /\ visited = << >>
  BY DEF Init, Handed
<1>2. Promise!Around(Start, 0) = << >>
  BY DEF Promise!Around
<1>3. request \in Nat
  BY ForeachClientAssumption DEF Init
<1> QED BY <1>1, <1>2, <1>3 DEF VisitedIs, Init, Promise!Init

(* Each step of the loops is a step of the rotation or leaves it alone.    *)
LEMMA RotationStep ==
  IInv /\ [Next]_vars => VisitedIs' /\ [Promise!Next]_(Promise!vars)
<1> SUFFICES ASSUME PlaceInv, VisitedIs, [Next]_vars
             PROVE  VisitedIs' /\ [Promise!Next]_(Promise!vars)
  BY DEF IInv
<1> USE DEF Promise!vars
<1>1. list' = list => /\ Addresses' = Addresses /\ Total' = Total
                      /\ client_count(list)' = client_count(list)
                      /\ request' = request => Start' = Start
                      /\ request' = request => FitsInt' = FitsInt
  BY DEF Addresses, Total, Start, FitsInt
<1>2. CASE UNCHANGED vars
  <2>1. Handed' = Handed
    BY <1>1, <1>2 DEF vars, Handed, At
  <2> QED BY <1>1, <1>2, <2>1, SilentStep DEF vars
<1>3. ASSUME Reduce, status = "running", UNCHANGED <<list, request>>
      PROVE  VisitedIs' /\ [Promise!Next]_(Promise!vars)
  <2>1. pass = 0 /\ UNCHANGED visited /\ Handed = 0
    BY <1>3 DEF Reduce, Handed
  <2>2. CASE client_count(list) = 0
    <3>1. status' = "trap" /\ UNCHANGED pass
      BY <1>3, <2>1, <2>2 DEF Reduce
    <3>2. Handed' = Handed
      BY <2>1, <3>1 DEF Handed
    <3>3. Promise!Trap
      BY <2>1, <2>2, <3>1 DEF Promise!Trap
    <3> QED BY <1>1, <1>3, <2>1, <3>2, <3>3, SilentStep DEF Promise!Next
  <2>3. CASE client_count(list) # 0
    <3>1. BeginPass(1) /\ UNCHANGED status
      BY <1>3, <2>1, <2>3 DEF Reduce
    <3>2. pass' = 1 /\ At' = 0
      BY <1>3, <3>1, PassBegins
    <3>3. Start \in Nat
      BY <2>3, NumbersAre, StartType
    <3>4. Handed' = 0
      BY <1>1, <1>3, <3>2, <3>3 DEF Handed
    <3> QED BY <1>1, <1>3, <2>1, <3>1, <3>4, SilentStep
  <2> QED BY <2>2, <2>3
<1>4. ASSUME FirstPassTurn, status = "running", UNCHANGED <<list, request>>
      PROVE  VisitedIs' /\ [Promise!Next]_(Promise!vars)
  <2>1. /\ pass = 1 /\ InPrefix /\ i' = i + 1
        /\ dummy' = addr6_iterations(dummy)
        /\ UNCHANGED <<client_index, client_index_aux, pass, k>>
    BY <1>4 DEF FirstPassTurn
  <2>2. At' = At + 1
    BY <1>4, <2>1, TurnGoesOn
  <2>3. /\ At \in Nat /\ Start \in Nat /\ Start' = Start
        /\ offset = IF At < Start THEN Start - At ELSE 0
    BY <1>1, <1>4, <2>1, TurnHere, NumbersAre DEF PlaceInv, CountsTurns
  <2>4. CASE offset = 0
    <3>1. CallBack
      BY <1>4, <2>4 DEF FirstPassTurn
    <3>2. Start <= At /\ Handed' = Handed + 1
      BY <2>1, <2>2, <2>3, <2>4 DEF Handed
    <3>3. VisitedIs' /\ Promise!Visit
      BY <1>4, <2>1, <3>1, <3>2, HandsOutNext
    <3> QED BY <1>1, <1>4, <3>3 DEF Promise!Next
  <2>5. CASE offset # 0
    <3>1. UNCHANGED <<visited, status>>
      BY <1>4, <2>5 DEF FirstPassTurn
    <3>2. Handed' = Handed
      BY <2>1, <2>2, <2>3, <2>5 DEF Handed
    <3> QED BY <1>1, <1>4, <2>1, <3>1, <3>2, SilentStep
  <2> QED BY <2>4, <2>5
<1>5. ASSUME SecondPassTurn, status = "running", UNCHANGED <<list, request>>
      PROVE  VisitedIs' /\ [Promise!Next]_(Promise!vars)
  <2>1. /\ pass = 2 /\ InPrefix /\ UNCHANGED <<offset, client_index, pass, k>>
    BY <1>5 DEF SecondPassTurn
  <2>2. /\ At \in Nat /\ client_index \in Int /\ client_index_aux = At
        /\ client_index_aux \in 0 .. IF client_index > 0 THEN client_index ELSE 0
        /\ Total \in Nat /\ Start \in Nat /\ Start < Total
        /\ IF FitsInt THEN client_index = Start ELSE client_index < 0
    BY <2>1, TurnHere, NumbersAre DEF PlaceInv, CountsTurns, TypeOK
  <2>3. CASE Behind
    <3>1. CallBack /\ dummy' = addr6_iterations(dummy) /\ i' = i + 1
      BY <1>5, <2>3 DEF SecondPassTurn
    <3>2. At' = At + 1
      BY <1>5, <2>1, <3>1, TurnGoesOn
    <3>3. At < client_index /\ Handed' = Handed + 1
      BY <1>1, <1>5, <2>1, <2>2, <2>3, <3>2 DEF Handed, Behind
    <3>4. VisitedIs' /\ Promise!Visit
      BY <1>5, <2>1, <3>1, <3>3, HandsOutNext
    <3> QED BY <1>1, <1>5, <3>4 DEF Promise!Next
  <2>4. CASE ~Behind
    <3>1. status' = "done" /\ UNCHANGED <<visited, i>>
      BY <1>5, <2>4 DEF SecondPassTurn
    <3>2. At' = At /\ Handed' = Handed
      BY <1>1, <1>5, <2>1, <3>1 DEF Handed, At
    <3>3. Handed = (Total - Start) + At
      BY <2>1 DEF Handed
    <3>4. Handed = Total \/ (~FitsInt /\ Handed = Total - Start)
      BY <2>2, <2>4, <3>3 DEF Behind
    <3>5. /\ Len(visited) = Handed /\ Len(Addresses) = Total
          /\ visited = Promise!Around(Start, Handed)
          /\ Start \in Promise!Starts
      BY <2>1, AddressesAre, StartIsOne DEF PlaceInv, HandedOut, VisitedIs
    <3>6. Promise!Finish
      BY <3>1, <3>4, <3>5 DEF Promise!Finish
    <3> QED BY <1>1, <1>5, <2>1, <3>1, <3>2, <3>6, SilentStep DEF Promise!Next
  <2> QED BY <2>3, <2>4
<1>6. ASSUME NextClient, status = "running", UNCHANGED <<list, request>>
      PROVE  VisitedIs' /\ [Promise!Next]_(Promise!vars)
  <2>1. UNCHANGED <<client_index, pass, visited, status>>
    BY <1>6 DEF NextClient
  <2>2. At' = At
    BY <1>6, StepNextClient
  <2>3. Handed' = Handed
    BY <1>1, <1>6, <2>1, <2>2 DEF Handed
  <2> QED BY <1>1, <1>6, <2>1, <2>3, SilentStep
<1>7. ASSUME EndPass, status = "running", UNCHANGED <<list, request>>
      PROVE  VisitedIs' /\ [Promise!Next]_(Promise!vars)
  <2>1. UNCHANGED <<client_index, visited, status>> /\ Handed' = Handed
    BY <1>7, StepEndPass DEF EndPass
  <2> QED BY <1>1, <1>7, <2>1, SilentStep
<1> QED BY <1>2, <1>3, <1>4, <1>5, <1>6, <1>7 DEF Next

(* The two passes implement the rotation: whatever the prefixes, the       *)
(* offset and the answers of the callback, every address is handed out     *)
(* once, in list order, from the address the offset points at unless the   *)
(* count of the clients wraps around, and around to the addresses before   *)
(* it; they are left out exactly when the reduced offset does not fit the  *)
(* int it is kept in.                                                      *)
THEOREM ImplementsRotation == Spec => Rotates
<1>1. Init => IInv /\ Promise!Init
  BY PlaceInit, RotationInit DEF IInv
<1>2. IInv /\ [Next]_vars => IInv' /\ [Promise!Next]_(Promise!vars)
  BY PlaceStep, RotationStep DEF IInv
<1> QED BY <1>1, <1>2, PTL DEF Spec, Rotates, Promise!Safety
-----------------------------------------------------------------------------
(* Nothing is handed out twice by one node.  The successors rise in the    *)
(* order of their three lower words until those are full.                  *)
Lower(a, b) ==
  \/ a[2] < b[2]
  \/ a[2] = b[2] /\ a[3] < b[3]
  \/ a[2] = b[2] /\ a[3] = b[3] /\ a[4] < b[4]

LEMMA LowerOrders ==
  ASSUME NEW a \in in6_addr, NEW b \in in6_addr
  PROVE  /\ ~Lower(a, a)
         /\ \A c \in in6_addr : Lower(a, b) /\ Lower(b, c) => Lower(a, c)
<1>1. \A c \in in6_addr : \A w \in 1 .. 4 : c[w] \in Nat
  BY WordIs DEF in6_addr
<1> QED BY <1>1 DEF Lower

LEMMA NextRises ==
  ASSUME NEW a \in in6_addr
  PROVE  IF LowWordsFull(a) THEN addr6_iterations(a) = a
         ELSE Lower(a, addr6_iterations(a))
<1>1. \A w \in 1 .. 4 : a[w] \in Nat
  BY WordIs DEF in6_addr
<1>2. DOMAIN a = 1 .. 4
  BY DEF in6_addr
<1>3. LowWordsFull(a) <=> a[2] = MAXipv6 /\ a[3] = MAXipv6 /\ a[4] = MAXipv6
  BY DEF LowWordsFull
<1> QED BY <1>1, <1>2, <1>3 DEF addr6_iterations, Lower

LEMMA WalkRises ==
  ASSUME NEW p \in ipv6_prefix, NEW t \in DOMAIN Walk(p),
         NEW u \in DOMAIN Walk(p), t < u
  PROVE  Walk(p)[u] \in in6_addr
         /\ (LowWordsFull(Walk(p)[u]) \/ Lower(Walk(p)[t], Walk(p)[u]))
<1> DEFINE c == get_addr6_count(p)
           a(n) == Walk(p)[n]
           Above(n) == LowWordsFull(a(n)) \/ Lower(a(t), a(n))
           S == {n \in 0 .. c - t - 1 : Above(t + n + 1)}
<1>1. c \in Nat /\ DOMAIN Walk(p) = 1 .. c /\ t \in 1 .. c /\ u \in 1 .. c
  BY CountIsNat, WalkIs
<1>2. \A n \in 1 .. c : a(n) \in in6_addr
  BY <1>1, WalkType
<1>3. \A n \in 1 .. c : n + 1 \in 1 .. c => a(n + 1) = addr6_iterations(a(n))
  <2> SUFFICES ASSUME NEW n \in 1 .. c, n + 1 \in 1 .. c
               PROVE  a(n + 1) = addr6_iterations(a(n))
    OBVIOUS
  <2>1. n \in Nat
    BY <1>1
  <2> QED BY <1>1, <2>1, WalkIs
<1> HIDE DEF c, a
<1>4. c - t - 1 \in Nat /\ u - t - 1 \in 0 .. c - t - 1
  BY <1>1
<1>5. 0 \in S
  <2>1. t + 1 \in 1 .. c /\ t + 0 + 1 = t + 1 /\ 0 \in 0 .. c - t - 1
    BY <1>1, <1>4
  <2>2. a(t + 1) = addr6_iterations(a(t)) /\ a(t) \in in6_addr
    BY <1>1, <1>2, <1>3, <2>1
  <2>3. Above(t + 1)
    BY <2>2, NextRises
  <2> QED BY <2>1, <2>3
<1>6. ASSUME NEW n \in 0 .. c - t - 1, n \in S, n < c - t - 1 PROVE n + 1 \in S
  <2> DEFINE m == t + n + 1
  <2>1. /\ m \in 1 .. c /\ m + 1 \in 1 .. c /\ n + 1 \in 0 .. c - t - 1
        /\ t + (n + 1) + 1 = m + 1
    BY <1>1, <1>6
  <2>2. Above(m)
    BY <1>6
  <2> HIDE DEF m
  <2>3. /\ a(m + 1) = addr6_iterations(a(m)) /\ a(m) \in in6_addr
        /\ a(m + 1) \in in6_addr /\ a(t) \in in6_addr
    BY <1>1, <1>2, <1>3, <2>1
  <2>4. Above(m + 1)
    <3>1. CASE LowWordsFull(a(m))
      BY <2>3, <3>1, NextRises
    <3>2. CASE ~LowWordsFull(a(m))
      <4>1. Lower(a(t), a(m)) /\ Lower(a(m), a(m + 1))
        BY <2>2, <2>3, <3>2, NextRises
      <4> QED BY <2>3, <4>1, LowerOrders
    <3> QED BY <3>1, <3>2
  <2> QED BY <2>1, <2>4
<1>7. 0 .. c - t - 1 \subseteq S
  <2> HIDE DEF S
  <2> QED BY <1>4, <1>5, <1>6, Upwards
<1>8. Above(u)
  <2>1. u - t - 1 \in S
    <3> HIDE DEF S
    <3> QED BY <1>4, <1>7
  <2>2. t + (u - t - 1) + 1 = u
    BY <1>1
  <2>3. Above(t + (u - t - 1) + 1)
    BY <2>1
  <2> QED BY <2>2, <2>3
<1> QED BY <1>1, <1>2, <1>8 DEF a

(* Each number of an address is that of a turn of some node.               *)
LEMMA NumberIsTurn ==
  ASSUME NEW l \in Seq(Prefix), NEW q \in 1 .. Size(l, Len(l))
  PROVE  \E m \in DOMAIN l : \E j \in 1 .. get_addr6_count(l[m]) :
           q = Size(l, m - 1) + j
<1> DEFINE N == Len(l)
           S == {m \in 0 .. N : q <= Size(l, m)}
<1>1. N \in Nat /\ DOMAIN l = 1 .. N
  BY LenProperties
<1>2. Size(l, N) \in Nat /\ q \in Nat /\ q <= Size(l, N) /\ q # 0
  BY <1>1, SizeGrows
<1>3. Size(l, 0) = 0
  BY SizeGrows
<1> HIDE DEF N
<1>4. S \in SUBSET Int /\ IsFiniteSet(S) /\ N \in S
  <2>1. IsFiniteSet(0 .. N)
    BY <1>1, FS_Interval
  <2>2. S \in SUBSET (0 .. N)
    OBVIOUS
  <2>3. N \in S
    BY <1>1, <1>2
  <2> HIDE DEF S
  <2>4. IsFiniteSet(S)
    BY <2>1, <2>2, FS_Subset
  <2> QED BY <1>1, <2>2, <2>3, <2>4
<1>5. PICK m \in S : \A n \in S : m <= n
  <2> HIDE DEF S
  <2> QED BY <1>4, LeastExists
<1>6. m \in 1 .. N /\ m - 1 \in 0 .. N /\ m - 1 \notin S
  BY <1>1, <1>2, <1>3, <1>5
<1>7. /\ Size(l, m - 1) \in Nat /\ get_addr6_count(l[m]) \in Nat
      /\ Size(l, m) = Size(l, m - 1) + get_addr6_count(l[m])
  BY <1>1, <1>6, SizeGrows
<1>8. q <= Size(l, m) /\ ~(q <= Size(l, m - 1))
  BY <1>5, <1>6
<1>9. /\ q - Size(l, m - 1) \in 1 .. get_addr6_count(l[m])
      /\ q = Size(l, m - 1) + (q - Size(l, m - 1))
  BY <1>2, <1>7, <1>8
<1> QED BY <1>1, <1>6, <1>9

LEMMA RemaindersDiffer ==
  ASSUME NEW t \in Nat, NEW a \in Nat, NEW b \in Nat,
         a < b, b < a + t, b < 2 * t
  PROVE  a % t \in 0 .. t - 1 /\ b % t \in 0 .. t - 1 /\ a % t # b % t
<1>1. ASSUME NEW x \in Nat, x < t
      PROVE  x % t = x /\ (x + t) % t = x
  BY <1>1
<1>2. ASSUME NEW x \in Nat, x < 2 * t
      PROVE  x % t = IF x < t THEN x ELSE x - t
  <2>1. CASE x < t
    BY <1>1, <2>1
  <2>2. CASE ~(x < t)
    <3>1. x - t \in Nat /\ x - t < t /\ (x - t) + t = x
      BY <1>2, <2>2
    <3>2. ((x - t) + t) % t = x - t
      BY <1>1, <3>1
    <3> QED BY <2>2, <3>1, <3>2
  <2> QED BY <2>1, <2>2
<1>3. /\ a % t = IF a < t THEN a ELSE a - t
      /\ b % t = IF b < t THEN b ELSE b - t
  <2>1. a < 2 * t
    OBVIOUS
  <2> QED BY <1>2, <2>1
<1>4. a # b /\ a - t # b - t /\ a # b - t /\ (t <= a => t <= b)
  OBVIOUS
<1> QED BY <1>3, <1>4

(* Two numbers of one address belong to two nodes, or the address has no   *)
(* successor.                                                              *)
LEMMA TwiceOnlyIf ==
  ASSUME list \in Seq(Prefix), Len(list) # 0,
         NEW q \in 1 .. Total, NEW r \in 1 .. Total, q # r,
         Addresses[q] = Addresses[r]
  PROVE  \/ LowWordsFull(Addresses[q])
         \/ \E n, m \in DOMAIN list :
              n < m /\ HeldBy(n, Addresses[q]) /\ HeldBy(m, Addresses[q])
<1>1. /\ DOMAIN list = 1 .. Len(list) /\ Len(list) \in Nat
      /\ \A n \in DOMAIN list : list[n] \in ipv6_prefix
  BY LenProperties, ClientAssumption
<1>2. \A m \in DOMAIN list : \A j \in 1 .. get_addr6_count(list[m]) :
        /\ Addresses[Size(list, m - 1) + j] = Walk(list[m])[j]
        /\ j \in DOMAIN Walk(list[m]) /\ j \in Int
  <2>1. \A m \in DOMAIN list : \A j \in 1 .. get_addr6_count(list[m]) :
          Addresses[Size(list, m - 1) + j] = Walk(list[m])[j]
    BY FlatIs DEF Addresses
  <2>2. ASSUME NEW m \in DOMAIN list, NEW j \in 1 .. get_addr6_count(list[m])
        PROVE  j \in DOMAIN Walk(list[m]) /\ j \in Int
    BY <1>1, WalkIs, CountIsNat
  <2> QED BY <2>1, <2>2
<1>3. PICK n \in DOMAIN list : \E j \in 1 .. get_addr6_count(list[n]) :
        q = Size(list, n - 1) + j
  BY NumberIsTurn DEF Total
<1>4. PICK j \in 1 .. get_addr6_count(list[n]) : q = Size(list, n - 1) + j
  BY <1>3
<1>5. PICK m \in DOMAIN list : \E g \in 1 .. get_addr6_count(list[m]) :
        r = Size(list, m - 1) + g
  BY NumberIsTurn DEF Total
<1>6. PICK g \in 1 .. get_addr6_count(list[m]) : r = Size(list, m - 1) + g
  BY <1>5
<1> DEFINE addr == Addresses[q]
<1>7. /\ addr = Walk(list[n])[j] /\ j \in DOMAIN Walk(list[n]) /\ j \in Int
      /\ addr = Walk(list[m])[g] /\ g \in DOMAIN Walk(list[m]) /\ g \in Int
  BY <1>2, <1>4, <1>6
<1>8. HeldBy(n, addr) /\ HeldBy(m, addr)
  BY <1>7 DEF HeldBy
<1> HIDE DEF addr
<1>9. CASE n = m
  <2>1. j # g
    BY <1>4, <1>6, <1>9
  <2>2. CASE j < g
    <3>1. addr \in in6_addr /\ (LowWordsFull(addr) \/ Lower(addr, addr))
      BY <1>1, <1>7, <1>9, <2>2, WalkRises
    <3> QED BY <3>1, LowerOrders DEF addr
  <2>3. CASE g < j
    <3>1. addr \in in6_addr /\ (LowWordsFull(addr) \/ Lower(addr, addr))
      BY <1>1, <1>7, <1>9, <2>3, WalkRises
    <3> QED BY <3>1, LowerOrders DEF addr
  <2> QED BY <1>7, <2>1, <2>2, <2>3
<1>10. CASE n # m
  <2>1. n < m \/ m < n
    BY <1>1, <1>10
  <2> QED BY <1>8, <2>1 DEF addr
<1> QED BY <1>9, <1>10

(* No address comes back in one call of client_for_each() but the one that *)
(* addr6_iterations() has no successor for, and those two nodes hold: the  *)
(* places of one rotation are different numbers of the list.               *)
THEOREM NoneIsRepeated == Spec => []NoneRepeated
<1>1. Init => IInv
  BY PlaceInit, RotationInit DEF IInv
<1>2. IInv /\ [Next]_vars => IInv'
  BY PlaceStep, RotationStep DEF IInv
<1>3. IInv => NoneRepeated
  <2> SUFFICES ASSUME IInv, NEW turn \in 1 .. Len(visited) - 1,
                      visited[turn] = Last(visited)
               PROVE  \/ LowWordsFull(Last(visited))
                      \/ \E n, m \in DOMAIN list :
                           /\ n < m
                           /\ HeldBy(n, Last(visited)) /\ HeldBy(m, Last(visited))
    BY DEF NoneRepeated
  <2>1. PlaceInv /\ Len(visited) = Handed /\ visited \in Seq(in6_addr)
    BY DEF IInv, PlaceInv, HandedOut
  <2>2. Len(visited) \in Nat /\ pass # 0 /\ pass \in {1, 2}
    BY <2>1, LenProperties DEF Handed, PlaceInv, TypeOK
  <2>3. /\ Total \in Nat /\ Start \in Nat /\ Start < Total /\ At \in 0 .. Total
        /\ IF FitsInt THEN client_index = Start ELSE client_index < 0
        /\ list \in Seq(Prefix) /\ client_index_aux \in Nat
    BY <2>1, <2>2, NumbersAre
  <2>4. Len(list) # 0
    <3>1. Size(list, 0) = 0
      BY <2>3, SizeGrows
    <3> QED BY <2>3, <3>1 DEF Total
  <2>5. Handed \in Nat /\ Handed <= Total /\ turn \in 1 .. Handed - 1
    <3>1. /\ pass = 2 => client_index_aux = At
          /\ client_index_aux \in 0 .. IF client_index > 0 THEN client_index ELSE 0
      BY <2>1 DEF PlaceInv, CountsTurns, TypeOK
    <3>2. /\ client_index \in Int
          /\ IF FitsInt THEN client_index = Start ELSE client_index < 0
      BY <2>1, <2>3, NumbersAre
    <3>3. pass = 2 => At <= Start
      BY <2>3, <3>1, <3>2
    <3>4. Handed = IF pass = 1 THEN (IF Start < At THEN At - Start ELSE 0)
                   ELSE (Total - Start) + At
      BY <2>2 DEF Handed
    <3>5. Handed \in Nat /\ Handed <= Total
      BY <2>2, <2>3, <3>3, <3>4
    <3> QED BY <2>1, <3>5
  <2> DEFINE Number(j) == ((Start + j - 1) % Total) + 1
  <2>6. /\ visited[turn] = Addresses[Number(turn)]
        /\ visited[Handed] = Addresses[Number(Handed)]
    BY <2>1, <2>2, <2>5, AroundIs DEF IInv, VisitedIs
  <2>7. /\ Number(turn) \in 1 .. Total /\ Number(Handed) \in 1 .. Total
        /\ Number(turn) # Number(Handed)
    <3>1. /\ Start + turn - 1 \in Nat /\ Start + turn - 1 < Start + Handed - 1
          /\ Start + Handed - 1 \in Nat /\ Start + Handed - 1 < 2 * Total
          /\ Start + Handed - 1 < Start + turn - 1 + Total
      BY <2>3, <2>5
    <3>2. /\ (Start + turn - 1) % Total \in 0 .. Total - 1
          /\ (Start + Handed - 1) % Total \in 0 .. Total - 1
          /\ (Start + turn - 1) % Total # (Start + Handed - 1) % Total
      BY <2>3, <3>1, RemaindersDiffer
    <3>3. \A x, y \in 0 .. Total - 1 :
            x # y => x + 1 \in 1 .. Total /\ y + 1 \in 1 .. Total /\ x + 1 # y + 1
      BY <2>3
    <3> QED BY <3>2, <3>3
  <2>8. Last(visited) = visited[Handed]
    BY <2>1 DEF Last
  <2> HIDE DEF Number
  <2> QED BY <2>3, <2>4, <2>6, <2>7, <2>8, TwiceOnlyIf
<1> QED BY <1>1, <1>2, <1>3, PTL DEF Spec
=============================================================================
