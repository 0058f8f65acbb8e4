---------------------------- MODULE NfHookProofs ----------------------------
(***************************************************************************)
(* Proofs about nat64_init(), for any number of allocations that fail, any *)
(* byte order and any width of a word: every state has its type, memory    *)
(* that was refused to a database makes the module's init fail, the loops  *)
(* that fill the arrays need refusals to hang or to write past them, and   *)
(* only an init() that was refused memory leaves nodes behind.             *)
(***************************************************************************)
EXTENDS NfHook, DatabaseLemmas

-----------------------------------------------------------------------------
(* Sequences of steps.                                                     *)

LEMMA ElementsOf ==
  ASSUME NEW S, NEW s \in Seq(S)
  PROVE  s \in Seq(ToSet(s)) /\ ToSet(s) \subseteq S
<1>1. Len(s) \in Nat /\ DOMAIN s = 1 .. Len(s) /\ s \in [1 .. Len(s) -> S]
  BY LenProperties
<1>2. s \in [1 .. Len(s) -> ToSet(s)]
  BY <1>1 DEF ToSet
<1>3. s \in Seq(ToSet(s))
  BY <1>1, <1>2, SeqDef
<1> QED BY <1>1, <1>3 DEF ToSet

LEMMA WiderSeq ==
  ASSUME NEW S, NEW s, s \in Seq(ToSet(s)), ToSet(s) \subseteq S
  PROVE  s \in Seq(S)
<1>1. Len(s) \in Nat /\ s \in [1 .. Len(s) -> S]
  BY LenProperties
<1> QED BY <1>1, SeqDef

(* A concatenation has the elements of both parts.                         *)
LEMMA CatElements ==
  ASSUME NEW S, NEW s \in Seq(S), NEW t \in Seq(S)
  PROVE  s \o t \in Seq(S) /\ ToSet(s \o t) = ToSet(s) \cup ToSet(t)
<1>1. /\ DOMAIN s = 1 .. Len(s) /\ Len(s) \in Nat
      /\ DOMAIN t = 1 .. Len(t) /\ Len(t) \in Nat
  BY LenProperties
<1>2. /\ s \o t \in Seq(S) /\ Len(s \o t) = Len(s) + Len(t)
      /\ \A p \in 1 .. Len(s) + Len(t) :
           (s \o t)[p] = IF p <= Len(s) THEN s[p] ELSE t[p - Len(s)]
  BY ConcatProperties
<1>3. DOMAIN (s \o t) = 1 .. Len(s) + Len(t)
  BY <1>2, LenProperties
<1>4. ASSUME NEW p \in DOMAIN (s \o t) PROVE (s \o t)[p] \in ToSet(s) \cup ToSet(t)
  <2>1. CASE p <= Len(s)
    <3>1. p \in DOMAIN s
      BY <1>1, <1>3, <1>4, <2>1
    <3> QED BY <1>2, <1>3, <1>4, <2>1, <3>1 DEF ToSet
  <2>2. CASE ~(p <= Len(s))
    <3>1. p - Len(s) \in DOMAIN t
      BY <1>1, <1>3, <1>4, <2>2
    <3> QED BY <1>2, <1>3, <1>4, <2>2, <3>1 DEF ToSet
  <2> QED BY <2>1, <2>2
<1>5. ASSUME NEW p \in DOMAIN s PROVE s[p] \in ToSet(s \o t)
  <2>1. p \in DOMAIN (s \o t) /\ p \in 1 .. Len(s) + Len(t) /\ p <= Len(s)
    BY <1>1, <1>3
  <2> QED BY <1>2, <2>1 DEF ToSet
<1>6. ASSUME NEW p \in DOMAIN t PROVE t[p] \in ToSet(s \o t)
  <2> DEFINE q == Len(s) + p
  <2>1. q \in 1 .. Len(s) + Len(t) /\ ~(q <= Len(s)) /\ q - Len(s) = p
    BY <1>1
  <2> HIDE DEF q
  <2>2. (s \o t)[q] = t[p] /\ q \in DOMAIN (s \o t)
    BY <1>2, <1>3, <2>1
  <2> QED BY <2>2 DEF ToSet
<1>7. ToSet(s \o t) \subseteq ToSet(s) \cup ToSet(t)
  BY <1>4 DEF ToSet
<1>8. ToSet(s) \subseteq ToSet(s \o t) /\ ToSet(t) \subseteq ToSet(s \o t)
  BY <1>5, <1>6 DEF ToSet
<1> QED BY <1>2, <1>7, <1>8

LEMMA AppendElements ==
  ASSUME NEW S, NEW s \in Seq(S), NEW x \in S
  PROVE  ToSet(Append(s, x)) = ToSet(s) \cup {x}
<1> DEFINE t == Append(s, x)
<1>1. /\ DOMAIN s = 1 .. Len(s) /\ Len(s) \in Nat
      /\ t \in Seq(S) /\ Len(t) = Len(s) + 1 /\ t[Len(s) + 1] = x
      /\ \A k \in 1 .. Len(s) : t[k] = s[k]
  BY LenProperties, AppendProperties
<1>2. DOMAIN t = 1 .. Len(s) + 1
  BY <1>1, LenProperties
<1> HIDE DEF t
<1>3. ToSet(t) \subseteq ToSet(s) \cup {x}
  <2>1. \A k \in DOMAIN t : k \in DOMAIN s \/ k = Len(s) + 1
    BY <1>1, <1>2
  <2> QED BY <1>1, <2>1 DEF ToSet
<1>4. ToSet(s) \cup {x} \subseteq ToSet(t)
  <2>1. Len(s) + 1 \in DOMAIN t /\ \A k \in DOMAIN s : k \in DOMAIN t
    BY <1>1, <1>2
  <2> QED BY <1>1, <2>1 DEF ToSet
<1> QED BY <1>3, <1>4 DEF t

(* So has a flattened list of sequences.                                   *)
LEMMA FlatElements ==
  ASSUME NEW S, NEW w, Len(w) \in Nat \ {0}, \A n \in 1 .. Len(w) : w[n] \in Seq(S)
  PROVE  /\ FlattenSeq(w) \in Seq(S)
         /\ \A n \in 1 .. Len(w) : ToSet(w[n]) \subseteq ToSet(FlattenSeq(w))
<1> DEFINE N == Len(w)
           Is(f) == f = [j \in 1 .. N |->
                           IF j = 1 THEN w[j] ELSE f[j - 1] \o w[j]]
           f == CHOOSE f : Is(f)
           Good(n) == /\ f[n] \in Seq(S)
                      /\ \A m \in 1 .. n : ToSet(w[m]) \subseteq ToSet(f[n])
           G == {n \in 0 .. N : n # 0 => Good(n)}
<1>1. N \in Nat /\ N # 0
  OBVIOUS
<1>2. Is(f)
  <2> HIDE DEF N
  <2>1. \E g : Is(g)
    BY <1>1, FlatExists
  <2> QED BY <2>1
<1>3. FlattenSeq(w) = f[N]
  BY <1>1 DEF FlattenSeq
<1>0. \A n \in 1 .. N : w[n] \in Seq(S)
  OBVIOUS
<1> HIDE DEF f, N
<1>4. /\ f[1] = w[1]
      /\ \A n \in 1 .. N : n # 1 => f[n] = f[n - 1] \o w[n]
  <2>1. 1 \in 1 .. N
    BY <1>1
  <2> QED BY <1>2, <2>1
<1>5. ASSUME NEW n \in 0 .. N, n \in G, n < N PROVE n + 1 \in G
  <2>1. n + 1 \in 1 .. N /\ n + 1 \in 0 .. N /\ (n + 1) - 1 = n
    BY <1>1, <1>5
  <2>2. CASE n = 0
    <3>1. f[n + 1] = w[n + 1] /\ w[n + 1] \in Seq(S)
      BY <1>4, <2>1, <2>2, <1>0
    <3>2. \A m \in 1 .. n + 1 : m = n + 1
      BY <2>2
    <3> QED BY <2>1, <3>1, <3>2
  <2>3. CASE n # 0
    <3>1. f[n + 1] = f[n] \o w[n + 1]
      <4>1. n + 1 # 1
        BY <2>3
      <4>2. f[n + 1] = f[(n + 1) - 1] \o w[n + 1]
        BY <1>4, <2>1, <4>1
      <4> QED BY <2>1, <4>2
    <3>2. Good(n) /\ w[n + 1] \in Seq(S)
      BY <1>0, <1>5, <2>1, <2>3
    <3>3. /\ f[n + 1] \in Seq(S)
          /\ ToSet(f[n + 1]) = ToSet(f[n]) \cup ToSet(w[n + 1])
      BY <3>1, <3>2, CatElements
    <3>4. \A m \in 1 .. n + 1 : m = n + 1 \/ m \in 1 .. n
      OBVIOUS
    <3>5. \A m \in 1 .. n + 1 : ToSet(w[m]) \subseteq ToSet(f[n + 1])
      BY <3>2, <3>3, <3>4
    <3> QED BY <2>1, <3>3, <3>5
  <2> QED BY <2>2, <2>3
<1>6. 0 \in G
  BY <1>1
<1>7. 0 .. N \subseteq G
  <2> HIDE DEF G
  <2> QED BY <1>1, <1>5, <1>6, Upwards
<1>8. Good(N)
  <2>1. N \in 0 .. N
    BY <1>1
  <2>2. N \in G
    BY <1>7, <2>1
  <2> QED BY <1>1, <2>2
<1> QED BY <1>3, <1>8 DEF N

(* The places of the elements of flattened pairs.                          *)
LEMMA FlatPairs ==
  ASSUME NEW S, NEW w, Len(w) \in Nat \ {0},
         \A n \in 1 .. Len(w) : w[n] \in Seq(S) /\ Len(w[n]) = 2
  PROVE  /\ FlattenSeq(w) \in Seq(S) /\ Len(FlattenSeq(w)) = 2 * Len(w)
         /\ \A n \in 1 .. Len(w) : /\ FlattenSeq(w)[2 * n - 1] = w[n][1]
                                  /\ FlattenSeq(w)[2 * n] = w[n][2]
<1> DEFINE N == Len(w)
           Is(f) == f = [j \in 1 .. N |->
                           IF j = 1 THEN w[j] ELSE f[j - 1] \o w[j]]
           f == CHOOSE f : Is(f)
           Good(n) == /\ f[n] \in Seq(S) /\ Len(f[n]) = 2 * n
                      /\ \A m \in 1 .. n : /\ f[n][2 * m - 1] = w[m][1]
                                          /\ f[n][2 * m] = w[m][2]
           G == {n \in 0 .. N : n # 0 => Good(n)}
<1>1. N \in Nat /\ N # 0
  OBVIOUS
<1>2. Is(f)
  <2> HIDE DEF N
  <2>1. \E g : Is(g)
    BY <1>1, FlatExists
  <2> QED BY <2>1
<1>3. FlattenSeq(w) = f[N]
  BY <1>1 DEF FlattenSeq
<1>0. \A n \in 1 .. N : w[n] \in Seq(S) /\ Len(w[n]) = 2
  OBVIOUS
<1> HIDE DEF f, N
<1>4. /\ f[1] = w[1]
      /\ \A n \in 1 .. N : n # 1 => f[n] = f[n - 1] \o w[n]
  <2>1. 1 \in 1 .. N
    BY <1>1
  <2> QED BY <1>2, <2>1
<1>5. ASSUME NEW n \in 0 .. N, n \in G, n < N PROVE n + 1 \in G
  <2>1. n + 1 \in 1 .. N /\ n + 1 \in 0 .. N /\ (n + 1) - 1 = n
    BY <1>1, <1>5
  <2>2. CASE n = 0
    <3>1. f[n + 1] = w[n + 1] /\ w[n + 1] \in Seq(S) /\ Len(w[n + 1]) = 2
      BY <1>4, <2>1, <2>2, <1>0
    <3>2. \A m \in 1 .. n + 1 : m = n + 1 /\ 2 * m - 1 = 1 /\ 2 * m = 2
      BY <2>2
    <3> QED BY <2>1, <2>2, <3>1, <3>2
  <2>3. CASE n # 0
    <3>1. f[n + 1] = f[n] \o w[n + 1]
      <4>1. n + 1 # 1
        BY <2>3
      <4>2. f[n + 1] = f[(n + 1) - 1] \o w[n + 1]
        BY <1>4, <2>1, <4>1
      <4> QED BY <2>1, <4>2
    <3>2. Good(n) /\ w[n + 1] \in Seq(S) /\ Len(w[n + 1]) = 2
      BY <1>0, <1>5, <2>1, <2>3
    <3>3. /\ f[n + 1] \in Seq(S) /\ Len(f[n + 1]) = 2 * n + 2
          /\ \A p \in 1 .. 2 * n + 2 :
               f[n + 1][p] = IF p <= 2 * n THEN f[n][p] ELSE w[n + 1][p - 2 * n]
      <4>1. /\ f[n] \o w[n + 1] \in Seq(S)
            /\ Len(f[n] \o w[n + 1]) = Len(f[n]) + Len(w[n + 1])
            /\ \A p \in 1 .. Len(f[n]) + Len(w[n + 1]) :
                 (f[n] \o w[n + 1])[p] = IF p <= Len(f[n]) THEN f[n][p]
                                         ELSE w[n + 1][p - Len(f[n])]
        BY <3>2, ConcatProperties
      <4> QED BY <3>1, <3>2, <4>1
    <3>4. ASSUME NEW m \in 1 .. n + 1
          PROVE  f[n + 1][2 * m - 1] = w[m][1] /\ f[n + 1][2 * m] = w[m][2]
      <4>1. CASE m \in 1 .. n
        <5>1. /\ 2 * m - 1 \in 1 .. 2 * n + 2 /\ 2 * m \in 1 .. 2 * n + 2
              /\ 2 * m - 1 <= 2 * n /\ 2 * m <= 2 * n
          BY <4>1
        <5> QED BY <3>2, <3>3, <4>1, <5>1
      <4>2. CASE m = n + 1
        <5>1. /\ 2 * m - 1 \in 1 .. 2 * n + 2 /\ 2 * m \in 1 .. 2 * n + 2
              /\ ~(2 * m - 1 <= 2 * n) /\ ~(2 * m <= 2 * n)
              /\ (2 * m - 1) - 2 * n = 1 /\ 2 * m - 2 * n = 2
          BY <4>2
        <5> QED BY <3>3, <4>2, <5>1
      <4> QED BY <4>1, <4>2
    <3>5. 2 * n + 2 = 2 * (n + 1)
      OBVIOUS
    <3> QED BY <2>1, <3>3, <3>4, <3>5
  <2> QED BY <2>2, <2>3
<1>6. 0 \in G
  BY <1>1
<1>7. 0 .. N \subseteq G
  <2> HIDE DEF G
  <2> QED BY <1>1, <1>5, <1>6, Upwards
<1>8. Good(N)
  <2>1. N \in 0 .. N
    BY <1>1
  <2>2. N \in G
    BY <1>7, <2>1
  <2> QED BY <1>1, <2>2
<1> QED BY <1>3, <1>8 DEF N

-----------------------------------------------------------------------------
(* The scripts of eight suites: they neither allocate a packet nor look    *)
(* for the mask of one nor fill an array, and the data their steps name    *)
(* exists.                                                                 *)

Formed(x) ==
  /\ x.op = "pool4_add" => x.n \in 1 .. 7
  /\ x.op = "client_add" => x.n \in 0 .. 7
  /\ x.op = "set_prefix7" => x.n \in 0 .. 18
  /\ x.op = "set_domain" => x.n \in {Domain(8, 71), Domain(1, 71)}
  /\ x.op \in {"match_domain", "client_get_mask_domain"} => x.mpc \in Nat

Usual(x) ==
  /\ x.op \notin {"kmalloc_packet", "valid_mask", "fill_exp_masks", "fill_exp_in6_addr"}
  /\ Formed(x)

Plain(s) == s \in Seq(ToSet(s)) /\ \A x \in ToSet(s) : Usual(x)

LEMMA PlainOne ==
  ASSUME NEW x, Usual(x)
  PROVE  Plain(<<x>>)
<1>1. <<x>> \in Seq({x})
  OBVIOUS
<1>2. <<x>> \in Seq(ToSet(<<x>>)) /\ ToSet(<<x>>) \subseteq {x}
  BY <1>1, ElementsOf
<1> QED BY <1>2 DEF Plain

LEMMA PlainCat ==
  ASSUME NEW s, NEW t, Plain(s), Plain(t)
  PROVE  Plain(s \o t)
<1> DEFINE S == ToSet(s) \cup ToSet(t)
<1>1. s \in Seq(S) /\ t \in Seq(S)
  BY WiderSeq DEF Plain
<1>2. \A x \in S : Usual(x)
  BY DEF Plain
<1> HIDE DEF S
<1>3. s \o t \in Seq(S)
  BY <1>1, CatElements
<1>4. s \o t \in Seq(ToSet(s \o t)) /\ ToSet(s \o t) \subseteq S
  BY <1>3, ElementsOf
<1> QED BY <1>2, <1>4 DEF Plain

(* A list of plain scripts, one after the other.                           *)
LEMMA PlainFlat ==
  ASSUME NEW w, Len(w) \in Nat \ {0}, \A n \in 1 .. Len(w) : Plain(w[n])
  PROVE  Plain(FlattenSeq(w))
<1> DEFINE S == UNION {ToSet(w[n]) : n \in 1 .. Len(w)}
<1>1. \A n \in 1 .. Len(w) : w[n] \in Seq(S)
  BY WiderSeq DEF Plain
<1>2. \A x \in S : Usual(x)
  BY DEF Plain
<1> HIDE DEF S
<1>3. FlattenSeq(w) \in Seq(S)
  BY <1>1, FlatElements
<1>4. /\ FlattenSeq(w) \in Seq(ToSet(FlattenSeq(w)))
      /\ ToSet(FlattenSeq(w)) \subseteq S
  BY <1>3, ElementsOf
<1> QED BY <1>2, <1>4 DEF Plain

(* The steps scripts are made of.                                          *)
LEMMA PlainSteps ==
  /\ \A op, n, exp :
       op \notin {"kmalloc_packet", "valid_mask", "fill_exp_masks", "fill_exp_in6_addr",
                 "pool4_add", "client_add", "set_prefix7", "set_domain",
                 "match_domain", "client_get_mask_domain"} =>
         Plain(Call(op)) /\ Plain(On(op, n)) /\ Plain(Expect(op, exp))
         /\ Plain(ExpectOn(op, n, exp))
  /\ \A n \in 0 .. 18 : Plain(On("set_prefix7", n))
  /\ \A n \in 1 .. 7 : Plain(On("pool4_add", n))
  /\ \A n \in 0 .. 7 : Plain(On("client_add", n))
  /\ \A n \in {Domain(8, 71), Domain(1, 71)} : Plain(On("set_domain", n))
  /\ \A n, mpc, exp, want : mpc \in Nat => Plain(Match(n, mpc, exp, want))
  /\ \A n, exp : Plain(DomainError(n, exp))
<1>1. ASSUME NEW op, NEW n, NEW exp,
             op \notin {"kmalloc_packet", "valid_mask", "fill_exp_masks",
                       "fill_exp_in6_addr", "pool4_add", "client_add", "set_prefix7",
                       "set_domain", "match_domain", "client_get_mask_domain"}
      PROVE  /\ Plain(Call(op)) /\ Plain(On(op, n)) /\ Plain(Expect(op, exp))
             /\ Plain(ExpectOn(op, n, exp))
  BY <1>1, PlainOne DEF Call, On, Expect, ExpectOn, Usual, Formed
<1>2. /\ \A n \in 0 .. 18 : Plain(On("set_prefix7", n))
      /\ \A n \in 1 .. 7 : Plain(On("pool4_add", n))
      /\ \A n \in 0 .. 7 : Plain(On("client_add", n))
      /\ \A n \in {Domain(8, 71), Domain(1, 71)} : Plain(On("set_domain", n))
  BY PlainOne DEF On, Usual, Formed
<1>3. ASSUME NEW n, NEW mpc \in Nat, NEW exp, NEW want
      PROVE  Plain(Match(n, mpc, exp, want)) /\ Plain(DomainError(n, exp))
  BY PlainOne DEF Match, DomainError, Usual, Formed
<1> QED BY <1>1, <1>2, <1>3

(* The calls that edit a list, with the assertion under each.              *)
LEMMA PlainEdits ==
  /\ \A n : Plain(RmEntry(n)) /\ Plain(DeleteClient(n))
  /\ \A n \in 1 .. 7 : Plain(AddEntry(n))
  /\ \A n \in 0 .. 7 : Plain(AddClient(n))
BY PlainSteps, PlainCat DEF AddEntry, RmEntry, AddClient, DeleteClient

LEMMA PlainRemove == Plain(remove_entries)
<1>1. Plain(Each(RmEntry, 1, 7))
  <2> DEFINE w == [i \in 1 .. 7 - 1 + 1 |-> RmEntry(1 + i - 1)]
  <2>1. w = [i \in 1 .. 7 |-> w[i]] /\ \A i \in 1 .. 7 : Plain(w[i])
    BY PlainEdits
  <2>2. Plain(FlattenSeq(w))
    <3> HIDE DEF w
    <3>1. Len(w) = 7
      BY <2>1, TableLength
    <3>2. Len(w) \in Nat \ {0} /\ \A i \in 1 .. Len(w) : Plain(w[i])
      BY <2>1, <3>1
    <3> QED BY <3>2, PlainFlat
  <2> QED BY <2>2 DEF Each
<1>2. Plain(Each(DeleteClient, 0, 6))
  <2> DEFINE w == [i \in 1 .. 6 - 0 + 1 |-> DeleteClient(0 + i - 1)]
  <2>1. w = [i \in 1 .. 7 |-> w[i]] /\ \A i \in 1 .. 7 : Plain(w[i])
    BY PlainEdits
  <2>2. Plain(FlattenSeq(w))
    <3> HIDE DEF w
    <3>1. Len(w) = 7
      BY <2>1, TableLength
    <3>2. Len(w) \in Nat \ {0} /\ \A i \in 1 .. Len(w) : Plain(w[i])
      BY <2>1, <3>1
    <3> QED BY <3>2, PlainFlat
  <2> QED BY <2>2 DEF Each
<1> QED BY <1>1, <1>2, PlainCat DEF remove_entries

LEMMA PlainFlush == Plain(flush_dbases)
BY PlainSteps, PlainCat DEF flush_dbases

LEMMA PlainCount == Plain(count_addr)
<1> DEFINE some == Expect("pool4_is_empty", FALSE)
<1>1. Plain(some)
  BY PlainSteps
<1>2. Plain(RmEntry(4)) /\ Plain(DeleteClient(3))
  BY PlainEdits
<1>3. \A n : Plain(Expect("pool4_count", n)) /\ Plain(Expect("client_count", n))
  BY PlainSteps
<1> HIDE DEF some
<1>4. Plain(some \o Expect("pool4_count", 75) \o Expect("client_count", 75)
            \o RmEntry(4) \o some \o Expect("pool4_count", 51)
            \o DeleteClient(3) \o Expect("client_count", 71))
  BY <1>1, <1>2, <1>3, PlainCat
<1> QED BY <1>4 DEF count_addr, some

LEMMA PlainPrint == Plain(print_all_addr)
BY DEF Plain, print_all_addr, ToSet

LEMMA PlainSamples == Plain(foreach_sample)
BY PlainSteps, PlainCat DEF foreach_sample

LEMMA PlainExist == Plain(elements_exist)
<1> DEFINE pool(exp) == Each(LAMBDA n : ExpectOn("pool4_contains", n, exp), 1, 7)
           known(exp) == Each(LAMBDA n : ExpectOn("client_exist", n, exp), 0, 6)
           found(exp) == Each(LAMBDA n : ExpectOn("client_addr_exist", n, exp), 0, 6)
<1>1. ASSUME NEW exp PROVE Plain(pool(exp))
  <2> DEFINE w == [i \in 1 .. 7 - 1 + 1 |-> ExpectOn("pool4_contains", 1 + i - 1, exp)]
  <2>1. w = [i \in 1 .. 7 |-> w[i]] /\ \A i \in 1 .. 7 : Plain(w[i])
    BY PlainSteps
  <2>2. Plain(FlattenSeq(w))
    <3> HIDE DEF w
    <3>1. Len(w) = 7
      BY <2>1, TableLength
    <3>2. Len(w) \in Nat \ {0} /\ \A i \in 1 .. Len(w) : Plain(w[i])
      BY <2>1, <3>1
    <3> QED BY <3>2, PlainFlat
  <2> QED BY <2>2 DEF Each
<1>2. ASSUME NEW exp PROVE Plain(known(exp))
  <2> DEFINE w == [i \in 1 .. 6 - 0 + 1 |-> ExpectOn("client_exist", 0 + i - 1, exp)]
  <2>1. w = [i \in 1 .. 7 |-> w[i]] /\ \A i \in 1 .. 7 : Plain(w[i])
    BY PlainSteps
  <2>2. Plain(FlattenSeq(w))
    <3> HIDE DEF w
    <3>1. Len(w) = 7
      BY <2>1, TableLength
    <3>2. Len(w) \in Nat \ {0} /\ \A i \in 1 .. Len(w) : Plain(w[i])
      BY <2>1, <3>1
    <3> QED BY <3>2, PlainFlat
  <2> QED BY <2>2 DEF Each
<1>3. ASSUME NEW exp PROVE Plain(found(exp))
  <2> DEFINE w == [i \in 1 .. 6 - 0 + 1 |-> ExpectOn("client_addr_exist", 0 + i - 1, exp)]
  <2>1. w = [i \in 1 .. 7 |-> w[i]] /\ \A i \in 1 .. 7 : Plain(w[i])
    BY PlainSteps
  <2>2. Plain(FlattenSeq(w))
    <3> HIDE DEF w
    <3>1. Len(w) = 7
      BY <2>1, TableLength
    <3>2. Len(w) \in Nat \ {0} /\ \A i \in 1 .. Len(w) : Plain(w[i])
      BY <2>1, <3>1
    <3> QED BY <3>2, PlainFlat
  <2> QED BY <2>2 DEF Each
<1>4. Plain(Call("pool4_flush")) /\ Plain(Call("client_flush"))
  BY PlainSteps
<1> HIDE DEF pool, known, found
<1>5. Plain(pool(TRUE) \o Call("pool4_flush") \o pool(FALSE)
            \o (known(TRUE) \o found(TRUE)) \o Call("client_flush")
            \o (known(FALSE) \o found(FALSE)))
  BY <1>1, <1>2, <1>3, <1>4, PlainCat
<1> QED BY <1>5 DEF elements_exist, pool, known, found

LEMMA PlainDomains == Plain(mask_domain_test)
<1> DEFINE unmatched == Match(7, 10, FALSE, Domain(5, 71))
           added == ExpectOn("client_exist", 7, TRUE)
           no_width == Match(6, 0, FALSE, Domain(5, 71))
           unknown(addr) == On("set_prefix7", addr) \o DomainError(7, -ESRCH)
                            \o unmatched
<1>1. \A n, addr, port : Plain(MatchAll(n, addr, port))
  BY PlainSteps DEF MatchAll
<1>2. Plain(unmatched) /\ Plain(added) /\ Plain(no_width)
  BY PlainSteps
<1>3. Plain(On("set_prefix7", 7)) /\ Plain(On("client_add", 7))
  BY PlainSteps
<1>4. Plain(DeleteClient(7))
  BY PlainEdits
<1> HIDE DEF unmatched, added, no_width
<1>5. \A addr \in 0 .. 18 : Plain(unknown(addr))
  BY <1>2, PlainSteps, PlainCat
<1> HIDE DEF unknown
<1>6. Plain(MatchAll(0, 1, 4) \o MatchAll(1, 2, 16) \o MatchAll(2, 3, 30)
            \o MatchAll(3, 4, 40) \o MatchAll(4, 4, 50) \o MatchAll(5, 4, 60)
            \o MatchAll(6, 5, 71)
            \o On("set_prefix7", 7) \o On("client_add", 7)
            \o added \o unmatched
            \o DeleteClient(7)
            \o unknown(7) \o unknown(8) \o unknown(9) \o no_width)
  BY <1>1, <1>2, <1>3, <1>4, <1>5, PlainCat
<1> QED BY <1>6 DEF mask_domain_test, unmatched, added, no_width, unknown

LEMMA PlainNth == Plain(get_nth_taddr_test)
<1>1. /\ \A n, addr, port : Plain(MatchAll(n, addr, port))
      /\ \A n, want : Plain(Nth4(n, want))
      /\ \A n : Plain(NoNth(n))
  BY PlainSteps DEF MatchAll, Nth4, NoNth
<1>2. Plain(Each(LAMBDA n : Nth4(n, T(1, 4 + n)), 0, 3))
  <2> DEFINE w == [i \in 1 .. 3 - 0 + 1 |-> Nth4(0 + i - 1, T(1, 4 + (0 + i - 1)))]
  <2>1. w = [i \in 1 .. 4 |-> w[i]] /\ \A i \in 1 .. 4 : Plain(w[i])
    BY <1>1
  <2>2. Plain(FlattenSeq(w))
    <3> HIDE DEF w
    <3>1. Len(w) = 4
      BY <2>1, TableLength
    <3>2. Len(w) \in Nat \ {0} /\ \A i \in 1 .. Len(w) : Plain(w[i])
      BY <2>1, <3>1
    <3> QED BY <3>2, PlainFlat
  <2> QED BY <2>2 DEF Each
<1>3. Plain(Each(LAMBDA n : Nth4(n, T(2, 6 + n)), 4, 9))
  <2> DEFINE w == [i \in 1 .. 9 - 4 + 1 |-> Nth4(4 + i - 1, T(2, 6 + (4 + i - 1)))]
  <2>1. w = [i \in 1 .. 6 |-> w[i]] /\ \A i \in 1 .. 6 : Plain(w[i])
    BY <1>1
  <2>2. Plain(FlattenSeq(w))
    <3> HIDE DEF w
    <3>1. Len(w) = 6
      BY <2>1, TableLength
    <3>2. Len(w) \in Nat \ {0} /\ \A i \in 1 .. Len(w) : Plain(w[i])
      BY <2>1, <3>1
    <3> QED BY <3>2, PlainFlat
  <2> QED BY <2>2 DEF Each
<1> QED BY <1>1, <1>2, <1>3, PlainSteps, PlainCat DEF get_nth_taddr_test


-----------------------------------------------------------------------------
(* The script of init(): it fills the lists, and adds seven clients.       *)

InitSteps ==
  {[op |-> "pool4_add", n |-> n] : n \in 1 .. 7}
  \cup {[op |-> "pool4_contains", n |-> n, exp |-> TRUE] : n \in 1 .. 7}
  \cup {[op |-> "client_add", n |-> n] : n \in 0 .. 6}
  \cup {[op |-> "client_addr_exist", n |-> n, exp |-> TRUE] : n \in 0 .. 6}

LEMMA PairOf ==
  ASSUME NEW x, NEW y
  PROVE  /\ <<x>> \o <<y>> \in Seq(ToSet(<<x>> \o <<y>>))
         /\ ToSet(<<x>> \o <<y>>) = {x, y}
<1> DEFINE s == <<x>>
           t == <<y>>
<1>1. s \in Seq({x, y}) /\ t \in Seq({x, y})
  OBVIOUS
<1>2. ToSet(s) = {x} /\ ToSet(t) = {y}
  <2>1. DOMAIN s = {1} /\ DOMAIN t = {1} /\ s[1] = x /\ t[1] = y
    OBVIOUS
  <2> HIDE DEF s, t
  <2> QED BY <2>1 DEF ToSet
<1> HIDE DEF s, t
<1>3. s \o t \in Seq({x, y}) /\ ToSet(s \o t) = {x, y}
  BY <1>1, <1>2, CatElements
<1>4. s \o t \in Seq(ToSet(s \o t))
  BY <1>3, ElementsOf
<1> QED BY <1>3, <1>4 DEF s, t

LEMMA EditSteps ==
  \A n :
    /\ AddEntry(n) \in Seq(ToSet(AddEntry(n)))
    /\ AddClient(n) \in Seq(ToSet(AddClient(n)))
    /\ ToSet(AddEntry(n)) = {[op |-> "pool4_add", n |-> n],
                             [op |-> "pool4_contains", n |-> n, exp |-> TRUE]}
    /\ ToSet(AddClient(n)) = {[op |-> "client_add", n |-> n],
                              [op |-> "client_addr_exist", n |-> n, exp |-> TRUE]}
BY PairOf DEF AddEntry, AddClient, On, ExpectOn

LEMMA InitScript ==
  /\ init \in Seq(InitSteps)
  /\ \A n \in 0 .. 6 : ToSet(AddClient(n)) \subseteq ToSet(init)
<1> DEFINE v == [i \in 1 .. 7 - 1 + 1 |-> AddEntry(1 + i - 1)]
           w == [i \in 1 .. 6 - 0 + 1 |-> AddClient(0 + i - 1)]
<1>1. v = [i \in 1 .. 7 |-> v[i]] /\ \A i \in 1 .. 7 : v[i] = AddEntry(i)
  OBVIOUS
<1>2. w = [i \in 1 .. 7 |-> w[i]] /\ \A i \in 1 .. 7 : w[i] = AddClient(i - 1)
  OBVIOUS
<1>3. init = FlattenSeq(v) \o FlattenSeq(w)
  BY DEF init, Each
<1> HIDE DEF v, w
<1>4. Len(v) = 7 /\ Len(w) = 7
  BY <1>1, <1>2, TableLength
<1>5. \A i \in 1 .. 7 : v[i] \in Seq(InitSteps)
  <2>1. ASSUME NEW i \in 1 .. 7
        PROVE  /\ AddEntry(i) \in Seq(ToSet(AddEntry(i)))
               /\ ToSet(AddEntry(i)) \subseteq InitSteps
    BY EditSteps DEF InitSteps
  <2> QED BY <1>1, <2>1, WiderSeq
<1>6. \A i \in 1 .. 7 : w[i] \in Seq(InitSteps)
  <2>1. ASSUME NEW i \in 1 .. 7
        PROVE  /\ AddClient(i - 1) \in Seq(ToSet(AddClient(i - 1)))
               /\ ToSet(AddClient(i - 1)) \subseteq InitSteps
    <3>1. i - 1 \in 0 .. 6
      OBVIOUS
    <3> QED BY <3>1, EditSteps DEF InitSteps
  <2> QED BY <1>2, <2>1, WiderSeq
<1>7. FlattenSeq(v) \in Seq(InitSteps)
  <2>1. Len(v) \in Nat \ {0} /\ \A i \in 1 .. Len(v) : v[i] \in Seq(InitSteps)
    BY <1>4, <1>5
  <2> QED BY <2>1, FlatElements
<1>8. /\ FlattenSeq(w) \in Seq(InitSteps)
      /\ \A i \in 1 .. 7 : ToSet(w[i]) \subseteq ToSet(FlattenSeq(w))
  <2>1. Len(w) \in Nat \ {0} /\ \A i \in 1 .. Len(w) : w[i] \in Seq(InitSteps)
    BY <1>4, <1>6
  <2> QED BY <1>4, <2>1, FlatElements
<1>9. init \in Seq(InitSteps) /\ ToSet(FlattenSeq(w)) \subseteq ToSet(init)
  BY <1>3, <1>7, <1>8, CatElements
<1>10. ASSUME NEW n \in 0 .. 6 PROVE ToSet(AddClient(n)) \subseteq ToSet(init)
  <2>1. n + 1 \in 1 .. 7 /\ (n + 1) - 1 = n
    OBVIOUS
  <2>2. w[n + 1] = AddClient(n)
    BY <1>2, <2>1
  <2> QED BY <1>8, <1>9, <2>1, <2>2
<1> QED BY <1>9, <1>10

(* What a step of init() may be.                                           *)
LEMMA InitStepIs ==
  ASSUME NEW x \in InitSteps
  PROVE  /\ x.op \in {"pool4_add", "pool4_contains", "client_add", "client_addr_exist"}
         /\ x.op = "client_add" => x.n \in 0 .. 6
         /\ x.op = "pool4_add" => x.n \in 1 .. 7
BY DEF InitSteps

-----------------------------------------------------------------------------
(* The script of the last suite: the packet first, then the masks of the   *)
(* seven clients, and those of three unknown addresses once the clients    *)
(* are flushed.                                                            *)

Staged(p, x) ==
  /\ x.op \in {"kmalloc_packet", "valid_mask", "client_flush", "pool4_flush"}
  /\ x.op = "kmalloc_packet" => p = 1
  /\ x.op = "client_flush" => p = 9
  /\ x.op = "pool4_flush" => p = 13
  /\ x.op = "valid_mask" =>
       (p < 9 /\ x.n \in 0 .. 6) \/ (p > 9 /\ x.n \in {16, 17, 18})

StagedTo(s, k) ==
  s \in Seq(ToSet(s)) /\ Len(s) = k /\ \A p \in 1 .. k : Staged(p, s[p])

LEMMA StagedNext ==
  ASSUME NEW s, NEW k \in Nat, StagedTo(s, k),
         NEW t, \E x : t = <<x>> /\ Staged(k + 1, x)
  PROVE  StagedTo(s \o t, k + 1)
<1>0. PICK x : t = <<x>> /\ Staged(k + 1, x)
  OBVIOUS
<1> DEFINE S == ToSet(s) \cup {x}
<1>1. s \in Seq(S) /\ t \in Seq(S) /\ Len(t) = 1 /\ t[1] = x
  BY <1>0, WiderSeq DEF StagedTo
<1> HIDE DEF S
<1>2. /\ s \o t \in Seq(S) /\ Len(s \o t) = Len(s) + Len(t)
      /\ \A p \in 1 .. Len(s) + Len(t) :
           (s \o t)[p] = IF p <= Len(s) THEN s[p] ELSE t[p - Len(s)]
  BY <1>1, ConcatProperties
<1>3. s \o t \in Seq(ToSet(s \o t))
  BY <1>2, ElementsOf
<1>4. Len(s) = k /\ \A p \in 1 .. k : Staged(p, s[p])
  BY DEF StagedTo
<1>5. \A p \in 1 .. k + 1 : (s \o t)[p] = IF p <= k THEN s[p] ELSE x
  <2>1. \A p \in 1 .. k + 1 : ~(p <= k) => p - k = 1
    OBVIOUS
  <2> QED BY <1>1, <1>2, <1>4, <2>1
<1>6. ASSUME NEW p \in 1 .. k + 1 PROVE Staged(p, (s \o t)[p])
  <2>1. CASE p <= k
    BY <1>4, <1>5, <2>1
  <2>2. CASE ~(p <= k)
    <3>1. p = k + 1
      BY <2>2
    <3> QED BY <1>0, <1>5, <2>2, <3>1
  <2> QED BY <2>1, <2>2
<1> QED BY <1>1, <1>2, <1>3, <1>4, <1>6 DEF StagedTo

(* The steps the suite is made of, at the places they stand.               *)
LEMMA LastSteps ==
  /\ \A p \in 2 .. 8, n \in 0 .. 6 : \A mpc, exp :
       \E x : Mask(n, mpc, exp) = <<x>> /\ Staged(p, x)
  /\ \A p \in 10 .. 16, n \in {16, 17, 18} : \A mpc, exp :
       \E x : Mask(n, mpc, exp) = <<x>> /\ Staged(p, x)
  /\ \E x : Call("kmalloc_packet") = <<x>> /\ Staged(1, x)
  /\ \E x : Call("client_flush") = <<x>> /\ Staged(9, x)
  /\ \E x : Call("pool4_flush") = <<x>> /\ Staged(13, x)
<1>1. ASSUME NEW p \in 2 .. 8, NEW n \in 0 .. 6, NEW mpc, NEW exp
      PROVE  \E x : Mask(n, mpc, exp) = <<x>> /\ Staged(p, x)
  <2> DEFINE x == [op |-> "valid_mask", n |-> n, mpc |-> mpc, exp |-> exp]
  <2>1. Mask(n, mpc, exp) = <<x>> /\ Staged(p, x)
    BY DEF Mask, Staged
  <2> QED BY <2>1
<1>2. ASSUME NEW p \in 10 .. 16, NEW n \in {16, 17, 18}, NEW mpc, NEW exp
      PROVE  \E x : Mask(n, mpc, exp) = <<x>> /\ Staged(p, x)
  <2> DEFINE x == [op |-> "valid_mask", n |-> n, mpc |-> mpc, exp |-> exp]
  <2>1. Mask(n, mpc, exp) = <<x>> /\ Staged(p, x)
    BY DEF Mask, Staged
  <2> QED BY <2>1
<1>3. \A op : Call(op) = <<[op |-> op]>>
  BY DEF Call
<1>4. /\ Staged(1, [op |-> "kmalloc_packet"])
      /\ Staged(9, [op |-> "client_flush"])
      /\ Staged(13, [op |-> "pool4_flush"])
  BY DEF Staged
<1> QED BY <1>1, <1>2, <1>3, <1>4

LEMMA LastScript == StagedTo(get_mask_test, 16)
<1> DEFINE s1 == Call("kmalloc_packet")
           s2 == s1 \o Mask(0, 10, T(1, 4))
           s3 == s2 \o Mask(1, 3, Spool)
           s4 == s3 \o Mask(2, 11, T(3, 32))
           s5 == s4 \o Mask(3, 5, Spool)
           s6 == s5 \o Mask(4, 12, T(4, 58))
           s7 == s6 \o Mask(5, 2, T(2, 16))
           s8 == s7 \o Mask(6, 4, T(3, 34))
           s9 == s8 \o Call("client_flush")
           s10 == s9 \o Mask(16, 10, T(1, 4))
           s11 == s10 \o Mask(17, 10, T(2, 16))
           s12 == s11 \o Mask(18, 10, T(3, 30))
           s13 == s12 \o Call("pool4_flush")
           s14 == s13 \o Mask(16, 4, Spool)
           s15 == s14 \o Mask(17, 4, Spool)
           s16 == s15 \o Mask(18, 4, Spool)
<1>1. StagedTo(s1, 1)
  <2>1. PICK x : s1 = <<x>> /\ Staged(1, x)
    BY LastSteps
  <2>2. <<x>> \in Seq({x}) /\ Len(<<x>>) = 1 /\ <<x>>[1] = x
    OBVIOUS
  <2>3. <<x>> \in Seq(ToSet(<<x>>))
    BY <2>2, ElementsOf
  <2>4. \A p \in 1 .. 1 : Staged(p, <<x>>[p])
    BY <2>1, <2>2
  <2> HIDE DEF s1
  <2> QED BY <2>1, <2>2, <2>3, <2>4 DEF StagedTo
<1>2. StagedTo(s2, 2)
  <2>1. \E x : Mask(0, 10, T(1, 4)) = <<x>> /\ Staged(1 + 1, x)
    BY LastSteps
  <2> HIDE DEF s1
  <2> QED BY <1>1, <2>1, StagedNext
<1>3. StagedTo(s3, 3)
  <2>1. \E x : Mask(1, 3, Spool) = <<x>> /\ Staged(2 + 1, x)
    BY LastSteps
  <2> HIDE DEF s2
  <2> QED BY <1>2, <2>1, StagedNext
<1>4. StagedTo(s4, 4)
  <2>1. \E x : Mask(2, 11, T(3, 32)) = <<x>> /\ Staged(3 + 1, x)
    BY LastSteps
  <2> HIDE DEF s3
  <2> QED BY <1>3, <2>1, StagedNext
<1>5. StagedTo(s5, 5)
  <2>1. \E x : Mask(3, 5, Spool) = <<x>> /\ Staged(4 + 1, x)
    BY LastSteps
  <2> HIDE DEF s4
  <2> QED BY <1>4, <2>1, StagedNext
<1>6. StagedTo(s6, 6)
  <2>1. \E x : Mask(4, 12, T(4, 58)) = <<x>> /\ Staged(5 + 1, x)
    BY LastSteps
  <2> HIDE DEF s5
  <2> QED BY <1>5, <2>1, StagedNext
<1>7. StagedTo(s7, 7)
  <2>1. \E x : Mask(5, 2, T(2, 16)) = <<x>> /\ Staged(6 + 1, x)
    BY LastSteps
  <2> HIDE DEF s6
  <2> QED BY <1>6, <2>1, StagedNext
<1>8. StagedTo(s8, 8)
  <2>1. \E x : Mask(6, 4, T(3, 34)) = <<x>> /\ Staged(7 + 1, x)
    BY LastSteps
  <2> HIDE DEF s7
  <2> QED BY <1>7, <2>1, StagedNext
<1>9. StagedTo(s9, 9)
  <2>1. \E x : Call("client_flush") = <<x>> /\ Staged(8 + 1, x)
    BY LastSteps
  <2> HIDE DEF s8
  <2> QED BY <1>8, <2>1, StagedNext
<1>10. StagedTo(s10, 10)
  <2>1. \E x : Mask(16, 10, T(1, 4)) = <<x>> /\ Staged(9 + 1, x)
    BY LastSteps
  <2> HIDE DEF s9
  <2> QED BY <1>9, <2>1, StagedNext
<1>11. StagedTo(s11, 11)
  <2>1. \E x : Mask(17, 10, T(2, 16)) = <<x>> /\ Staged(10 + 1, x)
    BY LastSteps
  <2> HIDE DEF s10
  <2> QED BY <1>10, <2>1, StagedNext
<1>12. StagedTo(s12, 12)
  <2>1. \E x : Mask(18, 10, T(3, 30)) = <<x>> /\ Staged(11 + 1, x)
    BY LastSteps
  <2> HIDE DEF s11
  <2> QED BY <1>11, <2>1, StagedNext
<1>13. StagedTo(s13, 13)
  <2>1. \E x : Call("pool4_flush") = <<x>> /\ Staged(12 + 1, x)
    BY LastSteps
  <2> HIDE DEF s12
  <2> QED BY <1>12, <2>1, StagedNext
<1>14. StagedTo(s14, 14)
  <2>1. \E x : Mask(16, 4, Spool) = <<x>> /\ Staged(13 + 1, x)
    BY LastSteps
  <2> HIDE DEF s13
  <2> QED BY <1>13, <2>1, StagedNext
<1>15. StagedTo(s15, 15)
  <2>1. \E x : Mask(17, 4, Spool) = <<x>> /\ Staged(14 + 1, x)
    BY LastSteps
  <2> HIDE DEF s14
  <2> QED BY <1>14, <2>1, StagedNext
<1>16. StagedTo(s16, 16)
  <2>1. \E x : Mask(18, 4, Spool) = <<x>> /\ Staged(15 + 1, x)
    BY LastSteps
  <2> HIDE DEF s15
  <2> QED BY <1>15, <2>1, StagedNext
<1> QED BY <1>16 DEF get_mask_test

-----------------------------------------------------------------------------
(* The script of the suite that fills arrays: the two loops are entered at *)
(* four steps, and the lists are filled anew between them.                 *)

IterStaged(p, x) ==
  /\ x.op \in {"fill_exp_masks", "fill_exp_in6_addr", "pool4_flush", "client_flush",
               "redefine_entries", "redefine_prefixes", "pool4_add", "client_add",
               "pool4_contains", "client_addr_exist", "pool4_foreach_taddr4",
               "match_masks", "client_for_each", "match_in6_addrs"}
  /\ x.op = "fill_exp_masks" <=> p \in {1, 16}
  /\ x.op = "fill_exp_in6_addr" <=> p \in {21, 38}
  /\ x.op = "pool4_flush" <=> p = 8
  /\ x.op = "redefine_entries" <=> p = 9
  /\ x.op = "pool4_add" <=> p \in {10, 12, 14}
  /\ x.op = "pool4_add" => x.n \in 1 .. 3
  /\ x.op = "client_flush" <=> p = 28
  /\ x.op = "redefine_prefixes" <=> p = 29
  /\ x.op = "client_add" <=> p \in {30, 32, 34, 36}
  /\ x.op = "client_add" => x.n \in 0 .. 3
  /\ p = 34 => x.n = 2

(* The steps of s stand in the script after the first from ones.           *)
Segment(s, from, len) ==
  /\ s \in Seq(ToSet(s)) /\ Len(s) = len
  /\ \A p \in 1 .. len : IterStaged(from + p, s[p])

LEMMA SegmentOne ==
  ASSUME NEW k \in Nat, NEW x, IterStaged(k + 1, x)
  PROVE  Segment(<<x>>, k, 1)
<1>1. <<x>> \in Seq({x}) /\ Len(<<x>>) = 1 /\ <<x>>[1] = x
  OBVIOUS
<1>2. <<x>> \in Seq(ToSet(<<x>>))
  BY <1>1, ElementsOf
<1>3. \A p \in 1 .. 1 : IterStaged(k + p, <<x>>[p])
  BY <1>1
<1> QED BY <1>1, <1>2, <1>3 DEF Segment

LEMMA SegmentCat ==
  ASSUME NEW a \in Nat, NEW b \in Nat, NEW c \in Nat, NEW s, NEW t,
         Segment(s, a, b), Segment(t, a + b, c)
  PROVE  Segment(s \o t, a, b + c)
<1> DEFINE S == ToSet(s) \cup ToSet(t)
<1>1. s \in Seq(S) /\ t \in Seq(S) /\ Len(s) = b /\ Len(t) = c
  BY WiderSeq DEF Segment
<1> HIDE DEF S
<1>2. /\ s \o t \in Seq(S) /\ Len(s \o t) = b + c
      /\ \A p \in 1 .. b + c : (s \o t)[p] = IF p <= b THEN s[p] ELSE t[p - b]
  BY <1>1, ConcatProperties
<1>3. s \o t \in Seq(ToSet(s \o t))
  BY <1>2, ElementsOf
<1>4. ASSUME NEW p \in 1 .. b + c PROVE IterStaged(a + p, (s \o t)[p])
  <2>1. CASE p <= b
    <3>1. p \in 1 .. b
      BY <2>1
    <3> QED BY <1>2, <2>1, <3>1 DEF Segment
  <2>2. CASE ~(p <= b)
    <3>1. p - b \in 1 .. c /\ (a + b) + (p - b) = a + p
      BY <2>2
    <3>2. IterStaged((a + b) + (p - b), t[p - b])
      BY <3>1 DEF Segment
    <3> QED BY <1>2, <2>2, <3>1, <3>2
  <2> QED BY <2>1, <2>2
<1> QED BY <1>2, <1>3, <1>4 DEF Segment

LEMMA SegmentTwo ==
  ASSUME NEW k \in Nat, NEW x, NEW y, IterStaged(k + 1, x), IterStaged(k + 2, y)
  PROVE  Segment(<<x>> \o <<y>>, k, 2)
<1>1. Segment(<<x>>, k, 1)
  BY SegmentOne
<1>2. Segment(<<y>>, k + 1, 1)
  <2>1. (k + 1) + 1 = k + 2 /\ k + 1 \in Nat
    OBVIOUS
  <2> QED BY <2>1, SegmentOne
<1>3. Segment(<<x>> \o <<y>>, k, 1 + 1)
  BY <1>1, <1>2, SegmentCat
<1> QED BY <1>3

(* Calls that add, with the assertion under each.                          *)
LEMMA PairPlaces ==
  ASSUME NEW x, NEW y
  PROVE  /\ Len(<<x>> \o <<y>>) = 2
         /\ (<<x>> \o <<y>>)[1] = x /\ (<<x>> \o <<y>>)[2] = y
<1>1. /\ <<x>> \in Seq({x, y}) /\ <<y>> \in Seq({x, y})
      /\ Len(<<x>>) = 1 /\ Len(<<y>>) = 1 /\ <<x>>[1] = x /\ <<y>>[1] = y
  OBVIOUS
<1> DEFINE s == <<x>>
           t == <<y>>
<1> HIDE DEF s, t
<1>2. /\ Len(s \o t) = Len(s) + Len(t)
      /\ \A p \in 1 .. Len(s) + Len(t) :
           (s \o t)[p] = IF p <= Len(s) THEN s[p] ELSE t[p - Len(s)]
  BY <1>1, ConcatProperties DEF s, t
<1>3. Len(s) = 1 /\ Len(t) = 1 /\ s[1] = x /\ t[1] = y
  BY <1>1 DEF s, t
<1>4. Len(s \o t) = 2 /\ (s \o t)[1] = x /\ (s \o t)[2] = y
  BY <1>2, <1>3
<1> QED BY <1>4 DEF s, t

LEMMA AddSteps ==
  \A n :
    /\ Len(AddEntry(n)) = 2 /\ Len(AddClient(n)) = 2
    /\ AddEntry(n)[1] = [op |-> "pool4_add", n |-> n]
    /\ AddEntry(n)[2] = [op |-> "pool4_contains", n |-> n, exp |-> TRUE]
    /\ AddClient(n)[1] = [op |-> "client_add", n |-> n]
    /\ AddClient(n)[2] = [op |-> "client_addr_exist", n |-> n, exp |-> TRUE]
<1> SUFFICES ASSUME NEW n
             PROVE  /\ Len(AddEntry(n)) = 2 /\ Len(AddClient(n)) = 2
                    /\ AddEntry(n)[1] = [op |-> "pool4_add", n |-> n]
                    /\ AddEntry(n)[2] = [op |-> "pool4_contains", n |-> n, exp |-> TRUE]
                    /\ AddClient(n)[1] = [op |-> "client_add", n |-> n]
                    /\ AddClient(n)[2] = [op |-> "client_addr_exist", n |-> n, exp |-> TRUE]
  OBVIOUS
<1> DEFINE a == [op |-> "pool4_add", n |-> n]
           b == [op |-> "pool4_contains", n |-> n, exp |-> TRUE]
           c == [op |-> "client_add", n |-> n]
           d == [op |-> "client_addr_exist", n |-> n, exp |-> TRUE]
<1>1. AddEntry(n) = <<a>> \o <<b>> /\ AddClient(n) = <<c>> \o <<d>>
  BY DEF AddEntry, AddClient, On, ExpectOn
<1> HIDE DEF a, b, c, d
<1>2. Len(AddEntry(n)) = 2 /\ AddEntry(n)[1] = a /\ AddEntry(n)[2] = b
  <2>1. Len(<<a>> \o <<b>>) = 2 /\ (<<a>> \o <<b>>)[1] = a /\ (<<a>> \o <<b>>)[2] = b
    BY PairPlaces
  <2> QED BY <1>1, <2>1
<1>3. Len(AddClient(n)) = 2 /\ AddClient(n)[1] = c /\ AddClient(n)[2] = d
  <2>1. Len(<<c>> \o <<d>>) = 2 /\ (<<c>> \o <<d>>)[1] = c /\ (<<c>> \o <<d>>)[2] = d
    BY PairPlaces
  <2> QED BY <1>1, <2>1
<1> QED BY <1>2, <1>3 DEF a, b, c, d

LEMMA EntriesSegment == Segment(Each(AddEntry, 1, 3), 9, 6)
<1> DEFINE w == [i \in 1 .. 3 - 1 + 1 |-> AddEntry(1 + i - 1)]
           S == UNION {ToSet(AddEntry(n)) : n \in 1 .. 3}
           F == FlattenSeq(w)
<1>1. w = [i \in 1 .. 3 |-> w[i]] /\ \A i \in 1 .. 3 : w[i] = AddEntry(i)
  OBVIOUS
<1>2. Each(AddEntry, 1, 3) = F
  BY DEF Each
<1> HIDE DEF w
<1>3. Len(w) = 3
  BY <1>1, TableLength
<1>4. \A i \in 1 .. 3 : w[i] \in Seq(S) /\ Len(w[i]) = 2
  BY <1>1, AddSteps, EditSteps, WiderSeq
<1> HIDE DEF S
<1>5. /\ F \in Seq(S) /\ Len(F) = 2 * Len(w)
      /\ \A n \in 1 .. Len(w) : F[2 * n - 1] = w[n][1] /\ F[2 * n] = w[n][2]
  <2>1. Len(w) \in Nat \ {0} /\ \A i \in 1 .. Len(w) : w[i] \in Seq(S) /\ Len(w[i]) = 2
    BY <1>3, <1>4
  <2> QED BY <2>1, FlatPairs
<1> HIDE DEF F
<1>6. Len(F) = 6 /\ F \in Seq(ToSet(F))
  BY <1>3, <1>5, ElementsOf
<1>7. ASSUME NEW n \in 1 .. 3
      PROVE  /\ F[2 * n - 1] = [op |-> "pool4_add", n |-> n]
             /\ F[2 * n] = [op |-> "pool4_contains", n |-> n, exp |-> TRUE]
  <2>1. n \in 1 .. Len(w) /\ w[n] = AddEntry(n)
    BY <1>1, <1>3
  <2>2. F[2 * n - 1] = AddEntry(n)[1] /\ F[2 * n] = AddEntry(n)[2]
    BY <1>5, <2>1
  <2> QED BY <2>2, AddSteps
<1>8. ASSUME NEW n \in 1 .. 3
      PROVE  IterStaged(9 + (2 * n - 1), F[2 * n - 1]) /\ IterStaged(9 + 2 * n, F[2 * n])
  <2>1. 9 + (2 * n - 1) \in {10, 12, 14} /\ 9 + 2 * n \in {11, 13, 15}
    OBVIOUS
  <2> QED BY <1>7, <2>1 DEF IterStaged
<1>9. ASSUME NEW p \in 1 .. 6 PROVE IterStaged(9 + p, F[p])
  <2>1. PICK n \in 1 .. 3 : p = 2 * n - 1 \/ p = 2 * n
    <3>1. p \in {1, 2} \/ p \in {3, 4} \/ p \in {5, 6}
      OBVIOUS
    <3> QED BY <3>1
  <2> QED BY <1>8, <2>1
<1> QED BY <1>2, <1>6, <1>9 DEF Segment

LEMMA ClientsSegment == Segment(Each(AddClient, 0, 3), 29, 8)
<1> DEFINE w == [i \in 1 .. 3 - 0 + 1 |-> AddClient(0 + i - 1)]
           S == UNION {ToSet(AddClient(n)) : n \in 0 .. 3}
           F == FlattenSeq(w)
<1>1. w = [i \in 1 .. 4 |-> w[i]] /\ \A i \in 1 .. 4 : w[i] = AddClient(i - 1)
  OBVIOUS
<1>2. Each(AddClient, 0, 3) = F
  BY DEF Each
<1> HIDE DEF w
<1>3. Len(w) = 4
  BY <1>1, TableLength
<1>4. \A i \in 1 .. 4 : w[i] \in Seq(S) /\ Len(w[i]) = 2
  <2>1. \A i \in 1 .. 4 : i - 1 \in 0 .. 3
    OBVIOUS
  <2> QED BY <1>1, <2>1, AddSteps, EditSteps, WiderSeq
<1> HIDE DEF S
<1>5. /\ F \in Seq(S) /\ Len(F) = 2 * Len(w)
      /\ \A n \in 1 .. Len(w) : F[2 * n - 1] = w[n][1] /\ F[2 * n] = w[n][2]
  <2>1. Len(w) \in Nat \ {0} /\ \A i \in 1 .. Len(w) : w[i] \in Seq(S) /\ Len(w[i]) = 2
    BY <1>3, <1>4
  <2> QED BY <2>1, FlatPairs
<1> HIDE DEF F
<1>6. Len(F) = 8 /\ F \in Seq(ToSet(F))
  BY <1>3, <1>5, ElementsOf
<1>7. ASSUME NEW n \in 1 .. 4
      PROVE  /\ F[2 * n - 1] = [op |-> "client_add", n |-> n - 1]
             /\ F[2 * n] = [op |-> "client_addr_exist", n |-> n - 1, exp |-> TRUE]
  <2>1. n \in 1 .. Len(w) /\ w[n] = AddClient(n - 1)
    BY <1>1, <1>3
  <2>2. F[2 * n - 1] = AddClient(n - 1)[1] /\ F[2 * n] = AddClient(n - 1)[2]
    BY <1>5, <2>1
  <2> QED BY <2>2, AddSteps
<1>8. ASSUME NEW n \in 1 .. 4
      PROVE  IterStaged(29 + (2 * n - 1), F[2 * n - 1]) /\ IterStaged(29 + 2 * n, F[2 * n])
  <2>1. /\ 29 + (2 * n - 1) \in {30, 32, 34, 36} /\ 29 + 2 * n \in {31, 33, 35, 37}
        /\ n - 1 \in 0 .. 3 /\ (29 + (2 * n - 1) = 34 => n - 1 = 2)
    OBVIOUS
  <2> QED BY <1>7, <2>1 DEF IterStaged
<1>9. ASSUME NEW p \in 1 .. 8 PROVE IterStaged(29 + p, F[p])
  <2>1. PICK n \in 1 .. 4 : p = 2 * n - 1 \/ p = 2 * n
    <3>1. p \in {1, 2} \/ p \in {3, 4} \/ p \in {5, 6} \/ p \in {7, 8}
      OBVIOUS
    <3> QED BY <3>1
  <2> QED BY <1>8, <2>1
<1> QED BY <1>2, <1>6, <1>9 DEF Segment

(* The single steps, and the pairs of an iteration and its comparison.     *)
LEMMA IterSteps ==
  /\ \A k \in {0, 15} : Segment(Call("fill_exp_masks"), k, 1)
  /\ \A k \in {20, 37} : Segment(Call("fill_exp_in6_addr"), k, 1)
  /\ Segment(Call("pool4_flush"), 7, 1) /\ Segment(Call("redefine_entries"), 8, 1)
  /\ Segment(Call("client_flush"), 27, 1) /\ Segment(Call("redefine_prefixes"), 28, 1)
  /\ \A k \in {1, 3, 5, 16, 18} : \A offset, exp :
       Segment(ExpectOn("pool4_foreach_taddr4", offset, exp) \o Call("match_masks"), k, 2)
  /\ \A k \in {21, 23, 25, 38, 40} : \A offset, exp :
       Segment(ExpectOn("client_for_each", offset, exp) \o Call("match_in6_addrs"), k, 2)
<1>1. \A op : Call(op) = <<[op |-> op]>>
  BY DEF Call
<1>2. /\ \A k \in {0, 15} : IterStaged(k + 1, [op |-> "fill_exp_masks"])
      /\ \A k \in {20, 37} : IterStaged(k + 1, [op |-> "fill_exp_in6_addr"])
      /\ IterStaged(7 + 1, [op |-> "pool4_flush"])
      /\ IterStaged(8 + 1, [op |-> "redefine_entries"])
      /\ IterStaged(27 + 1, [op |-> "client_flush"])
      /\ IterStaged(28 + 1, [op |-> "redefine_prefixes"])
  BY DEF IterStaged
<1>3. ASSUME NEW k \in {1, 3, 5, 16, 18}, NEW offset, NEW exp
      PROVE  Segment(ExpectOn("pool4_foreach_taddr4", offset, exp) \o Call("match_masks"), k, 2)
  <2>1. /\ IterStaged(k + 1, [op |-> "pool4_foreach_taddr4", n |-> offset, exp |-> exp])
        /\ IterStaged(k + 2, [op |-> "match_masks"])
    BY DEF IterStaged
  <2> QED BY <1>1, <2>1, SegmentTwo DEF ExpectOn
<1>4. ASSUME NEW k \in {21, 23, 25, 38, 40}, NEW offset, NEW exp
      PROVE  Segment(ExpectOn("client_for_each", offset, exp) \o Call("match_in6_addrs"), k, 2)
  <2>1. /\ IterStaged(k + 1, [op |-> "client_for_each", n |-> offset, exp |-> exp])
        /\ IterStaged(k + 2, [op |-> "match_in6_addrs"])
    BY DEF IterStaged
  <2> QED BY <1>1, <2>1, SegmentTwo DEF ExpectOn
<1> QED BY <1>1, <1>2, <1>3, <1>4, SegmentOne

LEMMA IterScript == Segment(for_each_addr, 0, 42)
<1> DEFINE t1 == Call("fill_exp_masks")
           t2 == ExpectOn("pool4_foreach_taddr4", 0, 0) \o Call("match_masks")
           t3 == ExpectOn("pool4_foreach_taddr4", 6, 0) \o Call("match_masks")
           t4 == ExpectOn("pool4_foreach_taddr4", 78, 0) \o Call("match_masks")
           t5 == Call("pool4_flush")
           t6 == Call("redefine_entries")
           t7 == Each(AddEntry, 1, 3)
           t8 == Call("fill_exp_masks")
           t9 == ExpectOn("pool4_foreach_taddr4", 0, 1) \o Call("match_masks")
           t10 == ExpectOn("pool4_foreach_taddr4", 4, 1) \o Call("match_masks")
           t11 == Call("fill_exp_in6_addr")
           t12 == ExpectOn("client_for_each", 0, 0) \o Call("match_in6_addrs")
           t13 == ExpectOn("client_for_each", 2, 0) \o Call("match_in6_addrs")
           t14 == ExpectOn("client_for_each", 80, 0) \o Call("match_in6_addrs")
           t15 == Call("client_flush")
           t16 == Call("redefine_prefixes")
           t17 == Each(AddClient, 0, 3)
           t18 == Call("fill_exp_in6_addr")
           t19 == ExpectOn("client_for_each", 0, 1) \o Call("match_in6_addrs")
           t20 == ExpectOn("client_for_each", 1, 1) \o Call("match_in6_addrs")
<1>1. /\ Segment(t1, 0, 1)
      /\ Segment(t2, 1, 2)
      /\ Segment(t3, 3, 2)
      /\ Segment(t4, 5, 2)
      /\ Segment(t5, 7, 1)
      /\ Segment(t6, 8, 1)
      /\ Segment(t7, 9, 6)
      /\ Segment(t8, 15, 1)
      /\ Segment(t9, 16, 2)
      /\ Segment(t10, 18, 2)
      /\ Segment(t11, 20, 1)
      /\ Segment(t12, 21, 2)
      /\ Segment(t13, 23, 2)
      /\ Segment(t14, 25, 2)
      /\ Segment(t15, 27, 1)
      /\ Segment(t16, 28, 1)
      /\ Segment(t17, 29, 8)
      /\ Segment(t18, 37, 1)
      /\ Segment(t19, 38, 2)
      /\ Segment(t20, 40, 2)
  BY IterSteps, EntriesSegment, ClientsSegment
<1>2. for_each_addr = t1 \o t2 \o t3 \o t4 \o t5 \o t6 \o t7 \o t8
          \o t9 \o t10 \o t11 \o t12 \o t13 \o t14 \o t15 \o t16
          \o t17 \o t18 \o t19 \o t20
  BY DEF for_each_addr
<1> HIDE DEF t1, t2, t3, t4, t5, t6, t7, t8, t9, t10,
             t11, t12, t13, t14, t15, t16, t17, t18, t19, t20
<1> DEFINE s2 == t1 \o t2
           s3 == s2 \o t3
           s4 == s3 \o t4
           s5 == s4 \o t5
           s6 == s5 \o t6
           s7 == s6 \o t7
           s8 == s7 \o t8
           s9 == s8 \o t9
           s10 == s9 \o t10
           s11 == s10 \o t11
           s12 == s11 \o t12
           s13 == s12 \o t13
           s14 == s13 \o t14
           s15 == s14 \o t15
           s16 == s15 \o t16
           s17 == s16 \o t17
           s18 == s17 \o t18
           s19 == s18 \o t19
           s20 == s19 \o t20
<1>3. Segment(s2, 0, 3)
  <2>1. Segment(t1, 0, 1) /\ Segment(t2, 0 + 1, 2)
    BY <1>1
  <2>2. Segment(t1 \o t2, 0, 1 + 2)
    BY <2>1, SegmentCat
  <2> QED BY <2>2
<1>4. Segment(s3, 0, 5)
  <2>1. Segment(s2, 0, 3) /\ Segment(t3, 0 + 3, 2)
    BY <1>1, <1>3
  <2> HIDE DEF s2
  <2>2. Segment(s2 \o t3, 0, 3 + 2)
    BY <2>1, SegmentCat
  <2> QED BY <2>2
<1>5. Segment(s4, 0, 7)
  <2>1. Segment(s3, 0, 5) /\ Segment(t4, 0 + 5, 2)
    BY <1>1, <1>4
  <2> HIDE DEF s3
  <2>2. Segment(s3 \o t4, 0, 5 + 2)
    BY <2>1, SegmentCat
  <2> QED BY <2>2
<1>6. Segment(s5, 0, 8)
  <2>1. Segment(s4, 0, 7) /\ Segment(t5, 0 + 7, 1)
    BY <1>1, <1>5
  <2> HIDE DEF s4
  <2>2. Segment(s4 \o t5, 0, 7 + 1)
    BY <2>1, SegmentCat
  <2> QED BY <2>2
<1>7. Segment(s6, 0, 9)
  <2>1. Segment(s5, 0, 8) /\ Segment(t6, 0 + 8, 1)
    BY <1>1, <1>6
  <2> HIDE DEF s5
  <2>2. Segment(s5 \o t6, 0, 8 + 1)
    BY <2>1, SegmentCat
  <2> QED BY <2>2
<1>8. Segment(s7, 0, 15)
  <2>1. Segment(s6, 0, 9) /\ Segment(t7, 0 + 9, 6)
    BY <1>1, <1>7
  <2> HIDE DEF s6
  <2>2. Segment(s6 \o t7, 0, 9 + 6)
    BY <2>1, SegmentCat
  <2> QED BY <2>2
<1>9. Segment(s8, 0, 16)
  <2>1. Segment(s7, 0, 15) /\ Segment(t8, 0 + 15, 1)
    BY <1>1, <1>8
  <2> HIDE DEF s7
  <2>2. Segment(s7 \o t8, 0, 15 + 1)
    BY <2>1, SegmentCat
  <2> QED BY <2>2
<1>10. Segment(s9, 0, 18)
  <2>1. Segment(s8, 0, 16) /\ Segment(t9, 0 + 16, 2)
    BY <1>1, <1>9
  <2> HIDE DEF s8
  <2>2. Segment(s8 \o t9, 0, 16 + 2)
    BY <2>1, SegmentCat
  <2> QED BY <2>2
<1>11. Segment(s10, 0, 20)
  <2>1. Segment(s9, 0, 18) /\ Segment(t10, 0 + 18, 2)
    BY <1>1, <1>10
  <2> HIDE DEF s9
  <2>2. Segment(s9 \o t10, 0, 18 + 2)
    BY <2>1, SegmentCat
  <2> QED BY <2>2
<1>12. Segment(s11, 0, 21)
  <2>1. Segment(s10, 0, 20) /\ Segment(t11, 0 + 20, 1)
    BY <1>1, <1>11
  <2> HIDE DEF s10
  <2>2. Segment(s10 \o t11, 0, 20 + 1)
    BY <2>1, SegmentCat
  <2> QED BY <2>2
<1>13. Segment(s12, 0, 23)
  <2>1. Segment(s11, 0, 21) /\ Segment(t12, 0 + 21, 2)
    BY <1>1, <1>12
  <2> HIDE DEF s11
  <2>2. Segment(s11 \o t12, 0, 21 + 2)
    BY <2>1, SegmentCat
  <2> QED BY <2>2
<1>14. Segment(s13, 0, 25)
  <2>1. Segment(s12, 0, 23) /\ Segment(t13, 0 + 23, 2)
    BY <1>1, <1>13
  <2> HIDE DEF s12
  <2>2. Segment(s12 \o t13, 0, 23 + 2)
    BY <2>1, SegmentCat
  <2> QED BY <2>2
<1>15. Segment(s14, 0, 27)
  <2>1. Segment(s13, 0, 25) /\ Segment(t14, 0 + 25, 2)
    BY <1>1, <1>14
  <2> HIDE DEF s13
  <2>2. Segment(s13 \o t14, 0, 25 + 2)
    BY <2>1, SegmentCat
  <2> QED BY <2>2
<1>16. Segment(s15, 0, 28)
  <2>1. Segment(s14, 0, 27) /\ Segment(t15, 0 + 27, 1)
    BY <1>1, <1>15
  <2> HIDE DEF s14
  <2>2. Segment(s14 \o t15, 0, 27 + 1)
    BY <2>1, SegmentCat
  <2> QED BY <2>2
<1>17. Segment(s16, 0, 29)
  <2>1. Segment(s15, 0, 28) /\ Segment(t16, 0 + 28, 1)
    BY <1>1, <1>16
  <2> HIDE DEF s15
  <2>2. Segment(s15 \o t16, 0, 28 + 1)
    BY <2>1, SegmentCat
  <2> QED BY <2>2
<1>18. Segment(s17, 0, 37)
  <2>1. Segment(s16, 0, 29) /\ Segment(t17, 0 + 29, 8)
    BY <1>1, <1>17
  <2> HIDE DEF s16
  <2>2. Segment(s16 \o t17, 0, 29 + 8)
    BY <2>1, SegmentCat
  <2> QED BY <2>2
<1>19. Segment(s18, 0, 38)
  <2>1. Segment(s17, 0, 37) /\ Segment(t18, 0 + 37, 1)
    BY <1>1, <1>18
  <2> HIDE DEF s17
  <2>2. Segment(s17 \o t18, 0, 37 + 1)
    BY <2>1, SegmentCat
  <2> QED BY <2>2
<1>20. Segment(s19, 0, 40)
  <2>1. Segment(s18, 0, 38) /\ Segment(t19, 0 + 38, 2)
    BY <1>1, <1>19
  <2> HIDE DEF s18
  <2>2. Segment(s18 \o t19, 0, 38 + 2)
    BY <2>1, SegmentCat
  <2> QED BY <2>2
<1>21. Segment(s20, 0, 42)
  <2>1. Segment(s19, 0, 40) /\ Segment(t20, 0 + 40, 2)
    BY <1>1, <1>20
  <2> HIDE DEF s19
  <2>2. Segment(s19 \o t20, 0, 40 + 2)
    BY <2>1, SegmentCat
  <2> QED BY <2>2
<1> QED BY <1>2, <1>21

-----------------------------------------------------------------------------
(* The suites.                                                             *)

LEMMA SuiteScripts ==
  ASSUME NEW n \in DOMAIN Suites
  PROVE  /\ n \in 1 .. 10
         /\ Suites[n] \in Seq(ToSet(Suites[n]))
         /\ n \notin {7, 10} => Plain(Suites[n])
         /\ n = 7 => Suites[n] = for_each_addr
         /\ n = 10 => Suites[n] = get_mask_test
<1>1. /\ Plain(remove_entries) /\ Plain(flush_dbases) /\ Plain(count_addr)
      /\ Plain(print_all_addr) /\ Plain(elements_exist) /\ Plain(foreach_sample)
      /\ Plain(mask_domain_test) /\ Plain(get_nth_taddr_test)
  BY PlainRemove, PlainFlush, PlainCount, PlainPrint, PlainExist, PlainSamples,
     PlainDomains, PlainNth
<1>2. /\ get_mask_test \in Seq(ToSet(get_mask_test))
      /\ for_each_addr \in Seq(ToSet(for_each_addr))
  BY LastScript, IterScript DEF StagedTo, Segment
<1>3. n \in 1 .. 10
  BY DEF Suites
<1>4. n \notin {7, 10} => Plain(Suites[n])
  BY <1>1, <1>3 DEF Suites
<1>5. /\ n = 7 => Suites[n] = for_each_addr
      /\ n = 10 => Suites[n] = get_mask_test
  BY DEF Suites
<1>6. Suites[n] \in Seq(ToSet(Suites[n]))
  <2>1. CASE n \in {7, 10}
    BY <1>2, <1>5, <2>1
  <2>2. CASE n \notin {7, 10}
    BY <1>4, <2>2 DEF Plain
  <2> QED BY <2>1, <2>2
<1> QED BY <1>3, <1>4, <1>5, <1>6

-----------------------------------------------------------------------------
(* The clients of the tests.                                               *)

Known == {Prefixes6[n] : n \in 0 .. 6}

Dynamics == {dynamic_prefix(Addr(n)) : n \in {16, 17, 18}}

(* The addresses are addresses, whichever way the CPU stores a word.       *)
LEMMA AddrType ==
  ASSUME NEW n \in 0 .. 18
  PROVE  Addr(n) \in in6_addr
<1>1. TopByte \in Nat /\ 2^WordBits = 256 * TopByte /\ TopByte >= 256
  <2>1. WordBits - 8 \in 0 .. WordBits
    BY NfHookAssumption, TypesAssumption
  <2>2. 2^8 = 256
    OBVIOUS
  <2> QED BY <2>1, <2>2, PowersAssumption, NfHookAssumption DEF TopByte
<1>2. n * TopByte \in Nat /\ n * TopByte <= 18 * TopByte
  BY <1>1
<1>3. cpu_to_be32(n) \in 0 .. 2^WordBits - 1
  BY <1>1, <1>2 DEF cpu_to_be32
<1>4. 0 \in Word /\ 1 \in Word /\ 2 \in Word /\ cpu_to_be32(n) \in Word
  BY <1>1, <1>3 DEF Word
<1> QED BY <1>4 DEF Addr, in6_addr

(* A walk begins with the address the prefix is written with.              *)
LEMMA WalkBegins ==
  ASSUME NEW p \in ipv6_prefix, AddrBits - p.len \in {0, 1, 2, 6}
  PROVE  1 \in DOMAIN Walk(p) /\ Walk(p)[1] = p.address
<1>1. 2^WordBits >= 65536 /\ 2^WordBits \in Nat
  <2>1. 2^8 = 256 /\ 2^(WordBits - 8) \in Nat
    <3>1. WordBits - 8 \in 0 .. WordBits
      BY NfHookAssumption, TypesAssumption
    <3> QED BY <3>1, PowersAssumption
  <2> QED BY <2>1, NfHookAssumption, TypesAssumption
<1>2. ShiftCount(AddrBits - p.len, WordBits) = AddrBits - p.len
  BY NfHookAssumption, TypesAssumption DEF ShiftCount
<1>3. 2^0 = 1 /\ 2^1 = 2 /\ 2^2 = 4 /\ 2^6 = 64
  OBVIOUS
<1>4. get_addr6_count(p) \in {1, 2, 4, 64}
  <2>1. \A m \in {1, 2, 4, 64} : m % 2^WordBits = m
    BY <1>1
  <2> DEFINE b == AddrBits - p.len
  <2>2. b = 0 \/ b = 1 \/ b = 2 \/ b = 6
    OBVIOUS
  <2>3. get_addr6_count(p) = 2^b % 2^WordBits
    BY <1>2 DEF get_addr6_count, Uint
  <2> HIDE DEF b
  <2>4. 2^b \in {1, 2, 4, 64}
    BY <1>3, <2>2
  <2> QED BY <2>1, <2>3, <2>4
<1>5. 1 \in 1 .. get_addr6_count(p)
  BY <1>4
<1> QED BY <1>5, WalkIs

LEMMA KnownClient ==
  ASSUME NEW n \in 0 .. 6
  PROVE  /\ Prefixes6[n] \in ipv6_prefix /\ Prefixes6[n].address = Addr(n)
         /\ AddrBits - Prefixes6[n].len \in {0, 1, 2, 6}
<1> DEFINE bits == <<0, 6, 1, 2, 1, 0, 0, 0>>
<1>1. bits[n + 1] \in {0, 1, 2, 6}
  OBVIOUS
<1>2. Prefixes6[n] = Network(n, bits[n + 1])
  BY DEF Prefixes6
<1> HIDE DEF bits
<1>3. AddrBits \in Nat /\ AddrBits >= 64
  BY NfHookAssumption, TypesAssumption DEF AddrBits
<1>4. AddrBits - bits[n + 1] \in 0 .. AddrBits
  BY <1>1, <1>3
<1>5. AddrBits - (AddrBits - bits[n + 1]) = bits[n + 1]
  BY <1>1, <1>3
<1> QED BY <1>1, <1>2, <1>4, <1>5, AddrType DEF Network, ipv6_prefix

(* An address of the tests is walked as long as its prefix is in the list. *)
LEMMA KnownExists ==
  ASSUME NEW list, NEW n \in 0 .. 6, Prefixes6[n] \in ToSet(list)
  PROVE  client_addr_exist(list, Addr(n))
<1>1. PICK k \in DOMAIN list : list[k] = Prefixes6[n]
  BY DEF ToSet
<1>2. 1 \in DOMAIN Walk(list[k]) /\ Walk(list[k])[1] = Addr(n)
  BY <1>1, KnownClient, WalkBegins
<1> QED BY <1>2 DEF client_addr_exist

(* An address that no dynamic prefix walks is held by none of them.        *)
LEMMA DynamicAbsent ==
  ASSUME NEW list \in Seq(Dynamics), NEW n \in {16, 17, 18},
         ~client_addr_exist(list, Addr(n))
  PROVE  Holding(list, Addr(n)) = {}
<1>1. SUFFICES ASSUME NEW k \in DOMAIN list, prefix_contains(list[k], Addr(n))
               PROVE  FALSE
  BY DEF Holding
<1>2. list[k] \in Dynamics
  BY LenProperties
<1>3. PICK m \in {16, 17, 18} : list[k] = dynamic_prefix(Addr(m))
  BY <1>2 DEF Dynamics
<1>4. Addr(m) \in in6_addr /\ Addr(n) \in in6_addr
  BY AddrType
<1>5. /\ list[k].address = Addr(m) /\ list[k].len = AddrBits
      /\ AddrBits - list[k].len = 0
  BY <1>3, TypesAssumption DEF dynamic_prefix, AddrBits
<1>6. 2^ShiftCount(AddrBits - list[k].len, 2 * WordBits) = 1
  <2>1. ShiftCount(AddrBits - list[k].len, 2 * WordBits) = 0
    BY <1>5, TypesAssumption DEF ShiftCount
  <2>2. 2^0 = 1
    OBVIOUS
  <2> QED BY <2>1, <2>2
<1>7. \A w \in 1 .. 4 : Addr(m)[w] \div 1 = Addr(n)[w] \div 1
  BY <1>1, <1>5, <1>6 DEF prefix_contains
<1>8. \A w \in 1 .. 4 : Addr(m)[w] = Addr(n)[w]
  BY <1>4, <1>7, TypesAssumption DEF in6_addr, Word
<1>9. Addr(m) = Addr(n)
  BY <1>4, <1>8 DEF in6_addr
<1>10. list[k] \in ipv6_prefix
  BY <1>3, <1>4, TypesAssumption DEF dynamic_prefix, ipv6_prefix, AddrBits
<1>11. 1 \in DOMAIN Walk(list[k]) /\ Walk(list[k])[1] = Addr(n)
  BY <1>5, <1>9, <1>10, WalkBegins
<1> QED BY <1>11 DEF client_addr_exist

-----------------------------------------------------------------------------
(* The inductive invariant.                                                *)

Places == suite \in DOMAIN Suites /\ phase \in {"init", "test"} /\ pc \in Nat \ {0}

(* While the suites run, memory that was refused to a database shows in    *)
(* one of the two variables; a test starts with success.                   *)
Counted ==
  /\ success \in BOOLEAN /\ failure_counter \in Nat
  /\ refused \in [database : Nat, packet : Nat]
  /\ pc = 1 => success
  /\ outcome = "running" /\ refused.database > 0 => ~success \/ failure_counter > 0

(* An init() that succeeds has added the clients of the steps behind it.   *)
Filled ==
  phase = "init" =>
    /\ prefix = Prefixes6 /\ clients \in Seq(Known)
    /\ success => \A p \in DOMAIN init :
         p < pc /\ init[p].op = "client_add" => prefix[init[p].n] \in ToSet(clients)

(* The last suite has all seven clients until it flushes them, and then    *)
(* only clients that get_mask() has made.                                  *)
LastSuite ==
  phase = "test" /\ suite = 10 =>
    /\ prefix = Prefixes6
    /\ pc <= 9 => Known \subseteq ToSet(clients)
    /\ pc \in 10 .. 16 => clients \in Seq(Dynamics)

IInv == Places /\ Counted /\ Filled /\ LastSuite /\ RefusalReported

(* What the next step may be.                                              *)
LEMMA ScriptLength == Places => Script \in Seq(ToSet(Script)) /\ Len(Script) \in Nat
<1>1. init \in Seq(ToSet(init))
  BY InitScript, ElementsOf
<1>2. Places => Script \in Seq(ToSet(Script))
  BY <1>1, SuiteScripts DEF Places, Script
<1> QED BY <1>2, LenProperties

LEMMA StepExists ==
  ASSUME Places, ~Ended
  PROVE  pc \in DOMAIN Script /\ Step \in ToSet(Script)
<1>1. DOMAIN Script = 1 .. Len(Script) /\ Len(Script) \in Nat
  BY ScriptLength, LenProperties
<1>2. pc \in DOMAIN Script
  BY <1>1 DEF Ended, Places
<1> QED BY <1>2 DEF Step, ToSet

LEMMA StepOfInit ==
  ASSUME Places, phase = "init", ~Ended
  PROVE  /\ pc \in DOMAIN init /\ Step = init[pc]
         /\ Step.op \in {"pool4_add", "pool4_contains", "client_add", "client_addr_exist"}
         /\ Step.op = "client_add" => Step.n \in 0 .. 6
         /\ Step.op = "pool4_add" => Step.n \in 1 .. 7
<1>1. Script = init
  BY DEF Script
<1>2. pc \in DOMAIN init /\ Step \in ToSet(init)
  BY <1>1, StepExists
<1>3. Step \in InitSteps
  BY <1>2, InitScript, ElementsOf
<1> QED BY <1>1, <1>2, <1>3, InitStepIs DEF Step

LEMMA StepOfLast ==
  ASSUME Places, phase = "test", suite = 10
  PROVE  Len(Script) = 16 /\ (~Ended => pc \in 1 .. 16 /\ Staged(pc, Step))
<1>1. Script = get_mask_test
  BY SuiteScripts DEF Script, Places
<1>2. StagedTo(Script, 16)
  BY <1>1, LastScript
<1> QED BY <1>2 DEF StagedTo, Ended, Step, Places

LEMMA StepOfIter ==
  ASSUME Places, phase = "test", suite = 7
  PROVE  Len(Script) = 42 /\ (~Ended => pc \in 1 .. 42 /\ IterStaged(pc, Step))
<1>1. Script = for_each_addr
  BY SuiteScripts DEF Script, Places
<1>2. Segment(Script, 0, 42)
  BY <1>1, IterScript
<1>3. Len(Script) = 42 /\ \A p \in 1 .. 42 : IterStaged(p, Script[p])
  BY <1>2 DEF Segment
<1>4. ASSUME ~Ended PROVE pc \in 1 .. 42
  BY <1>3, <1>4 DEF Ended, Places
<1> QED BY <1>3, <1>4 DEF Step

(* The arrays are filled in one suite only.                                *)
LEMMA StepOfFill ==
  ASSUME Places, ~Ended, Step.op \in {"fill_exp_masks", "fill_exp_in6_addr"}
  PROVE  phase = "test" /\ suite = 7
<1>1. phase = "test"
  BY StepOfInit DEF Places
<1>2. suite # 10
  BY <1>1, StepOfLast DEF Staged
<1>3. CASE suite # 7
  <2>1. Plain(Script)
    BY <1>1, <1>2, <1>3, SuiteScripts DEF Script, Places
  <2> QED BY <2>1, StepExists DEF Plain, Usual
<1> QED BY <1>1, <1>3

LEMMA StepOfOther ==
  ASSUME Places, phase = "test", suite # 10, ~Ended
  PROVE  Step.op \notin {"kmalloc_packet", "valid_mask"} /\ Formed(Step)
<1>1. CASE suite = 7
  <2>1. PICK p \in 1 .. 42 : IterStaged(p, Step)
    BY <1>1, StepOfIter
  <2> QED BY <2>1 DEF IterStaged, Formed
<1>2. CASE suite # 7
  <2>1. Plain(Script)
    BY <1>2, SuiteScripts DEF Script, Places
  <2> QED BY <2>1, StepExists DEF Plain, Usual
<1> QED BY <1>1, <1>2

(* Steps that only other suites have.                                      *)
LEMMA StepElsewhere ==
  ASSUME Places, ~Ended,
         Step.op \notin {"pool4_add", "pool4_contains", "client_add", "client_addr_exist"},
         Step.op \notin {"kmalloc_packet", "valid_mask", "client_flush", "pool4_flush"}
  PROVE  phase = "test" /\ suite # 10
<1>1. phase # "init"
  BY StepOfInit
<1>2. phase = "test"
  BY <1>1 DEF Places
<1>3. suite # 10
  BY <1>2, StepOfLast DEF Staged
<1> QED BY <1>2, <1>3

-----------------------------------------------------------------------------
(* One lemma per action.  The next two are for a step that ends under an   *)
(* assertion.                                                              *)

LEMMA TurnCounts ==
  ASSUME IInv, outcome = "running",
         UNCHANGED <<suite, phase, failure_counter, ret, outcome>>,
         success' \in BOOLEAN, success' => success, pc' = pc + 1,
         refused' \in [database : Nat, packet : Nat], refused' = refused \/ ~success'
  PROVE  (Places /\ Counted /\ RefusalReported)'
<1>1. pc \in Nat \ {0} /\ pc' # 1 /\ pc' \in Nat \ {0}
  BY DEF IInv, Places
<1>2. Places'
  BY <1>1 DEF IInv, Places
<1>3. Counted'
  BY <1>1 DEF IInv, Counted
<1>4. RefusalReported'
  BY <1>1 DEF RefusalReported
<1> QED BY <1>2, <1>3, <1>4

LEMMA TurnKeepsLists ==
  ASSUME IInv, ~Ended, UNCHANGED <<suite, phase, prefix, clients>>,
         success' => success, pc' = pc + 1,
         Step.op \notin {"client_add", "client_flush"}
  PROVE  (Filled /\ LastSuite)'
<1>1. Places /\ Filled /\ LastSuite /\ pc \in Nat
  BY DEF IInv, Places
<1>2. Filled'
  <2>1. SUFFICES ASSUME phase = "init", success',
                        NEW p \in DOMAIN init, p < pc', init[p].op = "client_add"
                 PROVE  prefix[init[p].n] \in ToSet(clients)
    BY <1>1 DEF Filled
  <2>2. p # pc
    BY <1>1, <2>1, StepOfInit
  <2>3. p < pc
    <3>1. p \in Nat
      BY InitScript, LenProperties
    <3> QED BY <1>1, <2>1, <2>2, <3>1
  <2> QED BY <1>1, <2>1, <2>3 DEF Filled
<1>3. LastSuite'
  <2>1. CASE phase = "test" /\ suite = 10
    <3>1. pc \in 1 .. 16 /\ Staged(pc, Step)
      BY <1>1, <2>1, StepOfLast
    <3>2. pc # 9
      BY <3>1 DEF Staged
    <3> QED BY <1>1, <2>1, <3>1, <3>2 DEF LastSuite
  <2>2. CASE ~(phase = "test" /\ suite = 10)
    BY <2>2 DEF LastSuite
  <2> QED BY <2>1, <2>2
<1> QED BY <1>2, <1>3

(* The lists and the prefixes of the other suites are not looked at.       *)
LEMMA ElsewhereKeepsLists ==
  ASSUME phase = "test" /\ suite # 10, UNCHANGED <<suite, phase>>
  PROVE  (Filled /\ LastSuite)'
BY DEF Filled, LastSuite

LEMMA QueryKeeps == IInv /\ outcome = "running" /\ Query => IInv'
<1> SUFFICES ASSUME IInv, outcome = "running", Query PROVE IInv'
  OBVIOUS
<1>1. success' \in BOOLEAN /\ (success' => success) /\ pc' = pc + 1
  BY DEF Query, Asserted
<1>2. ~Ended /\ Step.op \in Queries /\ UNCHANGED <<cpool, clients, script_vars, refused>>
  BY DEF Query
<1>3. Step.op \notin {"client_add", "client_flush"}
  BY <1>2 DEF Queries
<1>4. refused' \in [database : Nat, packet : Nat]
  BY <1>2 DEF IInv, Counted
<1>5. (Places /\ Counted /\ RefusalReported)'
  BY <1>1, <1>2, <1>4, TurnCounts DEF script_vars
<1>6. (Filled /\ LastSuite)'
  BY <1>1, <1>2, <1>3, TurnKeepsLists DEF script_vars
<1> QED BY <1>5, <1>6 DEF IInv

LEMMA RefuseCounts ==
  ASSUME Counted, NEW what \in {"database", "packet"}, Refuse(what)
  PROVE  /\ refused' \in [database : Nat, packet : Nat]
         /\ what = "packet" => refused'.database = refused.database
BY DEF Counted, Refuse

LEMMA AddToPool4Keeps == IInv /\ outcome = "running" /\ AddToPool4 => IInv'
<1> SUFFICES ASSUME IInv, outcome = "running", AddToPool4 PROVE IInv'
  OBVIOUS
<1>1. /\ success' \in BOOLEAN /\ (success' => success) /\ pc' = pc + 1
      /\ refused' = refused \/ (~success' /\ Refuse("database"))
  BY DEF AddToPool4, Asserted
<1>2. ~Ended /\ Step.op = "pool4_add" /\ UNCHANGED <<clients, script_vars>>
  BY DEF AddToPool4, At
<1>3. refused' \in [database : Nat, packet : Nat]
  BY <1>1, RefuseCounts DEF IInv, Counted
<1>4. (Places /\ Counted /\ RefusalReported)'
  BY <1>1, <1>2, <1>3, TurnCounts DEF script_vars
<1>5. (Filled /\ LastSuite)'
  BY <1>1, <1>2, TurnKeepsLists DEF script_vars
<1> QED BY <1>4, <1>5 DEF IInv

LEMMA AddToClientsKeeps == IInv /\ outcome = "running" /\ AddToClients => IInv'
<1> SUFFICES ASSUME IInv, outcome = "running", AddToClients PROVE IInv'
  OBVIOUS
<1>1. /\ success' \in BOOLEAN /\ (success' => success) /\ pc' = pc + 1
      /\ \/ refused' = refused /\ clients' = client_add(clients, prefix[Step.n])
         \/ ~success' /\ Refuse("database") /\ clients' = clients
  BY DEF AddToClients, Asserted
<1>2. ~Ended /\ Step.op = "client_add" /\ UNCHANGED script_vars
  BY DEF AddToClients, At
<1>3. refused' \in [database : Nat, packet : Nat]
  BY <1>1, RefuseCounts DEF IInv, Counted
<1>4. (Places /\ Counted /\ RefusalReported)'
  BY <1>1, <1>2, <1>3, TurnCounts DEF script_vars
<1>5. Places /\ Filled
  BY DEF IInv
<1>6. UNCHANGED <<phase, suite, prefix>>
  BY <1>2 DEF script_vars
<1>7. CASE phase = "init"
  <2>1. /\ pc \in DOMAIN init /\ Step = init[pc] /\ Step.n \in 0 .. 6
        /\ prefix = Prefixes6 /\ clients \in Seq(Known) /\ pc \in Nat
    BY <1>2, <1>5, <1>7, StepOfInit DEF Filled, Places
  <2>2. CASE clients' = client_add(clients, prefix[Step.n])
    <3>1. prefix[Step.n] \in Known
      BY <2>1 DEF Known
    <3>2. /\ clients' \in Seq(Known) /\ DOMAIN clients' = 1 .. Len(clients) + 1
          /\ DOMAIN clients = 1 .. Len(clients) /\ Len(clients) \in Nat
          /\ \A i \in 1 .. Len(clients) : clients'[i] = clients[i]
          /\ clients'[Len(clients) + 1] = prefix[Step.n]
      BY <2>1, <2>2, <3>1, AppendProperties, LenProperties DEF client_add
    <3>3. ToSet(clients) \subseteq ToSet(clients') /\ prefix[Step.n] \in ToSet(clients')
      BY <3>2 DEF ToSet
    <3>4. ASSUME success', NEW p \in DOMAIN init, p < pc', init[p].op = "client_add"
          PROVE  prefix[init[p].n] \in ToSet(clients')
      <4>1. p \in Nat
        BY InitScript, LenProperties
      <4>2. CASE p = pc
        BY <2>1, <3>3, <4>2
      <4>3. CASE p # pc
        <5>1. p < pc
          BY <1>1, <2>1, <3>4, <4>1, <4>3
        <5> QED BY <1>1, <1>5, <1>7, <3>3, <3>4, <5>1 DEF Filled
      <4> QED BY <4>2, <4>3
    <3>5. prefix' = Prefixes6 /\ clients' \in Seq(Known)
      BY <1>6, <2>1, <3>2
    <3>6. success' => \A p \in DOMAIN init :
            p < pc' /\ init[p].op = "client_add" => prefix'[init[p].n] \in ToSet(clients')
      BY <1>6, <3>4
    <3>7. Filled'
      BY <3>5, <3>6 DEF Filled
    <3>8. LastSuite'
      BY <1>6, <1>7 DEF LastSuite
    <3> QED BY <1>4, <3>7, <3>8 DEF IInv
  <2>3. CASE ~success' /\ clients' = clients
    <3>1. Filled'
      BY <1>6, <2>1, <2>3 DEF Filled
    <3>2. LastSuite'
      BY <1>6, <1>7 DEF LastSuite
    <3> QED BY <1>4, <3>1, <3>2 DEF IInv
  <2> QED BY <1>1, <2>2, <2>3
<1>8. CASE phase = "test"
  <2>1. suite # 10
    BY <1>2, <1>5, <1>8, StepOfLast DEF Staged
  <2> QED BY <1>4, <1>6, <1>8, <2>1, ElsewhereKeepsLists DEF IInv
<1> QED BY <1>5, <1>7, <1>8 DEF Places

LEMMA EditKeeps == IInv /\ outcome = "running" /\ Edit => IInv'
<1> SUFFICES ASSUME IInv, outcome = "running", Edit PROVE IInv'
  OBVIOUS
<1>1. /\ success' \in BOOLEAN /\ (success' => success) /\ pc' = pc + 1
      /\ refused' = refused
  BY DEF Edit, Asserted, IInv, Counted
<1>2. ~Ended /\ UNCHANGED script_vars
  BY DEF Edit, At
<1>3. \/ Step.op = "pool4_flush" /\ clients' = clients
      \/ Step.op = "client_flush" /\ clients' = << >>
      \/ Step.op \in {"pool4_rm", "client_delete"}
  BY DEF Edit, At, Pool4Flush, ClientFlush, client_flush
<1>4. refused' \in [database : Nat, packet : Nat]
  BY <1>1 DEF IInv, Counted
<1>5. (Places /\ Counted /\ RefusalReported)'
  BY <1>1, <1>2, <1>4, TurnCounts DEF script_vars
<1>6. Places /\ LastSuite /\ UNCHANGED <<suite, phase, prefix>> /\ pc \in Nat
  BY <1>2 DEF IInv, script_vars, Places
<1>7. CASE Step.op = "pool4_flush" /\ clients' = clients
  BY <1>1, <1>2, <1>5, <1>6, <1>7, TurnKeepsLists DEF IInv
<1>8. CASE Step.op = "client_flush" /\ clients' = << >>
  <2>1. phase = "test"
    BY <1>2, <1>6, <1>8, StepOfInit DEF Places
  <2>2. Filled'
    BY <1>6, <2>1 DEF Filled
  <2>3. CASE suite = 10
    <3>1. pc = 9
      BY <1>2, <1>6, <1>8, <2>1, <2>3, StepOfLast DEF Staged
    <3>2. clients' \in Seq(Dynamics)
      BY <1>8
    <3>3. LastSuite'
      BY <1>1, <1>6, <2>1, <2>3, <3>1, <3>2 DEF LastSuite
    <3> QED BY <1>5, <2>2, <3>3 DEF IInv
  <2>4. CASE suite # 10
    BY <1>5, <1>6, <2>1, <2>4, ElsewhereKeepsLists DEF IInv
  <2> QED BY <2>3, <2>4
<1>9. CASE Step.op \in {"pool4_rm", "client_delete"}
  <2>1. phase = "test" /\ suite # 10
    BY <1>2, <1>6, <1>9, StepElsewhere
  <2> QED BY <1>5, <1>6, <2>1, ElsewhereKeepsLists DEF IInv
<1> QED BY <1>3, <1>7, <1>8, <1>9

(* Steps on the data of the tests, which the first and the last scripts    *)
(* do not have.                                                            *)
LEMMA ElsewhereKeeps ==
  ASSUME IInv, outcome = "running", ~Ended,
         Step.op \in {"redefine_entries", "redefine_prefixes", "set_prefix7",
                      "set_domain", "fill_exp_masks", "fill_exp_in6_addr",
                      "pool4_foreach_taddr4", "client_for_each", "match_domain",
                      "client_get_mask_domain"},
         UNCHANGED <<suite, phase, failure_counter, ret, refused>>,
         \/ outcome' = outcome /\ success' \in BOOLEAN /\ (success' => success) /\ pc' = pc + 1
         \/ outcome' \in {"hung", "overrun"} /\ success' = success /\ pc' = pc
  PROVE  IInv'
<1>1. Places /\ Counted
  BY DEF IInv
<1>2. phase = "test" /\ suite # 10
  BY <1>1, StepElsewhere
<1>3. (Filled /\ LastSuite)'
  BY <1>2, ElsewhereKeepsLists
<1>4. CASE outcome' = outcome /\ success' \in BOOLEAN /\ (success' => success) /\ pc' = pc + 1
  <2>1. refused' \in [database : Nat, packet : Nat]
    BY <1>1 DEF Counted
  <2>2. (Places /\ Counted /\ RefusalReported)'
    BY <1>4, <2>1, TurnCounts
  <2> QED BY <1>3, <2>2 DEF IInv
<1>5. CASE outcome' \in {"hung", "overrun"} /\ success' = success /\ pc' = pc
  <2>1. Places' /\ Counted'
    BY <1>1, <1>5 DEF Places, Counted
  <2>2. RefusalReported'
    BY <1>5 DEF RefusalReported
  <2> QED BY <1>3, <2>1, <2>2 DEF IInv
<1> QED BY <1>4, <1>5

LEMMA DataKeeps ==
  IInv /\ outcome = "running"
  /\ (Redefine \/ FillExpMasks \/ FillExpIn6Addr \/ ForeachTaddr4 \/ ForEachClient
      \/ GetMaskDomain) => IInv'
<1>1. ASSUME IInv, outcome = "running", Redefine PROVE IInv'
  <2>1. /\ ~Ended
        /\ Step.op \in {"redefine_entries", "redefine_prefixes", "set_prefix7", "set_domain"}
        /\ UNCHANGED <<suite, phase, failure_counter, ret, refused>>
        /\ outcome' = outcome
    BY <1>1 DEF Redefine, At
  <2>2. success' \in BOOLEAN /\ (success' => success) /\ pc' = pc + 1
    BY <1>1 DEF Redefine, Asserted, IInv, Counted
  <2> QED BY <1>1, <2>1, <2>2, ElsewhereKeeps
<1>2. ASSUME IInv, outcome = "running", FillExpMasks PROVE IInv'
  <2>1. /\ ~Ended /\ Step.op = "fill_exp_masks"
        /\ UNCHANGED <<suite, phase, failure_counter, ret, refused>>
    BY <1>2 DEF FillExpMasks, At
  <2>2. \/ /\ outcome' = outcome
           /\ success' \in BOOLEAN /\ (success' => success) /\ pc' = pc + 1
        \/ outcome' = "hung" /\ success' = success /\ pc' = pc
    BY <1>2 DEF FillExpMasks, Asserted, IInv, Counted
  <2> QED BY <1>2, <2>1, <2>2, ElsewhereKeeps
<1>3. ASSUME IInv, outcome = "running", FillExpIn6Addr PROVE IInv'
  <2>1. /\ ~Ended /\ Step.op = "fill_exp_in6_addr"
        /\ UNCHANGED <<suite, phase, failure_counter, ret, refused>>
    BY <1>3 DEF FillExpIn6Addr, At
  <2>2. \/ /\ outcome' = outcome
           /\ success' \in BOOLEAN /\ (success' => success) /\ pc' = pc + 1
        \/ outcome' \in {"hung", "overrun"} /\ success' = success /\ pc' = pc
    BY <1>3 DEF FillExpIn6Addr, Asserted, IInv, Counted
  <2> QED BY <1>3, <2>1, <2>2, ElsewhereKeeps
<1>4. ASSUME IInv, outcome = "running", ForeachTaddr4 \/ ForEachClient PROVE IInv'
  <2>1. /\ ~Ended /\ Step.op \in {"pool4_foreach_taddr4", "client_for_each"}
        /\ UNCHANGED <<suite, phase, failure_counter, ret, refused>>
        /\ outcome' = outcome
    BY <1>4 DEF ForeachTaddr4, ForEachClient, At, script_vars
  <2>2. success' \in BOOLEAN /\ (success' => success) /\ pc' = pc + 1
    BY <1>4 DEF ForeachTaddr4, ForEachClient, Asserted
  <2> QED BY <1>4, <2>1, <2>2, ElsewhereKeeps
<1>5. ASSUME IInv, outcome = "running", GetMaskDomain PROVE IInv'
  <2>1. /\ ~Ended /\ Step.op \in {"match_domain", "client_get_mask_domain"}
        /\ UNCHANGED <<suite, phase, failure_counter, ret, refused>>
        /\ outcome' = outcome
    BY <1>5 DEF GetMaskDomain, At, script_vars
  <2>2. success' \in BOOLEAN /\ (success' => success) /\ pc' = pc + 1
    BY <1>5 DEF GetMaskDomain, Asserted
  <2> QED BY <1>5, <2>1, <2>2, ElsewhereKeeps
<1> QED BY <1>1, <1>2, <1>3, <1>4, <1>5

(* A test that gives up for want of a packet does so in its first step,    *)
(* with its success still set: no refusal to a database is forgotten.      *)
LEMMA AllocatePacketKeeps == IInv /\ outcome = "running" /\ AllocatePacket => IInv'
<1> SUFFICES ASSUME IInv, outcome = "running", AllocatePacket PROVE IInv'
  OBVIOUS
<1>1. /\ ~Ended /\ Step.op = "kmalloc_packet" /\ UNCHANGED <<clients, script_vars>>
  BY DEF AllocatePacket, At
<1>2. Places /\ Counted /\ Filled /\ LastSuite
  BY DEF IInv
<1>3. phase = "test" /\ suite = 10
  <2>1. phase = "test"
    BY <1>1, <1>2, StepOfInit DEF Places
  <2> QED BY <1>1, <1>2, <2>1, StepOfOther
<1>4. pc = 1 /\ Len(Script) = 16
  BY <1>1, <1>2, <1>3, StepOfLast DEF Staged
<1>5. CASE /\ refused' = refused /\ success' \in BOOLEAN /\ (success' => success)
           /\ pc' = pc + 1
  <2>1. refused' \in [database : Nat, packet : Nat]
    BY <1>2, <1>5 DEF Counted
  <2>2. (Places /\ Counted /\ RefusalReported)'
    BY <1>1, <1>5, <2>1, TurnCounts DEF script_vars
  <2>3. (Filled /\ LastSuite)'
    BY <1>1, <1>5, TurnKeepsLists DEF script_vars
  <2> QED BY <2>2, <2>3 DEF IInv
<1>6. CASE Refuse("packet") /\ success' = TRUE /\ pc' = Len(Script) + 1
  <2>1. /\ refused' \in [database : Nat, packet : Nat]
        /\ refused'.database = refused.database
    BY <1>2, <1>6, RefuseCounts
  <2>2. pc' = 17
    BY <1>4, <1>6
  <2>3. UNCHANGED <<suite, phase, prefix, failure_counter, outcome>>
    BY <1>1 DEF script_vars
  <2>4. refused.database > 0 => failure_counter > 0
    BY <1>2, <1>4 DEF Counted
  <2>5. Places'
    BY <1>2, <2>2, <2>3 DEF Places
  <2>6. Counted'
    BY <1>2, <1>6, <2>1, <2>2, <2>3, <2>4 DEF Counted
  <2>7. Filled'
    BY <1>3, <2>3 DEF Filled
  <2>8. LastSuite'
    BY <1>2, <1>3, <2>2, <2>3 DEF LastSuite
  <2>9. RefusalReported'
    BY <2>2, <2>3 DEF RefusalReported
  <2> QED BY <2>5, <2>6, <2>7, <2>8, <2>9 DEF IInv
<1> QED BY <1>5, <1>6 DEF AllocatePacket, Asserted

(* An address of no client, which is not added to the list either, makes   *)
(* get_mask() return an error.                                             *)
LEMMA NoClientNoMask ==
  ASSUME NEW list, NEW src, NEW mpc, ~pool4_is_empty(cpool), Holding(list, src) = {},
         NEW r \in get_mask(list, src, mpc)
  PROVE  r.err # 0
<1>1. mask_domain_error(cpool, list, src, mpc) # 0
  BY DEF mask_domain_error, ESRCH
<1>2. r \in {[err |-> mask_domain_error(cpool, list, src, mpc), mask |-> Spool]}
  BY <1>1 DEF get_mask
<1> QED BY <1>1, <1>2

LEMMA ValidMaskKeeps == IInv /\ outcome = "running" /\ ValidMask => IInv'
<1> SUFFICES ASSUME IInv, outcome = "running", ValidMask PROVE IInv'
  OBVIOUS
<1> DEFINE src == Addr(Step.n)
           new == ~pool4_is_empty(cpool) /\ ~client_addr_exist(clients, src)
<1>1. ~Ended /\ Step.op = "valid_mask" /\ UNCHANGED <<cpool, script_vars>>
  BY DEF ValidMask, At
<1>2. Places /\ Counted /\ Filled /\ LastSuite
  BY DEF IInv
<1>3. phase = "test" /\ suite = 10
  <2>1. phase = "test"
    BY <1>1, <1>2, StepOfInit DEF Places
  <2> QED BY <1>1, <1>2, <2>1, StepOfOther
<1>4. /\ pc \in 1 .. 16
      /\ (pc < 9 /\ Step.n \in 0 .. 6) \/ (pc > 9 /\ Step.n \in {16, 17, 18})
  BY <1>1, <1>2, <1>3, StepOfLast DEF Staged
<1>5. \/ refused' = refused /\ clients' = IF new THEN client_add(clients, dynamic_prefix(src))
                                          ELSE clients
      \/ new /\ Refuse("database") /\ clients' = clients
  BY DEF ValidMask
<1>6. PICK r \in get_mask(clients', src, Step.mpc) :
        success' = (success /\ (r.err = 0 /\ r.mask = Step.exp)) /\ pc' = pc + 1
  BY DEF ValidMask, Asserted
<1>7. success' \in BOOLEAN /\ (success' => success /\ r.err = 0) /\ pc' = pc + 1
  BY <1>6
<1> HIDE DEF src
<1>8. CASE pc < 9 /\ Step.n \in 0 .. 6
  <2>1. Prefixes6[Step.n] \in ToSet(clients)
    BY <1>2, <1>3, <1>8 DEF LastSuite, Known, Places
  <2>2. client_addr_exist(clients, src)
    BY <1>8, <2>1, KnownExists DEF src
  <2>3. refused' = refused /\ clients' = clients
    BY <1>5, <2>2
  <2>4. refused' \in [database : Nat, packet : Nat]
    BY <1>2, <2>3 DEF Counted
  <2>5. (Places /\ Counted /\ RefusalReported)'
    BY <1>1, <1>7, <2>3, <2>4, TurnCounts DEF script_vars
  <2>6. (Filled /\ LastSuite)'
    BY <1>1, <1>7, <2>3, TurnKeepsLists DEF script_vars
  <2> QED BY <2>5, <2>6 DEF IInv
<1>9. CASE pc > 9 /\ Step.n \in {16, 17, 18}
  <2>1. clients \in Seq(Dynamics)
    BY <1>2, <1>3, <1>4, <1>9 DEF LastSuite
  <2>2. clients' \in Seq(Dynamics)
    <3>1. dynamic_prefix(src) \in Dynamics
      BY <1>9 DEF Dynamics, src
    <3> QED BY <1>5, <2>1, <3>1, AppendProperties DEF client_add
  <2>3. refused' = refused \/ (~success' /\ Refuse("database"))
    <3>1. ASSUME new, Refuse("database"), clients' = clients PROVE ~success'
      <4>1. Holding(clients', src) = {}
        BY <1>9, <2>1, <3>1, DynamicAbsent DEF src
      <4>2. r.err # 0
        BY <3>1, <4>1, NoClientNoMask
      <4> QED BY <1>7, <4>2
    <3> QED BY <1>5, <3>1
  <2>4. refused' \in [database : Nat, packet : Nat]
    BY <1>2, <2>3, RefuseCounts DEF Counted
  <2>5. (Places /\ Counted /\ RefusalReported)'
    BY <1>1, <1>7, <2>3, <2>4, TurnCounts DEF script_vars
  <2>6. UNCHANGED <<phase, suite, prefix>>
    BY <1>1 DEF script_vars
  <2>7. Filled'
    BY <1>3, <2>6 DEF Filled
  <2>8. LastSuite'
    BY <1>2, <1>3, <1>4, <1>7, <1>9, <2>2, <2>6 DEF LastSuite
  <2> QED BY <2>5, <2>7, <2>8 DEF IInv
<1> QED BY <1>4, <1>8, <1>9

LEMMA EndInitKeeps == IInv /\ outcome = "running" /\ EndInit => IInv'
<1> SUFFICES ASSUME IInv, outcome = "running", EndInit PROVE IInv'
  OBVIOUS
<1>1. /\ phase = "init" /\ Ended /\ pc' = 1 /\ success' = TRUE
      /\ UNCHANGED <<clients, cpool, prefix, suite, failure_counter, refused>>
  BY DEF EndInit
<1>2. Places /\ Counted /\ Filled
  BY DEF IInv
<1>3. Places'
  BY <1>1, <1>2 DEF EndInit, Places
<1>4. CASE success /\ phase' = "test" /\ UNCHANGED <<outcome, ret>>
  <2>1. Counted'
    BY <1>1, <1>2, <1>4 DEF Counted
  <2>2. RefusalReported'
    BY <1>4 DEF RefusalReported
  <2>3. Filled'
    BY <1>4 DEF Filled
  <2>4. ASSUME NEW n \in 0 .. 6 PROVE Prefixes6[n] \in ToSet(clients)
    <3>1. PICK p \in DOMAIN init : init[p] = [op |-> "client_add", n |-> n]
      <4>1. [op |-> "client_add", n |-> n] \in ToSet(init)
        BY InitScript, EditSteps
      <4> QED BY <4>1 DEF ToSet
    <3>2. p < pc
      <4>1. Len(init) \in Nat /\ DOMAIN init = 1 .. Len(init) /\ pc > Len(init)
        BY <1>1, InitScript, LenProperties DEF Ended, Script
      <4> QED BY <1>2, <4>1 DEF Places
    <3> QED BY <1>1, <1>2, <1>4, <3>1, <3>2 DEF Filled
  <2>5. LastSuite'
    <3>1. prefix' = Prefixes6 /\ Known \subseteq ToSet(clients')
      BY <1>1, <1>2, <2>4 DEF Filled, Known
    <3> QED BY <1>1, <3>1 DEF LastSuite
  <2> QED BY <1>3, <2>1, <2>2, <2>3, <2>5 DEF IInv
<1>5. CASE outcome' = "returned" /\ ret' = -EINVAL /\ UNCHANGED phase
  <2>1. Counted'
    BY <1>1, <1>2, <1>5 DEF Counted
  <2>2. RefusalReported'
    BY <1>5 DEF RefusalReported
  <2>3. Filled'
    <3>1. \A p \in DOMAIN init : ~(p < pc')
      BY <1>1, InitScript, LenProperties
    <3> QED BY <1>1, <1>2, <1>5, <3>1 DEF Filled
  <2>4. LastSuite'
    BY <1>1, <1>5 DEF LastSuite
  <2> QED BY <1>3, <2>1, <2>2, <2>3, <2>4 DEF IInv
<1> QED BY <1>4, <1>5 DEF EndInit

LEMMA EndSuiteKeeps == IInv /\ outcome = "running" /\ EndSuite => IInv'
<1> SUFFICES ASSUME IInv, outcome = "running", EndSuite PROVE IInv'
  OBVIOUS
<1>1. /\ phase = "test" /\ Ended /\ UNCHANGED refused
      /\ failure_counter' = IF success THEN failure_counter ELSE failure_counter + 1
      /\ cpool' = << >> /\ clients' = << >>
  BY DEF EndSuite, end, pool4_flush, client_flush
<1>2. Places /\ Counted /\ LastSuite
  BY DEF IInv
<1>3. /\ failure_counter' \in Nat
      /\ refused'.database > 0 => failure_counter' > 0
  BY <1>1, <1>2 DEF Counted
<1>4. Len(Suites) = 10 /\ DOMAIN Suites = 1 .. 10
  BY DEF Suites
<1>5. CASE /\ suite < Len(Suites) /\ suite' = suite + 1 /\ phase' = "init"
           /\ pc' = 1 /\ success' = TRUE /\ prefix' = Prefixes6
           /\ UNCHANGED <<outcome, ret>>
  <2>1. Places'
    BY <1>2, <1>4, <1>5 DEF Places
  <2>2. Counted'
    BY <1>1, <1>2, <1>3, <1>5 DEF Counted
  <2>3. Filled'
    <3>1. \A p \in DOMAIN init : ~(p < pc')
      BY <1>5, InitScript, LenProperties
    <3>2. clients' \in Seq(Known)
      BY <1>1
    <3> QED BY <1>5, <3>1, <3>2 DEF Filled
  <2>4. LastSuite'
    BY <1>5 DEF LastSuite
  <2>5. RefusalReported'
    BY <1>1, <1>5 DEF RefusalReported
  <2> QED BY <2>1, <2>2, <2>3, <2>4, <2>5 DEF IInv
<1>6. CASE /\ ~(suite < Len(Suites)) /\ outcome' = "returned"
           /\ ret' = Verdict(failure_counter')
           /\ UNCHANGED <<suite, phase, pc, success, prefix>>
  <2>1. Places'
    BY <1>2, <1>6 DEF Places
  <2>2. Counted'
    BY <1>1, <1>2, <1>3, <1>6 DEF Counted
  <2>3. Filled'
    BY <1>1, <1>6 DEF Filled
  <2>4. LastSuite'
    <3>1. suite = 10
      BY <1>2, <1>4, <1>6 DEF Places
    <3>2. pc > 16 /\ pc \in Nat
      BY <1>1, <1>2, <3>1, StepOfLast DEF Ended, Places
    <3> QED BY <1>1, <1>2, <1>6, <3>1, <3>2 DEF LastSuite
  <2>5. RefusalReported'
    BY <1>3, <1>6 DEF RefusalReported, Verdict
  <2> QED BY <2>1, <2>2, <2>3, <2>4, <2>5 DEF IInv
<1> QED BY <1>5, <1>6 DEF EndSuite

-----------------------------------------------------------------------------
LEMMA InvInit == Init => IInv
<1> SUFFICES ASSUME Init PROVE IInv
  OBVIOUS
<1>1. 1 \in DOMAIN Suites
  BY DEF Suites
<1>2. Places /\ Counted /\ LastSuite
  BY <1>1 DEF Init, Places, Counted, LastSuite
<1>3. Filled
  <2>1. \A p \in DOMAIN init : ~(p < 1)
    BY InitScript, LenProperties
  <2> QED BY <2>1 DEF Init, Filled
<1>4. RefusalReported
  BY DEF Init, RefusalReported
<1> QED BY <1>2, <1>3, <1>4 DEF IInv

LEMMA InvStep == IInv /\ [Next \/ Stopped]_vars => IInv'
<1> SUFFICES ASSUME IInv, [Next \/ Stopped]_vars PROVE IInv'
  OBVIOUS
<1>1. CASE Next
  BY <1>1, QueryKeeps, AddToPool4Keeps, AddToClientsKeeps, EditKeeps, DataKeeps,
     AllocatePacketKeeps, ValidMaskKeeps, EndInitKeeps, EndSuiteKeeps DEF Next
<1>2. CASE UNCHANGED vars
  <2>1. UNCHANGED <<cpool, clients, prefix, suite, phase, failure_counter, outcome,
                    ret, pc, success, refused>>
    BY <1>2 DEF vars, script_vars
  <2>2. Places' /\ Counted'
    BY <2>1 DEF IInv, Places, Counted
  <2>3. Filled' /\ LastSuite'
    BY <2>1 DEF IInv, Filled, LastSuite
  <2>4. RefusalReported'
    BY <2>1 DEF IInv, RefusalReported
  <2> QED BY <2>2, <2>3, <2>4 DEF IInv
<1> QED BY <1>1, <1>2 DEF Stopped

(* However many allocations fail, one that was refused to a database makes *)
(* the module's init return an error.                                      *)
THEOREM RefusalsReported == Spec => []RefusalReported
<1>1. IInv => RefusalReported
  BY DEF IInv
<1> QED BY <1>1, InvInit, InvStep, PTL DEF Spec

-----------------------------------------------------------------------------
(* The types.                                                              *)

TestDomain == [first : Taddr, step : {1}, count : Nat]

LEMMA DataTypes ==
  /\ Entries \in [1 .. 7 -> Entry] /\ Range4(3, 60, 70) \in Entry
  /\ Prefixes6 \in [0 .. 7 -> ipv6_prefix]
  /\ \A n \in 0 .. 18 : Network(n, 0) \in ipv6_prefix /\ Addr(n) \in in6_addr
  /\ \A n \in {0, 71}, k \in {0, 1, 8} : Domain(k, n) \in TestDomain
<1>1. Entries \in [1 .. 7 -> Entry]
  <2>1. \A n \in 1 .. 7 : Entries[n] \in Entry
    BY EntriesAssumption
  <2>2. Entries = [n \in 1 .. 7 |-> Entries[n]]
    BY DEF Entries
  <2> HIDE DEF Entries
  <2> QED BY <2>1, <2>2
<1>2. Range4(3, 60, 70) \in Entry
  BY EntriesAssumption
<1>3. AddrBits \in Nat /\ AddrBits >= 64
  BY NfHookAssumption, TypesAssumption DEF AddrBits
<1>4. \A n \in 0 .. 18, b \in 0 .. 6 : Network(n, b) \in ipv6_prefix /\ Addr(n) \in in6_addr
  BY <1>3, AddrType DEF Network, ipv6_prefix
<1>5. Prefixes6 \in [0 .. 7 -> ipv6_prefix]
  <2> DEFINE bits == <<0, 6, 1, 2, 1, 0, 0, 0>>
  <2>1. \A n \in 0 .. 7 : bits[n + 1] \in 0 .. 6
    OBVIOUS
  <2>2. Prefixes6 = [n \in 0 .. 7 |-> Network(n, bits[n + 1])]
    BY DEF Prefixes6
  <2> HIDE DEF bits
  <2> QED BY <1>4, <2>1, <2>2
<1>6. 0 .. 100 \subseteq 0 .. MaxPort
  <2>1. Entries[6] \in Entry /\ Entries[6].max = 100
    BY <1>1 DEF Entries, Range4
  <2>2. Entries[6].max \in 0 .. MaxPort /\ MaxPort \in Nat
    BY <2>1, Pool4Assumption
  <2> QED BY <2>1, <2>2
<1>7. \A n \in {0, 71}, k \in {0, 1, 8} : Domain(k, n) \in TestDomain
  BY <1>6 DEF Domain, T, TestDomain, Taddr
<1> QED BY <1>1, <1>2, <1>4, <1>5, <1>7

(* A suite fails at most once.                                             *)
TypeInv == TypeOK /\ (outcome = "running" => failure_counter < suite)

LEMMA StepFormed ==
  ASSUME Places, ~Ended
  PROVE  Formed(Step) /\ (Step.op = "valid_mask" => Step.n \in 0 .. 18)
<1>1. CASE phase = "init"
  BY <1>1, StepOfInit DEF Formed
<1>2. CASE phase = "test" /\ suite = 10
  BY <1>2, StepOfLast DEF Staged, Formed
<1>3. CASE phase = "test" /\ suite # 10
  BY <1>3, StepOfOther
<1> QED BY <1>1, <1>2, <1>3 DEF Places

LEMMA PlacesFromType == TypeOK => Places
<1> SUFFICES ASSUME TypeOK PROVE Places
  OBVIOUS
<1>1. suite \in DOMAIN Suites /\ phase \in {"init", "test"} /\ pc \in 1 .. Len(Script) + 1
  BY DEF TypeOK
<1>2. Len(Script) \in Nat
  BY <1>1, SuiteScripts, InitScript, LenProperties DEF Script
<1> QED BY <1>1, <1>2 DEF Places

(* The databases.                                                          *)
LEMMA ListsType ==
  TypeOK /\ Next => cpool' \in Seq(Entry) /\ clients' \in Seq(ipv6_prefix)
<1> SUFFICES ASSUME TypeOK, Next
             PROVE  cpool' \in Seq(Entry) /\ clients' \in Seq(ipv6_prefix)
  OBVIOUS
<1>1. /\ cpool \in Seq(Entry) /\ clients \in Seq(ipv6_prefix)
      /\ entry \in [1 .. 7 -> Entry] /\ prefix \in [0 .. 7 -> ipv6_prefix]
  BY DEF TypeOK
<1>2. Places
  BY PlacesFromType
<1>3. CASE Query \/ Redefine \/ FillExpMasks \/ FillExpIn6Addr \/ ForeachTaddr4
           \/ ForEachClient \/ GetMaskDomain \/ AllocatePacket \/ EndInit
  <2>1. UNCHANGED <<cpool, clients>>
    BY <1>3 DEF Query, Redefine, FillExpMasks, FillExpIn6Addr, ForeachTaddr4,
                ForEachClient, GetMaskDomain, AllocatePacket, EndInit
  <2> QED BY <1>1, <2>1
<1>4. CASE AddToPool4
  <2>1. Step.n \in 1 .. 7
    BY <1>2, <1>4, StepFormed DEF AddToPool4, At, Formed
  <2>2. clients' = clients /\ (cpool' = cpool \/ cpool' = Append(cpool, entry[Step.n]))
    BY <1>4 DEF AddToPool4, pool4_add
  <2>3. entry[Step.n] \in Entry
    BY <1>1, <2>1
  <2>4. Append(cpool, entry[Step.n]) \in Seq(Entry)
    BY <1>1, <2>3, AppendProperties
  <2> QED BY <1>1, <2>2, <2>4
<1>5. CASE AddToClients
  <2>1. Step.n \in 0 .. 7
    BY <1>2, <1>5, StepFormed DEF AddToClients, At, Formed
  <2>2. cpool' = cpool /\ (clients' = clients \/ clients' = Append(clients, prefix[Step.n]))
    BY <1>5 DEF AddToClients, client_add
  <2>3. prefix[Step.n] \in ipv6_prefix
    BY <1>1, <2>1
  <2>4. Append(clients, prefix[Step.n]) \in Seq(ipv6_prefix)
    BY <1>1, <2>3, AppendProperties
  <2> QED BY <1>1, <2>2, <2>4
<1>6. CASE Edit
  <2>1. \/ Pool4Rm(entry[Step.n]) \/ Pool4Flush
        \/ ClientDelete(prefix[Step.n]) \/ ClientFlush
    BY <1>6 DEF Edit
  <2>2. /\ cpool' \in {cpool, << >>, pool4_rm(cpool, entry[Step.n])}
        /\ clients' \in {clients, << >>, client_delete(clients, prefix[Step.n])}
    BY <2>1 DEF Pool4Rm, Pool4Flush, ClientDelete, ClientFlush, pool4_flush, client_flush
  <2>3. pool4_rm(cpool, entry[Step.n]) \in Seq(Entry)
    BY <1>1, RmType
  <2>4. client_delete(clients, prefix[Step.n]) \in Seq(ipv6_prefix)
    BY <1>1, DeleteType
  <2>5. << >> \in Seq(Entry) /\ << >> \in Seq(ipv6_prefix)
    OBVIOUS
  <2> QED BY <1>1, <2>2, <2>3, <2>4, <2>5
<1>7. CASE ValidMask
  <2>1. Step.n \in 0 .. 18
    BY <1>2, <1>7, StepFormed DEF ValidMask, At
  <2>2. dynamic_prefix(Addr(Step.n)) \in ipv6_prefix
    BY <2>1, AddrType, TypesAssumption DEF dynamic_prefix, ipv6_prefix, AddrBits
  <2>3. /\ cpool' = cpool
        /\ clients' = clients \/ clients' = Append(clients, dynamic_prefix(Addr(Step.n)))
    BY <1>7 DEF ValidMask, client_add
  <2>4. Append(clients, dynamic_prefix(Addr(Step.n))) \in Seq(ipv6_prefix)
    BY <1>1, <2>2, AppendProperties
  <2> QED BY <1>1, <2>3, <2>4
<1>8. CASE EndSuite
  BY <1>8 DEF EndSuite, end, pool4_flush, client_flush
<1> QED BY <1>3, <1>4, <1>5, <1>6, <1>7, <1>8 DEF Next

(* The data of the tests.                                                  *)
LEMMA DataType ==
  TypeOK /\ Next => /\ entry' \in [1 .. 7 -> Entry] /\ prefix' \in [0 .. 7 -> ipv6_prefix]
                    /\ domain' \in TestDomain
<1> SUFFICES ASSUME TypeOK, Next
             PROVE  /\ entry' \in [1 .. 7 -> Entry]
                    /\ prefix' \in [0 .. 7 -> ipv6_prefix] /\ domain' \in TestDomain
  OBVIOUS
<1>1. /\ cpool \in Seq(Entry) /\ domain \in TestDomain
      /\ entry \in [1 .. 7 -> Entry] /\ prefix \in [0 .. 7 -> ipv6_prefix]
  BY DEF TypeOK, TestDomain
<1>2. Places
  BY PlacesFromType
<1>3. CASE Query \/ AddToPool4 \/ AddToClients \/ Edit \/ ForeachTaddr4 \/ ForEachClient
           \/ FillExpMasks \/ FillExpIn6Addr \/ AllocatePacket \/ ValidMask \/ EndInit
  <2>1. UNCHANGED <<entry, prefix, domain>>
    BY <1>3 DEF Query, AddToPool4, AddToClients, Edit, ForeachTaddr4, ForEachClient,
                FillExpMasks, FillExpIn6Addr, AllocatePacket, ValidMask, EndInit, script_vars
  <2> QED BY <1>1, <2>1
<1>4. CASE Redefine
  <2>0. Formed(Step)
    BY <1>2, <1>4, StepFormed DEF Redefine, At
  <2>1. CASE /\ entry' = [entry EXCEPT ![3] = Range4(3, 60, 70)]
             /\ UNCHANGED <<prefix, domain>>
    BY <1>1, <2>1, DataTypes
  <2>2. CASE /\ prefix' = [prefix EXCEPT ![1] = Network(1, 0), ![2] = Network(14, 0),
                                         ![3] = Network(3, 0)]
             /\ UNCHANGED <<entry, domain>>
    <3>1. /\ Network(1, 0) \in ipv6_prefix /\ Network(14, 0) \in ipv6_prefix
          /\ Network(3, 0) \in ipv6_prefix
      BY DataTypes
    <3> QED BY <1>1, <2>2, <3>1
  <2>3. CASE /\ At("set_prefix7") /\ prefix' = [prefix EXCEPT ![7].address = Addr(Step.n)]
             /\ UNCHANGED <<entry, domain>>
    <3>1. Addr(Step.n) \in in6_addr
      BY <2>0, <2>3, DataTypes DEF At, Formed
    <3>2. [prefix[7] EXCEPT !.address = Addr(Step.n)] \in ipv6_prefix
      BY <1>1, <3>1 DEF ipv6_prefix
    <3> QED BY <1>1, <2>3, <3>2
  <2>4. CASE At("set_domain") /\ domain' = Step.n /\ UNCHANGED <<entry, prefix>>
    <3>1. Step.n \in TestDomain
      BY <2>0, <2>4, DataTypes DEF At, Formed
    <3> QED BY <1>1, <2>4, <3>1
  <2> QED BY <1>4, <2>1, <2>2, <2>3, <2>4 DEF Redefine
<1>5. CASE GetMaskDomain
  <2>1. UNCHANGED <<entry, prefix>>
    BY <1>5 DEF GetMaskDomain, script_vars
  <2>2. Step.mpc \in Nat
    BY <1>2, <1>5, StepFormed DEF GetMaskDomain, At, Formed
  <2>3. \/ domain' = domain
        \/ \E k : \E s \in DomainStart(cpool, k, Step.mpc) :
             domain' = [first |-> TaddrOf(cpool, s), step |-> 1, count |-> Step.mpc]
    BY <1>5 DEF GetMaskDomain
  <2>4. \A k : \A s \in DomainStart(cpool, k, Step.mpc) : TaddrOf(cpool, s) \in Taddr
    BY <1>1, TaddrType DEF DomainStart
  <2> QED BY <1>1, <2>1, <2>2, <2>3, <2>4 DEF TestDomain
<1>6. CASE EndSuite
  <2>1. Unset \in TestDomain
    BY DataTypes DEF Unset
  <2> QED BY <1>1, <1>6, <2>1, DataTypes DEF EndSuite
<1> QED BY <1>3, <1>4, <1>5, <1>6 DEF Next

(* The refusals.                                                           *)
LEMMA RefusedType ==
  TypeOK /\ Next => refused' \in [database : 0 .. MaxFailures, packet : 0 .. MaxFailures]
<1> SUFFICES ASSUME TypeOK, Next
             PROVE  refused' \in [database : 0 .. MaxFailures, packet : 0 .. MaxFailures]
  OBVIOUS
<1>1. /\ refused \in [database : 0 .. MaxFailures, packet : 0 .. MaxFailures]
      /\ MaxFailures \in Nat
  BY NfHookAssumption DEF TypeOK
<1>2. refused' = refused \/ Refuse("database") \/ Refuse("packet")
  BY DEF Next, Query, AddToPool4, AddToClients, Edit, Redefine, FillExpMasks,
         FillExpIn6Addr, ForeachTaddr4, ForEachClient, GetMaskDomain, AllocatePacket,
         ValidMask, EndInit, EndSuite
<1>3. ASSUME NEW what \in {"database", "packet"}, Refuse(what)
      PROVE  refused' \in [database : 0 .. MaxFailures, packet : 0 .. MaxFailures]
  <2>1. refused.database + refused.packet + 1 <= MaxFailures
    BY <1>1, <1>3 DEF Refuse
  <2> QED BY <1>1, <1>3, <2>1 DEF Refuse
<1> QED BY <1>1, <1>2, <1>3

(* The control state: no script is left, and no suite fails twice.         *)
LEMMA ControlType ==
  TypeInv /\ Next =>
    /\ suite' \in DOMAIN Suites /\ phase' \in {"init", "test"}
    /\ pc' \in 1 .. Len(Script') + 1
    /\ success' \in BOOLEAN /\ failure_counter' \in 0 .. Len(Suites)
    /\ outcome' \in {"running", "returned", "hung", "overrun"}
    /\ ret' \in {0, -EINVAL}
    /\ outcome' = "running" => failure_counter' < suite'
<1> DEFINE Control ==
             /\ suite' \in DOMAIN Suites /\ phase' \in {"init", "test"}
             /\ pc' \in 1 .. Len(Script') + 1
             /\ success' \in BOOLEAN /\ failure_counter' \in 0 .. Len(Suites)
             /\ outcome' \in {"running", "returned", "hung", "overrun"}
             /\ ret' \in {0, -EINVAL}
             /\ outcome' = "running" => failure_counter' < suite'
<1> SUFFICES ASSUME TypeInv, Next PROVE Control
  OBVIOUS
<1>1. /\ suite \in 1 .. 10 /\ phase \in {"init", "test"} /\ pc \in 1 .. Len(Script) + 1
      /\ success \in BOOLEAN /\ failure_counter \in 0 .. 10 /\ failure_counter < suite
      /\ outcome = "running" /\ ret \in {0, -EINVAL}
  BY DEF TypeInv, TypeOK, Suites, Next
<1>2. Len(Suites) = 10 /\ DOMAIN Suites = 1 .. 10
  BY DEF Suites
<1>3. Len(init) \in Nat /\ \A n \in 1 .. 10 : Len(Suites[n]) \in Nat
  BY <1>2, SuiteScripts, InitScript, LenProperties
<1>4. Len(Script) \in Nat
  BY <1>1, <1>3 DEF Script
<1>5. ASSUME ~Ended, UNCHANGED <<suite, phase, failure_counter, ret>>,
             outcome' \in {"running", "hung", "overrun"}, success' \in BOOLEAN,
             pc' \in {pc, pc + 1, Len(Script) + 1}
      PROVE  Control
  <2>1. Script' = Script
    BY <1>5 DEF Script
  <2>2. pc' \in 1 .. Len(Script) + 1
    BY <1>1, <1>4, <1>5 DEF Ended
  <2> QED BY <1>1, <1>2, <1>5, <2>1, <2>2
<1>6. CASE Query \/ AddToPool4 \/ AddToClients \/ Edit \/ ForeachTaddr4 \/ ForEachClient
           \/ GetMaskDomain \/ ValidMask
  <2>1. ~Ended /\ UNCHANGED script_vars
    BY <1>6 DEF Query, AddToPool4, AddToClients, Edit, ForeachTaddr4, ForEachClient,
                GetMaskDomain, ValidMask, At
  <2>2. success' \in BOOLEAN /\ pc' = pc + 1
    BY <1>6 DEF Query, AddToPool4, AddToClients, Edit, ForeachTaddr4, ForEachClient,
                GetMaskDomain, ValidMask, Asserted
  <2> QED BY <1>1, <1>5, <2>1, <2>2 DEF script_vars
<1>7. CASE Redefine
  <2>1. ~Ended /\ UNCHANGED <<suite, phase, failure_counter, ret, outcome>>
    BY <1>7 DEF Redefine, At
  <2>2. success' \in BOOLEAN /\ pc' = pc + 1
    BY <1>7 DEF Redefine, Asserted
  <2> QED BY <1>1, <1>5, <2>1, <2>2
<1>8. CASE FillExpMasks \/ FillExpIn6Addr
  <2>1. ~Ended /\ UNCHANGED <<suite, phase, failure_counter, ret>>
    BY <1>8 DEF FillExpMasks, FillExpIn6Addr, At
  <2>2. /\ success' \in BOOLEAN /\ pc' \in {pc, pc + 1}
        /\ outcome' \in {outcome, "hung", "overrun"}
    BY <1>1, <1>8 DEF FillExpMasks, FillExpIn6Addr, Asserted
  <2> QED BY <1>1, <1>5, <2>1, <2>2
<1>9. CASE AllocatePacket
  <2>1. ~Ended /\ UNCHANGED script_vars
    BY <1>9 DEF AllocatePacket, At
  <2>2. success' \in BOOLEAN /\ pc' \in {pc + 1, Len(Script) + 1}
    BY <1>9 DEF AllocatePacket, Asserted
  <2> QED BY <1>1, <1>5, <2>1, <2>2 DEF script_vars
<1>10. CASE EndInit
  <2>1. /\ suite' = suite /\ phase' \in {"init", "test"} /\ pc' = 1 /\ success' = TRUE
        /\ failure_counter' = failure_counter
        /\ outcome' \in {outcome, "returned"} /\ ret' \in {ret, -EINVAL}
    BY <1>10 DEF EndInit
  <2>2. Len(Script') \in Nat
    BY <1>1, <1>3, <2>1 DEF Script
  <2> QED BY <1>1, <1>2, <2>1, <2>2
<1>11. CASE EndSuite
  <2>1. failure_counter' \in 0 .. suite
    BY <1>1, <1>11 DEF EndSuite
  <2>2. CASE /\ suite < Len(Suites) /\ suite' = suite + 1 /\ phase' = "init"
             /\ pc' = 1 /\ success' = TRUE /\ UNCHANGED <<outcome, ret>>
    <3>1. suite' \in 1 .. 10 /\ failure_counter' \in 0 .. 10 /\ failure_counter' < suite'
      BY <1>1, <1>2, <2>1, <2>2
    <3>2. Len(Script') \in Nat
      BY <1>3, <2>2 DEF Script
    <3> QED BY <1>1, <1>2, <2>2, <3>1, <3>2
  <2>3. CASE /\ outcome' = "returned" /\ ret' = Verdict(failure_counter')
             /\ UNCHANGED <<suite, phase, pc, success>>
    <3>1. Script' = Script
      BY <2>3 DEF Script
    <3>2. ret' \in {0, -EINVAL}
      BY <2>3 DEF Verdict
    <3>3. failure_counter' \in 0 .. 10
      BY <1>1, <2>1
    <3> QED BY <1>1, <1>2, <2>3, <3>1, <3>2, <3>3
  <2> QED BY <1>11, <2>2, <2>3 DEF EndSuite
<1> QED BY <1>6, <1>7, <1>8, <1>9, <1>10, <1>11 DEF Next

LEMMA TypeInit == Init => TypeInv
<1> SUFFICES ASSUME Init PROVE TypeInv
  OBVIOUS
<1>1. 1 \in DOMAIN Suites /\ Len(Suites) = 10
  BY DEF Suites
<1>2. Script = init /\ Len(init) \in Nat
  BY InitScript, LenProperties DEF Init, Script
<1>3. pc \in 1 .. Len(Script) + 1
  BY <1>2 DEF Init
<1>4. entry \in [1 .. 7 -> Entry] /\ prefix \in [0 .. 7 -> ipv6_prefix]
  BY DataTypes DEF Init
<1>5. domain \in [first : Taddr, step : {1}, count : Nat]
  BY DataTypes DEF Init, Unset, TestDomain
<1>6. refused \in [database : 0 .. MaxFailures, packet : 0 .. MaxFailures]
  BY NfHookAssumption DEF Init
<1>7. cpool \in Seq(Entry) /\ clients \in Seq(ipv6_prefix)
  BY DEF Init
<1> QED BY <1>1, <1>3, <1>4, <1>5, <1>6, <1>7 DEF Init, TypeInv, TypeOK

LEMMA TypeStep == TypeInv /\ [Next \/ Stopped]_vars => TypeInv'
<1> SUFFICES ASSUME TypeInv, [Next \/ Stopped]_vars PROVE TypeInv'
  OBVIOUS
<1>1. CASE Next
  <2>1. TypeOK
    BY DEF TypeInv
  <2> QED BY <1>1, <2>1, ListsType, DataType, RefusedType, ControlType
          DEF TypeInv, TypeOK, TestDomain
<1>2. CASE UNCHANGED vars
  <2>1. UNCHANGED <<cpool, clients, entry, prefix, suite, phase, failure_counter,
                    outcome, ret, pc, success, domain, refused, Script>>
    BY <1>2 DEF vars, script_vars, Script
  <2> QED BY <2>1 DEF TypeInv, TypeOK
<1> QED BY <1>1, <1>2 DEF Stopped

(* However many allocations fail, no script is left, the lists hold ranges *)
(* and prefixes, and the struct of a suite names a mask.                   *)
THEOREM TypeCorrect == Spec => []TypeOK
<1>1. TypeInv => TypeOK
  BY DEF TypeInv
<1> QED BY <1>1, TypeInit, TypeStep, PTL DEF Spec

-----------------------------------------------------------------------------
(* The loops of the fill_exp functions.  What they need of the lists grows *)
(* with the steps behind, first in init() and then in the suite itself.    *)

InitStaged(p, x) ==
  \/ \E n \in 1 .. 7 :
       \/ p = 2 * n - 1 /\ x = [op |-> "pool4_add", n |-> n]
       \/ p = 2 * n /\ x = [op |-> "pool4_contains", n |-> n, exp |-> TRUE]
  \/ \E n \in 0 .. 6 :
       \/ p = 2 * n + 15 /\ x = [op |-> "client_add", n |-> n]
       \/ p = 2 * n + 16 /\ x = [op |-> "client_addr_exist", n |-> n, exp |-> TRUE]

LEMMA InitPlaces == Len(init) = 28 /\ \A p \in 1 .. 28 : InitStaged(p, init[p])
<1> DEFINE v == [i \in 1 .. 7 - 1 + 1 |-> AddEntry(1 + i - 1)]
           w == [i \in 1 .. 6 - 0 + 1 |-> AddClient(0 + i - 1)]
           S == UNION {ToSet(AddEntry(n)) \cup ToSet(AddClient(n)) : n \in 0 .. 7}
           F == FlattenSeq(v)
           G == FlattenSeq(w)
<1>1. v = [i \in 1 .. 7 |-> v[i]] /\ \A i \in 1 .. 7 : v[i] = AddEntry(i)
  OBVIOUS
<1>2. w = [i \in 1 .. 7 |-> w[i]] /\ \A i \in 1 .. 7 : w[i] = AddClient(i - 1)
  OBVIOUS
<1>3. init = F \o G
  BY DEF init, Each
<1> HIDE DEF v, w
<1>4. Len(v) = 7 /\ Len(w) = 7
  BY <1>1, <1>2, TableLength
<1>5. \A i \in 1 .. 7 : /\ v[i] \in Seq(S) /\ Len(v[i]) = 2
                        /\ w[i] \in Seq(S) /\ Len(w[i]) = 2
  <2>1. \A i \in 1 .. 7 : i \in 0 .. 7 /\ i - 1 \in 0 .. 7
    OBVIOUS
  <2>2. \A n \in 0 .. 7 : ToSet(AddEntry(n)) \subseteq S /\ ToSet(AddClient(n)) \subseteq S
    OBVIOUS
  <2> HIDE DEF S
  <2>3. \A n \in 0 .. 7 : /\ AddEntry(n) \in Seq(S) /\ Len(AddEntry(n)) = 2
                          /\ AddClient(n) \in Seq(S) /\ Len(AddClient(n)) = 2
    BY <2>2, AddSteps, EditSteps, WiderSeq
  <2> QED BY <1>1, <1>2, <2>1, <2>3
<1> HIDE DEF S
<1>6. /\ F \in Seq(S) /\ Len(F) = 14
      /\ \A n \in 1 .. 7 : F[2 * n - 1] = v[n][1] /\ F[2 * n] = v[n][2]
  <2>1. Len(v) \in Nat \ {0} /\ \A i \in 1 .. Len(v) : v[i] \in Seq(S) /\ Len(v[i]) = 2
    BY <1>4, <1>5
  <2>2. /\ F \in Seq(S) /\ Len(F) = 2 * Len(v)
        /\ \A n \in 1 .. Len(v) : F[2 * n - 1] = v[n][1] /\ F[2 * n] = v[n][2]
    BY <2>1, FlatPairs
  <2> QED BY <1>4, <2>2
<1>7. /\ G \in Seq(S) /\ Len(G) = 14
      /\ \A n \in 1 .. 7 : G[2 * n - 1] = w[n][1] /\ G[2 * n] = w[n][2]
  <2>1. Len(w) \in Nat \ {0} /\ \A i \in 1 .. Len(w) : w[i] \in Seq(S) /\ Len(w[i]) = 2
    BY <1>4, <1>5
  <2>2. /\ G \in Seq(S) /\ Len(G) = 2 * Len(w)
        /\ \A n \in 1 .. Len(w) : G[2 * n - 1] = w[n][1] /\ G[2 * n] = w[n][2]
    BY <2>1, FlatPairs
  <2> QED BY <1>4, <2>2
<1> HIDE DEF F, G
<1>8. /\ Len(init) = 28
      /\ \A p \in 1 .. 28 : init[p] = IF p <= 14 THEN F[p] ELSE G[p - 14]
  <2>1. /\ Len(init) = Len(F) + Len(G)
        /\ \A p \in 1 .. Len(F) + Len(G) :
             init[p] = IF p <= Len(F) THEN F[p] ELSE G[p - Len(F)]
    BY <1>3, <1>6, <1>7, ConcatProperties
  <2>2. Len(F) = 14 /\ Len(G) = 14 /\ Len(F) + Len(G) = 28
    BY <1>6, <1>7
  <2> QED BY <2>1, <2>2
<1>9. ASSUME NEW n \in 1 .. 7
      PROVE  /\ F[2 * n - 1] = [op |-> "pool4_add", n |-> n]
             /\ F[2 * n] = [op |-> "pool4_contains", n |-> n, exp |-> TRUE]
             /\ G[2 * n - 1] = [op |-> "client_add", n |-> n - 1]
             /\ G[2 * n] = [op |-> "client_addr_exist", n |-> n - 1, exp |-> TRUE]
  <2>1. v[n] = AddEntry(n) /\ w[n] = AddClient(n - 1)
    BY <1>1, <1>2
  <2>2. /\ F[2 * n - 1] = AddEntry(n)[1] /\ F[2 * n] = AddEntry(n)[2]
        /\ G[2 * n - 1] = AddClient(n - 1)[1] /\ G[2 * n] = AddClient(n - 1)[2]
    BY <1>6, <1>7, <2>1
  <2> QED BY <2>2, AddSteps
<1>10. ASSUME NEW p \in 1 .. 28 PROVE InitStaged(p, init[p])
  <2>1. PICK n \in 1 .. 14 : p = 2 * n - 1 \/ p = 2 * n
    <3>1. (p + 1) \div 2 \in 1 .. 14
      OBVIOUS
    <3>2. p = 2 * ((p + 1) \div 2) - 1 \/ p = 2 * ((p + 1) \div 2)
      OBVIOUS
    <3> QED BY <3>1, <3>2
  <2>2. CASE n <= 7
    <3>1. n \in 1 .. 7 /\ p <= 14
      BY <2>1, <2>2
    <3>2. CASE p = 2 * n - 1
      <4>1. init[p] = [op |-> "pool4_add", n |-> n]
        BY <1>8, <1>9, <3>1, <3>2
      <4> QED BY <3>1, <3>2, <4>1 DEF InitStaged
    <3>3. CASE p = 2 * n
      <4>1. init[p] = [op |-> "pool4_contains", n |-> n, exp |-> TRUE]
        BY <1>8, <1>9, <3>1, <3>3
      <4> QED BY <3>1, <3>3, <4>1 DEF InitStaged
    <3> QED BY <2>1, <3>2, <3>3
  <2>3. CASE n > 7
    <3> DEFINE m == n - 7
               k == n - 8
    <3>1. /\ m \in 1 .. 7 /\ k \in 0 .. 6 /\ m - 1 = k
          /\ p > 14 /\ ~(p <= 14)
      BY <2>1, <2>3
    <3>2. CASE p = 2 * n - 1
      <4>0. p - 14 = 2 * m - 1 /\ p = 2 * k + 15
        BY <2>3, <3>2
      <4> HIDE DEF m, k
      <4>1. init[p] = [op |-> "client_add", n |-> k]
        BY <1>8, <1>9, <3>1, <4>0
      <4> QED BY <3>1, <4>0, <4>1 DEF InitStaged
    <3>3. CASE p = 2 * n
      <4>0. p - 14 = 2 * m /\ p = 2 * k + 16
        BY <3>3
      <4> HIDE DEF m, k
      <4>1. init[p] = G[2 * m]
        BY <1>8, <3>1, <4>0
      <4>2. init[p] = [op |-> "client_addr_exist", n |-> k, exp |-> TRUE]
        BY <1>9, <3>1, <4>1
      <4> QED BY <3>1, <4>0, <4>2 DEF InitStaged
    <3> QED BY <2>1, <3>2, <3>3
  <2> QED BY <2>2, <2>3
<1> QED BY <1>8, <1>10

(* The ranges of the tests hold ports, and so does a list of them.         *)
Upright == {e \in Entry : e.min <= e.max}

(* The ranges and clients that init() has asked memory for at step p.      *)
Ranges(p) == IF p < 15 THEN p \div 2 ELSE 7
Hosts(p) == IF p < 15 THEN 0 ELSE (p - 14) \div 2

(* A node is missing from a list for each one refused, which clears        *)
(* success, and nothing else does.                                         *)
InitCounts ==
  /\ Len(cpool) <= Ranges(pc) /\ Len(clients) <= Hosts(pc)
  /\ Len(cpool) + Len(clients) + refused.database >= Ranges(pc) + Hosts(pc)
  /\ ~success => Len(cpool) + Len(clients) < Ranges(pc) + Hosts(pc)
  /\ success => Len(cpool) = Ranges(pc) /\ Len(clients) = Hosts(pc)

InitStock ==
  /\ InitCounts
  /\ success =>
       /\ \A n \in 1 .. 7 : 2 * n - 1 < pc => entry[n] \in ToSet(cpool)
       /\ \A n \in 0 .. 6 : 2 * n + 15 < pc => Prefixes6[n] \in ToSet(clients)
  /\ prefix = Prefixes6

(* The suite starts with all that init() adds.  What it adds itself may be *)
(* refused; unless it is, the third client after the flush ends in 14.     *)
IterStock ==
  /\ pc <= 8 => cpool # << >>
  /\ pc \in 9 .. 16 => cpool # << >> \/ refused.database >= (pc - 9) \div 2
  /\ pc <= 28 => Len(clients) = 7
  /\ pc \in 29 .. 38 =>
       /\ Len(clients) <= (pc - 29) \div 2
       /\ Len(clients) + refused.database >= (pc - 29) \div 2
  /\ pc \in 30 .. 38 => prefix[2].address = Addr(14)
  /\ pc \in 35 .. 38 => refused.database > 0 \/ clients[3].address = Addr(14)

Stock ==
  /\ entry \in [1 .. 7 -> Upright] /\ cpool \in Seq(Upright)
  /\ IF phase = "init" THEN InitStock ELSE IterStock

Looping == phase = "init" \/ suite = 7

Stocked == outcome = "running" /\ Looping => Stock

LInv == TypeInv /\ Stocked /\ LoopsEnd /\ NodesLeft

LEMMA EntriesUpright == Entries \in [1 .. 7 -> Upright]
<1>1. ASSUME NEW n \in 1 .. 7 PROVE Entries[n].min <= Entries[n].max
  <2>1. n = 1 \/ n = 2 \/ n = 3 \/ n = 4 \/ n = 5 \/ n = 6 \/ n = 7
    OBVIOUS
  <2> QED BY <2>1 DEF Entries, Range4
<1> QED BY <1>1, DataTypes DEF Upright

LEMMA RefuseAdds ==
  ASSUME TypeOK, Refuse("database")
  PROVE  /\ refused'.database = refused.database + 1
         /\ refused.database \in Nat /\ refused'.database \in Nat
<1>1. refused \in [database : Nat, packet : Nat]
  BY NfHookAssumption DEF TypeOK
<1> QED BY <1>1 DEF Refuse

LEMMA RefusedIs == TypeOK => refused.database \in Nat
BY NfHookAssumption DEF TypeOK

LEMMA InitPlace ==
  ASSUME TypeOK, phase = "init"
  PROVE  /\ pc \in 1 .. 29 /\ (Ended <=> pc = 29)
         /\ ~Ended => InitStaged(pc, Step)
<1>1. Script = init
  BY DEF Script
<1>2. Len(Script) = 28 /\ \A p \in 1 .. 28 : InitStaged(p, Script[p])
  BY <1>1, InitPlaces
<1>3. pc \in 1 .. 29
  BY <1>2 DEF TypeOK
<1>4. Ended <=> pc = 29
  BY <1>2, <1>3 DEF Ended
<1> QED BY <1>2, <1>3, <1>4 DEF Step

(* What an assertion of init() asks for is there once it has been added.   *)
LEMMA InitQueryHolds ==
  ASSUME TypeOK, Stock, phase = "init", Query
  PROVE  success' = success /\ Step.op \in {"pool4_contains", "client_addr_exist"}
<1>1. /\ ~Ended /\ Step.op \in Queries /\ success' = (success /\ Holds(Step))
  BY DEF Query, Asserted
<1>2. pc \in 1 .. 29 /\ InitStaged(pc, Step) /\ InitStock /\ success \in BOOLEAN
  BY <1>1, InitPlace DEF Stock, TypeOK
<1>3. CASE \E n \in 1 .. 7 :
             pc = 2 * n /\ Step = [op |-> "pool4_contains", n |-> n, exp |-> TRUE]
  <2>1. PICK n \in 1 .. 7 :
             pc = 2 * n /\ Step = [op |-> "pool4_contains", n |-> n, exp |-> TRUE]
    BY <1>3
  <2>2. Step.op = "pool4_contains" /\ Step.n = n /\ Step.exp = TRUE
    BY <2>1
  <2>3. ASSUME success PROVE Holds(Step)
    <3>1. entry[n] \in ToSet(cpool)
      BY <1>2, <2>1, <2>3 DEF InitStock
    <3>2. pool4_contains(cpool, entry[n]) = TRUE
      BY <3>1 DEF pool4_contains, pool4_compare, ToSet
    <3> QED BY <2>2, <3>2 DEF Holds
  <2> QED BY <1>1, <1>2, <2>2, <2>3
<1>4. CASE \E n \in 0 .. 6 :
             /\ pc = 2 * n + 16
             /\ Step = [op |-> "client_addr_exist", n |-> n, exp |-> TRUE]
  <2>1. PICK n \in 0 .. 6 :
             /\ pc = 2 * n + 16
             /\ Step = [op |-> "client_addr_exist", n |-> n, exp |-> TRUE]
    BY <1>4
  <2>2. Step.op = "client_addr_exist" /\ Step.n = n /\ Step.exp = TRUE
    BY <2>1
  <2>3. ASSUME success PROVE Holds(Step)
    <3>1. Prefixes6[n] \in ToSet(clients) /\ prefix[n].address = Addr(n)
      BY <1>2, <2>1, <2>3, KnownClient DEF InitStock
    <3>2. client_addr_exist(clients, prefix[n].address) = TRUE
      <4>1. client_addr_exist(clients, Addr(n))
        BY <3>1, KnownExists
      <4> QED BY <3>1, <4>1 DEF client_addr_exist
    <3> QED BY <2>2, <3>2 DEF Holds
  <2> QED BY <1>1, <1>2, <2>2, <2>3
<1> QED BY <1>1, <1>2, <1>3, <1>4 DEF InitStaged, Queries

(* A step that leaves the lists and the data alone.                        *)
LEMMA TurnStocks ==
  ASSUME TypeOK, Stock, Looping, ~Ended, pc' = pc + 1,
         UNCHANGED <<suite, phase, entry, prefix, cpool, clients, refused>>,
         phase = "init" => /\ success' = success
                           /\ Step.op \in {"pool4_contains", "client_addr_exist"},
         Step.op \notin {"pool4_add", "client_add", "pool4_flush", "client_flush",
                         "redefine_entries", "redefine_prefixes"}
  PROVE  Stock'
<1>1. entry' \in [1 .. 7 -> Upright] /\ cpool' \in Seq(Upright)
  BY DEF Stock
<1>2. Places
  BY PlacesFromType
<1>3. CASE phase = "init"
  <2>1. pc \in 1 .. 28 /\ InitStaged(pc, Step) /\ InitStock /\ success' = success
    BY <1>3, InitPlace DEF Stock
  <2>2. PICK n \in 1 .. 14 : pc = 2 * n
    <3>1. \/ \E n \in 1 .. 7 : pc = 2 * n
          \/ \E n \in 0 .. 6 : pc = 2 * n + 16
      BY <1>3, <2>1 DEF InitStaged
    <3>2. ASSUME NEW n \in 0 .. 6, pc = 2 * n + 16 PROVE pc = 2 * (n + 8)
      BY <3>2
    <3> QED BY <3>1, <3>2
  <2>3. Ranges(pc') = Ranges(pc) /\ Hosts(pc') = Hosts(pc)
    BY <2>2 DEF Ranges, Hosts
  <2>5. InitCounts'
    BY <2>1, <2>3 DEF InitStock, InitCounts
  <2>4. /\ \A m \in 1 .. 7 : 2 * m - 1 < pc' => 2 * m - 1 < pc
        /\ \A m \in 0 .. 6 : 2 * m + 15 < pc' => 2 * m + 15 < pc
    BY <2>2
  <2> QED BY <1>1, <1>3, <2>1, <2>4, <2>5 DEF Stock, InitStock
<1>4. CASE phase = "test"
  <2>1. pc \in 1 .. 42 /\ IterStaged(pc, Step) /\ IterStock
    BY <1>2, <1>4, StepOfIter DEF Stock, Looping
  <2>2. pc \notin {8, 9, 10, 12, 14, 28, 29, 30, 32, 34, 36}
    BY <2>1 DEF IterStaged
  <2>3. /\ pc' <= 8 => cpool # << >>
        /\ pc' <= 28 => Len(clients) = 7
    BY <2>1, <2>2 DEF IterStock
  <2>4. ASSUME pc' \in 9 .. 16
        PROVE  cpool # << >> \/ refused.database >= (pc' - 9) \div 2
    <3>1. pc \in {11, 13, 15} /\ (pc' - 9) \div 2 = (pc - 9) \div 2
      BY <2>1, <2>2, <2>4
    <3> QED BY <2>1, <3>1 DEF IterStock
  <2>5. ASSUME pc' \in 29 .. 38
        PROVE  /\ Len(clients) <= (pc' - 29) \div 2
               /\ Len(clients) + refused.database >= (pc' - 29) \div 2
               /\ pc' \in 30 .. 38 => prefix[2].address = Addr(14)
               /\ pc' \in 35 .. 38 =>
                    refused.database > 0 \/ clients[3].address = Addr(14)
    <3>1. pc \in {31, 33, 35, 37} /\ (pc' - 29) \div 2 = (pc - 29) \div 2
      BY <2>1, <2>2, <2>5
    <3> QED BY <2>1, <3>1 DEF IterStock
  <2>6. IterStock'
    BY <2>3, <2>4, <2>5 DEF IterStock
  <2> QED BY <1>1, <1>4, <2>6 DEF Stock
<1> QED BY <1>2, <1>3, <1>4 DEF Places

LEMMA AddToPool4Stocks ==
  ASSUME TypeOK, Stock, Looping, AddToPool4
  PROVE  Stock'
<1>1. /\ ~Ended /\ Step.op = "pool4_add" /\ pc' = pc + 1 /\ clients' = clients
      /\ UNCHANGED <<suite, phase, entry, prefix>>
  BY DEF AddToPool4, At, Asserted, script_vars
<1>2. \/ /\ cpool' = Append(cpool, entry[Step.n]) /\ refused' = refused
         /\ success' = success
      \/ /\ cpool' = cpool /\ refused'.database = refused.database + 1
         /\ success' = FALSE
  BY RefuseAdds DEF AddToPool4, pool4_add, Asserted, TypeOK
<1>3. Places /\ refused.database \in Nat /\ Len(clients) \in Nat /\ success \in BOOLEAN
  BY PlacesFromType, RefusedIs, LenProperties DEF TypeOK
<1>4. Step.n \in 1 .. 7
  BY <1>1, <1>3, StepFormed DEF Formed
<1>5. entry[Step.n] \in Upright /\ cpool \in Seq(Upright) /\ Len(cpool) \in Nat
  BY <1>4, LenProperties DEF Stock
<1>6. \/ /\ cpool' \in Seq(Upright) /\ Len(cpool') = Len(cpool) + 1
         /\ ToSet(cpool') = ToSet(cpool) \cup {entry[Step.n]}
         /\ refused' = refused /\ success' = success
      \/ /\ cpool' = cpool /\ refused'.database = refused.database + 1
         /\ success' = FALSE
  <2>1. Append(cpool, entry[Step.n]) \in Seq(Upright)
    BY <1>5, AppendProperties
  <2>2. Len(Append(cpool, entry[Step.n])) = Len(cpool) + 1
    BY <1>5, AppendProperties
  <2>3. ToSet(Append(cpool, entry[Step.n])) = ToSet(cpool) \cup {entry[Step.n]}
    BY <1>5, AppendElements
  <2> QED BY <1>2, <2>1, <2>2, <2>3
<1>7. entry' \in [1 .. 7 -> Upright] /\ cpool' \in Seq(Upright)
  BY <1>1, <1>5, <1>6 DEF Stock
<1>8. CASE phase = "init"
  <2>1. pc \in 1 .. 29 /\ InitStaged(pc, Step) /\ InitStock
    BY <1>1, <1>8, InitPlace DEF Stock
  <2>2. pc = 2 * Step.n - 1
    BY <1>1, <2>1 DEF InitStaged
  <2>3. /\ Ranges(pc') = Ranges(pc) + 1 /\ Hosts(pc') = Hosts(pc)
        /\ Ranges(pc) \in Nat /\ Hosts(pc) \in Nat
    BY <1>1, <1>4, <2>2 DEF Ranges, Hosts
  <2>4. /\ \A m \in 1 .. 7 : 2 * m - 1 < pc' => 2 * m - 1 < pc \/ m = Step.n
        /\ \A m \in 0 .. 6 : 2 * m + 15 < pc' => 2 * m + 15 < pc
    BY <1>1, <1>4, <2>2
  <2>5. CASE cpool' = cpool /\ refused'.database = refused.database + 1
             /\ success' = FALSE
    <3>1. InitCounts'
      <4>1. UNCHANGED <<cpool, clients>> /\ InitCounts
        BY <1>1, <2>1, <2>5 DEF InitStock
      <4> QED BY <1>3, <1>5, <2>3, <2>5, <4>1 DEF InitCounts
    <3> QED BY <1>1, <1>7, <1>8, <2>1, <2>5, <3>1 DEF Stock, InitStock
  <2>6. CASE /\ Len(cpool') = Len(cpool) + 1
             /\ ToSet(cpool') = ToSet(cpool) \cup {entry[Step.n]}
             /\ refused' = refused /\ success' = success
    <3>1. InitCounts'
      <4>1. clients' = clients /\ InitCounts
        BY <1>1, <2>1 DEF InitStock
      <4> QED BY <1>3, <1>5, <2>3, <2>6, <4>1 DEF InitCounts
    <3>2. ASSUME success
          PROVE  /\ \A m \in 1 .. 7 : 2 * m - 1 < pc' => entry[m] \in ToSet(cpool')
                 /\ \A m \in 0 .. 6 : 2 * m + 15 < pc' => Prefixes6[m] \in ToSet(clients)
      BY <2>1, <2>4, <2>6, <3>2 DEF InitStock
    <3> QED BY <1>1, <1>7, <1>8, <2>1, <2>6, <3>1, <3>2 DEF Stock, InitStock
  <2> QED BY <1>6, <2>5, <2>6
<1>9. CASE phase = "test"
  <2>1. pc \in {10, 12, 14} /\ IterStock
    BY <1>1, <1>3, <1>9, StepOfIter DEF IterStaged, Stock, Looping
  <2>2. Len(clients') = 7 /\ pc' \in {11, 13, 15}
    BY <1>1, <2>1 DEF IterStock
  <2>3. cpool' # << >> \/ refused'.database >= (pc' - 9) \div 2
    <3>1. CASE Len(cpool') = Len(cpool) + 1
      BY <1>5, <1>7, <3>1, EmptySeq
    <3>2. CASE cpool' = cpool /\ refused'.database = refused.database + 1
      <4>1. cpool # << >> \/ refused.database >= (pc - 9) \div 2
        BY <2>1 DEF IterStock
      <4>2. (pc' - 9) \div 2 = (pc - 9) \div 2 + 1
        BY <1>1, <2>1
      <4> QED BY <1>3, <2>1, <3>2, <4>1, <4>2
    <3> QED BY <1>6, <3>1, <3>2
  <2>4. /\ ~(pc' <= 8) /\ pc' <= 28 /\ pc' \notin 29 .. 38
        /\ pc' \notin 30 .. 38 /\ pc' \notin 35 .. 38
    BY <2>2
  <2>5. IterStock'
    BY <2>2, <2>3, <2>4 DEF IterStock
  <2> QED BY <1>1, <1>7, <1>9, <2>5 DEF Stock
<1> QED BY <1>3, <1>8, <1>9 DEF Places

LEMMA AddToClientsStocks ==
  ASSUME TypeOK, Stock, Looping, AddToClients
  PROVE  Stock'
<1>1. /\ ~Ended /\ Step.op = "client_add" /\ pc' = pc + 1 /\ cpool' = cpool
      /\ UNCHANGED <<suite, phase, entry, prefix>>
  BY DEF AddToClients, At, Asserted, script_vars
<1>2. \/ /\ clients' = Append(clients, prefix[Step.n]) /\ refused' = refused
         /\ success' = success
      \/ /\ clients' = clients /\ refused'.database = refused.database + 1
         /\ success' = FALSE
  BY RefuseAdds DEF AddToClients, client_add, Asserted, TypeOK
<1>3. /\ Places /\ clients \in Seq(ipv6_prefix) /\ prefix \in [0 .. 7 -> ipv6_prefix]
  BY PlacesFromType DEF TypeOK
<1>0. /\ refused.database \in Nat /\ Len(cpool) \in Nat /\ Len(clients) \in Nat
      /\ success \in BOOLEAN
  BY RefusedIs, LenProperties DEF TypeOK
<1>4. Step.n \in 0 .. 7
  BY <1>1, <1>3, StepFormed DEF Formed
<1>5. \/ /\ Len(clients') = Len(clients) + 1 /\ clients'[Len(clients) + 1] = prefix[Step.n]
         /\ \A k \in 1 .. Len(clients) : clients'[k] = clients[k]
         /\ ToSet(clients') = ToSet(clients) \cup {prefix[Step.n]}
         /\ refused' = refused /\ success' = success
      \/ /\ clients' = clients /\ refused'.database = refused.database + 1
         /\ success' = FALSE
  <2>1. prefix[Step.n] \in ipv6_prefix
    BY <1>3, <1>4
  <2> DEFINE longer == Append(clients, prefix[Step.n])
  <2>2. /\ Len(longer) = Len(clients) + 1 /\ longer[Len(clients) + 1] = prefix[Step.n]
        /\ \A k \in 1 .. Len(clients) : longer[k] = clients[k]
    BY <1>3, <2>1, AppendProperties
  <2>3. ToSet(longer) = ToSet(clients) \cup {prefix[Step.n]}
    BY <1>3, <2>1, AppendElements
  <2> QED BY <1>2, <2>2, <2>3
<1>6. entry' \in [1 .. 7 -> Upright] /\ cpool' \in Seq(Upright)
  BY <1>1 DEF Stock
<1>7. CASE phase = "init"
  <2>1. pc \in 1 .. 29 /\ InitStaged(pc, Step) /\ InitStock
    BY <1>1, <1>7, InitPlace DEF Stock
  <2>2. pc = 2 * Step.n + 15 /\ Step.n \in 0 .. 6
    BY <1>1, <2>1 DEF InitStaged
  <2>3. /\ Ranges(pc') = Ranges(pc) /\ Hosts(pc') = Hosts(pc) + 1
        /\ Ranges(pc) \in Nat /\ Hosts(pc) \in Nat
    BY <1>1, <2>2 DEF Ranges, Hosts
  <2>4. /\ \A m \in 1 .. 7 : 2 * m - 1 < pc' => 2 * m - 1 < pc
        /\ \A m \in 0 .. 6 : 2 * m + 15 < pc' => 2 * m + 15 < pc \/ m = Step.n
    BY <1>1, <2>2
  <2>5. CASE clients' = clients /\ refused'.database = refused.database + 1
             /\ success' = FALSE
    <3>1. InitCounts'
      <4>1. UNCHANGED <<cpool, clients>> /\ InitCounts
        BY <1>1, <2>1, <2>5 DEF InitStock
      <4> QED BY <1>0, <2>3, <2>5, <4>1 DEF InitCounts
    <3> QED BY <1>1, <1>6, <1>7, <2>1, <2>5, <3>1 DEF Stock, InitStock
  <2>6. CASE /\ Len(clients') = Len(clients) + 1
             /\ ToSet(clients') = ToSet(clients) \cup {prefix[Step.n]}
             /\ refused' = refused /\ success' = success
    <3>1. InitCounts'
      <4>1. cpool' = cpool /\ InitCounts
        BY <1>1, <2>1 DEF InitStock
      <4> QED BY <1>0, <2>3, <2>6, <4>1 DEF InitCounts
    <3>2. ASSUME success
          PROVE  /\ \A m \in 1 .. 7 : 2 * m - 1 < pc' => entry[m] \in ToSet(cpool)
                 /\ \A m \in 0 .. 6 : 2 * m + 15 < pc' => Prefixes6[m] \in ToSet(clients')
      BY <2>1, <2>4, <2>6, <3>2 DEF InitStock
    <3> QED BY <1>1, <1>6, <1>7, <2>1, <2>6, <3>1, <3>2 DEF Stock, InitStock
  <2> QED BY <1>5, <2>5, <2>6
<1>8. CASE phase = "test"
  <2>1. pc \in {30, 32, 34, 36} /\ IterStock /\ (pc = 34 => Step.n = 2)
    BY <1>1, <1>3, <1>8, StepOfIter DEF IterStaged, Stock, Looping
  <2>2. /\ prefix[2].address = Addr(14)
        /\ Len(clients) <= (pc - 29) \div 2
        /\ Len(clients) + refused.database >= (pc - 29) \div 2
        /\ pc = 36 => refused.database > 0 \/ clients[3].address = Addr(14)
    BY <2>1 DEF IterStock
  <2>3. (pc' - 29) \div 2 = (pc - 29) \div 2 + 1
    BY <1>1, <2>1
  <2>4. /\ Len(clients') <= (pc' - 29) \div 2
        /\ Len(clients') + refused'.database >= (pc' - 29) \div 2
    <3> DEFINE h == (pc - 29) \div 2
               g == (pc' - 29) \div 2
               r == refused.database
               q == refused'.database
    <3>1. h \in Nat /\ g = h + 1
      BY <2>1, <2>3
    <3>2. \/ Len(clients') = Len(clients) + 1 /\ refused'.database = refused.database
          \/ /\ Len(clients') = Len(clients)
             /\ refused'.database = refused.database + 1
      BY <1>5
    <3>3. r \in Nat /\ Len(clients) <= h /\ Len(clients) + r >= h
      BY <1>0, <2>2
    <3>4. \/ Len(clients') = Len(clients) + 1 /\ q = r
          \/ Len(clients') = Len(clients) /\ q = r + 1
      BY <3>2
    <3> HIDE DEF h, g, r, q
    <3>5. Len(clients') <= g /\ Len(clients') + q >= g
      BY <1>0, <3>1, <3>3, <3>4
    <3> QED BY <3>5 DEF g, q
  <2>5. ASSUME pc' \in 35 .. 38
        PROVE  refused'.database > 0 \/ clients'[3].address = Addr(14)
    <3>0. refused'.database > 0 \/ (refused' = refused /\ refused.database = 0)
      <4>1. refused' = refused \/ refused'.database = refused.database + 1
        BY <1>5
      <4> QED BY <1>0, <4>1
    <3>1. CASE refused' = refused /\ refused.database = 0 /\ pc = 34
      <4>0. (34 - 29) \div 2 = 2
        OBVIOUS
      <4>1. Len(clients) <= 2 /\ Len(clients) + 0 >= 2 /\ Step.n = 2
        BY <2>1, <2>2, <3>1, <4>0
      <4>2. Len(clients) = 2
        <5> DEFINE n == Len(clients)
        <5>1. n \in Nat /\ n <= 2 /\ n + 0 >= 2
          BY <1>0, <4>1
        <5> HIDE DEF n
        <5>2. n = 2
          BY <5>1
        <5> QED BY <5>2 DEF n
      <4> QED BY <1>3, <1>5, <2>2, <3>1, <4>1, <4>2
    <3>2. CASE refused' = refused /\ refused.database = 0 /\ pc = 36
      <4>0. (36 - 29) \div 2 = 3
        OBVIOUS
      <4>1. 3 \in 1 .. Len(clients)
        BY <1>0, <2>2, <3>2, <4>0
      <4> QED BY <1>3, <1>5, <2>2, <3>2, <4>1
    <3> QED BY <1>1, <2>1, <2>5, <3>0, <3>1, <3>2
  <2>6. pc' \in 31 .. 37
    BY <1>1, <2>1
  <2>7. IterStock'
    BY <1>1, <2>2, <2>4, <2>5, <2>6 DEF IterStock
  <2> QED BY <1>1, <1>6, <1>8, <2>7 DEF Stock
<1> QED BY <1>3, <1>7, <1>8 DEF Places

(* The two flushes of the suite.                                           *)
LEMMA EditStocks ==
  ASSUME TypeOK, Stock, Looping, Edit
  PROVE  Stock'
<1>1. /\ ~Ended /\ Step.op \in {"pool4_rm", "pool4_flush", "client_delete", "client_flush"}
      /\ pc' = pc + 1 /\ UNCHANGED <<suite, phase, entry, prefix, refused>>
      /\ Step.op = "pool4_flush" => cpool' = << >> /\ clients' = clients
      /\ Step.op = "client_flush" => clients' = << >> /\ cpool' = cpool
  BY DEF Edit, At, Asserted, script_vars, Pool4Flush, ClientFlush, pool4_flush, client_flush
<1>2. Places
  BY PlacesFromType
<1>3. phase = "test"
  BY <1>1, <1>2, StepOfInit DEF Places
<1>4. IterStaged(pc, Step) /\ IterStock
  BY <1>1, <1>2, <1>3, StepOfIter DEF Stock, Looping
<1>5. entry' \in [1 .. 7 -> Upright] /\ cpool \in Seq(Upright)
  BY <1>1 DEF Stock
<1>9. refused.database \in Nat
  BY RefusedIs
<1>6. CASE Step.op = "pool4_flush"
  <2>1. pc = 8 /\ pc' = 9 /\ cpool' = << >> /\ clients' = clients
    BY <1>1, <1>4, <1>6 DEF IterStaged
  <2>2. (9 - 9) \div 2 = 0 /\ refused'.database >= 0
    BY <1>1, <1>9
  <2>3. IterStock' /\ cpool' \in Seq(Upright)
    BY <1>4, <2>1, <2>2 DEF IterStock
  <2> QED BY <1>1, <1>3, <1>5, <2>3 DEF Stock
<1>7. CASE Step.op = "client_flush"
  <2>1. pc = 28 /\ pc' = 29 /\ clients' = << >> /\ cpool' = cpool
    BY <1>1, <1>4, <1>7 DEF IterStaged
  <2>2. Len(clients') = 0 /\ (29 - 29) \div 2 = 0 /\ refused'.database >= 0
    BY <1>1, <1>9, <2>1
  <2>3. /\ Len(clients') <= (pc' - 29) \div 2
        /\ Len(clients') + refused'.database >= (pc' - 29) \div 2
    BY <1>1, <1>9, <2>1, <2>2
  <2>4. IterStock'
    BY <1>4, <2>1, <2>2, <2>3 DEF IterStock
  <2> QED BY <1>1, <1>3, <1>5, <2>1, <2>4 DEF Stock
<1>8. Step.op \in {"pool4_flush", "client_flush"}
  BY <1>1, <1>4 DEF IterStaged
<1> QED BY <1>6, <1>7, <1>8

LEMMA RedefineStocks ==
  ASSUME TypeOK, Stock, Looping, Redefine
  PROVE  Stock'
<1>1. /\ ~Ended /\ pc' = pc + 1 /\ UNCHANGED <<suite, phase, cpool, clients, refused>>
      /\ Step.op \in {"redefine_entries", "redefine_prefixes", "set_prefix7", "set_domain"}
      /\ Step.op = "redefine_entries" =>
           entry' = [entry EXCEPT ![3] = Range4(3, 60, 70)] /\ prefix' = prefix
      /\ Step.op = "redefine_prefixes" =>
           /\ prefix' = [prefix EXCEPT ![1] = Network(1, 0), ![2] = Network(14, 0),
                                       ![3] = Network(3, 0)]
           /\ entry' = entry
  BY DEF Redefine, At, Asserted
<1>2. Places /\ prefix \in [0 .. 7 -> ipv6_prefix]
  BY PlacesFromType DEF TypeOK
<1>3. phase = "test"
  BY <1>1, <1>2, StepOfInit DEF Places
<1>4. IterStaged(pc, Step) /\ IterStock
  BY <1>1, <1>2, <1>3, StepOfIter DEF Stock, Looping
<1>5. entry \in [1 .. 7 -> Upright] /\ cpool' \in Seq(Upright)
  BY <1>1 DEF Stock
<1>6. CASE Step.op = "redefine_entries"
  <2>1. pc = 9 /\ pc' = 10
    BY <1>1, <1>4, <1>6 DEF IterStaged
  <2>2. Range4(3, 60, 70) \in Upright
    BY DataTypes DEF Upright, Range4
  <2>3. entry' \in [1 .. 7 -> Upright]
    BY <1>1, <1>5, <1>6, <2>2
  <2>4. refused'.database >= (10 - 9) \div 2 /\ Len(clients') = 7
    <3>1. (10 - 9) \div 2 = 0
      OBVIOUS
    <3> QED BY <1>1, <1>4, <2>1, <3>1, RefusedIs DEF IterStock
  <2>5. IterStock'
    BY <2>1, <2>4 DEF IterStock
  <2> QED BY <1>1, <1>3, <1>5, <2>3, <2>5 DEF Stock
<1>7. CASE Step.op = "redefine_prefixes"
  <2>1. pc = 29 /\ pc' = 30
    BY <1>1, <1>4, <1>7 DEF IterStaged
  <2>2. prefix'[2].address = Addr(14)
    BY <1>1, <1>2, <1>7 DEF Network
  <2>3. /\ Len(clients') <= (pc' - 29) \div 2
        /\ Len(clients') + refused'.database >= (pc' - 29) \div 2
    <3>1. (pc' - 29) \div 2 = (pc - 29) \div 2
      BY <2>1
    <3> QED BY <1>1, <1>4, <2>1, <3>1 DEF IterStock
  <2>4. IterStock'
    BY <2>1, <2>2, <2>3 DEF IterStock
  <2> QED BY <1>1, <1>3, <1>5, <1>7, <2>4 DEF Stock
<1>8. Step.op \in {"redefine_entries", "redefine_prefixes"}
  BY <1>1, <1>4 DEF IterStaged
<1> QED BY <1>6, <1>7, <1>8

(* The loops.                                                              *)
LEMMA MasksExist ==
  ASSUME cpool \in Seq(Upright), cpool # << >>
  PROVE  Masks4 # << >>
<1> DEFINE w == [k \in DOMAIN cpool |->
                   [i \in 1 .. cpool[k].max - cpool[k].min + 1 |->
                      T(cpool[k].addr, cpool[k].min + i - 1)]]
           S == [l3 : Nat, l4 : Int]
<1>1. /\ Len(cpool) \in Nat \ {0} /\ DOMAIN cpool = 1 .. Len(cpool)
      /\ \A k \in 1 .. Len(cpool) : cpool[k] \in Upright
  BY LenProperties, EmptySeq
<1>2. \A k \in 1 .. Len(cpool) :
        /\ cpool[k].addr \in Nat
        /\ cpool[k].min \in Nat /\ cpool[k].max \in Nat /\ cpool[k].min <= cpool[k].max
  BY <1>1, Pool4Assumption DEF Upright
<1>3. w = [k \in 1 .. Len(cpool) |-> w[k]] /\ Masks4 = FlattenSeq(w)
  BY <1>1 DEF Masks4
<1>4. ASSUME NEW k \in 1 .. Len(cpool)
      PROVE  /\ w[k] \in Seq(S)
             /\ 1 \in DOMAIN w[k]
  <2> DEFINE m == cpool[k].max - cpool[k].min + 1
  <2>1. m \in Nat \ {0}
    BY <1>2
  <2>2. w[k] = [i \in 1 .. m |-> T(cpool[k].addr, cpool[k].min + i - 1)]
    BY <1>1
  <2>3. \A i \in 1 .. m : T(cpool[k].addr, cpool[k].min + i - 1) \in S
    <3>1. cpool[k].addr \in Nat /\ cpool[k].min \in Nat
      BY <1>2
    <3> QED BY <2>1, <3>1 DEF T
  <2> HIDE DEF m, w, S
  <2>4. w[k] \in [1 .. m -> S]
    BY <2>2, <2>3
  <2> QED BY <2>1, <2>4, SeqDef
<1> HIDE DEF w, S
<1>5. Len(w) = Len(cpool)
  BY <1>1, <1>3, TableLength
<1>6. FlattenSeq(w) \in Seq(S) /\ ToSet(w[1]) \subseteq ToSet(FlattenSeq(w))
  BY <1>1, <1>4, <1>5, FlatElements
<1>7. w[1][1] \in ToSet(w[1])
  BY <1>1, <1>4 DEF ToSet
<1>8. DOMAIN FlattenSeq(w) # {}
  BY <1>6, <1>7 DEF ToSet
<1> QED BY <1>3, <1>6, <1>8, EmptySeq, LenProperties

(* The client the second copy stops at, whichever way its word is stored.  *)
LEMMA LastByteIs == LastByte(Addr(14)) = 14
<1>1. TopByte \in Nat \ {0}
  <2>1. WordBits - 8 \in 0 .. WordBits
    BY NfHookAssumption, TypesAssumption
  <2> QED BY <2>1, PowersAssumption DEF TopByte
<1>2. Addr(14)[4] = cpu_to_be32(14)
  BY DEF Addr
<1>3. CASE LittleEndian
  <2> DEFINE q == (14 * TopByte) \div TopByte
             r == (14 * TopByte) % TopByte
  <2>1. 14 * TopByte = TopByte * q + r /\ q \in Nat /\ r \in 0 .. TopByte - 1
    BY <1>1
  <2> HIDE DEF q, r
  <2>2. q = 14
    <3>1. TopByte * (14 - q) = r
      BY <1>1, <2>1
    <3>2. q <= 13 => TopByte * (14 - q) >= TopByte
      BY <1>1, <2>1
    <3>3. q >= 15 => TopByte * (14 - q) <= -TopByte
      BY <1>1, <2>1
    <3> QED BY <1>1, <2>1, <3>1, <3>2, <3>3
  <2> QED BY <1>2, <1>3, <2>2 DEF q, LastByte, cpu_to_be32
<1>4. CASE ~LittleEndian
  <2>1. 14 % 2^8 = 14
    OBVIOUS
  <2> QED BY <1>2, <1>4, <2>1 DEF LastByte, cpu_to_be32, Byte
<1> QED BY <1>3, <1>4

LEMMA FillExpMasksEnds ==
  ASSUME TypeOK, Stocked, outcome = "running", FillExpMasks
  PROVE  /\ UNCHANGED refused
         /\ \/ outcome' = "running" /\ pc' = pc + 1
            \/ outcome' = "hung" /\ refused.database >= 3
<1>1. /\ ~Ended /\ Step.op = "fill_exp_masks" /\ Places /\ refused' = refused
      /\ refused.database \in Nat
  BY PlacesFromType, RefusedIs DEF FillExpMasks, At
<1>2. phase = "test" /\ suite = 7
  BY <1>1, StepOfFill
<1>3. Stock /\ IterStaged(pc, Step)
  BY <1>1, <1>2, StepOfIter DEF Stocked, Looping
<1>4. cpool \in Seq(Upright) /\ (cpool # << >> \/ refused.database >= 3)
  <2>1. pc \in {1, 16} /\ (16 - 9) \div 2 = 3
    BY <1>1, <1>3 DEF IterStaged
  <2>2. CASE pc = 1
    BY <1>2, <1>3, <2>2 DEF Stock, IterStock
  <2>3. CASE pc = 16
    BY <1>2, <1>3, <2>1, <2>3 DEF Stock, IterStock
  <2> QED BY <2>1, <2>2, <2>3
<1> QED BY <1>1, <1>4, MasksExist DEF FillExpMasks, Asserted

(* Seven clients are copied once, and of the next four no more than three  *)
(* unless one was refused.                                                 *)
LEMMA FillExpIn6AddrEnds ==
  ASSUME TypeOK, Stocked, outcome = "running", FillExpIn6Addr
  PROVE  /\ UNCHANGED refused
         /\ \/ outcome' = "running" /\ pc' = pc + 1
            \/ outcome' = "hung" /\ refused.database >= 3
            \/ outcome' = "overrun" /\ refused.database >= 1
<1> DEFINE n == Len(clients)
           stop == {k \in DOMAIN clients : LastByte(clients[k].address) = 14}
           copied == IF stop # {} THEN First(stop) ELSE n * ((6 \div n) + 1)
<1>1. /\ ~Ended /\ Step.op = "fill_exp_in6_addr" /\ Places
      /\ clients \in Seq(ipv6_prefix) /\ refused' = refused
  BY PlacesFromType DEF FillExpIn6Addr, At, TypeOK
<1>0. refused.database \in Nat
  BY RefusedIs
<1>2. phase = "test" /\ suite = 7
  BY <1>1, StepOfFill
<1>3. IterStock /\ IterStaged(pc, Step)
  BY <1>1, <1>2, StepOfIter DEF Stocked, Looping, Stock
<1>4. pc \in {21, 38}
  BY <1>1, <1>3 DEF IterStaged
<1>5. /\ n \in Nat
      /\ pc = 21 => n = 7
      /\ pc = 38 => /\ n <= 4 /\ n + refused.database >= 4
                    /\ refused.database > 0 \/ clients[3].address = Addr(14)
  <2>1. n \in Nat
    BY <1>1, LenProperties
  <2>2. CASE pc = 21
    BY <1>3, <2>1, <2>2 DEF IterStock
  <2>3. CASE pc = 38
    <3>1. (38 - 29) \div 2 = 4
      OBVIOUS
    <3> QED BY <1>3, <2>1, <2>3, <3>1 DEF IterStock
  <2> QED BY <1>4, <2>1, <2>2, <2>3
<1>6. DOMAIN clients = 1 .. n
  BY <1>1, LenProperties
<1>7. stop # {} => First(stop) \in 1 .. n
  <2>1. stop \in SUBSET DOMAIN clients
    OBVIOUS
  <2> HIDE DEF stop
  <2> QED BY <1>1, <1>6, <2>1, FirstIsLeast
<1>8. pc = 38 /\ refused.database = 0 => stop # {}
  <2>1. pc = 38 /\ refused.database = 0 => n = 4
    <3> HIDE DEF n
    <3> QED BY <1>0, <1>5
  <2>2. pc = 38 /\ refused.database = 0 => 3 \in DOMAIN clients
    <3> HIDE DEF n
    <3>1. n = 4 => 3 \in 1 .. n
      OBVIOUS
    <3> QED BY <1>6, <2>1, <3>1
  <2> QED BY <1>5, <2>2, LastByteIs
<1> HIDE DEF stop
<1>9. n = 0 => refused.database >= 3
  BY <1>0, <1>4, <1>5
<1>10. ASSUME refused.database = 0 PROVE copied <= 7
  <2>1. CASE pc = 21
    <3>1. n = 7 /\ 7 * ((6 \div 7) + 1) = 7
      BY <1>5, <2>1
    <3> HIDE DEF n
    <3> QED BY <1>7, <3>1
  <2>2. CASE pc = 38
    <3>1. n \in Nat /\ n <= 4 /\ stop # {}
      BY <1>5, <1>8, <1>10, <2>2
    <3> HIDE DEF n
    <3> QED BY <1>7, <3>1
  <2> QED BY <1>4, <2>1, <2>2
<1>11. copied \in Int \/ n = 0
  <2>1. n # 0 => n * ((6 \div n) + 1) \in Int
    BY <1>5
  <2> QED BY <1>5, <1>7, <2>1
<1> HIDE DEF n, copied
<1>12. \/ n = 0 /\ outcome' = "hung"
       \/ n # 0 /\ copied > 7 /\ outcome' = "overrun"
       \/ pc' = pc + 1 /\ outcome' = outcome
  BY DEF FillExpIn6Addr, Asserted, n, copied, stop
<1>13. ASSUME n # 0, copied > 7 PROVE refused.database >= 1
  BY <1>0, <1>10, <1>11, <1>13
<1> QED BY <1>1, <1>9, <1>12, <1>13

LEMMA StepStocks ==
  ASSUME TypeOK, Stocked, Next, outcome' = "running", Looping'
  PROVE  Stock'
<1>1. outcome = "running"
  BY DEF Next
<1>2. CASE Query
  <2>1. /\ ~Ended /\ Step.op \in Queries /\ pc' = pc + 1
        /\ UNCHANGED <<suite, phase, entry, prefix, cpool, clients, refused>>
    BY <1>2 DEF Query, Asserted, script_vars
  <2>2. Step.op \notin {"pool4_add", "client_add", "pool4_flush", "client_flush",
                        "redefine_entries", "redefine_prefixes"}
    BY <2>1 DEF Queries
  <2>3. Stock /\ Looping
    BY <1>1, <2>1 DEF Stocked, Looping
  <2> QED BY <1>2, <2>1, <2>2, <2>3, InitQueryHolds, TurnStocks
<1>3. CASE AddToPool4
  <2>1. UNCHANGED <<suite, phase>>
    BY <1>3 DEF AddToPool4, script_vars
  <2> QED BY <1>1, <1>3, <2>1, AddToPool4Stocks DEF Stocked, Looping
<1>4. CASE AddToClients
  <2>1. UNCHANGED <<suite, phase>>
    BY <1>4 DEF AddToClients, script_vars
  <2> QED BY <1>1, <1>4, <2>1, AddToClientsStocks DEF Stocked, Looping
<1>5. CASE Edit
  <2>1. UNCHANGED <<suite, phase>>
    BY <1>5 DEF Edit, script_vars
  <2> QED BY <1>1, <1>5, <2>1, EditStocks DEF Stocked, Looping
<1>6. CASE Redefine
  <2>1. UNCHANGED <<suite, phase>>
    BY <1>6 DEF Redefine
  <2> QED BY <1>1, <1>6, <2>1, RedefineStocks DEF Stocked, Looping
<1>7. CASE FillExpMasks
  <2>1. /\ ~Ended /\ Step.op = "fill_exp_masks" /\ pc' = pc + 1
        /\ UNCHANGED <<suite, phase, entry, prefix, cpool, clients, refused>>
    BY <1>1, <1>7, FillExpMasksEnds DEF FillExpMasks, At
  <2>2. phase # "init"
    BY <2>1, PlacesFromType, StepOfInit
  <2> QED BY <1>1, <2>1, <2>2, TurnStocks DEF Stocked, Looping
<1>8. CASE FillExpIn6Addr
  <2>1. /\ ~Ended /\ Step.op = "fill_exp_in6_addr" /\ pc' = pc + 1
        /\ UNCHANGED <<suite, phase, entry, prefix, cpool, clients, refused>>
    BY <1>1, <1>8, FillExpIn6AddrEnds DEF FillExpIn6Addr, At
  <2>2. phase # "init"
    BY <2>1, PlacesFromType, StepOfInit
  <2> QED BY <1>1, <2>1, <2>2, TurnStocks DEF Stocked, Looping
<1>9. CASE ForeachTaddr4 \/ ForEachClient
  <2>1. /\ ~Ended /\ Step.op \in {"pool4_foreach_taddr4", "client_for_each"}
        /\ pc' = pc + 1
        /\ UNCHANGED <<suite, phase, entry, prefix, cpool, clients, refused>>
    BY <1>9 DEF ForeachTaddr4, ForEachClient, At, Asserted, script_vars
  <2>2. Step.op \notin {"pool4_add", "client_add", "pool4_flush", "client_flush",
                        "redefine_entries", "redefine_prefixes"}
    BY <2>1
  <2>3. phase # "init"
    BY <2>1, PlacesFromType, StepOfInit
  <2> QED BY <1>1, <2>1, <2>2, <2>3, TurnStocks DEF Stocked, Looping
<1>10. CASE GetMaskDomain \/ AllocatePacket \/ ValidMask
  <2>1. /\ ~Ended /\ UNCHANGED <<suite, phase>> /\ Places
        /\ Step.op \in {"match_domain", "client_get_mask_domain", "kmalloc_packet",
                        "valid_mask"}
    BY <1>10, PlacesFromType DEF GetMaskDomain, AllocatePacket, ValidMask, At, script_vars
  <2>2. phase = "test" /\ suite = 7
    BY <2>1, StepOfInit DEF Places, Looping
  <2>3. IterStaged(pc, Step)
    BY <2>1, <2>2, StepOfIter
  <2> QED BY <2>1, <2>3 DEF IterStaged
<1>11. CASE EndInit
  <2>1. /\ phase = "init" /\ Ended /\ success /\ phase' = "test" /\ suite' = suite
        /\ pc' = 1 /\ UNCHANGED <<cpool, clients, entry, prefix>>
    BY <1>1, <1>11 DEF EndInit
  <2>2. Stock /\ pc = 29
    BY <1>1, <2>1, InitPlace DEF Stocked, Looping
  <2>3. Len(cpool) = 7 /\ Len(clients) = 7
    <3>1. Ranges(29) = 7 /\ Hosts(29) = 7
      BY DEF Ranges, Hosts
    <3> QED BY <2>1, <2>2, <3>1 DEF Stock, InitStock, InitCounts
  <2>4. cpool # << >>
    BY <2>3
  <2>5. IterStock'
    BY <2>1, <2>3, <2>4 DEF IterStock
  <2> QED BY <2>1, <2>2, <2>5 DEF Stock
<1>12. CASE EndSuite
  <2>1. /\ phase' = "init" /\ pc' = 1 /\ entry' = Entries /\ prefix' = Prefixes6
        /\ success' = TRUE /\ cpool' = << >> /\ clients' = << >> /\ refused' = refused
    BY <1>1, <1>12 DEF EndSuite, end, pool4_flush, client_flush
  <2>2. Entries \in [1 .. 7 -> Upright]
    BY EntriesUpright
  <2>3. Ranges(1) = 0 /\ Hosts(1) = 0 /\ refused.database \in Nat
    BY RefusedIs DEF Ranges, Hosts
  <2>4. InitStock'
    BY <2>1, <2>3 DEF InitStock, InitCounts
  <2> QED BY <2>1, <2>2, <2>4 DEF Stock
<1> QED BY <1>2, <1>3, <1>4, <1>5, <1>6, <1>7, <1>8, <1>9, <1>10, <1>11, <1>12 DEF Next

LEMMA StepEnds ==
  ASSUME TypeOK, Stocked, Next
  PROVE  LoopsEnd'
<1>1. outcome = "running"
  BY DEF Next
<1>2. CASE FillExpMasks
  BY <1>1, <1>2, FillExpMasksEnds DEF LoopsEnd
<1>3. CASE FillExpIn6Addr
  BY <1>1, <1>3, FillExpIn6AddrEnds DEF LoopsEnd
<1>4. CASE Query \/ AddToPool4 \/ AddToClients \/ Edit \/ Redefine \/ ForeachTaddr4
           \/ ForEachClient \/ GetMaskDomain \/ AllocatePacket \/ ValidMask
  <2>1. outcome' = outcome
    BY <1>4 DEF Query, AddToPool4, AddToClients, Edit, Redefine, ForeachTaddr4,
                ForEachClient, GetMaskDomain, AllocatePacket, ValidMask, script_vars
  <2> QED BY <1>1, <2>1 DEF LoopsEnd
<1>5. CASE EndInit \/ EndSuite
  BY <1>1, <1>5 DEF EndInit, EndSuite, LoopsEnd
<1> QED BY <1>2, <1>3, <1>4, <1>5 DEF Next

(* The function returns after an end(), or after an init() that failed.    *)
LEMMA StepLeaves ==
  ASSUME TypeOK, Stocked, Next
  PROVE  NodesLeft'
<1>1. outcome = "running"
  BY DEF Next
<1>2. CASE EndInit
  <2>1. SUFFICES ASSUME outcome' = "returned" PROVE NodesLeft'
    BY DEF NodesLeft
  <2>2. /\ phase = "init" /\ Ended /\ ~success /\ ret' = -EINVAL
        /\ UNCHANGED <<cpool, clients, refused>>
    BY <1>1, <1>2, <2>1 DEF EndInit
  <2>3. InitStock /\ pc = 29 /\ Ranges(29) = 7 /\ Hosts(29) = 7
    BY <1>1, <2>2, InitPlace DEF Stocked, Looping, Stock, Ranges, Hosts
  <2>4. /\ Len(cpool) \in Nat /\ Len(clients) \in Nat /\ refused.database \in Nat
        /\ Len(cpool) + Len(clients) + refused.database >= 14
        /\ Len(cpool) + Len(clients) < 14
    BY <2>2, <2>3, RefusedIs, LenProperties DEF InitStock, InitCounts, TypeOK
  <2>5. Len(cpool) + Len(clients) \in 14 - refused.database .. 13
    BY <2>4
  <2> QED BY <2>2, <2>5 DEF NodesLeft
<1>3. CASE EndSuite
  <2>1. Len(cpool') = 0 /\ Len(clients') = 0
    BY <1>3 DEF EndSuite, end, pool4_flush, client_flush
  <2> QED BY <2>1 DEF NodesLeft
<1>4. CASE Query \/ AddToPool4 \/ AddToClients \/ Edit \/ Redefine \/ ForeachTaddr4
           \/ ForEachClient \/ GetMaskDomain \/ AllocatePacket \/ ValidMask
           \/ FillExpMasks \/ FillExpIn6Addr
  <2>1. outcome' \in {outcome, "hung", "overrun"}
    BY <1>4 DEF Query, AddToPool4, AddToClients, Edit, Redefine, ForeachTaddr4,
                ForEachClient, GetMaskDomain, AllocatePacket, ValidMask, script_vars,
                FillExpMasks, FillExpIn6Addr
  <2> QED BY <1>1, <2>1 DEF NodesLeft
<1> QED BY <1>2, <1>3, <1>4 DEF Next

LEMMA LoopInit == Init => LInv
<1> SUFFICES ASSUME Init PROVE LInv
  OBVIOUS
<1>1. /\ phase = "init" /\ pc = 1 /\ entry = Entries /\ cpool = << >> /\ clients = << >>
      /\ prefix = Prefixes6 /\ success = TRUE /\ refused.database = 0
      /\ outcome = "running"
  BY DEF Init
<1>2. Ranges(1) = 0 /\ Hosts(1) = 0
  BY DEF Ranges, Hosts
<1>3. InitStock
  BY <1>1, <1>2 DEF InitStock, InitCounts
<1>4. Stock
  BY <1>1, <1>3, EntriesUpright DEF Stock
<1> QED BY <1>1, <1>4, TypeInit DEF LInv, Stocked, LoopsEnd, NodesLeft

LEMMA LoopStep == LInv /\ [Next \/ Stopped]_vars => LInv'
<1> SUFFICES ASSUME LInv, [Next \/ Stopped]_vars PROVE LInv'
  OBVIOUS
<1>1. TypeInv' /\ TypeOK /\ Stocked /\ LoopsEnd /\ NodesLeft
  BY TypeStep DEF LInv, TypeInv
<1>2. CASE Next
  <2>1. Stocked'
    BY <1>1, <1>2, StepStocks DEF Stocked
  <2> QED BY <1>1, <1>2, <2>1, StepEnds, StepLeaves DEF LInv
<1>3. CASE UNCHANGED vars
  <2>1. UNCHANGED <<cpool, clients, entry, prefix, suite, phase, outcome, pc, refused,
                    success, ret>>
    BY <1>3 DEF vars, script_vars
  <2>2. Stocked'
    BY <1>1, <2>1 DEF Stocked, Stock, InitStock, InitCounts, IterStock, Looping
  <2>3. LoopsEnd' /\ NodesLeft'
    BY <1>1, <2>1 DEF LoopsEnd, NodesLeft
  <2> QED BY <1>1, <2>2, <2>3 DEF LInv
<1> QED BY <1>2, <1>3 DEF Stopped

(* Whatever the width of a word and the order of its bytes, a fill_exp     *)
(* function writes behind its array only if memory was refused, and waits  *)
(* for a list that is empty only if it was refused three times: the suite  *)
(* is not entered before init() has filled both lists.                     *)
THEOREM LoopsStayInArrays == Spec => []LoopsEnd
<1>1. LInv => LoopsEnd
  BY DEF LInv
<1> QED BY <1>1, LoopInit, LoopStep, PTL DEF Spec

(* However many allocations fail, nat64_init() leaves nodes behind only    *)
(* after an init() that failed, and no more than that init() has added.    *)
THEOREM OnlyInitLeavesNodes == Spec => []NodesLeft
<1>1. LInv => NodesLeft
  BY DEF LInv
<1> QED BY <1>1, LoopInit, LoopStep, PTL DEF Spec

=============================================================================
