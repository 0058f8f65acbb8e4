-------------------------- MODULE MaskDomainProofs --------------------------
(***************************************************************************)
(* Proofs about MaskDomain: what a struct client_mask_domain that a caller *)
(* keeps is good for while the lists are edited, for every pool, client    *)
(* list, width of a window and bound.                                      *)
(***************************************************************************)
EXTENDS MaskDomain, DatabaseLemmas

-----------------------------------------------------------------------------
(* Type correctness.                                                       *)

(* The place of a client that was found.                                   *)
LEMMA PlaceFound ==
  ASSUME NEW list \in Seq(Client), NEW addr, Holding(list, addr) # {}
  PROVE  ClientPlace(list, addr) \in Nat \ {0}
<1>1. Holding(list, addr) \in SUBSET DOMAIN list
  BY DEF Holding
<1>2. ClientPlace(list, addr) \in DOMAIN list
  BY <1>1, FirstIsLeast DEF ClientPlace
<1> QED BY <1>2, LenProperties

(* What client_get_mask_domain() does to the caller's struct: nothing, or  *)
(* it names the first mask of the window with the client's number.         *)
LEMMA DomainWritten ==
  ASSUME TypeOK, NEW addr \in Source, NEW mpc \in PerClient,
         GetMaskDomain(addr, mpc)
  PROVE  \/ window' = NoWindow /\ domain' = domain
         \/ /\ mpc \in Nat \ {0}
            /\ window' \in [place : Nat \ {0}, count : {mpc}]
            /\ \E s \in DomainStart(cpool, window'.place - 1, mpc) :
                 domain' = Written(s, mpc)
<1> DEFINE err == mask_domain_error(cpool, clients, addr, mpc)
           k == ClientPlace(clients, addr)
           start == IF err = 0 THEN DomainStart(cpool, k - 1, mpc) ELSE {}
<1>1. CASE start = {}
  BY <1>1 DEF GetMaskDomain
<1>2. CASE start # {}
  <2>1. err = 0
    BY <1>2
  <2>2. mpc # 0 /\ Holding(clients, addr) # {}
    BY <2>1 DEF mask_domain_error, ESRCH
  <2>3. k \in Nat \ {0}
    BY <2>2, PlaceFound DEF TypeOK
  <2>4. /\ window' = [place |-> k, count |-> mpc]
        /\ \E s \in start : domain' = Written(s, mpc)
    BY <1>2 DEF GetMaskDomain
  <2> QED BY <2>1, <2>2, <2>3, <2>4, MaskDomainAssumption
<1> QED BY <1>1, <1>2

LEMMA MasksType ==
  ASSUME TypeOK, NEW dom, NEW n, NEW m \in get_nth_taddr(cpool, dom, n)
  PROVE  m \in Taddr /\ m \in Taddrs(cpool)
<1>1. \E s \in Slots(cpool) : m = TaddrOf(cpool, s)
  BY DEF get_nth_taddr, NthVisited, Visited
<1> QED BY <1>1, TaddrType DEF TypeOK, Taddrs

LEMMA TypeInit == Init => TypeOK
BY DEF Init, TypeOK, MaskDomains, NoWindow

LEMMA TypeStep == TypeOK /\ [Next]_vars => TypeOK'
<1> SUFFICES ASSUME TypeOK, [Next]_vars PROVE TypeOK'
  OBVIOUS
<1> USE DEF TypeOK
<1>z. Unwritten.first \in Taddr
  BY Pool4Assumption DEF Unwritten, Taddr
<1>1. ASSUME NEW addr \in Source, NEW mpc \in PerClient, GetMaskDomain(addr, mpc)
      PROVE  TypeOK'
  <2>1. domain' \in MaskDomains /\ window' \in [place : Nat, count : Nat]
    <3>1. CASE window' = NoWindow /\ domain' = domain
      BY <3>1 DEF NoWindow
    <3>2. CASE /\ mpc \in Nat \ {0}
               /\ window' \in [place : Nat \ {0}, count : {mpc}]
               /\ \E s \in DomainStart(cpool, window'.place - 1, mpc) :
                    domain' = Written(s, mpc)
      <4>1. PICK s \in Slots(cpool) : domain' = Written(s, mpc)
        BY <3>2 DEF DomainStart
      <4>2. TaddrOf(cpool, s) \in Taddr
        BY TaddrType
      <4> QED BY <3>2, <4>1, <4>2 DEF Written, MaskDomains
    <3> QED BY <1>1, <3>1, <3>2, DomainWritten
  <2>2. error' \in {0, 1, -ESRCH}
    BY <1>1 DEF GetMaskDomain, mask_domain_error
  <2>3. holder' \in {{}} \cup {{a} : a \in Source}
    BY <1>1 DEF GetMaskDomain
  <2> QED BY <1>1, <2>1, <2>2, <2>3 DEF GetMaskDomain
<1>2. ASSUME NEW n \in Index, GetNthTaddr(n) PROVE TypeOK'
  <2> DEFINE index == n % domain.count
             masks == get_nth_taddr(cpool, domain, n)
  <2>1. index \in Nat
    <3>1. domain.count \in Nat \ {0} /\ n \in Nat
      BY <1>2, MaskDomainAssumption DEF GetNthTaddr, MaskDomains
    <3> QED BY <3>1
  <2>2. \A mask \in masks : mask \in Taddr
    BY MasksType
  <2>3. CASE masks = {}
    BY <1>2, <1>z, <2>1, <2>3 DEF GetNthTaddr, Took
  <2>4. ASSUME NEW mask \in masks, taken' = Took(index, 0, mask),
               given' = given \cup
                 {[src |-> a, place |-> window.place, count |-> window.count,
                   index |-> index, mask |-> mask] : a \in holder}
        PROVE  TypeOK'
    <3>1. \A a \in holder : a \in Source
      OBVIOUS
    <3>2. taken' \in [call : {"get_nth_taddr"}, index : Nat,
                      ret : {0, -ESRCH, Trap}, mask : Taddr]
      BY <2>1, <2>2, <2>4 DEF Took
    <3>3. given' \subseteq
            [src : Source, place : Nat, count : Nat, index : Nat, mask : Taddr]
      <4> HIDE DEF index, masks
      <4> QED BY <2>1, <2>2, <2>4, <3>1
    <3> QED BY <1>2, <3>2, <3>3 DEF GetNthTaddr
  <2> QED BY <1>2, <2>3, <2>4 DEF GetNthTaddr
<1>3. CASE GetNthUnwritten
  <2>1. \A mask \in Taddrs(cpool) : mask \in Taddr
    BY TaddrType DEF Taddrs
  <2> QED BY <1>3, <1>z, <2>1 DEF GetNthUnwritten, Took
<1>4. CASE Extend
  <2>1. ASSUME NEW e \in Entry, Pool4Add(e)
        PROVE  cpool' \in Seq(Entry) /\ clients' = clients
    BY <2>1 DEF Pool4Add, pool4_add
  <2>2. ASSUME NEW p \in Prefix, ClientAdd(p)
        PROVE  cpool' = cpool /\ clients' \in Seq(Client)
    BY <2>2 DEF ClientAdd, client_add, Client
  <2> QED BY <1>4, <2>1, <2>2 DEF Extend
<1>5. CASE Remove
  <2>1. cpool' \in Seq(Entry) /\ clients' = clients
    <3>1. ASSUME NEW e \in Entry, Pool4Rm(e)
          PROVE  cpool' \in Seq(Entry) /\ clients' = clients
      BY <3>1, RmType DEF Pool4Rm
    <3>2. ASSUME Pool4Flush PROVE cpool' \in Seq(Entry) /\ clients' = clients
      BY <3>2 DEF Pool4Flush, pool4_flush
    <3> QED BY <1>5, <3>1, <3>2 DEF Remove
  <2>2. window' \in [place : Nat, count : Nat]
    BY <1>5 DEF Remove, NoWindow
  <2>3. /\ given' \subseteq given
        /\ holder' \in {{}} \cup {{a} : a \in Source}
    BY <1>5 DEF Remove
  <2>4. taken' = NotTaken /\ domain' = domain /\ error' = error
    BY <1>5 DEF Remove
  <2> QED BY <2>1, <2>2, <2>3, <2>4
<1>6. ASSUME NEW p \in Prefix, DeleteClient(p) PROVE TypeOK'
  <2>1. cpool' = cpool /\ clients' \in Seq(Client)
    BY <1>6, DeleteType DEF DeleteClient, ClientDelete
  <2>2. given' \subseteq given /\ holder' \in {{}} \cup {{a} : a \in Source}
    BY <1>6 DEF DeleteClient
  <2> QED BY <1>6, <2>1, <2>2 DEF DeleteClient
<1>7. CASE FlushClients
  <2>1. cpool' = cpool /\ clients' \in Seq(Client)
    BY <1>7 DEF FlushClients, ClientFlush, client_flush
  <2> QED BY <1>7, <2>1 DEF FlushClients
<1>8. CASE UNCHANGED vars
  BY <1>8 DEF vars
<1> QED BY <1>1, <1>2, <1>3, <1>4, <1>5, <1>6, <1>7, <1>8 DEF Next

(* The caller's struct and what was taken out of it keep their types.      *)
THEOREM TypeCorrect == Spec => []TypeOK
BY TypeInit, TypeStep, PTL DEF Spec

-----------------------------------------------------------------------------
(* The walk of pool4_get_nth_taddr().                                      *)

(* Its loops start at the window's first slot when no other slot has the   *)
(* same mask, and from there on they leave none out.                       *)
LEMMA WalkFromWindow ==
  ASSUME NEW pool \in Seq(Entry), NoOverlap(pool), NEW w \in Slots(pool),
         NEW dom, dom.first = TaddrOf(pool, w), dom.step = 1,
         HoldingFirst(pool, dom) # {}
  PROVE  Visited(pool, dom) = {s \in Slots(pool) : ~Precedes(s, w)}
<1> DEFINE k == First(HoldingFirst(pool, dom))
           start(j) == IF j = k THEN dom.first.l4 ELSE pool[j].min
<1>1. /\ w[1] \in DOMAIN pool /\ w[1] \in Nat
      /\ w[2] \in 0 .. MaxPort /\ w[2] \in Nat /\ w = <<w[1], w[2]>>
  BY SlotType
<1>2. dom.first.l4 = w[2] /\ dom.first.l3 = pool[w[1]].addr
  BY DEF TaddrOf
<1>3. \A j \in DOMAIN pool : pool[j].min \in Nat /\ pool[j].max \in Nat
  BY PortsType
<1>4. ASSUME NEW j \in HoldingFirst(pool, dom) PROVE j = w[1]
  <2>1. j \in DOMAIN pool /\ pool[j].addr = dom.first.l3
        /\ pool[j].min <= w[2] /\ pool[j].max > w[2]
    BY <1>2 DEF HoldingFirst
  <2>2. <<j, w[2]>> \in Slots(pool)
    BY <1>1, <1>3, <2>1 DEF Slots
  <2>3. TaddrOf(pool, <<j, w[2]>>) = TaddrOf(pool, w)
    BY <1>2, <2>1 DEF TaddrOf
  <2>4. <<j, w[2]>> = w
    BY <2>2, <2>3 DEF NoOverlap
  <2> QED BY <2>4
<1>5. k = w[1]
  BY <1>4 DEF First
<1>6. ASSUME NEW s \in Slots(pool)
      PROVE  /\ s[1] >= k /\ s[2] >= start(s[1])
                 /\ (s[2] - start(s[1])) % dom.step = 0
             <=> ~Precedes(s, w)
  <2>1. /\ s[1] \in DOMAIN pool /\ s[1] \in Int /\ s[2] \in Int
        /\ pool[s[1]].min <= s[2]
    BY SlotType DEF Slots
  <2>2. start(s[1]) \in Int
    BY <1>1, <1>2, <1>3, <2>1
  <2>3. (s[2] - start(s[1])) % dom.step = 0
    BY <2>1, <2>2
  <2>4. start(s[1]) = IF s[1] = w[1] THEN w[2] ELSE pool[s[1]].min
    BY <1>2, <1>5
  <2> HIDE DEF start, k
  <2> QED BY <1>1, <1>5, <2>1, <2>3, <2>4 DEF Precedes
<1> QED BY <1>6 DEF Visited

(* So the slot at which its countdown ends is the n-th from there.         *)
LEMMA NthOfWindow ==
  ASSUME NEW pool \in Seq(Entry), NoOverlap(pool), NEW w \in Slots(pool),
         NEW dom, dom.first = TaddrOf(pool, w), dom.step = 1,
         HoldingFirst(pool, dom) # {}, NEW n \in Nat
  PROVE  NthVisited(pool, dom, n)
           = {s \in Slots(pool) : Rank(pool, s) = Rank(pool, w) + n}
<1> DEFINE turns == {s \in Slots(pool) : ~Precedes(s, w)}
<1>1. Visited(pool, dom) = turns
  BY WalkFromWindow
<1>2. ASSUME NEW s \in turns
      PROVE  Cardinality({t \in turns : Precedes(t, s)})
               = Rank(pool, s) - Rank(pool, w)
  <2>1. {t \in turns : Precedes(t, s)}
          = {t \in Slots(pool) : ~Precedes(t, w) /\ Precedes(t, s)}
    OBVIOUS
  <2> QED BY <2>1, SlotsBetween
<1>3. \A s : Rank(pool, s) \in Nat
  BY RankType
<1>4. ASSUME NEW s \in Slots(pool), Rank(pool, s) = Rank(pool, w) + n
      PROVE  s \in turns
  BY <1>3, <1>4, RankGrows
<1>5. ASSUME NEW s \in turns
      PROVE  Cardinality({t \in turns : Precedes(t, s)}) = n
             <=> Rank(pool, s) = Rank(pool, w) + n
  BY <1>2, <1>3, <1>5
<1> HIDE DEF turns
<1>6. NthVisited(pool, dom, n)
        = {s \in turns : Cardinality({t \in turns : Precedes(t, s)}) = n}
  BY <1>1 DEF NthVisited
<1> QED BY <1>4, <1>5, <1>6 DEF turns

-----------------------------------------------------------------------------
(* The struct of a window.                                                 *)

(* All masks given out are numbered within windows of one width, the one   *)
(* of the struct if it still holds a window of the pool.                   *)
OneWidth ==
  /\ \A g \in given : g.index < g.count
  /\ \A g, h \in given : g.count = h.count
  /\ window # NoWindow =>
       /\ domain # Unwritten
       /\ window.place # 0 /\ window.count # 0
       /\ \A g \in given : g.count = window.count

(* The client at a place is the first of a list to hold an address.        *)
IsPlace(list, addr, place) ==
  place \in Holding(list, addr) /\ \A j \in Holding(list, addr) : place <= j

(* The recorded places are those of the clients of the list as it is.      *)
Held ==
  /\ holder # {} => window # NoWindow
  /\ \A addr \in holder : IsPlace(clients, addr, window.place)
  /\ \A g \in given : IsPlace(clients, g.src, g.place)

IInv == TypeOK /\ OneWidth /\ Held /\ WindowCurrent /\ GivenIsNth

(* What is recorded of a mask that is taken for an address.                *)
Record(addr, index, mask) ==
  [src |-> addr, place |-> window.place, count |-> window.count,
   index |-> index, mask |-> mask]

(* One more mask is given out: what it is and what it is recorded as.      *)
LEMMA MaskTaken ==
  ASSUME IInv, NEW n \in Index, GetNthTaddr(n), NEW g \in given'
  PROVE  \/ g \in given
         \/ /\ window # NoWindow
            /\ \E mask \in get_nth_taddr(cpool, domain, n), addr \in holder :
                 g = Record(addr, n % domain.count, mask)
BY DEF GetNthTaddr, Record, IInv, Held

LEMMA IndexReduced ==
  ASSUME IInv, NEW n \in Index, domain # Unwritten
  PROVE  /\ n % domain.count \in 0 .. domain.count - 1
         /\ domain.count \in Nat \ {0} /\ domain.step = 1
<1>1. domain.count \in Nat \ {0} /\ domain.step = 1 /\ n \in Nat
  BY MaskDomainAssumption DEF IInv, TypeOK, MaskDomains
<1> QED BY <1>1

LEMMA OneWidthStep == IInv /\ [Next]_vars => OneWidth'
<1> SUFFICES ASSUME IInv, [Next]_vars PROVE OneWidth'
  OBVIOUS
<1> USE DEF OneWidth
<1>1. ASSUME NEW addr \in Source, NEW mpc \in PerClient, GetMaskDomain(addr, mpc)
      PROVE  OneWidth'
  <2>1. given' = {g \in given : g.count = mpc}
    BY <1>1 DEF GetMaskDomain
  <2>2. CASE window' = NoWindow
    BY <2>1, <2>2 DEF IInv
  <2>3. CASE /\ mpc \in Nat \ {0}
             /\ window' \in [place : Nat \ {0}, count : {mpc}]
             /\ \E s \in DomainStart(cpool, window'.place - 1, mpc) :
                  domain' = Written(s, mpc)
    <3>1. domain' # Unwritten
      BY <2>3 DEF Written, Unwritten
    <3> QED BY <2>1, <2>3, <3>1 DEF IInv
  <2> QED BY <1>1, <2>2, <2>3, DomainWritten DEF IInv
<1>2. ASSUME NEW n \in Index, GetNthTaddr(n) PROVE OneWidth'
  <2>1. UNCHANGED <<domain, window>> /\ domain # Unwritten
    BY <1>2 DEF GetNthTaddr
  <2>2. ASSUME NEW g \in given'
        PROVE  g \in given \/ (/\ window # NoWindow /\ g.count = window.count
                              /\ g.index < g.count)
    <3>1. CASE g \in given
      BY <3>1
    <3>2. ASSUME NEW mask, NEW a, window # NoWindow,
                 g = Record(a, n % domain.count, mask)
          PROVE  g.count = window.count /\ g.index < g.count
      <4>1. n % domain.count < window.count
        BY <2>1, <3>2, IndexReduced DEF IInv, WindowCurrent
      <4> QED BY <3>2, <4>1 DEF Record
    <3> QED BY <1>2, <3>1, <3>2, MaskTaken
  <2> QED BY <2>1, <2>2 DEF IInv
<1>3. CASE GetNthUnwritten
  BY <1>3 DEF GetNthUnwritten, IInv
<1>4. CASE Extend
  BY <1>4 DEF Extend, IInv
<1>5. CASE Remove
  BY <1>5 DEF Remove, IInv
<1>6. CASE UNCHANGED vars
  BY <1>6 DEF vars, IInv
<1>7. ASSUME NEW p \in Prefix, DeleteClient(p) PROVE OneWidth'
  BY <1>7 DEF DeleteClient, IInv
<1>8. CASE FlushClients
  BY <1>8 DEF FlushClients, IInv
<1> QED BY <1>1, <1>2, <1>3, <1>4, <1>5, <1>6, <1>7, <1>8 DEF Next

(* An addition leaves the pool as it is or appends an entry to it.         *)
LEMMA PoolExtended ==
  ASSUME Extend
  PROVE  cpool' = cpool \/ \E e \in Entry : cpool' = Append(cpool, e)
BY DEF Extend, Pool4Add, pool4_add, ClientAdd

LEMMA WindowStep == IInv /\ [Next]_vars => WindowCurrent'
<1> SUFFICES ASSUME IInv, [Next]_vars, window' # NoWindow
             PROVE  /\ domain'.count = window'.count
                    /\ \E s \in DomainStart(cpool', window'.place - 1, window'.count) :
                         domain'.first = TaddrOf(cpool', s)
  BY DEF WindowCurrent
<1> DEFINE Goal ==
      /\ domain'.count = window'.count
      /\ \E s \in DomainStart(cpool', window'.place - 1, window'.count) :
           domain'.first = TaddrOf(cpool', s)
<1>u. ASSUME UNCHANGED <<cpool, domain, window>> PROVE Goal
  BY <1>u DEF IInv, WindowCurrent
<1>1. ASSUME NEW addr \in Source, NEW mpc \in PerClient, GetMaskDomain(addr, mpc)
      PROVE  Goal
  <2>1. /\ window' \in [place : Nat \ {0}, count : {mpc}]
        /\ \E s \in DomainStart(cpool, window'.place - 1, mpc) :
             domain' = Written(s, mpc)
    BY <1>1, DomainWritten DEF IInv
  <2>2. cpool' = cpool /\ window'.count = mpc
    BY <1>1, <2>1 DEF GetMaskDomain
  <2> QED BY <2>1, <2>2 DEF Written
<1>2. ASSUME NEW n \in Index, GetNthTaddr(n) PROVE Goal
  BY <1>2, <1>u DEF GetNthTaddr
<1>3. CASE GetNthUnwritten
  BY <1>3, <1>u DEF GetNthUnwritten
<1>4. CASE Extend
  <2>1. domain' = domain /\ window' = window
    BY <1>4 DEF Extend
  <2>2. CASE cpool' = cpool
    BY <2>1, <2>2, <1>u
  <2>3. ASSUME NEW e \in Entry, cpool' = Append(cpool, e) PROVE Goal
    <3>1. PICK s \in DomainStart(cpool, window.place - 1, window.count) :
            domain.first = TaddrOf(cpool, s)
      BY <2>1 DEF IInv, WindowCurrent
    <3>2. /\ s \in DomainStart(cpool', window.place - 1, window.count)
          /\ TaddrOf(cpool', s) = TaddrOf(cpool, s)
      BY <2>3, AppendKeepsDomains DEF IInv, TypeOK
    <3>3. domain.count = window.count
      BY <2>1 DEF IInv, WindowCurrent
    <3> QED BY <2>1, <3>1, <3>2, <3>3
  <2> QED BY <1>4, <2>2, <2>3, PoolExtended
<1>5. CASE Remove
  BY <1>5, <1>u DEF Remove
<1>6. CASE UNCHANGED vars
  BY <1>6, <1>u DEF vars
<1>7. ASSUME NEW p \in Prefix, DeleteClient(p) PROVE Goal
  BY <1>7, <1>u DEF DeleteClient, ClientDelete
<1>8. CASE FlushClients
  BY <1>8, <1>u DEF FlushClients, ClientFlush
<1> QED BY <1>1, <1>2, <1>3, <1>4, <1>5, <1>6, <1>7, <1>8 DEF Next

-----------------------------------------------------------------------------
(* The masks given out.                                                    *)

(* A mask is the one that has the recorded number in a pool.               *)
Numbered(pool, g) ==
  \E s \in Slots(pool) :
    /\ g.mask = TaddrOf(pool, s)
    /\ Rank(pool, s) = (g.place - 1) * g.count + g.index

(* What is taken out of the struct of a window has the number asked for.   *)
LEMMA TakenIsNth ==
  ASSUME IInv, window # NoWindow, NoOverlap(cpool), NEW n \in Index,
         NEW mask \in get_nth_taddr(cpool, domain, n), NEW addr
  PROVE  Numbered(cpool, Record(addr, n % domain.count, mask))
<1>1. PICK w \in DomainStart(cpool, window.place - 1, window.count) :
        domain.first = TaddrOf(cpool, w)
  BY DEF IInv, WindowCurrent
<1>2. w \in Slots(cpool) /\ Rank(cpool, w) = (window.place - 1) * window.count
  BY <1>1 DEF DomainStart
<1> DEFINE m == n % domain.count
<1>3. m \in Nat /\ domain.step = 1
  BY IndexReduced DEF IInv, OneWidth
<1>4. HoldingFirst(cpool, domain) # {}
  BY DEF get_nth_taddr
<1>5. PICK s \in NthVisited(cpool, domain, m) : mask = TaddrOf(cpool, s)
  BY DEF get_nth_taddr
<1>6. cpool \in Seq(Entry)
  BY DEF IInv, TypeOK
<1> HIDE DEF m
<1>7. s \in Slots(cpool) /\ Rank(cpool, s) = Rank(cpool, w) + m
  BY <1>1, <1>2, <1>3, <1>4, <1>5, <1>6, NthOfWindow
<1>8. Numbered(cpool, Record(addr, m, mask))
  BY <1>2, <1>5, <1>7 DEF Numbered, Record
<1> QED BY <1>8 DEF m

LEMMA GivenStep == IInv /\ [Next]_vars => GivenIsNth'
<1> SUFFICES ASSUME IInv, [Next]_vars, NoOverlap(cpool'), NEW g \in given'
             PROVE  Numbered(cpool', g)
  BY DEF GivenIsNth, Numbered
<1>u. ASSUME cpool' = cpool, g \in given PROVE Numbered(cpool', g)
  BY <1>u DEF IInv, GivenIsNth, Numbered
<1>1. ASSUME NEW addr \in Source, NEW mpc \in PerClient, GetMaskDomain(addr, mpc)
      PROVE  Numbered(cpool', g)
  BY <1>1, <1>u DEF GetMaskDomain
<1>2. ASSUME NEW n \in Index, GetNthTaddr(n) PROVE Numbered(cpool', g)
  <2>1. cpool' = cpool
    BY <1>2 DEF GetNthTaddr
  <2>2. CASE g \in given
    BY <2>1, <2>2, <1>u
  <2>3. ASSUME NEW mask \in get_nth_taddr(cpool, domain, n), NEW addr,
               window # NoWindow, g = Record(addr, n % domain.count, mask)
        PROVE  Numbered(cpool', g)
    BY <2>1, <2>3, TakenIsNth
  <2> QED BY <1>2, <2>2, <2>3, MaskTaken
<1>3. CASE GetNthUnwritten
  BY <1>3, <1>u DEF GetNthUnwritten
<1>4. CASE Extend
  <2>1. g \in given
    BY <1>4 DEF Extend
  <2>2. CASE cpool' = cpool
    BY <2>1, <2>2, <1>u
  <2>3. ASSUME NEW e \in Entry, cpool' = Append(cpool, e)
        PROVE  Numbered(cpool', g)
    <3>1. cpool \in Seq(Entry) /\ NoOverlap(cpool)
      BY <2>3, NoOverlapBefore DEF IInv, TypeOK
    <3>2. PICK s \in Slots(cpool) :
            /\ g.mask = TaddrOf(cpool, s)
            /\ Rank(cpool, s) = (g.place - 1) * g.count + g.index
      BY <2>1, <3>1 DEF IInv, GivenIsNth
    <3>3. /\ s \in Slots(cpool') /\ Rank(cpool', s) = Rank(cpool, s)
          /\ TaddrOf(cpool', s) = TaddrOf(cpool, s)
      BY <2>3, <3>1, AppendKeepsSlots
    <3> QED BY <3>2, <3>3 DEF Numbered
  <2> QED BY <1>4, <2>2, <2>3, PoolExtended
<1>5. CASE Remove
  BY <1>5, <1>u DEF Remove
<1>6. CASE UNCHANGED vars
  BY <1>6, <1>u DEF vars
<1>7. ASSUME NEW p \in Prefix, DeleteClient(p) PROVE Numbered(cpool', g)
  BY <1>7, <1>u DEF DeleteClient, ClientDelete
<1>8. CASE FlushClients
  BY <1>8 DEF FlushClients
<1> QED BY <1>1, <1>2, <1>3, <1>4, <1>5, <1>6, <1>7, <1>8 DEF Next

-----------------------------------------------------------------------------
(* The clients the masks were taken for.                                   *)

LEMMA PlaceIs ==
  ASSUME NEW list \in Seq(Client), NEW addr, NEW place, IsPlace(list, addr, place)
  PROVE  ClientPlace(list, addr) = place
<1>1. Holding(list, addr) \in SUBSET DOMAIN list /\ DOMAIN list \subseteq Int
  BY LenProperties DEF Holding
<1>2. /\ ClientPlace(list, addr) \in Holding(list, addr)
      /\ \A j \in Holding(list, addr) : ClientPlace(list, addr) <= j
  BY <1>1, FirstIsLeast DEF ClientPlace, IsPlace
<1> QED BY <1>1, <1>2 DEF IsPlace

(* The struct is filled for the first client that holds the address.       *)
LEMMA FilledForPlace ==
  ASSUME TypeOK, NEW addr \in Source, NEW mpc \in PerClient,
         GetMaskDomain(addr, mpc), NEW a \in holder'
  PROVE  window' # NoWindow /\ IsPlace(clients, a, window'.place)
<1> DEFINE err == mask_domain_error(cpool, clients, addr, mpc)
           k == ClientPlace(clients, addr)
           start == IF err = 0 THEN DomainStart(cpool, k - 1, mpc) ELSE {}
<1>1. start # {} /\ a = addr /\ window' = [place |-> k, count |-> mpc]
  BY DEF GetMaskDomain
<1>2. err = 0
  BY <1>1
<1>3. mpc # 0 /\ Holding(clients, addr) # {}
  BY <1>2 DEF mask_domain_error, ESRCH
<1>4. Holding(clients, addr) \in SUBSET DOMAIN clients
  BY DEF Holding
<1>5. IsPlace(clients, addr, k)
  BY <1>3, <1>4, FirstIsLeast DEF TypeOK, ClientPlace, IsPlace
<1> QED BY <1>1, <1>3, <1>5 DEF NoWindow

LEMMA HeldStep == IInv /\ [Next]_vars => Held'
<1> SUFFICES ASSUME IInv, [Next]_vars PROVE Held'
  OBVIOUS
<1>u. ASSUME UNCHANGED <<clients, window, holder, given>> PROVE Held'
  BY <1>u DEF IInv, Held
<1>1. ASSUME NEW addr \in Source, NEW mpc \in PerClient, GetMaskDomain(addr, mpc)
      PROVE  Held'
  <2>1. clients' = clients /\ given' \subseteq given
    BY <1>1 DEF GetMaskDomain
  <2>2. \A a \in holder' : window' # NoWindow /\ IsPlace(clients, a, window'.place)
    BY <1>1, FilledForPlace DEF IInv
  <2> QED BY <2>1, <2>2 DEF IInv, Held
<1>2. ASSUME NEW n \in Index, GetNthTaddr(n) PROVE Held'
  <2>1. UNCHANGED <<clients, window, holder>>
    BY <1>2 DEF GetNthTaddr
  <2>2. ASSUME NEW g \in given' PROVE IsPlace(clients, g.src, g.place)
    <3>1. CASE g \in given
      BY <3>1 DEF IInv, Held
    <3>2. ASSUME NEW addr \in holder, NEW mask,
                 g = Record(addr, n % domain.count, mask)
          PROVE  IsPlace(clients, g.src, g.place)
      <4>1. g.src = addr /\ g.place = window.place
        BY <3>2 DEF Record
      <4> QED BY <4>1 DEF IInv, Held
    <3> QED BY <1>2, <3>1, <3>2, MaskTaken
  <2> QED BY <2>1, <2>2 DEF IInv, Held
<1>3. CASE GetNthUnwritten
  BY <1>3, <1>u DEF GetNthUnwritten
<1>4. CASE Extend
  <2>1. UNCHANGED <<window, holder, given>>
    BY <1>4 DEF Extend
  <2>2. clients' = clients \/ \E p \in Client : clients' = Append(clients, p)
    BY <1>4 DEF Extend, Pool4Add, ClientAdd, client_add, Client
  <2>3. ASSUME NEW addr, NEW place, IsPlace(clients, addr, place)
        PROVE  IsPlace(clients', addr, place)
    BY <2>2, <2>3, AppendKeepsHolding DEF IsPlace, IInv, TypeOK
  <2> QED BY <2>1, <2>3 DEF IInv, Held
<1>5. CASE Remove
  <2>1. clients' = clients
    BY <1>5 DEF Remove, Pool4Rm, Pool4Flush
  <2> QED BY <1>5, <1>u, <2>1 DEF Remove, Held
<1>6. CASE UNCHANGED vars
  BY <1>6, <1>u DEF vars
<1>7. ASSUME NEW p \in Prefix, DeleteClient(p) PROVE Held'
  <2>1. clients' = client_delete(clients, p) /\ window' = window
    BY <1>7 DEF DeleteClient, ClientDelete
  <2>2. ASSUME NEW addr, NEW place, IsPlace(clients, addr, place),
               BeforeDeleted(place, p)
        PROVE  IsPlace(clients', addr, place)
    BY <2>1, <2>2, PlaceBeforeDeleted DEF IsPlace, BeforeDeleted, IInv, TypeOK
  <2>3. ASSUME NEW g \in given' PROVE IsPlace(clients', g.src, g.place)
    <3>1. g \in given /\ BeforeDeleted(g.place, p)
      BY <1>7 DEF DeleteClient
    <3> QED BY <2>2, <3>1 DEF IInv, Held
  <2>4. ASSUME NEW addr \in holder'
        PROVE  window' # NoWindow /\ IsPlace(clients', addr, window'.place)
    <3>1. addr \in holder /\ BeforeDeleted(window.place, p)
      BY <1>7 DEF DeleteClient
    <3> QED BY <2>1, <2>2, <3>1 DEF IInv, Held
  <2> QED BY <2>3, <2>4 DEF Held
<1>8. CASE FlushClients
  BY <1>8 DEF FlushClients, Held
<1> QED BY <1>1, <1>2, <1>3, <1>4, <1>5, <1>6, <1>7, <1>8 DEF Next

LEMMA InvInit == Init => IInv
<1>1. Init => OneWidth /\ Held /\ WindowCurrent /\ GivenIsNth
  BY DEF Init, OneWidth, Held, WindowCurrent, GivenIsNth
<1> QED BY <1>1, TypeInit DEF IInv

LEMMA InvStep == IInv /\ [Next]_vars => IInv'
BY TypeStep, OneWidthStep, HeldStep, WindowStep, GivenStep DEF IInv

(* A struct that was filled for a window goes on naming its first mask.    *)
THEOREM StructStaysCurrent == Spec => []WindowCurrent
<1>1. IInv => WindowCurrent
  BY DEF IInv
<1> QED BY <1>1, InvInit, InvStep, PTL DEF Spec

(* The n-th mask of a window is the one n slots after its first.           *)
THEOREM TakenAreNumbered == Spec => []GivenIsNth
<1>1. IInv => GivenIsNth
  BY DEF IInv
<1> QED BY <1>1, InvInit, InvStep, PTL DEF Spec

(* Of two windows of one width the later begins where the earlier one ends, *)
(* or after it.                                                            *)
LEMMA WindowsApart ==
  ASSUME NEW a \in Nat, NEW b \in Nat, NEW c \in Nat, a < b
  PROVE  (a - 1) * c + c <= (b - 1) * c
<1>1. a <= b - 1
  OBVIOUS
<1>2. a * c <= (b - 1) * c
  BY <1>1, SMT
<1> QED BY <1>2, SMT

(* A number is a window and a place in the window, in one way.             *)
LEMMA NumberSplits ==
  ASSUME NEW g, NEW h, g.place \in Nat, h.place \in Nat,
         g.count \in Nat, h.count = g.count,
         g.index \in 0 .. g.count - 1, h.index \in 0 .. g.count - 1,
         (g.place - 1) * g.count + g.index = (h.place - 1) * g.count + h.index
  PROVE  g.place = h.place /\ g.index = h.index
<1> DEFINE u == (g.place - 1) * g.count
           v == (h.place - 1) * g.count
<1>1. g.place < h.place => u + g.count <= v
  BY WindowsApart
<1>2. h.place < g.place => v + g.count <= u
  BY WindowsApart
<1>3. u \in Int /\ v \in Int /\ u + g.index = v + h.index
  OBVIOUS
<1>4. g.place = h.place => u = v
  OBVIOUS
<1> HIDE DEF u, v
<1>5. ~(g.place < h.place) /\ ~(h.place < g.place)
  BY <1>1, <1>2, <1>3
<1>6. g.place = h.place
  BY <1>5
<1>7. g.index \in Int /\ h.index \in Int
  OBVIOUS
<1>8. g.index = h.index
  <2>1. u = v
    BY <1>4, <1>6
  <2>2. \A x, y, z \in Int : x + y = x + z => y = z
    OBVIOUS
  <2> QED BY ONLY <1>3, <1>7, <2>1, <2>2
<1> QED BY <1>6, <1>8

LEMMA DisjointFromInv == IInv => WindowsDisjoint
<1> SUFFICES ASSUME IInv, NoOverlap(cpool), NEW g \in given, NEW h \in given,
                    g.mask = h.mask
             PROVE  /\ ClientPlace(clients, g.src) = ClientPlace(clients, h.src)
                    /\ g.index = h.index
  BY DEF WindowsDisjoint
<1>1. PICK s \in Slots(cpool) :
        /\ g.mask = TaddrOf(cpool, s)
        /\ Rank(cpool, s) = (g.place - 1) * g.count + g.index
  BY DEF IInv, GivenIsNth
<1>2. PICK t \in Slots(cpool) :
        /\ h.mask = TaddrOf(cpool, t)
        /\ Rank(cpool, t) = (h.place - 1) * h.count + h.index
  BY DEF IInv, GivenIsNth
<1>3. s = t
  BY <1>1, <1>2 DEF NoOverlap
<1>4. /\ g.place \in Nat /\ g.count \in Nat /\ g.index \in 0 .. g.count - 1
      /\ h.place \in Nat /\ h.count = g.count /\ h.index \in 0 .. g.count - 1
  BY DEF IInv, TypeOK, OneWidth
<1>5. (g.place - 1) * g.count + g.index = (h.place - 1) * g.count + h.index
  BY <1>1, <1>2, <1>3, <1>4
<1>6. g.place = h.place /\ g.index = h.index
  BY <1>4, <1>5, NumberSplits
<1>7. /\ ClientPlace(clients, g.src) = g.place
      /\ ClientPlace(clients, h.src) = h.place
  BY PlaceIs DEF IInv, TypeOK, Held
<1> QED BY <1>6, <1>7

(* Two addresses for which one mask was taken, out of windows of one       *)
(* width, are addresses of one client, and the mask was taken as the same  *)
(* mask of its window; a client that stands in a deleted one's place is    *)
(* not taken for it.                                                       *)
THEOREM WindowsShareNothing == Spec => []WindowsDisjoint
BY InvInit, InvStep, DisjointFromInv, PTL DEF Spec

LEMMA TakenStep == TypeOK /\ TakenFromPool /\ [Next]_vars => TakenFromPool'
<1> SUFFICES ASSUME TypeOK, TakenFromPool, [Next]_vars,
                    taken' # NotTaken, taken'.ret = 0
             PROVE  taken'.mask \in Taddrs(cpool')
  BY DEF TakenFromPool
<1>1. ASSUME NEW addr \in Source, NEW mpc \in PerClient, GetMaskDomain(addr, mpc)
      PROVE  FALSE
  BY <1>1 DEF GetMaskDomain
<1>2. ASSUME NEW n \in Index, GetNthTaddr(n)
      PROVE  taken'.mask \in Taddrs(cpool')
  <2>1. \E mask \in get_nth_taddr(cpool, domain, n) : taken'.mask = mask
    BY <1>2 DEF GetNthTaddr, Took, ESRCH
  <2>2. cpool' = cpool
    BY <1>2 DEF GetNthTaddr
  <2> QED BY <2>1, <2>2, MasksType
<1>3. CASE GetNthUnwritten
  BY <1>3 DEF GetNthUnwritten, Took, ESRCH, Trap
<1>4. CASE Extend
  BY <1>4 DEF Extend
<1>5. CASE Remove
  BY <1>5 DEF Remove
<1>6. CASE UNCHANGED vars
  BY <1>6 DEF vars, TakenFromPool
<1>7. ASSUME NEW p \in Prefix, DeleteClient(p) PROVE FALSE
  BY <1>7 DEF DeleteClient
<1>8. CASE FlushClients
  BY <1>8 DEF FlushClients
<1> QED BY <1>1, <1>2, <1>3, <1>4, <1>5, <1>6, <1>7, <1>8 DEF Next

(* What pool4_get_nth_taddr() stores is a mask of the pool as it is, for a *)
(* struct of a window that is gone as well.                                *)
THEOREM OnlyPoolMasksTaken == Spec => []TakenFromPool
<1>1. Init => TakenFromPool
  BY DEF Init, TakenFromPool
<1> QED BY <1>1, TypeInit, TypeStep, TakenStep, PTL DEF Spec

-----------------------------------------------------------------------------
(* The errors of pool4_get_nth_taddr().                                    *)

LEMMA NothingTaken ==
  ASSUME IInv, window # NoWindow, NoOverlap(cpool), NEW n \in Index,
         get_nth_taddr(cpool, domain, n) = {}
  PROVE  \/ (window.place - 1) * window.count + (n % domain.count)
              >= Cardinality(Slots(cpool))
         \/ \E k \in DOMAIN cpool : /\ cpool[k].addr = domain.first.l3
                                    /\ cpool[k].max = domain.first.l4
<1> DEFINE m == n % domain.count
<1>1. PICK w \in DomainStart(cpool, window.place - 1, window.count) :
        domain.first = TaddrOf(cpool, w)
  BY DEF IInv, WindowCurrent
<1>2. w \in Slots(cpool) /\ Rank(cpool, w) = (window.place - 1) * window.count
  BY <1>1 DEF DomainStart
<1>3. m \in Nat /\ domain.step = 1
  BY IndexReduced DEF IInv, OneWidth
<1>4. cpool \in Seq(Entry)
  BY DEF IInv, TypeOK
<1>5. Rank(cpool, w) \in Nat /\ Cardinality(Slots(cpool)) \in Nat
  BY <1>4, RankType, SlotsFinite, FS_CardinalityType
<1>6. CASE HoldingFirst(cpool, domain) = {}
  <2>1. /\ w[1] \in DOMAIN cpool /\ w[2] \in Nat
        /\ cpool[w[1]].min <= w[2] /\ w[2] <= cpool[w[1]].max
        /\ cpool[w[1]].max \in Nat
    BY <1>2, <1>4, SlotType, PortsType DEF Slots
  <2>2. domain.first.l3 = cpool[w[1]].addr /\ domain.first.l4 = w[2]
    BY <1>1 DEF TaddrOf
  <2>3. ~(cpool[w[1]].max > w[2])
    BY <1>6, <2>1, <2>2 DEF HoldingFirst
  <2> QED BY <2>1, <2>2, <2>3
<1>7. CASE HoldingFirst(cpool, domain) # {}
  <2>1. NthVisited(cpool, domain, m) = {}
    BY <1>7 DEF get_nth_taddr
  <2> HIDE DEF m
  <2>2. \A s \in Slots(cpool) : Rank(cpool, s) # Rank(cpool, w) + m
    BY <1>1, <1>2, <1>3, <1>4, <1>7, <2>1, NthOfWindow
  <2>3. Rank(cpool, w) + m >= Cardinality(Slots(cpool))
    BY <1>3, <1>4, <1>5, <2>2, RankReached
  <2> QED BY <1>2, <2>3 DEF m
<1> QED BY <1>6, <1>7

LEMMA ServedStep == IInv /\ NthServed /\ [Next]_vars => NthServed'
<1> SUFFICES ASSUME IInv, NthServed, [Next]_vars,
                    taken' # NotTaken, taken'.ret # 0, window' # NoWindow,
                    NoOverlap(cpool')
             PROVE  \/ (window'.place - 1) * window'.count + taken'.index
                          >= Cardinality(Slots(cpool'))
                    \/ \E k \in DOMAIN cpool' :
                         /\ cpool'[k].addr = domain'.first.l3
                         /\ cpool'[k].max = domain'.first.l4
  BY DEF NthServed
<1>1. ASSUME NEW addr \in Source, NEW mpc \in PerClient, GetMaskDomain(addr, mpc)
      PROVE  FALSE
  BY <1>1 DEF GetMaskDomain
<1>2. ASSUME NEW n \in Index, GetNthTaddr(n)
      PROVE  \/ (window.place - 1) * window.count + taken'.index
                   >= Cardinality(Slots(cpool))
             \/ \E k \in DOMAIN cpool : /\ cpool[k].addr = domain.first.l3
                                        /\ cpool[k].max = domain.first.l4
  <2>1. UNCHANGED <<cpool, window>>
    BY <1>2 DEF GetNthTaddr
  <2>2. get_nth_taddr(cpool, domain, n) = {} /\ taken'.index = n % domain.count
    BY <1>2 DEF GetNthTaddr, Took
  <2> QED BY <2>1, <2>2, NothingTaken
<1>3. CASE GetNthUnwritten
  BY <1>3 DEF GetNthUnwritten, IInv, OneWidth
<1>4. CASE Extend
  BY <1>4 DEF Extend
<1>5. CASE Remove
  BY <1>5 DEF Remove
<1>6. CASE UNCHANGED vars
  BY <1>6 DEF vars, NthServed
<1>8. ASSUME NEW p \in Prefix, DeleteClient(p) PROVE FALSE
  BY <1>8 DEF DeleteClient
<1>9. CASE FlushClients
  BY <1>9 DEF FlushClients
<1>7. ASSUME NEW n \in Index, GetNthTaddr(n)
      PROVE  UNCHANGED <<cpool, window, domain>>
  BY <1>7 DEF GetNthTaddr
<1> QED BY <1>1, <1>2, <1>3, <1>4, <1>5, <1>6, <1>7, <1>8, <1>9 DEF Next

(* An index is refused only past the end of the pool, or in a window that  *)
(* begins at the last port of a range.                                     *)
THEOREM RefusedOnlyAtEnds == Spec => []NthServed
<1>1. Init => NthServed
  BY DEF Init, NthServed
<1> QED BY <1>1, InvInit, InvStep, ServedStep, PTL DEF Spec

=============================================================================
