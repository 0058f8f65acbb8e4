--------------------------- MODULE GetMaskProofs ---------------------------
(***************************************************************************)
(* Proofs about GetMask, for every pool, client list, word width, number   *)
(* of masks per client and bound.                                          *)
(***************************************************************************)
EXTENDS GetMask, DatabaseLemmas

-----------------------------------------------------------------------------
(* Type correctness.                                                       *)

LEMMA ClientAddType ==
  ASSUME NEW src \in Source, NEW list \in KnownClients(src),
         clients \in Seq(Client)
  PROVE  list \in Seq(Client)
<1>1. list = clients \/ list = Append(clients, dynamic_prefix(src))
  BY DEF KnownClients, client_add
<1>2. dynamic_prefix(src) \in Client
  BY DEF Client
<1> QED BY <1>1, <1>2

LEMMA MaskDomainType ==
  ASSUME NEW pool \in Seq(Entry), NEW k, NEW mpc,
         NEW dom \in get_mask_domain(pool, k, mpc), NEW mask \in Free(dom)
  PROVE  mask \in Taddr
<1>1. mask \in dom.at
  BY DEF Free
<1>2. CASE dom \in DomainSet(pool, k, mpc)
  BY <1>1, <1>2, TaddrType DEF DomainSet, DomainStart
<1>3. CASE dom \in DomainUnset(pool)
  BY <1>1, <1>3, TaddrType DEF DomainUnset, Taddrs
<1> QED BY <1>2, <1>3 DEF get_mask_domain

LEMMA TypeInit == Init => TypeOK
BY DEF Init, TypeOK, Answers

LEMMA TypeStep == TypeOK /\ [Next]_vars => TypeOK'
<1> SUFFICES ASSUME TypeOK, [Next]_vars PROVE TypeOK'
  OBVIOUS
<1> USE DEF TypeOK
<1>s. Spool \in Taddr
  BY Pool4Assumption DEF Spool, Taddr
<1>a. NoAnswer \in Answers
  BY DEF Answers
<1>1. ASSUME NEW src \in Source, GetMaskEmptyPool(src) PROVE TypeOK'
  BY <1>1, <1>s DEF GetMaskEmptyPool, Answers, Answer
<1>2. ASSUME NEW src \in Source, GetMaskError(src) PROVE TypeOK'
  <2>1. PICK list \in KnownClients(src) :
          LET err == mask_domain_error(cpool, list, src, masks_per_client)
          IN  /\ err # 0
              /\ clients' = list
              /\ answer' = Answer(src, err, "none", "none", Spool)
    BY <1>2 DEF GetMaskError
  <2>2. mask_domain_error(cpool, list, src, masks_per_client) \in {0, 1, -ESRCH}
    BY DEF mask_domain_error
  <2>3. answer' \in Answers
    BY <2>1, <2>2, <1>s DEF Answers, Answer
  <2>4. clients' \in Seq(Client)
    BY <2>1, ClientAddType
  <2> QED BY <1>2, <2>3, <2>4 DEF GetMaskError
<1>3. ASSUME NEW src \in Source, GetMaskServed(src) PROVE TypeOK'
  <2> DEFINE k(list) == ClientPlace(list, src)
  <2>1. PICK list \in KnownClients(src) :
          /\ mask_domain_error(cpool, list, src, masks_per_client) = 0
          /\ clients' = list
          /\ \E dom \in get_mask_domain(cpool, k(list), masks_per_client) :
               LET how == IF dom.set THEN "set" ELSE "unset"
               IN  IF Free(dom) # {}
                   THEN \E mask \in Free(dom) :
                          /\ answer' = Answer(src, 0, how, "cpool", mask)
                          /\ grants' = IF dom.set
                               THEN grants \cup
                                 {[place |-> k(list), src |-> src, mask |-> mask]}
                               ELSE grants
                   ELSE /\ answer' = Answer(src, 0, how, "spool", Spool)
                        /\ grants' = grants
    BY <1>3 DEF GetMaskServed
  <2>2. clients' \in Seq(Client)
    BY <2>1, ClientAddType
  <2>3. k(list) \in Nat \ {0}
    <3>1. Holding(list, src) # {}
      BY <2>1 DEF mask_domain_error, ESRCH
    <3>2. Holding(list, src) \in SUBSET DOMAIN list /\ DOMAIN list = 1 .. Len(list)
      BY <2>1, <2>2, LenProperties DEF Holding
    <3>3. k(list) \in DOMAIN list
      BY <2>1, <2>2, <3>1, <3>2, FirstIsLeast DEF ClientPlace
    <3> QED BY <3>2, <3>3
  <2>4. PICK dom \in get_mask_domain(cpool, k(list), masks_per_client) :
          LET how == IF dom.set THEN "set" ELSE "unset"
          IN  IF Free(dom) # {}
              THEN \E mask \in Free(dom) :
                     /\ answer' = Answer(src, 0, how, "cpool", mask)
                     /\ grants' = IF dom.set
                          THEN grants \cup
                            {[place |-> k(list), src |-> src, mask |-> mask]}
                          ELSE grants
              ELSE /\ answer' = Answer(src, 0, how, "spool", Spool)
                   /\ grants' = grants
    BY <2>1
  <2>5. answer' \in Answers /\ grants' \subseteq
          [place : Nat \ {0}, src : Source, mask : Taddr]
    <3>1. \A mask \in Free(dom) : mask \in Taddr
      BY MaskDomainType
    <3> QED BY <2>3, <2>4, <3>1, <1>s DEF Answers, Answer
  <2> QED BY <1>3, <2>2, <2>5 DEF GetMaskServed
<1>4. ASSUME NEW e \in Entry, AddEntry(e) PROVE TypeOK'
  BY <1>4, <1>a DEF AddEntry, Pool4Add, pool4_add
<1>5. ASSUME NEW e \in Entry, RemoveEntry(e) PROVE TypeOK'
  BY <1>5, <1>a, RmType DEF RemoveEntry, Pool4Rm
<1>6. CASE FlushEntries
  BY <1>6, <1>a DEF FlushEntries, Pool4Flush, pool4_flush
<1>7. ASSUME NEW p \in Prefix, AddClient(p) PROVE TypeOK'
  BY <1>7, <1>a DEF AddClient, ClientAdd, client_add, Client
<1>8. ASSUME NEW p \in Prefix, DeleteClient(p) PROVE TypeOK'
  BY <1>8, <1>a, DeleteType DEF DeleteClient, ClientDelete
<1>9. CASE FlushClients
  BY <1>9, <1>a DEF FlushClients, ClientFlush, client_flush
<1>10. CASE UNCHANGED vars
  BY <1>10 DEF vars
<1> QED BY <1>1, <1>2, <1>3, <1>4, <1>5, <1>6, <1>7, <1>8, <1>9, <1>10 DEF Next

(* The databases and the answers of get_mask() keep their types.           *)
THEOREM TypeCorrect == Spec => []TypeOK
BY TypeInit, TypeStep, PTL DEF Spec

-----------------------------------------------------------------------------
(* The grants.                                                             *)

IInv == TypeOK /\ GrantsCurrent

(* An edit that appends to the lists leaves a grant current.               *)
LEMMA GrantSurvives ==
  ASSUME IInv, TypeOK',
         cpool' = cpool \/ \E e \in Entry : cpool' = Append(cpool, e),
         clients' = clients \/ \E p \in Client : clients' = Append(clients, p),
         masks_per_client' = masks_per_client,
         NEW g \in grants
  PROVE  /\ masks_per_client' # 0
         /\ g.place \in Holding(clients', g.src)
         /\ \A k \in Holding(clients', g.src) : g.place <= k
         /\ \E s \in DomainStart(cpool', g.place - 1, masks_per_client') :
              g.mask = TaddrOf(cpool', s)
<1> USE DEF IInv, TypeOK
<1>1. PICK s \in DomainStart(cpool, g.place - 1, masks_per_client) :
        g.mask = TaddrOf(cpool, s)
  BY DEF GrantsCurrent
<1>2. \E t \in DomainStart(cpool', g.place - 1, masks_per_client') :
        g.mask = TaddrOf(cpool', t)
  <2>1. CASE cpool' = cpool
    BY <1>1, <2>1
  <2>2. ASSUME NEW e \in Entry, cpool' = Append(cpool, e)
        PROVE  /\ s \in DomainStart(cpool', g.place - 1, masks_per_client')
               /\ TaddrOf(cpool', s) = TaddrOf(cpool, s)
    BY <2>2, AppendKeepsDomains
  <2> QED BY <1>1, <2>1, <2>2
<1>3. /\ g.place \in Holding(clients, g.src)
      /\ \A k \in Holding(clients, g.src) : g.place <= k
      /\ masks_per_client # 0
  BY DEF GrantsCurrent
<1>4. /\ g.place \in Holding(clients', g.src)
      /\ \A k \in Holding(clients', g.src) : g.place <= k
  BY <1>3, AppendKeepsHolding
<1> QED BY <1>2, <1>3, <1>4

LEMMA GrantsKept ==
  ASSUME IInv, TypeOK', grants' \subseteq grants,
         cpool' = cpool \/ \E e \in Entry : cpool' = Append(cpool, e),
         clients' = clients \/ \E p \in Client : clients' = Append(clients, p),
         masks_per_client' = masks_per_client
  PROVE  GrantsCurrent'
<1>1. \A g \in grants' :
        /\ masks_per_client' # 0
        /\ g.place \in Holding(clients', g.src)
        /\ \A k \in Holding(clients', g.src) : g.place <= k
        /\ \E s \in DomainStart(cpool', g.place - 1, masks_per_client') :
             g.mask = TaddrOf(cpool', s)
  BY GrantSurvives
<1> QED BY <1>1 DEF GrantsCurrent

LEMMA KnownIsAppend ==
  ASSUME NEW src \in Source, NEW list \in KnownClients(src)
  PROVE  list = clients \/ \E p \in Client : list = Append(clients, p)
BY DEF KnownClients, client_add, Client

(* The mask get_mask() takes out of a domain of its own is the first of    *)
(* the window with the client's number.                                    *)
LEMMA ServedMask ==
  ASSUME NEW pool, NEW k, NEW mpc, NEW dom \in get_mask_domain(pool, k, mpc),
         dom.set, NEW mask \in Free(dom)
  PROVE  \E s \in DomainStart(pool, k - 1, mpc) : mask = TaddrOf(pool, s)
<1>1. dom \notin DomainUnset(pool)
  BY DEF DomainUnset
<1>2. PICK s \in DomainStart(pool, k - 1, mpc) : dom.at = {TaddrOf(pool, s)}
  BY <1>1 DEF get_mask_domain, DomainSet
<1> QED BY <1>2 DEF Free

LEMMA GrantsInit == Init => GrantsCurrent
BY DEF Init, GrantsCurrent

LEMMA GrantsStep == IInv /\ [Next]_vars => GrantsCurrent'
<1> SUFFICES ASSUME IInv, [Next]_vars PROVE GrantsCurrent'
  OBVIOUS
<1>t. TypeOK'
  BY TypeStep DEF IInv
<1>1. ASSUME NEW src \in Source, GetMaskEmptyPool(src) PROVE GrantsCurrent'
  BY <1>1, <1>t, GrantsKept DEF GetMaskEmptyPool
<1>2. ASSUME NEW src \in Source, GetMaskError(src) PROVE GrantsCurrent'
  <2>1. \E list \in KnownClients(src) : clients' = list
    BY <1>2 DEF GetMaskError
  <2>2. clients' = clients \/ \E p \in Client : clients' = Append(clients, p)
    BY <2>1, KnownIsAppend
  <2> QED BY <1>2, <1>t, <2>2, GrantsKept DEF GetMaskError
<1>3. ASSUME NEW src \in Source, GetMaskServed(src) PROVE GrantsCurrent'
  <2> DEFINE k(list) == ClientPlace(list, src)
  <2>1. PICK list \in KnownClients(src) :
          /\ mask_domain_error(cpool, list, src, masks_per_client) = 0
          /\ clients' = list
          /\ \E dom \in get_mask_domain(cpool, k(list), masks_per_client) :
               LET how == IF dom.set THEN "set" ELSE "unset"
               IN  IF Free(dom) # {}
                   THEN \E mask \in Free(dom) :
                          /\ answer' = Answer(src, 0, how, "cpool", mask)
                          /\ grants' = IF dom.set
                               THEN grants \cup
                                 {[place |-> k(list), src |-> src, mask |-> mask]}
                               ELSE grants
                   ELSE /\ answer' = Answer(src, 0, how, "spool", Spool)
                        /\ grants' = grants
    BY <1>3 DEF GetMaskServed
  <2>2. clients' = clients \/ \E p \in Client : clients' = Append(clients, p)
    BY <2>1, KnownIsAppend
  <2>3. cpool' = cpool /\ masks_per_client' = masks_per_client
    BY <1>3 DEF GetMaskServed
  <2>4. CASE grants' \subseteq grants
    BY <1>t, <2>2, <2>3, <2>4, GrantsKept
  <2>5. ASSUME NEW dom \in get_mask_domain(cpool, k(list), masks_per_client),
               NEW mask \in Free(dom), dom.set,
               grants' = grants \cup
                 {[place |-> k(list), src |-> src, mask |-> mask]}
        PROVE  GrantsCurrent'
    <3> DEFINE new == [place |-> k(list), src |-> src, mask |-> mask]
    <3>1. masks_per_client # 0 /\ Holding(list, src) # {}
      BY <2>1 DEF mask_domain_error, ESRCH
    <3>2. /\ k(list) \in Holding(list, src)
          /\ \A j \in Holding(list, src) : k(list) <= j
      <4>1. Holding(list, src) \in SUBSET DOMAIN list
        BY DEF Holding
      <4>2. list \in Seq(Client)
        BY <1>t, <2>1 DEF TypeOK
      <4> QED BY <3>1, <4>1, <4>2, FirstIsLeast DEF ClientPlace
    <3>3. \E s \in DomainStart(cpool, k(list) - 1, masks_per_client) :
            mask = TaddrOf(cpool, s)
      BY <2>5, ServedMask
    <3>4. /\ masks_per_client' # 0
          /\ new.place \in Holding(clients', new.src)
          /\ \A j \in Holding(clients', new.src) : new.place <= j
          /\ \E s \in DomainStart(cpool', new.place - 1, masks_per_client') :
               new.mask = TaddrOf(cpool', s)
      BY <2>1, <2>3, <3>1, <3>2, <3>3
    <3>5. ASSUME NEW g \in grants
          PROVE  /\ masks_per_client' # 0
                 /\ g.place \in Holding(clients', g.src)
                 /\ \A j \in Holding(clients', g.src) : g.place <= j
                 /\ \E s \in DomainStart(cpool', g.place - 1, masks_per_client') :
                      g.mask = TaddrOf(cpool', s)
      BY <1>t, <2>2, <2>3, GrantSurvives
    <3>6. \A g \in grants' : g \in grants \/ g = new
      BY <2>5
    <3> HIDE DEF new
    <3> QED BY <3>4, <3>5, <3>6 DEF GrantsCurrent
  <2> QED BY <2>1, <2>4, <2>5
<1>4. ASSUME NEW e \in Entry, AddEntry(e) PROVE GrantsCurrent'
  BY <1>4, <1>t, GrantsKept DEF AddEntry, Pool4Add, pool4_add
<1>5. ASSUME NEW e \in Entry, RemoveEntry(e) PROVE GrantsCurrent'
  <2>1. CASE cpool' = cpool
    BY <1>5, <1>t, <2>1, GrantsKept DEF RemoveEntry, Pool4Rm
  <2>2. CASE cpool' # cpool
    BY <1>5, <2>2 DEF RemoveEntry, Pool4Rm, GrantsCurrent
  <2> QED BY <2>1, <2>2
<1>6. CASE FlushEntries
  BY <1>6 DEF FlushEntries, Pool4Flush, GrantsCurrent
<1>7. ASSUME NEW p \in Prefix, AddClient(p) PROVE GrantsCurrent'
  BY <1>7, <1>t, GrantsKept DEF AddClient, ClientAdd, client_add, Client
<1>8. ASSUME NEW p \in Prefix, DeleteClient(p) PROVE GrantsCurrent'
  <2>1. \A g \in grants' : g \in grants /\ BeforeDeleted(g.place, p)
    BY <1>8 DEF DeleteClient
  <2>2. /\ clients' = client_delete(clients, p) /\ cpool' = cpool
        /\ masks_per_client' = masks_per_client
    BY <1>8 DEF DeleteClient, ClientDelete
  <2>3. ASSUME NEW g \in grants'
        PROVE  /\ g.place \in Holding(clients', g.src)
               /\ \A j \in Holding(clients', g.src) : g.place <= j
    <3>1. /\ g.place \in Holding(clients, g.src)
          /\ \A j \in Holding(clients, g.src) : g.place <= j
      BY <2>1 DEF IInv, GrantsCurrent
    <3> QED BY <2>1, <2>2, <3>1, PlaceBeforeDeleted
            DEF IInv, TypeOK, BeforeDeleted
  <2> QED BY <2>1, <2>2, <2>3 DEF IInv, GrantsCurrent
<1>9. CASE FlushClients
  BY <1>9 DEF FlushClients, ClientFlush, GrantsCurrent
<1>10. CASE UNCHANGED vars
  BY <1>10, <1>t, GrantsKept DEF vars
<1> QED BY <1>1, <1>2, <1>3, <1>4, <1>5, <1>6, <1>7, <1>8, <1>9, <1>10 DEF Next

(* Every grant agrees with the lists as they are now: see GrantsCurrent.   *)
THEOREM GrantsStayCurrent == Spec => []GrantsCurrent
<1>1. Init => IInv
  BY TypeInit, GrantsInit DEF IInv
<1>2. IInv /\ [Next]_vars => IInv'
  BY TypeStep, GrantsStep DEF IInv
<1>3. IInv => GrantsCurrent
  BY DEF IInv
<1> QED BY <1>1, <1>2, <1>3, PTL DEF Spec

(* A number of masks per client that is not zero tells windows apart.      *)
LEMMA WindowsDiffer ==
  ASSUME NEW a \in Nat, NEW b \in Nat, NEW m \in Nat, m # 0,
         (a - 1) * m = (b - 1) * m
  PROVE  a = b
BY SMT

LEMMA ExclusiveFromInv == IInv => Exclusive
<1> SUFFICES ASSUME IInv, NoOverlap(cpool), NEW g \in grants, NEW h \in grants,
                    g.mask = h.mask
             PROVE  g.place = h.place
  BY DEF Exclusive
<1>1. PICK s \in DomainStart(cpool, g.place - 1, masks_per_client) :
        g.mask = TaddrOf(cpool, s)
  BY DEF IInv, GrantsCurrent
<1>2. PICK t \in DomainStart(cpool, h.place - 1, masks_per_client) :
        h.mask = TaddrOf(cpool, t)
  BY DEF IInv, GrantsCurrent
<1>3. s = t
  BY <1>1, <1>2 DEF NoOverlap, DomainStart
<1>4. (g.place - 1) * masks_per_client = (h.place - 1) * masks_per_client
  BY <1>1, <1>2, <1>3 DEF DomainStart
<1>5. masks_per_client # 0
  BY DEF IInv, GrantsCurrent
<1>6. g.place \in Nat /\ h.place \in Nat /\ masks_per_client \in Nat
  BY GetMaskAssumption DEF IInv, TypeOK
<1> QED BY <1>4, <1>5, <1>6, WindowsDiffer

(* In a pool that holds no mask twice, no two clients are given one mask.  *)
THEOREM MasksAreExclusive == Spec => []Exclusive
<1>1. Init => IInv
  BY TypeInit, GrantsInit DEF IInv
<1>2. IInv /\ [Next]_vars => IInv'
  BY TypeStep, GrantsStep DEF IInv
<1> QED BY <1>1, <1>2, ExclusiveFromInv, PTL DEF Spec

LEMMA StableFromInv == IInv => Stable
<1> SUFFICES ASSUME IInv, NEW g \in grants, NEW h \in grants, g.src = h.src
             PROVE  g.mask = h.mask
  BY DEF Stable
<1>1. g.place \in Nat /\ h.place \in Nat
  BY DEF IInv, TypeOK
<1>2. g.place <= h.place /\ h.place <= g.place
  BY DEF IInv, GrantsCurrent
<1>3. g.place = h.place
  BY <1>1, <1>2
<1>4. PICK s \in DomainStart(cpool, g.place - 1, masks_per_client) :
        g.mask = TaddrOf(cpool, s)
  BY DEF IInv, GrantsCurrent
<1>5. PICK t \in DomainStart(cpool, h.place - 1, masks_per_client) :
        h.mask = TaddrOf(cpool, t)
  BY DEF IInv, GrantsCurrent
<1>6. s = t
  BY <1>3, <1>4, <1>5, RankInjective DEF DomainStart, IInv, TypeOK
<1> QED BY <1>4, <1>5, <1>6

(* A source keeps its mask until a removal moves its client or the pool.   *)
THEOREM MasksAreStable == Spec => []Stable
<1>1. Init => IInv
  BY TypeInit, GrantsInit DEF IInv
<1>2. IInv /\ [Next]_vars => IInv'
  BY TypeStep, GrantsStep DEF IInv
<1> QED BY <1>1, <1>2, StableFromInv, PTL DEF Spec

-----------------------------------------------------------------------------
(* The comparison of the two counts.                                       *)

(* With one mask per client and counts that do not wrap, the client at any *)
(* place that passes the comparison has a window.                          *)
LEMMA CountsSuffice ==
  ASSUME NEW pool \in Seq(Entry), NEW list \in Seq(Client),
         pool4_count(pool) = Cardinality(Slots(pool)),
         client_count(list) \in Len(list) .. 2^WordBits - 1,
         ~(client_count(list) > pool4_count(pool)),
         NEW k \in DOMAIN list
  PROVE  DomainStart(pool, k - 1, 1) # {}
<1>1. Cardinality(Slots(pool)) \in Nat
  BY SlotsFinite, FS_CardinalityType
<1>2. Len(list) \in Nat /\ k \in 1 .. Len(list)
  BY LenProperties
<1>3. client_count(list) \in Int /\ Len(list) <= client_count(list)
  OBVIOUS
<1>4. (k - 1) * 1 < Cardinality(Slots(pool)) /\ k - 1 \in Nat
  BY <1>1, <1>2, <1>3
<1> QED BY <1>4, DomainStartExists

LEMMA AssignedStep ==
  TypeOK /\ OneMaskIsAssigned /\ [Next]_vars => OneMaskIsAssigned'
<1> SUFFICES ASSUME TypeOK, OneMaskIsAssigned, [Next]_vars,
                    masks_per_client' = 1, Regular', answer' # NoAnswer
             PROVE  answer'.dom # "unset"
  BY DEF OneMaskIsAssigned
<1>t. TypeOK'
  BY TypeStep
<1>1. ASSUME NEW src \in Source, GetMaskEmptyPool(src)
      PROVE  answer'.dom # "unset"
  BY <1>1 DEF GetMaskEmptyPool, Answer
<1>2. ASSUME NEW src \in Source, GetMaskError(src)
      PROVE  answer'.dom # "unset"
  BY <1>2 DEF GetMaskError, Answer
<1>3. ASSUME NEW src \in Source, GetMaskServed(src)
      PROVE  answer'.dom # "unset"
  <2> DEFINE k == ClientPlace(clients', src)
  <2>1. /\ mask_domain_error(cpool, clients', src, 1) = 0
        /\ \E dom \in get_mask_domain(cpool, k, 1) :
             answer'.dom = IF dom.set THEN "set" ELSE "unset"
    BY <1>3 DEF GetMaskServed, Answer
  <2>2. cpool' = cpool
    BY <1>3 DEF GetMaskServed
  <2>3. /\ Holding(clients', src) # {}
        /\ ~(client_count(clients') > pool4_count(cpool))
    BY <2>1 DEF mask_domain_error, ESRCH
  <2>4. k \in DOMAIN clients'
    <3>1. Holding(clients', src) \in SUBSET DOMAIN clients'
      BY DEF Holding
    <3> QED BY <1>t, <2>3, <3>1, FirstIsLeast DEF TypeOK, ClientPlace
  <2>5. DomainStart(cpool, k - 1, 1) # {}
    BY <1>t, <2>2, <2>3, <2>4, CountsSuffice DEF Regular, TypeOK
  <2>6. \A dom \in get_mask_domain(cpool, k, 1) : dom.set = TRUE
    BY <2>5 DEF get_mask_domain, DomainSet
  <2> QED BY <2>1, <2>6
<1>4. ASSUME NEW e \in Entry, AddEntry(e) \/ RemoveEntry(e)
      PROVE  answer' = NoAnswer
  BY <1>4 DEF AddEntry, Pool4Add, RemoveEntry, Pool4Rm
<1>5. ASSUME NEW p \in Prefix, AddClient(p) \/ DeleteClient(p)
      PROVE  answer' = NoAnswer
  BY <1>5 DEF AddClient, ClientAdd, DeleteClient, ClientDelete
<1>6. CASE FlushEntries \/ FlushClients
  BY <1>6 DEF FlushEntries, Pool4Flush, FlushClients, ClientFlush
<1>7. CASE UNCHANGED vars
  BY <1>7 DEF vars, OneMaskIsAssigned, Regular
<1> QED BY <1>1, <1>2, <1>3, <1>4, <1>5, <1>6, <1>7 DEF Next

(* With one mask per client get_mask() never uses an unwritten domain.     *)
THEOREM OneMaskSuffices == Spec => []OneMaskIsAssigned
<1>1. Init => TypeOK /\ OneMaskIsAssigned
  BY TypeInit DEF Init, OneMaskIsAssigned
<1>2. TypeOK /\ OneMaskIsAssigned /\ [Next]_vars
        => (TypeOK /\ OneMaskIsAssigned)'
  BY TypeStep, AssignedStep
<1> QED BY <1>1, <1>2, PTL DEF Spec

-----------------------------------------------------------------------------
(* Clients made by get_mask().                                             *)

(* The walk over a prefix of one address visits that address, so that a    *)
(* dynamic client is found again.                                          *)
LEMMA DynamicWalk ==
  ASSUME NEW addr \in in6_addr
  PROVE  /\ DOMAIN Walk(dynamic_prefix(addr)) = 1 .. 1
         /\ Walk(dynamic_prefix(addr))[1] = addr
<1> DEFINE p == dynamic_prefix(addr)
<1>1. p.address = addr /\ p.len = AddrBits /\ p \in ipv6_prefix
  BY TypesAssumption DEF dynamic_prefix, ipv6_prefix, AddrBits
<1>2. get_addr6_count(p) = 1
  <2>1. AddrBits - p.len = 0
    BY <1>1, TypesAssumption DEF AddrBits
  <2>2. ShiftCount(AddrBits - p.len, WordBits) = 0
    BY <2>1, TypesAssumption DEF ShiftCount
  <2>3. 2^0 = 1
    OBVIOUS
  <2>4. 1 % 2^WordBits = 1
    BY TypesAssumption
  <2> QED BY <2>2, <2>3, <2>4 DEF get_addr6_count, Uint
<1> HIDE DEF p
<1>3. DOMAIN Walk(p) = 1 .. get_addr6_count(p)
  BY <1>1, WalkIs
<1>4. DOMAIN Walk(p) = 1 .. 1 /\ 1 \in 1 .. 1
  BY <1>2, <1>3
<1>5. Walk(p)[1] = addr
  BY <1>1, <1>4, WalkIs
<1> QED BY <1>4, <1>5 DEF p

(* At most one node of a list is the given prefix.                         *)
Once(list, prefix) ==
  \A j, k \in DOMAIN list : list[j] = prefix /\ list[k] = prefix => j = k

LEMMA AppendOther ==
  ASSUME NEW list \in Seq(Client), NEW p \in Client, NEW q \in Client,
         p # q \/ (\A k \in DOMAIN list : list[k] # q), Once(list, q)
  PROVE  Once(Append(list, p), q)
<1>1. /\ Len(list) \in Nat /\ DOMAIN list = 1 .. Len(list)
      /\ DOMAIN Append(list, p) = 1 .. Len(list) + 1
      /\ \A i \in 1 .. Len(list) : Append(list, p)[i] = list[i]
      /\ Append(list, p)[Len(list) + 1] = p
  BY LenProperties, AppendProperties
<1> QED BY <1>1 DEF Once

LEMMA RemoveKeepsOnce ==
  ASSUME NEW list \in Seq(Client), NEW d \in DOMAIN list, NEW q, Once(list, q)
  PROVE  Once(RemoveNode(list, d), q)
<1> DEFINE rest == RemoveNode(list, d)
           was(i) == IF i < d THEN i ELSE i + 1
<1>1. Len(list) \in Nat /\ DOMAIN list = 1 .. Len(list)
  BY LenProperties
<1>2. /\ DOMAIN rest = 1 .. Len(list) - 1
      /\ \A i \in 1 .. Len(list) - 1 : rest[i] = list[was(i)]
  BY DEF RemoveNode
<1>3. \A i \in 1 .. Len(list) - 1 : was(i) \in DOMAIN list
  BY <1>1
<1>4. \A i, j \in 1 .. Len(list) - 1 : was(i) = was(j) => i = j
  BY <1>1
<1> QED BY <1>2, <1>3, <1>4 DEF Once

(* An address that some node of the list is the dynamic prefix of exists.  *)
LEMMA DynamicExists ==
  ASSUME NEW list, NEW src \in Source, NEW k \in DOMAIN list,
         list[k] = dynamic_prefix(src)
  PROVE  client_addr_exist(list, src)
<1>1. src \in in6_addr
  BY DatabasesAssumption
<1>2. 1 \in DOMAIN Walk(list[k]) /\ Walk(list[k])[1] = src
  BY <1>1, DynamicWalk
<1> QED BY <1>2 DEF client_addr_exist

LEMMA KnownOnce ==
  ASSUME TypeOK, NEW src \in Source, NEW list \in KnownClients(src),
         NEW other \in Source, Once(clients, dynamic_prefix(other))
  PROVE  Once(list, dynamic_prefix(other))
<1> DEFINE q == dynamic_prefix(other)
           p == dynamic_prefix(src)
<1>1. CASE list = clients
  BY <1>1
<1>2. CASE list = Append(clients, p) /\ ~client_addr_exist(clients, src)
  <2>1. p \in Client /\ q \in Client /\ clients \in Seq(Client)
    BY DEF Client, TypeOK
  <2>2. \A k \in DOMAIN clients : clients[k] # p
    BY <1>2, DynamicExists
  <2>3. p # q \/ \A k \in DOMAIN clients : clients[k] # q
    BY <2>2
  <2> HIDE DEF p, q
  <2>4. Once(Append(clients, p), q)
    BY <2>1, <2>3, AppendOther DEF q
  <2> QED BY <1>2, <2>4 DEF q
<1> QED BY <1>1, <1>2 DEF KnownClients, client_add

LEMMA OnceStep == TypeOK /\ DynamicOnce /\ [Next]_vars => DynamicOnce'
<1> SUFFICES ASSUME TypeOK, [Next]_vars, NEW other \in Source,
                    dynamic_prefix(other) \notin Prefix,
                    Once(clients, dynamic_prefix(other))
             PROVE  Once(clients', dynamic_prefix(other))
  BY DEF DynamicOnce, Once
<1> DEFINE q == dynamic_prefix(other)
<1>q. q \in Client
  BY DEF Client
<1>1. ASSUME NEW src \in Source, GetMaskError(src) \/ GetMaskServed(src)
      PROVE  Once(clients', q)
  <2>1. \E list \in KnownClients(src) : clients' = list
    BY <1>1 DEF GetMaskError, GetMaskServed
  <2> QED BY <2>1, KnownOnce
<1>2. ASSUME NEW p \in Prefix, AddClient(p) PROVE Once(clients', q)
  <2>1. p \in Client /\ p # q /\ clients \in Seq(Client)
    BY DEF Client, TypeOK
  <2>2. clients' = clients \/ clients' = Append(clients, p)
    BY <1>2 DEF AddClient, ClientAdd, client_add
  <2> HIDE DEF q
  <2>3. Once(Append(clients, p), q)
    BY <1>q, <2>1, AppendOther DEF q
  <2> QED BY <2>2, <2>3 DEF q
<1>3. ASSUME NEW p \in Prefix, DeleteClient(p) PROVE Once(clients', q)
  <2> DEFINE K == Matching(clients, p)
  <2>1. clients' = IF K = {} THEN clients ELSE RemoveNode(clients, First(K))
    BY <1>3 DEF DeleteClient, ClientDelete, client_delete
  <2>2. K \in SUBSET DOMAIN clients
    BY DEF Matching
  <2>3. K # {} => First(K) \in DOMAIN clients
    BY <2>2, FirstIsLeast DEF TypeOK
  <2> QED BY <2>1, <2>3, RemoveKeepsOnce DEF TypeOK
<1>4. CASE FlushClients
  BY <1>4 DEF FlushClients, ClientFlush, client_flush, Once
<1>5. ASSUME NEW src \in Source, GetMaskEmptyPool(src) PROVE clients' = clients
  BY <1>5 DEF GetMaskEmptyPool
<1>6. ASSUME NEW e \in Entry, AddEntry(e) \/ RemoveEntry(e)
      PROVE  clients' = clients
  BY <1>6 DEF AddEntry, Pool4Add, RemoveEntry, Pool4Rm
<1>7. CASE FlushEntries \/ UNCHANGED vars
  BY <1>7 DEF FlushEntries, Pool4Flush, vars
<1> QED BY <1>1, <1>2, <1>3, <1>4, <1>5, <1>6, <1>7 DEF Next

(* However often a source asks in vain, it is one node of the database.    *)
THEOREM SourcesAppendedOnce == Spec => []DynamicOnce
<1>1. Init => TypeOK /\ DynamicOnce
  BY TypeInit DEF Init, DynamicOnce
<1>2. TypeOK /\ DynamicOnce /\ [Next]_vars => (TypeOK /\ DynamicOnce)'
  BY TypeStep, OnceStep
<1> QED BY <1>1, <1>2, PTL DEF Spec

-----------------------------------------------------------------------------
(* Windows for every client.                                               *)

LEMMA ClientIsPrefix ==
  ASSUME NEW p \in Client
  PROVE  p \in ipv6_prefix
BY ClientAssumption, DatabasesAssumption, TypesAssumption
   DEF Client, dynamic_prefix, ipv6_prefix, AddrBits

(* A pool that reaches the first mask of the last client has the window of *)
(* every other one.                                                        *)
LEMMA EarlierWindow ==
  ASSUME NEW pool \in Seq(Entry), NEW n \in Nat, NEW mpc \in Nat,
         Cardinality(Slots(pool)) > (n - 1) * mpc, NEW k \in 1 .. n
  PROVE  DomainStart(pool, k - 1, mpc) # {}
<1>1. Cardinality(Slots(pool)) \in Nat
  BY SlotsFinite, FS_CardinalityType
<1>2. (k - 1) * mpc <= (n - 1) * mpc
  <2> DEFINE d == n - k
  <2>1. d \in Nat /\ n - 1 = (k - 1) + d /\ k - 1 \in Nat
    OBVIOUS
  <2> HIDE DEF d
  <2>2. (n - 1) * mpc = (k - 1) * mpc + d * mpc /\ d * mpc >= 0
    BY <2>1
  <2> QED BY <2>1, <2>2
<1>3. k - 1 \in Nat /\ (k - 1) * mpc \in Nat /\ (n - 1) * mpc \in Int
  OBVIOUS
<1>4. (k - 1) * mpc < Cardinality(Slots(pool))
  BY <1>1, <1>2, <1>3
<1> QED BY <1>3, <1>4, DomainStartExists

LEMMA ServedStep == TypeOK /\ ServedWhenEnough /\ [Next]_vars => ServedWhenEnough'
<1> SUFFICES ASSUME TypeOK, ServedWhenEnough, [Next]_vars,
                    answer' # NoAnswer, answer'.err = 0, cpool' # << >>,
                    Cardinality(Slots(cpool')) > (Len(clients') - 1) * masks_per_client'
             PROVE  \E s \in DomainStart(cpool', ClientPlace(clients', answer'.src) - 1,
                                         masks_per_client') :
                      answer'.from = IF bibdb_contains4(TaddrOf(cpool', s))
                                     THEN "spool" ELSE "cpool"
  BY DEF ServedWhenEnough
<1>t. TypeOK'
  BY TypeStep
<1>1. ASSUME NEW src \in Source, GetMaskEmptyPool(src) PROVE FALSE
  BY <1>1 DEF GetMaskEmptyPool, pool4_is_empty
<1>2. ASSUME NEW src \in Source, GetMaskError(src) PROVE FALSE
  BY <1>2 DEF GetMaskError, Answer
<1>3. ASSUME NEW src \in Source, GetMaskServed(src)
      PROVE  \E s \in DomainStart(cpool', ClientPlace(clients', answer'.src) - 1,
                                  masks_per_client') :
               answer'.from = IF bibdb_contains4(TaddrOf(cpool', s))
                              THEN "spool" ELSE "cpool"
  <2> DEFINE k == ClientPlace(clients', src)
             m == masks_per_client
  <2>1. /\ mask_domain_error(cpool, clients', src, m) = 0
        /\ \E dom \in get_mask_domain(cpool, k, m) :
             /\ answer'.src = src
             /\ answer'.from = IF Free(dom) # {} THEN "cpool" ELSE "spool"
    BY <1>3 DEF GetMaskServed, Answer
  <2>2. cpool' = cpool /\ masks_per_client' = m
    BY <1>3 DEF GetMaskServed
  <2>3. k \in 1 .. Len(clients') /\ Len(clients') \in Nat
    <3>1. Holding(clients', src) # {}
      BY <2>1 DEF mask_domain_error, ESRCH
    <3>2. Holding(clients', src) \in SUBSET DOMAIN clients'
      BY DEF Holding
    <3>3. k \in DOMAIN clients'
      BY <1>t, <3>1, <3>2, FirstIsLeast DEF TypeOK, ClientPlace
    <3> QED BY <1>t, <3>3, LenProperties DEF TypeOK
  <2>4. DomainStart(cpool, k - 1, m) # {}
    <3>1. cpool \in Seq(Entry) /\ m \in Nat
      BY GetMaskAssumption DEF TypeOK
    <3>2. Cardinality(Slots(cpool)) > (Len(clients') - 1) * m
      BY <2>2
    <3> HIDE DEF k
    <3> QED BY <2>3, <3>1, <3>2, EarlierWindow
  <2>5. PICK dom \in DomainSet(cpool, k, m) :
          /\ answer'.src = src
          /\ answer'.from = IF Free(dom) # {} THEN "cpool" ELSE "spool"
    BY <2>1, <2>4 DEF get_mask_domain
  <2>6. PICK s \in DomainStart(cpool, k - 1, m) : dom.at = {TaddrOf(cpool, s)}
    BY <2>5 DEF DomainSet
  <2>7. Free(dom) # {} <=> ~bibdb_contains4(TaddrOf(cpool, s))
    BY <2>6 DEF Free
  <2> QED BY <2>2, <2>5, <2>6, <2>7
<1>4. ASSUME NEW e \in Entry, AddEntry(e) \/ RemoveEntry(e) PROVE FALSE
  BY <1>4 DEF AddEntry, Pool4Add, RemoveEntry, Pool4Rm
<1>5. ASSUME NEW p \in Prefix, AddClient(p) \/ DeleteClient(p) PROVE FALSE
  BY <1>5 DEF AddClient, ClientAdd, DeleteClient, ClientDelete
<1>6. CASE FlushEntries \/ FlushClients
  BY <1>6 DEF FlushEntries, Pool4Flush, FlushClients, ClientFlush
<1>7. CASE UNCHANGED vars
  BY <1>7 DEF vars, ServedWhenEnough
<1> QED BY <1>1, <1>2, <1>3, <1>4, <1>5, <1>6, <1>7 DEF Next

(* A pool with a window for each client serves each one that does not fail *)
(* from its own window, unless the first mask of that is in use.           *)
THEOREM EnoughMasksServe == Spec => []ServedWhenEnough
<1>1. Init => TypeOK /\ ServedWhenEnough
  BY TypeInit DEF Init, ServedWhenEnough
<1>2. TypeOK /\ ServedWhenEnough /\ [Next]_vars => (TypeOK /\ ServedWhenEnough)'
  BY TypeStep, ServedStep
<1> QED BY <1>1, <1>2, PTL DEF Spec

-----------------------------------------------------------------------------
(* Walks of aligned prefixes.                                              *)

(* A number below w = q * m is split by q, and a multiple of q below w     *)
(* leaves room for q - 1 more.                                             *)
LEMMA Blocks ==
  ASSUME NEW q \in Nat \ {0}, NEW m \in Nat, NEW a \in Nat, a < q * m,
         a % q = 0
  PROVE  /\ a + q <= q * m
         /\ \A j \in 0 .. q - 1 : (a + j) \div q = a \div q
         /\ \A b \in Nat : b \div q = a \div q => b - a \in 0 .. q - 1
<1> DEFINE d == a \div q
<1>1. d \in Nat /\ a = q * d
  BY SMT
<1> HIDE DEF d
<1>2. d < m
  <2>1. CASE d >= m
    <3>1. PICK e \in Nat : d = m + e
      <4>1. d - m \in Nat /\ d = m + (d - m)
        BY <1>1, <2>1
      <4> QED BY <4>1
    <3>2. q * d = q * m + q * e /\ q * e >= 0
      BY <3>1
    <3> QED BY <1>1, <3>2
  <2> QED BY <1>1, <2>1
<1>3. a + q <= q * m
  <2>1. PICK e \in Nat : m = (d + 1) + e
    <3>1. m - (d + 1) \in Nat /\ m = (d + 1) + (m - (d + 1))
      BY <1>1, <1>2
    <3> QED BY <3>1
  <2>2. q * m = q * d + q + q * e /\ q * e >= 0
    BY <1>1, <2>1
  <2> QED BY <1>1, <2>2
<1>4. ASSUME NEW j \in 0 .. q - 1 PROVE (a + j) \div q = d
  BY <1>1, SMT
<1>5. ASSUME NEW b \in Nat, b \div q = d PROVE b - a \in 0 .. q - 1
  BY <1>1, <1>5, SMT
<1> QED BY <1>3, <1>4, <1>5 DEF d

(* What Aligned() says of the numbers in a prefix.                         *)
LEMMA AlignedIs ==
  ASSUME NEW p \in ipv6_prefix, Aligned(p), NEW zeros, zeros = AddrBits - p.len
  PROVE  /\ zeros \in 0 .. WordBits - 1
         /\ 2^zeros \in Nat \ {0}
         /\ get_addr6_count(p) = 2^zeros
         /\ p.address[4] + 2^zeros <= 2^WordBits
         /\ \A j \in 0 .. 2^zeros - 1 :
              (p.address[4] + j) \div 2^zeros = p.address[4] \div 2^zeros
         /\ \A b \in Nat : b \div 2^zeros = p.address[4] \div 2^zeros =>
              b - p.address[4] \in 0 .. 2^zeros - 1
<1> DEFINE q == 2^zeros
           w == 2^WordBits
           m == 2^(WordBits - zeros)
           a == p.address[4]
<1>1. zeros \in 0 .. WordBits - 1 /\ WordBits \in Nat \ {0}
  BY TypesAssumption DEF Aligned, ipv6_prefix, AddrBits
<1>2. q \in Nat \ {0} /\ w = q * m /\ q < w
  BY <1>1, PowersAssumption
<1>3. m \in Nat
  <2>1. WordBits - zeros \in 0 .. WordBits
    BY <1>1
  <2> QED BY <2>1, PowersAssumption
<1>4. w \in Nat
  BY TypesAssumption
<1>5. a \in Nat /\ a < w
  <2>1. a \in 0 .. w - 1
    BY DEF ipv6_prefix, in6_addr, Word
  <2> HIDE DEF a, w
  <2> QED BY <1>4, <2>1
<1>6. a % q = 0
  BY DEF Aligned
<1>7. get_addr6_count(p) = q
  <2>1. ShiftCount(zeros, WordBits) = zeros
    BY <1>1 DEF ShiftCount
  <2>2. get_addr6_count(p) = Uint(q)
    BY <2>1 DEF get_addr6_count
  <2> QED BY <1>2, <2>2, UintSmall
<1> HIDE DEF q, w, m, a
<1>8. /\ a + q <= q * m
      /\ \A j \in 0 .. q - 1 : (a + j) \div q = a \div q
      /\ \A b \in Nat : b \div q = a \div q => b - a \in 0 .. q - 1
  BY <1>2, <1>3, <1>5, <1>6, Blocks
<1>9. q \in Nat \ {0} /\ a + q <= w
  BY <1>2, <1>8
<1> QED BY <1>1, <1>7, <1>8, <1>9 DEF q, w, a

(* The walk of an aligned prefix takes no carry: it counts in the last     *)
(* word.                                                                   *)
LEMMA AlignedWalk ==
  ASSUME NEW p \in ipv6_prefix, Aligned(p)
  PROVE  /\ DOMAIN Walk(p) = 1 .. 2^(AddrBits - p.len)
         /\ \A i \in DOMAIN Walk(p) :
              Walk(p)[i] = [p.address EXCEPT ![4] = @ + (i - 1)]
<1> DEFINE q == 2^(AddrBits - p.len)
           w == 2^WordBits
           At(j) == [p.address EXCEPT ![4] = @ + j]
           S == {j \in 0 .. q - 1 : Walk(p)[j + 1] = At(j)}
<1>1. q \in Nat \ {0} /\ w \in Nat /\ p.address[4] + q <= w
  BY AlignedIs, TypesAssumption
<1>2. DOMAIN Walk(p) = 1 .. q
  BY AlignedIs, WalkIs
<1>a. p.address \in [1 .. 4 -> Int]
  <2>1. w \in Nat /\ Word = 0 .. w - 1
    BY TypesAssumption DEF Word
  <2> HIDE DEF w
  <2>2. Word \subseteq Int
    BY <2>1
  <2> QED BY <2>2 DEF ipv6_prefix, in6_addr
<1> HIDE DEF q, w
<1>3. 0 \in S
  <2>1. 1 \in DOMAIN Walk(p) /\ 0 \in 0 .. q - 1
    BY <1>1, <1>2
  <2>2. Walk(p)[1] = p.address
    BY <2>1, WalkIs
  <2>3. At(0) = p.address
    BY <1>a
  <2> QED BY <2>1, <2>2, <2>3
<1>4. ASSUME NEW n \in 0 .. q - 1, n \in S, n < q - 1 PROVE n + 1 \in S
  <2>1. /\ n + 1 \in Nat /\ n + 1 \in DOMAIN Walk(p)
        /\ (n + 1) + 1 \in DOMAIN Walk(p) /\ n + 1 \in 0 .. q - 1
    BY <1>1, <1>2, <1>4
  <2>2. Walk(p)[(n + 1) + 1] = addr6_iterations(At(n))
    BY <1>4, <2>1, WalkIs
  <2>3. At(n)[4] # MAXipv6
    <3>1. At(n)[4] = p.address[4] + n /\ p.address[4] \in Int
      BY <1>a
    <3>2. MAXipv6 = w - 1
      BY DEF MAXipv6, w
    <3> QED BY <1>1, <1>4, <3>1, <3>2
  <2>4. addr6_iterations(At(n)) = [At(n) EXCEPT ![4] = @ + 1]
    BY <2>3 DEF addr6_iterations
  <2>5. [At(n) EXCEPT ![4] = @ + 1] = At(n + 1)
    BY <1>a
  <2> QED BY <2>1, <2>2, <2>4, <2>5
<1>5. 0 .. q - 1 \subseteq S
  <2>1. q - 1 \in Nat
    BY <1>1
  <2> HIDE DEF S
  <2> QED BY <1>3, <1>4, <2>1, Upwards
<1>6. ASSUME NEW i \in 1 .. q PROVE Walk(p)[i] = At(i - 1)
  <2>1. i - 1 \in S /\ (i - 1) + 1 = i
    BY <1>1, <1>5
  <2> HIDE DEF At
  <2> QED BY <2>1
<1> QED BY <1>2, <1>6 DEF q

LEMMA AlignedZeros ==
  ASSUME NEW p \in ipv6_prefix, Aligned(p)
  PROVE  ShiftCount(AddrBits - p.len, 2 * WordBits) = AddrBits - p.len
BY TypesAssumption DEF Aligned, ShiftCount, ipv6_prefix, AddrBits

(* The walk of an aligned prefix stays within the prefix.                  *)
LEMMA WalkedIsContained ==
  ASSUME NEW p \in ipv6_prefix, Aligned(p), NEW i \in DOMAIN Walk(p)
  PROVE  prefix_contains(p, Walk(p)[i])
<1> DEFINE q == 2^(AddrBits - p.len)
           a == Walk(p)[i]
<1>1. /\ q \in Nat \ {0}
      /\ \A j \in 0 .. q - 1 : (p.address[4] + j) \div q = p.address[4] \div q
  BY AlignedIs
<1>2. i \in 1 .. q /\ a = [p.address EXCEPT ![4] = @ + (i - 1)]
  BY AlignedWalk
<1>3. i - 1 \in 0 .. q - 1
  BY <1>1, <1>2
<1>4. p.address \in [1 .. 4 -> Word]
  BY DEF ipv6_prefix, in6_addr
<1>5. a[4] = p.address[4] + (i - 1) /\ \A v \in 1 .. 3 : a[v] = p.address[v]
  BY <1>2, <1>4
<1> HIDE DEF q, a
<1>6. \A v \in 1 .. 4 : p.address[v] \div q = a[v] \div q
  BY <1>1, <1>3, <1>5
<1> QED BY <1>6, AlignedZeros DEF prefix_contains, q, a

(* An address an aligned prefix contains is walked, if the words before    *)
(* the last agree: under the mask these are compared without their low     *)
(* bits.                                                                   *)
LEMMA ContainedIsWalked ==
  ASSUME NEW p \in ipv6_prefix, Aligned(p), NEW b \in in6_addr,
         prefix_contains(p, b), \A v \in 1 .. 3 : p.address[v] = b[v]
  PROVE  \E i \in DOMAIN Walk(p) : Walk(p)[i] = b
<1> DEFINE q == 2^(AddrBits - p.len)
           j == b[4] - p.address[4]
<1>1. p.address \in [1 .. 4 -> Nat] /\ b \in [1 .. 4 -> Nat]
  <2> DEFINE w == 2^WordBits
  <2>1. w \in Nat /\ Word = 0 .. w - 1
    BY TypesAssumption DEF Word
  <2> HIDE DEF w
  <2>2. Word \subseteq Nat
    BY <2>1
  <2> QED BY <2>2 DEF ipv6_prefix, in6_addr
<1>2. p.address[4] \div q = b[4] \div q
  BY AlignedZeros DEF prefix_contains
<1>3. q \in Nat \ {0} /\ j \in 0 .. q - 1
  BY <1>1, <1>2, AlignedIs
<1>4. j + 1 \in 1 .. q
  BY <1>3
<1>5. Walk(p)[j + 1] = [p.address EXCEPT ![4] = @ + ((j + 1) - 1)] /\ j + 1 \in DOMAIN Walk(p)
  BY <1>4, AlignedWalk
<1>6. p.address[4] + ((j + 1) - 1) = b[4]
  BY <1>1
<1>7. [p.address EXCEPT ![4] = @ + ((j + 1) - 1)] = b
  <2>1. [p.address EXCEPT ![4] = b[4]] = b
    BY <1>1
  <2> HIDE DEF j
  <2> QED BY <1>6, <2>1
<1> QED BY <1>5, <1>7

LEMMA FoundStep == TypeOK /\ AlignedFound /\ [Next]_vars => AlignedFound'
<1> SUFFICES ASSUME TypeOK, AlignedFound, [Next]_vars,
                    answer' # NoAnswer, answer'.err = -ESRCH,
                    \A k \in DOMAIN clients' : Aligned(clients'[k])
             PROVE  ~client_addr_exist(clients', answer'.src)
  BY DEF AlignedFound
<1>t. TypeOK'
  BY TypeStep
<1>1. ASSUME NEW src \in Source, GetMaskEmptyPool(src) PROVE FALSE
  BY <1>1 DEF GetMaskEmptyPool, Answer, ESRCH
<1>2. ASSUME NEW src \in Source, GetMaskError(src)
      PROVE  ~client_addr_exist(clients', answer'.src)
  <2>1. /\ mask_domain_error(cpool, clients', src, masks_per_client) = -ESRCH
        /\ answer'.src = src
    BY <1>2 DEF GetMaskError, Answer
  <2>2. Holding(clients', src) = {}
    BY <2>1 DEF mask_domain_error, ESRCH
  <2>3. ASSUME NEW k \in DOMAIN clients', NEW i \in DOMAIN Walk(clients'[k]),
               Walk(clients'[k])[i] = src
        PROVE  FALSE
    <3>1. clients'[k] \in ipv6_prefix
      BY <1>t, ClientIsPrefix DEF TypeOK
    <3>2. prefix_contains(clients'[k], src)
      BY <2>3, <3>1, WalkedIsContained
    <3> QED BY <2>2, <3>2 DEF Holding
  <2> QED BY <2>1, <2>3 DEF client_addr_exist
<1>3. ASSUME NEW src \in Source, GetMaskServed(src) PROVE FALSE
  BY <1>3 DEF GetMaskServed, Answer, ESRCH
<1>4. ASSUME NEW e \in Entry, AddEntry(e) \/ RemoveEntry(e) PROVE FALSE
  BY <1>4 DEF AddEntry, Pool4Add, RemoveEntry, Pool4Rm
<1>5. ASSUME NEW p \in Prefix, AddClient(p) \/ DeleteClient(p) PROVE FALSE
  BY <1>5 DEF AddClient, ClientAdd, DeleteClient, ClientDelete
<1>6. CASE FlushEntries \/ FlushClients
  BY <1>6 DEF FlushEntries, Pool4Flush, FlushClients, ClientFlush
<1>7. CASE UNCHANGED vars
  BY <1>7 DEF vars, AlignedFound
<1> QED BY <1>1, <1>2, <1>3, <1>4, <1>5, <1>6, <1>7 DEF Next

(* While every prefix is aligned, -ESRCH is never the answer for an        *)
(* address that client_addr_exist() finds.                                 *)
THEOREM AlignedClientsAreFound == Spec => []AlignedFound
<1>1. Init => TypeOK /\ AlignedFound
  BY TypeInit DEF Init, AlignedFound
<1>2. TypeOK /\ AlignedFound /\ [Next]_vars => (TypeOK /\ AlignedFound)'
  BY TypeStep, FoundStep
<1> QED BY <1>1, <1>2, PTL DEF Spec

LEMMA WalkerFromInv == IInv => GrantedToWalker
<1> SUFFICES ASSUME IInv, NEW g \in grants, Aligned(clients[g.place]),
                    \A v \in 1 .. 3 : clients[g.place].address[v] = g.src[v]
             PROVE  client_addr_exist(<<clients[g.place]>>, g.src)
  BY DEF GrantedToWalker
<1> DEFINE p == clients[g.place]
<1>1. g.place \in DOMAIN clients /\ prefix_contains(p, g.src)
  BY DEF IInv, GrantsCurrent, Holding
<1>2. p \in ipv6_prefix
  BY <1>1, ClientIsPrefix DEF IInv, TypeOK
<1>3. g.src \in in6_addr
  BY DatabasesAssumption DEF IInv, TypeOK
<1>4. \E i \in DOMAIN Walk(p) : Walk(p)[i] = g.src
  BY <1>1, <1>2, <1>3, ContainedIsWalked
<1>5. 1 \in DOMAIN <<p>> /\ <<p>>[1] = p
  OBVIOUS
<1> HIDE DEF p
<1>6. client_addr_exist(<<p>>, g.src)
  BY <1>4, <1>5 DEF client_addr_exist
<1> QED BY <1>6 DEF p

(* An aligned client whose window a source of its own block was given is   *)
(* one that walks the source.                                              *)
THEOREM GrantsGoToWalkers == Spec => []GrantedToWalker
<1>1. Init => IInv
  BY TypeInit, GrantsInit DEF IInv
<1>2. IInv /\ [Next]_vars => IInv'
  BY TypeStep, GrantsStep DEF IInv
<1> QED BY <1>1, <1>2, WalkerFromInv, PTL DEF Spec
=============================================================================
