------------------------------ MODULE Windows ------------------------------
(***************************************************************************)
(* How masks are found for a client.  client_get_mask_domain() numbers the *)
(* client whose prefix holds an address by its place in the client list,   *)
(* and gives it the window of masks_per_client masks that has the same     *)
(* number in the pool; get_mask() and pool4_get_nth_taddr() then look for  *)
(* masks of the window in the pool.                                        *)
(***************************************************************************)
EXTENDS Databases

(***************************************************************************)
(* get_mask() first.  The client list it works on: an address that is not  *)
(* walked by any prefix is appended as a prefix of its own, and if that    *)
(* fails the failure is not looked at.                                     *)
(***************************************************************************)
KnownClients(src) ==
  IF client_addr_exist(clients, src) THEN {clients}
  ELSE {IF ok THEN client_add(clients, dynamic_prefix(src)) ELSE clients :
          ok \in MayAllocate(clients, MaxClients)}

(***************************************************************************)
(* The domains client_get_mask_domain() may leave in the mask_domain of    *)
(* get_mask() for the client at place k.  When the pool has no window of   *)
(* that number the variable of get_mask's stack frame is not written, so   *)
(* that its first mask is any mask of the pool, or none of them.           *)
(***************************************************************************)
DomainSet(pool, k, mpc) ==
  {[set |-> TRUE, at |-> {TaddrOf(pool, s)}] : s \in DomainStart(pool, k-1, mpc)}

DomainUnset(pool) ==
  {[set |-> FALSE, at |-> {}]} \cup
  {[set |-> FALSE, at |-> {m}] : m \in Taddrs(pool)}

get_mask_domain(pool, k, mpc) ==
  IF DomainStart(pool, k-1, mpc) # {} THEN DomainSet(pool, k, mpc)
  ELSE DomainUnset(pool)

(***************************************************************************)
(* The loop of get_mask(): it stops at the masks equal to the domain's     *)
(* first one only, and takes it unless it is in use.                       *)
(***************************************************************************)
Free(dom) == {m \in dom.at : ~bibdb_contains4(m)}

(* The mask get_spool_mask() stores: 0.0.0.0 port 0.                       *)
Spool == [l3 |-> 0, l4 |-> 0]

(* Mutation: the first port of a range left out.                           *)
HoldingAfterMin(pool, dom) ==
  {k \in DOMAIN pool : /\ pool[k].addr = dom.first.l3
                       /\ pool[k].min < dom.first.l4
                       /\ pool[k].max > dom.first.l4}

(***************************************************************************)
(* pool4_get_nth_taddr().  The loops skip entries until one is found whose *)
(* range holds the domain's first port, the last port of the range left    *)
(* out by the comparison; from there on they visit the rest of that range  *)
(* and all of the following ones, step ports at a time.                    *)
(***************************************************************************)
HoldingFirst(pool, dom) ==
  {k \in DOMAIN pool : /\ pool[k].addr = dom.first.l3
                       /\ pool[k].min <= dom.first.l4
                       /\ pool[k].max > dom.first.l4}

(* Mutation: every range entered at the port of the first one.             *)
VisitedFromFirst(pool, dom) ==
  LET k == First(HoldingFirst(pool, dom))
  IN  {s \in Slots(pool) : /\ s[1] >= k
                           /\ s[2] >= dom.first.l4
                           /\ (s[2] - dom.first.l4) % dom.step = 0}

Visited(pool, dom) ==
  LET k == First(HoldingFirst(pool, dom))
      start(j) == IF j = k THEN dom.first.l4 ELSE pool[j].min
  IN  {s \in Slots(pool) : /\ s[1] >= k
                           /\ s[2] >= start(s[1])
                           /\ (s[2] - start(s[1])) % dom.step = 0}

(* The slot at which the countdown of n reaches zero.                      *)
NthVisited(pool, dom, n) ==
  LET turns == Visited(pool, dom)
  IN  {s \in turns : Cardinality({t \in turns : Precedes(t, s)}) = n}

(* Mutation: n not reduced modulo the width of the window.                 *)
get_nth_taddr_unreduced(pool, dom, n) ==
  IF HoldingFirst(pool, dom) = {} THEN {}
  ELSE {TaddrOf(pool, s) : s \in NthVisited(pool, dom, n)}

(* Mutation: the first mask answered without a look at the pool.           *)
get_nth_taddr_blind(pool, dom, n) ==
  IF n % dom.count = 0 THEN {dom.first}
  ELSE IF HoldingFirst(pool, dom) = {} THEN {}
  ELSE {TaddrOf(pool, s) : s \in NthVisited(pool, dom, n % dom.count)}

(* The masks the function may store in *result; with none it returns       *)
(* -ESRCH.                                                                 *)
get_nth_taddr(pool, dom, n) ==
  IF HoldingFirst(pool, dom) = {} THEN {}
  ELSE {TaddrOf(pool, s) : s \in NthVisited(pool, dom, n % dom.count)}
=============================================================================
