----------------------------- MODULE Databases -----------------------------
(***************************************************************************)
(* The two databases side by side, as get_mask() and                       *)
(* client_get_mask_domain() are handed them, and the calls that edit them. *)
(***************************************************************************)
EXTENDS Pool4, Client

CONSTANTS
  Source,       (* The addresses that are asked about.                       *)
  MaxEntries,   (* Bound on the pool list; kmalloc fails beyond it.          *)
  MaxClients    (* Bound on the client list; kmalloc fails beyond it.        *)

ASSUME DatabasesAssumption ==
  /\ Source \subseteq in6_addr
  /\ MaxEntries \in Nat
  /\ MaxClients \in Nat

VARIABLES
  cpool,        (* The pool4 list, in list order.                            *)
  clients       (* The client list, in list order.                           *)

(* kmalloc may fail at any call, and does so once the bound is reached.    *)
MayAllocate(list, bound) == {ok \in BOOLEAN : ok => Len(list) < bound}

(* The prefix get_mask() makes of an address that no client has.           *)
dynamic_prefix(addr) == [address |-> addr, len |-> AddrBits]

Client == Prefix \cup {dynamic_prefix(a) : a \in Source}

(* Mutation: ESRCH returned for -ESRCH.                                    *)
mask_domain_error_sign(pool, list, addr, mpc) ==
  IF client_count(list) > pool4_count(pool) THEN 1
  ELSE IF Holding(list, addr) = {} THEN ESRCH
  ELSE IF mpc = 0 THEN 1
  ELSE 0

(* Mutation: clients and masks are not compared.                           *)
mask_domain_error_uncounted(pool, list, addr, mpc) ==
  IF Holding(list, addr) = {} THEN -ESRCH ELSE IF mpc = 0 THEN 1 ELSE 0

(***************************************************************************)
(* What client_get_mask_domain() returns: 0 when the search for the window *)
(* of the client's number is made, whether or not the pool has one.        *)
(***************************************************************************)
mask_domain_error(pool, list, addr, mpc) ==
  IF client_count(list) > pool4_count(pool) THEN 1
  ELSE IF Holding(list, addr) = {} THEN -ESRCH
  ELSE IF mpc = 0 THEN 1
  ELSE 0

(* The place of the client that holds an address, counted from 1.          *)
ClientPlace(list, addr) == First(Holding(list, addr))

-----------------------------------------------------------------------------
Pool4Add(e) ==
  /\ \E ok \in MayAllocate(cpool, MaxEntries) :
       cpool' = IF ok THEN pool4_add(cpool, e) ELSE cpool
  /\ UNCHANGED clients

Pool4Rm(e) == cpool' = pool4_rm(cpool, e) /\ UNCHANGED clients

Pool4Flush == cpool' = pool4_flush(cpool) /\ UNCHANGED clients

ClientAdd(p) ==
  /\ \E ok \in MayAllocate(clients, MaxClients) :
       clients' = IF ok THEN client_add(clients, p) ELSE clients
  /\ UNCHANGED cpool

ClientDelete(p) == clients' = client_delete(clients, p) /\ UNCHANGED cpool

ClientFlush == clients' = client_flush(clients) /\ UNCHANGED cpool

(* The client at a place that ClientDelete(p) leaves where it is.          *)
BeforeDeleted(place, p) ==
  Matching(clients, p) # {} => place < First(Matching(clients, p))
=============================================================================
