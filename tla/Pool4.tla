------------------------------- MODULE Pool4 -------------------------------
(***************************************************************************)
(* The pool4 database (pool4.c): a list of entries, each a range of ports  *)
(* of one IPv4 address.  The loops of the code run over the entries and,   *)
(* inside an entry, over its ports; a slot <<k, p>> is one turn of such a  *)
(* double loop, port p of the k-th entry.                                  *)
(***************************************************************************)
EXTENDS Types, FiniteSetsExt

CONSTANTS
  Entry,        (* The pool4 entries that are ever added or removed.         *)
  MaxPort       (* The largest __u16: 65535.                                 *)

ASSUME Pool4Assumption ==
  /\ MaxPort \in Nat
  /\ Entry \subseteq [mark : Nat, proto : Nat, addr : Nat,
                      min : 0..MaxPort, max : 0..MaxPort]

Slot == (Nat \ {0}) \X (0..MaxPort)

(* struct ipv4_transport_addr. *)
Taddr == [l3 : Nat, l4 : 0..MaxPort]

Slots(list) ==
  {s \in (DOMAIN list) \X (0..MaxPort) :
      list[s[1]].min <= s[2] /\ s[2] <= list[s[1]].max}

(* Slot t comes before slot s in the loops.                                *)
Precedes(t, s) == t[1] < s[1] \/ (t[1] = s[1] /\ t[2] < s[2])

Before(list, s) == {t \in Slots(list) : Precedes(t, s)}

(* The value of the code's counter when the loops reach slot s.            *)
Rank(list, s) == Cardinality(Before(list, s))

TaddrOf(list, s) == [l3 |-> list[s[1]].addr, l4 |-> s[2]]

Taddrs(list) == {TaddrOf(list, s) : s \in Slots(list)}

pool4_equals(one, two) ==
  /\ one.mark = two.mark
  /\ one.proto = two.proto
  /\ one.addr = two.addr
  /\ one.max = two.max
  /\ one.min = two.min

pool4_compare(one, two) == one.proto = two.proto /\ one.addr = two.addr

(* Mutation: list_add() for list_add_tail().                               *)
pool4_add_head(list, e) == <<e>> \o list

(* Mutation: range->min copied twice.                                      *)
pool4_add_min(list, e) == Append(list, [e EXCEPT !.max = e.min])

pool4_add(list, e) == Append(list, e)

(* Every node that equals e is unlinked and freed.                         *)
pool4_rm(list, e) ==
  SelectAt(list, {k \in DOMAIN list : ~pool4_equals(e, list[k])})

pool4_flush(list) == << >>

pool4_is_empty(list) == list = << >>

pool4_contains(list, e) == \E k \in DOMAIN list : pool4_compare(e, list[k])

(* Unsigned arithmetic: a range with min > max + 1 wraps around.           *)
pool4_count(list) ==
  Uint(MapThenSumSet(LAMBDA k : list[k].max - list[k].min + 1, DOMAIN list))

(* The masks of two slots differ whenever the slots do.                    *)
NoOverlap(list) ==
  \A s, t \in Slots(list) : TaddrOf(list, s) = TaddrOf(list, t) => s = t

(* Mutation: ports_pos compared with <= instead of ==.                     *)
DomainStartFrom(list, ipv6_pos, masks_per_client) ==
  {s \in Slots(list) : /\ Rank(list, s) % masks_per_client = 0
                       /\ Rank(list, s) >= ipv6_pos * masks_per_client}

(* Mutation: windows numbered from 1 instead of 0.                         *)
DomainStartNext(list, ipv6_pos, masks_per_client) ==
  {s \in Slots(list) : Rank(list, s) = (ipv6_pos + 1) * masks_per_client}

(***************************************************************************)
(* The slots at which pool4_taddr4_find_pos() assigns *result: every       *)
(* masks_per_client-th slot starts a domain, and the domain numbered       *)
(* ipv6_pos is the one wanted.  At most one slot qualifies; when none does *)
(* the function still returns 0 and leaves *result as it was.              *)
(***************************************************************************)
DomainStart(list, ipv6_pos, masks_per_client) ==
  {s \in Slots(list) : Rank(list, s) = ipv6_pos * masks_per_client}

(***************************************************************************)
(* A mask is in use when its port is odd: bibdb_contains4() is a stub.     *)
(***************************************************************************)
bibdb_contains4(taddr) == taddr.l4 % 2 = 1
=============================================================================
