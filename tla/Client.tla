------------------------------- MODULE Client -------------------------------
(***************************************************************************)
(* The client database (client.c): a list of IPv6 prefixes.  Two questions *)
(* are asked of it about an address, and they are answered differently:    *)
(* client_addr_exist() walks the addresses of a prefix one by one from the *)
(* address written in it, while prefix_contains() compares under a mask.   *)
(***************************************************************************)
EXTENDS Types, FiniteSetsExt

CONSTANT Prefix   (* The prefixes that are ever added or removed.           *)

ASSUME ClientAssumption == Prefix \subseteq ipv6_prefix

(* 1 << (AddrBits - len), whose operand is a WordBits-wide int.            *)
get_addr6_count(prefix) ==
  Uint(2^ShiftCount(AddrBits - prefix.len, WordBits))

client_count(list) ==
  Uint(MapThenSumSet(LAMBDA k : get_addr6_count(list[k]), DOMAIN list))

(* Mutation: the slip of the last branch of the code made in the second:   *)
(* the low word is tested twice, so the carry never reaches word 3.        *)
NoCarry(a) == IF a[4] # MAXipv6 THEN [a EXCEPT ![4] = @ + 1] ELSE a

(***************************************************************************)
(* The successor of an address.  The last branch of the code tests word 1  *)
(* a second time, so word 0 never takes a carry and the address with three *)
(* full low words is its own successor.                                    *)
(***************************************************************************)
addr6_iterations(a) ==
  IF a[4] # MAXipv6 THEN [a EXCEPT ![4] = @ + 1]
  ELSE IF a[3] # MAXipv6 THEN [a EXCEPT ![4] = 0, ![3] = @ + 1]
  ELSE IF a[2] # MAXipv6 THEN [a EXCEPT ![4] = 0, ![3] = 0, ![2] = @ + 1]
  ELSE a

(* Mutation: the address advanced before it is compared.                   *)
WalkAhead(prefix) ==
  LET turns == get_addr6_count(prefix)
      at[i \in 0..turns] ==
        IF i = 0 THEN prefix.address ELSE addr6_iterations(at[i-1])
  IN  [i \in 1..turns |-> at[i]]

(* The addresses a loop over get_addr6_count() turns visits, in order.     *)
Walk(prefix) ==
  LET turns == get_addr6_count(prefix)
      at[i \in 0..turns] ==
        IF i = 0 THEN prefix.address ELSE addr6_iterations(at[i-1])
  IN  [i \in 1..turns |-> at[i-1]]

client_addr_exist(list, addr) ==
  \E k \in DOMAIN list :
    LET w == Walk(list[k]) IN \E i \in DOMAIN w : w[i] = addr

(* Mutation: the prefix compared with the address as a whole.              *)
prefix_contains_exact(prefix, addr) == prefix.address = addr

(***************************************************************************)
(* The mask is the low word of a 64-bit shift, so it has AddrBits - len    *)
(* low zeros, and the same mask is applied to all four words.  Comparing   *)
(* two words under it is comparing them without their low bits.            *)
(***************************************************************************)
prefix_contains(prefix, addr) ==
  LET zeros == ShiftCount(AddrBits - prefix.len, 2 * WordBits)
  IN  \A w \in 1..4 : prefix.address[w] \div 2^zeros = addr[w] \div 2^zeros

(* Mutation: list_add() for list_add_tail().                               *)
client_add_head(list, prefix) == <<prefix>> \o list

client_add(list, prefix) == Append(list, prefix)

(* The positions of the nodes that equal the prefix.                       *)
Matching(list, prefix) ==
  {k \in DOMAIN list : prefix6_equals(prefix, list[k])}

(* Only the first node that equals the prefix is unlinked.                 *)
client_delete(list, prefix) ==
  LET K == Matching(list, prefix)
  IN  IF K = {} THEN list ELSE RemoveNode(list, First(K))

client_exist(list, prefix) == Matching(list, prefix) # {}

client_flush(list) == << >>

(* The positions whose prefix contains the address, counted from 1.        *)
Holding(list, addr) == {k \in DOMAIN list : prefix_contains(list[k], addr)}
=============================================================================
