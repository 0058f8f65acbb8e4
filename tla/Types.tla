------------------------------- MODULE Types -------------------------------
(***************************************************************************)
(* The value types the two databases share (types.h, prefixes.h), at a     *)
(* word width that is a parameter: __u32 and unsigned int have WordBits    *)
(* bits (32 in the code), and an IPv6 address is four such words, so that  *)
(* 128 in the code is AddrBits here.  Words hold what the CPU reads from   *)
(* s6_addr32[], after any byte swap done by cpu_to_be32().                 *)
(***************************************************************************)
EXTENDS Integers, Sequences, FiniteSets

CONSTANTS
  WordBits,     (* Bits of a __u32 and of an unsigned int: 32.               *)
  ShiftWraps    (* Shifting by the operand's width or more is undefined in   *)
                (* C: TRUE on a CPU that reduces the count modulo the width  *)
                (* (x86, arm64), FALSE on one that shifts everything out.    *)

ASSUME TypesAssumption ==
  /\ WordBits \in Nat \ {0}
  /\ 2^WordBits \in Nat /\ 2^WordBits > 1    \* the provers do not know of ^
  /\ ShiftWraps \in BOOLEAN

(* The same of the other sizes a shift makes: each divides the larger ones. *)
ASSUME PowersAssumption ==
  \A n \in 0 .. WordBits :
    /\ 2^n \in Nat \ {0}
    /\ 2^WordBits = 2^n * 2^(WordBits - n)
    /\ n < WordBits => 2^n < 2^WordBits

AddrBits == 4 * WordBits

Word == 0 .. 2^WordBits - 1

MAXipv6 == 2^WordBits - 1

(* What an unsigned int keeps of the integer n. *)
Uint(n) == n % 2^WordBits

(* What an int of the same width holds of the word n that is assigned to   *)
(* it: from half a word on it is negative.                                 *)
AsInt(n) == IF 2 * n < 2^WordBits THEN n ELSE n - 2^WordBits

(* The number of places an operand of width w bits is shifted by s.        *)
ShiftCount(s, w) ==
  IF s < w THEN s ELSE IF ShiftWraps THEN s % w ELSE w

in6_addr == [1..4 -> Word]

ipv6_prefix == [address : in6_addr, len : 0..AddrBits]

(* Two records are one prefix when both members agree.                     *)
prefix6_equals(p, q) == p.address = q.address /\ p.len = q.len

(* The errno values the code returns, negated.                             *)
ESRCH == 3
ENOMEM == 12

(***************************************************************************)
(* Nth and SelectAt: the elements of a sequence at the indices in K, in    *)
(* their order.  Deleting list nodes leaves such a sub-list.               *)
(***************************************************************************)
Nth(K, i) == CHOOSE k \in K : Cardinality({j \in K : j < k}) = i - 1

SelectAt(s, K) == [i \in 1..Cardinality(K) |-> s[Nth(K, i)]]

(* The list without its k-th node.                                         *)
RemoveNode(s, k) ==
  [i \in 1..(Len(s) - 1) |-> IF i < k THEN s[i] ELSE s[i+1]]

(* Mutation: a search without the break that ends it at the first match.   *)
LastMatch(K) == CHOOSE k \in K : \A j \in K : k >= j

(* The least element of a non-empty set of integers.                       *)
First(K) == CHOOSE k \in K : \A j \in K : k <= j
=============================================================================
