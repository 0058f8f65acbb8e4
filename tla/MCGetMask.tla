----------------------------- MODULE MCGetMask -----------------------------
(* Small instances of GetMask: addresses are written by their low word.    *)
EXTENDS GetMask

Addr(n) == <<0, 0, 0, n>>

MCPrefix ==
  {[address |-> Addr(2), len |-> 15],      \* two aligned addresses, 2 and 3
   [address |-> Addr(5), len |-> 15],      \* walks 5 and 6, contains 4 and 5
   [address |-> Addr(3), len |-> 16]}

MCSource == {Addr(3), Addr(6), Addr(9)}

PortRange(addr, min, max) ==
  [mark |-> 0, proto |-> 6, addr |-> addr, min |-> min, max |-> max]

(* A range of two ports, one that overlaps it, one of another address, and *)
(* one whose ends are swapped.                                             *)
MCEntry == {PortRange(1, 0, 1), PortRange(1, 1, 2), PortRange(2, 2, 2), PortRange(2, 3, 1)}
=============================================================================
