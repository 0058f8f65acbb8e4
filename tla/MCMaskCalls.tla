---------------------------- MODULE MCMaskCalls ----------------------------
(* Small instances of MaskCalls: addresses are written by their low word.  *)
EXTENDS MaskCalls

Addr(n) == <<0, 0, 0, n>>

MCPrefix ==
  {[address |-> Addr(3), len |-> 15],      \* walks 3 and 4, contains 2 and 3
   [address |-> Addr(7), len |-> 12]}      \* walks 7, contains every address

MCSource == {Addr(3), Addr(4)}

PortRange(addr, min, max) ==
  [mark |-> 0, proto |-> 6, addr |-> addr, min |-> min, max |-> max]

(* Two ports, one of them again as a range of its own, and three ports of  *)
(* another address.                                                        *)
MCEntry == {PortRange(1, 1, 2), PortRange(2, 0, 2), PortRange(1, 2, 2)}
=============================================================================
