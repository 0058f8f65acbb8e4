---------------------------- MODULE MCMaskDomain ----------------------------
(* Small instances of MaskDomain: addresses are written by their low word. *)
EXTENDS MaskDomain

Addr(n) == <<0, 0, 0, n>>

(* A client of two addresses, and one that is the second of them.          *)
MCPrefix == {[address |-> Addr(2), len |-> 15], [address |-> Addr(3), len |-> 16]}

MCSource == {Addr(2), Addr(3)}

PortRange(addr, min, max) ==
  [mark |-> 0, proto |-> 6, addr |-> addr, min |-> min, max |-> max]

(* Three ports, one port of the same address, and two of another.          *)
MCEntry == {PortRange(1, 0, 2), PortRange(1, 3, 3), PortRange(2, 1, 2)}
=============================================================================
