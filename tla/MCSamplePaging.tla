--------------------------- MODULE MCSamplePaging ---------------------------
(* Small instances of SamplePaging: three entries, two of one address, and *)
(* three prefixes, two of one address.                                     *)
EXTENDS SamplePaging

PortRange(addr, min, max) ==
  [mark |-> 0, proto |-> 6, addr |-> addr, min |-> min, max |-> max]

MCEntry == {PortRange(1, 0, 1), PortRange(1, 2, 3), PortRange(2, 0, 1)}

MCPrefix ==
  {[address |-> <<0, 0, 0, 2>>, len |-> 19],
   [address |-> <<0, 0, 0, 2>>, len |-> 20],
   [address |-> <<0, 0, 0, 7>>, len |-> 20]}
=============================================================================
