--------------------------- MODULE MCForeachTaddr ---------------------------
(* Small instances of ForeachTaddr: ranges of one, two and four ports, two *)
(* of the last filling the count of a word of 3 bits, and a range that is  *)
(* upside down, whose size is counted as -1.                               *)
EXTENDS ForeachTaddr

PortRange(addr, min, max) ==
  [mark |-> 0, proto |-> 6, addr |-> addr, min |-> min, max |-> max]

MCEntry ==
  {PortRange(1, 0, 1), PortRange(1, 3, 3), PortRange(2, 0, 0),
   PortRange(1, 0, 3), PortRange(2, 3, 1)}
=============================================================================
