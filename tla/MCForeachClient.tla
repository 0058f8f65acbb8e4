-------------------------- MODULE MCForeachClient ---------------------------
(* Small instances of ForeachClient with words of four bits: a walk that   *)
(* stays on the last address, one of half as many addresses as a word      *)
(* counts, which carries into the next word, and a prefix whose size is    *)
(* shifted out.                                                            *)
EXTENDS ForeachClient

MCPrefix ==
  {[address |-> <<0, 0, 0, 5>>, len |-> 16],
   [address |-> <<0, 15, 15, 14>>, len |-> 14],
   [address |-> <<0, 0, 2, 12>>, len |-> 13],
   [address |-> <<0, 0, 4, 0>>, len |-> 12]}
=============================================================================
