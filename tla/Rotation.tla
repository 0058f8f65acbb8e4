----------------------------- MODULE Rotation ------------------------------
(***************************************************************************)
(* What the two iterators of the databases, pool4_foreach_taddr4() and     *)
(* client_for_each(), promise: starting from the item the offset points    *)
(* at, and going on from the first item after the last one, every item is  *)
(* handed to the callback once, until the callback returns an error.  The  *)
(* databases count their items in an unsigned int.  A count that is not    *)
(* the number of items costs the starting point, never an item; a count of *)
(* zero leaves no remainder to take of the offset.  Where the iteration    *)
(* does not go around, the items before the starting point are left out,   *)
(* and no others.                                                          *)
(***************************************************************************)
EXTENDS Integers, Sequences

VARIABLES
  items,     (* The masks, or the addresses, in list order.                  *)
  count,     (* The number of items, as the database counts them.            *)
  request,   (* The offset the caller passed.                                *)
  whole,     (* Whether the iteration goes around.                           *)
  visited,   (* What the callback was called with, in order.                 *)
  status     (* "running", "done", "stopped" by the callback, or "trap".     *)

vars == <<items, count, request, whole, visited, status>>

Init ==
  /\ request \in Nat
  /\ visited = << >>
  /\ status = "running"

(* Where the iteration may start.                                          *)
Starts ==
  IF count = Len(items) THEN {request % count} ELSE 0 .. Len(items) - 1

(* The first n items from a starting point on and around.                  *)
Around(start, n) ==
  LET all == items
  IN  [j \in 1..n |-> all[((start + j - 1) % Len(all)) + 1]]

Visit ==
  /\ Len(visited) < Len(items)
  /\ \E start \in Starts :
       /\ whole \/ start + Len(visited) < Len(items)
       /\ visited = Around(start, Len(visited))
       /\ visited' = Around(start, Len(visited) + 1)
  /\ status' \in {"running", "stopped"}

(* All of the items, or all from the starting point on, were handed out.   *)
Finish ==
  /\ status' = "done" /\ visited' = visited
  /\ \/ Len(visited) = Len(items)
     \/ ~whole /\ \E start \in Starts :
                    visited = Around(start, Len(items) - start)

Trap == count = 0 /\ status' = "trap" /\ visited' = visited

Next ==
  /\ status = "running"
  /\ Visit \/ Finish \/ Trap
  /\ UNCHANGED <<items, count, request, whole>>

(* The call returns, if only by a trap.                                    *)
Returns == <>(status # "running")

Safety == Init /\ [][Next]_vars

Spec == Safety /\ Returns
=============================================================================
