--------------------------- MODULE ForeachClient ----------------------------
(***************************************************************************)
(* client_for_each(), one turn of its loops at a time.  Addresses are not  *)
(* stored: each pass produces them from the prefixes with                  *)
(* addr6_iterations().  The first pass counts the offset down to find its  *)
(* first address, the second counts up to the same place.  That place is   *)
(* kept in an int: when the reduced offset is half a word or more it is    *)
(* negative, and the second pass ends at its first turn.                   *)
(***************************************************************************)
EXTENDS Client, SequencesExt

CONSTANTS
  MaxClients,   (* Bound on the length of the list.                          *)
  MaxOffset     (* Bound on the offset the caller passes.                    *)

ASSUME ForeachClientAssumption == MaxClients \in Nat /\ MaxOffset \in Nat

VARIABLES
  list,              (* The client list; the callback does not edit it.      *)
  request,           (* The offset as it was passed.                         *)
  offset,            (* What is left of it to count down.                    *)
  client_index,      (* What it was before the countdown, in an int.         *)
  client_index_aux,  (* The count of the second pass.                        *)
  pass,              (* 0 before the loops, then 1 or 2.                     *)
  k, i,              (* The list node and the turn the loops are at.         *)
  dummy,             (* The address of that turn.                            *)
  visited,           (* The addresses handed to the callback.                *)
  status             (* "running", or how the function ended.                *)

vars == <<list, request, offset, client_index, client_index_aux, pass, k, i,
          dummy, visited, status>>

(* Mutation: dummy not set to the address of the next prefix.              *)
SameAddr(node) == dummy

(* The address the loop over a node begins with, unless the list has ended.*)
FirstAddr(node) == IF node \in DOMAIN list THEN list[node].address ELSE dummy

Init ==
  /\ list \in BoundedSeq(Prefix, MaxClients)
  /\ request \in 0 .. MaxOffset
  /\ offset = request
  /\ client_index = 0 /\ client_index_aux = 0
  /\ pass = 0 /\ k = 0 /\ i = 0
  /\ dummy = [w \in 1..4 |-> 0]
  /\ visited = << >>
  /\ status = "running"

BeginPass(p) ==
  /\ pass' = p
  /\ k' = 1
  /\ i' = 0
  /\ dummy' = FirstAddr(1)

(* Mutation: the offset not reduced.                                       *)
Unreduced(total_clients) == offset

Reduced(total_clients) == offset % total_clients

(* offset % total_clients, which traps when there are no clients.          *)
Reduce ==
  /\ pass = 0
  /\ LET total_clients == client_count(list)
     IN  IF total_clients = 0
         THEN /\ status' = "trap"
              /\ UNCHANGED <<offset, client_index, pass, k, i, dummy>>
         ELSE /\ offset' = Reduced(total_clients)
              /\ client_index' = AsInt(offset')
              /\ BeginPass(1)
              /\ UNCHANGED status
  /\ UNCHANGED <<client_index_aux, visited>>

InPrefix == k \in DOMAIN list /\ i < get_addr6_count(list[k])

CallBack ==
  /\ visited' = Append(visited, dummy)
  /\ \E error \in BOOLEAN : status' = IF error THEN "stopped" ELSE "running"

FirstPassTurn ==
  /\ pass = 1 /\ InPrefix
  /\ IF offset = 0 THEN CallBack /\ UNCHANGED offset
     ELSE offset' = offset - 1 /\ UNCHANGED <<visited, status>>
  /\ dummy' = addr6_iterations(dummy)
  /\ i' = i + 1
  /\ UNCHANGED <<client_index, client_index_aux, pass, k>>

(* Mutation: <= for <.                                                     *)
NotAhead == client_index_aux <= client_index

(* Both are ints: nothing is behind a negative index.                      *)
Behind == client_index_aux < client_index

SecondPassTurn ==
  /\ pass = 2 /\ InPrefix
  /\ IF Behind
     THEN /\ CallBack
          /\ dummy' = addr6_iterations(dummy)
          /\ i' = i + 1
          /\ client_index_aux' = client_index_aux + 1
     ELSE status' = "done" /\ UNCHANGED <<visited, dummy, i, client_index_aux>>
  /\ UNCHANGED <<offset, client_index, pass, k>>

(* Mutation: the node left by its last turn, also where it has none.       *)
NextAfterTurn ==
  /\ k \in DOMAIN list /\ ~InPrefix /\ i > 0
  /\ k' = k + 1
  /\ i' = 0
  /\ dummy' = FirstAddr(k + 1)
  /\ UNCHANGED <<offset, client_index, client_index_aux, pass, visited, status>>

NextClient ==
  /\ k \in DOMAIN list /\ ~InPrefix
  /\ k' = k + 1
  /\ i' = 0
  /\ dummy' = FirstAddr(k + 1)
  /\ UNCHANGED <<offset, client_index, client_index_aux, pass, visited, status>>

(* An offset that was not counted down to zero is an error.                *)
EndPass ==
  /\ pass # 0 /\ k > Len(list)
  /\ IF pass = 1 /\ offset = 0
     THEN BeginPass(2) /\ UNCHANGED status
     ELSE /\ status' = IF offset = 0 THEN "done" ELSE "esrch"
          /\ UNCHANGED <<pass, k, i, dummy>>
  /\ UNCHANGED <<offset, client_index, client_index_aux, visited>>

Next ==
  /\ status = "running"
  /\ Reduce \/ FirstPassTurn \/ SecondPassTurn \/ NextClient \/ EndPass
  /\ UNCHANGED <<list, request>>

(* The function runs to its end once it is called.                         *)
Spec == Init /\ [][Next]_vars /\ WF_vars(Next)

-----------------------------------------------------------------------------
(* The addresses of the database in list order, as client_addr_exist()     *)
(* walks them.                                                             *)
Addresses == FlattenSeq([n \in DOMAIN list |-> Walk(list[n])])

(* The offset after reduction, of a database that has clients.             *)
Start == request % client_count(list)

FitsInt == client_count(list) # 0 => AsInt(Start) = Start

Promise == INSTANCE Rotation
  WITH items <- Addresses, count <- client_count(list), whole <- FitsInt

(* client_for_each() hands the addresses to the callback once each, in     *)
(* list order, starting from the offset unless the count of the clients    *)
(* wraps around; it goes around to the addresses before the offset exactly *)
(* when the reduced offset fits the int it is kept in.                     *)
Rotates == Promise!Safety

(* It returns, prefixes of no address and of every address included.       *)
Returns == Promise!Returns

(* The loops stay on the list and never end with -ESRCH: an offset that    *)
(* was reduced is always counted down.                                     *)
TypeOK ==
  /\ list \in Seq(Prefix)
  /\ request \in 0 .. MaxOffset
  /\ offset \in 0 .. MaxOffset
  /\ client_index \in {AsInt(n) : n \in Word}
  /\ client_index_aux \in 0 .. IF client_index > 0 THEN client_index ELSE 0
  /\ pass \in 0 .. 2
  /\ k \in 0 .. MaxClients + 1
  /\ i \in Nat
  /\ dummy \in in6_addr
  /\ status \in {"running", "done", "stopped", "trap"}

(* What the callback sees is what the other functions of the database      *)
(* answer for: each address is found by client_addr_exist(), and a call    *)
(* that runs to its end calls the callback client_count() times, but for   *)
(* the bits that do not fit an unsigned int and, when the index turned out *)
(* negative, the addresses before the offset.                              *)
CountsAgree ==
  /\ status = "done" =>
       LET leftOut == IF client_index < 0 THEN Start ELSE 0
       IN  Uint(Len(visited) + leftOut) = client_count(list)
  /\ visited # << >> => client_addr_exist(list, Last(visited))

HeldBy(n, addr) == \E turn \in DOMAIN Walk(list[n]) : Walk(list[n])[turn] = addr

LowWordsFull(addr) == \A w \in 2 .. 4 : addr[w] = MAXipv6

(* In one call the callback sees an address again only where two nodes     *)
(* hold it, or where it is the one addr6_iterations() has no successor     *)
(* for: within a node the successors never come back to an earlier one.    *)
NoneRepeated ==
  \A turn \in 1 .. Len(visited) - 1 :
    visited[turn] = Last(visited) =>
      \/ LowWordsFull(Last(visited))
      \/ \E n, m \in DOMAIN list :
           n < m /\ HeldBy(n, Last(visited)) /\ HeldBy(m, Last(visited))

(* What the suite of client_for_each() asserts after a call with an offset *)
(* (nf_hook.c:1162-1165): every address of the database was handed over.   *)
MatchIn6Nodes ==
  status = "done" => \A n \in DOMAIN Addresses : Addresses[n] \in Range(visited)
=============================================================================
