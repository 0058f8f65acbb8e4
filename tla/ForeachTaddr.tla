---------------------------- MODULE ForeachTaddr ----------------------------
(***************************************************************************)
(* pool4_foreach_taddr4(), one turn of its loops at a time: two passes     *)
(* over the entries and their ports with a running index, the first for    *)
(* the masks from the offset on, the second for the ones before it.        *)
(***************************************************************************)
EXTENDS Pool4, SequencesExt

CONSTANTS
  MaxEntries,   (* Bound on the length of the list.                          *)
  MaxOffset     (* Bound on the offset the caller passes.                    *)

ASSUME ForeachTaddrAssumption == MaxEntries \in Nat /\ MaxOffset \in Word

VARIABLES
  list,         (* The pool4 list; the callback does not edit it.            *)
  request,      (* The offset as it was passed.                              *)
  offset,       (* The offset after reduction.                               *)
  pass,         (* 0 before the loops, then 1 or 2.                          *)
  k, i,         (* The list node and the port the loops are at.              *)
  indx,         (* The running index.                                        *)
  visited,      (* The masks handed to the callback.                         *)
  status        (* "running", or how the function ended.                     *)

vars == <<list, request, offset, pass, k, i, indx, visited, status>>

mask(node, port) ==
  [mark |-> list[node].mark, proto |-> list[node].proto,
   addr |-> list[node].addr, port |-> port]

(* Mutation: the port not set to range.min when a range is entered.        *)
PortZero(node) == 0

(* The first port of a node, unless the list has ended.                    *)
FirstPort(node) == IF node \in DOMAIN list THEN list[node].min ELSE 0

(* Bound: the index, a word, tells the masks of the list apart.            *)
Numbered == Cardinality(Slots(list)) <= 2^WordBits

Init ==
  /\ list \in BoundedSeq(Entry, MaxEntries)
  /\ Numbered
  /\ request \in 0 .. MaxOffset
  /\ offset = request
  /\ pass = 0
  /\ k = 0 /\ i = 0 /\ indx = 0
  /\ visited = << >>
  /\ status = "running"

(* Mutation: the index not reset before the second pass.                   *)
BeginPassKeepingIndex(p) ==
  /\ pass' = p
  /\ k' = 1
  /\ i' = FirstPort(1)
  /\ indx' = indx

BeginPass(p) ==
  /\ pass' = p
  /\ k' = 1
  /\ i' = FirstPort(1)
  /\ indx' = 0

(* Mutation: >= for >.                                                     *)
NotBelow(entries) == offset >= entries

Beyond(entries) == offset > entries

(* The offset is reduced, which traps when the count is 0.                 *)
Reduce ==
  /\ pass = 0
  /\ LET entries == pool4_count(list)
     IN  IF Beyond(entries) /\ entries = 0
         THEN status' = "trap" /\ UNCHANGED <<offset, pass, k, i, indx>>
         ELSE /\ offset' = IF Beyond(entries) THEN offset % entries ELSE offset
              /\ BeginPass(1)
              /\ UNCHANGED status
  /\ UNCHANGED visited

(* Mutation: the second pass goes one mask too far.                        *)
WantedThrough == IF pass = 1 THEN indx >= offset ELSE indx <= offset

Wanted == IF pass = 1 THEN indx >= offset ELSE indx < offset

(* One turn of the inner loop of either pass.                              *)
Turn ==
  /\ k \in DOMAIN list
  /\ i <= list[k].max
  /\ IF Wanted
     THEN /\ visited' = Append(visited, mask(k, i))
          /\ \E error \in BOOLEAN :
               status' = IF error THEN "stopped" ELSE "running"
     ELSE UNCHANGED <<visited, status>>
  /\ i' = i + 1
  /\ indx' = Uint(indx + 1)
  /\ UNCHANGED <<offset, pass, k>>

NextEntry ==
  /\ k \in DOMAIN list
  /\ i > list[k].max
  /\ k' = k + 1
  /\ i' = FirstPort(k + 1)
  /\ UNCHANGED <<offset, pass, indx, visited, status>>

(* Mutation: any pass followed by one for the masks before the offset.     *)
PassAgain == offset # 0

SecondPass == pass = 1 /\ offset # 0

EndPass ==
  /\ pass # 0
  /\ k > Len(list)
  /\ IF SecondPass
     THEN BeginPass(2) /\ UNCHANGED status
     ELSE status' = "done" /\ UNCHANGED <<pass, k, i, indx>>
  /\ UNCHANGED <<offset, visited>>

Next ==
  /\ status = "running"
  /\ Reduce \/ Turn \/ NextEntry \/ EndPass
  /\ UNCHANGED <<list, request>>

(* The function runs to its end once it is called.                         *)
Spec == Init /\ [][Next]_vars /\ WF_vars(Next)

-----------------------------------------------------------------------------
(* The masks of the pool in list order.                                    *)
Masks ==
  [n \in 1 .. Cardinality(Slots(list)) |->
     LET s == CHOOSE t \in Slots(list) : Rank(list, t) = n - 1
     IN  mask(s[1], s[2])]

(* Both passes compare unsigned numbers, so the second always follows.     *)
Promise == INSTANCE Rotation
  WITH items <- Masks, count <- pool4_count(list), whole <- TRUE

(* pool4_foreach_taddr4() hands every mask to the callback once, in list   *)
(* order and around; it starts from the offset unless ranges that are      *)
(* upside down, or a count of 0, spoil the start.                          *)
Rotates == Promise!Safety

(* It returns, ranges that end with the last port included.                *)
Returns == Promise!Returns

(* The loops stay on the list and, at an entry, never before its range;    *)
(* the index stays in its word.                                            *)
TypeOK ==
  /\ list \in Seq(Entry)
  /\ request \in 0 .. MaxOffset
  /\ offset \in 0 .. MaxOffset
  /\ pass \in 0 .. 2
  /\ k \in 0 .. MaxEntries + 1
  /\ i \in 0 .. MaxPort + 1
  /\ k \in DOMAIN list => list[k].min <= i
  /\ indx \in Word
  /\ status \in {"running", "done", "stopped", "trap"}

(* In both passes the index is the number of masks before the turn the     *)
(* loops are at, whatever ranges lie behind them.                          *)
IndexIsRank ==
  pass # 0 /\ k \in DOMAIN list /\ i <= list[k].max =>
    indx = Rank(list, <<k, i>>)

Upright == \A n \in DOMAIN list : list[n].min <= list[n].max

(* Unless a range is upside down, only a call with an offset can divide by *)
(* zero, and only on a pool that is empty, or so large that its number of  *)
(* masks is 0 in an unsigned int.                                          *)
TrapsOnlyUncounted ==
  status = "trap" /\ Upright =>
    request > 0 /\ (list = << >> \/ Cardinality(Slots(list)) = 2^WordBits)
=============================================================================
