------------------------- MODULE ForeachTaddrProofs -------------------------
(***************************************************************************)
(* Proofs about pool4_foreach_taddr4(), for every list of the bounds, every *)
(* offset and every width of a word: the running index is the number of    *)
(* the turn the loops are at, and the two passes together are a rotation.  *)
(***************************************************************************)
EXTENDS ForeachTaddr, DatabaseLemmas

(* The number of the place the loops are at, and of the masks.             *)
At == Rank(list, <<k, i>>)

Total == Cardinality(Slots(list))

-----------------------------------------------------------------------------
(* The loops stay on the list, and the index is the number of the place    *)
(* they are at, as far as a word holds it.                                 *)
OnTheList ==
  /\ Len(list) <= MaxEntries
  /\ Numbered
  /\ k <= Len(list) + 1
  /\ k = 0 <=> pass = 0
  /\ indx = Uint(At)

(* Before the loops nothing has happened; in them the offset is reduced.   *)
Reduction ==
  IF request > pool4_count(list) THEN request % pool4_count(list) ELSE request

OffsetIs ==
  /\ pass = 0 => offset = request /\ visited = << >>
  /\ pass # 0 => offset = Reduction
  /\ pass # 0 /\ request > pool4_count(list) => pool4_count(list) # 0
  /\ pass = 2 => offset # 0

(* A trap happens before the loops, at a count of 0.                       *)
TrapIs == status = "trap" => request > 0 /\ pool4_count(list) = 0

PlaceInv == TypeOK /\ OnTheList /\ OffsetIs /\ TrapIs

LEMMA ListType ==
  ASSUME NEW l \in BoundedSeq(Entry, MaxEntries)
  PROVE  l \in Seq(Entry) /\ Len(l) <= MaxEntries
<1>1. PICK m \in 0 .. MaxEntries : l \in [1 .. m -> Entry]
  BY DEF BoundedSeq, SeqOf
<1>2. m \in Nat /\ m <= MaxEntries
  BY <1>1, ForeachTaddrAssumption
<1> QED BY <1>1, <1>2, SeqDef, LenProperties

(* At a turn of the inner loop the index is the number of the mask itself. *)
LEMMA IndexAtTurn ==
  ASSUME PlaceInv, k \in DOMAIN list, i <= list[k].max
  PROVE  /\ <<k, i>> \in Slots(list)
         /\ indx = At /\ At \in Nat /\ At < Total /\ Total \in Nat
<1>1. /\ list \in Seq(Entry) /\ i \in 0 .. MaxPort + 1 /\ list[k].min <= i
      /\ indx = Uint(At) /\ Total <= 2^WordBits
  BY DEF PlaceInv, TypeOK, OnTheList, Numbered, Total
<1>2. i \in 0 .. MaxPort
  BY <1>1, PortsType
<1>3. <<k, i>> \in Slots(list)
  BY <1>1, <1>2 DEF Slots
<1>4. At \in 0 .. Total - 1
  BY <1>1, <1>3, RankOfSlot DEF At, Total
<1>5. Total \in Nat
  BY <1>1, SlotsFinite, FS_CardinalityType DEF Total
<1>6. Uint(At) = At
  BY <1>1, <1>4, <1>5, UintSmall, TypesAssumption
<1> QED BY <1>1, <1>3, <1>4, <1>5, <1>6

LEMMA ReductionType ==
  ASSUME list \in Seq(Entry), request \in 0 .. MaxOffset,
         request > pool4_count(list) => pool4_count(list) # 0
  PROVE  Reduction \in 0 .. MaxOffset
<1> DEFINE c == pool4_count(list)
<1>1. c \in Nat /\ request \in Nat /\ request <= MaxOffset /\ MaxOffset \in Nat
  BY CountType, ForeachTaddrAssumption, TypesAssumption DEF Word
<1> HIDE DEF c
<1>2. CASE request > c
  <2>1. c > 0
    BY <1>1, <1>2 DEF c
  <2>2. request % c \in 0 .. c - 1
    BY <1>1, <2>1
  <2> QED BY <1>1, <1>2, <2>2 DEF Reduction, c
<1>3. CASE ~(request > c)
  BY <1>1, <1>3 DEF Reduction, c
<1> QED BY <1>2, <1>3

LEMMA PlaceInit == Init => PlaceInv
<1> SUFFICES ASSUME Init PROVE PlaceInv
  OBVIOUS
<1>1. list \in Seq(Entry) /\ Len(list) <= MaxEntries
  BY ListType DEF Init
<1>2. /\ MaxOffset \in Nat /\ MaxEntries \in Nat /\ MaxPort \in Nat
      /\ 0 \in Word /\ 2^WordBits > 0 /\ 2^WordBits \in Nat
  BY ForeachTaddrAssumption, Pool4Assumption, TypesAssumption DEF Word
<1>3. DOMAIN list = 1 .. Len(list) /\ Len(list) \in Nat
  BY <1>1, LenProperties
<1>4. At = 0
  <2>1. \A t \in Slots(list) : t[1] \in Nat /\ t[1] >= 1
    BY <1>1, SlotType
  <2>2. Before(list, <<0, 0>>) = {}
    BY <2>1 DEF Before, Precedes
  <2> QED BY <2>2, FS_EmptySet DEF At, Rank, Init
<1>5. Uint(0) = 0
  BY <1>2, UintSmall
<1>6. TypeOK
  BY <1>1, <1>2, <1>3 DEF Init, TypeOK
<1>7. OnTheList
  BY <1>1, <1>3, <1>4, <1>5 DEF Init, OnTheList
<1>8. OffsetIs /\ TrapIs
  BY DEF Init, OffsetIs, TrapIs
<1> QED BY <1>6, <1>7, <1>8 DEF PlaceInv

(* A pass begins at the first mask, which has none before it.              *)
LEMMA PassBegins ==
  ASSUME PlaceInv, NEW p \in {1, 2}, BeginPass(p), list' = list
  PROVE  /\ pass' = p /\ k' = 1 /\ indx' = 0
         /\ i' \in 0 .. MaxPort + 1 /\ At' = 0
         /\ k' \in DOMAIN list => list[k'].min <= i'
<1>1. list \in Seq(Entry)
  BY DEF PlaceInv, TypeOK
<1>2. pass' = p /\ k' = 1 /\ indx' = 0 /\ i' = FirstPort(1)
  BY DEF BeginPass
<1>3. MaxPort \in Nat
  BY Pool4Assumption
<1>4. /\ i' \in 0 .. MaxPort
      /\ 1 \in DOMAIN list => i' = list[1].min /\ list[1].min <= i'
  BY <1>1, <1>2, <1>3, PortsType DEF FirstPort
<1>5. Rank(list, <<1, i'>>) = 0
  <2>1. i' \in Nat
    BY <1>3, <1>4
  <2> QED BY <1>1, <1>4, <2>1, RankAtStart
<1> QED BY <1>2, <1>3, <1>4, <1>5 DEF At

(* Going on to the next entry passes no mask.                              *)
LEMMA EntryKeepsPlace ==
  ASSUME PlaceInv, NextEntry, list' = list
  PROVE  At' = At
<1>1. /\ k \in DOMAIN list /\ i > list[k].max
      /\ k' = k + 1 /\ i' = FirstPort(k + 1)
  BY DEF NextEntry
<1>2. list \in Seq(Entry) /\ i \in Nat /\ MaxPort \in Nat
  BY Pool4Assumption DEF PlaceInv, TypeOK
<1>3. /\ list[k].max < i /\ i' \in Nat
      /\ k + 1 \in DOMAIN list => i' = list[k + 1].min
  BY <1>1, <1>2, PortsType DEF FirstPort
<1>4. \A j \in Nat : (k + 1 \in DOMAIN list => j = list[k + 1].min) =>
        Rank(list, <<k + 1, j>>) = Rank(list, <<k, i>>)
  BY <1>1, <1>2, <1>3, RankAfterEntry
<1> QED BY <1>1, <1>3, <1>4 DEF At

LEMMA PlaceStep == PlaceInv /\ [Next]_vars => PlaceInv'
<1> SUFFICES ASSUME PlaceInv, [Next]_vars PROVE PlaceInv'
  OBVIOUS
<1>1. /\ list \in Seq(Entry) /\ Len(list) <= MaxEntries
      /\ DOMAIN list = 1 .. Len(list) /\ Len(list) \in Nat
      /\ request \in 0 .. MaxOffset /\ offset \in 0 .. MaxOffset
      /\ pass \in 0 .. 2 /\ k \in 0 .. MaxEntries + 1
      /\ k <= Len(list) + 1 /\ i \in 0 .. MaxPort + 1
      /\ MaxEntries \in Nat /\ MaxPort \in Nat
  BY LenProperties, ForeachTaddrAssumption, Pool4Assumption
  DEF PlaceInv, TypeOK, OnTheList
<1>2. 0 \in Word /\ Uint(0) = 0
  BY UintSmall, TypesAssumption DEF Word
<1>3. CASE UNCHANGED vars
  BY <1>3 DEF vars, PlaceInv, TypeOK, OnTheList, OffsetIs, TrapIs, At,
     Numbered, Reduction
<1>4. ASSUME Reduce, status = "running", UNCHANGED <<list, request>>
      PROVE  PlaceInv'
  <2> DEFINE entries == pool4_count(list)
  <2>1. pass = 0 /\ offset = request /\ visited = << >> /\ k = 0
    BY <1>4 DEF Reduce, PlaceInv, OffsetIs, OnTheList
  <2>2. entries \in Nat /\ request \in Nat
    BY <1>1, CountType, ForeachTaddrAssumption, TypesAssumption DEF Word
  <2>3. ASSUME Beyond(entries), entries = 0 PROVE PlaceInv'
    <3>1. /\ status' = "trap" /\ request > 0
          /\ UNCHANGED <<list, request, offset, pass, k, i, indx, visited>>
      BY <1>4, <2>1, <2>2, <2>3 DEF Reduce, Beyond
    <3> QED BY <2>1, <2>3, <3>1 DEF PlaceInv, TypeOK, OnTheList, OffsetIs,
            TrapIs, At, Numbered, Reduction
  <2>4. ASSUME ~(Beyond(entries) /\ entries = 0) PROVE PlaceInv'
    <3>1. /\ BeginPass(1) /\ UNCHANGED <<list, request, visited, status>>
          /\ offset' = Reduction
          /\ request > entries => entries # 0
      BY <1>4, <2>1, <2>4 DEF Reduce, Beyond, Reduction
    <3>2. Reduction \in 0 .. MaxOffset
      BY <1>1, <3>1, ReductionType
    <3>3. /\ pass' = 1 /\ k' = 1 /\ indx' = 0
          /\ i' \in 0 .. MaxPort + 1 /\ At' = 0
          /\ k' \in DOMAIN list => list[k'].min <= i'
      BY <3>1, PassBegins
    <3>4. TypeOK'
      BY <1>1, <1>2, <3>1, <3>2, <3>3 DEF PlaceInv, TypeOK
    <3>5. OnTheList'
      BY <1>1, <1>2, <3>1, <3>3 DEF PlaceInv, OnTheList, Numbered
    <3>6. OffsetIs' /\ TrapIs'
      BY <3>1, <3>3, <1>4 DEF OffsetIs, TrapIs, Reduction
    <3> QED BY <3>4, <3>5, <3>6 DEF PlaceInv
  <2> QED BY <2>3, <2>4
<1>5. ASSUME Turn, status = "running", UNCHANGED <<list, request>>
      PROVE  PlaceInv'
  <2>1. /\ k \in DOMAIN list /\ i <= list[k].max
        /\ i' = i + 1 /\ indx' = Uint(indx + 1)
        /\ UNCHANGED <<list, request, offset, pass, k>>
        /\ status' \in {"running", "stopped"} \cup {status}
    BY <1>5 DEF Turn
  <2>2. <<k, i>> \in Slots(list) /\ indx = At /\ At \in Nat
    BY <2>1, IndexAtTurn
  <2>3. At' = At + 1
    BY <1>1, <2>1, <2>2, RankAfterSlot DEF At
  <2>4. i' \in 0 .. MaxPort + 1 /\ list[k].min <= i'
    <3>1. list[k].min \in Nat /\ list[k].max \in 0 .. MaxPort
      BY <1>1, <2>1, PortsType
    <3>2. list[k].min <= i
      BY <2>1 DEF PlaceInv, TypeOK
    <3> QED BY <1>1, <2>1, <3>1, <3>2
  <2>5. indx' \in Word
    BY <2>1, <2>2, UintType
  <2>6. TypeOK'
    BY <1>5, <2>1, <2>4, <2>5 DEF PlaceInv, TypeOK
  <2>7. OnTheList'
    BY <2>1, <2>2, <2>3 DEF PlaceInv, OnTheList, Numbered
  <2>8. pass # 0
    BY <1>1, <2>1 DEF PlaceInv, OnTheList
  <2>9. OffsetIs' /\ TrapIs'
    BY <1>5, <2>1, <2>8 DEF PlaceInv, OffsetIs, TrapIs, Reduction
  <2> QED BY <2>6, <2>7, <2>9 DEF PlaceInv
<1>6. ASSUME NextEntry, status = "running", UNCHANGED <<list, request>>
      PROVE  PlaceInv'
  <2>1. /\ k \in DOMAIN list /\ i > list[k].max
        /\ k' = k + 1 /\ i' = FirstPort(k + 1)
        /\ UNCHANGED <<list, request, offset, pass, indx, visited, status>>
    BY <1>6 DEF NextEntry
  <2>2. /\ i' \in 0 .. MaxPort /\ i' \in Nat /\ i \in Nat
        /\ k + 1 \in DOMAIN list => i' = list[k + 1].min /\ list[k'].min <= i'
    BY <1>1, <2>1, PortsType DEF FirstPort
  <2>3. At' = At
    BY <1>6, EntryKeepsPlace
  <2>4. /\ k' \in 0 .. MaxEntries + 1 /\ k' <= Len(list) + 1
        /\ k # 0 /\ k' # 0 /\ pass # 0
    BY <1>1, <2>1 DEF PlaceInv, OnTheList
  <2>5. TypeOK'
    BY <1>1, <2>1, <2>2, <2>4 DEF PlaceInv, TypeOK
  <2>6. OnTheList'
    BY <2>1, <2>3, <2>4 DEF PlaceInv, OnTheList, Numbered
  <2>7. OffsetIs' /\ TrapIs'
    BY <2>1, <2>4 DEF PlaceInv, OffsetIs, TrapIs, Reduction
  <2> QED BY <2>5, <2>6, <2>7 DEF PlaceInv
<1>7. ASSUME EndPass, status = "running", UNCHANGED <<list, request>>
      PROVE  PlaceInv'
  <2>1. pass # 0 /\ k > Len(list) /\ UNCHANGED <<list, request, offset, visited>>
    BY <1>7 DEF EndPass
  <2>2. ASSUME SecondPass PROVE PlaceInv'
    <3>1. BeginPass(2) /\ UNCHANGED status /\ pass = 1 /\ offset # 0
      BY <1>7, <2>2 DEF EndPass, SecondPass
    <3>2. /\ pass' = 2 /\ k' = 1 /\ indx' = 0
          /\ i' \in 0 .. MaxPort + 1 /\ At' = 0
          /\ k' \in DOMAIN list => list[k'].min <= i'
      BY <2>1, <3>1, PassBegins
    <3>3. TypeOK'
      BY <1>1, <1>2, <2>1, <3>1, <3>2 DEF PlaceInv, TypeOK
    <3>4. OnTheList'
      BY <1>1, <1>2, <2>1, <3>2 DEF PlaceInv, OnTheList, Numbered
    <3>5. OffsetIs' /\ TrapIs'
      BY <2>1, <3>1, <3>2 DEF PlaceInv, OffsetIs, TrapIs, Reduction
    <3> QED BY <3>3, <3>4, <3>5 DEF PlaceInv
  <2>3. ASSUME ~SecondPass PROVE PlaceInv'
    <3>1. status' = "done" /\ UNCHANGED <<pass, k, i, indx>>
      BY <1>7, <2>3 DEF EndPass
    <3> QED BY <2>1, <3>1 DEF PlaceInv, TypeOK, OnTheList, OffsetIs, TrapIs,
            At, Numbered, Reduction
  <2> QED BY <2>2, <2>3
<1> QED BY <1>3, <1>4, <1>5, <1>6, <1>7 DEF Next

LEMMA PlaceHolds == Spec => []PlaceInv
BY PlaceInit, PlaceStep, PTL DEF Spec

(* Every state the function reaches has the types its variables state, the *)
(* loops never before the range of the entry they are at.                  *)
THEOREM TypeCorrect == Spec => []TypeOK
<1>1. PlaceInv => TypeOK
  BY DEF PlaceInv
<1> QED BY <1>1, PlaceHolds, PTL

(* In both passes the running index is the number of masks before the one  *)
(* the loops are at: no range is skipped and none is counted twice.        *)
THEOREM IndexCountsMasks == Spec => []IndexIsRank
<1>1. PlaceInv => IndexIsRank
  BY IndexAtTurn DEF IndexIsRank, At
<1> QED BY <1>1, PlaceHolds, PTL

(* A count of 0 comes from no masks or from as many as a word has values.  *)
LEMMA CountedAsNone ==
  ASSUME PlaceInv, Upright, pool4_count(list) = 0
  PROVE  list = << >> \/ Cardinality(Slots(list)) = 2^WordBits
<1>1. list \in Seq(Entry) /\ Total <= 2^WordBits
  BY DEF PlaceInv, TypeOK, OnTheList, Numbered, Total
<1>2. Uint(Total) = 0
  BY <1>1, CountsTheSlots DEF Upright, Total
<1>3. Total \in Nat
  BY <1>1, SlotsFinite, FS_CardinalityType DEF Total
<1>4. Total < 2^WordBits => Total = 0
  BY <1>2, <1>3, UintSmall
<1>5. ASSUME Total = 0 PROVE list = << >>
  <2>1. Slots(list) = {}
    BY <1>1, <1>5, SlotsFinite, FS_EmptySet DEF Total
  <2>2. ASSUME NEW n \in DOMAIN list PROVE FALSE
    <3>1. list[n].min \in 0 .. MaxPort /\ list[n].min <= list[n].max
      BY <1>1, PortsType DEF Upright
    <3>2. <<n, list[n].min>> \in Slots(list)
      BY <3>1, Pool4Assumption DEF Slots
    <3> QED BY <2>1, <3>2
  <2>3. DOMAIN list = 1 .. Len(list) /\ Len(list) \in Nat
    BY <1>1, LenProperties
  <2>4. Len(list) = 0
    BY <2>2, <2>3
  <2> QED BY <1>1, <2>4, EmptySeq
<1> QED BY <1>1, <1>3, <1>4, <1>5, TypesAssumption DEF Total

(* The division by zero: without upside-down ranges it takes an offset,    *)
(* and a pool that is empty or whose masks are counted as 0.               *)
THEOREM TrapsNeedACountOfNone == Spec => []TrapsOnlyUncounted
<1>1. PlaceInv => TrapsOnlyUncounted
  BY CountedAsNone DEF PlaceInv, TrapIs, TrapsOnlyUncounted
<1> QED BY <1>1, PlaceHolds, PTL

-----------------------------------------------------------------------------
(* The rotation.  What was handed out is a function of the place the loops *)
(* are at: in the first pass the masks from the offset on, in the second   *)
(* those and the masks up to the offset.                                   *)
Start == IF offset < Total THEN offset ELSE 0

FromOffset(n) == IF offset < n THEN n - offset ELSE 0

Handed ==
  CASE pass = 0 -> 0
    [] pass = 1 -> FromOffset(At)
    [] pass = 2 -> FromOffset(Total) + (IF At < offset THEN At ELSE offset)

VisitedIs == visited = Promise!Around(Start, Handed)

IInv == PlaceInv /\ VisitedIs

LEMMA HandedType ==
  ASSUME PlaceInv
  PROVE  /\ Handed \in Nat /\ Start \in Nat /\ Total \in Nat /\ At \in 0 .. Total
         /\ offset \in Nat
         /\ Total > 0 => Start < Total
<1>1. list \in Seq(Entry) /\ offset \in 0 .. MaxOffset /\ pass \in 0 .. 2
  BY DEF PlaceInv, TypeOK
<1>2. offset \in Nat
  BY <1>1, ForeachTaddrAssumption, TypesAssumption DEF Word
<1>3. Total \in Nat /\ At \in 0 .. Total
  BY <1>1, RankType, SlotsFinite, FS_CardinalityType DEF Total, At
<1>4. Start \in Nat /\ (Total > 0 => Start < Total)
  BY <1>2, <1>3 DEF Start
<1>5. Handed \in Nat
  BY <1>1, <1>2, <1>3 DEF Handed, FromOffset
<1> QED BY <1>2, <1>3, <1>4, <1>5

(* Masks lists the masks by their numbers.                                 *)
LEMMA MaskOfSlot ==
  ASSUME list \in Seq(Entry), NEW s \in Slots(list)
  PROVE  /\ Masks[Rank(list, s) + 1] = mask(s[1], s[2])
         /\ Rank(list, s) + 1 \in 1 .. Total
<1> DEFINE n == Rank(list, s) + 1
           found == CHOOSE t \in Slots(list) : Rank(list, t) = n - 1
<1>1. Rank(list, s) \in 0 .. Total - 1 /\ Total \in Nat
  BY RankOfSlot, SlotsFinite, FS_CardinalityType DEF Total
<1>2. n \in 1 .. Total /\ n - 1 = Rank(list, s)
  BY <1>1
<1>3. \E t \in Slots(list) : Rank(list, t) = n - 1
  BY <1>2
<1>4. found \in Slots(list) /\ Rank(list, found) = n - 1
  BY <1>3
<1> HIDE DEF found
<1>5. found = s
  BY <1>2, <1>4, RankInjective
<1>6. Masks[n] = mask(found[1], found[2])
  BY <1>2 DEF Masks, found, Total
<1> QED BY <1>2, <1>5, <1>6

LEMMA MasksLength ==
  ASSUME list \in Seq(Entry)
  PROVE  Len(Masks) = Total
<1>1. Total \in Nat
  BY SlotsFinite, FS_CardinalityType DEF Total
<1>2. Masks = [n \in 1 .. Total |-> Masks[n]]
  BY DEF Masks, Total
<1> QED BY <1>1, <1>2, TableLength

(* What is handed out next, when a mask is wanted, is the mask of the turn.*)
LEMMA NextHanded ==
  ASSUME PlaceInv, pass # 0, At \in Nat, At < Total,
         IF pass = 1 THEN At >= offset ELSE At < offset
  PROVE  (Start + (Handed + 1) - 1) % Total = At
<1>1. /\ pass = 1 \/ pass = 2
      /\ Start \in Nat /\ Total \in Nat /\ offset \in Nat /\ Handed \in Nat
  BY HandedType DEF PlaceInv, TypeOK
<1>2. At % Total = At
  BY <1>1
<1>3. CASE Start + Handed = At
  BY <1>1, <1>2, <1>3
<1>4. CASE Start + Handed = At + Total
  <2>1. (At + Total) % Total = At
    BY <1>1
  <2> QED BY <1>1, <1>4, <2>1
<1>5. Start + Handed = At \/ Start + Handed = At + Total
  BY <1>1 DEF Start, Handed, FromOffset
<1> QED BY <1>3, <1>4, <1>5

LEMMA AroundIs ==
  ASSUME list \in Seq(Entry), NEW start, NEW n
  PROVE  Promise!Around(start, n) =
           [j \in 1 .. n |-> Masks[((start + j - 1) % Total) + 1]]
BY MasksLength DEF Promise!Around

LEMMA AroundLength ==
  ASSUME list \in Seq(Entry), NEW start, NEW n \in Nat
  PROVE  Len(Promise!Around(start, n)) = n
<1> DEFINE f == Promise!Around(start, n)
<1>1. f = [j \in 1 .. n |-> f[j]]
  BY AroundIs
<1> HIDE DEF f
<1> QED BY <1>1, TableLength DEF f

(* A turn that hands a mask out hands out the next one of the rotation.    *)
LEMMA HandsOutNext ==
  ASSUME PlaceInv, VisitedIs, k \in DOMAIN list, i <= list[k].max, Wanted
  PROVE  /\ Append(visited, mask(k, i)) = Promise!Around(Start, Handed + 1)
         /\ Len(visited) < Len(Masks) /\ Total > 0
         /\ Len(visited) = Handed
<1>1. /\ <<k, i>> \in Slots(list)
      /\ indx = At /\ At \in Nat /\ At < Total /\ Total \in Nat
      /\ list \in Seq(Entry) /\ k # 0 /\ pass # 0 /\ pass \in 0 .. 2
      /\ Handed \in Nat /\ Start \in Nat /\ offset \in Nat
  <2>1. list \in Seq(Entry) /\ pass \in 0 .. 2
    BY DEF PlaceInv, TypeOK
  <2>2. k # 0
    BY <2>1, LenProperties
  <2> QED BY <2>1, <2>2, IndexAtTurn, HandedType DEF PlaceInv, OnTheList
<1>2. IF pass = 1 THEN At >= offset ELSE At < offset
  BY <1>1 DEF Wanted
<1>3. (Start + (Handed + 1) - 1) % Total = At
  BY <1>1, <1>2, NextHanded
<1>4. Masks[At + 1] = mask(k, i)
  BY <1>1, MaskOfSlot DEF At
<1> DEFINE g == Promise!Around(Start, Handed + 1)
           S == {g[j] : j \in 1 .. Handed + 1}
<1>5. g = [j \in 1 .. Handed + 1 |-> Masks[((Start + j - 1) % Total) + 1]]
  BY <1>1, AroundIs
<1>6. visited = [j \in 1 .. Handed |-> Masks[((Start + j - 1) % Total) + 1]]
  BY <1>1, AroundIs DEF VisitedIs
<1> HIDE DEF g
<1>7. /\ g \in [1 .. Handed + 1 -> S] /\ visited \in [1 .. Handed -> S]
      /\ \A j \in 1 .. Handed : g[j] = visited[j]
  <2>1. \A j \in 1 .. Handed : j \in 1 .. Handed + 1
    BY <1>1
  <2>2. \A j \in 1 .. Handed : g[j] = visited[j]
    BY <2>1, <1>5, <1>6
  <2> QED BY <2>1, <2>2, <1>5, <1>6
<1>8. g[Handed + 1] = mask(k, i)
  <2>1. Handed + 1 \in 1 .. Handed + 1
    BY <1>1
  <2> QED BY <2>1, <1>3, <1>4, <1>5
<1>9. Append(visited, mask(k, i)) = g
  <2> HIDE DEF S
  <2>1. Append(visited, g[Handed + 1]) = g
    BY <1>1, <1>7, AppendTable
  <2> QED BY <2>1, <1>8
<1>10. Len(visited) = Handed
  BY <1>1, AroundLength DEF VisitedIs
<1>11. Handed < Total
  BY <1>1, <1>2 DEF Handed, FromOffset
<1>12. Len(Masks) = Total
  BY <1>1, MasksLength
<1> QED BY <1>1, <1>9, <1>10, <1>11, <1>12 DEF g

(* The rotation may start where the loops do.                              *)
LEMMA MayStart ==
  ASSUME PlaceInv, pass # 0, Total > 0
  PROVE  Start \in Promise!Starts
<1> DEFINE c == pool4_count(list)
<1>1. /\ list \in Seq(Entry) /\ request \in Nat /\ c \in Nat
      /\ Start \in Nat /\ Start < Total /\ Total \in Nat
      /\ offset = Reduction /\ offset \in Nat
  <2>1. list \in Seq(Entry) /\ request \in 0 .. MaxOffset
    BY DEF PlaceInv, TypeOK
  <2> QED BY <2>1, CountType, HandedType, ForeachTaddrAssumption,
             TypesAssumption DEF Word, PlaceInv, OffsetIs
<1>2. Len(Masks) = Total
  BY <1>1, MasksLength
<1>3. CASE c = Total
  <2>1. CASE request > Total
    <3>1. offset = request % Total
      BY <1>1, <1>3, <2>1 DEF Reduction
    <3>2. request % Total < Total
      BY <1>1
    <3> QED BY <1>2, <1>3, <3>1, <3>2 DEF Start, Promise!Starts
  <2>2. CASE request < Total
    <3>1. offset = request /\ request % Total = request
      BY <1>1, <1>3, <2>2 DEF Reduction
    <3> QED BY <1>2, <1>3, <2>2, <3>1 DEF Start, Promise!Starts
  <2>3. CASE request = Total
    <3>1. offset = Total /\ Total % Total = 0
      BY <1>1, <1>3, <2>3 DEF Reduction
    <3> QED BY <1>1, <1>2, <1>3, <2>3, <3>1 DEF Start, Promise!Starts
  <2> QED BY <1>1, <2>1, <2>2, <2>3
<1>4. CASE c # Total
  BY <1>1, <1>2, <1>4 DEF Promise!Starts
<1> QED BY <1>3, <1>4

-----------------------------------------------------------------------------
(* Each step of the loops is a step of the rotation or leaves it alone.    *)

(* Nothing is handed out by a step that hands over no mask.                *)
LEMMA SilentStep ==
  ASSUME PlaceInv, VisitedIs, list' = list, visited' = visited,
         Handed' = Handed, Start' = Start \/ Handed = 0
  PROVE  VisitedIs'
<1>1. list \in Seq(Entry)
  BY DEF PlaceInv, TypeOK
<1>2. visited = [j \in 1 .. Handed |-> Masks[((Start + j - 1) % Total) + 1]]
  BY <1>1, AroundIs DEF VisitedIs
<1>3. Masks' = Masks /\ Total' = Total
  BY DEF Masks, Total, mask
<1>4. Promise!Around(Start, Handed)' =
        [j \in 1 .. Handed' |-> Masks'[((Start' + j - 1) % Len(Masks')) + 1]]
  BY DEF Promise!Around
<1>5. Len(Masks') = Total
  BY <1>1, <1>3, MasksLength
<1>6. CASE Start' = Start
  BY <1>2, <1>3, <1>4, <1>5, <1>6 DEF VisitedIs
<1>7. CASE Handed = 0
  BY <1>2, <1>4, <1>7 DEF VisitedIs
<1> QED BY <1>6, <1>7

LEMMA RotationInit == Init => VisitedIs /\ Promise!Init
<1> SUFFICES ASSUME Init PROVE VisitedIs /\ Promise!Init
  OBVIOUS
<1>1. list \in Seq(Entry)
  BY PlaceInit DEF PlaceInv, TypeOK
<1>2. Handed = 0 /\ visited = << >>
  BY DEF Init, Handed
<1>3. Promise!Around(Start, 0) = << >>
  BY <1>1, AroundIs
<1>4. request \in Nat
  BY ForeachTaddrAssumption, TypesAssumption DEF Init, Word
<1> QED BY <1>2, <1>3, <1>4 DEF VisitedIs, Init, Promise!Init

LEMMA RotationStep ==
  IInv /\ [Next]_vars => VisitedIs' /\ [Promise!Next]_(Promise!vars)
<1> SUFFICES ASSUME PlaceInv, VisitedIs, [Next]_vars
             PROVE  VisitedIs' /\ [Promise!Next]_(Promise!vars)
  BY DEF IInv
<1> USE DEF Promise!vars
<1>1. PlaceInv'
  BY PlaceStep
<1>2. /\ list \in Seq(Entry) /\ pass \in 0 .. 2 /\ offset \in Nat
      /\ Total \in Nat /\ At \in 0 .. Total /\ Handed \in Nat
      /\ At' \in 0 .. Total'
      /\ k = 0 <=> pass = 0
      /\ Len(visited) = Handed
  <2>1. /\ list \in Seq(Entry) /\ pass \in 0 .. 2
        /\ k = 0 <=> pass = 0
    BY DEF PlaceInv, TypeOK, OnTheList
  <2>2. /\ offset \in Nat
        /\ Total \in Nat /\ At \in 0 .. Total /\ Handed \in Nat
    BY HandedType
  <2>3. Len(visited) = Handed
    BY <2>1, <2>2, AroundLength DEF VisitedIs
  <2>4. At' \in 0 .. Total'
    <3>1. list' \in Seq(Entry)
      BY <1>1 DEF PlaceInv, TypeOK
    <3> QED BY <3>1, RankType DEF At, Total
  <2> QED BY <2>1, <2>2, <2>3, <2>4
<1>3. list' = list => /\ Total' = Total /\ Masks' = Masks
                      /\ pool4_count(list)' = pool4_count(list)
  BY DEF Total, Masks, mask
<1>4. CASE UNCHANGED vars
  <2>1. Handed' = Handed /\ Start' = Start /\ list' = list
    BY <1>4 DEF vars, Handed, Start, FromOffset, At, Total
  <2> QED BY <1>3, <1>4, <2>1, SilentStep DEF vars
<1>5. ASSUME Reduce, status = "running", UNCHANGED <<list, request>>
      PROVE  VisitedIs' /\ [Promise!Next]_(Promise!vars)
  <2>1. pass = 0 /\ UNCHANGED visited /\ Handed = 0
    BY <1>5 DEF Reduce, Handed
  <2>2. CASE UNCHANGED pass
    <3>1. /\ pool4_count(list) = 0 /\ status' = "trap"
          /\ UNCHANGED <<offset, pass, k, i>>
      BY <1>5, <2>1, <2>2 DEF Reduce, BeginPass
    <3>2. Handed' = Handed
      BY <2>1, <3>1 DEF Handed
    <3>3. Promise!Trap
      BY <2>1, <3>1 DEF Promise!Trap
    <3> QED BY <1>3, <1>5, <2>1, <3>2, <3>3, SilentStep DEF Promise!Next
  <2>3. CASE ~UNCHANGED pass
    <3>1. BeginPass(1) /\ UNCHANGED status
      BY <1>5, <2>3 DEF Reduce
    <3>2. pass' = 1 /\ At' = 0
      BY <1>5, <3>1, PassBegins
    <3>3. offset' \in Nat
      BY <1>1, ForeachTaddrAssumption, TypesAssumption
      DEF PlaceInv, TypeOK, Word
    <3>4. Handed' = 0
      BY <3>2, <3>3 DEF Handed, FromOffset
    <3> QED BY <1>3, <1>5, <2>1, <3>1, <3>4, SilentStep
  <2> QED BY <2>2, <2>3
<1>6. ASSUME Turn, status = "running", UNCHANGED <<list, request>>
      PROVE  VisitedIs' /\ [Promise!Next]_(Promise!vars)
  <2>1. /\ k \in DOMAIN list /\ i <= list[k].max
        /\ i' = i + 1 /\ UNCHANGED <<offset, pass, k>>
    BY <1>6 DEF Turn
  <2>2. <<k, i>> \in Slots(list) /\ indx = At /\ At < Total
    BY <2>1, IndexAtTurn
  <2>3. At' = At + 1 /\ Start' = Start
    BY <1>2, <1>3, <1>6, <2>1, <2>2, RankAfterSlot DEF At, Start
  <2>4. pass = 1 \/ pass = 2
    BY <1>2, <2>1, LenProperties
  <2>5. CASE Wanted
    <3>1. /\ visited' = Append(visited, mask(k, i))
          /\ status' \in {"running", "stopped"}
      BY <1>6, <2>5 DEF Turn
    <3>2. /\ Append(visited, mask(k, i)) = Promise!Around(Start, Handed + 1)
          /\ Len(visited) < Len(Masks) /\ Total > 0
      BY <2>1, <2>5, HandsOutNext
    <3>3. IF pass = 1 THEN At >= offset ELSE At < offset
      BY <2>2, <2>5 DEF Wanted
    <3>4. Handed' = Handed + 1
      <4>1. /\ pass' = pass /\ offset' = offset /\ At' = At + 1
            /\ Total' = Total /\ At \in Nat
        BY <1>2, <1>3, <1>6, <2>1, <2>3
      <4>2. CASE pass = 1
        <5>1. Handed = At - offset /\ Handed' = (At + 1) - offset
          BY <1>2, <3>3, <4>1, <4>2 DEF Handed, FromOffset
        <5> QED BY <1>2, <4>1, <5>1
      <4>3. CASE pass = 2
        <5>1. /\ Handed = FromOffset(Total) + At
              /\ Handed' = FromOffset(Total) + (At + 1)
          BY <1>2, <3>3, <4>1, <4>3 DEF Handed, FromOffset
        <5>2. FromOffset(Total) \in Nat
          BY <1>2 DEF FromOffset
        <5> QED BY <4>1, <5>1, <5>2
      <4> QED BY <2>4, <4>2, <4>3
    <3>5. VisitedIs'
      <4>1. Promise!Around(Start, Handed)' =
              [j \in 1 .. Handed' |->
                 Masks'[((Start' + j - 1) % Len(Masks')) + 1]]
        BY DEF Promise!Around
      <4>2. Promise!Around(Start, Handed + 1) =
              [j \in 1 .. Handed + 1 |->
                 Masks[((Start + j - 1) % Len(Masks)) + 1]]
        BY DEF Promise!Around
      <4>3. Promise!Around(Start, Handed)' = Promise!Around(Start, Handed + 1)
        BY <1>3, <1>6, <2>3, <3>4, <4>1, <4>2
      <4> QED BY <3>1, <3>2, <4>3 DEF VisitedIs
    <3>6. Start \in Promise!Starts
      BY <2>4, <3>2, MayStart
    <3>7. Promise!Visit
      BY <1>2, <3>1, <3>2, <3>6 DEF Promise!Visit, VisitedIs
    <3> QED BY <1>3, <1>6, <3>5, <3>7 DEF Promise!Next
  <2>6. CASE ~Wanted
    <3>1. UNCHANGED <<visited, status>>
      BY <1>6, <2>6 DEF Turn
    <3>2. ~(IF pass = 1 THEN At >= offset ELSE At < offset)
      BY <2>2, <2>6 DEF Wanted
    <3>3. Handed' = Handed
      BY <1>2, <1>3, <1>6, <2>1, <2>3, <2>4, <3>2 DEF Handed, FromOffset
    <3> QED BY <1>3, <1>6, <2>3, <3>1, <3>3, SilentStep
  <2> QED BY <2>5, <2>6
<1>7. ASSUME NextEntry, status = "running", UNCHANGED <<list, request>>
      PROVE  VisitedIs' /\ [Promise!Next]_(Promise!vars)
  <2>1. /\ k \in DOMAIN list /\ i > list[k].max
        /\ k' = k + 1 /\ i' = FirstPort(k + 1)
        /\ UNCHANGED <<offset, pass, indx, visited, status>>
    BY <1>7 DEF NextEntry
  <2>2. At' = At
    BY <1>2, <1>7, <2>1, EntryKeepsPlace
  <2>3. Handed' = Handed /\ Start' = Start
    BY <1>3, <1>7, <2>1, <2>2 DEF Handed, Start, FromOffset
  <2> QED BY <1>3, <1>7, <2>1, <2>3, SilentStep
<1>8. ASSUME EndPass, status = "running", UNCHANGED <<list, request>>
      PROVE  VisitedIs' /\ [Promise!Next]_(Promise!vars)
  <2>1. /\ pass # 0 /\ k > Len(list) /\ UNCHANGED <<offset, visited>>
        /\ pass = 1 \/ pass = 2
    BY <1>2, <1>8 DEF EndPass
  <2>2. At = Total
    <3>1. k \in Nat
      BY ForeachTaddrAssumption DEF PlaceInv, TypeOK
    <3> QED BY <1>2, <2>1, <3>1, RankAtEnd DEF At, Total
  <2>3. Start' = Start
    BY <1>3, <1>8, <2>1 DEF Start
  <2>4. CASE SecondPass
    <3>1. BeginPass(2) /\ UNCHANGED status /\ pass = 1
      BY <1>8, <2>4 DEF EndPass, SecondPass
    <3>2. pass' = 2 /\ At' = 0
      BY <1>8, <3>1, PassBegins
    <3>3. Handed' = Handed
      BY <1>2, <1>3, <1>8, <2>1, <2>2, <3>1, <3>2 DEF Handed, FromOffset
    <3> QED BY <1>3, <1>8, <2>1, <2>3, <3>1, <3>3, SilentStep
  <2>5. CASE ~SecondPass
    <3>1. status' = "done" /\ UNCHANGED <<pass, k, i, indx>>
      BY <1>8, <2>5 DEF EndPass
    <3>2. Handed' = Handed
      BY <1>3, <1>8, <2>1, <3>1 DEF Handed, FromOffset, At
    <3>3. Handed = Total
      BY <1>2, <2>1, <2>2, <2>5 DEF Handed, FromOffset, SecondPass
    <3>4. Promise!Finish
      BY <1>2, <2>1, <3>1, <3>3, MasksLength DEF Promise!Finish
    <3> QED BY <1>3, <1>8, <2>1, <2>3, <3>2, <3>4, SilentStep DEF Promise!Next
  <2> QED BY <2>4, <2>5
<1> QED BY <1>4, <1>5, <1>6, <1>7, <1>8 DEF Next

(* The two passes implement the rotation: whatever the list, the offset    *)
(* and the answers of the callback, every mask is handed out once, in list *)
(* order and around, from a start the count of the pool justifies.         *)
THEOREM ImplementsRotation == Spec => Rotates
<1>1. Init => IInv /\ Promise!Init
  BY PlaceInit, RotationInit DEF IInv
<1>2. IInv /\ [Next]_vars => IInv' /\ [Promise!Next]_(Promise!vars)
  BY PlaceStep, RotationStep DEF IInv
<1> QED BY <1>1, <1>2, PTL DEF Spec, Rotates, Promise!Safety
=============================================================================
