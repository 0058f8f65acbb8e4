---------------------------- MODULE SamplePaging ----------------------------
(***************************************************************************)
(* Listing a database in pages.  pool4_foreach_sample() and                *)
(* client_for_eachsample() hand the items after a given one to the         *)
(* callback, and stop when the callback returns an error.  A caller whose  *)
(* buffer holds PageSize items can therefore list a database of any        *)
(* length: the callback takes items until the buffer is full, and the next *)
(* call passes the last item it took.  The database may be edited between  *)
(* two calls.                                                              *)
(***************************************************************************)
EXTENDS Pool4, Client, SequencesExt

CONSTANTS
  PageSize,     (* The items that fit the caller's buffer.                   *)
  MaxEntries,   (* Bound on the length of the list.                          *)
  MaxEdits      (* Bound on the edits made while the listing goes on.        *)

ASSUME SamplePagingAssumption ==
  /\ PageSize \in Nat \ {0}
  /\ MaxEntries \in Nat
  /\ MaxEdits \in Nat

VARIABLES
  db,           (* The database that is listed, "pool4" or "client".         *)
  list,         (* Its list.                                                 *)
  seen,         (* The items the caller has collected, in order.             *)
  status,       (* "listing", "done", or "esrch": the offset was not found.  *)
  edits,        (* Edits made so far.                                        *)
  kept,         (* The items in the list since the listing began.            *)
  distinct,     (* Whether the list has held no item twice since then.       *)
  anchored      (* Whether the item the next call passes was never removed.  *)

vars == <<db, list, seen, status, edits, kept, distinct, anchored>>

Item == IF db = "pool4" THEN Entry ELSE Prefix

Equals(one, two) ==
  IF db = "pool4" THEN pool4_equals(one, two) ELSE prefix6_equals(one, two)

(* The nodes that equal the offset.                                        *)
Nodes(offset) == {k \in DOMAIN list : Equals(offset, list[k])}

(* Bound on the items collected; only a list that holds an item twice      *)
(* makes a listing this long.                                              *)
MaxSeen == MaxEntries + MaxEdits

Distinct(s) == \A j, k \in DOMAIN s : Equals(s[j], s[k]) => j = k

(* Mutation: the offset's own item handed out again.                       *)
From(offset) == SubSeq(list, First(Nodes(offset)), Len(list))

(* Mutation: the offset not looked at.                                     *)
Everything(offset) == list

(***************************************************************************)
(* The items after the first one that equals the offset: offset becomes    *)
(* NULL at that node, and the loop goes on with the next one.              *)
(***************************************************************************)
After(offset) == SubSeq(list, First(Nodes(offset)) + 1, Len(list))

Init ==
  /\ db \in {"pool4", "client"}
  /\ list \in BoundedSeq(Item, MaxEntries)
  /\ seen = << >>
  /\ status = "listing"
  /\ edits = 0
  /\ kept = ToSet(list)
  /\ distinct = Distinct(list)
  /\ anchored = TRUE

(* Mutation: 0 returned when the callback fails.                           *)
TakeAsLast(rest) ==
  /\ seen' = seen \o SubSeq(rest, 1, IF Len(rest) < PageSize THEN Len(rest) ELSE PageSize)
  /\ status' = "done"

(* The items one call hands to the callback, which fails once it has     *)
(* taken PageSize of them; a call that does not fail was the last one.     *)
Take(rest) ==
  IF Len(rest) >= PageSize
  THEN seen' = seen \o SubSeq(rest, 1, PageSize) /\ status' = status
  ELSE seen' = seen \o rest /\ status' = "done"

(* Mutation: an offset that is the last node taken for a missing one.      *)
FoundBeforeLast(offset) == Nodes(offset) \ {Len(list)} # {}

Found(offset) == Nodes(offset) # {}

(* One call.  The offset is NULL at first.                                 *)
foreach_sample ==
  /\ status = "listing"
  /\ Len(seen) <= MaxSeen
  /\ IF seen = << >> THEN Take(list)
     ELSE IF Found(Last(seen)) THEN Take(After(Last(seen)))
     ELSE status' = "esrch" /\ seen' = seen
  /\ UNCHANGED <<db, list, edits, kept, distinct, anchored>>

Edit(new) ==
  /\ status = "listing"
  /\ edits < MaxEdits
  /\ edits' = edits + 1
  /\ list' = new
  /\ kept' = kept \cap ToSet(new)
  /\ distinct' = (distinct /\ Distinct(new))
  /\ UNCHANGED <<db, seen, status>>

Add(x) ==
  /\ Len(list) < MaxEntries
  /\ Edit(IF db = "pool4" THEN pool4_add(list, x) ELSE client_add(list, x))
  /\ UNCHANGED anchored

(* A removed prefix may still be in the list, further on.                  *)
Delete(x) ==
  /\ Edit(IF db = "pool4" THEN pool4_rm(list, x) ELSE client_delete(list, x))
  /\ anchored' = (anchored /\ (seen # << >> => Last(seen) # x))

Next ==
  \/ foreach_sample
  \/ \E x \in Item : Add(x) \/ Delete(x)

(* The caller goes on listing; nobody is obliged to edit.                  *)
Spec == Init /\ [][Next]_vars /\ WF_vars(foreach_sample)

-----------------------------------------------------------------------------
TypeOK ==
  /\ db \in {"pool4", "client"}
  /\ list \in Seq(Item)
  /\ seen \in Seq(Item)
  /\ status \in {"listing", "done", "esrch"}
  /\ edits \in 0 .. MaxEdits
  /\ kept \subseteq Item
  /\ distinct \in BOOLEAN
  /\ anchored \in BOOLEAN

(* A listing that ends without an error has every item that was there all  *)
(* the time, whatever was added or removed between the pages: unless the   *)
(* item a call was to go on from was removed and another one like it is    *)
(* found further on, which skips the items between.                        *)
NothingMissed ==
  status = "done" /\ anchored => kept \subseteq ToSet(seen)

(* As long as the list holds no item twice, a listing does not return to   *)
(* an item that was there all the time.                                    *)
NothingRepeated ==
  distinct =>
    \A j, k \in DOMAIN seen : seen[j] = seen[k] /\ seen[j] \in kept => j = k

(* As long as the list holds no item twice, the listing ends; after a      *)
(* node that has an equal one before it, it would start over again.        *)
ListingEnds == []distinct => <>(status # "listing")

(* The listing fails only because its last item was removed meanwhile.     *)
EsrchMeansRemoved ==
  status = "esrch" => seen # << >> /\ Last(seen) \notin kept
=============================================================================
