---------------------------- MODULE MaskDomain -----------------------------
(***************************************************************************)
(* A caller that asks client_get_mask_domain() for the window of masks of  *)
(* a client, keeps the struct client_mask_domain, and later takes masks    *)
(* out of it with pool4_get_nth_taddr().  The struct names its first mask  *)
(* by value; nothing ties it to the lists, which may be edited between the *)
(* two calls.                                                              *)
(***************************************************************************)
EXTENDS Windows

CONSTANTS
  PerClient,    (* The values of masks_per_client callers pass.              *)
  Index         (* The values of n callers pass.                             *)

ASSUME MaskDomainAssumption ==
  /\ PerClient \subseteq Nat
  /\ Index \subseteq Nat

VARIABLES
  domain,       (* The caller's struct client_mask_domain.                   *)
  error,        (* What client_get_mask_domain() returned for it.            *)
  window,       (* The place and width of the window the struct was filled   *)
                (* for, until a removal touches the pool: NoWindow then.     *)
  holder,       (* The address the struct was filled for, until a removal    *)
                (* moves its client or touches the pool: none then.          *)
  taken,        (* The last call, if it was pool4_get_nth_taddr().           *)
  given         (* The masks taken for holders out of windows of one width,  *)
                (* until a removal moves their client or touches the pool.   *)

vars == <<cpool, clients, domain, error, window, holder, taken, given>>

(* Stands for whatever the caller's memory holds before a first write.     *)
Unwritten == [first |-> [l3 |-> 0, l4 |-> 0], step |-> 0, count |-> 0]
NoWindow == [place |-> 0, count |-> 0]
(* Marks a call that divides by zero instead of returning.                 *)
Trap == 2

NotTaken == [call |-> "other"]

(* client_get_mask_domain() writes the struct when the window exists.      *)
Written(s, mpc) == [first |-> TaddrOf(cpool, s), step |-> 1, count |-> mpc]

Took(n, ret, mask) ==
  [call |-> "get_nth_taddr", index |-> n, ret |-> ret, mask |-> mask]

-----------------------------------------------------------------------------
Init ==
  /\ cpool = << >>
  /\ clients = << >>
  /\ domain = Unwritten
  /\ error = 1
  /\ window = NoWindow
  /\ holder = {}
  /\ taken = NotTaken
  /\ given = {}

(* The struct is passed by address and keeps its value when there is       *)
(* nothing to write; the caller sees the error only.                       *)
GetMaskDomain(addr, mpc) ==
  LET err == mask_domain_error(cpool, clients, addr, mpc)
      k == ClientPlace(clients, addr)
      start == IF err = 0 THEN DomainStart(cpool, k - 1, mpc) ELSE {}
  IN  /\ error' = err
      /\ IF start = {}
         THEN domain' = domain /\ window' = NoWindow /\ holder' = {}
         ELSE /\ \E s \in start : domain' = Written(s, mpc)
              /\ window' = [place |-> k, count |-> mpc]
              /\ holder' = {addr}
      /\ given' = {g \in given : g.count = mpc}
      /\ taken' = NotTaken
      /\ UNCHANGED <<cpool, clients>>

(* Callers go on to take masks when no error was returned.                 *)
GetNthTaddr(n) ==
  /\ error = 0
  /\ domain # Unwritten
  /\ LET index == n % domain.count
         masks == get_nth_taddr(cpool, domain, n)
     IN  IF masks = {}
         THEN taken' = Took(index, -ESRCH, Unwritten.first) /\ given' = given
         ELSE \E mask \in masks :
                /\ taken' = Took(index, 0, mask)
                /\ given' = given \cup
                     {[src |-> addr, place |-> window.place,
                       count |-> window.count, index |-> index,
                       mask |-> mask] : addr \in holder}
  /\ UNCHANGED <<cpool, clients, domain, error, window, holder>>

(* With a struct that was never written, count and first are whatever the  *)
(* memory holds: n % 0 traps, and otherwise any mask may come out.         *)
GetNthUnwritten ==
  /\ error = 0
  /\ domain = Unwritten
  /\ \/ taken' = Took(0, -ESRCH, Unwritten.first)
     \/ taken' = Took(0, Trap, Unwritten.first)
     \/ \E mask \in Taddrs(cpool) : taken' = Took(0, 0, mask)
  /\ UNCHANGED <<cpool, clients, domain, error, window, holder, given>>

(* Edits of the lists between the caller's calls.                          *)
Extend ==
  /\ \/ \E e \in Entry : Pool4Add(e)
     \/ \E p \in Prefix : ClientAdd(p)
  /\ taken' = NotTaken
  /\ UNCHANGED <<domain, error, window, holder, given>>

(* The clients before the deleted one keep their places.                   *)
DeleteClient(p) ==
  /\ ClientDelete(p)
  /\ holder' = IF BeforeDeleted(window.place, p) THEN holder ELSE {}
  /\ given' = {g \in given : BeforeDeleted(g.place, p)}
  /\ taken' = NotTaken
  /\ UNCHANGED <<domain, error, window>>

FlushClients ==
  /\ ClientFlush
  /\ holder' = {} /\ given' = {}
  /\ taken' = NotTaken
  /\ UNCHANGED <<domain, error, window>>

Remove ==
  /\ (\E e \in Entry : Pool4Rm(e)) \/ Pool4Flush
  /\ IF cpool' = cpool THEN UNCHANGED <<window, holder, given>>
     ELSE window' = NoWindow /\ holder' = {} /\ given' = {}
  /\ taken' = NotTaken
  /\ UNCHANGED <<domain, error>>

Next ==
  \/ \E addr \in Source, mpc \in PerClient : GetMaskDomain(addr, mpc)
  \/ \E n \in Index : GetNthTaddr(n)
  \/ GetNthUnwritten
  \/ Extend
  \/ \E p \in Prefix : DeleteClient(p)
  \/ FlushClients
  \/ Remove

Spec == Init /\ [][Next]_vars

-----------------------------------------------------------------------------
MaskDomains ==
  {Unwritten} \cup [first : Taddr, step : {1}, count : PerClient \ {0}]

(* The struct holds a window of a width some caller asked for, and what    *)
(* was taken is a transport address, an error or a trap.                   *)
TypeOK ==
  /\ cpool \in Seq(Entry)
  /\ clients \in Seq(Client)
  /\ domain \in MaskDomains
  /\ error \in {0, 1, -ESRCH}
  /\ window \in [place : Nat, count : Nat]
  /\ holder \in {{}} \cup {{addr} : addr \in Source}
  /\ taken \in {NotTaken} \cup
       [call : {"get_nth_taddr"}, index : Nat, ret : {0, -ESRCH, Trap},
        mask : Taddr]
  /\ given \subseteq
       [src : Source, place : Nat, count : Nat, index : Nat, mask : Taddr]

(* The struct that was filled for a window still names the first mask of   *)
(* that window, whatever was appended to the pool since.                   *)
WindowCurrent ==
  window # NoWindow =>
    /\ domain.count = window.count
    /\ \E s \in DomainStart(cpool, window.place - 1, window.count) :
         domain.first = TaddrOf(cpool, s)

(* The n-th mask pool4_get_nth_taddr() takes out of the window with number *)
(* place - 1 is the mask n slots after the window's first one: its walk    *)
(* over the pool and that of pool4_taddr4_find_pos() count alike, across   *)
(* the ends of ranges.                                                     *)
GivenIsNth ==
  NoOverlap(cpool) =>
    \A g \in given :
      \E s \in Slots(cpool) :
        /\ g.mask = TaddrOf(cpool, s)
        /\ Rank(cpool, s) = (g.place - 1) * g.count + g.index

(* No mask is taken for two clients, nor as two masks of one client, by    *)
(* pool4_get_nth_taddr() in windows of one width: whatever was added to    *)
(* both lists since the masks were taken, and whatever clients were        *)
(* deleted behind those they were taken for, two addresses that hold one   *)
(* mask are addresses of one client of the list as it is.                  *)
WindowsDisjoint ==
  NoOverlap(cpool) =>
    \A g, h \in given :
      g.mask = h.mask =>
        /\ ClientPlace(clients, g.src) = ClientPlace(clients, h.src)
        /\ g.index = h.index

(* A mask taken out of a written struct is one of the pool as it is now,   *)
(* even if entries were removed since the struct was filled.               *)
TakenFromPool ==
  taken # NotTaken /\ taken.ret = 0 => taken.mask \in Taddrs(cpool)

(* pool4_get_nth_taddr() gives up on a window it was handed only where the *)
(* pool ends, or when the window starts at the last port of a range.       *)
NthServed ==
  taken # NotTaken /\ taken.ret # 0 /\ window # NoWindow /\ NoOverlap(cpool) =>
    \/ (window.place - 1) * window.count + taken.index >= Cardinality(Slots(cpool))
    \/ \E k \in DOMAIN cpool : /\ cpool[k].addr = domain.first.l3
                               /\ cpool[k].max = domain.first.l4

-----------------------------------------------------------------------------
(* "Get 1st taddr" (nf_hook.c:1400): the first mask of a window that       *)
(* client_get_mask_domain() found can be taken.                            *)
FirstMaskServed ==
  taken # NotTaken /\ taken.index = 0 /\ window # NoWindow => taken.ret = 0
=============================================================================
