----------------------------- MODULE MaskCalls -----------------------------
(***************************************************************************)
(* get_mask() and pool4_get_nth_taddr() one turn of their loops at a time. *)
(* GetMask takes a whole call for one step and finds windows by the number *)
(* of slots before them; here the counters of the code do the finding, and *)
(* each way through get_mask() is shown to be a step of GetMask.  Callers  *)
(* edit the lists between two calls: nothing in the code runs beside one.  *)
(***************************************************************************)
EXTENDS GetMask

CONSTANT Index        (* The values of n pool4_get_nth_taddr() is passed.    *)

ASSUME MaskCallsAssumption == Index \subseteq Nat

VARIABLES
  caller,       (* Which of the two functions this caller uses.              *)
  frame,        (* The arguments and locals of the call in progress.         *)
  taken         (* What pool4_get_nth_taddr() was asked and returned.        *)

calls_vars == <<vars, caller, frame, taken>>

NotTaken == [call |-> "other"]

NoDomain == [first |-> Spool, step |-> 1, count |-> 1]

(***************************************************************************)
(* pc names the loop the call is in.  k and i are the node and the turn or *)
(* port of that loop.  before is the client list as the caller left it.    *)
(***************************************************************************)
Idle ==
  [pc |-> "idle", src |-> [w \in 1..4 |-> 0], before |-> << >>,
   k |-> 0, i |-> 0, dummy |-> [w \in 1..4 |-> 0],
   ipv6_pos |-> 0, counter |-> 0, ports_pos |-> 0,
   dom |-> [set |-> FALSE, at |-> {}], n |-> 0,
   domain |-> NoDomain, asked |-> 0, flag |-> FALSE]

(* The step of a call that is in the loop named pc.                        *)
In(pc) == frame.pc = pc

Goto(f) == frame' = f /\ UNCHANGED <<vars, caller, taken>>

(* The walk over the clients, the search among them, and the loops over    *)
(* the ports of the pool, each from its beginning.                         *)
FirstAddr(k) == IF k \in DOMAIN clients THEN clients[k].address ELSE frame.dummy

(* Mutation: the port not set to range.min when a range is entered.        *)
PortZero(k) == 0

FirstPort(k) == IF k \in DOMAIN cpool THEN cpool[k].min ELSE 0

AtPorts(f, pc) == [f EXCEPT !.pc = pc, !.k = 1, !.i = FirstPort(1)]

Here == <<frame.k, frame.i>>
AtSlot == frame.k \in DOMAIN cpool /\ frame.i <= cpool[frame.k].max
PastPorts == frame.k \in DOMAIN cpool /\ frame.i > cpool[frame.k].max
PastPool == frame.k > Len(cpool)

-----------------------------------------------------------------------------
CallsInit ==
  /\ Init
  /\ caller \in {"get_mask", "pool4_get_nth_taddr"}
  /\ frame = Idle
  /\ taken = NotTaken

(* get_mask() returns: the step that a call is in GetMask.                 *)
Return(err, dom, from, mask) ==
  /\ answer' = Answer(frame.src, err, dom, from, mask)
  /\ frame' = Idle
  /\ UNCHANGED <<cpool, clients, masks_per_client, caller, taken>>

CallGetMask(src) ==
  /\ In("idle") /\ caller = "get_mask"
  /\ IF pool4_is_empty(cpool)
     THEN /\ answer' = Answer(src, 0, "none", "spool", Spool)
          /\ UNCHANGED <<cpool, clients, masks_per_client, grants, caller, frame, taken>>
     ELSE Goto([frame EXCEPT !.pc = "addr_exist", !.src = src,
                             !.before = clients, !.k = 1, !.dummy = FirstAddr(1)])

InPrefix == frame.k \in DOMAIN clients /\ frame.i < get_addr6_count(clients[frame.k])

(* client_addr_exist(): the addresses of each prefix, one by one.          *)
AddrExistTurn ==
  /\ In("addr_exist") /\ InPrefix
  /\ IF frame.dummy = frame.src
     THEN Goto([frame EXCEPT !.pc = "compare"])
     ELSE Goto([frame EXCEPT !.dummy = addr6_iterations(@), !.i = @ + 1])

(* Mutation: the walk begins the same prefix again.                        *)
AddrExistAgain ==
  /\ In("addr_exist") /\ ~InPrefix /\ frame.k \in DOMAIN clients
  /\ Goto([frame EXCEPT !.i = 0, !.dummy = FirstAddr(frame.k)])

AddrExistNext ==
  /\ In("addr_exist") /\ ~InPrefix /\ frame.k \in DOMAIN clients
  /\ Goto([frame EXCEPT !.k = @ + 1, !.i = 0, !.dummy = FirstAddr(frame.k + 1)])

(* The address was not found: it becomes a client if memory allows.        *)
AddDynamic ==
  /\ In("addr_exist") /\ frame.k > Len(clients)
  /\ \E ok \in MayAllocate(clients, MaxClients) :
       clients' = IF ok THEN client_add(clients, dynamic_prefix(frame.src)) ELSE clients
  /\ frame' = [frame EXCEPT !.pc = "compare"]
  /\ UNCHANGED <<cpool, masks_per_client, answer, grants, caller, taken>>

(* client_get_mask_domain() begins by comparing the two counts.            *)
Compare ==
  /\ In("compare")
  /\ IF client_count(clients) > pool4_count(cpool)
     THEN Return(1, "none", "none", Spool) /\ UNCHANGED grants
     ELSE Goto([frame EXCEPT !.pc = "contains", !.k = 1])

(* It numbers the clients until a prefix contains the address.             *)
ContainsTurn ==
  /\ In("contains") /\ frame.k \in DOMAIN clients
  /\ IF ~prefix_contains(clients[frame.k], frame.src)
     THEN Goto([frame EXCEPT !.k = @ + 1, !.ipv6_pos = @ + 1])
     ELSE IF masks_per_client = 0
     THEN Return(1, "none", "none", Spool) /\ UNCHANGED grants
     ELSE Goto(AtPorts(frame, "find_pos"))

ContainsEnd ==
  /\ In("contains") /\ frame.k > Len(clients)
  /\ Return(-ESRCH, "none", "none", Spool) /\ UNCHANGED grants

(* pool4_taddr4_find_pos(): ports_pos numbers the windows, counter the     *)
(* masks.                                                                  *)
Wanted == frame.ipv6_pos = frame.ports_pos

(* Mutation: ports_pos counted at each mask.                               *)
WindowStarts_Always == TRUE

WindowStarts == frame.counter % masks_per_client = 0

FindPosTurn ==
  /\ In("find_pos") /\ AtSlot
  /\ LET moved == [frame EXCEPT !.i = @ + 1, !.counter = @ + 1]
         found == [set |-> TRUE, at |-> {TaddrOf(cpool, Here)}]
     IN  IF ~WindowStarts THEN Goto(moved)
         ELSE Goto([moved EXCEPT !.ports_pos = @ + 1,
                                 !.dom = IF Wanted THEN found ELSE @])

(* Back in get_mask(), whose mask_domain may not have been written: its    *)
(* members are then whatever the stack holds.                              *)
FindPosEnd ==
  /\ In("find_pos") /\ PastPool
  /\ IF frame.dom.set
     THEN Goto([AtPorts(frame, "masks") EXCEPT !.n = masks_per_client])
     ELSE \E dom \in DomainUnset(cpool), n \in PerClient :
            Goto([AtPorts(frame, "masks") EXCEPT !.dom = dom, !.n = n])

How == IF frame.dom.set THEN "set" ELSE "unset"

(* Mutation: the address of the range not compared.                        *)
MatchesPort == \E m \in frame.dom.at : m.l4 = frame.i

Matches == TaddrOf(cpool, Here) \in frame.dom.at

(* The loop over the masks.  It is left for the next range when n reaches  *)
(* zero.                                                                   *)
MaskTurn ==
  /\ In("masks") /\ AtSlot
  /\ LET mask == TaddrOf(cpool, Here)
     IN  IF ~Matches THEN Goto([frame EXCEPT !.i = @ + 1])
         ELSE IF ~bibdb_contains4(mask)
         THEN /\ Return(0, How, "cpool", mask)
              /\ grants' = IF frame.dom.set
                           THEN grants \cup {[place |-> frame.ipv6_pos + 1,
                                              src |-> frame.src, mask |-> mask]}
                           ELSE grants
         ELSE IF frame.n = 1
         THEN Goto([frame EXCEPT !.n = 0, !.k = @ + 1, !.i = FirstPort(frame.k + 1)])
         ELSE Goto([frame EXCEPT !.n = @ - 1, !.i = @ + 1])

MasksEnd ==
  /\ In("masks") /\ PastPool
  /\ Return(0, How, "spool", Spool) /\ UNCHANGED grants

NextEntry ==
  /\ In("find_pos") \/ In("masks")
  /\ PastPorts
  /\ Goto([frame EXCEPT !.k = @ + 1, !.i = FirstPort(frame.k + 1)])

-----------------------------------------------------------------------------
(* pool4_get_nth_taddr() with the struct of a window of the pool as it is, *)
(* or as it was before some entries came or went.                          *)
KeptDomains ==
  {[first |-> [l3 |-> e.addr, l4 |-> p], step |-> 1, count |-> c] :
     e \in Entry, p \in 0..MaxPort, c \in PerClient \ {0}}

CallNthTaddr(domain, n) ==
  /\ In("idle") /\ caller = "pool4_get_nth_taddr"
  /\ frame' = [frame EXCEPT !.pc = "entries", !.domain = domain, !.asked = n,
                            !.n = n % domain.count, !.k = 1]
  /\ taken' = NotTaken
  /\ UNCHANGED <<vars, caller>>

Took(ret, mask) ==
  /\ taken' = [call |-> "get_nth_taddr", domain |-> frame.domain,
               n |-> frame.asked, ret |-> ret, mask |-> mask]
  /\ frame' = Idle
  /\ UNCHANGED <<vars, caller>>

HoldsFirst(e) ==
  /\ frame.domain.first.l3 = e.addr
  /\ e.min <= frame.domain.first.l4
  /\ e.max > frame.domain.first.l4

(* Mutation: every range entered at the port of the first mask.            *)
StartAtFirst(e) == frame.domain.first.l4

(* The first range is entered at the window's first port, the others at    *)
(* their own.                                                              *)
StartPort(e) == IF frame.flag THEN e.min ELSE frame.domain.first.l4

EntryTurn ==
  /\ In("entries") /\ frame.k \in DOMAIN cpool
  /\ LET e == cpool[frame.k]
     IN  IF HoldsFirst(e) \/ frame.flag
         THEN Goto([frame EXCEPT !.pc = "ports", !.i = StartPort(e)])
         ELSE Goto([frame EXCEPT !.k = @ + 1])

PortTurn ==
  /\ In("ports") /\ AtSlot
  /\ IF frame.n = 0
     THEN Took(0, TaddrOf(cpool, Here))
     ELSE Goto([frame EXCEPT !.n = @ - 1, !.i = @ + frame.domain.step])

PortsEnd ==
  /\ In("ports") /\ PastPorts
  /\ Goto([frame EXCEPT !.pc = "entries", !.flag = TRUE, !.k = @ + 1])

EntriesEnd == In("entries") /\ PastPool /\ Took(-ESRCH, Spool)

-----------------------------------------------------------------------------
(* Edits of the lists between two calls.  The pool alone is handed to      *)
(* pool4_get_nth_taddr().                                                  *)
EditPool ==
  /\ (\E e \in Entry : AddEntry(e) \/ RemoveEntry(e)) \/ FlushEntries
  /\ In("idle") /\ taken' = NotTaken
  /\ UNCHANGED <<caller, frame>>

EditClients ==
  /\ caller = "get_mask"
  /\ (\E p \in Prefix : AddClient(p) \/ DeleteClient(p)) \/ FlushClients
  /\ In("idle") /\ UNCHANGED <<caller, frame, taken>>

(* The turns of the call in progress.                                      *)
CallStep ==
  \/ AddrExistTurn \/ AddrExistNext \/ AddDynamic
  \/ Compare \/ ContainsTurn \/ ContainsEnd
  \/ FindPosTurn \/ FindPosEnd \/ MaskTurn \/ MasksEnd \/ NextEntry
  \/ EntryTurn \/ PortTurn \/ PortsEnd \/ EntriesEnd

CallsNext ==
  \/ \E src \in Source : CallGetMask(src)
  \/ \E domain \in KeptDomains, n \in Index : CallNthTaddr(domain, n)
  \/ CallStep
  \/ EditPool
  \/ EditClients

(* A function that was called runs on; nobody is obliged to call or edit.  *)
CallsSpec == CallsInit /\ [][CallsNext]_calls_vars /\ WF_calls_vars(CallStep)

-----------------------------------------------------------------------------
(* Until the call returns, GetMask's client list is the one it began with. *)
Assignment ==
  INSTANCE GetMask WITH clients <- IF In("idle") THEN clients ELSE frame.before

(* The counters and loops of get_mask() do what GetMask says of a call:    *)
(* every result of the code, in every order of calls and edits, is one     *)
(* that the numbering of slots allows, and the lists change as it says.    *)
AssignsMasks == Assignment!Spec

(* So the masks that the loops hand out are what GetMask promises, at each *)
(* turn: a mask stays the one of its client while others are added, it is  *)
(* nobody else's in a pool that holds no mask twice, a source is listed    *)
(* once, mask_domain is read unwritten neither with one mask per client    *)
(* nor from a pool with a window for each, and the two ways to look for an *)
(* address agree on aligned prefixes.                                      *)
MasksKept ==
  /\ Assignment!GrantsCurrent
  /\ Assignment!Exclusive
  /\ Assignment!Stable
  /\ Assignment!DynamicOnce
  /\ Assignment!OneMaskIsAssigned
  /\ Assignment!ServedWhenEnough
  /\ Assignment!AlignedFound
  /\ Assignment!GrantedToWalker

(* A call is in one of its loops, and the loops stay on the lists: no      *)
(* counter gets past the slots.  n falls below zero when the pool holds    *)
(* the mask several times, once for each range at the most.                *)
FrameOK ==
  /\ frame.pc \in {"idle", "addr_exist", "compare", "contains", "find_pos",
                   "masks", "entries", "ports"}
  /\ frame.src \in in6_addr /\ frame.dummy \in in6_addr
  /\ frame.before \in Seq(Client)
  /\ frame.k \in 0 .. Len(cpool) + Len(clients) + 1
  /\ frame.i \in Nat
  /\ frame.ipv6_pos \in 0 .. Len(clients)
  /\ frame.counter \in 0 .. Cardinality(Slots(cpool))
  /\ frame.ports_pos \in 0 .. frame.counter
  /\ frame.dom.set \in BOOLEAN /\ frame.dom.at \subseteq Taddrs(cpool)
  /\ frame.n \in Int /\ frame.n >= - Len(cpool)
  /\ frame.domain \in KeptDomains \cup {NoDomain}
  /\ frame.flag \in BOOLEAN

(* In pool4_taddr4_find_pos(), counter is the number of slots before the   *)
(* turn, ports_pos the number of windows that began there, and the struct  *)
(* has been written when, and only when, the wanted window has been        *)
(* passed: with the mask at rank ipv6_pos * masks_per_client.              *)
CountersAgree ==
  In("find_pos") =>
    LET behind == IF AtSlot THEN Before(cpool, Here)
                  ELSE {s \in Slots(cpool) : s[1] <= frame.k}
        start == frame.ipv6_pos * masks_per_client
    IN  /\ frame.counter = Cardinality(behind)
        /\ masks_per_client * frame.ports_pos
             \in frame.counter .. frame.counter + masks_per_client - 1
        /\ frame.dom.at = {TaddrOf(cpool, s) : s \in {s \in behind : Rank(cpool, s) = start}}

(* pool4_get_nth_taddr(), with its countdown and its flag, returns what    *)
(* the walk in slot order says, for windows of the pool and for stale ones.*)
NthAgrees ==
  taken # NotTaken =>
    LET masks == get_nth_taddr(cpool, taken.domain, taken.n)
    IN  IF masks = {} THEN taken.ret = -ESRCH
        ELSE taken.ret = 0 /\ taken.mask \in masks

(* Every call returns.                                                     *)
CallsReturn == ~In("idle") ~> In("idle")
=============================================================================
