-------------------------- MODULE MaskCallsProofs --------------------------
(***************************************************************************)
(* Proofs about the loops of get_mask() and pool4_get_nth_taddr(), for     *)
(* every pool, client list, word width and number of masks per client:     *)
(* their counters find what the numbering of slots says, and get_mask()    *)
(* taken turn by turn implements the one step GetMask makes of a call.     *)
(***************************************************************************)
EXTENDS MaskCalls, DatabaseLemmas

-----------------------------------------------------------------------------
LEMMA ClientIsPrefix == Client \subseteq ipv6_prefix
<1>1. ASSUME NEW a \in Source PROVE dynamic_prefix(a) \in ipv6_prefix
  <2>1. AddrBits \in 0 .. AddrBits
    BY TypesAssumption DEF AddrBits
  <2> QED BY <2>1, DatabasesAssumption DEF dynamic_prefix, ipv6_prefix
<1> QED BY <1>1, ClientAssumption DEF Client

-----------------------------------------------------------------------------
(* The inductive invariant: what holds at each loop of a call.             *)

Frames ==
  [pc : {"idle", "addr_exist", "compare", "contains", "find_pos", "masks",
         "entries", "ports"},
   src : in6_addr, before : Seq(Client), k : Nat, i : Nat, dummy : in6_addr,
   ipv6_pos : Nat, counter : Nat, ports_pos : Nat,
   dom : [set : BOOLEAN, at : SUBSET Taddr], n : Int,
   domain : KeptDomains \cup {NoDomain}, asked : Nat, flag : BOOLEAN]

CallType ==
  /\ cpool \in Seq(Entry)
  /\ clients \in Seq(Client)
  /\ masks_per_client \in PerClient
  /\ caller \in {"get_mask", "pool4_get_nth_taddr"}
  /\ frame \in Frames

(* Each caller is in the loops of its own function only; one that never    *)
(* calls get_mask() has no clients.                                        *)
OwnLoops ==
  IF caller = "get_mask"
  THEN ~In("entries") /\ ~In("ports") /\ taken = NotTaken
  ELSE /\ In("idle") \/ In("entries") \/ In("ports")
       /\ clients = << >> /\ frame.before = << >>

InIdle == In("idle") => frame = Idle

(* What get_mask() was asked, before the counters of its loops move.       *)
Asked == frame.src \in Source /\ cpool # << >>

Fresh ==
  /\ frame.counter = 0 /\ frame.ports_pos = 0
  /\ frame.dom = [set |-> FALSE, at |-> {}]
  /\ frame.n = 0

(* The list that client_get_mask_domain() numbers.                         *)
Known ==
  clients \in IF client_addr_exist(frame.before, frame.src) THEN {frame.before}
              ELSE {IF ok THEN client_add(frame.before, dynamic_prefix(frame.src))
                    ELSE frame.before :
                      ok \in MayAllocate(frame.before, MaxClients)}

(* The walk is at a turn of a prefix, and the address was none of those    *)
(* before it.                                                              *)
InAddrExist ==
  In("addr_exist") =>
    /\ Asked /\ Fresh /\ frame.ipv6_pos = 0
    /\ clients = frame.before
    /\ frame.k \in 1 .. Len(clients) + 1
    /\ \A j \in 1 .. frame.k - 1 : \A t \in DOMAIN Walk(clients[j]) :
         Walk(clients[j])[t] # frame.src
    /\ frame.k \in DOMAIN clients =>
         /\ frame.i \in 0 .. get_addr6_count(clients[frame.k])
         /\ InPrefix => frame.dummy = Walk(clients[frame.k])[frame.i + 1]
         /\ \A t \in 1 .. frame.i : Walk(clients[frame.k])[t] # frame.src

InCompare ==
  In("compare") =>
    /\ Asked /\ Fresh /\ frame.ipv6_pos = 0 /\ Known
    /\ frame.k \in 1 .. Len(clients) + 1

InContains ==
  In("contains") =>
    /\ Asked /\ Fresh /\ Known
    /\ frame.k \in 1 .. Len(clients) + 1
    /\ frame.ipv6_pos = frame.k - 1
    /\ ~(client_count(clients) > pool4_count(cpool))
    /\ \A j \in 1 .. frame.k - 1 : ~prefix_contains(clients[j], frame.src)

(* A client was found, and ipv6_pos is the number of those before it.      *)
Chosen ==
  /\ Asked /\ Known
  /\ mask_domain_error(cpool, clients, frame.src, masks_per_client) = 0
  /\ frame.ipv6_pos + 1 = ClientPlace(clients, frame.src)
  /\ frame.ipv6_pos + 1 \in DOMAIN clients

OnPool ==
  /\ frame.k \in 1 .. Len(cpool) + 1
  /\ frame.k \in DOMAIN cpool => cpool[frame.k].min <= frame.i

(* The window's first slot, once it has been passed.                       *)
StartBehind ==
  {s \in Before(cpool, Here) :
     Rank(cpool, s) = frame.ipv6_pos * masks_per_client}

InFindPos ==
  In("find_pos") =>
    /\ Chosen /\ OnPool /\ frame.n = 0
    /\ frame.counter = Rank(cpool, Here)
    /\ masks_per_client * frame.ports_pos
         \in frame.counter .. frame.counter + masks_per_client - 1
    /\ frame.dom = [set |-> StartBehind # {},
                    at |-> {TaddrOf(cpool, s) : s \in StartBehind}]

(* No free mask of the domain was passed.  n was counted down at most once *)
(* in each range.                                                          *)
InMasks ==
  In("masks") =>
    /\ Chosen /\ OnPool
    /\ frame.counter \in 0 .. Cardinality(Slots(cpool))
    /\ frame.ports_pos \in 0 .. frame.counter
    /\ frame.dom \in get_mask_domain(cpool, frame.ipv6_pos + 1, masks_per_client)
    /\ \A s \in Before(cpool, Here) : TaddrOf(cpool, s) \notin Free(frame.dom)
    /\ frame.n >= - frame.k
    /\ (frame.k \in DOMAIN cpool => \A m \in frame.dom.at : m.l4 >= frame.i)
         => frame.n >= 1 - frame.k

(* pool4_get_nth_taddr(): where its walk starts, and how far it has come.  *)
Holders == HoldingFirst(cpool, frame.domain)

Turns == Visited(cpool, frame.domain)

(* The countdown of n, with this many turns of the walk done.              *)
CountedDown(done) ==
  /\ frame.n >= 0
  /\ frame.n + Cardinality(done) = frame.asked % frame.domain.count

Nothing ==
  /\ frame.counter = 0 /\ frame.ports_pos = 0 /\ frame.ipv6_pos = 0
  /\ frame.dom = [set |-> FALSE, at |-> {}]

InEntries ==
  In("entries") =>
    /\ Nothing /\ frame.domain \in KeptDomains
    /\ frame.k \in 1 .. Len(cpool) + 1
    /\ frame.flag = \E j \in Holders : j < frame.k
    /\ CountedDown(IF frame.flag THEN {t \in Turns : t[1] < frame.k} ELSE {})

InPorts ==
  In("ports") =>
    /\ Nothing /\ frame.domain \in KeptDomains
    /\ frame.k \in DOMAIN cpool
    /\ Holders # {} /\ First(Holders) <= frame.k
    /\ frame.flag = (First(Holders) < frame.k)
    /\ StartPort(cpool[frame.k]) <= frame.i
    /\ CountedDown({t \in Turns : Precedes(t, Here)})

IInv ==
  /\ CallType /\ OwnLoops
  /\ InIdle /\ InAddrExist /\ InCompare /\ InContains
  /\ InFindPos /\ InMasks /\ InEntries /\ InPorts
  /\ NthAgrees

(* Each loop's part of the invariant is about the calls that are in it.    *)
LEMMA Elsewhere ==
  /\ frame'.pc # "idle" => InIdle'
  /\ frame'.pc # "addr_exist" => InAddrExist'
  /\ frame'.pc # "compare" => InCompare'
  /\ frame'.pc # "contains" => InContains'
  /\ frame'.pc # "find_pos" => InFindPos'
  /\ frame'.pc # "masks" => InMasks'
  /\ frame'.pc # "entries" => InEntries'
  /\ frame'.pc # "ports" => InPorts'
<1>1. frame'.pc # "idle" => InIdle'
  BY DEF InIdle, In
<1>2. frame'.pc # "addr_exist" => InAddrExist'
  BY DEF InAddrExist, In
<1>3. frame'.pc # "compare" => InCompare'
  BY DEF InCompare, In
<1>4. frame'.pc # "contains" => InContains'
  BY DEF InContains, In
<1>5. frame'.pc # "find_pos" => InFindPos'
  BY DEF InFindPos, In
<1>6. frame'.pc # "masks" => InMasks'
  BY DEF InMasks, In
<1>7. frame'.pc # "entries" => InEntries'
  BY DEF InEntries, In
<1>8. frame'.pc # "ports" => InPorts'
  BY DEF InPorts, In
<1> QED BY <1>1, <1>2, <1>3, <1>4, <1>5, <1>6, <1>7, <1>8

LEMMA IdleType == Idle \in Frames /\ Idle.pc = "idle"
<1>1. [w \in 1 .. 4 |-> 0] \in in6_addr
  <2>1. 0 \in Word
    BY TypesAssumption DEF Word
  <2> QED BY <2>1 DEF in6_addr
<1> QED BY <1>1 DEF Idle, Frames, NoDomain

(* Between two calls.                                                      *)
LEMMA RestsIdle ==
  ASSUME frame' = Idle, cpool' \in Seq(Entry), clients' \in Seq(Client),
         masks_per_client' \in PerClient,
         caller' \in {"get_mask", "pool4_get_nth_taddr"},
         OwnLoops', NthAgrees'
  PROVE  IInv'
<1>1. frame' \in Frames /\ frame'.pc = "idle"
  BY IdleType
<1>2. CallType'
  BY <1>1 DEF CallType
<1>3. InIdle'
  BY DEF InIdle
<1> QED BY <1>1, <1>2, <1>3, Elsewhere DEF IInv

LEMMA InvInit == CallsInit => IInv
<1> SUFFICES ASSUME CallsInit PROVE IInv
  OBVIOUS
<1>1. frame \in Frames /\ frame.pc = "idle" /\ frame = Idle
  BY IdleType DEF CallsInit
<1>2. CallType
  BY <1>1, EmptySeq DEF CallsInit, Init, CallType
<1>3. OwnLoops
  BY <1>1 DEF CallsInit, Init, OwnLoops, In, Idle
<1>4. InIdle /\ InAddrExist /\ InCompare /\ InContains /\ InFindPos
      /\ InMasks /\ InEntries /\ InPorts
  BY <1>1 DEF InIdle, InAddrExist, InCompare, InContains, InFindPos,
     InMasks, InEntries, InPorts, In
<1>5. NthAgrees
  BY DEF CallsInit, NthAgrees
<1> QED BY <1>2, <1>3, <1>4, <1>5 DEF IInv

LEMMA NothingMoves ==
  ASSUME IInv,
         UNCHANGED <<cpool, clients, masks_per_client, caller, frame, taken>>
  PROVE  IInv'
<1>1. CallType' /\ OwnLoops'
  BY DEF IInv, CallType, OwnLoops, In
<1>2. InIdle' /\ InCompare'
  BY DEF IInv, InIdle, InCompare, In, Asked, Fresh, Known
<1>3. InAddrExist'
  BY DEF IInv, InAddrExist, In, Asked, Fresh, InPrefix
<1>4. InContains'
  BY DEF IInv, InContains, In, Asked, Fresh, Known
<1>5. InFindPos'
  BY DEF IInv, InFindPos, In, Asked, Known, Chosen, OnPool, StartBehind, Here
<1>6. InMasks'
  BY DEF IInv, InMasks, In, Asked, Known, Chosen, OnPool, Here
<1>7. InEntries'
  BY DEF IInv, InEntries, In, Nothing, CountedDown, Turns, Holders
<1>8. InPorts'
  BY DEF IInv, InPorts, In, Nothing, CountedDown, Turns, Holders, StartPort,
     Here
<1>9. NthAgrees'
  BY DEF IInv, NthAgrees
<1> QED BY <1>1, <1>2, <1>3, <1>4, <1>5, <1>6, <1>7, <1>8, <1>9 DEF IInv

-----------------------------------------------------------------------------
(* The loops of get_mask().                                                *)

Loops == {"addr_exist", "compare", "contains", "find_pos", "masks"}

(* A call that stays in the loops of get_mask().                           *)
LEMMA GoesOn ==
  ASSUME IInv, caller = "get_mask",
         UNCHANGED <<cpool, masks_per_client, caller, taken>>,
         clients' \in Seq(Client), frame' \in Frames, frame'.pc \in Loops
  PROVE  /\ CallType' /\ OwnLoops' /\ NthAgrees'
         /\ InIdle' /\ InEntries' /\ InPorts'
<1>1. CallType'
  BY DEF IInv, CallType
<1>2. taken' = NotTaken
  BY DEF IInv, OwnLoops
<1>3. OwnLoops'
  BY <1>2 DEF OwnLoops, Loops, In
<1>4. NthAgrees'
  BY <1>2 DEF NthAgrees
<1> QED BY <1>1, <1>3, <1>4, Elsewhere DEF Loops

LEMMA ReturnsIdle ==
  ASSUME IInv, caller = "get_mask",
         UNCHANGED <<cpool, clients, masks_per_client, caller, taken>>,
         frame' = Idle
  PROVE  IInv'
<1>1. taken' = NotTaken
  BY DEF IInv, OwnLoops
<1>2. OwnLoops'
  BY <1>1 DEF OwnLoops, In, Idle
<1> QED BY <1>1, <1>2, RestsIdle DEF IInv, CallType, NthAgrees

LEMMA CallerIs ==
  ASSUME IInv, frame.pc \in Loops
  PROVE  caller = "get_mask"
BY DEF IInv, OwnLoops, In, Loops

LEMMA ClientsAre ==
  ASSUME IInv, NEW k \in DOMAIN clients
  PROVE  /\ DOMAIN clients = 1 .. Len(clients) /\ Len(clients) \in Nat
         /\ clients[k] \in ipv6_prefix /\ clients[k].address \in in6_addr
         /\ get_addr6_count(clients[k]) \in Nat
         /\ DOMAIN Walk(clients[k]) = 1 .. get_addr6_count(clients[k])
<1>1. clients \in Seq(Client)
  BY DEF IInv, CallType
<1>2. clients[k] \in Client
  BY <1>1, LenProperties, ElementOfSeq
<1>3. clients[k] \in ipv6_prefix
  BY <1>2, ClientIsPrefix
<1> QED BY <1>1, <1>3, LenProperties, CountIsNat, WalkIs DEF ipv6_prefix

(* The walk begins a prefix.                                               *)
LEMMA WalkBegins ==
  ASSUME IInv, NEW k \in Nat \ {0}
  PROVE  /\ FirstAddr(k) \in in6_addr
         /\ k \in DOMAIN clients =>
              /\ get_addr6_count(clients[k]) \in Nat
              /\ 0 < get_addr6_count(clients[k]) =>
                   FirstAddr(k) = Walk(clients[k])[1]
<1>1. ASSUME k \in DOMAIN clients
      PROVE  /\ get_addr6_count(clients[k]) \in Nat
             /\ FirstAddr(k) \in in6_addr
             /\ 0 < get_addr6_count(clients[k]) =>
                  FirstAddr(k) = Walk(clients[k])[1]
  <2>1. /\ FirstAddr(k) = clients[k].address
        /\ clients[k] \in ipv6_prefix /\ clients[k].address \in in6_addr
        /\ get_addr6_count(clients[k]) \in Nat
    BY <1>1, ClientsAre DEF FirstAddr
  <2>2. 0 < get_addr6_count(clients[k]) => 1 \in 1 .. get_addr6_count(clients[k])
    BY <2>1
  <2> QED BY <2>1, <2>2, WalkIs
<1>2. k \notin DOMAIN clients => FirstAddr(k) \in in6_addr
  BY DEF FirstAddr, IInv, CallType, Frames
<1> QED BY <1>1, <1>2

LEMMA StepCallGetMask ==
  ASSUME IInv, NEW src \in Source, CallGetMask(src)
  PROVE  IInv'
<1>1. CASE pool4_is_empty(cpool)
  BY <1>1, NothingMoves DEF CallGetMask
<1>2. CASE ~pool4_is_empty(cpool)
  <2>1. frame = Idle /\ caller = "get_mask"
    BY DEF CallGetMask, IInv, InIdle
  <2>2. /\ UNCHANGED <<cpool, clients, masks_per_client, caller, taken>>
        /\ frame' = [frame EXCEPT !.pc = "addr_exist", !.src = src,
                       !.before = clients, !.k = 1, !.dummy = FirstAddr(1)]
    BY <1>2 DEF CallGetMask, Goto, vars
  <2>3. /\ frame'.pc = "addr_exist" /\ frame'.src = src
        /\ frame'.before = clients /\ frame'.k = 1 /\ frame'.i = 0
        /\ frame'.dummy = FirstAddr(1) /\ frame'.ipv6_pos = 0
        /\ frame'.counter = 0 /\ frame'.ports_pos = 0 /\ frame'.n = 0
        /\ frame'.dom = [set |-> FALSE, at |-> {}]
    BY <2>1, <2>2 DEF Idle
  <2>4. src \in in6_addr /\ clients \in Seq(Client)
    BY DatabasesAssumption DEF IInv, CallType
  <2>5. frame' \in Frames
    <3>1. 1 \in Nat \ {0}
      OBVIOUS
    <3>2. FirstAddr(1) \in in6_addr
      BY <3>1, WalkBegins
    <3>3. frame \in Frames
      BY DEF IInv, CallType
    <3> QED BY <2>2, <2>4, <3>1, <3>2, <3>3 DEF Frames
  <2>6. InAddrExist'
    <3>1. Len(clients) \in Nat
      BY <2>4, LenProperties
    <3>2. Asked' /\ Fresh' /\ clients' = frame'.before
          /\ frame'.k \in 1 .. Len(clients') + 1
      BY <1>2, <2>2, <2>3, <3>1 DEF Asked, Fresh, pool4_is_empty
    <3>3. 1 \in DOMAIN clients =>
            /\ 0 \in 0 .. get_addr6_count(clients[1])
            /\ 0 < get_addr6_count(clients[1]) =>
                 FirstAddr(1) = Walk(clients[1])[1]
      BY WalkBegins
    <3>4. 1 \in DOMAIN clients => (InPrefix' => frame'.dummy = Walk(clients[1])[1])
      BY <2>2, <2>3, <3>3 DEF InPrefix
    <3>5. 1 .. 1 - 1 = {} /\ 1 .. 0 = {} /\ 0 + 1 = 1
      OBVIOUS
    <3> QED BY <2>2, <2>3, <3>2, <3>3, <3>4, <3>5 DEF InAddrExist
  <2> QED BY <2>1, <2>2, <2>3, <2>4, <2>5, <2>6, GoesOn, Elsewhere DEF IInv, Loops
<1> QED BY <1>1, <1>2

LEMMA StepAddrExistTurn ==
  ASSUME IInv, AddrExistTurn
  PROVE  IInv'
<1> DEFINE k == frame.k
           i == frame.i
<1>1. /\ frame.pc = "addr_exist" /\ InPrefix /\ k \in DOMAIN clients
      /\ i < get_addr6_count(clients[k])
      /\ caller = "get_mask" /\ frame \in Frames /\ clients \in Seq(Client)
      /\ i \in Nat
  BY CallerIs DEF AddrExistTurn, In, InPrefix, Loops, IInv, CallType, Frames
<1>2. /\ Asked /\ Fresh /\ frame.ipv6_pos = 0
      /\ clients = frame.before
      /\ k \in 1 .. Len(clients) + 1
      /\ \A j \in 1 .. k - 1 : \A t \in DOMAIN Walk(clients[j]) :
           Walk(clients[j])[t] # frame.src
      /\ frame.dummy = Walk(clients[k])[i + 1]
      /\ \A t \in 1 .. i : Walk(clients[k])[t] # frame.src
  BY <1>1 DEF IInv, InAddrExist, In
<1>3. /\ get_addr6_count(clients[k]) \in Nat
      /\ clients[k] \in ipv6_prefix
      /\ DOMAIN Walk(clients[k]) = 1 .. get_addr6_count(clients[k])
  BY <1>1, ClientsAre
<1>4. i + 1 \in DOMAIN Walk(clients[k]) /\ i + 1 \in Nat
  BY <1>1, <1>3
<1>5. CASE frame.dummy = frame.src
  <2>1. /\ UNCHANGED <<cpool, clients, masks_per_client, caller, taken>>
        /\ frame' = [frame EXCEPT !.pc = "compare"]
    BY <1>5 DEF AddrExistTurn, Goto, vars
  <2>2. /\ frame'.pc = "compare" /\ frame'.src = frame.src
        /\ frame'.before = frame.before /\ frame'.ipv6_pos = frame.ipv6_pos
        /\ frame'.counter = frame.counter
        /\ frame'.ports_pos = frame.ports_pos /\ frame'.n = frame.n
        /\ frame'.dom = frame.dom /\ frame'.k = k /\ frame' \in Frames
    BY <1>1, <2>1 DEF Frames
  <2>3. client_addr_exist(frame.before, frame.src)
    BY <1>1, <1>2, <1>4, <1>5 DEF client_addr_exist
  <2>4. Known'
    BY <1>2, <2>1, <2>2, <2>3 DEF Known
  <2>5. InCompare'
    BY <1>2, <2>1, <2>2, <2>4 DEF InCompare, Asked, Fresh
  <2> QED BY <1>1, <2>1, <2>2, <2>5, GoesOn, Elsewhere DEF IInv, Loops
<1>6. CASE frame.dummy # frame.src
  <2>1. /\ UNCHANGED <<cpool, clients, masks_per_client, caller, taken>>
        /\ frame' = [frame EXCEPT !.dummy = addr6_iterations(@), !.i = @ + 1]
    BY <1>6 DEF AddrExistTurn, Goto, vars
  <2>2. addr6_iterations(frame.dummy) \in in6_addr
    BY <1>1, NextAddrType DEF Frames
  <2>3. /\ frame'.pc = "addr_exist" /\ frame'.src = frame.src
        /\ frame'.before = frame.before /\ frame'.ipv6_pos = frame.ipv6_pos
        /\ frame'.counter = frame.counter
        /\ frame'.ports_pos = frame.ports_pos /\ frame'.n = frame.n
        /\ frame'.dom = frame.dom /\ frame'.k = k /\ frame'.i = i + 1
        /\ frame'.dummy = addr6_iterations(frame.dummy)
        /\ frame' \in Frames
    <3>1. frame' \in Frames
      BY <1>1, <1>4, <2>1, <2>2 DEF Frames
    <3> QED BY <1>1, <2>1, <3>1 DEF Frames
  <2>4. \A t \in 1 .. i + 1 : Walk(clients[k])[t] # frame.src
    <3>1. \A t \in 1 .. i + 1 : t \in 1 .. i \/ t = i + 1
      BY <1>1
    <3> QED BY <1>2, <1>6, <3>1
  <2>5. InPrefix' => frame'.dummy = Walk(clients[k])[frame'.i + 1]
    <3>1. InPrefix' => i + 1 < get_addr6_count(clients[k])
      BY <1>1, <2>1, <2>3 DEF InPrefix
    <3>2. InPrefix' => (i + 1) + 1 \in DOMAIN Walk(clients[k])
      BY <1>1, <1>3, <3>1
    <3> QED BY <1>2, <1>3, <1>4, <2>3, <3>2, WalkIs
  <2>6. i + 1 \in 0 .. get_addr6_count(clients[k])
    BY <1>1, <1>3
  <2>7. InAddrExist'
    BY <1>2, <2>1, <2>3, <2>4, <2>5, <2>6 DEF InAddrExist, Asked, Fresh
  <2> QED BY <1>1, <2>1, <2>3, <2>7, GoesOn, Elsewhere DEF IInv, Loops
<1> QED BY <1>5, <1>6

LEMMA StepAddrExistNext ==
  ASSUME IInv, AddrExistNext
  PROVE  IInv'
<1> DEFINE k == frame.k
           i == frame.i
<1>1. /\ frame.pc = "addr_exist" /\ k \in DOMAIN clients
      /\ ~(i < get_addr6_count(clients[k]))
      /\ caller = "get_mask" /\ frame \in Frames /\ clients \in Seq(Client)
      /\ i \in Nat
  BY CallerIs DEF AddrExistNext, In, InPrefix, Loops, IInv, CallType, Frames
<1>2. /\ Asked /\ Fresh /\ frame.ipv6_pos = 0
      /\ clients = frame.before
      /\ \A j \in 1 .. k - 1 : \A t \in DOMAIN Walk(clients[j]) :
           Walk(clients[j])[t] # frame.src
      /\ i \in 0 .. get_addr6_count(clients[k])
      /\ \A t \in 1 .. i : Walk(clients[k])[t] # frame.src
  BY <1>1 DEF IInv, InAddrExist, In
<1>3. /\ get_addr6_count(clients[k]) \in Nat
      /\ DOMAIN Walk(clients[k]) = 1 .. get_addr6_count(clients[k])
      /\ DOMAIN clients = 1 .. Len(clients) /\ Len(clients) \in Nat
  BY <1>1, ClientsAre
<1>4. /\ UNCHANGED <<cpool, clients, masks_per_client, caller, taken>>
      /\ frame' = [frame EXCEPT !.k = @ + 1, !.i = 0,
                                !.dummy = FirstAddr(frame.k + 1)]
  BY DEF AddrExistNext, Goto, vars
<1>5. k + 1 \in Nat \ {0} /\ k + 1 \in 1 .. Len(clients) + 1
  BY <1>1, <1>3
<1>6. /\ FirstAddr(k + 1) \in in6_addr
      /\ k + 1 \in DOMAIN clients =>
           /\ get_addr6_count(clients[k + 1]) \in Nat
           /\ 0 < get_addr6_count(clients[k + 1]) =>
                FirstAddr(k + 1) = Walk(clients[k + 1])[1]
  BY <1>5, WalkBegins
<1>7. /\ frame'.pc = "addr_exist" /\ frame'.src = frame.src
      /\ frame'.before = frame.before /\ frame'.ipv6_pos = frame.ipv6_pos
      /\ frame'.counter = frame.counter
      /\ frame'.ports_pos = frame.ports_pos /\ frame'.n = frame.n
      /\ frame'.dom = frame.dom /\ frame'.k = k + 1 /\ frame'.i = 0
      /\ frame'.dummy = FirstAddr(k + 1) /\ frame' \in Frames
  BY <1>1, <1>4, <1>5, <1>6 DEF Frames
<1>8. \A j \in 1 .. (k + 1) - 1 : \A t \in DOMAIN Walk(clients[j]) :
        Walk(clients[j])[t] # frame.src
  <2>1. \A j \in 1 .. (k + 1) - 1 : j \in 1 .. k - 1 \/ j = k
    BY <1>1, <1>3
  <2>2. i = get_addr6_count(clients[k])
    BY <1>1, <1>2, <1>3
  <2> QED BY <1>2, <1>3, <2>1, <2>2
<1>9. k + 1 \in DOMAIN clients =>
        /\ 0 \in 0 .. get_addr6_count(clients[k + 1])
        /\ InPrefix' => frame'.dummy = Walk(clients[k + 1])[0 + 1]
  BY <1>4, <1>6, <1>7 DEF InPrefix
<1>10. 1 .. 0 = {}
  OBVIOUS
<1>11. InAddrExist'
  BY <1>2, <1>4, <1>5, <1>7, <1>8, <1>9, <1>10 DEF InAddrExist, Asked, Fresh
<1> QED BY <1>1, <1>4, <1>7, <1>11, GoesOn, Elsewhere DEF IInv, Loops

LEMMA StepAddDynamic ==
  ASSUME IInv, AddDynamic
  PROVE  IInv'
<1>1. /\ frame.pc = "addr_exist" /\ frame.k > Len(clients)
      /\ caller = "get_mask" /\ frame \in Frames /\ clients \in Seq(Client)
  BY CallerIs DEF AddDynamic, In, Loops, IInv, CallType, Frames
<1>2. /\ Asked /\ Fresh /\ frame.ipv6_pos = 0
      /\ clients = frame.before
      /\ frame.k \in 1 .. Len(clients) + 1
      /\ \A j \in 1 .. frame.k - 1 : \A t \in DOMAIN Walk(clients[j]) :
           Walk(clients[j])[t] # frame.src
  BY <1>1 DEF IInv, InAddrExist, In
<1>3. /\ UNCHANGED <<cpool, masks_per_client, caller, taken>>
      /\ frame' = [frame EXCEPT !.pc = "compare"]
      /\ \E ok \in MayAllocate(clients, MaxClients) :
           clients' = IF ok THEN client_add(clients, dynamic_prefix(frame.src))
                      ELSE clients
  BY DEF AddDynamic
<1>4. /\ frame'.pc = "compare" /\ frame'.src = frame.src
      /\ frame'.before = frame.before /\ frame'.ipv6_pos = frame.ipv6_pos
      /\ frame'.counter = frame.counter
      /\ frame'.ports_pos = frame.ports_pos /\ frame'.n = frame.n
      /\ frame'.dom = frame.dom /\ frame'.k = frame.k /\ frame' \in Frames
  BY <1>1, <1>3 DEF Frames
<1>5. DOMAIN clients = 1 .. Len(clients) /\ Len(clients) \in Nat
  BY <1>1, LenProperties
<1>6. ~client_addr_exist(clients, frame.src)
  <2>1. \A j \in DOMAIN clients : j \in 1 .. frame.k - 1
    BY <1>1, <1>2, <1>5
  <2> QED BY <1>2, <2>1 DEF client_addr_exist
<1>7. Known'
  BY <1>2, <1>3, <1>4, <1>6 DEF Known
<1>8. clients' \in Seq(Client)
  <2>1. dynamic_prefix(frame.src) \in Client
    BY <1>2 DEF Client, Asked
  <2> QED BY <1>1, <1>3, <2>1 DEF client_add
<1>9. frame.k \in 1 .. Len(clients') + 1
  <2>1. Len(clients') \in {Len(clients), Len(clients) + 1}
    BY <1>1, <1>3, AppendProperties DEF client_add
  <2> QED BY <1>2, <1>5, <2>1
<1>10. InCompare'
  BY <1>2, <1>3, <1>4, <1>7, <1>9 DEF InCompare, Asked, Fresh
<1> QED BY <1>1, <1>3, <1>4, <1>8, <1>10, GoesOn, Elsewhere DEF IInv, Loops

LEMMA StepCompare ==
  ASSUME IInv, Compare
  PROVE  IInv'
<1>1. /\ frame.pc = "compare" /\ caller = "get_mask" /\ frame \in Frames
      /\ Asked /\ Fresh /\ frame.ipv6_pos = 0 /\ Known
      /\ clients \in Seq(Client)
  BY CallerIs DEF Compare, In, Loops, IInv, CallType, InCompare
<1>2. CASE client_count(clients) > pool4_count(cpool)
  BY <1>1, <1>2, ReturnsIdle DEF Compare, Return
<1>3. CASE ~(client_count(clients) > pool4_count(cpool))
  <2>1. /\ UNCHANGED <<cpool, clients, masks_per_client, caller, taken>>
        /\ frame' = [frame EXCEPT !.pc = "contains", !.k = 1]
    BY <1>3 DEF Compare, Goto, vars
  <2>2. /\ frame'.pc = "contains" /\ frame'.src = frame.src
        /\ frame'.before = frame.before /\ frame'.ipv6_pos = frame.ipv6_pos
        /\ frame'.counter = frame.counter
        /\ frame'.ports_pos = frame.ports_pos /\ frame'.n = frame.n
        /\ frame'.dom = frame.dom /\ frame'.k = 1 /\ frame' \in Frames
    BY <1>1, <2>1 DEF Frames
  <2>3. 1 \in 1 .. Len(clients) + 1 /\ 1 - 1 = 0 /\ 1 .. 1 - 1 = {}
    BY <1>1, LenProperties
  <2>4. Known'
    BY <1>1, <2>1, <2>2 DEF Known
  <2>5. InContains'
    BY <1>1, <1>3, <2>1, <2>2, <2>3, <2>4 DEF InContains, Asked, Fresh
  <2> QED BY <1>1, <2>1, <2>2, <2>5, GoesOn, Elsewhere DEF IInv, Loops
<1> QED BY <1>2, <1>3

(* The double loop over the pool begins an entry.                          *)
LEMMA PortsBegin ==
  ASSUME IInv, NEW k
  PROVE  /\ FirstPort(k) \in Nat
         /\ k \in DOMAIN cpool => FirstPort(k) = cpool[k].min
BY PortsType DEF FirstPort, IInv, CallType

LEMMA PoolBegins ==
  ASSUME IInv
  PROVE  /\ FirstPort(1) \in Nat
         /\ 1 \in 1 .. Len(cpool) + 1
         /\ 1 \in DOMAIN cpool => cpool[1].min <= FirstPort(1)
         /\ Before(cpool, <<1, FirstPort(1)>>) = {}
         /\ Rank(cpool, <<1, FirstPort(1)>>) = 0
<1>1. cpool \in Seq(Entry) /\ Len(cpool) \in Nat
  BY LenProperties DEF IInv, CallType
<1>2. FirstPort(1) \in Nat /\ (1 \in DOMAIN cpool => FirstPort(1) = cpool[1].min)
  BY PortsBegin
<1>3. 1 \in 1 .. Len(cpool) + 1
  BY <1>1
<1>4. 1 \in DOMAIN cpool => cpool[1].min <= FirstPort(1)
  BY <1>2
<1>5. /\ Before(cpool, <<1, FirstPort(1)>>) = {}
      /\ Rank(cpool, <<1, FirstPort(1)>>) = 0
  BY <1>1, <1>2, RankAtStart
<1> QED BY <1>2, <1>3, <1>4, <1>5

LEMMA StepContainsTurn ==
  ASSUME IInv, ContainsTurn
  PROVE  IInv'
<1> DEFINE k == frame.k
           mpc == masks_per_client
<1>1. /\ frame.pc = "contains" /\ k \in DOMAIN clients
      /\ caller = "get_mask" /\ frame \in Frames
      /\ clients \in Seq(Client) /\ cpool \in Seq(Entry)
      /\ mpc \in Nat
  BY CallerIs, GetMaskAssumption
     DEF ContainsTurn, In, Loops, IInv, CallType
<1>2. /\ Asked /\ Fresh /\ Known
      /\ frame.ipv6_pos = k - 1
      /\ ~(client_count(clients) > pool4_count(cpool))
      /\ \A j \in 1 .. k - 1 : ~prefix_contains(clients[j], frame.src)
  BY <1>1 DEF IInv, InContains, In
<1>3. DOMAIN clients = 1 .. Len(clients) /\ Len(clients) \in Nat
  BY <1>1, LenProperties
<1>4. k \in 1 .. Len(clients) /\ k \in Nat /\ (k - 1) + 1 = k
  BY <1>1, <1>3
<1>5. CASE ~prefix_contains(clients[k], frame.src)
  <2>1. /\ UNCHANGED <<cpool, clients, masks_per_client, caller, taken>>
        /\ frame' = [frame EXCEPT !.k = @ + 1, !.ipv6_pos = @ + 1]
    BY <1>5 DEF ContainsTurn, Goto, vars
  <2>2. k + 1 \in Nat /\ frame.ipv6_pos + 1 = k
    BY <1>2, <1>4
  <2>3. /\ frame'.pc = "contains" /\ frame'.src = frame.src
        /\ frame'.before = frame.before /\ frame'.ipv6_pos = k
        /\ frame'.counter = frame.counter
        /\ frame'.ports_pos = frame.ports_pos /\ frame'.n = frame.n
        /\ frame'.dom = frame.dom /\ frame'.k = k + 1 /\ frame' \in Frames
    BY <1>1, <1>4, <2>1, <2>2 DEF Frames
  <2>4. \A j \in 1 .. (k + 1) - 1 : ~prefix_contains(clients[j], frame.src)
    <3>1. \A j \in 1 .. (k + 1) - 1 : j \in 1 .. k - 1 \/ j = k
      BY <1>4
    <3> QED BY <1>2, <1>5, <3>1
  <2>5. k + 1 \in 1 .. Len(clients) + 1 /\ k = (k + 1) - 1
    BY <1>3, <1>4
  <2>6. Known'
    BY <1>2, <2>1, <2>3 DEF Known
  <2>7. InContains'
    BY <1>2, <2>1, <2>3, <2>4, <2>5, <2>6 DEF InContains, Asked, Fresh
  <2> QED BY <1>1, <2>1, <2>3, <2>7, GoesOn, Elsewhere DEF IInv, Loops
<1>6. CASE prefix_contains(clients[k], frame.src) /\ mpc = 0
  BY <1>1, <1>6, ReturnsIdle DEF ContainsTurn, Return
<1>7. CASE prefix_contains(clients[k], frame.src) /\ mpc # 0
  <2>1. /\ UNCHANGED <<cpool, clients, masks_per_client, caller, taken>>
        /\ frame' = [frame EXCEPT !.pc = "find_pos", !.k = 1, !.i = FirstPort(1)]
    BY <1>7 DEF ContainsTurn, Goto, vars, AtPorts
  <2>2. /\ FirstPort(1) \in Nat
        /\ 1 \in 1 .. Len(cpool) + 1
        /\ 1 \in DOMAIN cpool => cpool[1].min <= FirstPort(1)
        /\ Before(cpool, <<1, FirstPort(1)>>) = {}
        /\ Rank(cpool, <<1, FirstPort(1)>>) = 0
    BY PoolBegins
  <2>3. /\ frame'.pc = "find_pos" /\ frame'.src = frame.src
        /\ frame'.before = frame.before /\ frame'.ipv6_pos = frame.ipv6_pos
        /\ frame'.counter = frame.counter
        /\ frame'.ports_pos = frame.ports_pos /\ frame'.n = frame.n
        /\ frame'.dom = frame.dom /\ frame'.k = 1 /\ frame'.i = FirstPort(1)
        /\ frame' \in Frames
    BY <1>1, <2>1, <2>2 DEF Frames
  <2>4. frame.ipv6_pos + 1 = ClientPlace(clients, frame.src)
    <3>1. Holding(clients, frame.src) \in SUBSET DOMAIN clients
          /\ k \in Holding(clients, frame.src)
      BY <1>1, <1>7 DEF Holding
    <3>2. /\ ClientPlace(clients, frame.src) \in Holding(clients, frame.src)
          /\ \A j \in Holding(clients, frame.src) :
               ClientPlace(clients, frame.src) <= j
      BY <1>1, <3>1, FirstIsLeast DEF ClientPlace
    <3>3. \A j \in Holding(clients, frame.src) : j \in 1 .. Len(clients)
                                                 /\ j \notin 1 .. k - 1
      BY <1>2, <1>3, <3>1 DEF Holding
    <3>4. ClientPlace(clients, frame.src) = k
      BY <1>3, <1>4, <3>1, <3>2, <3>3
    <3> QED BY <1>2, <1>4, <3>4
  <2>5. mask_domain_error(cpool, clients, frame.src, mpc) = 0
    <3>1. k \in Holding(clients, frame.src)
      BY <1>1, <1>7 DEF Holding
    <3> QED BY <1>2, <1>7, <3>1 DEF mask_domain_error
  <2>6. Known'
    BY <1>2, <2>1, <2>3 DEF Known
  <2>7. Chosen'
    BY <1>1, <1>2, <1>4, <2>1, <2>3, <2>4, <2>5, <2>6 DEF Chosen, Asked
  <2>8. OnPool'
    BY <2>1, <2>2, <2>3 DEF OnPool
  <2>9. Before(cpool, Here)' = {} /\ StartBehind' = {} /\ Rank(cpool, Here)' = 0
    BY <2>1, <2>2, <2>3 DEF Here, StartBehind
  <2>10. mpc * 0 \in 0 .. 0 + mpc - 1
    BY <1>1, <1>7
  <2>11. InFindPos'
    BY <1>2, <2>1, <2>3, <2>7, <2>8, <2>9, <2>10 DEF InFindPos, Fresh
  <2> QED BY <1>1, <2>1, <2>3, <2>11, GoesOn, Elsewhere DEF IInv, Loops
<1> QED BY <1>5, <1>6, <1>7

LEMMA StepContainsEnd ==
  ASSUME IInv, ContainsEnd
  PROVE  IInv'
<1>1. caller = "get_mask"
  BY CallerIs DEF ContainsEnd, In, Loops
<1> QED BY <1>1, ReturnsIdle DEF ContainsEnd, Return

-----------------------------------------------------------------------------
(* pool4_taddr4_find_pos(): the counters.                                  *)

LEMMA TimesGrows ==
  ASSUME NEW m \in Nat, NEW a \in Int, NEW b \in Int, a < b
  PROVE  m * a + m <= m * b
<1> DEFINE d == b - a - 1
<1>1. d \in Nat /\ b = (a + 1) + d
  OBVIOUS
<1>2. m * d \in Nat
  BY <1>1
<1> HIDE DEF d
<1>3. m * ((a + 1) + d) = m * a + m + m * d
  BY <1>1
<1>4. m * a \in Int
  OBVIOUS
<1> QED BY <1>1, <1>2, <1>3, <1>4

(* The first multiple of m from c on is c exactly when m divides c, and a  *)
(* multiple has one factor.                                                *)
LEMMA FirstMultiple ==
  ASSUME NEW m \in Nat \ {0}, NEW c \in Nat, NEW p \in Nat,
         m * p \in c .. c + m - 1
  PROVE  /\ c % m = 0 <=> m * p = c
         /\ \A q \in Nat : q * m = m * p <=> q = p
<1> DEFINE d == c \div m
           r == c % m
<1>1. d \in Nat /\ r \in 0 .. m - 1 /\ c = m * d + r
  OBVIOUS
<1>2. m \in Nat /\ m # 0
  OBVIOUS
<1>3. m * d \in Int /\ m * p \in Int
  BY <1>1
<1> HIDE DEF d, r
<1>4. p < d => m * p + m <= m * d
  BY <1>1, <1>2, TimesGrows
<1>5. d < p => m * d + m <= m * p
  BY <1>1, <1>2, TimesGrows
<1>6. r = 0 <=> m * p = c
  <2>1. CASE p = d
    BY <1>1, <1>2, <1>3, <2>1
  <2>2. CASE p < d
    BY <1>1, <1>2, <1>3, <1>4, <2>2
  <2>3. CASE d < p
    BY <1>1, <1>2, <1>3, <1>5, <2>3
  <2> QED BY <1>1, <2>1, <2>2, <2>3
<1>7. ASSUME NEW q \in Nat, q * m = m * p PROVE q = p
  <2>1. q * m = m * q /\ m * q \in Int
    OBVIOUS
  <2>2. q < p => m * q + m <= m * p
    BY <1>2, TimesGrows
  <2>3. p < q => m * p + m <= m * q
    BY <1>2, TimesGrows
  <2> QED BY <1>2, <1>3, <1>7, <2>1, <2>2, <2>3
<1>8. p * m = m * p
  OBVIOUS
<1> QED BY <1>6, <1>7, <1>8 DEF r

(* There are no more windows than masks.                                   *)
LEMMA FewWindows ==
  ASSUME NEW m \in Nat \ {0}, NEW c \in Nat, NEW p \in Nat,
         m * p \in c .. c + m - 1
  PROVE  p <= c
<1>1. c < p => m * c + m <= m * p
  BY TimesGrows
<1>2. c <= m * c
  <2>1. m - 1 \in Nat /\ m * c = (m - 1) * c + c
    OBVIOUS
  <2>2. (m - 1) * c \in Nat
    BY <2>1
  <2> QED BY <2>1, <2>2
<1>3. m * c \in Int /\ m * p \in Int
  OBVIOUS
<1> QED BY <1>1, <1>2, <1>3

(* The client that was found has a number, and windows have masks.         *)
LEMMA ChosenIs ==
  ASSUME IInv, Chosen
  PROVE  /\ masks_per_client \in Nat \ {0}
         /\ frame.ipv6_pos \in Nat
         /\ frame.ipv6_pos * masks_per_client \in Nat
         /\ frame.ipv6_pos + 1 \in DOMAIN clients
<1>1. masks_per_client \in Nat /\ frame.ipv6_pos \in Nat
  BY GetMaskAssumption DEF IInv, CallType, Frames
<1>2. masks_per_client # 0
  BY DEF Chosen, mask_domain_error, ESRCH
<1>3. frame.ipv6_pos * masks_per_client \in Nat
  BY <1>1
<1> QED BY <1>1, <1>2, <1>3 DEF Chosen

LEMMA SlotHere ==
  ASSUME IInv, OnPool, AtSlot
  PROVE  /\ Here \in Slots(cpool) /\ Here = <<frame.k, frame.i>>
         /\ frame.k \in Nat /\ frame.i \in Nat
<1>1. cpool \in Seq(Entry) /\ frame.k \in Nat /\ frame.i \in Nat
  BY DEF IInv, CallType, Frames
<1>2. /\ frame.k \in DOMAIN cpool /\ frame.i <= cpool[frame.k].max
      /\ cpool[frame.k].min <= frame.i
  BY DEF AtSlot, OnPool
<1>3. /\ cpool[frame.k].min \in 0 .. MaxPort
      /\ cpool[frame.k].max \in 0 .. MaxPort /\ MaxPort \in Nat
  BY <1>1, <1>2, PortsType
<1>4. frame.i \in 0 .. MaxPort
  BY <1>1, <1>2, <1>3
<1> QED BY <1>1, <1>2, <1>4 DEF Here, Slots

LEMMA StepFindPosTurn ==
  ASSUME IInv, FindPosTurn
  PROVE  IInv'
<1> DEFINE k == frame.k
           i == frame.i
           c == frame.counter
           p == frame.ports_pos
           mpc == masks_per_client
           start == frame.ipv6_pos * mpc
           behind == {s \in Before(cpool, <<k, i + 1>>) : Rank(cpool, s) = start}
<1>1. /\ frame.pc = "find_pos" /\ AtSlot
      /\ caller = "get_mask" /\ frame \in Frames
      /\ clients \in Seq(Client) /\ cpool \in Seq(Entry)
      /\ c \in Nat /\ p \in Nat
  BY CallerIs DEF FindPosTurn, In, Loops, IInv, CallType, Frames
<1>2. /\ Chosen /\ OnPool /\ frame.n = 0
      /\ c = Rank(cpool, Here)
      /\ mpc * p \in c .. c + mpc - 1
      /\ frame.dom = [set |-> StartBehind # {},
                      at |-> {TaddrOf(cpool, s) : s \in StartBehind}]
  BY <1>1 DEF IInv, InFindPos, In
<1>3. mpc \in Nat \ {0} /\ frame.ipv6_pos \in Nat /\ start \in Nat
  BY <1>2, ChosenIs
<1>4. Here \in Slots(cpool) /\ Here = <<k, i>> /\ k \in Nat /\ i \in Nat
  BY <1>1, <1>2, SlotHere
<1>5. /\ Before(cpool, <<k, i + 1>>) = Before(cpool, Here) \cup {Here}
      /\ Rank(cpool, <<k, i + 1>>) = c + 1
  BY <1>1, <1>2, <1>4, RankAfterSlot
<1>6. /\ c % mpc = 0 <=> mpc * p = c
      /\ start = mpc * p <=> frame.ipv6_pos = p
  <2> DEFINE pos == frame.ipv6_pos
  <2>1. mpc * p \in c .. c + mpc - 1 /\ c \in Nat /\ p \in Nat /\ pos \in Nat
    BY <1>1, <1>2, <1>3
  <2> HIDE DEF c, p, mpc, pos
  <2>2. /\ c % mpc = 0 <=> mpc * p = c
        /\ \A q \in Nat : q * mpc = mpc * p <=> q = p
    BY <1>3, <2>1, FirstMultiple
  <2>3. pos * mpc = mpc * p <=> pos = p
    BY <2>1, <2>2
  <2> QED BY <2>2, <2>3 DEF c, p, mpc, pos
<1>7. /\ c = start => behind = StartBehind \cup {Here}
      /\ c # start => behind = StartBehind
  BY <1>2, <1>5 DEF StartBehind
<1>8. c = start => StartBehind = {}
  <2>1. \A s \in Before(cpool, Here) : Rank(cpool, s) < Rank(cpool, Here)
    BY <1>1, <1>4, RankGrows DEF Before
  <2>2. \A s \in Before(cpool, Here) : Rank(cpool, s) # c
    BY <1>1, <1>2, <2>1, RankType
  <2> QED BY <2>2 DEF StartBehind
<1>9. c = start => c % mpc = 0
  <2>1. ASSUME c = start PROVE mpc * frame.ipv6_pos \in c .. c + mpc - 1
    BY <1>1, <1>3, <2>1
  <2>2. ASSUME c = start PROVE mpc * frame.ipv6_pos = c
    BY <1>3, <2>2
  <2> QED BY <1>1, <1>3, <2>1, <2>2, FirstMultiple
<1>10. UNCHANGED <<cpool, clients, masks_per_client, caller, taken>>
  BY DEF FindPosTurn, Goto, vars
<1> DEFINE Moved(pp, d) == [frame EXCEPT !.i = @ + 1, !.counter = @ + 1,
                                         !.ports_pos = pp, !.dom = d]
<1>11. ASSUME NEW pp \in Nat, NEW d, frame' = Moved(pp, d),
              mpc * pp \in (c + 1) .. (c + 1) + mpc - 1,
              d = [set |-> behind # {}, at |-> {TaddrOf(cpool, s) : s \in behind}]
       PROVE  IInv'
  <2>1. d \in [set : BOOLEAN, at : SUBSET Taddr]
    <3>1. \A s \in behind : TaddrOf(cpool, s) \in Taddr
      BY <1>1, TaddrType DEF Before
    <3> QED BY <1>11, <3>1
  <2>2. frame' \in Frames
    <3>1. i + 1 \in Nat /\ c + 1 \in Nat
      BY <1>1, <1>4
    <3> QED BY <1>1, <1>11, <2>1, <3>1 DEF Frames
  <2>3. /\ frame'.pc = "find_pos" /\ frame'.src = frame.src
        /\ frame'.before = frame.before /\ frame'.ipv6_pos = frame.ipv6_pos
        /\ frame'.counter = c + 1 /\ frame'.ports_pos = pp
        /\ frame'.n = 0 /\ frame'.dom = d /\ frame'.k = k /\ frame'.i = i + 1
    BY <1>1, <1>2, <1>11 DEF Frames
  <2>4. Known'
    BY <1>2, <1>10, <2>3 DEF Known, Chosen
  <2>5. Chosen'
    BY <1>2, <1>10, <2>3, <2>4 DEF Chosen, Asked
  <2>6. OnPool'
    <3>1. k \in DOMAIN cpool => cpool[k].min \in Nat
      BY <1>1, PortsType
    <3>2. k \in DOMAIN cpool => cpool[k].min <= i + 1
      BY <1>2, <1>4, <3>1 DEF OnPool
    <3> QED BY <1>2, <1>10, <2>3, <3>2 DEF OnPool
  <2>7. StartBehind' = behind
    BY <1>10, <2>3 DEF StartBehind, Here
  <2>8. frame'.counter = Rank(cpool, Here)'
    BY <1>5, <1>10, <2>3 DEF Here
  <2>9. InFindPos'
    BY <1>10, <1>11, <2>3, <2>5, <2>6, <2>7, <2>8 DEF InFindPos
  <2> QED BY <1>1, <1>10, <2>2, <2>3, <2>9, GoesOn, Elsewhere DEF IInv, Loops
<1>12. CASE ~WindowStarts
  <2>1. frame' = [frame EXCEPT !.i = @ + 1, !.counter = @ + 1]
    BY <1>12 DEF FindPosTurn, Goto
  <2>2. frame' = Moved(p, frame.dom)
    BY <1>1, <2>1 DEF Frames
  <2>3. c # start /\ mpc * p # c
    BY <1>6, <1>9, <1>12 DEF WindowStarts
  <2>4. mpc * p \in (c + 1) .. (c + 1) + mpc - 1
    BY <1>1, <1>2, <1>3, <2>3
  <2>5. frame.dom = [set |-> behind # {},
                     at |-> {TaddrOf(cpool, s) : s \in behind}]
    BY <1>2, <1>7, <2>3
  <2> HIDE DEF Moved
  <2> QED BY <1>1, <1>11, <2>2, <2>4, <2>5
<1>13. CASE WindowStarts
  <2>1. frame' = [frame EXCEPT !.i = @ + 1, !.counter = @ + 1, !.ports_pos = @ + 1,
                    !.dom = IF Wanted
                            THEN [set |-> TRUE, at |-> {TaddrOf(cpool, Here)}]
                            ELSE @]
    BY <1>13 DEF FindPosTurn, Goto
  <2>2. mpc * p = c /\ (Wanted <=> c = start)
    BY <1>6, <1>13 DEF WindowStarts, Wanted
  <2>3. mpc * (p + 1) \in (c + 1) .. (c + 1) + mpc - 1
    <3>1. mpc * (p + 1) = mpc * p + mpc
      BY <1>1, <1>3
    <3> QED BY <1>1, <1>3, <2>2, <3>1
  <2>4. CASE Wanted
    <3>1. frame' = Moved(p + 1, [set |-> TRUE, at |-> {TaddrOf(cpool, Here)}])
      BY <2>1, <2>4
    <3>2. behind = {Here}
      BY <1>7, <1>8, <2>2, <2>4
    <3>3. [set |-> TRUE, at |-> {TaddrOf(cpool, Here)}]
            = [set |-> behind # {}, at |-> {TaddrOf(cpool, s) : s \in behind}]
      BY <3>2
    <3>4. p + 1 \in Nat
      BY <1>1
    <3> HIDE DEF Moved, behind
    <3> QED BY <1>11, <2>3, <3>1, <3>3, <3>4
  <2>5. CASE ~Wanted
    <3>1. frame' = Moved(p + 1, frame.dom)
      BY <1>1, <2>1, <2>5 DEF Frames
    <3>2. behind = StartBehind
      BY <1>7, <2>2, <2>5
    <3>3. frame.dom = [set |-> behind # {},
                       at |-> {TaddrOf(cpool, s) : s \in behind}]
      BY <1>2, <3>2
    <3>4. p + 1 \in Nat
      BY <1>1
    <3> HIDE DEF Moved, behind
    <3> QED BY <1>11, <2>3, <3>1, <3>3, <3>4
  <2> QED BY <2>4, <2>5
<1> QED BY <1>12, <1>13

(* The search is over: the window was found if the pool has one.           *)
LEMMA StepFindPosEnd ==
  ASSUME IInv, FindPosEnd
  PROVE  IInv'
<1> DEFINE c == frame.counter
           p == frame.ports_pos
           mpc == masks_per_client
           pos == frame.ipv6_pos
           start == DomainStart(cpool, pos, mpc)
<1>1. /\ frame.pc = "find_pos" /\ PastPool
      /\ caller = "get_mask" /\ frame \in Frames
      /\ clients \in Seq(Client) /\ cpool \in Seq(Entry)
      /\ c \in Nat /\ p \in Nat /\ mpc \in PerClient /\ frame.k \in Nat
  BY CallerIs DEF FindPosEnd, In, Loops, IInv, CallType, Frames
<1>2. /\ Chosen
      /\ c = Rank(cpool, Here)
      /\ mpc * p \in c .. c + mpc - 1
      /\ frame.dom = [set |-> StartBehind # {},
                      at |-> {TaddrOf(cpool, s) : s \in StartBehind}]
  BY <1>1 DEF IInv, InFindPos, In
<1>3. mpc \in Nat \ {0} /\ pos \in Nat
  BY <1>2, ChosenIs
<1>4. Before(cpool, Here) = Slots(cpool) /\ c = Cardinality(Slots(cpool))
  BY <1>1, <1>2, RankAtEnd DEF PastPool, Here
<1>5. /\ StartBehind = start
      /\ frame.dom.set <=> start # {}
  <2>1. StartBehind = start
    BY <1>4 DEF StartBehind, DomainStart
  <2>2. frame.dom.set = (StartBehind # {})
    BY <1>2
  <2> QED BY <2>1, <2>2
<1>6. p \in 0 .. c
  <2> HIDE DEF c, p, mpc
  <2>1. p <= c
    BY <1>1, <1>2, <1>3, FewWindows
  <2> QED BY <1>1, <2>1
<1>7. UNCHANGED <<cpool, clients, masks_per_client, caller, taken>>
  BY DEF FindPosEnd, Goto, vars
<1>8. /\ FirstPort(1) \in Nat
      /\ 1 \in 1 .. Len(cpool) + 1
      /\ 1 \in DOMAIN cpool => cpool[1].min <= FirstPort(1)
      /\ Before(cpool, <<1, FirstPort(1)>>) = {}
  BY PoolBegins
<1>9. ASSUME NEW d \in get_mask_domain(cpool, pos + 1, mpc), NEW n \in PerClient,
             frame' = [AtPorts(frame, "masks") EXCEPT !.dom = d, !.n = n]
      PROVE  IInv'
  <2> DEFINE Doms == [set : BOOLEAN, at : SUBSET Taddr]
  <2>1. d \in Doms
    <3>1. \A s \in Slots(cpool) : TaddrOf(cpool, s) \in Taddr
      BY <1>1, TaddrType
    <3>2. Taddrs(cpool) \subseteq Taddr
      BY <3>1 DEF Taddrs
    <3>3. /\ \A b \in BOOLEAN : [set |-> b, at |-> {}] \in Doms
          /\ \A b \in BOOLEAN, m \in Taddr : [set |-> b, at |-> {m}] \in Doms
      OBVIOUS
    <3>4. TRUE \in BOOLEAN /\ FALSE \in BOOLEAN
      OBVIOUS
    <3> HIDE DEF Doms
    <3>5. d \in DomainUnset(cpool) => d \in Doms
      BY <3>2, <3>3, <3>4 DEF DomainUnset
    <3>6. d \in DomainSet(cpool, pos + 1, mpc) => d \in Doms
      BY <3>1, <3>3, <3>4 DEF DomainSet, DomainStart
    <3> QED BY <3>5, <3>6 DEF get_mask_domain
  <2>2. frame' = [frame EXCEPT !.pc = "masks", !.k = 1, !.i = FirstPort(1),
                               !.dom = d, !.n = n]
    BY <1>9 DEF AtPorts
  <2>3. n \in Nat
    BY GetMaskAssumption
  <2>4. /\ frame'.pc = "masks" /\ frame'.src = frame.src
        /\ frame'.before = frame.before /\ frame'.ipv6_pos = pos
        /\ frame'.counter = c /\ frame'.ports_pos = p
        /\ frame'.n = n /\ frame'.dom = d
        /\ frame'.k = 1 /\ frame'.i = FirstPort(1) /\ frame' \in Frames
    <3>1. FirstPort(1) \in Nat /\ 1 \in Nat /\ n \in Int
      BY <1>8, <2>3
    <3>2. frame' \in Frames
      BY <1>1, <2>1, <2>2, <3>1 DEF Frames
    <3> QED BY <1>1, <2>2, <3>2 DEF Frames
  <2>5. Known'
    BY <1>2, <1>7, <2>4 DEF Known, Chosen
  <2>6. Chosen'
    BY <1>2, <1>7, <2>4, <2>5 DEF Chosen, Asked
  <2>7. OnPool'
    BY <1>7, <1>8, <2>4 DEF OnPool
  <2>8. Before(cpool, Here)' = {}
    BY <1>7, <1>8, <2>4 DEF Here
  <2>9. c \in 0 .. Cardinality(Slots(cpool)) /\ n >= -1 /\ n >= 1 - 1
    BY <1>1, <1>4, <2>3
  <2>10. InMasks'
    BY <1>6, <1>7, <2>4, <2>6, <2>7, <2>8, <2>9 DEF InMasks
  <2> QED BY <1>1, <1>7, <2>4, <2>10, GoesOn, Elsewhere DEF IInv, Loops
<1>10. (pos + 1) - 1 = pos
  BY <1>3
<1>11. CASE frame.dom.set
  <2>1. frame' = [AtPorts(frame, "masks") EXCEPT !.n = mpc]
    BY <1>11 DEF FindPosEnd, Goto
  <2>2. frame' = [AtPorts(frame, "masks") EXCEPT !.dom = frame.dom, !.n = mpc]
    BY <1>1, <2>1 DEF AtPorts, Frames
  <2>3. PICK s \in start : TRUE
    BY <1>5, <1>11
  <2>4. \A t \in start : t = s
    BY <1>1, <2>3, RankInjective DEF DomainStart
  <2>5. frame.dom = [set |-> TRUE, at |-> {TaddrOf(cpool, s)}]
    <3>1. start = {s}
      BY <2>3, <2>4
    <3> QED BY <1>2, <1>5, <3>1
  <2>6. frame.dom \in DomainSet(cpool, pos + 1, mpc)
    BY <1>10, <2>3, <2>5 DEF DomainSet
  <2>7. frame.dom \in get_mask_domain(cpool, pos + 1, mpc)
    BY <1>10, <2>3, <2>6 DEF get_mask_domain
  <2> QED BY <1>1, <1>9, <2>2, <2>7
<1>12. CASE ~frame.dom.set
  <2>1. \E dom \in DomainUnset(cpool), n \in PerClient :
          frame' = [AtPorts(frame, "masks") EXCEPT !.dom = dom, !.n = n]
    BY <1>12 DEF FindPosEnd, Goto
  <2>2. start = {}
    BY <1>5, <1>12
  <2>3. get_mask_domain(cpool, pos + 1, mpc) = DomainUnset(cpool)
    BY <1>10, <2>2 DEF get_mask_domain
  <2> QED BY <1>9, <2>1, <2>3
<1> QED BY <1>11, <1>12

-----------------------------------------------------------------------------
(* The loop over the masks.                                                *)

(* A domain has one mask at the most, a mask of the pool.                  *)
LEMMA DomainIs ==
  ASSUME IInv, frame.pc = "masks"
  PROVE  /\ \A m, o \in frame.dom.at : m = o
         /\ frame.dom.at \subseteq Taddrs(cpool)
<1>1. frame.dom \in get_mask_domain(cpool, frame.ipv6_pos + 1, masks_per_client)
  BY DEF IInv, InMasks, In
<1> QED BY <1>1 DEF get_mask_domain, DomainSet, DomainUnset, DomainStart, Taddrs

LEMMA StepMaskTurn ==
  ASSUME IInv, MaskTurn
  PROVE  IInv'
<1> DEFINE k == frame.k
           i == frame.i
           n == frame.n
           dom == frame.dom
           mask == TaddrOf(cpool, Here)
<1>1. /\ frame.pc = "masks" /\ AtSlot
      /\ caller = "get_mask" /\ frame \in Frames
      /\ clients \in Seq(Client) /\ cpool \in Seq(Entry)
      /\ n \in Int /\ dom.at \subseteq Taddr
  BY CallerIs DEF MaskTurn, In, Loops, IInv, CallType, Frames
<1>2. /\ Chosen /\ OnPool
      /\ frame.counter \in 0 .. Cardinality(Slots(cpool))
      /\ frame.ports_pos \in 0 .. frame.counter
      /\ dom \in get_mask_domain(cpool, frame.ipv6_pos + 1, masks_per_client)
      /\ \A s \in Before(cpool, Here) : TaddrOf(cpool, s) \notin Free(dom)
      /\ n >= - k
      /\ (\A m \in dom.at : m.l4 >= i) => n >= 1 - k
  BY <1>1 DEF IInv, InMasks, In
<1>3. /\ Here \in Slots(cpool) /\ Here = <<k, i>> /\ k \in Nat /\ i \in Nat
      /\ k \in DOMAIN cpool /\ k \in 1 .. Len(cpool) /\ mask.l4 = i
  <2>1. Here \in Slots(cpool) /\ Here = <<k, i>> /\ k \in Nat /\ i \in Nat
    BY <1>1, <1>2, SlotHere
  <2>2. k \in DOMAIN cpool /\ k \in 1 .. Len(cpool)
    BY <1>1, LenProperties DEF AtSlot
  <2> QED BY <2>1, <2>2 DEF TaddrOf
<1>4. Before(cpool, <<k, i + 1>>) = Before(cpool, Here) \cup {Here}
  BY <1>1, <1>3, RankAfterSlot
<1>5. \A m \in dom.at : m.l4 \in Nat
  BY <1>1 DEF Taddr
<1>6. ASSUME NEW kk \in Nat, NEW ii \in Nat, NEW nn \in Int,
             UNCHANGED <<cpool, clients, masks_per_client, caller, taken>>,
             frame' = [frame EXCEPT !.k = kk, !.i = ii, !.n = nn],
             kk \in 1 .. Len(cpool) + 1,
             kk \in DOMAIN cpool => cpool[kk].min <= ii,
             \A s \in Before(cpool, <<kk, ii>>) : TaddrOf(cpool, s) \notin Free(dom),
             nn >= - kk,
             (kk \in DOMAIN cpool => \A m \in dom.at : m.l4 >= ii) => nn >= 1 - kk
      PROVE  IInv'
  <2>1. /\ frame'.pc = "masks" /\ frame'.src = frame.src
        /\ frame'.before = frame.before /\ frame'.ipv6_pos = frame.ipv6_pos
        /\ frame'.counter = frame.counter /\ frame'.ports_pos = frame.ports_pos
        /\ frame'.n = nn /\ frame'.dom = dom
        /\ frame'.k = kk /\ frame'.i = ii /\ frame' \in Frames
    BY <1>1, <1>6 DEF Frames
  <2>2. Known'
    BY <1>2, <1>6, <2>1 DEF Known, Chosen
  <2>3. Chosen'
    BY <1>2, <1>6, <2>1, <2>2 DEF Chosen, Asked
  <2>4. OnPool'
    BY <1>6, <2>1 DEF OnPool
  <2>5. (\A s \in Before(cpool, Here) : TaddrOf(cpool, s) \notin Free(frame.dom))'
    BY <1>6, <2>1 DEF Here
  <2>6. InMasks'
    BY <1>2, <1>6, <2>1, <2>3, <2>4, <2>5 DEF InMasks
  <2> QED BY <1>1, <1>6, <2>1, <2>6, GoesOn, Elsewhere DEF IInv, Loops
<1>7. /\ i + 1 \in Nat /\ k + 1 \in Nat
      /\ k \in 1 .. Len(cpool) + 1 /\ k + 1 \in 1 .. Len(cpool) + 1
      /\ cpool[k].min <= i + 1
  <2>1. Len(cpool) \in Nat /\ cpool[k].min \in Nat
    BY <1>1, <1>3, LenProperties, PortsType
  <2> QED BY <1>2, <1>3, <2>1 DEF OnPool
<1>8. CASE ~Matches
  <2>1. /\ UNCHANGED <<cpool, clients, masks_per_client, caller, taken>>
        /\ frame' = [frame EXCEPT !.i = @ + 1]
    BY <1>8 DEF MaskTurn, Goto, vars
  <2>2. frame' = [frame EXCEPT !.k = k, !.i = i + 1, !.n = n]
    BY <1>1, <2>1 DEF Frames
  <2>3. \A s \in Before(cpool, <<k, i + 1>>) : TaddrOf(cpool, s) \notin Free(dom)
    BY <1>2, <1>4, <1>8 DEF Matches, Free
  <2>4. (k \in DOMAIN cpool => \A m \in dom.at : m.l4 >= i + 1) => n >= 1 - k
    BY <1>2, <1>3, <1>5
  <2> HIDE DEF k, i, n
  <2> QED BY <1>1, <1>2, <1>3, <1>6, <1>7, <2>1, <2>2, <2>3, <2>4
<1>9. CASE Matches /\ ~bibdb_contains4(mask)
  BY <1>1, <1>9, ReturnsIdle DEF MaskTurn, Return
<1>10. ASSUME Matches, bibdb_contains4(mask)
       PROVE  Free(dom) = {} /\ n >= 1 - k
  <2>1. \A m \in dom.at : m = mask
    BY <1>1, <1>10, DomainIs DEF Matches
  <2> QED BY <1>2, <1>3, <1>10, <2>1 DEF Free
<1>11. CASE Matches /\ bibdb_contains4(mask) /\ n = 1
  <2>1. /\ UNCHANGED <<cpool, clients, masks_per_client, caller, taken>>
        /\ frame' = [frame EXCEPT !.n = 0, !.k = @ + 1, !.i = FirstPort(frame.k + 1)]
    BY <1>11 DEF MaskTurn, Goto, vars
  <2>2. frame' = [frame EXCEPT !.k = k + 1, !.i = FirstPort(k + 1), !.n = 0]
    BY <1>1, <2>1 DEF Frames
  <2>3. /\ FirstPort(k + 1) \in Nat
        /\ k + 1 \in DOMAIN cpool => cpool[k + 1].min <= FirstPort(k + 1)
    BY PortsBegin
  <2>4. 0 \in Int /\ 0 >= - (k + 1) /\ 0 >= 1 - (k + 1)
    BY <1>3
  <2>5. \A s \in Before(cpool, <<k + 1, FirstPort(k + 1)>>) :
          TaddrOf(cpool, s) \notin Free(dom)
    BY <1>10, <1>11
  <2> HIDE DEF k, i, n, dom
  <2> QED BY <1>6, <1>7, <2>1, <2>2, <2>3, <2>4, <2>5
<1>12. CASE Matches /\ bibdb_contains4(mask) /\ n # 1
  <2>1. /\ UNCHANGED <<cpool, clients, masks_per_client, caller, taken>>
        /\ frame' = [frame EXCEPT !.n = @ - 1, !.i = @ + 1]
    BY <1>12 DEF MaskTurn, Goto, vars
  <2>2. frame' = [frame EXCEPT !.k = k, !.i = i + 1, !.n = n - 1]
    BY <1>1, <2>1 DEF Frames
  <2>3. n - 1 \in Int /\ n - 1 >= - k
    BY <1>1, <1>3, <1>10, <1>12
  <2>4. mask \in dom.at /\ ~(mask.l4 >= i + 1)
    BY <1>3, <1>12 DEF Matches
  <2> HIDE DEF k, i, n
  <2> QED BY <1>3, <1>6, <1>7, <1>10, <1>12, <2>1, <2>2, <2>3, <2>4
<1> QED BY <1>8, <1>9, <1>11, <1>12

LEMMA StepMasksEnd ==
  ASSUME IInv, MasksEnd
  PROVE  IInv'
<1>1. caller = "get_mask"
  BY CallerIs DEF MasksEnd, In, Loops
<1> QED BY <1>1, ReturnsIdle DEF MasksEnd, Return

LEMMA StepNextEntry ==
  ASSUME IInv, NextEntry
  PROVE  IInv'
<1> DEFINE k == frame.k
           j == FirstPort(k + 1)
<1>1. /\ frame.pc \in {"find_pos", "masks"} /\ PastPorts
      /\ caller = "get_mask" /\ frame \in Frames
      /\ clients \in Seq(Client) /\ cpool \in Seq(Entry)
      /\ frame.i \in Nat /\ frame.n \in Int
  BY CallerIs DEF NextEntry, In, Loops, IInv, CallType, Frames
<1>2. k \in DOMAIN cpool /\ k \in 1 .. Len(cpool) /\ Len(cpool) \in Nat
  BY <1>1, LenProperties DEF PastPorts
<1>3. j \in Nat /\ (k + 1 \in DOMAIN cpool => j = cpool[k + 1].min)
  BY PortsBegin
<1>4. cpool[k].max < frame.i
  <2>1. cpool[k].max \in Nat
    BY <1>1, <1>2, PortsType
  <2> QED BY <1>1, <2>1 DEF PastPorts
<1>5. /\ Before(cpool, <<k + 1, j>>) = Before(cpool, Here)
      /\ Rank(cpool, <<k + 1, j>>) = Rank(cpool, Here)
  BY <1>1, <1>2, <1>3, <1>4, RankAfterEntry DEF Here
<1>6. /\ UNCHANGED <<cpool, clients, masks_per_client, caller, taken>>
      /\ frame' = [frame EXCEPT !.k = @ + 1, !.i = FirstPort(frame.k + 1)]
  BY DEF NextEntry, Goto, vars
<1>7. k + 1 \in Nat /\ k + 1 \in 1 .. Len(cpool) + 1
  BY <1>2
<1>8. /\ frame'.pc = frame.pc /\ frame'.src = frame.src
      /\ frame'.before = frame.before /\ frame'.ipv6_pos = frame.ipv6_pos
      /\ frame'.counter = frame.counter /\ frame'.ports_pos = frame.ports_pos
      /\ frame'.n = frame.n /\ frame'.dom = frame.dom
      /\ frame'.k = k + 1 /\ frame'.i = j /\ frame' \in Frames
  BY <1>1, <1>3, <1>6, <1>7 DEF Frames
<1>9. Chosen
  BY <1>1 DEF IInv, InFindPos, InMasks, In
<1>10. Known'
  BY <1>6, <1>8, <1>9 DEF Known, Chosen
<1>11. Chosen'
  BY <1>6, <1>8, <1>9, <1>10 DEF Chosen, Asked
<1>12. OnPool'
  <2>1. k + 1 \in DOMAIN cpool => cpool[k + 1].min <= j
    BY <1>3
  <2> QED BY <1>6, <1>7, <1>8, <2>1 DEF OnPool
<1>13. Before(cpool, Here)' = Before(cpool, Here)
       /\ Rank(cpool, Here)' = Rank(cpool, Here)
  BY <1>5, <1>6, <1>8 DEF Here
<1>14. StartBehind' = StartBehind
  BY <1>6, <1>8, <1>13 DEF StartBehind
<1>15. InFindPos'
  BY <1>1, <1>6, <1>8, <1>11, <1>12, <1>13, <1>14 DEF IInv, InFindPos, In
<1>16. InMasks'
  <2>1. frame.n >= - k => frame.n >= - (k + 1) /\ frame.n >= 1 - (k + 1)
    BY <1>1, <1>2
  <2> QED BY <1>1, <1>6, <1>8, <1>11, <1>12, <1>13, <2>1 DEF IInv, InMasks, In
<1> QED BY <1>1, <1>6, <1>8, <1>15, <1>16, GoesOn, Elsewhere DEF IInv, Loops

-----------------------------------------------------------------------------
(* The loops of pool4_get_nth_taddr().                                     *)

LEMMA KeptIs ==
  ASSUME NEW domain \in KeptDomains
  PROVE  /\ domain.first.l4 \in Nat /\ domain.step = 1
         /\ domain.count \in Nat \ {0}
BY Pool4Assumption, GetMaskAssumption DEF KeptDomains

(* The walk of a domain that some entry holds: the slots from the first    *)
(* port on.                                                                *)
LEMMA TurnsAre ==
  ASSUME cpool \in Seq(Entry), frame.domain \in KeptDomains, Holders # {}
  PROVE  /\ First(Holders) \in Holders /\ First(Holders) \in Nat
         /\ \A j \in Holders : First(Holders) <= j
         /\ Turns = {s \in Slots(cpool) :
                       /\ s[1] >= First(Holders)
                       /\ s[2] >= IF s[1] = First(Holders)
                                  THEN frame.domain.first.l4
                                  ELSE cpool[s[1]].min}
         /\ IsFiniteSet(Turns)
<1> DEFINE f == First(Holders)
           start(j) == IF j = f THEN frame.domain.first.l4 ELSE cpool[j].min
<1>1. Holders \in SUBSET DOMAIN cpool
  BY DEF Holders, HoldingFirst
<1>2. f \in Holders /\ \A j \in Holders : f <= j
  BY <1>1, FirstIsLeast
<1>3. f \in Nat
  BY <1>1, <1>2, LenProperties
<1>4. frame.domain.first.l4 \in Nat /\ frame.domain.step = 1
  BY KeptIs
<1>5. \A s \in Slots(cpool) : s[2] \in Nat /\ start(s[1]) \in Nat
  BY <1>4, SlotType, PortsType
<1>6. \A x \in Int : x % 1 = 0
  OBVIOUS
<1>7. \A s \in Slots(cpool) : (s[2] - start(s[1])) % frame.domain.step = 0
  BY <1>4, <1>5, <1>6
<1>8. Turns = {s \in Slots(cpool) :
                 /\ s[1] >= f
                 /\ s[2] >= start(s[1])
                 /\ (s[2] - start(s[1])) % frame.domain.step = 0}
  BY DEF Turns, Visited, Holders
<1>9. Turns = {s \in Slots(cpool) : s[1] >= f /\ s[2] >= start(s[1])}
  <2> HIDE DEF start, f
  <2> QED BY <1>7, <1>8
<1>10. IsFiniteSet(Turns)
  <2> HIDE DEF start, f
  <2>1. Turns \in SUBSET Slots(cpool)
    BY <1>9
  <2> QED BY <2>1, SlotsFinite, FS_Subset
<1> QED BY <1>2, <1>3, <1>9, <1>10

(* A call that stays in the loops of pool4_get_nth_taddr().                *)
LEMMA WalksOn ==
  ASSUME IInv, caller = "pool4_get_nth_taddr",
         UNCHANGED <<vars, caller>>, taken' \in {taken, NotTaken},
         frame' \in Frames, frame'.pc \in {"entries", "ports"},
         frame'.before = frame.before
  PROVE  /\ CallType' /\ OwnLoops' /\ NthAgrees'
         /\ InIdle' /\ InAddrExist' /\ InCompare' /\ InContains'
         /\ InFindPos' /\ InMasks'
<1>1. CallType'
  BY DEF IInv, CallType, vars
<1>2. OwnLoops'
  BY DEF IInv, OwnLoops, In, vars
<1>3. NthAgrees'
  BY DEF IInv, NthAgrees, vars
<1> QED BY <1>1, <1>2, <1>3, Elsewhere

LEMMA NthCallerIs ==
  ASSUME IInv, frame.pc \in {"entries", "ports"}
  PROVE  caller = "pool4_get_nth_taddr"
BY DEF IInv, CallType, OwnLoops, In

LEMMA StepCallNthTaddr ==
  ASSUME IInv, NEW domain \in KeptDomains, NEW n \in Index,
         CallNthTaddr(domain, n)
  PROVE  IInv'
<1>1. /\ frame = Idle /\ caller = "pool4_get_nth_taddr" /\ frame \in Frames
      /\ cpool \in Seq(Entry)
  BY DEF CallNthTaddr, IInv, InIdle, CallType
<1>2. /\ n \in Nat /\ domain.count \in Nat \ {0}
      /\ n % domain.count \in Nat
  BY MaskCallsAssumption, KeptIs
<1>3. /\ UNCHANGED <<vars, caller>> /\ taken' = NotTaken
      /\ frame' = [frame EXCEPT !.pc = "entries", !.domain = domain, !.asked = n,
                     !.n = n % domain.count, !.k = 1]
  BY DEF CallNthTaddr
<1>4. frame' \in Frames
  <2>1. /\ domain \in KeptDomains \cup {NoDomain}
        /\ n % domain.count \in Int /\ 1 \in Nat
    BY <1>2
  <2> QED BY <1>1, <1>2, <1>3, <2>1 DEF Frames
<1>5. /\ frame'.pc = "entries" /\ frame'.domain = domain /\ frame'.asked = n
      /\ frame'.n = n % domain.count /\ frame'.k = 1
      /\ frame'.before = frame.before /\ frame'.flag = FALSE
  BY <1>1, <1>3 DEF Frames, Idle
<1>6. Nothing'
  BY <1>1, <1>3 DEF Nothing, Idle
<1>7. 1 \in 1 .. Len(cpool) + 1
  BY <1>1, LenProperties
<1>8. ~ \E j \in HoldingFirst(cpool, domain) : j < 1
  BY <1>1, LenProperties DEF HoldingFirst
<1>9. Cardinality({}) = 0
  BY FS_EmptySet
<1>10. InEntries'
  <2>1. (frame.flag = \E j \in Holders : j < frame.k)'
    BY <1>3, <1>5, <1>8 DEF Holders, vars
  <2>2. CountedDown({})'
    BY <1>2, <1>5, <1>9 DEF CountedDown
  <2>3. CountedDown(IF frame.flag THEN {t \in Turns : t[1] < frame.k} ELSE {})'
    BY <1>5, <2>2 DEF CountedDown
  <2> QED BY <1>3, <1>5, <1>6, <1>7, <2>1, <2>3 DEF InEntries, vars
<1> QED BY <1>1, <1>3, <1>4, <1>5, <1>10, WalksOn, Elsewhere DEF IInv

LEMMA StepEntryTurn ==
  ASSUME IInv, EntryTurn
  PROVE  IInv'
<1> DEFINE k == frame.k
           e == cpool[k]
           l4 == frame.domain.first.l4
           f == First(Holders)
<1>1. /\ frame.pc = "entries" /\ k \in DOMAIN cpool
      /\ caller = "pool4_get_nth_taddr" /\ frame \in Frames
      /\ cpool \in Seq(Entry) /\ frame.flag \in BOOLEAN
  BY NthCallerIs DEF EntryTurn, In, IInv, CallType, Frames
<1>2. /\ Nothing /\ frame.domain \in KeptDomains
      /\ frame.flag = \E j \in Holders : j < k
      /\ CountedDown(IF frame.flag THEN {t \in Turns : t[1] < k} ELSE {})
  BY <1>1 DEF IInv, InEntries, In
<1>3. k \in Nat /\ k \in 1 .. Len(cpool) /\ Len(cpool) \in Nat
  BY <1>1, LenProperties
<1>4. l4 \in Nat
  BY <1>2, KeptIs
<1>5. e.min \in Nat
  BY <1>1, PortsType
<1>6. HoldsFirst(cpool[k]) <=> k \in Holders
  BY <1>1 DEF HoldsFirst, Holders, HoldingFirst
<1>7. Holders \in SUBSET Nat
  BY <1>1, LenProperties DEF Holders, HoldingFirst
<1>8. CASE HoldsFirst(cpool[k]) \/ frame.flag
  <2> DEFINE i == StartPort(cpool[k])
  <2>1. /\ UNCHANGED <<vars, caller, taken>>
        /\ frame' = [frame EXCEPT !.pc = "ports", !.i = i]
    BY <1>8 DEF EntryTurn, Goto
  <2>2. i \in Nat /\ i = IF frame.flag THEN e.min ELSE l4
    BY <1>4, <1>5 DEF StartPort
  <2>3. frame' \in Frames
    BY <1>1, <2>1, <2>2 DEF Frames
  <2>4. /\ frame'.pc = "ports" /\ frame'.domain = frame.domain
        /\ frame'.asked = frame.asked /\ frame'.n = frame.n
        /\ frame'.k = k /\ frame'.i = i /\ frame'.before = frame.before
        /\ frame'.flag = frame.flag
    BY <1>1, <2>1, <2>2 DEF Frames
  <2>5. Nothing'
    BY <1>1, <1>2, <2>1 DEF Nothing, Frames
  <2>6. Holders # {}
    BY <1>2, <1>6, <1>8
  <2>7. /\ f \in Holders /\ f \in Nat /\ \A j \in Holders : f <= j
        /\ Turns = {s \in Slots(cpool) :
                      s[1] >= f /\ s[2] >= IF s[1] = f THEN l4
                                           ELSE cpool[s[1]].min}
    BY <1>1, <1>2, <2>6, TurnsAre
  <2>8. f <= k /\ (frame.flag <=> f < k)
    <3>1. frame.flag <=> \E j \in Holders : j < k
      BY <1>1, <1>2
    <3>2. \A j \in Holders : j \in Nat
      BY <1>7
    <3> HIDE DEF f
    <3>3. frame.flag <=> f < k
      BY <1>3, <2>7, <3>1, <3>2
    <3>4. k \in Holders => f <= k
      BY <2>7
    <3> QED BY <1>3, <1>6, <1>8, <2>7, <3>3, <3>4
  <2>9. {t \in Turns : Precedes(t, <<k, i>>)}
          = IF frame.flag THEN {t \in Turns : t[1] < k} ELSE {}
    <3>1. \A t \in Turns : t \in Slots(cpool) /\ t[1] \in Nat /\ t[2] \in Nat
      BY <1>1, <2>7, SlotType
    <3> HIDE DEF f
    <3>2. \A t \in Turns : t[1] = k => t[2] >= i
      <4>1. f = k <=> ~frame.flag
        BY <1>3, <2>7, <2>8
      <4>2. \A t \in Turns : t[2] >= IF t[1] = f THEN l4 ELSE cpool[t[1]].min
        BY <2>7
      <4> HIDE DEF i, l4
      <4> QED BY <2>2, <4>1, <4>2
    <3>3. \A t \in Turns : t[1] >= f
      BY <2>7
    <3>4. \A t \in Turns : Precedes(t, <<k, i>>) <=> t[1] < k
      BY <1>3, <2>2, <3>1, <3>2 DEF Precedes
    <3>5. {t \in Turns : Precedes(t, <<k, i>>)} = {t \in Turns : t[1] < k}
      BY <3>4
    <3>6. ~frame.flag => {t \in Turns : t[1] < k} = {}
      <4>1. ~frame.flag => k <= f
        BY <1>3, <2>7, <2>8
      <4>2. ~frame.flag => \A t \in Turns : ~(t[1] < k)
        BY <1>3, <2>7, <3>1, <3>3, <4>1
      <4> QED BY <4>2
    <3> HIDE DEF i
    <3> QED BY <1>1, <3>5, <3>6
  <2>10. CountedDown({t \in Turns : Precedes(t, Here)})'
    BY <1>2, <2>1, <2>4, <2>9 DEF CountedDown, Turns, Here, vars
  <2>11. (Holders # {} /\ First(Holders) <= frame.k
          /\ frame.flag = (First(Holders) < frame.k))'
    <3>1. frame.flag = (f < k)
      BY <1>1, <2>8
    <3> QED BY <2>1, <2>4, <2>6, <2>8, <3>1 DEF Holders, vars
  <2>12. (StartPort(cpool[frame.k]) <= frame.i)'
    BY <2>1, <2>2, <2>4 DEF StartPort, vars
  <2>13. InPorts'
    BY <1>1, <1>2, <2>1, <2>4, <2>5, <2>10, <2>11, <2>12 DEF InPorts, vars
  <2> QED BY <1>1, <2>1, <2>3, <2>4, <2>13, WalksOn, Elsewhere DEF IInv
<1>9. CASE ~(HoldsFirst(cpool[k]) \/ frame.flag)
  <2>1. /\ UNCHANGED <<vars, caller, taken>>
        /\ frame' = [frame EXCEPT !.k = @ + 1]
    BY <1>9 DEF EntryTurn, Goto
  <2>2. k + 1 \in Nat /\ k + 1 \in 1 .. Len(cpool) + 1
    BY <1>3
  <2>3. frame' \in Frames
    BY <1>1, <2>1, <2>2 DEF Frames
  <2>4. /\ frame'.pc = "entries" /\ frame'.domain = frame.domain
        /\ frame'.asked = frame.asked /\ frame'.n = frame.n
        /\ frame'.k = k + 1 /\ frame'.before = frame.before
        /\ frame'.flag = FALSE
    BY <1>1, <1>9, <2>1 DEF Frames
  <2>5. Nothing'
    BY <1>1, <1>2, <2>1 DEF Nothing, Frames
  <2>6. ~ \E j \in Holders : j < k + 1
    BY <1>2, <1>3, <1>6, <1>7, <1>9
  <2>7. (frame.flag = \E j \in Holders : j < frame.k)'
    BY <2>1, <2>4, <2>6 DEF Holders, vars
  <2>8. CountedDown({})'
    BY <1>2, <1>9, <2>4 DEF CountedDown
  <2>9. CountedDown(IF frame.flag THEN {t \in Turns : t[1] < frame.k} ELSE {})'
    BY <2>4, <2>8 DEF CountedDown
  <2>10. InEntries'
    BY <1>2, <2>1, <2>2, <2>4, <2>5, <2>7, <2>9 DEF InEntries, vars
  <2> QED BY <1>1, <2>1, <2>3, <2>4, <2>10, WalksOn, Elsewhere DEF IInv
<1> QED BY <1>8, <1>9

(* The walk returns: what it answers is what the order of the slots says.  *)
LEMMA WalkAnswers ==
  ASSUME IInv, caller = "pool4_get_nth_taddr", NEW ret, NEW mask,
         Took(ret, mask),
         LET masks == get_nth_taddr(cpool, frame.domain, frame.asked)
         IN  IF masks = {} THEN ret = -ESRCH ELSE ret = 0 /\ mask \in masks
  PROVE  IInv'
<1>1. /\ UNCHANGED <<vars, caller>> /\ frame' = Idle
      /\ taken' = [call |-> "get_nth_taddr", domain |-> frame.domain,
                   n |-> frame.asked, ret |-> ret, mask |-> mask]
  BY DEF Took
<1>2. NthAgrees'
  BY <1>1 DEF NthAgrees, vars
<1>3. OwnLoops'
  BY <1>1 DEF IInv, OwnLoops, In, Idle, vars
<1> QED BY <1>1, <1>2, <1>3, RestsIdle DEF IInv, CallType, vars

LEMMA PortsAre ==
  ASSUME IInv, In("ports")
  PROVE  /\ caller = "pool4_get_nth_taddr" /\ frame \in Frames
         /\ cpool \in Seq(Entry) /\ frame.domain \in KeptDomains
         /\ frame.k \in Nat /\ frame.i \in Nat /\ frame.n \in Nat
         /\ frame.k \in DOMAIN cpool /\ Holders # {}
         /\ CountedDown({t \in Turns : Precedes(t, Here)})
         /\ Nothing
         /\ cpool[frame.k].min <= frame.i
         /\ frame.k = First(Holders) => frame.domain.first.l4 <= frame.i
<1> DEFINE k == frame.k
           f == First(Holders)
<1>1. /\ caller = "pool4_get_nth_taddr" /\ frame \in Frames
      /\ cpool \in Seq(Entry) /\ frame.flag \in BOOLEAN
      /\ frame.k \in Nat /\ frame.i \in Nat /\ frame.n \in Int
  BY NthCallerIs DEF In, IInv, CallType, Frames
<1>2. /\ Nothing /\ frame.domain \in KeptDomains
      /\ k \in DOMAIN cpool
      /\ Holders # {} /\ f <= k
      /\ frame.flag = (f < k)
      /\ StartPort(cpool[k]) <= frame.i
      /\ CountedDown({t \in Turns : Precedes(t, Here)})
  BY DEF IInv, InPorts
<1>3. frame.n \in Nat
  BY <1>1, <1>2 DEF CountedDown
<1>4. f \in Holders /\ f \in Nat
  BY <1>1, <1>2, TurnsAre
<1>5. frame.domain.first.l4 \in Nat
  BY <1>2, KeptIs
<1>6. cpool[k].min \in Nat
  BY <1>1, <1>2, PortsType
<1>7. CASE f < k
  <2>1. frame.flag
    BY <1>2, <1>7
  <2>2. k # f
    BY <1>1, <1>4, <1>7
  <2>3. StartPort(cpool[k]) = cpool[k].min
    BY <2>1 DEF StartPort
  <2> QED BY <1>1, <1>2, <1>3, <2>2, <2>3
<1>8. CASE f = k
  <2>1. ~(f < k)
    BY <1>1, <1>8
  <2>2. StartPort(cpool[k]) = frame.domain.first.l4
    BY <1>2, <2>1 DEF StartPort
  <2>3. cpool[k].min <= frame.domain.first.l4
    BY <1>4, <1>8 DEF Holders, HoldingFirst
  <2>4. frame.domain.first.l4 <= frame.i
    BY <1>2, <2>2
  <2>5. cpool[k].min <= frame.i
    BY <1>1, <1>5, <1>6, <2>3, <2>4
  <2> QED BY <1>1, <1>2, <1>3, <2>4, <2>5
<1> QED BY <1>1, <1>2, <1>4, <1>7, <1>8

(* A turn of the walk at a port is one of the slots it visits.             *)
LEMMA TurnHere ==
  ASSUME IInv, In("ports"), AtSlot
  PROVE  /\ Here \in Slots(cpool) /\ Here = <<frame.k, frame.i>>
         /\ Here \in Turns
<1> DEFINE f == First(Holders)
<1>1. OnPool
  <2>1. frame.k \in 1 .. Len(cpool) + 1
    BY PortsAre, LenProperties
  <2> QED BY <2>1, PortsAre DEF OnPool
<1>2. Here \in Slots(cpool) /\ Here = <<frame.k, frame.i>>
  BY <1>1, SlotHere
<1>3. f <= frame.k
  BY DEF IInv, InPorts
<1>4. Here[1] = frame.k /\ Here[2] = frame.i
  BY <1>2
<1>5. Turns = {s \in Slots(cpool) :
                 s[1] >= f /\ s[2] >= IF s[1] = f THEN frame.domain.first.l4
                                      ELSE cpool[s[1]].min}
  BY PortsAre, TurnsAre
<1>6. f \in Nat /\ frame.domain.first.l4 \in Nat /\ cpool[frame.k].min \in Nat
  BY PortsAre, TurnsAre, KeptIs, PortsType
<1>7. Here[1] >= f /\ Here[2] >= IF Here[1] = f THEN frame.domain.first.l4
                                 ELSE cpool[Here[1]].min
  BY <1>3, <1>4, <1>6, PortsAre
<1> QED BY <1>2, <1>5, <1>7

LEMMA StepPortTurn ==
  ASSUME IInv, PortTurn
  PROVE  IInv'
<1> DEFINE k == frame.k
           i == frame.i
           done == {t \in Turns : Precedes(t, Here)}
           total == frame.asked % frame.domain.count
<1>1. In("ports") /\ AtSlot
  BY DEF PortTurn
<1>2. /\ caller = "pool4_get_nth_taddr" /\ frame \in Frames
      /\ cpool \in Seq(Entry) /\ frame.domain \in KeptDomains
      /\ k \in Nat /\ i \in Nat /\ frame.n \in Nat
      /\ k \in DOMAIN cpool /\ Holders # {} /\ Nothing
      /\ frame.n + Cardinality(done) = total
  BY <1>1, PortsAre DEF CountedDown
<1>3. Here \in Slots(cpool) /\ Here = <<k, i>> /\ Here \in Turns
  BY <1>1, TurnHere
<1>4. IsFiniteSet(Turns) /\ Turns \in SUBSET Slots(cpool)
  BY <1>2, TurnsAre DEF Turns, Visited
<1>5. IsFiniteSet(done) /\ Cardinality(done) \in Nat
  BY <1>4, FS_Subset, FS_CardinalityType
<1>6. CASE frame.n = 0
  <2>1. Took(0, TaddrOf(cpool, Here))
    BY <1>6 DEF PortTurn
  <2>2. Cardinality(done) = total
    BY <1>2, <1>5, <1>6
  <2>3. Here \in NthVisited(cpool, frame.domain, total)
    BY <1>3, <2>2 DEF NthVisited, Turns
  <2>4. TaddrOf(cpool, Here) \in get_nth_taddr(cpool, frame.domain, frame.asked)
    BY <1>2, <2>3 DEF get_nth_taddr, Holders
  <2> QED BY <1>2, <2>1, <2>4, WalkAnswers
<1>7. CASE frame.n # 0
  <2>1. frame.domain.step = 1
    BY <1>2, KeptIs
  <2>2. /\ UNCHANGED <<vars, caller, taken>>
        /\ frame' = [frame EXCEPT !.n = @ - 1, !.i = @ + frame.domain.step]
    BY <1>7 DEF PortTurn, Goto
  <2>3. frame.n - 1 \in Nat /\ frame.n - 1 \in Int /\ i + frame.domain.step \in Nat
    BY <1>2, <1>7, <2>1
  <2>4. frame' \in Frames
    BY <1>2, <2>2, <2>3 DEF Frames
  <2>5. /\ frame'.pc = "ports" /\ frame'.domain = frame.domain
        /\ frame'.asked = frame.asked /\ frame'.n = frame.n - 1
        /\ frame'.k = k /\ frame'.i = i + 1 /\ frame'.before = frame.before
        /\ frame'.flag = frame.flag
    BY <1>1, <1>2, <2>1, <2>2 DEF In, Frames
  <2>6. Nothing'
    BY <1>2, <2>2 DEF Nothing, Frames
  <2>7. {t \in Turns : Precedes(t, <<k, i + 1>>)} = done \cup {Here}
    <3>1. \A t \in Turns : t[1] \in Nat /\ t[2] \in Nat /\ t = <<t[1], t[2]>>
      BY <1>2, <1>4, SlotType
    <3> QED BY <1>2, <1>3, <3>1 DEF Precedes
  <2>8. Here \notin done
    BY <1>2, <1>3 DEF Precedes
  <2>9. Cardinality(done \cup {Here}) = Cardinality(done) + 1
    BY <1>5, <2>8, FS_AddElement
  <2>10. frame.n - 1 >= 0 /\ (frame.n - 1) + Cardinality(done \cup {Here}) = total
    BY <1>2, <1>5, <2>3, <2>9
  <2>11. CountedDown({t \in Turns : Precedes(t, Here)})'
    <3>1. {t \in Turns : Precedes(t, Here)}' = done \cup {Here}
      BY <2>2, <2>5, <2>7 DEF Turns, Here, vars
    <3> QED BY <2>5, <2>10, <3>1 DEF CountedDown
  <2>12. (Holders # {} /\ First(Holders) <= frame.k
          /\ frame.flag = (First(Holders) < frame.k))'
    BY <1>1, <2>2, <2>5 DEF IInv, InPorts, Holders, vars
  <2>13. (StartPort(cpool[frame.k]) <= frame.i)'
    <3>1. StartPort(cpool[k]) <= i
      BY <1>1 DEF IInv, InPorts
    <3>2. StartPort(cpool[k]) \in Nat
      BY <1>2, KeptIs, PortsType DEF StartPort
    <3>3. StartPort(cpool[k]) <= i + 1
      BY <1>2, <3>1, <3>2
    <3> QED BY <2>2, <2>5, <3>3 DEF StartPort, vars
  <2>14. InPorts'
    BY <1>2, <2>2, <2>5, <2>6, <2>11, <2>12, <2>13 DEF InPorts, vars
  <2> QED BY <1>2, <2>2, <2>4, <2>5, <2>14, WalksOn, Elsewhere DEF IInv
<1> QED BY <1>6, <1>7

LEMMA StepPortsEnd ==
  ASSUME IInv, PortsEnd
  PROVE  IInv'
<1> DEFINE k == frame.k
           i == frame.i
<1>1. In("ports") /\ PastPorts
  BY DEF PortsEnd
<1>2. /\ caller = "pool4_get_nth_taddr" /\ frame \in Frames
      /\ cpool \in Seq(Entry) /\ frame.domain \in KeptDomains
      /\ k \in Nat /\ i \in Nat
      /\ k \in DOMAIN cpool /\ Holders # {} /\ Nothing
      /\ CountedDown({t \in Turns : Precedes(t, Here)})
  BY <1>1, PortsAre
<1>3. First(Holders) \in Holders /\ First(Holders) \in Nat /\ First(Holders) <= k
  BY <1>1, <1>2, TurnsAre DEF IInv, InPorts
<1>4. /\ UNCHANGED <<vars, caller, taken>>
      /\ frame' = [frame EXCEPT !.pc = "entries", !.flag = TRUE, !.k = @ + 1]
  BY DEF PortsEnd, Goto
<1>5. k + 1 \in Nat /\ k + 1 \in 1 .. Len(cpool) + 1 /\ First(Holders) < k + 1
  BY <1>2, <1>3, LenProperties
<1>6. frame' \in Frames
  <2>1. TRUE \in BOOLEAN
    OBVIOUS
  <2> QED BY <1>2, <1>4, <1>5, <2>1 DEF Frames
<1>7. /\ frame'.pc = "entries" /\ frame'.domain = frame.domain
      /\ frame'.asked = frame.asked /\ frame'.n = frame.n
      /\ frame'.k = k + 1 /\ frame'.before = frame.before
      /\ frame'.flag = TRUE
  BY <1>2, <1>4 DEF Frames
<1>8. Nothing'
  BY <1>2, <1>4 DEF Nothing, Frames
<1>9. {t \in Turns : t[1] < k + 1} = {t \in Turns : Precedes(t, Here)}
  <2>1. \A t \in Turns : /\ t[1] \in Nat /\ t[2] \in Nat
                         /\ t[1] = k => t[2] <= cpool[k].max
    BY <1>2, SlotType DEF Turns, Visited, Slots
  <2>2. cpool[k].max \in Nat /\ cpool[k].max < i
    BY <1>1, <1>2, PortsType DEF PastPorts
  <2> QED BY <1>2, <2>1, <2>2 DEF Precedes, Here
<1>10. (frame.flag = \E j \in Holders : j < frame.k)'
  <2>1. \E j \in Holders : j < k + 1
    BY <1>3, <1>5
  <2> QED BY <1>4, <1>7, <2>1 DEF Holders, vars
<1>11. CountedDown(IF frame.flag THEN {t \in Turns : t[1] < frame.k} ELSE {})'
  <2>1. {t \in Turns : t[1] < frame.k}' = {t \in Turns : Precedes(t, Here)}
    BY <1>4, <1>7, <1>9 DEF Turns, vars
  <2>2. CountedDown({t \in Turns : t[1] < frame.k})'
    BY <1>2, <1>7, <2>1 DEF CountedDown
  <2> QED BY <1>7, <2>2 DEF CountedDown
<1>12. InEntries'
  BY <1>2, <1>4, <1>5, <1>7, <1>8, <1>10, <1>11 DEF InEntries, vars
<1> QED BY <1>2, <1>4, <1>6, <1>7, <1>12, WalksOn, Elsewhere DEF IInv

LEMMA StepEntriesEnd ==
  ASSUME IInv, EntriesEnd
  PROVE  IInv'
<1> DEFINE k == frame.k
           total == frame.asked % frame.domain.count
           masks == get_nth_taddr(cpool, frame.domain, frame.asked)
<1>1. /\ frame.pc = "entries" /\ k > Len(cpool) /\ Took(-ESRCH, Spool)
      /\ caller = "pool4_get_nth_taddr" /\ frame \in Frames
      /\ cpool \in Seq(Entry) /\ frame.flag \in BOOLEAN
  BY NthCallerIs DEF EntriesEnd, PastPool, In, IInv, CallType, Frames
<1>2. /\ frame.domain \in KeptDomains
      /\ frame.flag = \E j \in Holders : j < k
      /\ CountedDown(IF frame.flag THEN {t \in Turns : t[1] < k} ELSE {})
  BY <1>1 DEF IInv, InEntries, In
<1>3. masks = {}
  <2>1. CASE Holders = {}
    BY <2>1 DEF get_nth_taddr, Holders
  <2>2. CASE Holders # {}
    <3>1. Len(cpool) \in Nat /\ DOMAIN cpool = 1 .. Len(cpool) /\ k \in Nat
      BY <1>1, LenProperties DEF Frames
    <3>2. /\ IsFiniteSet(Turns) /\ Turns \in SUBSET Slots(cpool)
          /\ First(Holders) \in DOMAIN cpool /\ First(Holders) \in Holders
      BY <1>1, <1>2, <2>2, TurnsAre DEF Turns, Visited, Holders, HoldingFirst
    <3>3. First(Holders) < k
      BY <1>1, <3>1, <3>2
    <3>4. frame.flag
      BY <1>2, <3>2, <3>3
    <3>5. {t \in Turns : t[1] < k} = Turns
      <4>1. \A t \in Turns : t[1] \in 1 .. Len(cpool)
        BY <1>1, <3>2, SlotType
      <4> QED BY <1>1, <3>1, <4>1
    <3>6. frame.n \in Int /\ frame.n >= 0
          /\ frame.n + Cardinality(Turns) = total
      BY <1>1, <1>2, <3>4, <3>5 DEF CountedDown, Frames
    <3>7. ASSUME NEW s \in Turns
          PROVE  Cardinality({t \in Turns : Precedes(t, s)}) # total
      <4> DEFINE T == {t \in Turns : Precedes(t, s)}
      <4>1. s \notin T
        <5>1. s[1] \in Nat /\ s[2] \in Nat
          BY <1>1, <3>2, SlotType
        <5> QED BY <5>1 DEF Precedes
      <4>2. T \in SUBSET Turns /\ T # Turns
        BY <4>1
      <4> HIDE DEF T
      <4>3. /\ IsFiniteSet(T) /\ Cardinality(T) <= Cardinality(Turns)
            /\ Cardinality(T) # Cardinality(Turns)
        BY <3>2, <4>2, FS_Subset
      <4>4. Cardinality(T) \in Nat /\ Cardinality(Turns) \in Nat
        BY <3>2, <4>3, FS_CardinalityType
      <4>5. Cardinality(T) # total
        BY <3>6, <4>3, <4>4
      <4> QED BY <4>5 DEF T
    <3>8. NthVisited(cpool, frame.domain, total) = {}
      BY <3>7 DEF NthVisited, Turns
    <3> QED BY <3>8 DEF get_nth_taddr
  <2> QED BY <2>1, <2>2
<1> QED BY <1>1, <1>3, WalkAnswers

-----------------------------------------------------------------------------
(* Edits between two calls, and the whole step.                            *)

LEMMA EditPoolType ==
  ASSUME cpool \in Seq(Entry), EditPool
  PROVE  cpool' \in Seq(Entry) /\ clients' = clients
         /\ masks_per_client' = masks_per_client
<1>1. ASSUME NEW e \in Entry, AddEntry(e)
      PROVE  cpool' \in Seq(Entry) /\ UNCHANGED <<clients, masks_per_client>>
  BY <1>1 DEF AddEntry, Pool4Add, pool4_add
<1>2. ASSUME NEW e \in Entry, RemoveEntry(e)
      PROVE  cpool' \in Seq(Entry) /\ UNCHANGED <<clients, masks_per_client>>
  BY <1>2, RmType DEF RemoveEntry, Pool4Rm
<1>3. ASSUME FlushEntries
      PROVE  cpool' \in Seq(Entry) /\ UNCHANGED <<clients, masks_per_client>>
  BY <1>3, EmptySeq DEF FlushEntries, Pool4Flush, pool4_flush
<1> QED BY <1>1, <1>2, <1>3 DEF EditPool

LEMMA EditClientsType ==
  ASSUME clients \in Seq(Client), EditClients
  PROVE  clients' \in Seq(Client) /\ cpool' = cpool
         /\ masks_per_client' = masks_per_client
<1>1. ASSUME NEW p \in Prefix, AddClient(p)
      PROVE  clients' \in Seq(Client) /\ UNCHANGED <<cpool, masks_per_client>>
  <2>1. p \in Client
    BY DEF Client
  <2> QED BY <1>1, <2>1 DEF AddClient, ClientAdd, client_add
<1>2. ASSUME NEW p \in Prefix, DeleteClient(p)
      PROVE  clients' \in Seq(Client) /\ UNCHANGED <<cpool, masks_per_client>>
  BY <1>2, DeleteType DEF DeleteClient, ClientDelete
<1>3. ASSUME FlushClients
      PROVE  clients' \in Seq(Client) /\ UNCHANGED <<cpool, masks_per_client>>
  BY <1>3, EmptySeq DEF FlushClients, ClientFlush, client_flush
<1> QED BY <1>1, <1>2, <1>3 DEF EditClients

LEMMA StepEditPool ==
  ASSUME IInv, EditPool
  PROVE  IInv'
<1>1. frame = Idle /\ frame' = Idle /\ caller' = caller /\ taken' = NotTaken
  BY DEF EditPool, IInv, InIdle
<1>2. /\ cpool' \in Seq(Entry) /\ clients' = clients
      /\ masks_per_client' = masks_per_client
  BY EditPoolType DEF IInv, CallType
<1>3. OwnLoops'
  BY <1>1, <1>2 DEF IInv, OwnLoops, In, Idle
<1>4. NthAgrees'
  BY <1>1 DEF NthAgrees
<1> QED BY <1>1, <1>2, <1>3, <1>4, RestsIdle DEF IInv, CallType

LEMMA StepEditClients ==
  ASSUME IInv, EditClients
  PROVE  IInv'
<1>1. /\ frame = Idle /\ frame' = Idle /\ taken' = taken
      /\ caller = "get_mask" /\ caller' = caller
  BY DEF EditClients, IInv, InIdle
<1>2. /\ clients' \in Seq(Client) /\ cpool' = cpool
      /\ masks_per_client' = masks_per_client
  BY EditClientsType DEF IInv, CallType
<1>3. OwnLoops'
  BY <1>1 DEF IInv, OwnLoops, In, Idle
<1>4. NthAgrees'
  BY <1>1, <1>2 DEF IInv, NthAgrees
<1> QED BY <1>1, <1>2, <1>3, <1>4, RestsIdle DEF IInv, CallType

LEMMA StepCall ==
  ASSUME IInv, CallStep
  PROVE  IInv'
<1>1. CASE AddrExistTurn \/ AddrExistNext \/ AddDynamic
  BY <1>1, StepAddrExistTurn, StepAddrExistNext, StepAddDynamic
<1>2. CASE Compare \/ ContainsTurn \/ ContainsEnd
  BY <1>2, StepCompare, StepContainsTurn, StepContainsEnd
<1>3. CASE FindPosTurn \/ FindPosEnd
  BY <1>3, StepFindPosTurn, StepFindPosEnd
<1>4. CASE MaskTurn \/ MasksEnd \/ NextEntry
  BY <1>4, StepMaskTurn, StepMasksEnd, StepNextEntry
<1>5. CASE EntryTurn \/ PortTurn \/ PortsEnd \/ EntriesEnd
  BY <1>5, StepEntryTurn, StepPortTurn, StepPortsEnd, StepEntriesEnd
<1> QED BY <1>1, <1>2, <1>3, <1>4, <1>5 DEF CallStep

LEMMA InvStep ==
  ASSUME IInv, [CallsNext]_calls_vars
  PROVE  IInv'
<1>1. ASSUME NEW src \in Source, CallGetMask(src) PROVE IInv'
  BY <1>1, StepCallGetMask
<1>2. ASSUME NEW domain \in KeptDomains, NEW n \in Index,
             CallNthTaddr(domain, n)
      PROVE  IInv'
  BY <1>2, StepCallNthTaddr
<1>3. CASE CallStep
  BY <1>3, StepCall
<1>4. CASE EditPool
  BY <1>4, StepEditPool
<1>5. CASE EditClients
  BY <1>5, StepEditClients
<1>6. CASE UNCHANGED calls_vars
  BY <1>6, NothingMoves DEF calls_vars, vars
<1> QED BY <1>1, <1>2, <1>3, <1>4, <1>5, <1>6 DEF CallsNext

LEMMA InvHolds == CallsSpec => []IInv
<1>1. CallsInit => IInv
  BY InvInit
<1>2. IInv /\ [CallsNext]_calls_vars => IInv'
  BY InvStep
<1> QED BY <1>1, <1>2, PTL DEF CallsSpec

-----------------------------------------------------------------------------
(* What the invariant says of the counters of pool4_taddr4_find_pos().     *)
LEMMA CountersInv ==
  ASSUME IInv
  PROVE  CountersAgree
<1> DEFINE behind == IF AtSlot THEN Before(cpool, Here)
                     ELSE {s \in Slots(cpool) : s[1] <= frame.k}
           start == frame.ipv6_pos * masks_per_client
<1> SUFFICES ASSUME In("find_pos")
             PROVE  /\ frame.counter = Cardinality(behind)
                    /\ masks_per_client * frame.ports_pos
                         \in frame.counter .. frame.counter + masks_per_client - 1
                    /\ frame.dom.at = {TaddrOf(cpool, s) : s \in
                         {s \in behind : Rank(cpool, s) = start}}
  BY DEF CountersAgree
<1>1. cpool \in Seq(Entry) /\ frame.k \in Nat /\ frame.i \in Nat
  BY DEF IInv, CallType, Frames
<1>2. /\ OnPool
      /\ frame.counter = Rank(cpool, Here)
      /\ masks_per_client * frame.ports_pos
           \in frame.counter .. frame.counter + masks_per_client - 1
      /\ frame.dom = [set |-> StartBehind # {},
                      at |-> {TaddrOf(cpool, s) : s \in StartBehind}]
  BY DEF IInv, InFindPos
<1>3. Before(cpool, Here) = behind
  <2>1. CASE AtSlot
    BY <2>1
  <2>2. CASE ~AtSlot
    <3>1. \A s \in Slots(cpool) :
            /\ s[1] \in Nat /\ s[2] \in Nat /\ s[1] \in DOMAIN cpool
            /\ s[2] <= cpool[s[1]].max
      BY <1>1, SlotType DEF Slots
    <3>2. frame.k \in DOMAIN cpool => cpool[frame.k].max < frame.i
      <4>1. frame.k \in DOMAIN cpool => cpool[frame.k].max \in Nat
        BY <1>1, PortsType
      <4> QED BY <1>1, <2>2, <4>1 DEF AtSlot
    <3>3. \A s \in Slots(cpool) : Precedes(s, Here) <=> s[1] <= frame.k
      <4>1. \A s \in Slots(cpool) : s[1] = frame.k => s[2] < frame.i
        <5>1. frame.k \in DOMAIN cpool => cpool[frame.k].max \in Nat
          BY <1>1, PortsType
        <5> QED BY <1>1, <3>1, <3>2, <5>1
      <4> QED BY <1>1, <3>1, <4>1 DEF Precedes, Here
    <3> QED BY <2>2, <3>3 DEF Before
  <2> QED BY <2>1, <2>2
<1>4. frame.counter = Cardinality(behind)
  BY <1>2, <1>3 DEF Rank
<1>5. StartBehind = {s \in behind : Rank(cpool, s) = start}
  BY <1>3 DEF StartBehind
<1> HIDE DEF behind, start
<1> QED BY <1>2, <1>4, <1>5

(* No counter and no index of a loop gets past the lists.                  *)
LEMMA FrameInv ==
  ASSUME IInv
  PROVE  FrameOK
<1> DEFINE N == Cardinality(Slots(cpool))
<1>1. /\ frame \in Frames /\ cpool \in Seq(Entry) /\ clients \in Seq(Client)
      /\ Len(cpool) \in Nat /\ Len(clients) \in Nat /\ N \in Nat
  BY LenProperties, SlotsFinite, FS_CardinalityType DEF IInv, CallType
<1>2. /\ frame.pc \in {"idle", "addr_exist", "compare", "contains", "find_pos",
                       "masks", "entries", "ports"}
      /\ frame.src \in in6_addr /\ frame.dummy \in in6_addr
      /\ frame.before \in Seq(Client)
      /\ frame.k \in Nat /\ frame.i \in Nat
      /\ frame.counter \in Nat /\ frame.ports_pos \in Nat
      /\ frame.ipv6_pos \in Nat /\ frame.n \in Int
      /\ frame.domain \in KeptDomains \cup {NoDomain}
      /\ frame.flag \in BOOLEAN /\ frame.dom.set \in BOOLEAN
  BY <1>1 DEF Frames
<1> DEFINE Bounds ==
             /\ frame.k <= Len(cpool) + Len(clients) + 1
             /\ frame.ipv6_pos <= Len(clients)
             /\ frame.counter <= N /\ frame.ports_pos <= frame.counter
             /\ frame.dom.at \subseteq Taddrs(cpool)
             /\ frame.n >= - Len(cpool)
<1>3. ASSUME In("idle") PROVE Bounds
  BY <1>1, <1>3 DEF IInv, InIdle, Idle
<1>4. ASSUME In("addr_exist") \/ In("compare") PROVE Bounds
  <2>1. Fresh /\ frame.ipv6_pos = 0 /\ frame.k \in 1 .. Len(clients) + 1
    BY <1>4 DEF IInv, InAddrExist, InCompare
  <2> QED BY <1>1, <2>1 DEF Fresh
<1>5. ASSUME In("contains") PROVE Bounds
  <2>1. /\ Fresh /\ frame.k \in 1 .. Len(clients) + 1
        /\ frame.ipv6_pos = frame.k - 1
    BY <1>5 DEF IInv, InContains
  <2> QED BY <1>1, <2>1 DEF Fresh
<1>6. ASSUME In("find_pos") PROVE Bounds
  <2>1. /\ Chosen /\ OnPool /\ frame.n = 0
        /\ frame.counter = Rank(cpool, Here)
        /\ masks_per_client * frame.ports_pos
             \in frame.counter .. frame.counter + masks_per_client - 1
        /\ frame.dom.at = {TaddrOf(cpool, s) : s \in StartBehind}
    BY <1>6 DEF IInv, InFindPos
  <2>2. frame.counter <= N
    BY <1>1, <2>1, RankType
  <2>3. masks_per_client \in Nat \ {0}
    BY <2>1, ChosenIs
  <2>4. frame.ports_pos <= frame.counter
    BY <1>2, <2>1, <2>3, FewWindows
  <2>5. frame.dom.at \subseteq Taddrs(cpool)
    BY <2>1 DEF StartBehind, Before, Taddrs
  <2>6. frame.k <= Len(cpool) + 1 /\ frame.ipv6_pos + 1 <= Len(clients)
    BY <1>1, <2>1, LenProperties DEF OnPool, Chosen
  <2> QED BY <1>1, <1>2, <2>1, <2>2, <2>4, <2>5, <2>6
<1>7. ASSUME In("masks") PROVE Bounds
  <2>1. /\ Chosen /\ OnPool
        /\ frame.counter \in 0 .. N /\ frame.ports_pos \in 0 .. frame.counter
        /\ frame.n >= - frame.k
        /\ (frame.k \in DOMAIN cpool => \A m \in frame.dom.at : m.l4 >= frame.i)
             => frame.n >= 1 - frame.k
    BY <1>7 DEF IInv, InMasks
  <2>2. frame.dom.at \subseteq Taddrs(cpool)
    BY <1>7, DomainIs DEF In
  <2>3. frame.k \in 1 .. Len(cpool) + 1 /\ frame.ipv6_pos + 1 <= Len(clients)
    BY <1>1, <2>1, LenProperties DEF OnPool, Chosen
  <2>4. frame.n >= - Len(cpool)
    <3>1. CASE frame.k \in DOMAIN cpool
      <4>1. frame.k <= Len(cpool)
        BY <1>1, <3>1, LenProperties
      <4> QED BY <1>1, <1>2, <2>1, <4>1
    <3>2. CASE frame.k \notin DOMAIN cpool
      <4>1. frame.n >= 1 - frame.k
        BY <2>1, <3>2
      <4> QED BY <1>1, <1>2, <2>3, <4>1
    <3> QED BY <3>1, <3>2
  <2> QED BY <1>1, <1>2, <2>1, <2>2, <2>3, <2>4
<1>8. ASSUME In("entries") \/ In("ports") PROVE Bounds
  <2>1. /\ Nothing /\ frame.n >= 0 /\ frame.k \in 1 .. Len(cpool) + 1
    <3>1. CASE In("entries")
      BY <3>1 DEF IInv, InEntries, CountedDown
    <3>2. CASE In("ports")
      <4>1. frame.k \in DOMAIN cpool /\ DOMAIN cpool = 1 .. Len(cpool)
        BY <1>1, <3>2, LenProperties DEF IInv, InPorts
      <4>2. Nothing /\ frame.n >= 0
        BY <3>2 DEF IInv, InPorts, CountedDown
      <4> QED BY <1>1, <4>1, <4>2
    <3> QED BY <1>8, <3>1, <3>2
  <2> QED BY <1>1, <1>2, <2>1 DEF Nothing
<1>9. Bounds
  BY <1>2, <1>3, <1>4, <1>5, <1>6, <1>7, <1>8 DEF In
<1> QED BY <1>1, <1>2, <1>9 DEF FrameOK

-----------------------------------------------------------------------------
(* In every order of calls and edits, whatever the pool, the clients and   *)
(* the word width: the loops of get_mask() and pool4_get_nth_taddr() stay  *)
(* on the lists, and no counter gets past the masks of the pool.           *)
THEOREM LoopsStayOnLists == CallsSpec => []FrameOK
<1>1. CallsSpec => []IInv
  BY InvHolds
<1>2. IInv => FrameOK
  BY FrameInv
<1> QED BY <1>1, <1>2, PTL

(* pool4_taddr4_find_pos() counts masks and windows by the turn, and finds *)
(* the window that begins at mask ipv6_pos * masks_per_client, and none    *)
(* else.                                                                   *)
THEOREM WindowIsFound == CallsSpec => []CountersAgree
<1>1. CallsSpec => []IInv
  BY InvHolds
<1>2. IInv => CountersAgree
  BY CountersInv
<1> QED BY <1>1, <1>2, PTL

(* pool4_get_nth_taddr() returns the n-th mask of its walk, or -ESRCH when *)
(* the walk has none, for a struct of the pool as it is or as it was.      *)
THEOREM NthIsReturned == CallsSpec => []NthAgrees
<1>1. CallsSpec => []IInv
  BY InvHolds
<1>2. IInv => NthAgrees
  BY DEF IInv
<1> QED BY <1>1, <1>2, PTL

-----------------------------------------------------------------------------
(* The step that GetMask makes of a call.                                  *)

(* Operators that do not look at the state are the same in GetMask, where  *)
(* another list stands for the clients.                                    *)
LEMMA SameCardinality == \A S : Assignment!Cardinality(S) = Cardinality(S)
BY DEF Cardinality, Assignment!Cardinality

LEMMA SamePoolOps ==
  /\ \A l : Assignment!pool4_is_empty(l) = pool4_is_empty(l)
  /\ \A l, e : Assignment!pool4_add(l, e) = pool4_add(l, e)
  /\ \A l, e : Assignment!pool4_rm(l, e) = pool4_rm(l, e)
  /\ \A l : Assignment!pool4_flush(l) = pool4_flush(l)
  /\ \A l : Assignment!pool4_count(l) = pool4_count(l)
  /\ \A l, s : Assignment!TaddrOf(l, s) = TaddrOf(l, s)
  /\ \A l, pos, n : Assignment!DomainStart(l, pos, n) = DomainStart(l, pos, n)
  /\ \A d : Assignment!Free(d) = Free(d)
<1>1. \A l : Assignment!pool4_is_empty(l) = pool4_is_empty(l)
  BY DEF pool4_is_empty, Assignment!pool4_is_empty
<1>2. \A l, e : Assignment!pool4_add(l, e) = pool4_add(l, e)
  BY DEF pool4_add, Assignment!pool4_add
<1>3. \A l, e : Assignment!pool4_rm(l, e) = pool4_rm(l, e)
  <2>1. \A one, two : Assignment!pool4_equals(one, two) <=> pool4_equals(one, two)
    BY DEF pool4_equals, Assignment!pool4_equals
  <2>2. ASSUME NEW s, NEW K PROVE Assignment!SelectAt(s, K) = SelectAt(s, K)
    <3>1. ASSUME NEW i PROVE Assignment!Nth(K, i) = Nth(K, i)
      BY SameCardinality DEF Nth, Assignment!Nth
    <3>2. \A i \in 1 .. Cardinality(K) : s[Assignment!Nth(K, i)] = s[Nth(K, i)]
      BY <3>1
    <3> QED BY <3>2, SameCardinality DEF SelectAt, Assignment!SelectAt
  <2>3. \A l, e : {k \in DOMAIN l : ~Assignment!pool4_equals(e, l[k])}
                    = {k \in DOMAIN l : ~pool4_equals(e, l[k])}
    BY <2>1
  <2> QED BY <2>2, <2>3 DEF pool4_rm, Assignment!pool4_rm
<1>4. \A l : Assignment!pool4_flush(l) = pool4_flush(l)
  BY DEF pool4_flush, Assignment!pool4_flush
<1>5. \A l : Assignment!pool4_count(l) = pool4_count(l)
  BY DEF pool4_count, Assignment!pool4_count, Uint, Assignment!Uint,
     MapThenSumSet, Assignment!MapThenSumSet,
     MapThenFoldSet, Assignment!MapThenFoldSet
<1>6. \A l, s : Assignment!TaddrOf(l, s) = TaddrOf(l, s)
  BY DEF TaddrOf, Assignment!TaddrOf
<1>7. \A l, pos, n : Assignment!DomainStart(l, pos, n) = DomainStart(l, pos, n)
  <2>1. \A l : Assignment!Slots(l) = Slots(l)
    BY DEF Slots, Assignment!Slots
  <2>2. \A t, s : Assignment!Precedes(t, s) <=> Precedes(t, s)
    BY DEF Precedes, Assignment!Precedes
  <2>3. \A l, s : Assignment!Before(l, s) = Before(l, s)
    BY <2>1, <2>2 DEF Before, Assignment!Before
  <2>4. ASSUME NEW l, NEW s PROVE Assignment!Rank(l, s) = Rank(l, s)
    BY <2>3, SameCardinality DEF Rank, Assignment!Rank
  <2> QED BY <2>1, <2>4 DEF DomainStart, Assignment!DomainStart
<1>8. \A d : Assignment!Free(d) = Free(d)
  BY DEF Free, Assignment!Free, bibdb_contains4, Assignment!bibdb_contains4
<1> QED BY <1>1, <1>2, <1>3, <1>4, <1>5, <1>6, <1>7, <1>8

LEMMA SameClientOps ==
  /\ \A l, p : Assignment!client_add(l, p) = client_add(l, p)
  /\ \A l, p : Assignment!client_delete(l, p) = client_delete(l, p)
  /\ \A l : Assignment!client_flush(l) = client_flush(l)
  /\ \A l : Assignment!client_count(l) = client_count(l)
  /\ \A l, a : Assignment!client_addr_exist(l, a) = client_addr_exist(l, a)
  /\ \A l, a : Assignment!Holding(l, a) = Holding(l, a)
  /\ \A l, p : Assignment!Matching(l, p) = Matching(l, p)
  /\ \A K : Assignment!First(K) = First(K)
<1>1. \A l, p : Assignment!client_add(l, p) = client_add(l, p)
  BY DEF client_add, Assignment!client_add
<1>2. \A K : Assignment!First(K) = First(K)
  BY DEF First, Assignment!First
<1>3. \A l, p : Assignment!Matching(l, p) = Matching(l, p)
  BY DEF Matching, Assignment!Matching,
     prefix6_equals, Assignment!prefix6_equals
<1>4. \A l, p : Assignment!client_delete(l, p) = client_delete(l, p)
  BY <1>2, <1>3 DEF client_delete, Assignment!client_delete,
     RemoveNode, Assignment!RemoveNode
<1>5. \A l : Assignment!client_flush(l) = client_flush(l)
  BY DEF client_flush, Assignment!client_flush
<1>6. \A p : Assignment!get_addr6_count(p) = get_addr6_count(p)
  BY DEF get_addr6_count, Assignment!get_addr6_count, Uint, Assignment!Uint,
     ShiftCount, Assignment!ShiftCount, AddrBits, Assignment!AddrBits
<1>7. \A l : Assignment!client_count(l) = client_count(l)
  BY DEF client_count, Assignment!client_count, Uint, Assignment!Uint,
     get_addr6_count, Assignment!get_addr6_count,
     ShiftCount, Assignment!ShiftCount, AddrBits, Assignment!AddrBits,
     MapThenSumSet, Assignment!MapThenSumSet,
     MapThenFoldSet, Assignment!MapThenFoldSet
<1>8. \A p : Assignment!Walk(p) = Walk(p)
  BY DEF Walk, Assignment!Walk, get_addr6_count, Assignment!get_addr6_count,
     ShiftCount, Assignment!ShiftCount, AddrBits, Assignment!AddrBits,
     Uint, Assignment!Uint, addr6_iterations, Assignment!addr6_iterations,
     MAXipv6, Assignment!MAXipv6
<1>9. \A l, a : Assignment!client_addr_exist(l, a) = client_addr_exist(l, a)
  BY <1>8 DEF client_addr_exist, Assignment!client_addr_exist
<1>10. \A l, a : Assignment!Holding(l, a) = Holding(l, a)
  BY DEF Holding, Assignment!Holding, prefix_contains,
     Assignment!prefix_contains, ShiftCount, Assignment!ShiftCount,
     AddrBits, Assignment!AddrBits
<1> QED BY <1>1, <1>2, <1>3, <1>4, <1>5, <1>7, <1>9, <1>10

LEMMA SameAnswers ==
  /\ \A l, b : Assignment!MayAllocate(l, b) = MayAllocate(l, b)
  /\ \A a : Assignment!dynamic_prefix(a) = dynamic_prefix(a)
  /\ \A pool, l, a, n :
       Assignment!mask_domain_error(pool, l, a, n) = mask_domain_error(pool, l, a, n)
  /\ \A l, a : Assignment!ClientPlace(l, a) = ClientPlace(l, a)
  /\ \A pool, k, n :
       Assignment!get_mask_domain(pool, k, n) = get_mask_domain(pool, k, n)
  /\ \A a, e, d, f, m : Assignment!Answer(a, e, d, f, m) = Answer(a, e, d, f, m)
  /\ Assignment!NoAnswer = NoAnswer /\ Assignment!Spool = Spool
<1>1. \A l, b : Assignment!MayAllocate(l, b) = MayAllocate(l, b)
  BY DEF MayAllocate, Assignment!MayAllocate
<1>2. \A a : Assignment!dynamic_prefix(a) = dynamic_prefix(a)
  BY DEF dynamic_prefix, Assignment!dynamic_prefix, AddrBits, Assignment!AddrBits
<1>3. \A pool, l, a, n :
       Assignment!mask_domain_error(pool, l, a, n) = mask_domain_error(pool, l, a, n)
  BY SamePoolOps, SameClientOps
     DEF mask_domain_error, Assignment!mask_domain_error, ESRCH, Assignment!ESRCH
<1>4. \A l, a : Assignment!ClientPlace(l, a) = ClientPlace(l, a)
  BY SameClientOps DEF ClientPlace, Assignment!ClientPlace
<1>5. \A pool, k, n :
       Assignment!get_mask_domain(pool, k, n) = get_mask_domain(pool, k, n)
  <2>1. \A pool : Assignment!Taddrs(pool) = Taddrs(pool)
    BY SamePoolOps DEF Taddrs, Assignment!Taddrs, Slots, Assignment!Slots
  <2>2. \A pool : Assignment!DomainUnset(pool) = DomainUnset(pool)
    BY <2>1 DEF DomainUnset, Assignment!DomainUnset
  <2>3. \A pool, k, n : Assignment!DomainSet(pool, k, n) = DomainSet(pool, k, n)
    BY SamePoolOps DEF DomainSet, Assignment!DomainSet
  <2> QED BY <2>2, <2>3, SamePoolOps DEF get_mask_domain, Assignment!get_mask_domain
<1>6. \A a, e, d, f, m : Assignment!Answer(a, e, d, f, m) = Answer(a, e, d, f, m)
  BY DEF Answer, Assignment!Answer
<1>7. Assignment!NoAnswer = NoAnswer /\ Assignment!Spool = Spool
  BY DEF NoAnswer, Assignment!NoAnswer, Spool, Assignment!Spool
<1> QED BY <1>1, <1>2, <1>3, <1>4, <1>5, <1>6, <1>7

(* The client list as GetMask has it.                                      *)
List == IF In("idle") THEN clients ELSE frame.before

LEMMA Stutters ==
  ASSUME UNCHANGED <<cpool, masks_per_client, answer, grants>>, List' = List
  PROVE  UNCHANGED Assignment!vars
BY DEF Assignment!vars, List

LEMMA InitRefines == CallsInit => Assignment!Init
<1> SUFFICES ASSUME CallsInit PROVE Assignment!Init
  OBVIOUS
<1>1. In("idle")
  BY DEF CallsInit, In, Idle
<1> QED BY <1>1, SameAnswers DEF CallsInit, Init, Assignment!Init

(* The list a call works on is one GetMask lets it work on.                *)
LEMMA KnownIsKnown ==
  ASSUME Known, ~In("idle")
  PROVE  clients \in Assignment!KnownClients(frame.src)
<1>1. Assignment!KnownClients(frame.src)
        = IF client_addr_exist(frame.before, frame.src) THEN {frame.before}
          ELSE {IF ok THEN client_add(frame.before, dynamic_prefix(frame.src))
                ELSE frame.before : ok \in MayAllocate(frame.before, MaxClients)}
  BY SameClientOps, SameAnswers DEF Assignment!KnownClients
<1> QED BY <1>1 DEF Known

(* A call that returns an error. *)
LEMMA ErrorRefines ==
  ASSUME IInv, ~In("idle"), Asked, Known, NEW err, err # 0,
         err = mask_domain_error(cpool, clients, frame.src, masks_per_client),
         Return(err, "none", "none", Spool), UNCHANGED grants
  PROVE  Assignment!Next
<1>1. List' = clients
  BY DEF Return, List, In, Idle
<1>2. ~Assignment!pool4_is_empty(cpool)
  BY SamePoolOps DEF Asked, pool4_is_empty
<1>3. clients \in Assignment!KnownClients(frame.src)
  BY KnownIsKnown
<1>4. /\ Assignment!mask_domain_error(cpool, clients, frame.src, masks_per_client)
           = err
      /\ answer' = Assignment!Answer(frame.src, err, "none", "none",
                                     Assignment!Spool)
  BY SameAnswers DEF Return
<1>5. Assignment!GetMaskError(frame.src)
  BY <1>1, <1>2, <1>3, <1>4 DEF Assignment!GetMaskError, Return, List
<1>6. frame.src \in Source
  BY DEF Asked
<1> QED BY <1>5, <1>6 DEF Assignment!Next

(* A call that serves a mask of the domain it found, or one of spool.      *)
LEMMA ServedRefines ==
  ASSUME IInv, ~In("idle"), Chosen,
         frame.dom \in get_mask_domain(cpool, frame.ipv6_pos + 1, masks_per_client),
         \/ /\ Free(frame.dom) = {}
            /\ Return(0, How, "spool", Spool) /\ UNCHANGED grants
         \/ \E mask \in Free(frame.dom) :
              /\ Return(0, How, "cpool", mask)
              /\ grants' = IF frame.dom.set
                           THEN grants \cup {[place |-> frame.ipv6_pos + 1,
                                              src |-> frame.src, mask |-> mask]}
                           ELSE grants
  PROVE  Assignment!Next
<1> DEFINE k == frame.ipv6_pos + 1
           dom == frame.dom
<1>1. /\ List' = clients
      /\ UNCHANGED <<cpool, clients, masks_per_client, caller, taken>>
  BY DEF Return, List, In, Idle
<1>2. ~Assignment!pool4_is_empty(cpool) /\ frame.src \in Source
  BY SamePoolOps DEF Chosen, Asked, pool4_is_empty
<1>3. clients \in Assignment!KnownClients(frame.src)
  BY KnownIsKnown DEF Chosen
<1>4. Assignment!mask_domain_error(cpool, clients, frame.src, masks_per_client) = 0
  BY SameAnswers DEF Chosen
<1>5. Assignment!ClientPlace(clients, frame.src) = k
  BY SameAnswers DEF Chosen
<1>6. dom \in Assignment!get_mask_domain(cpool, k, masks_per_client)
  BY SameAnswers
<1>7. IF Assignment!Free(dom) # {}
      THEN \E mask \in Assignment!Free(dom) :
             /\ answer' = Assignment!Answer(frame.src, 0, How, "cpool", mask)
             /\ grants' = IF dom.set
                          THEN grants \cup
                            {[place |-> k, src |-> frame.src, mask |-> mask]}
                          ELSE grants
      ELSE /\ answer' = Assignment!Answer(frame.src, 0, How, "spool",
                                          Assignment!Spool)
           /\ grants' = grants
  BY SamePoolOps, SameAnswers DEF Return
<1>8. How = IF dom.set THEN "set" ELSE "unset"
  BY DEF How
<1>9. Assignment!GetMaskServed(frame.src)
  <2> HIDE DEF k, dom
  <2> QED BY <1>1, <1>2, <1>3, <1>4, <1>5, <1>6, <1>7, <1>8
          DEF Assignment!GetMaskServed, List
<1> QED BY <1>2, <1>9 DEF Assignment!Next

LEMMA CallRefines ==
  ASSUME IInv, NEW src \in Source, CallGetMask(src)
  PROVE  [Assignment!Next]_(Assignment!vars)
<1>1. frame = Idle /\ In("idle") /\ List = clients
  BY DEF CallGetMask, IInv, InIdle, List
<1>2. CASE pool4_is_empty(cpool)
  <2>1. /\ UNCHANGED <<cpool, clients, masks_per_client, grants, frame>>
        /\ answer' = Answer(src, 0, "none", "spool", Spool)
    BY <1>2 DEF CallGetMask
  <2>2. List' = List
    BY <2>1 DEF List, In
  <2>3. Assignment!pool4_is_empty(cpool)
    BY <1>2, SamePoolOps
  <2>4. answer' = Assignment!Answer(src, 0, "none", "spool", Assignment!Spool)
    BY <2>1, SameAnswers
  <2>5. Assignment!GetMaskEmptyPool(src)
    BY <2>1, <2>2, <2>3, <2>4 DEF Assignment!GetMaskEmptyPool, List
  <2> QED BY <2>5 DEF Assignment!Next
<1>3. CASE ~pool4_is_empty(cpool)
  <2>1. /\ UNCHANGED <<cpool, clients, masks_per_client, answer, grants>>
        /\ frame' = [frame EXCEPT !.pc = "addr_exist", !.src = src,
                       !.before = clients, !.k = 1, !.dummy = FirstAddr(1)]
    BY <1>3 DEF CallGetMask, Goto, vars
  <2>2. frame'.pc = "addr_exist" /\ frame'.before = clients
    BY <1>1, <2>1 DEF Idle
  <2>3. List' = List
    BY <1>1, <2>2 DEF List, In
  <2> QED BY <2>1, <2>3, Stutters
<1> QED BY <1>2, <1>3

(* A turn of a loop after which the call goes on.                          *)
LEMMA TurnRefines ==
  ASSUME frame \in Frames, ~In("idle"), ~In("idle")', frame'.before = frame.before,
         UNCHANGED <<cpool, masks_per_client, answer, grants>>
  PROVE  [Assignment!Next]_(Assignment!vars)
<1>1. List' = List
  BY DEF List
<1> QED BY <1>1, Stutters

LEMMA FirstLoopsRefine ==
  ASSUME IInv, AddrExistTurn \/ AddrExistNext \/ AddDynamic
  PROVE  [Assignment!Next]_(Assignment!vars)
<1>1. frame \in Frames /\ frame.pc = "addr_exist"
  BY DEF IInv, CallType, AddrExistTurn, AddrExistNext, AddDynamic, In
<1>2. UNCHANGED <<cpool, masks_per_client, answer, grants>>
  BY DEF AddrExistTurn, AddrExistNext, AddDynamic, Goto, vars
<1>3. frame'.pc \in {"addr_exist", "compare"} /\ frame'.before = frame.before
  BY <1>1 DEF AddrExistTurn, AddrExistNext, AddDynamic, Goto, Frames
<1> QED BY <1>1, <1>2, <1>3, TurnRefines DEF In

LEMMA CompareRefines ==
  ASSUME IInv, Compare
  PROVE  [Assignment!Next]_(Assignment!vars)
<1>1. /\ frame \in Frames /\ frame.pc = "compare" /\ ~In("idle")
      /\ Asked /\ Known
  BY DEF IInv, CallType, Compare, In, InCompare
<1>2. CASE client_count(clients) > pool4_count(cpool)
  <2>1. mask_domain_error(cpool, clients, frame.src, masks_per_client) = 1
    BY <1>2 DEF mask_domain_error
  <2> QED BY <1>1, <1>2, <2>1, ErrorRefines DEF Compare
<1>3. CASE ~(client_count(clients) > pool4_count(cpool))
  <2>1. /\ UNCHANGED <<cpool, masks_per_client, answer, grants>>
        /\ frame'.pc = "contains" /\ frame'.before = frame.before
    BY <1>1, <1>3 DEF Compare, Goto, vars, Frames
  <2> QED BY <1>1, <2>1, TurnRefines DEF In
<1> QED BY <1>2, <1>3

LEMMA ContainsRefines ==
  ASSUME IInv, ContainsTurn \/ ContainsEnd
  PROVE  [Assignment!Next]_(Assignment!vars)
<1>1. /\ frame \in Frames /\ frame.pc = "contains" /\ ~In("idle")
      /\ clients \in Seq(Client)
  BY DEF IInv, CallType, ContainsTurn, ContainsEnd, In
<1>2. /\ Asked /\ Known /\ frame.k \in 1 .. Len(clients) + 1
      /\ ~(client_count(clients) > pool4_count(cpool))
      /\ \A j \in 1 .. frame.k - 1 : ~prefix_contains(clients[j], frame.src)
  BY <1>1 DEF IInv, InContains, In
<1>3. CASE ContainsTurn
  <2>1. frame.k \in DOMAIN clients
    BY <1>3 DEF ContainsTurn
  <2>2. CASE ~prefix_contains(clients[frame.k], frame.src)
    <3>1. /\ UNCHANGED <<cpool, masks_per_client, answer, grants>>
          /\ frame'.pc = "contains" /\ frame'.before = frame.before
      BY <1>1, <1>3, <2>2 DEF ContainsTurn, Goto, vars, Frames
    <3> QED BY <1>1, <3>1, TurnRefines DEF In
  <2>3. CASE prefix_contains(clients[frame.k], frame.src) /\ masks_per_client = 0
    <3>1. frame.k \in Holding(clients, frame.src)
      BY <2>1, <2>3 DEF Holding
    <3>2. mask_domain_error(cpool, clients, frame.src, masks_per_client) = 1
      BY <1>2, <2>3, <3>1 DEF mask_domain_error
    <3> QED BY <1>1, <1>2, <1>3, <2>3, <3>2, ErrorRefines DEF ContainsTurn
  <2>4. CASE prefix_contains(clients[frame.k], frame.src) /\ masks_per_client # 0
    <3>1. /\ UNCHANGED <<cpool, masks_per_client, answer, grants>>
          /\ frame'.pc = "find_pos" /\ frame'.before = frame.before
      BY <1>1, <1>3, <2>4 DEF ContainsTurn, Goto, AtPorts, vars, Frames
    <3> QED BY <1>1, <3>1, TurnRefines DEF In
  <2> QED BY <2>2, <2>3, <2>4
<1>4. CASE ContainsEnd
  <2>1. Holding(clients, frame.src) = {}
    <3>1. \A j \in DOMAIN clients : j \in 1 .. frame.k - 1
      BY <1>1, <1>2, <1>4, LenProperties DEF ContainsEnd
    <3> QED BY <1>2, <3>1 DEF Holding
  <2>2. mask_domain_error(cpool, clients, frame.src, masks_per_client) = -ESRCH
    BY <1>2, <2>1 DEF mask_domain_error
  <2>3. -ESRCH # 0
    BY DEF ESRCH
  <2> QED BY <1>1, <1>2, <1>4, <2>2, <2>3, ErrorRefines DEF ContainsEnd
<1> QED BY <1>3, <1>4

LEMMA FindPosRefines ==
  ASSUME IInv, FindPosTurn \/ FindPosEnd \/ NextEntry
  PROVE  [Assignment!Next]_(Assignment!vars)
<1>1. frame \in Frames /\ frame.pc \in {"find_pos", "masks"}
  BY DEF IInv, CallType, FindPosTurn, FindPosEnd, NextEntry, In
<1>2. UNCHANGED <<cpool, masks_per_client, answer, grants>>
  BY DEF FindPosTurn, FindPosEnd, NextEntry, Goto, vars
<1>3. frame'.pc \in {"find_pos", "masks"} /\ frame'.before = frame.before
  <2>1. CASE FindPosTurn
    BY <1>1, <2>1 DEF FindPosTurn, Goto, Frames, In
  <2>2. CASE FindPosEnd
    <3>1. \E d, n : frame' = [AtPorts(frame, "masks") EXCEPT !.dom = d, !.n = n]
      <4>1. CASE frame.dom.set
        <5>1. frame' = [AtPorts(frame, "masks") EXCEPT !.n = masks_per_client]
          BY <2>2, <4>1 DEF FindPosEnd, Goto
        <5>2. frame' = [AtPorts(frame, "masks") EXCEPT !.dom = frame.dom,
                                                       !.n = masks_per_client]
          BY <1>1, <5>1 DEF AtPorts, Frames
        <5> QED BY <5>2
      <4>2. CASE ~frame.dom.set
        BY <2>2, <4>2 DEF FindPosEnd, Goto
      <4> QED BY <4>1, <4>2
    <3> QED BY <1>1, <3>1 DEF AtPorts, Frames
  <2>3. CASE NextEntry
    BY <1>1, <2>3 DEF NextEntry, Goto, Frames
  <2> QED BY <2>1, <2>2, <2>3
<1> QED BY <1>1, <1>2, <1>3, TurnRefines DEF In

LEMMA MasksRefine ==
  ASSUME IInv, MaskTurn \/ MasksEnd
  PROVE  [Assignment!Next]_(Assignment!vars)
<1> DEFINE mask == TaddrOf(cpool, Here)
<1>1. /\ frame \in Frames /\ frame.pc = "masks" /\ ~In("idle")
      /\ cpool \in Seq(Entry)
  BY DEF IInv, CallType, MaskTurn, MasksEnd, In
<1>2. /\ Chosen
      /\ frame.dom \in get_mask_domain(cpool, frame.ipv6_pos + 1, masks_per_client)
      /\ \A s \in Before(cpool, Here) : TaddrOf(cpool, s) \notin Free(frame.dom)
  BY <1>1 DEF IInv, InMasks, In
<1>3. CASE MaskTurn /\ Matches /\ ~bibdb_contains4(mask)
  <2>1. mask \in Free(frame.dom)
    BY <1>3 DEF Matches, Free
  <2>2. /\ Return(0, How, "cpool", mask)
        /\ grants' = IF frame.dom.set
                     THEN grants \cup {[place |-> frame.ipv6_pos + 1,
                                        src |-> frame.src, mask |-> mask]}
                     ELSE grants
    BY <1>3 DEF MaskTurn
  <2> HIDE DEF mask
  <2> QED BY <1>1, <1>2, <2>1, <2>2, ServedRefines
<1>4. CASE MaskTurn /\ ~(Matches /\ ~bibdb_contains4(mask))
  <2>1. UNCHANGED <<cpool, masks_per_client, answer, grants>>
    BY <1>4 DEF MaskTurn, Goto, vars
  <2>2. frame'.pc = "masks" /\ frame'.before = frame.before
    BY <1>1, <1>4 DEF MaskTurn, Goto, Frames
  <2> QED BY <1>1, <2>1, <2>2, TurnRefines DEF In
<1>5. CASE MasksEnd
  <2>1. Before(cpool, Here) = Slots(cpool)
    <3>1. frame.k \in Nat /\ frame.k > Len(cpool)
      BY <1>1, <1>5 DEF MasksEnd, PastPool, Frames
    <3> QED BY <1>1, <3>1, RankAtEnd DEF Here
  <2>2. frame.dom.at \subseteq Taddrs(cpool)
    BY <1>1, DomainIs
  <2>3. Free(frame.dom) = {}
    BY <1>2, <2>1, <2>2 DEF Free, Taddrs
  <2>4. Return(0, How, "spool", Spool) /\ UNCHANGED grants
    BY <1>5 DEF MasksEnd
  <2> QED BY <1>1, <1>2, <2>3, <2>4, ServedRefines
<1> QED BY <1>3, <1>4, <1>5

(* pool4_get_nth_taddr() is no call of get_mask(), and has no clients.     *)
LEMMA NthRefines ==
  ASSUME IInv,
         \/ \E domain \in KeptDomains, n \in Index : CallNthTaddr(domain, n)
         \/ EntryTurn \/ PortTurn \/ PortsEnd \/ EntriesEnd
  PROVE  [Assignment!Next]_(Assignment!vars)
<1>1. frame \in Frames
  BY DEF IInv, CallType
<1>2. caller = "pool4_get_nth_taddr"
  BY NthCallerIs DEF CallNthTaddr, EntryTurn, PortTurn, PortsEnd, EntriesEnd, In
<1>3. clients = << >> /\ frame.before = << >>
  BY <1>2 DEF IInv, OwnLoops
<1>4. UNCHANGED <<cpool, clients, masks_per_client, answer, grants>>
  BY DEF CallNthTaddr, EntryTurn, PortTurn, PortsEnd, EntriesEnd, Goto, Took, vars
<1>5. frame'.before = << >>
  <2>1. \A f : f = Idle => f.before = << >>
    BY DEF Idle
  <2>2. CASE \E domain \in KeptDomains, n \in Index : CallNthTaddr(domain, n)
    BY <1>1, <1>3, <2>2 DEF CallNthTaddr, Frames
  <2>3. CASE EntryTurn \/ PortsEnd
    BY <1>1, <1>3, <2>3 DEF EntryTurn, PortsEnd, Goto, Frames
  <2>4. CASE PortTurn \/ EntriesEnd
    BY <1>1, <1>3, <2>1, <2>4 DEF PortTurn, EntriesEnd, Goto, Took, Frames
  <2> QED BY <2>2, <2>3, <2>4
<1>6. List' = List
  BY <1>3, <1>4, <1>5 DEF List
<1> QED BY <1>4, <1>6, Stutters

(* The edits of the lists are those of GetMask. *)
LEMMA EditPoolRefines ==
  ASSUME IInv, EditPool
  PROVE  Assignment!Next
<1>1. List = clients /\ List' = clients'
  BY DEF EditPool, List, In
<1>2. ASSUME NEW e \in Entry, AddEntry(e) PROVE Assignment!AddEntry(e)
  <2>1. \E ok \in Assignment!MayAllocate(cpool, MaxEntries) :
          cpool' = IF ok THEN Assignment!pool4_add(cpool, e) ELSE cpool
    BY <1>2, SamePoolOps, SameAnswers DEF AddEntry, Pool4Add
  <2> QED BY <1>1, <1>2, <2>1, SameAnswers
          DEF AddEntry, Pool4Add, Assignment!AddEntry, Assignment!Pool4Add, List
<1>3. ASSUME NEW e \in Entry, RemoveEntry(e) PROVE Assignment!RemoveEntry(e)
  BY <1>1, <1>3, SamePoolOps, SameAnswers
     DEF RemoveEntry, Pool4Rm, Assignment!RemoveEntry, Assignment!Pool4Rm, List
<1>4. ASSUME FlushEntries PROVE Assignment!FlushEntries
  BY <1>1, <1>4, SamePoolOps, SameAnswers
     DEF FlushEntries, Pool4Flush, Assignment!FlushEntries,
         Assignment!Pool4Flush, List
<1> QED BY <1>2, <1>3, <1>4 DEF EditPool, Assignment!Next

LEMMA EditClientsRefines ==
  ASSUME IInv, EditClients
  PROVE  Assignment!Next
<1>1. List = clients /\ List' = clients'
  BY DEF EditClients, List, In
<1>2. ASSUME NEW p \in Prefix, AddClient(p) PROVE Assignment!AddClient(p)
  <2>1. \E ok \in Assignment!MayAllocate(clients, MaxClients) :
          clients' = IF ok THEN Assignment!client_add(clients, p) ELSE clients
    BY <1>2, SameClientOps, SameAnswers DEF AddClient, ClientAdd
  <2> QED BY <1>1, <1>2, <2>1, SameAnswers
          DEF AddClient, ClientAdd, Assignment!AddClient, Assignment!ClientAdd, List
<1>3. ASSUME NEW p \in Prefix, DeleteClient(p) PROVE Assignment!DeleteClient(p)
  <2>1. \A place : Assignment!BeforeDeleted(place, p) <=> BeforeDeleted(place, p)
    BY <1>1, SameClientOps DEF BeforeDeleted, Assignment!BeforeDeleted, List
  <2>2. grants' = {g \in grants : Assignment!BeforeDeleted(g.place, p)}
    BY <1>3, <2>1 DEF DeleteClient
  <2>3. clients' = Assignment!client_delete(clients, p)
    BY <1>3, SameClientOps DEF DeleteClient, ClientDelete
  <2> QED BY <1>1, <1>3, <2>2, <2>3, SameAnswers
          DEF DeleteClient, ClientDelete, Assignment!DeleteClient,
              Assignment!ClientDelete, List
<1>4. ASSUME FlushClients PROVE Assignment!FlushClients
  BY <1>1, <1>4, SameClientOps, SameAnswers
     DEF FlushClients, ClientFlush, Assignment!FlushClients,
         Assignment!ClientFlush, List
<1> QED BY <1>2, <1>3, <1>4 DEF EditClients, Assignment!Next

(* get_mask(), taken one turn of its loops at a time, does what GetMask    *)
(* says of the call as a whole: its counters find, in every order of calls *)
(* and edits, a result that the numbering of the slots allows, and the     *)
(* client list changes as GetMask says.                                    *)
THEOREM CallsImplementGetMask == CallsSpec => AssignsMasks
<1>1. CallsInit => Assignment!Init
  BY InitRefines
<1>2. IInv /\ [CallsNext]_calls_vars => [Assignment!Next]_(Assignment!vars)
  <2> SUFFICES ASSUME IInv, [CallsNext]_calls_vars
               PROVE  [Assignment!Next]_(Assignment!vars)
    OBVIOUS
  <2>1. ASSUME NEW src \in Source, CallGetMask(src)
        PROVE  [Assignment!Next]_(Assignment!vars)
    BY <2>1, CallRefines
  <2>2. CASE AddrExistTurn \/ AddrExistNext \/ AddDynamic
    BY <2>2, FirstLoopsRefine
  <2>3. CASE Compare \/ ContainsTurn \/ ContainsEnd
    BY <2>3, CompareRefines, ContainsRefines
  <2>4. CASE FindPosTurn \/ FindPosEnd \/ NextEntry
    BY <2>4, FindPosRefines
  <2>5. CASE MaskTurn \/ MasksEnd
    BY <2>5, MasksRefine
  <2>6. CASE \/ \E domain \in KeptDomains, n \in Index : CallNthTaddr(domain, n)
             \/ EntryTurn \/ PortTurn \/ PortsEnd \/ EntriesEnd
    BY <2>6, NthRefines
  <2>7. CASE EditPool \/ EditClients
    BY <2>7, EditPoolRefines, EditClientsRefines
  <2>8. CASE UNCHANGED calls_vars
    BY <2>8, Stutters DEF calls_vars, vars, List, In
  <2> QED BY <2>1, <2>2, <2>3, <2>4, <2>5, <2>6, <2>7, <2>8
          DEF CallsNext, CallStep
<1>3. CallsSpec => []IInv
  BY InvHolds
<1> QED BY <1>1, <1>2, <1>3, PTL DEF CallsSpec, AssignsMasks, Assignment!Spec
-----------------------------------------------------------------------------
(* What GetMaskProofs proves of GetMask is thereby proved of the loops.    *)
Proved ==
  INSTANCE GetMaskProofs
    WITH clients <- IF In("idle") THEN clients ELSE frame.before

(* The two instances of GetMask are one specification.                     *)
LEMMA SameAssumptions ==
  Proved!ipv6_prefix = ipv6_prefix /\ Proved!in6_addr = in6_addr
BY DEF ipv6_prefix, in6_addr, Word, AddrBits, Proved!ipv6_prefix,
   Proved!in6_addr, Proved!Word, Proved!AddrBits

LEMMA SameInit == Assignment!Init <=> Proved!Init
BY DEF Proved!Init, Assignment!Init, Proved!NoAnswer, Assignment!NoAnswer

LEMMA SameStep ==
  [Assignment!Next]_(Assignment!vars) <=> [Proved!Next]_(Proved!vars)
BY DEF Proved!GetMaskEmptyPool, Assignment!GetMaskEmptyPool, Proved!GetMaskError,
   Assignment!GetMaskError, Proved!pool4_is_empty, Assignment!pool4_is_empty,
   Proved!MAXipv6, Assignment!MAXipv6, Proved!addr6_iterations,
   Assignment!addr6_iterations, Proved!Walk, Assignment!Walk,
   Proved!client_addr_exist, Assignment!client_addr_exist,
   Proved!dynamic_prefix, Assignment!dynamic_prefix, Proved!KnownClients,
   Assignment!KnownClients, Proved!get_addr6_count,
   Assignment!get_addr6_count, Proved!client_count, Assignment!client_count,
   Proved!Uint, Assignment!Uint, Proved!MapThenFoldSet,
   Assignment!MapThenFoldSet, Proved!MapThenSumSet, Assignment!MapThenSumSet,
   Proved!pool4_count, Assignment!pool4_count, Proved!ESRCH, Assignment!ESRCH,
   Proved!mask_domain_error, Assignment!mask_domain_error, Proved!ShiftCount,
   Assignment!ShiftCount, Proved!AddrBits, Assignment!AddrBits,
   Proved!prefix_contains, Assignment!prefix_contains, Proved!Holding,
   Assignment!Holding, Proved!ClientPlace, Assignment!ClientPlace,
   Proved!Precedes, Assignment!Precedes, Proved!Before, Assignment!Before,
   Proved!Rank, Assignment!Rank, Proved!DomainStart, Assignment!DomainStart,
   Proved!DomainSet, Assignment!DomainSet, Proved!TaddrOf, Assignment!TaddrOf,
   Proved!Slots, Assignment!Slots, Proved!Taddrs, Assignment!Taddrs,
   Proved!DomainUnset, Assignment!DomainUnset, Proved!get_mask_domain,
   Assignment!get_mask_domain, Proved!bibdb_contains4,
   Assignment!bibdb_contains4, Proved!Free, Assignment!Free, Proved!Answer,
   Assignment!Answer, Proved!Spool, Assignment!Spool, Proved!GetMaskServed,
   Assignment!GetMaskServed, Proved!pool4_add, Assignment!pool4_add,
   Proved!Pool4Add, Assignment!Pool4Add, Proved!AddEntry, Assignment!AddEntry,
   Proved!Nth, Assignment!Nth, Proved!SelectAt, Assignment!SelectAt,
   Proved!pool4_equals, Assignment!pool4_equals, Proved!pool4_rm,
   Assignment!pool4_rm, Proved!Pool4Rm, Assignment!Pool4Rm,
   Proved!RemoveEntry, Assignment!RemoveEntry, Proved!pool4_flush,
   Assignment!pool4_flush, Proved!Pool4Flush, Assignment!Pool4Flush,
   Proved!FlushEntries, Assignment!FlushEntries, Proved!MayAllocate,
   Assignment!MayAllocate, Proved!client_add, Assignment!client_add,
   Proved!ClientAdd, Assignment!ClientAdd, Proved!AddClient,
   Assignment!AddClient, Proved!RemoveNode, Assignment!RemoveNode,
   Proved!client_delete, Assignment!client_delete, Proved!ClientDelete,
   Assignment!ClientDelete, Proved!First, Assignment!First,
   Proved!prefix6_equals, Assignment!prefix6_equals, Proved!Matching,
   Assignment!Matching, Proved!BeforeDeleted, Assignment!BeforeDeleted,
   Proved!DeleteClient, Assignment!DeleteClient, Proved!client_flush,
   Assignment!client_flush, Proved!ClientFlush, Assignment!ClientFlush,
   Proved!NoAnswer, Assignment!NoAnswer, Proved!FlushClients,
   Assignment!FlushClients, Proved!Next, Assignment!Next, Proved!vars,
   Assignment!vars, Proved!Cardinality, Assignment!Cardinality

LEMMA SameInvariants ==
  /\ Assignment!GrantsCurrent <=> Proved!GrantsCurrent
  /\ Assignment!Exclusive <=> Proved!Exclusive
  /\ Assignment!Stable <=> Proved!Stable
  /\ Assignment!DynamicOnce <=> Proved!DynamicOnce
  /\ Assignment!OneMaskIsAssigned <=> Proved!OneMaskIsAssigned
  /\ Assignment!ServedWhenEnough <=> Proved!ServedWhenEnough
  /\ Assignment!AlignedFound <=> Proved!AlignedFound
  /\ Assignment!GrantedToWalker <=> Proved!GrantedToWalker
BY DEF Proved!GrantsCurrent, Assignment!GrantsCurrent, Proved!TaddrOf,
   Assignment!TaddrOf, Proved!DomainStart, Assignment!DomainStart,
   Proved!Rank, Assignment!Rank, Proved!Before, Assignment!Before,
   Proved!Precedes, Assignment!Precedes, Proved!Slots, Assignment!Slots,
   Proved!Holding, Assignment!Holding, Proved!prefix_contains,
   Assignment!prefix_contains, Proved!AddrBits, Assignment!AddrBits,
   Proved!ShiftCount, Assignment!ShiftCount, Proved!Exclusive,
   Assignment!Exclusive, Proved!NoOverlap, Assignment!NoOverlap,
   Proved!Stable, Assignment!Stable, Proved!DynamicOnce,
   Assignment!DynamicOnce, Proved!dynamic_prefix, Assignment!dynamic_prefix,
   Proved!OneMaskIsAssigned, Assignment!OneMaskIsAssigned, Proved!NoAnswer,
   Assignment!NoAnswer, Proved!Regular, Assignment!Regular,
   Proved!client_count, Assignment!client_count, Proved!get_addr6_count,
   Assignment!get_addr6_count, Proved!Uint, Assignment!Uint,
   Proved!MapThenSumSet, Assignment!MapThenSumSet, Proved!MapThenFoldSet,
   Assignment!MapThenFoldSet, Proved!pool4_count, Assignment!pool4_count,
   Proved!Cardinality, Assignment!Cardinality,
   Proved!ServedWhenEnough, Assignment!ServedWhenEnough, Proved!First,
   Assignment!First, Proved!ClientPlace, Assignment!ClientPlace,
   Proved!bibdb_contains4, Assignment!bibdb_contains4, Proved!AlignedFound,
   Assignment!AlignedFound, Proved!Aligned, Assignment!Aligned, Proved!ESRCH,
   Assignment!ESRCH, Proved!GrantedToWalker, Assignment!GrantedToWalker,
   Proved!client_addr_exist, Assignment!client_addr_exist, Proved!Walk,
   Assignment!Walk, Proved!addr6_iterations, Assignment!addr6_iterations,
   Proved!MAXipv6, Assignment!MAXipv6

(* At each turn of the loops the masks they have handed out are what       *)
(* GetMask promises: current, exclusive and stable; a source is listed     *)
(* once, mask_domain is not read unwritten with one mask per client or a   *)
(* window for each, and aligned prefixes are found as they are walked.     *)
THEOREM LoopsKeepMasks == CallsSpec => []MasksKept
<1>1. CallsSpec => Assignment!Spec
  BY CallsImplementGetMask DEF AssignsMasks
<1>2. Assignment!Spec => Proved!Spec
  BY SameInit, SameStep, PTL DEF Assignment!Spec, Proved!Spec
<1>3. /\ Prefix \subseteq Proved!ipv6_prefix
      /\ Source \subseteq Proved!in6_addr
  BY SameAssumptions, ClientAssumption, DatabasesAssumption
<1>4. /\ Proved!Spec => []Proved!GrantsCurrent
      /\ Proved!Spec => []Proved!Exclusive
      /\ Proved!Spec => []Proved!Stable
      /\ Proved!Spec => []Proved!DynamicOnce
      /\ Proved!Spec => []Proved!OneMaskIsAssigned
      /\ Proved!Spec => []Proved!ServedWhenEnough
      /\ Proved!Spec => []Proved!AlignedFound
      /\ Proved!Spec => []Proved!GrantedToWalker
  BY <1>3, TypesAssumption, PowersAssumption, Pool4Assumption,
     DatabasesAssumption, GetMaskAssumption, Proved!GrantsStayCurrent,
     Proved!MasksAreExclusive, Proved!MasksAreStable,
     Proved!SourcesAppendedOnce, Proved!OneMaskSuffices,
     Proved!EnoughMasksServe, Proved!AlignedClientsAreFound,
     Proved!GrantsGoToWalkers
<1>5. /\ Proved!GrantsCurrent /\ Proved!Exclusive /\ Proved!Stable
      /\ Proved!DynamicOnce /\ Proved!OneMaskIsAssigned
      /\ Proved!ServedWhenEnough /\ Proved!AlignedFound
      /\ Proved!GrantedToWalker
      => MasksKept
  BY SameInvariants DEF MasksKept
<1> QED BY <1>1, <1>2, <1>4, <1>5, PTL
=============================================================================
