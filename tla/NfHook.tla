------------------------------- MODULE NfHook -------------------------------
(***************************************************************************)
(* The module's init function (nf_hook.c): ten suites of assertions run    *)
(* one after the other, each between an init() that fills both databases   *)
(* and an end() that flushes them.  A suite is a sequence of steps, one    *)
(* per call under an assertion; a step that disagrees with what the code   *)
(* expects clears success, and the suite goes on.  Any kmalloc() may fail. *)
(* spool is only ever flushed and stays empty; printing is left out.       *)
(* Addresses 192.0.2.n are written n, and 0.0.0.0 is 0.                    *)
(***************************************************************************)
EXTENDS Windows, SequencesExt

CONSTANTS
  LittleEndian,   (* What cpu_to_be32() does: swap the bytes, or nothing.    *)
  MaxFailures     (* Bound on the calls of kmalloc() that fail.              *)

ASSUME NfHookAssumption ==
  /\ LittleEndian \in BOOLEAN
  /\ MaxFailures \in Nat
  /\ WordBits >= 16    \* a low and a high byte
  /\ 2^WordBits = 2^8 * 2^(WordBits - 8)    \* the provers do not know of ^
  /\ 2^(WordBits - 8) >= 2^8

VARIABLES
  entry,          (* one .. seven, numbered 1 .. 7.                          *)
  prefix,         (* prefix0 .. prefix7, the last a local of a suite.        *)
  suite, phase,   (* The suite, and "init" or "test".                        *)
  pc,             (* The step of its script that is next.                    *)
  success,        (* The variable of init() or of the test function.         *)
  failure_counter,
  mask_exp, mask_seen, in6addr_exp, in6addr_seen,
  domain,         (* The struct client_mask_domain of a suite.               *)
  refused,        (* Failures of kmalloc() so far, by what was asked for.    *)
  outcome,        (* "running"; "returned"; "hung" in a loop; "overrun" once *)
                  (* a fill_exp function has written past its array.         *)
  ret             (* What nat64_init() returned.                             *)

script_vars == <<entry, prefix, suite, phase, failure_counter, outcome, ret>>
array_vars == <<mask_exp, mask_seen, in6addr_exp, in6addr_seen>>
vars == <<cpool, clients, script_vars, pc, success, array_vars, domain, refused>>

EINVAL == 22

(***************************************************************************)
(* Data of the tests.                                                      *)
(***************************************************************************)
Byte == 2^8
TopByte == 2^(WordBits - 8)

(* A word that is assigned cpu_to_be32(n), for an n of one byte.           *)
cpu_to_be32(n) == IF LittleEndian THEN n * TopByte ELSE n

(* Mutation: s6_addr[15] taken for the low byte of the word.               *)
LowByte(addr) == addr[4] % Byte

(* s6_addr[15], the last byte in memory.                                   *)
LastByte(addr) == IF LittleEndian THEN addr[4] \div TopByte ELSE addr[4] % Byte

(* 2001:db8::n; the words before the last are told apart from 0 only.      *)
Addr(n) == <<1, 2, 0, cpu_to_be32(n)>>

Network(n, bits) == [address |-> Addr(n), len |-> AddrBits - bits]

Range4(n, min, max) ==
  [mark |-> n, proto |-> n, addr |-> n, min |-> min, max |-> max]

Entries ==
  << Range4(1, 4, 7), Range4(2, 10, 20), Range4(3, 25, 39), Range4(4, 40, 63),
     Range4(5, 65, 80), Range4(6, 100, 100), Range4(7, 253, 256) >>

ASSUME EntriesAssumption ==
  {Entries[n] : n \in 1..7} \cup {Range4(3, 60, 70)} \subseteq Entry

(* prefix7 is a local of mask_domain_test and is set there before use.     *)
Prefixes6 ==
  LET bits == <<0, 6, 1, 2, 1, 0, 0, 0>>
  IN  [n \in 0..7 |-> Network(n, bits[n + 1])]

T(addr, port) == [l3 |-> addr, l4 |-> port]
Domain(addr, port) == [first |-> T(addr, port), step |-> 1, count |-> 10]
NoAddr == <<0, 0, 0, 0>>

(***************************************************************************)
(* Steps, and the scripts made of them.                                    *)
(***************************************************************************)
Call(op) == <<[op |-> op]>>
On(op, n) == <<[op |-> op, n |-> n]>>
Expect(op, exp) == <<[op |-> op, exp |-> exp]>>
ExpectOn(op, n, exp) == <<[op |-> op, n |-> n, exp |-> exp]>>

Each(F(_), first, last) ==
  FlattenSeq([i \in 1 .. last - first + 1 |-> F(first + i - 1)])

AddEntry(n) == On("pool4_add", n) \o ExpectOn("pool4_contains", n, TRUE)
RmEntry(n) == On("pool4_rm", n) \o ExpectOn("pool4_contains", n, FALSE)
AddClient(n) == On("client_add", n) \o ExpectOn("client_addr_exist", n, TRUE)
DeleteClient(n) ==
  On("client_delete", n) \o ExpectOn("client_addr_exist", n, FALSE)

init == Each(AddEntry, 1, 7) \o Each(AddClient, 0, 6)

remove_entries == Each(RmEntry, 1, 7) \o Each(DeleteClient, 0, 6)

flush_dbases ==
  Call("pool4_flush") \o Expect("pool4_count", 0) \o Expect("pool4_is_empty", TRUE)
  \o Call("client_flush") \o Expect("client_count", 0)

count_addr ==
  Expect("pool4_is_empty", FALSE) \o Expect("pool4_count", 75)
  \o Expect("client_count", 75)
  \o RmEntry(4) \o Expect("pool4_is_empty", FALSE) \o Expect("pool4_count", 51)
  \o DeleteClient(3) \o Expect("client_count", 71)

print_all_addr == << >>

elements_exist ==
  LET Entry4(exp) == Each(LAMBDA n : ExpectOn("pool4_contains", n, exp), 1, 7)
      Clients(exp) ==
        Each(LAMBDA n : ExpectOn("client_exist", n, exp), 0, 6)
        \o Each(LAMBDA n : ExpectOn("client_addr_exist", n, exp), 0, 6)
  IN  Entry4(TRUE) \o Call("pool4_flush") \o Entry4(FALSE)
      \o Clients(TRUE) \o Call("client_flush") \o Clients(FALSE)

(* exp holds the numbers of the nodes the callback should be called with.  *)
foreach_sample ==
  ExpectOn("pool4_foreach_sample", {}, 1..7)
  \o ExpectOn("pool4_foreach_sample", {2}, 3..7)
  \o ExpectOn("pool4_foreach_sample", {5}, 6..7)
  \o ExpectOn("pool4_foreach_sample", {7}, {})
  \o ExpectOn("client_for_eachsample", {}, 0..6)
  \o ExpectOn("client_for_eachsample", {1}, 2..6)
  \o ExpectOn("client_for_eachsample", {4}, 5..6)
  \o ExpectOn("client_for_eachsample", {6}, {})

for_each_addr ==
  LET Masks(offset, exp) ==
        ExpectOn("pool4_foreach_taddr4", offset, exp) \o Call("match_masks")
      Addrs(offset, exp) ==
        ExpectOn("client_for_each", offset, exp) \o Call("match_in6_addrs")
  IN  Call("fill_exp_masks") \o Masks(0, 0) \o Masks(6, 0) \o Masks(78, 0)
      \o Call("pool4_flush") \o Call("redefine_entries") \o Each(AddEntry, 1, 3)
      \o Call("fill_exp_masks") \o Masks(0, 1) \o Masks(4, 1)
      \o Call("fill_exp_in6_addr") \o Addrs(0, 0) \o Addrs(2, 0) \o Addrs(80, 0)
      \o Call("client_flush") \o Call("redefine_prefixes") \o Each(AddClient, 0, 3)
      \o Call("fill_exp_in6_addr") \o Addrs(0, 1) \o Addrs(1, 1)

(* match_domain() compares what client_get_mask_domain() stores, if any.   *)
Match(n, mpc, exp, want) ==
  <<[op |-> "match_domain", n |-> n, mpc |-> mpc, exp |-> exp, want |-> want]>>
MatchAll(n, addr, port) == Match(n, 10, TRUE, Domain(addr, port))
DomainError(n, exp) ==
  <<[op |-> "client_get_mask_domain", n |-> n, mpc |-> 10, exp |-> exp]>>

mask_domain_test ==
  LET Unknown(addr) ==
        On("set_prefix7", addr) \o DomainError(7, -ESRCH)
        \o Match(7, 10, FALSE, Domain(5, 71))
  IN  MatchAll(0, 1, 4) \o MatchAll(1, 2, 16) \o MatchAll(2, 3, 30)
      \o MatchAll(3, 4, 40) \o MatchAll(4, 4, 50) \o MatchAll(5, 4, 60)
      \o MatchAll(6, 5, 71)
      \o On("set_prefix7", 7) \o On("client_add", 7)
      \o ExpectOn("client_exist", 7, TRUE) \o Match(7, 10, FALSE, Domain(5, 71))
      \o DeleteClient(7)
      \o Unknown(7) \o Unknown(8) \o Unknown(9)
      \o Match(6, 0, FALSE, Domain(5, 71))

Nth4(n, want) == ExpectOn("match_nth_taddr", n, {want})
NoNth(n) == ExpectOn("match_nth_taddr", n, {})

get_nth_taddr_test ==
  MatchAll(0, 1, 4)
  \o Each(LAMBDA n : Nth4(n, T(1, 4 + n)), 0, 3)
  \o Each(LAMBDA n : Nth4(n, T(2, 6 + n)), 4, 9)
  \o MatchAll(1, 2, 16) \o Nth4(5, T(3, 25))
  \o MatchAll(2, 3, 30) \o Nth4(3, T(3, 33))
  \o MatchAll(3, 4, 40) \o Nth4(8, T(4, 48))
  \o MatchAll(4, 4, 50) \o Nth4(7, T(4, 57))
  \o MatchAll(5, 4, 60) \o Nth4(6, T(5, 67))
  \o MatchAll(6, 5, 71) \o Nth4(2, T(5, 73)) \o Nth4(12, T(5, 73))
  \o On("set_domain", Domain(8, 71)) \o NoNth(1)
  \o On("set_domain", Domain(1, 71)) \o NoNth(1)

Mask(addr, mpc, exp) ==
  <<[op |-> "valid_mask", n |-> addr, mpc |-> mpc, exp |-> exp]>>

get_mask_test ==
  Call("kmalloc_packet")
  \o Mask(0, 10, T(1, 4)) \o Mask(1, 3, Spool) \o Mask(2, 11, T(3, 32))
  \o Mask(3, 5, Spool) \o Mask(4, 12, T(4, 58)) \o Mask(5, 2, T(2, 16))
  \o Mask(6, 4, T(3, 34))
  \o Call("client_flush")
  \o Mask(16, 10, T(1, 4)) \o Mask(17, 10, T(2, 16)) \o Mask(18, 10, T(3, 30))
  \o Call("pool4_flush")
  \o Mask(16, 4, Spool) \o Mask(17, 4, Spool) \o Mask(18, 4, Spool)

Suites ==
  << remove_entries, flush_dbases, count_addr, print_all_addr, elements_exist,
     foreach_sample, for_each_addr, mask_domain_test, get_nth_taddr_test,
     get_mask_test >>

Script == IF phase = "init" THEN init ELSE Suites[suite]
Ended == pc > Len(Script)
Step == Script[pc]

-----------------------------------------------------------------------------
(* The functions of the databases, as one call each.                       *)

(* pool4_foreach_sample() and client_for_eachsample(), with a callback     *)
(* that returns 0: the nodes from the first that equals the offset on, the *)
(* offset's own node left out; all of them without an offset.  found holds *)
(* the positions that equal the offset, as one set if there is an offset.  *)
Sampled(list, found) ==
  {list[k] : k \in {k \in DOMAIN list : \A K \in found : \E j \in K : j < k}}

(* The callbacks record the expected nodes they are called with; an offset *)
(* that is not found is an error.                                          *)
MatchPool4Nodes(offset, exp) ==
  LET found == {{j \in DOMAIN cpool : pool4_equals(entry[n], cpool[j])} :
                  n \in offset}
  IN  {} \notin found /\ {entry[n] : n \in exp} \subseteq Sampled(cpool, found)

MatchClientNodes(offset, exp) ==
  LET found == {Matching(clients, prefix[n]) : n \in offset}
  IN  {} \notin found /\ {prefix[n] : n \in exp} \subseteq Sampled(clients, found)

(* The items an iterator hands to its callback: from the offset around,    *)
(* until the callback stops at one of them.  The result is its last one.   *)
(* The offsets of the tests are far from half a word, where an index that  *)
(* is an int would turn negative (ForeachClient).                          *)
Visits(items, offset, stops) ==
  LET n == Len(items)
      order == [i \in 1..n |-> items[((offset + i - 1) % n) + 1]]
      last == {i \in 1..n : order[i] \in stops /\ \A j \in 1..i-1 : order[j] \notin stops}
  IN  [seen |-> {order[i] : i \in {i \in 1..n : \A j \in last : i <= j}},
       ret |-> Cardinality(last)]

Masks4 ==
  FlattenSeq([k \in DOMAIN cpool |->
    [i \in 1 .. cpool[k].max - cpool[k].min + 1 |->
       T(cpool[k].addr, cpool[k].min + i - 1)]])

Addrs6 == FlattenSeq([k \in DOMAIN clients |-> Walk(clients[k])])

(* The early stops of cback() and callback().                              *)
cback(mask) == mask.l4 = 64
callback(addr) == LastByte(addr) = 14

(* What a callback leaves in an array of items seen.                       *)
Record(exp, seen, items) ==
  [i \in DOMAIN exp |-> IF exp[i] \in items THEN exp[i] ELSE seen[i]]

match_masks == mask_exp = mask_seen

(* Word 0 is compared with that of the first address seen.                 *)
match_in6_addrs ==
  \A i \in 0..6 :
    /\ in6addr_exp[i][1] = in6addr_seen[0][1]
    /\ \A w \in 2..4 : in6addr_exp[i][w] = in6addr_seen[i][w]

(* get_mask() on the client list that its dynamic assignment leaves.       *)
get_mask(list, src, mpc) ==
  LET err == mask_domain_error(cpool, list, src, mpc)
      k == ClientPlace(list, src)
      served == UNION {IF Free(dom) # {} THEN Free(dom) ELSE {Spool} :
                         dom \in get_mask_domain(cpool, k, mpc)}
  IN  IF pool4_is_empty(cpool) THEN {[err |-> 0, mask |-> Spool]}
      ELSE IF err # 0 THEN {[err |-> err, mask |-> Spool]}
      ELSE {[err |-> 0, mask |-> m] : m \in served}

(* The steps that read the databases only, and what they compare.          *)
Queries ==
  {"pool4_contains", "pool4_is_empty", "pool4_count", "client_exist",
   "client_addr_exist", "client_count", "pool4_foreach_sample",
   "client_for_eachsample", "match_masks", "match_in6_addrs", "match_nth_taddr"}

Holds(step) ==
  CASE step.op = "pool4_contains" -> pool4_contains(cpool, entry[step.n]) = step.exp
    [] step.op = "pool4_is_empty" -> pool4_is_empty(cpool) = step.exp
    [] step.op = "pool4_count" -> pool4_count(cpool) = step.exp
    [] step.op = "client_exist" -> client_exist(clients, prefix[step.n]) = step.exp
    [] step.op = "client_addr_exist" ->
         client_addr_exist(clients, prefix[step.n].address) = step.exp
    [] step.op = "client_count" -> client_count(clients) = step.exp
    [] step.op = "pool4_foreach_sample" -> MatchPool4Nodes(step.n, step.exp)
    [] step.op = "client_for_eachsample" -> MatchClientNodes(step.n, step.exp)
    [] step.op = "match_masks" -> match_masks
    [] step.op = "match_in6_addrs" -> match_in6_addrs
    [] step.op = "match_nth_taddr" ->
         get_nth_taddr(cpool, domain, step.n) = step.exp

-----------------------------------------------------------------------------
Unset == Domain(0, 0)

Init ==
  /\ cpool = << >> /\ clients = << >>
  /\ entry = Entries /\ prefix = Prefixes6
  /\ suite = 1 /\ phase = "init" /\ pc = 1
  /\ success = TRUE /\ failure_counter = 0
  /\ mask_exp = [i \in 0..74 |-> Spool] /\ mask_seen = mask_exp
  /\ in6addr_exp = [i \in 0..6 |-> NoAddr] /\ in6addr_seen = in6addr_exp
  /\ domain = Unset
  /\ refused = [database |-> 0, packet |-> 0]
  /\ outcome = "running" /\ ret = 0

(* Every action below stands for the next step of the script.              *)
At(op) == ~Ended /\ Step.op = op

Asserted(ok) == success' = (success /\ ok) /\ pc' = pc + 1

Refuse(what) ==
  /\ refused.database + refused.packet < MaxFailures
  /\ refused' = [refused EXCEPT ![what] = @ + 1]

Query ==
  /\ ~Ended /\ Step.op \in Queries
  /\ Asserted(Holds(Step))
  /\ UNCHANGED <<cpool, clients, script_vars, array_vars, domain, refused>>

AddToPool4 ==
  /\ At("pool4_add")
  /\ \/ cpool' = pool4_add(cpool, entry[Step.n]) /\ refused' = refused /\ Asserted(TRUE)
     \/ Refuse("database") /\ cpool' = cpool /\ Asserted(FALSE)
  /\ UNCHANGED <<clients, script_vars, array_vars, domain>>

AddToClients ==
  /\ At("client_add")
  /\ \/ /\ clients' = client_add(clients, prefix[Step.n])
        /\ refused' = refused /\ Asserted(TRUE)
     \/ Refuse("database") /\ clients' = clients /\ Asserted(FALSE)
  /\ UNCHANGED <<cpool, script_vars, array_vars, domain>>

(* These four return 0 whatever the lists hold.                            *)
Edit ==
  /\ \/ At("pool4_rm") /\ Pool4Rm(entry[Step.n])
     \/ At("pool4_flush") /\ Pool4Flush
     \/ At("client_delete") /\ ClientDelete(prefix[Step.n])
     \/ At("client_flush") /\ ClientFlush
  /\ Asserted(TRUE)
  /\ UNCHANGED <<script_vars, array_vars, domain, refused>>

(* Assignments to the test data between two calls.                         *)
Redefine ==
  /\ \/ /\ At("redefine_entries")
        /\ entry' = [entry EXCEPT ![3] = Range4(3, 60, 70)]
        /\ UNCHANGED <<prefix, domain>>
     \/ /\ At("redefine_prefixes")
        /\ prefix' = [prefix EXCEPT ![1] = Network(1, 0), ![2] = Network(14, 0),
                                    ![3] = Network(3, 0)]
        /\ UNCHANGED <<entry, domain>>
     \/ /\ At("set_prefix7")
        /\ prefix' = [prefix EXCEPT ![7].address = Addr(Step.n)]
        /\ UNCHANGED <<entry, domain>>
     \/ At("set_domain") /\ domain' = Step.n /\ UNCHANGED <<entry, prefix>>
  /\ Asserted(TRUE)
  /\ UNCHANGED <<cpool, clients, suite, phase, failure_counter, outcome, ret,
                 array_vars, refused>>

(* "if (p == 64);" has an empty body: the return after it is taken at the  *)
(* first mask.  Without any mask the while loop does not end.              *)
FillExpMasks ==
  /\ At("fill_exp_masks")
  /\ IF Masks4 = << >>
     THEN outcome' = "hung" /\ UNCHANGED <<mask_exp, success, pc>>
     ELSE /\ mask_exp' = [mask_exp EXCEPT ![0] = Masks4[1]]
          /\ Asserted(TRUE) /\ UNCHANGED outcome
  /\ UNCHANGED <<cpool, clients, entry, prefix, suite, phase, failure_counter,
                 ret, mask_seen, in6addr_exp, in6addr_seen, domain, refused>>

(* The list is copied, again and again, until index 6 is behind or an      *)
(* address ends in 14.  The index is compared between copies only.         *)
FillExpIn6Addr ==
  /\ At("fill_exp_in6_addr")
  /\ LET n == Len(clients)
         stop == {k \in DOMAIN clients : LastByte(clients[k].address) = 14}
         copied == IF stop # {} THEN First(stop) ELSE n * ((6 \div n) + 1)
     IN  IF n = 0 THEN outcome' = "hung" /\ UNCHANGED <<in6addr_exp, success, pc>>
         ELSE IF copied > 7
         THEN outcome' = "overrun" /\ UNCHANGED <<in6addr_exp, success, pc>>
         ELSE /\ in6addr_exp' = [i \in 0..6 |->
                   IF i < copied THEN clients[(i % n) + 1].address ELSE in6addr_exp[i]]
              /\ Asserted(TRUE) /\ UNCHANGED outcome
  /\ UNCHANGED <<cpool, clients, entry, prefix, suite, phase, failure_counter,
                 ret, mask_exp, mask_seen, in6addr_seen, domain, refused>>

ForeachTaddr4 ==
  /\ At("pool4_foreach_taddr4")
  /\ LET v == Visits(Masks4, Step.n, {m \in Range(Masks4) : cback(m)})
     IN  /\ mask_seen' = Record(mask_exp, mask_seen, v.seen)
         /\ Asserted(v.ret = Step.exp)
  /\ UNCHANGED <<cpool, clients, script_vars, mask_exp, in6addr_exp,
                 in6addr_seen, domain, refused>>

ForEachClient ==
  /\ At("client_for_each")
  /\ LET v == Visits(Addrs6, Step.n, {a \in Range(Addrs6) : callback(a)})
     IN  /\ in6addr_seen' = Record(in6addr_exp, in6addr_seen, v.seen)
         /\ Asserted(v.ret = Step.exp)
  /\ UNCHANGED <<cpool, clients, script_vars, mask_exp, mask_seen, in6addr_exp,
                 domain, refused>>

(* client_get_mask_domain(), and the comparison its two callers make.      *)
GetMaskDomain ==
  /\ At("match_domain") \/ At("client_get_mask_domain")
  /\ LET addr == prefix[Step.n].address
         err == mask_domain_error(cpool, clients, addr, Step.mpc)
         start == IF err # 0 THEN {}
                  ELSE DomainStart(cpool, ClientPlace(clients, addr) - 1, Step.mpc)
     IN  /\ IF start = {} THEN domain' = domain
            ELSE \E s \in start :
                   domain' = [first |-> TaddrOf(cpool, s), step |-> 1,
                              count |-> Step.mpc]
         /\ IF At("match_domain")
            THEN Asserted((err = 0 /\ domain' = Step.want) = Step.exp)
            ELSE Asserted(err = Step.exp)
  /\ UNCHANGED <<cpool, clients, script_vars, array_vars, refused>>

(* A test that cannot get memory for its packet returns -ENOMEM, which is  *)
(* true as a bool.                                                         *)
AllocatePacket ==
  /\ At("kmalloc_packet")
  /\ \/ refused' = refused /\ Asserted(TRUE)
     \/ Refuse("packet") /\ success' = TRUE /\ pc' = Len(Script) + 1
  /\ UNCHANGED <<cpool, clients, script_vars, array_vars, domain>>

ValidMask ==
  /\ At("valid_mask")
  /\ LET src == Addr(Step.n)
         new == ~pool4_is_empty(cpool) /\ ~client_addr_exist(clients, src)
     IN  /\ \/ /\ clients' = IF new THEN client_add(clients, dynamic_prefix(src))
                             ELSE clients
               /\ refused' = refused
            \/ new /\ Refuse("database") /\ clients' = clients
         /\ \E r \in get_mask(clients', src, Step.mpc) :
              Asserted(r.err = 0 /\ r.mask = Step.exp)
  /\ UNCHANGED <<cpool, script_vars, array_vars, domain>>

(* The macro INIT_CALL_END: without a successful init() the function       *)
(* returns at once, otherwise the suite is entered.                        *)
EndInit ==
  /\ phase = "init" /\ Ended
  /\ IF success THEN phase' = "test" /\ UNCHANGED <<outcome, ret>>
     ELSE outcome' = "returned" /\ ret' = -EINVAL /\ UNCHANGED phase
  /\ pc' = 1 /\ success' = TRUE
  /\ UNCHANGED <<cpool, clients, entry, prefix, suite, failure_counter,
                 array_vars, domain, refused>>

(* Mutation: the clients left in their list.                               *)
end_pool4_only == cpool' = pool4_flush(cpool) /\ UNCHANGED clients

end == cpool' = pool4_flush(cpool) /\ clients' = client_flush(clients)

(* Mutation: a positive errno.                                             *)
VerdictPositive(failures) == IF failures > 0 THEN EINVAL ELSE 0

(* Mutation: one failure let pass.                                         *)
VerdictLenient(failures) == IF failures > 1 THEN -EINVAL ELSE 0

(* END_TESTS. *)
Verdict(failures) == IF failures > 0 THEN -EINVAL ELSE 0

(* end() flushes the databases; the next init() gives the list heads and   *)
(* the test data their first values, and the last suite is followed by     *)
(* END_TESTS.                                                              *)
EndSuite ==
  /\ phase = "test" /\ Ended
  /\ failure_counter' = IF success THEN failure_counter ELSE failure_counter + 1
  /\ end
  /\ IF suite < Len(Suites)
     THEN /\ suite' = suite + 1 /\ phase' = "init"
          /\ pc' = 1 /\ success' = TRUE
          /\ entry' = Entries /\ prefix' = Prefixes6 /\ domain' = Unset
          /\ UNCHANGED <<outcome, ret>>
     ELSE /\ outcome' = "returned"
          /\ ret' = Verdict(failure_counter')
          /\ UNCHANGED <<suite, phase, pc, success, entry, prefix, domain>>
  /\ UNCHANGED <<array_vars, refused>>

Next ==
  /\ outcome = "running"
  /\ \/ Query \/ AddToPool4 \/ AddToClients \/ Edit \/ Redefine
     \/ FillExpMasks \/ FillExpIn6Addr \/ ForeachTaddr4 \/ ForEachClient
     \/ GetMaskDomain \/ AllocatePacket \/ ValidMask
     \/ EndInit \/ EndSuite

(* Nothing follows, and a script never stops anywhere else.                *)
Stopped == outcome # "running" /\ UNCHANGED vars

Spec == Init /\ [][Next \/ Stopped]_vars

-----------------------------------------------------------------------------
NoneRefused == refused = [database |-> 0, packet |-> 0]

(* The scripts are not left, the lists hold what the tests add, and the    *)
(* struct of a suite is a window of the pool or was never written.         *)
TypeOK ==
  /\ suite \in DOMAIN Suites /\ phase \in {"init", "test"}
  /\ pc \in 1 .. Len(Script) + 1
  /\ success \in BOOLEAN /\ failure_counter \in 0 .. Len(Suites)
  /\ entry \in [1..7 -> Entry] /\ prefix \in [0..7 -> ipv6_prefix]
  /\ cpool \in Seq(Entry) /\ clients \in Seq(ipv6_prefix)
  /\ domain \in [first : Taddr, step : {1}, count : Nat]
  /\ refused \in [database : 0..MaxFailures, packet : 0..MaxFailures]
  /\ outcome \in {"running", "returned", "hung", "overrun"}
  /\ ret \in {0, -EINVAL}

(* The databases give every answer the ten suites expect of them, in the   *)
(* order of the calls, as long as memory is not refused.                   *)
AssertionsHold == NoneRefused => success /\ failure_counter = 0 /\ ret = 0

(* Memory that was refused to a database, by an asserted call or by the    *)
(* unasserted client_add() of get_mask(), makes the module's init fail.    *)
RefusalReported ==
  outcome = "returned" /\ refused.database > 0 => ret = -EINVAL

(* When the function has returned, the only nodes left are those of the    *)
(* last init(), which then was refused some of the fourteen it asks for:   *)
(* INIT_CALL_END returns without end() and nothing frees them.             *)
NodesLeft == outcome = "returned" =>
  LET left == Len(cpool) + Len(clients)
  IN  left = 0 \/ (ret = -EINVAL /\ left \in 14 - refused.database .. 13)

(* The loops of the fill_exp functions wait for a list to have enough      *)
(* nodes.  With memory for them they end and stay within their arrays; one *)
(* node refused can take a copy over the end of its array, and it takes    *)
(* three to leave a list empty and the loop without an end.                *)
LoopsEnd ==
  /\ outcome = "overrun" => refused.database >= 1
  /\ outcome = "hung" => refused.database >= 3

-----------------------------------------------------------------------------
(* "Test '...': Failure." is for a test that does not succeed              *)
(* (unit_test.h:77): one whose packet was refused is counted as a failure. *)
PacketRefusalReported ==
  outcome = "returned" /\ refused.packet > 0 => ret = -EINVAL
=============================================================================
