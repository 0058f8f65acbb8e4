# Verification of pool4

TLA+ models of the kernel module in `src/src/`, TLC configurations that check
them on small instances, and TLAPS proofs of what matters most. Paths such as
`pool4.c:369` are in `src/src/pool4/`, `client.c:277` in `src/src/client/`, and
`nf_hook.c:790` in `src/src/`.

## 1. The system

The program is a prototype of the address selection of a NAT64. It answers one
question: which IPv4 *mask* (address and port) stands for an IPv6 client. Two
databases are consulted. Nothing else is stored: an assignment is computed
again at each call from the places of the nodes of two linked lists, and this
is what makes the code hard to get right and hard to test.

| Component | Code | State | Operations | Called by |
|---|---|---|---|---|
| pool4 database | `pool4.c` to line 346, `pool4.h` | a list of entries: mark, protocol, IPv4 address, range of ports | add, rm, flush, is_empty, contains, count, foreach_sample, foreach_taddr4, find_pos, get_nth_taddr | mask assignment, test driver |
| client database | `client.c` | a list of IPv6 prefixes | add, delete, flush, exist, addr_exist, count, for_eachsample, for_each, get_mask_domain | mask assignment, test driver |
| mask assignment | `get_mask()`, `pool4.c:347` on | none of its own; it may append a client of one address | get_mask | test driver |
| mask windows | `client_get_mask_domain()`, `pool4_taddr4_find_pos()`, `pool4_get_nth_taddr()` | a `struct client_mask_domain` owned by the caller | fill, take the n-th mask | mask assignment, test driver |
| iterators | the two `foreach` functions with an offset | loop variables; the callback's array | one pass from the offset on, one before it | test driver |
| paged listing | the two `sample` functions | the offset a caller keeps between calls | one call per page | test driver |
| test driver | `nf_hook.c`, `unit_test.h` | both databases, `entry`s, `prefix`es, arrays of expected and seen items, counters | `nat64_init()`: ten suites | the kernel, at module load |
| shared types | `types.h`, `types.c`, `prefixes.h` | none | `prefix6_equals()` | both databases |

**How they interact.** All calls are synchronous. `get_mask()` asks whether the
pool is empty, whether the client is known, appends it if it is not, and calls
`client_get_mask_domain()`, which finds the place of the client's prefix and
calls `pool4_taddr4_find_pos()` for the window with that number. `get_mask()`
then walks the pool for the first mask of that window. Iterators and samples
call back a function of their caller, which stops them with an error. There are
no threads, timers or messages and nothing is persisted: `pool4.c` and
`client.c` take no lock, and the driver runs in one thread. The interleavings
that matter are therefore those of *whole calls*: any caller may edit either
list between two calls, and keep a struct, an offset or a mask meanwhile.

**What is hard**, with the properties that answer it (section 4):

* a mask given to a client must stay its mask, and nobody else's, while clients
  and entries are added: `Stable`, `Exclusive`, `GrantsCurrent`;
* `client_get_mask_domain()` returns 0 even if it has written nothing, and the
  comparison of two counts is what should prevent that: `OneMaskIsAssigned`, and
  `ServedWhenEnough` for the size of a pool that does;
* a walk decides whether an address is a client's, and a comparison under a mask
  whose: `AlignedFound` and `GrantedToWalker` say when they agree;
* a source that cannot be served is appended before its call fails, and counts
  against every other client from then on: `DynamicOnce`;
* the counters of nested loops that number windows and masks, and a `break` that
  leaves only the inner one: `CountersAgree`, `AssignsMasks`, `NthAgrees`,
  `CallsReturn`, and what depends on them, `MasksKept` (proved, section 5);
* a window kept by its caller while the lists change: `WindowCurrent`,
  `TakenFromPool`, and two separate walks that must count alike: `GivenIsNth`,
  `WindowsDisjoint`, `NthServed`;
* two passes with running indices that meet at an offset, addresses that carry
  from word to word, counts that wrap around, remainders by zero, an index kept
  in an `int`: `Rotates`, `Returns`, `IndexIsRank`, `CountsAgree`,
  `NoneRepeated`, `TrapsOnlyUncounted`;
* a listing in pages of a list that is edited between the pages:
  `NothingMissed`, `NothingRepeated`, `EsrchMeansRemoved`, `ListingEnds`;
* memory that is refused at any `kmalloc()`, and loops that wait for a list to
  be long enough: `RefusalReported`, `NodesLeft`, `LoopsEnd`.

`PROJECT.json` lists each hazard at its line, with the properties for it or the
reason why there is none.

## 2. The modules

```
Types --- Pool4 ---- ForeachTaddr --(implements)--> Rotation
  |         |  \---- SamplePaging (with Client)
  |         |
  |         |                        /--- MaskCalls --(implements)--> GetMask
  |       Databases --- Windows --- GetMask
  |         |                 \---- MaskDomain
  |         |                 \---- NfHook
  \------ Client --- ForeachClient --(implements)--> Rotation
```

**Types** holds the records of `types.h` and the two widths. `WordBits` stands
for the 32 bits of a `__u32` and an `unsigned int`, and an IPv6 address is four
such words, so 128 is `4 * WordBits`. What C computes in an `unsigned int` is
taken modulo `2^WordBits`, and `AsInt` is what an `int` holds of such a word: the
index of `client_for_each()` is one (`client.c:218`) and negative from half a word
on. The other counters that are `int`s, those of `pool4_taddr4_find_pos()`,
`pool4_get_nth_taddr()` and the turns of a walk, are integers without a bound: in
the code they overflow only in pools of 2^31 masks and walks of 2^31 addresses,
which are not modelled there. `ShiftWraps` is the outcome of a shift by the width of its
operand or more, which C leaves undefined and CPUs settle differently.

**Pool4** and **Client** are the databases as values: a list is a sequence, and
each function of the code is an operator on it, under its own name. A *slot*
`<<k, p>>` is one turn of the double loop that most functions of `pool4.c`
share, port `p` of the `k`-th entry; the *rank* of a slot is the number of
slots before it, which is what the counters in those loops hold.
`DomainStart` is `pool4_taddr4_find_pos()`: its counter grows by one at each
slot and a window starts at each `masks_per_client`-th one, so the window
numbered `n` starts at rank `n * masks_per_client`, if there is such a slot.
`addr6_iterations()` and `prefix_contains()` are translated as they are
written, with the word that is tested twice and the low word of the mask
applied to all words.

**Databases** puts both lists side by side as variables, with the six calls
that edit them; each addition may be refused its memory. **Windows** adds the
searches of `get_mask()` and `pool4_get_nth_taddr()`.

**GetMask** is the mask assignment: three actions for the ways through
`get_mask()` (empty pool, error, served), and one for each call that edits a
list. `answer` is what the last call returned, and says whether the
`mask_domain` on its stack was written (`dom`). When it was not, its value is
chosen: one mask of the pool or none. `grants` is a history variable, the masks
handed out of a client's own window together with the client's place; a removal
drops the grants of which it moves the client or an entry, and nothing else does.

**MaskCalls** has the same function, and `pool4_get_nth_taddr()`, one turn of
their loops at a time. `frame` holds the locals of the call in progress, under
their names in the code (`ipv6_pos`, `counter`, `ports_pos`, `n`, `flag`, `dummy`),
with `pc` for the loop the call is in, `k` and `i` for its node and its turn, and
`dom` for the `mask_domain`, which starts unwritten. An action is a turn of a
loop, or the code between two loops. `GetMask` finds a window by its rank;
`MaskCalls` finds it by counting, and implements `GetMask` with the client list
mapped to the one the call began with until it returns. So what is shown of
`GetMask` holds of the loops. Lists are edited between two calls only.

**MaskDomain** is a caller of `client_get_mask_domain()` who keeps the struct
and takes masks out of it later. `window`, `holder` and `given` are history
variables: the window the struct was filled for, the address it was filled for,
and the masks taken since, each with the address it was taken for. A removal from
the pool ends all three; deleting a client ends `holder`, and drops the masks of
`given`, where it moves the client.

**Rotation** states what an iterator with an offset promises: the items from
the offset on and around, each handed over once, until the callback stops it.
The database's own count of its items decides where an iteration starts, and may
be wrong: then the starting point is any item, and the rest stands. An iterator
may be one that does not go around (`whole`): then the items before the starting
point are left out, and no others.
**ForeachTaddr** and **ForeachClient** are the two iterators turn by turn, with
the loop variables of the code; both are shown to implement `Rotation`.
`pool4_foreach_taddr4()` always goes around. `client_for_each()` goes around
exactly when the reduced offset fits the `int` that `client_index` is
(`FitsInt`); when it does not, the second pass returns at its first turn.

**SamplePaging** is a listing in pages of either database (`db`), by means of
the offset of `pool4_foreach_sample()` or `client_for_eachsample()`, edited
between the pages. `pool4_rm()` removes every entry equal to the given one,
`client_delete()` the first prefix only.

**NfHook** is `nat64_init()`. A suite is a script of calls, the assertion under
each one included; an action executes the next call. The `fill_exp` functions
and the callbacks are translated too, and any `kmalloc()` may fail. The `if` at
`nf_hook.c:271` has an empty body, so `fill_exp_masks()` returns after one mask,
and the suite of the iterators compares one mask of 75 and zeros behind it.

The proofs (section 5) are in modules of their own. **DatabaseLemmas** has the
lemmas about lists, slots and ranks, counts, and the addresses of a walk; each
of `GetMaskProofs`, `MaskCallsProofs`, `MaskDomainProofs`, `ForeachTaddrProofs`,
`ForeachClientProofs`, `SamplePagingProofs` and `NfHookProofs` extends it and the
module it is named after. The `MC` modules give small values to the constants.

A definition whose comment begins with "Mutation:" is not a model of the code:
it is a plausible mistake in the definition below it, kept to show that the
properties of a run notice it. No specification refers to one.

## 3. Bounds

| Constant | Value | Why it is enough |
|---|---|---|
| `WordBits` | 4; 3 in `ForeachTaddr`, 5 in `SamplePaging`, 16 in `NfHook` | 4 bits let addresses carry across words and past the last word in a walk of four or eight turns, and let prefixes wrap the count of the clients; 3 bits let the ports of two ranges wrap the count of the pool; the tests need two bytes in a word |
| `ShiftWraps` | `TRUE`; `FALSE` in `ForeachClient` | both outcomes of the undefined shift, each in a run with a prefix short enough to meet it (`MaskCalls`, `ForeachClient`) |
| `MaxPort` | 3, 256 | ranges of one to three ports, beginning and ending anywhere; the tests' own ports go to 256 |
| `Entry` | 3 or 4 | two ranges of one address and one of another; overlapping ranges in `GetMask` and `MaskCalls`, upside-down ones in `GetMask` and `ForeachTaddr` |
| `Prefix`, `Source` | 2 to 4 | aligned and unaligned prefixes, nested ones (in `MaskDomain` a client of two addresses and the second of them), one that contains every address, an address of each kind and one of no client |
| `PerClient` | 0, 1, 2; 0, 2, 3; 0, 1, 3 | the rejected value, one mask per client, and windows that cross the end of a range: in `MaskDomain` this takes windows of three, since one of two that is found at all lies within its range |
| `Index` | 0 to 3; 0, 2, 4 | all masks of a window of three, and one beyond that is reduced |
| `MaxEntries`, `MaxClients` | 2 to 4 | a client before and one behind the one a property is about; an entry twice; three prefixes whose sizes sum up past a word. Beyond it `kmalloc()` is said to fail, which it may do at any time anyway |
| `MaxOffset` | 7 in `ForeachTaddr`, 14 in `ForeachClient` | every value of the word of `ForeachTaddr`; more than the count of most lists, wrapped or not, so that it is reduced; 8 to 14 are negative in an `int` of the word, and stay so in lists of nine addresses and more |
| `Numbered` | lists of at most `2^WordBits` masks | not a constant but a condition of `ForeachTaddr`: the index of a mask is an `unsigned int`, and a longer list would have two masks of one index |
| `PageSize`, `MaxEdits` | 2, 2 | pages that end inside and at the end of the list; one item removed and added again |
| `MaxSeen` | `MaxEntries + MaxEdits` | bounds the collected items; only a listing that starts over gets there |
| `MaxFailures` | 3 | failures in one suite or in several; three in a row leave the pool empty and `fill_exp_masks()` without an end. Four would do the same to the client list, whose loop is then reached by the proof only |

`pool4_add()` accepts upside-down ranges, whose sizes wrap around in
`pool4_count()`. `ForeachTaddr` is run with one that counts as -1: beside a
single port the pool counts 0 masks, and the offset is divided by zero on a pool
that is not empty. The count is 0 as well when the pool holds exactly
`2^WordBits` masks, which two of the ranges do in a word of 3 bits. `Rotation`
allows the trap where the count is 0, and `TrapsOnlyUncounted` says when that is:
unless a range is upside down, it takes an offset and a pool that is empty or
that full.

Deadlock is checked where the system never stops (`GetMask`, `MaskDomain`,
`MaskCalls`) and in `NfHook`, where `Stopped` marks the one legal way to end. The
iterators and the listing end, so their configurations do not check it;
`Returns` and `ListingEnds` say that they end.

**Fairness.** The iterators assume weak fairness of their next step, and the
listing of its next call: a function that was called runs to its end, and a
caller who lists goes on listing. `MaskCalls` assumes it of the turns of a call
in progress (`CallStep`), for the same reason, and not of calls and edits. Nobody
is obliged to edit a list. `GetMask` and `MaskDomain` promise nothing about
callers and need no fairness. `NfHook`
states termination as safety: each step of a script advances it, so all there is
to show is the absence of deadlock and, by `LoopsEnd`, that no loop within a step
waits for ever unless three nodes were refused.

## 4. The runs

Passing runs:

| Run | Distinct states | What it shows |
|---|---|---|
| `get_mask` | 176,886 | A mask given to a client agrees with both lists until a removal moves the client or an entry (`GrantsCurrent`). So no mask is given to two clients while the pool holds none twice (`Exclusive`), and a client gets one mask again and again (`Stable`). A source is appended once, however often its call fails (`DynamicOnce`). With one mask per client the comparison of counts makes sure that `mask_domain` is written (`OneMaskIsAssigned`); pools with upside-down ranges and client counts that wrap are set aside there. With any number of masks per client a pool that reaches the first mask of the last client is enough (`ServedWhenEnough`). Aligned clients are found by their addresses (`AlignedFound`), and who gets a client's window is counted among its addresses (`GrantedToWalker`). |
| `mask_calls` | 79,954 | The loops of `get_mask()` implement `GetMask`, for lists with a mask twice and a prefix that contains every address, and with the `mask_domain` unwritten (`AssignsMasks`), so all that `get_mask` shows of masks is theirs, too. `counter` and `ports_pos` number masks and windows as the ranks do (`CountersAgree`). The countdown of `pool4_get_nth_taddr()` finds the mask that `Windows` says, for windows of the pool and for stale ones (`NthAgrees`), and each call returns (`CallsReturn`). |
| `mask_domain` | 20,119 | A struct that is kept names its window through any additions. The n-th mask taken from it is the one at rank `place * count + n`, also across ends of ranges (`GivenIsNth`). So no mask is taken for two clients, nor twice for one: two addresses that got one mask are of one client of the list as it is, whatever was added and whatever was deleted behind them (`WindowsDisjoint`). A stale struct yields a mask of the present pool or an error. The function gives up only at the end of the pool or when the window starts at the last port of a range. |
| `foreach_taddr` | 21,790 | `pool4_foreach_taddr4()` implements `Rotation`, for every offset, list and stopping callback of the bounds (`Rotates`), and returns (`Returns`); its index is the number of masks before the turn, in both passes (`IndexIsRank`). Without upside-down ranges it divides by zero only on an empty pool and on one whose count wraps to 0 (`TrapsOnlyUncounted`); with them it still hands out every mask once, unless it traps. |
| `foreach_client` | 28,717 | `client_for_each()` implements it and returns, too, also when the count of the clients wraps around, to 0 or to less than the offset; it goes around unless the reduced offset is half a word or more. Its callback sees as many addresses as `client_count()` says, up to the bits that are lost and the addresses left out before a negative index, and only those that `client_addr_exist()` finds, also where a short prefix has none (`CountsAgree`). Within a node no address comes back but the one without a successor, which the missing carry repeats (`NoneRepeated`). |
| `sample_paging` | 15,270 | A listing of either database has every item that stayed, none of them twice, and ends. The conditions are in the properties: an item held twice restarts the listing, and an offset that was removed and is found again, further on, skips items. |
| `nf_hook` | 72,189 | The models give all answers that the ten suites assert (which validates the models against the tests). Up to three refusals of memory to a database end in `-EINVAL`. The nodes that are left when the function has returned are those of one `init()` that was refused some of its fourteen: nothing else leaks (`NodesLeft`). The filling loops leave their arrays only after a refusal, and never end only after three (`LoopsEnd`); both happen in the run. |

The remaining runs state what a message, a comment or a test of the code says,
and TLC finds an execution that contradicts it:

| Run | Found |
|---|---|
| `spool_when_unavailable` | The pool has fewer windows than clients and `get_mask()` reads a `mask_domain` nobody wrote: the client may be handed a mask of the pool, where the code says "Mask domain not available, get spool" (`pool4.c:401`). It takes two masks per client, since one is excluded by `OneMaskIsAssigned`. |
| `unknown_address_only` | With a prefix whose host bits are not 0, `client_addr_exist()` walks to addresses that `prefix_contains()` denies. `get_mask()` then fails with "addr does not exist in client database" (`client.c:285`) for a client that exists. It takes a prefix that is not aligned (`AlignedFound`). |
| `first_mask_served` | A window that starts at the last port of a range yields `-ESRCH` for its first mask, because of `range.max > first.l4` (`pool4.c:298`), against the expectation of "Get 1st taddr" (`nf_hook.c:1400`). |
| `match_in6_nodes` | A list of nine addresses and the offset 8, which the `int` of a four-bit word holds as -8: the second pass returns at its first turn, and the callback has seen one address when 0 is returned. In the code it takes more than 2^31 addresses, such as a /97 and a /128, and the offset 2^31. The suite asserts that a call with an offset hands over all addresses ("Match in6 nodes", `nf_hook.c:1162` to 1165). |
| `packet_refusal` | `get_mask_test()` returns `-ENOMEM` as a `bool`, which is true: the suite counts as a success and `nat64_init()` returns 0 (`nf_hook.c:1610`). |

The tests assume a little-endian CPU. With `LittleEndian = FALSE`, TLC finds an
assertion of the third suite failing: there the 64 addresses of `prefix1` are
consecutive and reach that of `prefix3`, which the suite has just deleted and
expects not to find (`nf_hook.c:790`).

Every property of a passing run is also shown to fail on a mutation of a
definition it depends on; `PROJECT.json` lists the pairs under `mutants`.

## 5. What is proved

36 theorems, each for all values of the constants that the assumptions below
allow: all sets of entries, prefixes and sources, all widths and bounds. They
state every invariant of `get_mask`, `mask_calls`, `mask_domain`,
`foreach_taddr`, `foreach_client` and `sample_paging`, every invariant of
`nf_hook` but `AssertionsHold`, and the three refinements.

**Assumptions.** The ones the constants are declared with, no others:
`TypesAssumption` and `PowersAssumption` (a positive width; a word that holds 0
and 1; the powers of two up to the width of a word are positive, the smaller ones
divide the size of a word, and are smaller than it: facts of arithmetic that are
stated because the provers know nothing of powers), `Pool4Assumption` and
`ClientAssumption` (entries and prefixes are records of their types),
`DatabasesAssumption` (sources are addresses, bounds are natural numbers), and an
assumption of each module that its numbers are natural numbers.
`ForeachTaddrAssumption` takes offsets that are words, as the parameter is an
`unsigned int`. `NfHookAssumption` takes a word of
two bytes or more, which the tests' addresses need, and says in two lines about
powers what that means; `EntriesAssumption` takes the ranges of the tests as
members of `Entry`.

### GetMaskProofs

| Theorem | Statement | Argument |
|---|---|---|
| `TypeCorrect` | `Spec => []TypeOK` | one step per action; the only work is that a sub-list of a list (`pool4_rm`, `client_delete`) is a list of the same elements |
| `GrantsStayCurrent` | `Spec => []GrantsCurrent` | the inductive core, see below |
| `MasksAreExclusive` | `Spec => []Exclusive` | two current grants of one mask start at slots of one mask, hence at one slot when the pool has no mask twice; ranks that are multiples of the same number are equal only for equal places |
| `MasksAreStable` | `Spec => []Stable` | both grants name the first place that holds the source, and a rank belongs to one slot |
| `SourcesAppendedOnce` | `Spec => []DynamicOnce` | the walk over a prefix of one address visits that address, so `client_addr_exist()` finds a source that was appended; callers add and remove other prefixes, and a removal doubles none |
| `OneMaskSuffices` | `Spec => []OneMaskIsAssigned` | with one mask per client, window `n` starts at rank `n`; the client's place is at most the number of clients, which `client_count()` bounds, and each rank below the number of slots is taken |
| `EnoughMasksServe` | `Spec => []ServedWhenEnough` | the window of an earlier client starts at a smaller rank (`EarlierWindow`), so the one that was found starts at a slot; the domain is that window and its first mask is the only one `get_mask()` can stop at, free or not |
| `AlignedClientsAreFound` | `Spec => []AlignedFound` | numbers with one quotient by `q` are the `q` from a multiple of `q` on (`Blocks`); the walk of an aligned prefix adds `0 .. q - 1` to its last word without a carry (`AlignedWalk`), so what it visits has the quotients of the prefix (`WalkedIsContained`) |
| `GrantsGoToWalkers` | `Spec => []GrantedToWalker` | the converse: a last word with the quotient of the prefix is within `q` of it, hence visited (`ContainedIsWalked`); `GrantsCurrent` says that the client of a grant contains its source |

The inductive invariant is `IInv == TypeOK /\ GrantsCurrent`. `Exclusive` and
`Stable` are not inductive: they compare two grants and do not say where the
next one comes from. `GrantsCurrent` ties each grant to the lists as they are,
from which both follow. It is preserved by an addition because an appended node
has no slot before the old ones and does not precede a client that was found;
by a deletion because the grants that stay belong to clients before the deleted
one; and `get_mask()` only adds grants it has just computed, on a list that at
most grew by a client at its end.

The two theorems about alignment need no further invariant: all the work is in
what `addr6_iterations()` and `prefix_contains()` compute. The second speaks of
addresses that agree with the prefix in the upper words, because the mask is
that of the last word and is applied to the other three as well.

### MaskCallsProofs

| Theorem | Statement | Argument |
|---|---|---|
| `LoopsStayOnLists` | `CallsSpec => []FrameOK` | from the inductive invariant |
| `WindowIsFound` | `CallsSpec => []CountersAgree` | `counter` is the rank of the turn, and `ports_pos` the number of window starts behind it |
| `NthIsReturned` | `CallsSpec => []NthAgrees` | `n` has been counted down by the turns of the walk behind the place the loops are at; where it is 0 the walk's `n`-th element is |
| `CallsImplementGetMask` | `CallsSpec => AssignsMasks` | initial states and steps, see below |
| `LoopsKeepMasks` | `CallsSpec => []MasksKept` | no run checks `MasksKept`: `mask_calls` checks the refinement and `get_mask` its conjuncts; the invariants of `GetMaskProofs`, instantiated with the mapping, and the refinement |

`IInv` has a conjunct for each loop (`InAddrExist`, `InCompare`, `InContains`,
`InFindPos`, `InMasks`, `InEntries`, `InPorts`), saying what the turns behind
have established and what the locals count: for instance that no address of the
prefixes behind is the source, or that `masks_per_client * ports_pos` is the
first window start at or after `counter`. None of the three invariants says this
between two turns, and none is inductive.

The refinement maps the client list to the one the call began with
(`frame.before`) until it returns. Hence all turns but the last are stutters,
also the one that appends the source, and each return is one step of `GetMask`:
an error, or a mask served, whose window the conjunct of the loop it returns
from names. The masks that the search may stop at are the free ones of the
domain (`InMasks`: none was passed), which is what `GetMask` lets it return.

### MaskDomainProofs

| Theorem | Statement | Argument |
|---|---|---|
| `TypeCorrect` | `Spec => []TypeOK` | one step per action |
| `StructStaysCurrent` | `Spec => []WindowCurrent` | appending keeps the ranks and the masks of the slots (`AppendKeepsSlots`), so a window that is there stays |
| `TakenAreNumbered` | `Spec => []GivenIsNth` | the slots `pool4_get_nth_taddr()` visits are those from the start of the window on; the number of them before another is the difference of their ranks (`SlotsBetween`) |
| `WindowsShareNothing` | `Spec => []WindowsDisjoint` | ranks `place * width + n` with `n < width` are equal only for equal places and numbers; the client at a place is still the first to hold the address a mask was taken for (`Held`) |
| `OnlyPoolMasksTaken` | `Spec => []TakenFromPool` | the walk visits slots of the present pool, whatever struct it is given |
| `RefusedOnlyAtEnds` | `Spec => []NthServed` | the walk takes every slot from the start of the window on, unless that is the last port of its range; the finite set of them has an `n`-th element when it is large enough |

`IInv == TypeOK /\ OneWidth /\ Held /\ WindowCurrent /\ GivenIsNth`: `OneWidth`
says that all windows of a history have the width of the struct, without which
the multiples above could not be compared. `Held` says that the holder of the
struct, and each address a mask was taken for, has its client at the place that
was recorded: an appended client is behind all of them, and a deletion keeps what
is before it. Without it the places would say nothing of the clients of the list
as it is.

### ForeachTaddrProofs and ForeachClientProofs

| Theorem | Statement | Argument |
|---|---|---|
| `TypeCorrect` (both) | `Spec => []TypeOK` | for the clients it includes that no call ends with `-ESRCH`: an offset that was reduced is counted down within the first pass; and that the index is what an `int` holds of a word |
| `IndexCountsMasks` | `Spec => []IndexIsRank` | a turn adds 1 to the index and to the rank, and a range that is left or skipped adds none to either |
| `TrapsNeedACountOfNone` | `Spec => []TrapsOnlyUncounted` | without upside-down ranges `pool4_count()` is the number of the slots modulo `2^WordBits`, and the list has at most that many |
| `CallbacksAreCounted` | `Spec => []CountsAgree` | the callbacks are the turns from the offset on and, unless the index is negative, those before it, together all turns of the lists; a word of their number is `client_count()` |
| `NoneIsRepeated` | `Spec => []NoneRepeated` | at most as many callbacks as addresses, so their places in the rotation are different numbers; the successors within a node rise in the order of the three lower words, until these are full (`WalkRises`) |
| `ImplementsRotation` (both) | `Spec => Rotates` | initial states and steps of `Rotation` |

Both begin with an invariant about the place of the loops, `PlaceInv`, in terms
of the number `At` of turns behind it: for the pool, `indx` is a word of `At`;
for the clients, the offset left in the first pass is what `At` lacks of
the reduced offset, and the count of the second pass is `At`. `client_index` is
that offset or negative (`AsIntIs`); in the second case `At` is 0 where the
second pass ends, and what was handed out is all from the offset on. It gives the number of
callbacks so far (`Handed`). `IInv` adds `VisitedIs`, that they are the first
`Handed` items of the rotation. A callback appends the next one, since the place
of the loops and the place in the rotation are the same modulo the number of
items; all other steps are stutters, and the end, the stop by the callback and
the trap are the steps of `Rotation` of these names.

### SamplePagingProofs

| Theorem | Statement | Argument |
|---|---|---|
| `TypeCorrect` | `Spec => []TypeOK` | one step per action |
| `ListingIsWhole` | `Spec => []NothingMissed` | see below |
| `NothingTwice` | `Spec => []NothingRepeated` | see below |
| `RefusalMeansRemoval` | `Spec => []EsrchMeansRemoved` | a call fails only when its offset is nowhere in the list; an item that was kept still is |

`IInv == TypeOK /\ MissInv /\ RepeatInv`. What was seen and what is still to come
is divided by the place of the last item seen: no kept item stands before it that
was not seen (`NoneBehind`), and, in a list that holds nothing twice, none stands
after it that was (`NoneAhead`). A call moves the place on by what it takes, an
addition is behind all places, and a removal keeps the order of the rest, which
`SelectAtThins` and `RemoveNodeThins` state by means of a growing function from
the positions that are left to the old ones.

### NfHookProofs

| Theorem | Statement | Argument |
|---|---|---|
| `TypeCorrect` | `Spec => []TypeOK` | together with `failure_counter < suite`: a suite fails once at the most |
| `RefusalsReported` | `Spec => []RefusalReported` | see below |
| `LoopsStayInArrays` | `Spec => []LoopsEnd` | see below |
| `OnlyInitLeavesNodes` | `Spec => []NodesLeft` | see below |

They hold for any number of refusals, where the run has three, and for both byte
orders. `Counted` is the heart of `IInv`: a refusal to a database leaves `success`
false until the suite ends, which then adds to `failure_counter`. Two places
could break it. `kmalloc_packet` *returns* in the middle of a test and counts as
a success; it is the first step of the last suite, before anything can be
refused to that suite's test (`LastScript`). And `get_mask()` drops the result of
`client_add()`: then no prefix holds the source, since all clients left at that
point are sources themselves (`LastSuite`, `DynamicAbsent`), so the same call
returns an error and the assertion on it fails (`NoClientNoMask`). Before
that point the sources are clients that a successful `init()` has added
(`Filled`), and `get_mask()` allocates nothing.

`LoopsEnd` and `NodesLeft` need to know how many nodes the lists have when a
`fill_exp` function is called and when an `init()` has failed, and so what the
steps before have added and what was refused to them: `LInv` adds `Stocked`, which
gives the number of nodes at each place of the two scripts that matter, `init()`
(`InitStock`, `InitCounts`) and the suite of the iterators (`IterStock`), as what
the script asked for less at most the refusals, and says that the ranges are not
upside down. The places are those of the scripts themselves (`InitPlaces`,
`IterScript`). An `init()` asks for seven entries and seven clients and asserts
nothing else that could fail (`InitQueryHolds`), so one that fails was refused a
node, and lacks no more than were refused (`NodesLeft`); all other ways to return
follow an `end()` that empties both lists. Without a refusal there are seven
clients when the array is filled first, which are copied once, and four when it is
filled again. Four would be copied twice and overrun the array of seven, if the
third of them did not end in 14; that its last byte in memory is 14 depends on the
byte order of the CPU and is shown for both (`LastByteIs`). The suite of the
iterators refills a flushed list by three additions or more before it fills an
array from it again, so an empty list takes three refusals.

### DatabaseLemmas

In a finite set under a strict linear order, sending an element to the number
of elements below it is a bijection onto `0 .. Cardinality - 1`. This gives the
uniqueness of a window's start, its existence when enough slots are there, the
sub-lists of `pool4_rm()`, and the ranks that a turn of the loops steps through.

The induction theorems of the library cannot be instantiated here, so sums, walks
and flattened lists are reasoned about by a least counterexample (`Upwards`,
`SumIsUnique`): `pool4_count()` and `client_count()` are the one function that
grows by each entry's size; `Walk(p)` has `get_addr6_count(p)` addresses, each
`addr6_iterations()` of the one before (`WalkIs`); and the items of all walks in
list order are numbered by `Size` (`FlatIs`).

### What is only model-checked

* Liveness: that iterators and calls return (`Returns`, `CallsReturn`) and that a
  listing ends (`ListingEnds`). It rests on fairness, which is beyond the prover.
* `AssertionsHold` of `NfHook`. It is true on a little-endian CPU only (section 4)
  and about one execution of the scripts, of some 480 calls with fixed inputs, in
  which what can go wrong is a wrong value; TLC computes all of them, and a proof
  would do so by hand. The rules behind those values, how windows are numbered,
  what the iterators hand over and what is found after which edit, are proved for
  all inputs in the modules above.
* The executions that contradict a comment or a test (section 4, second table).
* Prefixes that are not aligned or reach above the last word. What is proved of
  grants holds whatever `prefix_contains()` answers for them.

## 6. What is not modelled

* Printing (`pool4_print_all()`, `client_print_all()`, `print_exp_*()`), the
  strings of `ip4_to_str()`, and `pkt_ip6_hdr()`, which is never called.
* The build files.
* The `spool` pool. The driver only flushes it, and `get_spool_mask()` does
  not read it: it stores 0.0.0.0 port 0, which is modelled.
* The branches for `dynamic_assignment == 0`: it is a static variable with the
  value 1 that nothing assigns.
* Concurrent calls. The code takes no lock and starts no thread, and nothing in
  it says how callers exclude each other.
* `kfree()` and reuse of memory: a removed entry is gone.
* The counters that the driver's callbacks keep only to print them.

## 7. Plan

Done: the core (`GetMask`) modelled, checked and proved; its loops shown, and
proved, to implement it; windows, iterators, listing and driver modelled, checked
and proved, with wrapped counts, upside-down ranges and both outcomes of the
undefined shift. What is left of the code is in section 6. What could be
added:

1. `AssertionsHold` for the suites that do not depend on values of a walk, on a
   little-endian CPU and a suite at a time: `Stocked` shows the way, the lists at
   each step of a script are known as long as nothing was refused.
2. A bound on the masks that the sources appended by `get_mask()` can take from
   the other clients, once the code has a way to take them out again.
