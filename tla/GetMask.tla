------------------------------ MODULE GetMask ------------------------------
(***************************************************************************)
(* Translation of IPv6 sources to IPv4 masks: get_mask() over a client     *)
(* database and a pool4 database that are edited between its calls.        *)
(* Nothing is stored about an assignment: it is computed again at each     *)
(* call from the places of list nodes.  The history variable grants        *)
(* remembers what was given out, so that calls can be compared.            *)
(***************************************************************************)
EXTENDS Windows

CONSTANT PerClient    (* The values of masks_per_client a caller may use.    *)

ASSUME GetMaskAssumption == PerClient \subseteq Nat

VARIABLES
  masks_per_client,  (* Chosen once by the caller of get_mask.               *)
  answer,            (* What the last call returned, if it was get_mask.     *)
  grants             (* The masks given out of a client's own domain, with   *)
                     (* the client's place, until an edit moves the client   *)
                     (* or a pool entry.                                     *)

vars == <<cpool, clients, masks_per_client, answer, grants>>

NoAnswer == [call |-> "other"]

Answer(src, err, dom, from, mask) ==
  [call |-> "get_mask", src |-> src, err |-> err, dom |-> dom,
   from |-> from, mask |-> mask]

-----------------------------------------------------------------------------
Init ==
  /\ cpool = << >>
  /\ clients = << >>
  /\ masks_per_client \in PerClient
  /\ answer = NoAnswer
  /\ grants = {}

(* cpool is empty: the mask comes from spool, the databases are not read.  *)
GetMaskEmptyPool(src) ==
  /\ pool4_is_empty(cpool)
  /\ answer' = Answer(src, 0, "none", "spool", Spool)
  /\ UNCHANGED <<cpool, clients, masks_per_client, grants>>

(* client_get_mask_domain() fails: its error is returned and *result is    *)
(* not written.                                                            *)
GetMaskError(src) ==
  /\ ~pool4_is_empty(cpool)
  /\ \E list \in KnownClients(src) :
       LET err == mask_domain_error(cpool, list, src, masks_per_client)
       IN  /\ err # 0
           /\ clients' = list
           /\ answer' = Answer(src, err, "none", "none", Spool)
  /\ UNCHANGED <<cpool, masks_per_client, grants>>

(* The first mask of the domain is handed out if it is free; otherwise,    *)
(* and when the pool does not hold it, the mask comes from spool.          *)
GetMaskServed(src) ==
  /\ ~pool4_is_empty(cpool)
  /\ \E list \in KnownClients(src) :
       /\ mask_domain_error(cpool, list, src, masks_per_client) = 0
       /\ clients' = list
       /\ LET k == ClientPlace(list, src)
          IN  \E dom \in get_mask_domain(cpool, k, masks_per_client) :
                LET how == IF dom.set THEN "set" ELSE "unset"
                IN  IF Free(dom) # {}
                    THEN \E mask \in Free(dom) :
                           /\ answer' = Answer(src, 0, how, "cpool", mask)
                           /\ grants' = IF dom.set
                                        THEN grants \cup
                                          {[place |-> k, src |-> src, mask |-> mask]}
                                        ELSE grants
                    ELSE /\ answer' = Answer(src, 0, how, "spool", Spool)
                         /\ grants' = grants
  /\ UNCHANGED <<cpool, masks_per_client>>

AddEntry(e) ==
  /\ Pool4Add(e)
  /\ answer' = NoAnswer
  /\ UNCHANGED <<masks_per_client, grants>>

RemoveEntry(e) ==
  /\ Pool4Rm(e)
  /\ grants' = IF cpool' = cpool THEN grants ELSE {}
  /\ answer' = NoAnswer
  /\ UNCHANGED masks_per_client

FlushEntries ==
  /\ Pool4Flush
  /\ grants' = {}
  /\ answer' = NoAnswer
  /\ UNCHANGED masks_per_client

AddClient(p) ==
  /\ ClientAdd(p)
  /\ answer' = NoAnswer
  /\ UNCHANGED <<masks_per_client, grants>>

(* The clients before the deleted one keep their places.                   *)
DeleteClient(p) ==
  /\ ClientDelete(p)
  /\ grants' = {g \in grants : BeforeDeleted(g.place, p)}
  /\ answer' = NoAnswer
  /\ UNCHANGED masks_per_client

FlushClients ==
  /\ ClientFlush
  /\ grants' = {}
  /\ answer' = NoAnswer
  /\ UNCHANGED masks_per_client

Next ==
  \/ \E src \in Source :
       \/ GetMaskEmptyPool(src)
       \/ GetMaskError(src)
       \/ GetMaskServed(src)
  \/ \E e \in Entry : AddEntry(e) \/ RemoveEntry(e)
  \/ FlushEntries
  \/ \E p \in Prefix : AddClient(p) \/ DeleteClient(p)
  \/ FlushClients

Spec == Init /\ [][Next]_vars

-----------------------------------------------------------------------------
Answers ==
  {NoAnswer} \cup
  [call : {"get_mask"}, src : Source, err : {0, 1, -ESRCH},
   dom : {"none", "set", "unset"}, from : {"none", "cpool", "spool"},
   mask : Taddr]

(* The lists hold entries and prefixes that were added, and what get_mask  *)
(* returned is an error code it can return and a transport address.        *)
TypeOK ==
  /\ cpool \in Seq(Entry)
  /\ clients \in Seq(Client)
  /\ masks_per_client \in PerClient
  /\ answer \in Answers
  /\ grants \subseteq [place : Nat \ {0}, src : Source, mask : Taddr]

(* Every grant still agrees with the databases: the client at the granted  *)
(* place is the first whose prefix holds the source, and the mask is the   *)
(* first of the window that has the number of that place, whatever was     *)
(* appended to both lists since get_mask() answered.                       *)
GrantsCurrent ==
  \A g \in grants :
    /\ masks_per_client # 0
    /\ g.place \in Holding(clients, g.src)
    /\ \A k \in Holding(clients, g.src) : g.place <= k
    /\ \E s \in DomainStart(cpool, g.place - 1, masks_per_client) :
         g.mask = TaddrOf(cpool, s)

(* Two clients are never given one mask by get_mask(), as long as the pool *)
(* holds no mask twice: masks stand for clients in the IPv4 network, and   *)
(* only the arithmetic on places keeps the windows apart.                  *)
Exclusive ==
  NoOverlap(cpool) =>
    \A g, h \in grants : g.mask = h.mask => g.place = h.place

(* A source is given the same mask at every call of get_mask() until a     *)
(* removal moves its client or a pool entry; clients and entries that are  *)
(* added meanwhile, by callers or by get_mask() itself, do not change it.  *)
Stable ==
  \A g, h \in grants : g.src = h.src => g.mask = h.mask

(* A source whose call of get_mask() fails after it was appended stays in  *)
(* the database, and counts against everybody; calling again does not      *)
(* append it again.  Only callers can list a client twice.                 *)
DynamicOnce ==
  \A src \in Source :
    dynamic_prefix(src) \notin Prefix =>
      \A j, k \in DOMAIN clients :
        clients[j] = dynamic_prefix(src) /\ clients[k] = clients[j] => j = k

(* No range is upside down and no count wraps around.                      *)
Regular ==
  /\ \A k \in DOMAIN cpool : cpool[k].min <= cpool[k].max
  /\ pool4_count(cpool) = Cardinality(Slots(cpool))
  /\ client_count(clients) \in Len(clients) .. 2^WordBits - 1

(* With one mask per client, the comparison of client_count() with         *)
(* pool4_count() is enough for every client to have a window: get_mask()   *)
(* never reads a mask_domain that was left unwritten.                      *)
OneMaskIsAssigned ==
  masks_per_client = 1 /\ Regular /\ answer # NoAnswer =>
    answer.dom # "unset"

(* The comparison of addresses with masks lets clients through for whom    *)
(* the pool has no window.  It has one for each when its masks reach the   *)
(* first one of the last client, whatever the number of masks per client:  *)
(* then a call that does not fail hands out a mask of the pool, unless the *)
(* first one of the window is in use.                                      *)
ServedWhenEnough ==
  /\ answer # NoAnswer /\ answer.err = 0 /\ cpool # << >>
  /\ Cardinality(Slots(cpool)) > (Len(clients) - 1) * masks_per_client
  => LET k == ClientPlace(clients, answer.src)
     IN  \E s \in DomainStart(cpool, k - 1, masks_per_client) :
           answer.from = IF bibdb_contains4(TaddrOf(cpool, s)) THEN "spool"
                         ELSE "cpool"

(* A prefix within the last word that begins at a multiple of its size.    *)
Aligned(prefix) ==
  LET zeros == AddrBits - prefix.len
  IN  zeros < WordBits /\ prefix.address[4] % 2^zeros = 0

(* An address of a list of aligned prefixes is never reported unknown: the *)
(* walk that found it and the mask that is to find it again then agree.    *)
AlignedFound ==
  /\ answer # NoAnswer /\ answer.err = -ESRCH
  /\ (\A k \in DOMAIN clients : Aligned(clients[k]))
  => ~client_addr_exist(clients, answer.src)

(* The client whose window a source gets is one that walks, and so counts, *)
(* the source, if it is aligned and differs from it in the last word only. *)
GrantedToWalker ==
  \A g \in grants :
    LET client == clients[g.place]
    IN  Aligned(client) /\ (\A w \in 1..3 : client.address[w] = g.src[w]) =>
          client_addr_exist(<<client>>, g.src)

-----------------------------------------------------------------------------
(* What the messages and comments of the code say of get_mask().           *)

(* "Mask domain not available, get spool" (pool4.c:401): a client for      *)
(* which the pool has no window is served from spool.                      *)
SpoolWhenUnavailable ==
  answer # NoAnswer /\ answer.dom = "unset" => answer.from = "spool"

(* "addr does not exist in client database" (client.c:285): the error is   *)
(* returned for addresses that client_addr_exist() does not find.          *)
UnknownAddressOnly ==
  answer # NoAnswer /\ answer.err = -ESRCH =>
    ~client_addr_exist(clients, answer.src)
=============================================================================
