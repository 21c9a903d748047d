------------------------------ MODULE AggPages ------------------------------
(***************************************************************************)
(* The memory of uplink aggregates (rmnet_map_data.c): a port may keep a   *)
(* list of pages that are used again for the next aggregate once the       *)
(* device has freed the last one built on them.                            *)
(*                                                                         *)
(* Taking a page, changing the configuration and freeing the list happen   *)
(* under agg_lock and are one step each; the device frees an aggregate     *)
(* whenever it likes.                                                      *)
(***************************************************************************)
EXTENDS Integers, Sequences, FiniteSets

CONSTANTS
    Pages,     \* page blocks the allocator can hand out
    NULL,
    ListHead,  \* &port->agg_list, read as if it were an entry of the list
    PoolSize,  \* entries rmnet_alloc_agg_pages tries to allocate (512)
    MaxTries,  \* entries rmnet_get_agg_pages looks at (6)
    PageSize,  \* PAGE_SIZE
    Overhead,  \* SKB_DATA_ALIGN(sizeof(struct skb_shared_info))
    U16,       \* 2^16, the range of agg_size
    Sizes      \* agg_size values user space sets

ASSUME PagesAssumption ==
    /\ NULL \notin Pages /\ ListHead \notin Pages /\ NULL # ListHead
    /\ PoolSize \in Nat /\ MaxTries \in Nat \ {0}
    /\ PageSize \in Nat /\ Overhead \in 1 .. PageSize - 1
    /\ \E k \in 0 .. 16 : U16 = PageSize * 2^k
    /\ Sizes \subseteq 0 .. U16 - 1

VARIABLES
    page,     \* page_ref_count, and the order the block was allocated with
    agg_list, \* port->agg_list
    agg_head, \* port->agg_head
    order,    \* port->agg_size_order
    agg_size, \* egress_agg_params.agg_size
    recycle,  \* agg_features & RMNET_PAGE_RECYCLE
    raw,      \* history: agg_size is what rmnet_newlink copied, not computed
    skbs      \* the aggregates in use: how many on each block, and their room

vars == <<page, agg_list, agg_head, order, agg_size, recycle, raw, skbs>>

Listed == {agg_list[i] : i \in 1 .. Len(agg_list)}
Unused == {p \in Pages : page[p].ref = 0}

TypeOK ==
    /\ page \in [Pages -> [ref : Nat, order : 0 .. 16]]
    /\ agg_list \in Seq(Pages)
    /\ agg_head \in Pages \cup {NULL, ListHead}
    /\ order \in 0 .. 16
    /\ agg_size \in 0 .. U16 - 1
    /\ recycle \in BOOLEAN /\ raw \in BOOLEAN
    /\ skbs \in [Pages -> [count : Nat, room : Int]]

Init ==
    /\ page = [p \in Pages |-> [ref |-> 0, order |-> 0]]
    /\ agg_list = <<>>
    /\ agg_head = NULL
    /\ order = 0
    /\ agg_size = PageSize - 1
    /\ recycle = FALSE /\ raw = FALSE
    /\ skbs = [p \in Pages |-> [count |-> 0, room |-> 0]]

-----------------------------------------------------------------------------

\* get_order: the least block of pages that holds n bytes
GetOrder(n) == CHOOSE k \in 0 .. 16 :
                  /\ n <= PageSize * 2^k
                  /\ \A j \in 0 .. k - 1 : n > PageSize * 2^j

\* Mutant: the overhead of the skb is forgotten
ConfigSizeNoOverhead(sz) ==
    IF sz < PageSize THEN sz ELSE (PageSize * 2^GetOrder(sz)) % U16

\* The agg_size set for the request sz, computed in 16 bits
ConfigSize(sz) ==
    IF sz < PageSize THEN sz ELSE (PageSize * 2^GetOrder(sz) - Overhead) % U16

\* rmnet_free_agg_pages: each entry of the list drops its reference.
FreePages == [p \in Pages |-> IF p \in Listed
                              THEN [page[p] EXCEPT !.ref = @ - 1] ELSE page[p]]

\* rmnet_alloc_agg_pages: entries that cannot be allocated are left out.
Pools(pg) == UNION {{l \in [1 .. n -> {p \in Pages : pg[p].ref = 0}] :
                        \A i, j \in 1 .. n : l[i] = l[j] => i = j}
                    : n \in 0 .. PoolSize}

\* rmnet_map_update_ul_agg_config
UpdateUlAggConfig(sz, feature) ==
    /\ recycle' = feature /\ raw' = FALSE
    /\ agg_size' = ConfigSize(sz)
    /\ order' = IF sz < PageSize THEN order ELSE GetOrder(sz)
    /\ \E l \in IF sz < PageSize \/ ~feature THEN {<<>>} ELSE Pools(FreePages) :
          /\ agg_list' = l
          /\ agg_head' = IF l = <<>> THEN NULL ELSE l[1]
          /\ page' = [p \in Pages |-> IF \E i \in 1 .. Len(l) : l[i] = p
                                      THEN [ref |-> 1, order |-> order']
                                      ELSE FreePages[p]]
    /\ UNCHANGED skbs

\* rmnet_newlink with IFLA_RMNET_UL_AGG_PARAMS copies the parameters over those
\* of the port: no order, no overhead, and the list stays as it is.
NewlinkAggParams(sz, feature) ==
    /\ recycle' = feature /\ raw' = TRUE
    /\ agg_size' = sz
    /\ UNCHANGED <<page, agg_list, agg_head, order, skbs>>

-----------------------------------------------------------------------------
(* rmnet_get_agg_pages and rmnet_map_build_skb                              *)

\* The list as list_next_entry walks it: after the last entry comes the head
\* of the list itself, taken for an entry.
Ring == Append(agg_list, ListHead)

Position == CHOOSE i \in 1 .. Len(Ring) : Ring[i] = agg_head

\* The entry k steps after agg_head
EntryAt(k) == Ring[((Position + k - 1) % Len(Ring)) + 1]

\* Mutant: a page is taken whoever uses it
ReusableAny(e) == e \in Pages

\* page_ref_count = 1: only the list refers to the page.  For the head of the
\* list the code reads a word of struct rmnet_port in place of the count; in
\* the 64-bit build it is the upper half of stats.dl_hdr_last_qmap_vers, zero.
Reusable(e) == e \in Pages /\ page[e].ref = 1

\* The tries that found no page to use again before try k
NoneBefore(k) == \A j \in 0 .. k - 1 : ~Reusable(EntryAt(j))

\* The skb built on block p, which gets ref references
Built(p, ref, ord) ==
    /\ page' = [page EXCEPT ![p] = [ref |-> ref, order |-> ord]]
    /\ skbs' = [skbs EXCEPT ![p] = [count |-> @.count + 1,
                                    room |-> PageSize * 2^order - Overhead]]

\* A page of the list is used again.
BuildOnRecycled ==
    /\ recycle /\ agg_head # NULL
    /\ \E k \in 0 .. MaxTries - 1 :
          /\ NoneBefore(k)
          /\ Reusable(EntryAt(k))
          /\ agg_head' = EntryAt(k + 1)
          /\ Built(EntryAt(k), page[EntryAt(k)].ref + 1, page[EntryAt(k)].order)
    /\ UNCHANGED <<agg_list, order, agg_size, recycle, raw>>

\* No page was found, agg_head moved past the entries that were tried; a new
\* block is allocated, or there is no memory.  A block is given back when
\* build_skb fails.
SearchFails ==
    IF recycle /\ agg_head # NULL
    THEN NoneBefore(MaxTries) /\ agg_head' = EntryAt(MaxTries)
    ELSE UNCHANGED agg_head

BuildOnNew ==
    /\ SearchFails
    /\ \E p \in Unused : Built(p, 1, order)
    /\ UNCHANGED <<agg_list, order, agg_size, recycle, raw>>

BuildFails ==
    /\ SearchFails
    /\ UNCHANGED <<page, skbs, agg_list, order, agg_size, recycle, raw>>

\* build_skb fails on a page of the list: only agg_head has moved.
BuildFailsRecycled ==
    /\ recycle /\ agg_head # NULL
    /\ \E k \in 0 .. MaxTries - 1 :
          /\ NoneBefore(k)
          /\ Reusable(EntryAt(k))
          /\ agg_head' = EntryAt(k + 1)
    /\ UNCHANGED <<page, skbs, agg_list, order, agg_size, recycle, raw>>

\* The device is done with an aggregate: kfree_skb drops the page reference.
ConsumeSkb(p) ==
    /\ skbs[p].count > 0
    /\ skbs' = [skbs EXCEPT ![p].count = @ - 1]
    /\ page' = [page EXCEPT ![p].ref = @ - 1]
    /\ UNCHANGED <<agg_list, agg_head, order, agg_size, recycle, raw>>

-----------------------------------------------------------------------------

Next ==
    \/ \E sz \in Sizes, feature \in BOOLEAN :
          UpdateUlAggConfig(sz, feature) \/ NewlinkAggParams(sz, feature)
    \/ BuildOnRecycled \/ BuildOnNew \/ BuildFails \/ BuildFailsRecycled
    \/ \E p \in Pages : ConsumeSkb(p)

Spec == Init /\ [][Next]_vars

-----------------------------------------------------------------------------
(* Properties.                                                              *)

\* Every reference is accounted for: a block is referred to by the list entry
\* and by the aggregate built on it and by nothing else.  No block leaks when
\* the list is replaced while the device still sends from it, and none is freed
\* too early.
PageRefs ==
    \A p \in Pages : page[p].ref = skbs[p].count + IF p \in Listed THEN 1 ELSE 0

\* A page is used again only after the device has freed the aggregate on it.
PageExclusive == \A p \in Pages : skbs[p].count <= 1

\* An aggregate believes in no more room than its block has, although the order
\* of new blocks changes while old ones are listed and in use.
BufferFits ==
    \A p \in Pages : skbs[p].count > 0 =>
        skbs[p].room <= PageSize * 2^page[p].order - Overhead

\* agg_head points into the present list, at its head, or nowhere.
HeadValid == IF agg_list = <<>> THEN agg_head = NULL
                                ELSE agg_head \in Listed \cup {ListHead}

\* From one page on, an agg_size that rmnet_map_update_ul_agg_config computed is
\* exactly the room of a block of the current order, also where the size of the
\* block does not fit in 16 bits: the first packet that passes the test against
\* agg_size fits in the buffer.  A size copied by rmnet_newlink has no relation
\* to the order until the next change of the configuration.
SizeIsRoom ==
    ~raw /\ agg_size >= PageSize => agg_size = PageSize * 2^order - Overhead

\* The pool is sound: references balance, no page carries two aggregates, and
\* agg_head is usable, whatever the order of configuration changes, aggregates
\* and frees by the device.
PoolSound == TypeOK /\ PageRefs /\ PageExclusive /\ HeadValid

\* Aggregates fit: across changes of the order and of the raw parameters, no
\* buffer believes in more room than its block has, and the agg_size that packets
\* are tested against is the room of a block whenever it was computed for one.
RoomSound == BufferFits /\ SizeIsRoom

=============================================================================
