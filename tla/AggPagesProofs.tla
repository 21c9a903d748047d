--------------------------- MODULE AggPagesProofs ---------------------------
(***************************************************************************)
(* Proofs about AggPages for any pages, pool size, number of tries, page   *)
(* size, overhead and sizes: the references of the pool balance, no page   *)
(* carries two aggregates and agg_head is usable (PoolSound); no aggregate *)
(* believes in more room than its block has, and a computed agg_size is    *)
(* the room of a block (RoomSound).                                        *)
(***************************************************************************)
EXTENDS AggPages, WellFoundedInduction, SequenceTheorems, TLAPS

\* The blocks of the list have the order that new aggregates are given the
\* room of: the link between the pool and the size of a buffer
ListedOrder == \A p \in Listed : page[p].order = order

PoolInv == /\ TypeOK /\ PageRefs /\ PageExclusive /\ HeadValid
           /\ ListedOrder /\ BufferFits /\ SizeIsRoom

-----------------------------------------------------------------------------
(* Powers of two up to 2^16.                                               *)

PowTable == <<1, 2, 4, 8, 16, 32, 64, 128, 256,
              512, 1024, 2048, 4096, 8192, 16384, 32768, 65536>>

LEMMA Orders ==
    ASSUME NEW k \in 0 .. 16
    PROVE  k \in {0, 1, 2, 3, 4, 5, 6, 7, 8, 9, 10, 11, 12, 13, 14, 15, 16}
OBVIOUS

LEMMA PowValue ==
    ASSUME NEW k \in 0 .. 16
    PROVE  2^k = PowTable[k + 1]
<1>0. CASE k = 0
  BY <1>0 DEF PowTable
<1>1. CASE k = 1
  BY <1>1 DEF PowTable
<1>2. CASE k = 2
  BY <1>2 DEF PowTable
<1>3. CASE k = 3
  BY <1>3 DEF PowTable
<1>4. CASE k = 4
  BY <1>4 DEF PowTable
<1>5. CASE k = 5
  BY <1>5 DEF PowTable
<1>6. CASE k = 6
  BY <1>6 DEF PowTable
<1>7. CASE k = 7
  BY <1>7 DEF PowTable
<1>8. CASE k = 8
  BY <1>8 DEF PowTable
<1>9. CASE k = 9
  BY <1>9 DEF PowTable
<1>10. CASE k = 10
  BY <1>10 DEF PowTable
<1>11. CASE k = 11
  BY <1>11 DEF PowTable
<1>12. CASE k = 12
  BY <1>12 DEF PowTable
<1>13. CASE k = 13
  BY <1>13 DEF PowTable
<1>14. CASE k = 14
  BY <1>14 DEF PowTable
<1>15. CASE k = 15
  BY <1>15 DEF PowTable
<1>16. CASE k = 16
  BY <1>16 DEF PowTable
<1> QED
  BY Orders, <1>0, <1>1, <1>2, <1>3, <1>4, <1>5, <1>6, <1>7, <1>8,
     <1>9, <1>10, <1>11, <1>12, <1>13, <1>14, <1>15, <1>16

LEMMA PowMonotone ==
    ASSUME NEW j \in 0 .. 16, NEW k \in 0 .. 16
    PROVE  /\ 2^k \in Nat \ {0}
           /\ j <= k => 2^j <= 2^k
<1>1. /\ PowTable[k + 1] \in Nat \ {0}
      /\ j <= k => PowTable[j + 1] <= PowTable[k + 1]
  BY Orders DEF PowTable
<1> QED
  BY <1>1, PowValue

LEMMA TimesMonotone ==
    ASSUME NEW x \in Nat, NEW m \in Nat, NEW n \in Nat
    PROVE  x * n \in Nat /\ (m <= n => x * m <= x * n)
OBVIOUS

-----------------------------------------------------------------------------
(* get_order and the size of a block.                                      *)

LEMMA Least ==
    ASSUME NEW S, S \subseteq Nat, S # {}
    PROVE  \E m \in S : \A j \in S : m <= j
<1>1. PICK m \in S : \A j \in S : <<j, m>> \notin OpToRel(<, Nat)
  BY WFMin, NatLessThanWellFounded
<1>2. \A j \in S : ~(j < m)
  BY <1>1 DEF OpToRel
<1> QED
  BY <1>2

LEMMA BlockNat ==
    ASSUME NEW k \in 0 .. 16
    PROVE  PageSize * 2^k \in Nat /\ PageSize * 2^k >= PageSize
<1>1. PageSize \in Nat /\ 2^k \in Nat \ {0}
  BY PagesAssumption, PowMonotone
<1>2. 1 \in Nat /\ 2^k \in Nat /\ 1 <= 2^k
  BY <1>1
<1>3. PageSize * 2^k \in Nat /\ PageSize * 1 <= PageSize * 2^k
  BY <1>1, <1>2, TimesMonotone
<1>4. PageSize * 1 = PageSize
  BY <1>1
<1> QED
  BY <1>1, <1>3, <1>4

\* get_order finds the least order; the block is within 16 bits
LEMMA GetOrderShape ==
    ASSUME NEW n \in 0 .. U16 - 1
    PROVE  /\ GetOrder(n) \in 0 .. 16
           /\ n <= PageSize * 2^GetOrder(n)
           /\ PageSize * 2^GetOrder(n) <= U16
<1> DEFINE Fits(k) == n <= PageSize * 2^k
           K == {k \in 0 .. 16 : Fits(k)}
<1>0. \A k \in 0 .. 16 : PageSize * 2^k \in Nat
  BY BlockNat
<1>1. PICK top \in 0 .. 16 : U16 = PageSize * 2^top
  BY PagesAssumption
<1>2. top \in K
  BY <1>0, <1>1
<1>3. PICK m \in K : \A j \in K : m <= j
  BY <1>2, Least
<1>4. /\ m \in 0 .. 16 /\ Fits(m)
      /\ \A j \in 0 .. m - 1 : n > PageSize * 2^j
  <2>1. m \in 0 .. 16 /\ Fits(m)
    BY <1>3
  <2>2. ASSUME NEW j \in 0 .. m - 1 PROVE n > PageSize * 2^j
    <3>1. j \in 0 .. 16 /\ ~(m <= j)
      BY <2>1
    <3>2. ~Fits(j) /\ PageSize * 2^j \in Nat
      BY <1>0, <1>3, <3>1
    <3> QED
      BY <3>2
  <2> QED
    BY <2>1, <2>2
<1>5. /\ GetOrder(n) \in 0 .. 16 /\ Fits(GetOrder(n))
      /\ \A j \in 0 .. GetOrder(n) - 1 : n > PageSize * 2^j
  <2> DEFINE Q(k) == n <= PageSize * 2^k /\ \A j \in 0 .. k - 1 : n > PageSize * 2^j
  <2>1. GetOrder(n) = CHOOSE k \in 0 .. 16 : Q(k)
    BY DEF GetOrder
  <2>2. \E k \in 0 .. 16 : Q(k)
    BY <1>4
  <2> HIDE DEF Q
  <2>3. GetOrder(n) \in 0 .. 16 /\ Q(GetOrder(n))
    BY <2>1, <2>2
  <2> QED
    BY <2>3 DEF Q
<1>6. GetOrder(n) <= top
  BY <1>0, <1>1, <1>5
<1>7. 2^GetOrder(n) \in Nat /\ 2^top \in Nat /\ 2^GetOrder(n) <= 2^top
  BY <1>1, <1>5, <1>6, PowMonotone
<1>8. PageSize * 2^GetOrder(n) <= PageSize * 2^top
  BY <1>7, TimesMonotone, PagesAssumption
<1> QED
  BY <1>1, <1>5, <1>8

LEMMA SizesShape ==
    /\ U16 \in Nat \ {0} /\ PageSize \in Nat /\ Overhead \in Nat
    /\ Overhead < PageSize /\ Overhead > 0 /\ PageSize - 1 \in 0 .. U16 - 1
<1>1. PageSize \in Nat /\ Overhead \in 1 .. PageSize - 1
  BY PagesAssumption
<1>2. PICK top \in 0 .. 16 : U16 = PageSize * 2^top
  BY PagesAssumption
<1>3. U16 \in Nat /\ U16 >= PageSize
  BY <1>2, BlockNat
<1> QED
  BY <1>1, <1>3

\* The 16-bit computation of agg_size does not wrap
LEMMA ConfigSizeShape ==
    ASSUME NEW sz \in Sizes
    PROVE  /\ ConfigSize(sz) \in 0 .. U16 - 1
           /\ IF sz < PageSize THEN ConfigSize(sz) = sz
              ELSE ConfigSize(sz) = PageSize * 2^GetOrder(sz) - Overhead
<1>0. sz \in 0 .. U16 - 1 /\ sz \in Nat
  BY PagesAssumption, SizesShape
<1> DEFINE block == PageSize * 2^GetOrder(sz)
<1>1. block \in Nat /\ block >= PageSize /\ block <= U16
  BY <1>0, GetOrderShape, BlockNat
<1> HIDE DEF block
<1>2. block - Overhead \in Nat /\ block - Overhead < U16
  BY <1>1, SizesShape
<1>3. (block - Overhead) % U16 = block - Overhead
  BY <1>2, SizesShape
<1>4. ConfigSize(sz) = IF sz < PageSize THEN sz ELSE (block - Overhead) % U16
  BY DEF ConfigSize, block
<1> QED
  BY <1>0, <1>2, <1>3, <1>4, SizesShape DEF block

-----------------------------------------------------------------------------
(* The list and the walk over it.                                          *)

LEMMA ListedShape ==
    ASSUME TypeOK
    PROVE  /\ Listed \subseteq Pages /\ ListHead \notin Listed
           /\ agg_list # <<>> => agg_list[1] \in Listed
BY PagesAssumption DEF TypeOK, Listed

\* Every entry the walk looks at is an entry of the list or its head
LEMMA EntryShape ==
    ASSUME TypeOK, HeadValid, agg_head # NULL, NEW k \in Nat
    PROVE  agg_list # <<>> /\ EntryAt(k) \in Listed \cup {ListHead}
<1> DEFINE n == Len(agg_list)
<1>1. agg_list # <<>> /\ agg_head \in Listed \cup {ListHead}
  BY DEF HeadValid
<1>2. n \in Nat /\ agg_list \in Seq(Pages)
  BY DEF TypeOK
<1>3. /\ Len(Ring) = n + 1
      /\ \A i \in 1 .. n : Ring[i] = agg_list[i]
      /\ Ring[n + 1] = ListHead
  BY <1>2 DEF Ring
<1>4. \A i \in 1 .. n + 1 : Ring[i] \in Listed \cup {ListHead}
  BY <1>2, <1>3 DEF Listed
<1>5. \E i \in 1 .. n + 1 : Ring[i] = agg_head
  <2>1. CASE agg_head \in Listed
    BY <1>2, <1>3, <2>1 DEF Listed
  <2>2. CASE agg_head = ListHead
    BY <1>2, <1>3, <2>2
  <2> QED
    BY <1>1, <2>1, <2>2
<1>6. Position \in 1 .. n + 1
  BY <1>3, <1>5 DEF Position
<1> HIDE DEF n
<1>7. ((Position + k - 1) % (n + 1)) \in 0 .. n
  BY <1>2, <1>6
<1>8. ((Position + k - 1) % (n + 1)) + 1 \in 1 .. n + 1
  BY <1>2, <1>7
<1> QED
  BY <1>1, <1>3, <1>4, <1>8 DEF EntryAt

\* A page that is used again is on the list, and no aggregate is on it
LEMMA ReusableShape ==
    ASSUME PoolInv, agg_head # NULL, NEW k \in Nat, Reusable(EntryAt(k))
    PROVE  /\ EntryAt(k) \in Listed /\ EntryAt(k) \in Pages
           /\ page[EntryAt(k)].ref = 1 /\ skbs[EntryAt(k)].count = 0
           /\ page[EntryAt(k)].order = order
<1>1. TypeOK /\ HeadValid /\ PageRefs /\ ListedOrder
  BY DEF PoolInv
<1>2. EntryAt(k) \in Listed \cup {ListHead}
  BY <1>1, EntryShape
<1>3. EntryAt(k) \in Pages /\ page[EntryAt(k)].ref = 1
  BY DEF Reusable
<1>4. EntryAt(k) \in Listed
  BY <1>2, <1>3, PagesAssumption
<1>5. skbs[EntryAt(k)].count \in Nat
  BY <1>1, <1>3 DEF TypeOK
<1> QED
  BY <1>1, <1>3, <1>4, <1>5 DEF PageRefs, ListedOrder

-----------------------------------------------------------------------------
(* An aggregate is built on page p.                                        *)

LEMMA BuiltInv ==
    ASSUME PoolInv, NEW p \in Pages, NEW ref \in Nat, Built(p, ref, order),
           skbs[p].count = 0, ref = 1 + (IF p \in Listed THEN 1 ELSE 0),
           agg_head' \in Pages \cup {NULL, ListHead}, HeadValid',
           UNCHANGED <<agg_list, order, agg_size, recycle, raw>>
    PROVE  PoolInv'
<1> DEFINE room == PageSize * 2^order - Overhead
<1>0. /\ TypeOK /\ PageRefs /\ PageExclusive /\ ListedOrder /\ BufferFits
      /\ SizeIsRoom
  BY DEF PoolInv
<1>1. order \in 0 .. 16 /\ room \in Int
  BY <1>0, BlockNat, SizesShape DEF TypeOK
<1>2. /\ page' = [page EXCEPT ![p] = [ref |-> ref, order |-> order]]
      /\ skbs' = [skbs EXCEPT ![p] = [count |-> skbs[p].count + 1, room |-> room]]
  BY <1>0 DEF Built, TypeOK
<1> HIDE DEF room
<1>3. /\ page'[p].ref = ref /\ page'[p].order = order
      /\ skbs'[p].count = 1 /\ skbs'[p].room = room
      /\ \A q \in Pages : q # p => page'[q] = page[q] /\ skbs'[q] = skbs[q]
  BY <1>0, <1>2 DEF TypeOK
<1>4. Listed' = Listed
  BY DEF Listed
<1>5. TypeOK'
  BY <1>0, <1>1, <1>2 DEF TypeOK
<1>6. PageRefs'
  BY <1>0, <1>3, <1>4 DEF PageRefs
<1>7. PageExclusive'
  BY <1>0, <1>3 DEF PageExclusive
<1>8. ListedOrder'
  BY <1>0, <1>3, <1>4, ListedShape DEF ListedOrder
<1>9. BufferFits'
  <2>1. room <= PageSize * 2^order - Overhead
    BY <1>1 DEF room
  <2> QED
    BY <1>0, <1>3, <2>1 DEF BufferFits
<1>10. SizeIsRoom'
  BY <1>0 DEF SizeIsRoom
<1> QED
  BY <1>5, <1>6, <1>7, <1>8, <1>9, <1>10 DEF PoolInv

\* Where agg_head goes
LEMMA HeadMoves ==
    ASSUME TypeOK, HeadValid, agg_list' = agg_list,
           \/ agg_head' = agg_head
           \/ agg_head # NULL /\ \E k \in Nat : agg_head' = EntryAt(k)
    PROVE  agg_head' \in Pages \cup {NULL, ListHead} /\ HeadValid'
<1>1. Listed' = Listed /\ Listed \subseteq Pages
  BY ListedShape DEF Listed
<1>2. CASE agg_head' = agg_head
  BY <1>1, <1>2 DEF HeadValid, TypeOK
<1>3. CASE agg_head # NULL /\ \E k \in Nat : agg_head' = EntryAt(k)
  <2>1. agg_list # <<>> /\ agg_head' \in Listed \cup {ListHead}
    BY <1>3, EntryShape
  <2> QED
    BY <1>1, <2>1 DEF HeadValid
<1> QED
  BY <1>2, <1>3

LEMMA TriesNat == MaxTries \in Nat /\ \A k \in 0 .. MaxTries - 1 : k \in Nat /\ k + 1 \in Nat
BY PagesAssumption

LEMMA RecycledInv ==
    ASSUME PoolInv, BuildOnRecycled
    PROVE  PoolInv'
<1>0. TypeOK /\ HeadValid
  BY DEF PoolInv
<1>1. PICK k \in 0 .. MaxTries - 1 :
        /\ Reusable(EntryAt(k)) /\ agg_head' = EntryAt(k + 1)
        /\ Built(EntryAt(k), page[EntryAt(k)].ref + 1, page[EntryAt(k)].order)
  BY DEF BuildOnRecycled
<1>2. agg_head # NULL /\ UNCHANGED <<agg_list, order, agg_size, recycle, raw>>
  BY DEF BuildOnRecycled
<1>3. k \in Nat /\ k + 1 \in Nat
  BY TriesNat
<1>4. /\ EntryAt(k) \in Listed /\ EntryAt(k) \in Pages
      /\ page[EntryAt(k)].ref = 1 /\ skbs[EntryAt(k)].count = 0
      /\ page[EntryAt(k)].order = order
  BY <1>1, <1>2, <1>3, ReusableShape
<1>5. agg_head' \in Pages \cup {NULL, ListHead} /\ HeadValid'
  BY <1>0, <1>1, <1>2, <1>3, HeadMoves
<1>6. Built(EntryAt(k), 2, order)
  BY <1>1, <1>4
<1> QED
  BY <1>2, <1>4, <1>5, <1>6, BuiltInv

LEMMA SearchHead ==
    ASSUME PoolInv, SearchFails, agg_list' = agg_list
    PROVE  agg_head' \in Pages \cup {NULL, ListHead} /\ HeadValid'
<1>1. \/ agg_head' = agg_head
      \/ agg_head # NULL /\ \E k \in Nat : agg_head' = EntryAt(k)
  BY TriesNat DEF SearchFails
<1> QED
  BY <1>1, HeadMoves DEF PoolInv

LEMMA NewInv ==
    ASSUME PoolInv, BuildOnNew
    PROVE  PoolInv'
<1>1. PICK p \in Unused : Built(p, 1, order)
  BY DEF BuildOnNew
<1>2. SearchFails /\ UNCHANGED <<agg_list, order, agg_size, recycle, raw>>
  BY DEF BuildOnNew
<1>3. agg_head' \in Pages \cup {NULL, ListHead} /\ HeadValid'
  BY <1>2, SearchHead
<1>4. p \in Pages /\ page[p].ref = 0 /\ skbs[p].count \in Nat
  BY <1>1 DEF Unused, PoolInv, TypeOK
<1>5. p \notin Listed /\ skbs[p].count = 0
  BY <1>4 DEF PoolInv, PageRefs
<1> QED
  BY <1>1, <1>2, <1>3, <1>4, <1>5, BuiltInv

LEMMA FailsInv ==
    ASSUME PoolInv, BuildFails \/ BuildFailsRecycled
    PROVE  PoolInv'
<1>1. UNCHANGED <<page, skbs, agg_list, order, agg_size, recycle, raw>>
  BY DEF BuildFails, BuildFailsRecycled
<1>2. agg_head' \in Pages \cup {NULL, ListHead} /\ HeadValid'
  BY <1>1, SearchHead, HeadMoves, TriesNat DEF BuildFails, BuildFailsRecycled, PoolInv
<1>3. Listed' = Listed
  BY <1>1 DEF Listed
<1> QED
  BY <1>1, <1>2, <1>3 DEF PoolInv, TypeOK, PageRefs, PageExclusive, ListedOrder,
     BufferFits, SizeIsRoom

LEMMA ConsumeInv ==
    ASSUME PoolInv, NEW p \in Pages, ConsumeSkb(p)
    PROVE  PoolInv'
<1>0. /\ TypeOK /\ PageRefs /\ PageExclusive /\ HeadValid /\ ListedOrder
      /\ BufferFits /\ SizeIsRoom
  BY DEF PoolInv
<1>1. UNCHANGED <<agg_list, agg_head, order, agg_size, recycle, raw>> /\ skbs[p].count > 0
  BY DEF ConsumeSkb
<1>2. /\ page'[p].ref = page[p].ref - 1 /\ page'[p].order = page[p].order
      /\ skbs'[p].count = skbs[p].count - 1 /\ skbs'[p].room = skbs[p].room
      /\ \A q \in Pages : q # p => page'[q] = page[q] /\ skbs'[q] = skbs[q]
  BY <1>0 DEF ConsumeSkb, TypeOK
<1>3. Listed' = Listed
  BY <1>1 DEF Listed
<1>4. /\ page[p].ref \in Nat /\ skbs[p].count \in Nat
      /\ page[p].ref >= skbs[p].count
  <2>1. page[p].ref \in Nat /\ skbs[p].count \in Nat
    BY <1>0 DEF TypeOK
  <2>2. page[p].ref = skbs[p].count + IF p \in Listed THEN 1 ELSE 0
    BY <1>0 DEF PageRefs
  <2> QED
    BY <2>1, <2>2
<1>5. TypeOK'
  <2>1. page[p].ref - 1 \in Nat /\ skbs[p].count - 1 \in Nat
    BY <1>1, <1>4
  <2>2. page' \in [Pages -> [ref : Nat, order : 0 .. 16]]
    BY <1>0, <2>1 DEF TypeOK, ConsumeSkb
  <2>3. skbs' \in [Pages -> [count : Nat, room : Int]]
    BY <1>0, <2>1 DEF TypeOK, ConsumeSkb
  <2> QED
    BY <1>0, <1>1, <2>2, <2>3 DEF TypeOK
<1>6. PageRefs'
  BY <1>0, <1>2, <1>3, <1>4 DEF PageRefs
<1>7. PageExclusive'
  BY <1>0, <1>2, <1>4 DEF PageExclusive
<1>8. HeadValid' /\ SizeIsRoom'
  BY <1>0, <1>1, <1>3 DEF HeadValid, SizeIsRoom
<1>9. ListedOrder'
  BY <1>0, <1>1, <1>2, <1>3, ListedShape DEF ListedOrder
<1>10. BufferFits'
  <2>1. \A q \in Pages : skbs'[q].count > 0 => skbs[q].count > 0
    BY <1>1, <1>2
  <2>2. \A q \in Pages : skbs'[q].room = skbs[q].room /\ page'[q].order = page[q].order
    BY <1>2
  <2> QED
    BY <1>0, <2>1, <2>2 DEF BufferFits
<1> QED
  BY <1>5, <1>6, <1>7, <1>8, <1>9, <1>10 DEF PoolInv

-----------------------------------------------------------------------------
(* The configuration changes: the old list is freed, a new one allocated.  *)

\* An entry of a new list is a block that nothing refers to
LEMMA PoolShape ==
    ASSUME NEW pg, NEW l \in Pools(pg)
    PROVE  l \in Seq({p \in Pages : pg[p].ref = 0})
<1>1. PICK n \in 0 .. PoolSize : l \in [1 .. n -> {p \in Pages : pg[p].ref = 0}]
  BY DEF Pools
<1>2. n \in Nat
  BY PagesAssumption
<1> QED
  BY <1>1, <1>2, SeqDef

\* rmnet_free_agg_pages leaves the references of the aggregates in use
LEMMA FreePagesShape ==
    ASSUME TypeOK, PageRefs, NEW p \in Pages
    PROVE  /\ FreePages[p].ref = skbs[p].count
           /\ FreePages[p].order = page[p].order
           /\ FreePages[p] \in [ref : Nat, order : 0 .. 16]
<1>1. page[p] \in [ref : Nat, order : 0 .. 16] /\ skbs[p].count \in Nat
  BY DEF TypeOK
<1>2. page[p].ref = skbs[p].count + IF p \in Listed THEN 1 ELSE 0
  BY DEF PageRefs
<1>3. FreePages[p] = IF p \in Listed THEN [page[p] EXCEPT !.ref = @ - 1] ELSE page[p]
  BY DEF FreePages
<1>4. CASE p \in Listed
  <2>1. page[p].ref - 1 = skbs[p].count
    BY <1>1, <1>2, <1>4
  <2>2. FreePages[p] = [page[p] EXCEPT !.ref = skbs[p].count]
    BY <1>3, <1>4, <2>1
  <2> QED
    BY <1>1, <2>2
<1>5. CASE p \notin Listed
  BY <1>1, <1>2, <1>3, <1>5
<1> QED
  BY <1>4, <1>5

LEMMA UpdateInv ==
    ASSUME PoolInv, NEW sz \in Sizes, NEW feature \in BOOLEAN,
           UpdateUlAggConfig(sz, feature)
    PROVE  PoolInv'
<1>0. /\ TypeOK /\ PageRefs /\ PageExclusive /\ BufferFits
  BY DEF PoolInv
<1>1. PICK l \in (IF sz < PageSize \/ ~feature THEN {<<>>} ELSE Pools(FreePages)) :
        /\ agg_list' = l
        /\ agg_head' = IF l = <<>> THEN NULL ELSE l[1]
        /\ page' = [p \in Pages |-> IF \E i \in 1 .. Len(l) : l[i] = p
                                    THEN [ref |-> 1, order |-> order']
                                    ELSE FreePages[p]]
  BY DEF UpdateUlAggConfig
<1>2. /\ recycle' = feature /\ raw' = FALSE /\ agg_size' = ConfigSize(sz) /\ skbs' = skbs
      /\ order' = IF sz < PageSize THEN order ELSE GetOrder(sz)
  BY DEF UpdateUlAggConfig
<1>3. l \in Seq({p \in Pages : FreePages[p].ref = 0})
  <2>1. CASE l = <<>>
    BY <2>1, EmptySeq
  <2>2. CASE l \in Pools(FreePages)
    BY <2>2, PoolShape
  <2> QED
    BY <2>1, <2>2
<1>4. l \in Seq(Pages) /\ Listed' = {l[i] : i \in 1 .. Len(l)}
  BY <1>1, <1>3 DEF Listed
<1>5. \A p \in Pages : p \in Listed' => skbs[p].count = 0
  BY <1>0, <1>3, <1>4, FreePagesShape
<1>6. order' \in 0 .. 16
  <2>1. sz \in 0 .. U16 - 1
    BY PagesAssumption
  <2> QED
    BY <1>0, <1>2, <2>1, GetOrderShape DEF TypeOK
<1>7. \A p \in Pages : page'[p] = IF p \in Listed' THEN [ref |-> 1, order |-> order']
                                                   ELSE FreePages[p]
  BY <1>1, <1>4
<1>8. TypeOK'
  <2>1. \A p \in Pages : page'[p] \in [ref : Nat, order : 0 .. 16]
    BY <1>0, <1>6, <1>7, FreePagesShape
  <2>2. page' \in [Pages -> [ref : Nat, order : 0 .. 16]]
    BY <1>1, <2>1
  <2>3. agg_head' \in Pages \cup {NULL, ListHead}
    BY <1>1, <1>4
  <2>4. agg_size' \in 0 .. U16 - 1
    BY <1>2, ConfigSizeShape
  <2> QED
    BY <1>0, <1>1, <1>2, <1>4, <1>6, <2>2, <2>3, <2>4 DEF TypeOK
<1>9. PageRefs'
  <2>1. ASSUME NEW p \in Pages
        PROVE  page'[p].ref = skbs[p].count + IF p \in Listed' THEN 1 ELSE 0
    <3>1. skbs[p].count \in Nat /\ FreePages[p].ref = skbs[p].count
      BY <1>0, FreePagesShape DEF TypeOK
    <3>2. CASE p \in Listed'
      BY <1>5, <1>7, <3>2
    <3>3. CASE p \notin Listed'
      BY <1>7, <3>1, <3>3
    <3> QED
      BY <3>2, <3>3
  <2> QED
    BY <1>2, <2>1 DEF PageRefs
<1>10. PageExclusive'
  BY <1>0, <1>2 DEF PageExclusive
<1>11. HeadValid'
  BY <1>1, <1>4 DEF HeadValid
<1>12. ListedOrder'
  BY <1>4, <1>7 DEF ListedOrder
<1>13. BufferFits'
  <2>1. ASSUME NEW p \in Pages, skbs[p].count > 0
        PROVE  page'[p].order = page[p].order
    BY <1>0, <1>5, <1>7, <2>1, FreePagesShape
  <2> QED
    BY <1>0, <1>2, <2>1 DEF BufferFits
<1>14. SizeIsRoom'
  <2>1. CASE sz < PageSize
    <3>1. agg_size' = sz /\ sz \in Nat
      BY <1>2, <2>1, ConfigSizeShape, PagesAssumption
    <3>2. PageSize \in Nat
      BY SizesShape
    <3>3. ~(agg_size' >= PageSize)
      BY <2>1, <3>1, <3>2
    <3> QED
      BY <3>3 DEF SizeIsRoom
  <2>2. CASE ~(sz < PageSize)
    <3>1. agg_size' = PageSize * 2^GetOrder(sz) - Overhead /\ order' = GetOrder(sz)
      BY <1>2, <2>2, ConfigSizeShape
    <3> QED
      BY <3>1 DEF SizeIsRoom
  <2> QED
    BY <2>1, <2>2
<1> QED
  BY <1>8, <1>9, <1>10, <1>11, <1>12, <1>13, <1>14 DEF PoolInv

\* rmnet_newlink writes only agg_size and the features
LEMMA NewlinkInv ==
    ASSUME PoolInv, NEW sz \in Sizes, NEW feature \in BOOLEAN,
           NewlinkAggParams(sz, feature)
    PROVE  PoolInv'
<1>1. /\ UNCHANGED <<page, agg_list, agg_head, order, skbs>>
      /\ agg_size' = sz /\ recycle' = feature /\ raw' = TRUE
  BY DEF NewlinkAggParams
<1>2. Listed' = Listed
  BY <1>1 DEF Listed
<1>3. sz \in 0 .. U16 - 1
  BY PagesAssumption
<1>4. TypeOK'
  BY <1>1, <1>3 DEF PoolInv, TypeOK
<1>5. SizeIsRoom'
  BY <1>1 DEF SizeIsRoom
<1> QED
  BY <1>1, <1>2, <1>4, <1>5 DEF PoolInv, PageRefs, PageExclusive, HeadValid,
     ListedOrder, BufferFits

-----------------------------------------------------------------------------
(* The theorems.                                                           *)

LEMMA InitInv == Init => PoolInv
<1> SUFFICES ASSUME Init PROVE PoolInv
  OBVIOUS
<1>1. TypeOK
  <2>1. agg_list \in Seq(Pages)
    BY EmptySeq DEF Init
  <2>2. page \in [Pages -> [ref : Nat, order : 0 .. 16]]
    BY DEF Init
  <2>3. skbs \in [Pages -> [count : Nat, room : Int]]
    BY DEF Init
  <2>4. agg_size \in 0 .. U16 - 1
    BY SizesShape DEF Init
  <2>5. agg_head \in Pages \cup {NULL, ListHead}
    BY DEF Init
  <2>6. order \in 0 .. 16
    BY DEF Init
  <2>7. recycle \in BOOLEAN /\ raw \in BOOLEAN
    BY DEF Init
  <2> QED
    BY <2>1, <2>2, <2>3, <2>4, <2>5, <2>6, <2>7 DEF TypeOK
<1>2. PageRefs /\ PageExclusive /\ HeadValid /\ ListedOrder /\ BufferFits
  BY DEF Init, PageRefs, PageExclusive, HeadValid, ListedOrder, BufferFits, Listed
<1>3. SizeIsRoom
  BY SizesShape DEF Init, SizeIsRoom
<1> QED
  BY <1>1, <1>2, <1>3 DEF PoolInv

LEMMA NextInv == PoolInv /\ [Next]_vars => PoolInv'
<1> SUFFICES ASSUME PoolInv, [Next]_vars PROVE PoolInv'
  OBVIOUS
<1>1. CASE \E sz \in Sizes, feature \in BOOLEAN : UpdateUlAggConfig(sz, feature)
  BY <1>1, UpdateInv
<1>2. CASE BuildOnRecycled
  BY <1>2, RecycledInv
<1>3. CASE BuildOnNew
  BY <1>3, NewInv
<1>4. CASE BuildFails \/ BuildFailsRecycled
  BY <1>4, FailsInv
<1>5. CASE \E p \in Pages : ConsumeSkb(p)
  BY <1>5, ConsumeInv
<1>6. CASE \E sz \in Sizes, feature \in BOOLEAN : NewlinkAggParams(sz, feature)
  BY <1>6, NewlinkInv
<1>7. CASE UNCHANGED vars
  BY <1>7 DEF vars, PoolInv, TypeOK, PageRefs, PageExclusive, HeadValid,
     ListedOrder, BufferFits, SizeIsRoom, Listed
<1> QED
  BY <1>1, <1>2, <1>3, <1>4, <1>5, <1>6, <1>7 DEF Next

LEMMA PoolInvariant == Spec => []PoolInv
BY InitInv, NextInv, PTL DEF Spec

\* The page pool of uplink aggregation (rmnet_get_agg_pages,
\* rmnet_alloc_agg_pages, rmnet_free_agg_pages): for every size of the pool and
\* however configuration changes, aggregates and frees by the device follow
\* each other, every page reference is held by the list or by an aggregate, no
\* page carries two aggregates and agg_head points into the present list.
THEOREM PoolSafe == Spec => []PoolSound
<1>1. PoolInv => PoolSound
  BY DEF PoolInv, PoolSound
<1> QED
  BY <1>1, PoolInvariant, PTL

\* rmnet_map_update_ul_agg_config, rmnet_newlink and rmnet_map_build_skb, for
\* every page size and overhead: an agg_size that was computed never wraps and,
\* from a page on, is the room of a block of the current order, whatever sizes
\* rmnet_newlink copied in before; no aggregate believes in more room than its
\* block has, also when the order changes while it is in use.
THEOREM RoomSafe == Spec => []RoomSound
<1>1. PoolInv => RoomSound
  BY DEF PoolInv, RoomSound
<1> QED
  BY <1>1, PoolInvariant, PTL

=============================================================================
