------------------------------ MODULE FragData ------------------------------
(***************************************************************************)
(* The bytes of a received packet, as a fragment descriptor holds them     *)
(* (rmnet_descriptor.c): a list of fragments, each a range of a page.  The *)
(* operators take the list a function of the source walks and return the   *)
(* list it leaves behind.  Lengths are small numbers that keep the order   *)
(* of the real ones.                                                       *)
(***************************************************************************)
EXTENDS Integers, Sequences, FiniteSets, FiniteSetsExt

\* struct rmnet_fragment, and the ranges of a set of pages
Frag(page, off, size) == [page |-> page, off |-> off, size |-> size]
Fragments(pages) == [page : pages, off : Nat, size : Nat]

\* The bytes up to the end of every fragment of the list
Ends(frags) ==
    LET end[i \in 0 .. Len(frags)] ==
            IF i = 0 THEN 0 ELSE end[i - 1] + frags[i].size
    IN  end

\* frag_desc->len, which every function below keeps equal to the sum
FragsLen(frags) == Ends(frags)[Len(frags)]

\* Where the loop of rmnet_frag_pull stops: the first fragment that is longer
\* than the bytes left to pull when it gets there, or the end of the list
PullTo(frags, size) ==
    LET left == [i \in 1 .. Len(frags) |-> size - Ends(frags)[i - 1]]
    IN  Min({i \in 1 .. Len(frags) : left[i] = 0 \/ left[i] < frags[i].size}
            \cup {Len(frags) + 1})

\* Mutant: a fragment that loses its head keeps its offset
PullKeepsOffset(frags, size) ==
    LET k == PullTo(frags, size)
        f == frags[k]
        left == size - Ends(frags)[k - 1]
    IN  IF k > Len(frags) THEN <<>>
        ELSE <<Frag(f.page, f.off, f.size - left)>>
             \o SubSeq(frags, k + 1, Len(frags))

\* rmnet_frag_pull: whole fragments go first, the next one loses its head.
\* Pulling all of a descriptor recycles it; its caller says so.
Pull(frags, size) ==
    LET k == PullTo(frags, size)
        f == frags[k]
        left == size - Ends(frags)[k - 1]
    IN  IF k > Len(frags) THEN <<>>
        ELSE <<Frag(f.page, f.off + left, f.size - left)>>
             \o SubSeq(frags, k + 1, Len(frags))

\* The loop of rmnet_frag_trim, which eats bytes from the last fragment on
\* and stops at one that is longer than what is left to eat
Chop(frags, eat) ==
    LET left == [i \in 1 .. Len(frags) |->
                    eat - (FragsLen(frags) - Ends(frags)[i])]
        k == Max({i \in 1 .. Len(frags) :
                     left[i] = 0 \/ left[i] < frags[i].size} \cup {0})
    IN  IF k = 0 THEN <<>>
        ELSE Append(SubSeq(frags, 1, k - 1),
                    [frags[k] EXCEPT !.size = @ - left[k]])

\* rmnet_frag_trim of a size that is not 0
Trim(frags, size) ==
    IF size >= FragsLen(frags)
    THEN frags
    ELSE Chop(frags, FragsLen(frags) - size)

\* Whether rmnet_frag_copy_data has off .. off + len - 1 to copy
CanCopy(frags, off, len) == off + len <= FragsLen(frags)

\* Whether rmnet_frag_header_ptr returns a header, in place or copied
HeaderPtr(frags, off, len) == CanCopy(frags, off, len)

\* The loop of rmnet_frag_descriptor_add_frags_from: it skips the fragments
\* before off and adds what it needs of each one until it has len bytes
Ranges(from, off, len) ==
    LET end == Ends(from)
        all == 1 .. Len(from)
        first == Min({i \in all : off < end[i]} \cup {Len(from) + 1})
        last == IF len = 0 THEN 0
                ELSE Min({i \in all : off + len <= end[i]} \cup {Len(from)})
        lo(i) == IF i = first THEN off - end[i - 1] ELSE 0
        hi(i) == IF off + len < end[i] THEN off + len - end[i - 1]
                 ELSE from[i].size
    IN  [j \in 1 .. last - first + 1 |->
            LET i == first + j - 1
            IN  Frag(from[i].page, from[i].off + lo(i), hi(i) - lo(i))]

\* rmnet_frag_descriptor_add_frags_from, once the lengths are checked
AddFragsFrom(to, from, off, len) == to \o Ranges(from, off, len)

\* Every extension header is as long as the shortest one
ExtLen == 1

ExtHdrs == {"opt", "none", "frag", "more", "atomic"}

\* rmnet_frag_ipv6_skip_exthdr over the extension headers exts of a packet:
\* where the transport header starts (-1 for -EINVAL) and whether *fragp is
\* not 0.  A fragment header is "frag" when it has an offset, "more" when it
\* only says that fragments follow and "atomic" when it says neither; the
\* last one counts.  The loop stops at header k.
SkipExtHdr(frags, start, exts) ==
    LET at(i) == start + ExtLen * (i - 1)
        k == Min({i \in 1 .. Len(exts) :
                     \/ exts[i] \in {"none", "frag"}
                     \/ ~HeaderPtr(frags, at(i), ExtLen)} \cup {Len(exts) + 1})
        marks == {i \in 1 .. k - 1 : exts[i] \in {"more", "atomic"}}
        fragp == marks # {} /\ exts[Max(marks)] = "more"
    IN  IF k > Len(exts) THEN [len |-> at(k), fragp |-> fragp]
        ELSE IF exts[k] = "frag" /\ HeaderPtr(frags, at(k), ExtLen)
        THEN [len |-> at(k), fragp |-> TRUE]
        ELSE [len |-> -1, fragp |-> fragp]

-----------------------------------------------------------------------------
(* What the lists stand for.                                               *)

\* The bytes a list of fragments holds, each named by its page and offset
Bytes(frags) ==
    [b \in 1 .. FragsLen(frags) |->
        LET k == Min({i \in 1 .. Len(frags) : b <= Ends(frags)[i]})
        IN  <<frags[k].page, frags[k].off + b - 1 - Ends(frags)[k - 1]>>]

\* The places of a list of lists of fragments that hold a reference to the
\* page, and how many there are
PageUses(lists, page) ==
    UNION {{<<i, j>> : j \in {k \in 1 .. Len(lists[i]) :
                                 lists[i][k].page = page}} :
              i \in 1 .. Len(lists)}

PageSum(lists, page) == Cardinality(PageUses(lists, page))
=============================================================================
