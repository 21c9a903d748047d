------------------------------ MODULE Ingress ------------------------------
(***************************************************************************)
(* The downlink path of a port: aggregated buffers from the hardware are   *)
(* taken apart into packets, and the packets are handed to the network     *)
(* stack.  Buffers in pages go through fragment descriptors                *)
(* (rmnet_descriptor.c), which come from a pool that all receive contexts  *)
(* share and hold references to the pages; linear buffers are copied       *)
(* (rmnet_handlers.c, rmnet_map_data.c).  Each context runs the code of    *)
(* one NAPI poll; the actions of different contexts interleave.            *)
(*                                                                         *)
(* A packet is a record: cd, cmd, mux, len (pkt_len), pad, next (next_hdr),*)
(* type ("none", "csum" or "coal"), csum (the valid bit of the checksum    *)
(* header or trailer), and ip and coal as in Coalesce.  A buffer is        *)
(* [linear, frags, pkts].                                                  *)
(***************************************************************************)
EXTENDS Coalesce

CONSTANTS
    Ctx,         \* receive contexts
    Desc,        \* fragment descriptors that memory has room for
    PoolSize,    \* RMNET_FRAG_DESCRIPTOR_POOL_SIZE (64)
    MaxPages,    \* pages of a chain of buffers
    Chains,      \* the chains of buffers a context may receive: a sequence
                 \* for every context and format
    Formats,     \* port->data_format
    Features,    \* features of the devices
    Muxes,       \* mux ids with an endpoint
    CsumLen,     \* sizeof(struct rmnet_map_v5_csum_header)
    TrailerLen,  \* sizeof(struct rmnet_map_dl_csum_trailer)
    CmdLen,      \* sizeof(struct rmnet_map_control_command_header)
    IndLen,      \* sizeof(struct rmnet_map_dl_ind_hdr), or of the trailer
    MaxSkbFrags, \* MAX_SKB_FRAGS
    FailSets,    \* which segment allocations of a frame fail
    NULL

ASSUME IngressAssumption ==
    /\ PoolSize \in 1 .. Cardinality(Desc)
    /\ CsumLen \in Nat \ {0} /\ CsumLen <= CoalLen
    /\ TrailerLen \in Nat \ {0} /\ CmdLen \in Nat \ {0}
    /\ IndLen \in Nat \ {0} /\ MaxSkbFrags \in Nat \ {0}
    /\ IsFiniteSet(Ctx) /\ IsFiniteSet(Desc)
    /\ {} \in FailSets
    /\ \A f \in Formats : f.v4 => ~f.v5 /\ ~f.coal

Pages == Ctx \X (1 .. MaxPages)

VARIABLES
    format,    \* port->data_format and the features of the devices
    free,      \* port->frag_desc_pool->free_list
    pool_size, \* of the pool
    up,        \* the pool exists
    desc,      \* contents of the descriptors
    alive,     \* descriptors that kzalloc returned and kfree has not had
    refs,      \* reference count of every page
    ctx,       \* what each context is doing
    stack,     \* packets of each context that the stack has not freed
    stopped,   \* devices whose queue a MAP command stopped
    mark,      \* the last downlink marker counted in port->stats
    lost,      \* history: descriptors nothing points to any more
    runt,      \* history: a buffer ended in the middle of a v5 header
    hollow,    \* history: a packet had nothing but headers or padding
    clash      \* a descriptor was recycled under its new owner

poolVars == <<free, pool_size, up, alive>>
ghosts == <<lost, runt, hollow>>
vars == <<format, poolVars, desc, refs, ctx, stack, stopped, mark, ghosts,
          clash>>

V5(f) == f.v5 \/ f.coal

\* A descriptor as kzalloc and memset leave it.  nth is the place of its
\* packet in the buffer, hdr the length of the headers if hdrs_valid is set
\* and seg the offset and length of the data it has of a coalesced frame.
Blank == [frags |-> <<>>, nth |-> 0, hdr |-> 0, valid |-> FALSE,
          seg |-> NULL]

\* A context between two polls.  In one it works on buffer buf of a chain,
\* rest being what is left of it after nth packets.
Idle == [pc |-> "idle", chain |-> 0, buf |-> 0, rest |-> <<>>, nth |-> 0,
         list |-> <<>>, segs |-> <<>>, again |-> NULL]

\* The chains and the sets of failing allocations, as definitions of this
\* module that TLC evaluates once
Received == Chains
Failing == FailSets

ChainOf(c) == Received[c][format.flags.name][ctx[c].chain]
Buffer(c) == ChainOf(c)[ctx[c].buf]
PktOf(c, d) == Buffer(c).pkts[desc[d].nth]

\* The lists that hold each descriptor of D once
Orders(D) ==
    {q \in [1 .. Cardinality(D) -> D] : \A d \in D : \E i \in DOMAIN q : q[i] = d}

Init ==
    /\ format \in [flags : Formats, features : Features]
    /\ alive \in {D \in SUBSET Desc : Cardinality(D) = PoolSize}
    /\ free \in Orders(alive) /\ pool_size = PoolSize /\ up = TRUE
    /\ desc = [d \in Desc |-> Blank]
    /\ refs = [g \in Pages |-> 0]
    /\ ctx = [c \in Ctx |-> Idle]
    /\ stack = [c \in Ctx |-> <<>>]
    /\ stopped = {} /\ mark = NULL
    /\ lost = {} /\ runt = FALSE /\ hollow = FALSE /\ clash = FALSE

TypeOK ==
    /\ format.flags \in Formats /\ format.features \in Features
    /\ free \in Seq(alive) /\ alive \subseteq Desc /\ lost \subseteq alive
    /\ pool_size \in Nat
    /\ refs \in [Pages -> Int]
    /\ desc \in [Desc -> [frags : Seq(Fragments(Pages)), nth : Nat, hdr : Nat,
                         valid : BOOLEAN, seg : {NULL} \cup (Nat \X Int)]]
    /\ ctx \in [Ctx -> [pc : {"idle", "deaggregate", "handle", "deliver", "again",
                             "linear"},
                       chain : Nat, buf : Nat, rest : Seq(Fragments(Pages)),
                       nth : Nat, list : Seq(alive), segs : Seq(alive),
                       again : alive \cup {NULL}]]
    /\ stopped \subseteq Muxes /\ mark \in {NULL, "start", "end"}
    /\ {up, runt, hollow, clash} \subseteq BOOLEAN

-----------------------------------------------------------------------------
(* Pages and descriptors.                                                  *)

\* A reference more, or less, to the page of every fragment of the lists
GetPages(r, lists) == [g \in DOMAIN r |-> r[g] + PageSum(lists, g)]
PutPages(r, lists) == [g \in DOMAIN r |-> r[g] - PageSum(lists, g)]

\* The fragments in the pages of the packets of a list
HeldBy(list) == [i \in 1 .. Len(list) |-> list[i].held]

\* The fragments of the elements of a list
FragsOf(list) == [i \in 1 .. Len(list) |-> list[i].frags]

\* The k descriptors that rmnet_get_frag_descriptor returns in a row: the
\* first ones of the free list, then new ones
Taken(k) ==
    {q \in [1 .. k -> Desc] :
        /\ \A i, j \in 1 .. k : q[i] = q[j] => i = j
        /\ \A i \in 1 .. k : IF i <= Len(free) THEN q[i] = free[i]
                             ELSE q[i] \in Desc \ alive}

\* The pool without them
GotDescriptors(q) ==
    LET new == {q[i] : i \in 1 .. Len(q)} \ alive
    IN  /\ free' = SubSeq(free, Len(q) + 1, Len(free))
        /\ alive' = alive \cup new
        /\ pool_size' = pool_size + Cardinality(new)
        /\ UNCHANGED up

\* The descriptors, with q[i] holding contents[i]
Filled(all, q, contents) ==
    [d \in DOMAIN all |->
        IF \E i \in 1 .. Len(q) : q[i] = d
        THEN contents[CHOOSE i \in 1 .. Len(q) : q[i] = d] ELSE all[d]]

\* list_del and list_add_tail of a descriptor, on the list or not
ToTail(list, d) ==
    IF \E i \in 1 .. Len(list) : list[i] = d
    THEN LET i == CHOOSE k \in 1 .. Len(list) : list[k] = d
         IN  SubSeq(list, 1, i - 1) \o SubSeq(list, i + 1, Len(list)) \o <<d>>
    ELSE Append(list, d)

\* rmnet_recycle_frag_descriptor
Recycle(d) ==
    /\ free' = ToTail(free, d)
    /\ desc' = [desc EXCEPT ![d] = Blank]
    /\ refs' = PutPages(refs, <<desc[d].frags>>)
    /\ UNCHANGED <<pool_size, up, alive>>

-----------------------------------------------------------------------------
(* What the hardware sends.                                                *)

\* How many bytes the hardware uses for a packet, and where packet k starts
HwHdr(f, p) ==
    MapLen + CASE p.cd -> 0
               [] ~p.cd /\ p.type = "csum" -> CsumLen
               [] ~p.cd /\ p.type = "coal" -> CoalLen
               [] OTHER -> 0

HwLen(f, p) == HwHdr(f, p) + p.len + IF f.v4 THEN TrailerLen ELSE 0

Start(f, pkts, k) ==
    LET start[i \in 1 .. Len(pkts) + 1] ==
            IF i = 1 THEN 0 ELSE start[i - 1] + HwLen(f, pkts[i - 1])
    IN  start[k]

\* The bytes a packet of a buffer, or a segment of it, should arrive with
Want(f, buf, k, seg) ==
    LET p == buf.pkts[k]
        from == Start(f, buf.pkts, k) + HwHdr(f, p)
        Slice(off, len) == Bytes(Ranges(buf.frags, from + off, len))
    IN  IF seg = NULL THEN Slice(0, p.len - p.pad)
        ELSE Slice(0, p.ip.len + p.ip.tlen)
             \o Slice(p.ip.len + p.ip.tlen + seg[1], seg[2])

\* The last buffer of a chain ends before the byte that tells which header follows
Runt(f, chain) ==
    LET buf == chain[Len(chain)]
    IN  /\ V5(f) /\ ~chain[1].linear
        /\ \E k \in 1 .. Len(buf.pkts) :
               /\ ~buf.pkts[k].cd
               /\ FragsLen(buf.frags) = Start(f, buf.pkts, k) + MapLen

\* A v5 packet has only padding, or headers that say they are longer than it
Hollow(f, p) ==
    /\ V5(f) /\ ~p.cd /\ p.next
    /\ \/ p.type = "csum" /\ p.pad = p.len
       \/ p.type = "coal" /\ HdrLen(p.ip) > p.len

\* A chain of buffers reaches rmnet_rx_handler and rmnet_map_ingress_handler
Receive(c, n) ==
    /\ up /\ ctx[c].pc = "idle" /\ stack[c] = <<>>
    /\ LET f == format.flags
           chain == Received[c][f.name][n]
           frag == V5(f) /\ ~chain[1].linear
       IN  /\ ctx' = [ctx EXCEPT ![c] =
                  [Idle EXCEPT !.pc = IF frag THEN "deaggregate" ELSE "linear",
                               !.chain = n, !.buf = 1,
                               !.rest = chain[1].frags]]
           /\ refs' = GetPages(refs, FragsOf(chain))
           /\ runt' = (runt \/ Runt(f, chain))
           /\ hollow' = (hollow \/ \E i \in 1 .. Len(chain) :
                  \E k \in 1 .. Len(chain[i].pkts) :
                      Hollow(f, chain[i].pkts[k]))
    /\ UNCHANGED <<format, poolVars, desc, stack, stopped, mark, lost, clash>>

-----------------------------------------------------------------------------
(* Deaggregation into descriptors.                                         *)

\* The length rmnet_frag_deaggregate_one computes for a packet
WireLen(f, p) ==
    MapLen + p.len +
    CASE f.v4 -> TrailerLen
      [] ~f.v4 /\ V5(f) /\ ~p.cd /\ p.type = "coal" -> CoalLen
      [] ~f.v4 /\ V5(f) /\ ~p.cd /\ p.type = "csum" -> CsumLen
      [] OTHER -> 0

StopDeaggregation(c) == ctx' = [ctx EXCEPT ![c].pc = "handle"]

\* rmnet_frag_deaggregate returns: nothing is left, the rest is no MAP
\* header, the packet is empty, or there is no descriptor for it.
DeaggregateEnd(c) ==
    /\ ctx[c].pc = "deaggregate"
    /\ \/ FragsLen(ctx[c].rest) < MapLen
       \/ /\ FragsLen(ctx[c].rest) >= MapLen
          /\ \/ Buffer(c).pkts[ctx[c].nth + 1].len = 0
             \/ free = <<>>
    /\ StopDeaggregation(c)
    /\ UNCHANGED <<format, poolVars, desc, refs, stack, stopped, mark, ghosts,
                   clash>>

\* rmnet_frag_deaggregate_one for the next packet, with descriptor d.  The
\* type of the next header is read with skb_copy_bits, which goes on into the
\* next buffer of the chain if this one is at its end.
DeaggregateOne(c, d) ==
    LET x == ctx[c]
        left == FragsLen(x.rest)
        p == Buffer(c).pkts[x.nth + 1]
        f == format.flags
        want == WireLen(f, p)
        frags == Ranges(x.rest, 0, want)
        noType == /\ ~f.v4 /\ V5(f) /\ ~p.cd /\ left < MapLen + 1
                  /\ x.buf = Len(ChainOf(c))
    IN  /\ x.pc = "deaggregate"
        /\ left >= MapLen /\ p.len # 0
        /\ <<d>> \in Taken(1)
        /\ \/ \* The type of the next header cannot be read: d is forgotten
              /\ noType
              /\ GotDescriptors(<<d>>)
              /\ lost' = lost \cup {d}
              /\ StopDeaggregation(c)
              /\ UNCHANGED <<desc, refs>>
           \/ \* The packet is cut off, or a fragment cannot be allocated: d
              \* goes back with the pages it had
              /\ ~noType
              /\ free' = ToTail(free, d)
              /\ alive' = alive \cup {d}
              /\ pool_size' = IF d \in alive THEN pool_size ELSE pool_size + 1
              /\ StopDeaggregation(c)
              /\ UNCHANGED <<up, desc, refs, lost>>
           \/ /\ want <= left
              /\ GotDescriptors(<<d>>)
              /\ desc' = [desc EXCEPT ![d] =
                     [Blank EXCEPT !.frags = frags, !.nth = x.nth + 1]]
              /\ refs' = GetPages(refs, <<frags>>)
              /\ ctx' = [ctx EXCEPT ![c].rest = Pull(@, want),
                                    ![c].nth = @ + 1,
                                    ![c].list = Append(@, d)]
              /\ UNCHANGED lost
        /\ UNCHANGED <<format, stack, stopped, mark, runt, hollow, clash>>

-----------------------------------------------------------------------------
(* __rmnet_frag_ingress_handler for the first descriptor of the list.      *)

Handling(c) == ctx[c].pc = "handle" /\ ctx[c].list # <<>>

Current(c) == Head(ctx[c].list)

\* u16 len of the handlers
DataLen(p) == (p.len - p.pad) % U16

\* The packet has a v5 header that the port's format makes it look at
HasNextHdr(p) == p.next /\ V5(format.flags)

\* The packet is for an endpoint of the port
ForUs(p) == ~p.cd /\ p.mux \in Muxes

NextPacket(c) == ctx' = [ctx EXCEPT ![c].list = Tail(@)]

\* The segments of the packet go to rmnet_frag_deliver one by one
DeliverNext(c, segs) ==
    ctx' = [ctx EXCEPT ![c].list = Tail(@), ![c].segs = segs,
                       ![c].pc = IF segs = <<>> THEN "handle" ELSE "deliver"]

\* The descriptor was recycled where the caller recycles it again
TwiceRecycled(c, d) ==
    ctx' = [ctx EXCEPT ![c].list = Tail(@), ![c].again = d,
                       ![c].pc = "again"]

\* rmnet_frag_flow_command and rmnet_frag_command, avail bytes from the MAP
\* header on; a port that counts markers looks at no other command
FragCommand(p, avail) ==
    LET f == format.flags
        marked == /\ p.cmd \in {"start", "end"}
                  /\ DataLen(p) + MapLen >= MapLen + CmdLen + IndLen
                  /\ avail >= MapLen + CmdLen + IndLen
        queue == /\ ~f.marker /\ f.cmds /\ avail >= MapLen + CmdLen
                 /\ p.mux \in Muxes
    IN  /\ mark' = IF f.marker /\ marked THEN p.cmd ELSE mark
        /\ stopped' = CASE queue /\ p.cmd = "enable" -> stopped \ {p.mux}
                        [] queue /\ p.cmd = "disable" -> stopped \cup {p.mux}
                        [] OTHER -> stopped

\* Mutant: rmnet_frag_command does not recycle the descriptor
HandleCommandKeeps(c) ==
    /\ Handling(c)
    /\ PktOf(c, Current(c)).cd
    /\ FragCommand(PktOf(c, Current(c)), FragsLen(desc[Current(c)].frags))
    /\ NextPacket(c)
    /\ UNCHANGED <<format, poolVars, desc, refs, stack, ghosts, clash>>

HandleCommand(c) ==
    /\ Handling(c)
    /\ LET d == Current(c) IN
       /\ PktOf(c, d).cd
       /\ FragCommand(PktOf(c, d), FragsLen(desc[d].frags))
       /\ Recycle(d)
    /\ NextPacket(c)
    /\ UNCHANGED <<format, stack, ghosts, clash>>

\* No such endpoint, no v5 header where one is announced, or a coalescing
\* header that rmnet_frag_data_check_coal_header refuses
HandleDrop(c) ==
    /\ Handling(c)
    /\ LET d == Current(c)
           p == PktOf(c, d)
       IN  /\ ~p.cd
           /\ \/ ~ForUs(p)
              \/ /\ ForUs(p) /\ HasNextHdr(p)
                 /\ \/ ~HeaderPtr(desc[d].frags, MapLen, CsumLen)
                    \/ p.type = "none"
                    \/ /\ p.type = "coal"
                       /\ \/ ~HeaderPtr(desc[d].frags, MapLen, CoalLen)
                          \/ ~FragCheckCoalHeader(p.coal)
           /\ Recycle(d)
    /\ NextPacket(c)
    /\ UNCHANGED <<format, stack, stopped, mark, ghosts, clash>>

\* The fragments left of a descriptor without its headers
Stripped(d, hdrs) == Pull(desc[d].frags, hdrs)

\* Mutant: pages that are pulled or trimmed off are not given back
ToPacketHolds(d, hdrs, len, valid) ==
    /\ desc' = [desc EXCEPT ![d].frags = Trim(Stripped(d, hdrs), len),
                            ![d].valid = valid]
    /\ UNCHANGED <<poolVars, refs>>

\* rmnet_frag_pull of the headers and rmnet_frag_trim to a length that is not
\* 0, which give the pages of the bytes they cut off back
ToPacket(d, hdrs, len, valid) ==
    LET kept == Trim(Stripped(d, hdrs), len)
    IN  /\ desc' = [desc EXCEPT ![d].frags = kept, ![d].valid = valid]
        /\ refs' = GetPages(PutPages(refs, <<desc[d].frags>>), <<kept>>)
        /\ UNCHANGED poolVars

\* A packet with only the MAP header
HandlePlain(c) ==
    /\ Handling(c)
    /\ LET d == Current(c)
           p == PktOf(c, d)
       IN  /\ ForUs(p) /\ ~HasNextHdr(p)
           /\ \/ DataLen(p) = 0 /\ Recycle(d) /\ NextPacket(c)
              \/ /\ DataLen(p) # 0
                 /\ ToPacket(d, MapLen, DataLen(p), FALSE)
                 /\ DeliverNext(c, <<d>>)
    /\ UNCHANGED <<format, stack, stopped, mark, ghosts, clash>>

\* A packet with a checksum offload header
HandleCsum(c) ==
    /\ Handling(c)
    /\ LET d == Current(c)
           p == PktOf(c, d)
       IN  /\ ForUs(p) /\ HasNextHdr(p) /\ p.type = "csum"
           /\ HeaderPtr(desc[d].frags, MapLen, CsumLen)
           /\ \/ /\ DataLen(p) = 0
                 /\ Recycle(d)
                 /\ TwiceRecycled(c, d)
              \/ /\ DataLen(p) # 0
                 /\ ToPacket(d, MapLen + CsumLen, DataLen(p),
                             format.features.rxcsum /\ p.csum)
                 /\ DeliverNext(c, <<d>>)
    /\ UNCHANGED <<format, stack, stopped, mark, ghosts, clash>>

\* The frame is the packet to deliver
CoalWhole(c, d, frags, r) ==
    /\ r.reuse
    /\ desc' = [desc EXCEPT ![d] =
           [@ EXCEPT !.frags = frags, !.hdr = r.hlen, !.valid = r.out[1].valid,
                     !.seg = <<0, r.out[1].dlen>>]]
    /\ refs' = GetPages(PutPages(refs, <<desc[d].frags>>), <<frags>>)
    /\ DeliverNext(c, <<d>>)
    /\ UNCHANGED poolVars

\* The descriptors of the segments, which copy the metadata of the frame
CoalSegments(d, frags, r) ==
    [i \in 1 .. Len(r.out) |->
        [desc[d] EXCEPT
           !.frags = AddFragsFrom(Ranges(frags, 0, r.hlen), frags,
                                  r.hlen + r.out[i].off, r.out[i].dlen),
           !.hdr = r.hlen, !.valid = r.out[i].valid,
           !.seg = <<r.out[i].off, r.out[i].dlen>>]]

\* The frame is cut up and recycled.  The k descriptors of calls that fail
\* later than in rmnet_get_frag_descriptor go back to the end of the free list.
CoalCut(c, d, frags, r, k) ==
    LET n == Len(r.out)
        new == CoalSegments(d, frags, r)
    IN  /\ ~r.reuse
        /\ \E q \in Taken(n + k) :
              LET got == {q[i] : i \in 1 .. n + k} \ alive
              IN  /\ free' = SubSeq(free, n + k + 1, Len(free))
                            \o SubSeq(q, n + 1, n + k) \o <<d>>
                  /\ alive' = alive \cup got
                  /\ pool_size' = pool_size + Cardinality(got)
                  /\ desc' = Filled([desc EXCEPT ![d] = Blank],
                                    SubSeq(q, 1, n), new)
                  /\ DeliverNext(c, SubSeq(q, 1, n))
        /\ refs' = GetPages(PutPages(refs, <<desc[d].frags>>), FragsOf(new))
        /\ UNCHANGED up

\* A coalesced frame: rmnet_frag_segment_coal_data and the end of
\* rmnet_frag_process_next_hdr_packet
HandleCoal(c) ==
    /\ Handling(c)
    /\ LET d == Current(c)
           p == PktOf(c, d)
           frags == Stripped(d, MapLen + CoalLen)
       IN  /\ ForUs(p) /\ HasNextHdr(p) /\ p.type = "coal"
           /\ HeaderPtr(desc[d].frags, MapLen, CoalLen)
           /\ FragCheckCoalHeader(p.coal)
           /\ \E r \in {FragSegments(p, frags, format.features, sums, fails) :
                         sums \in FragValidateCsum(p.ip, frags),
                         fails \in Failing} :
                 \/ CoalWhole(c, d, frags, r)
                 \/ \E k \in 0 .. r.calls - Len(r.out) : CoalCut(c, d, frags, r, k)
    /\ UNCHANGED <<format, stack, stopped, mark, ghosts, clash>>

-----------------------------------------------------------------------------
(* rmnet_frag_deliver for the first of the segments.                       *)

Delivering(c) == ctx[c].pc = "deliver"

\* On to the next segment, or to the next packet
AfterSegment(x) ==
    [x EXCEPT !.segs = Tail(@),
              !.pc = IF Len(x.segs) = 1 THEN "handle" ELSE "deliver"]

\* rmnet_alloc_skb has no memory
DeliverNoMem(c) ==
    /\ Delivering(c)
    /\ Recycle(Head(ctx[c].segs))
    /\ ctx' = [ctx EXCEPT ![c] = AfterSegment(@)]
    /\ UNCHANGED <<format, stack, stopped, mark, ghosts, clash>>

\* The headers do not fit the packet: rmnet_frag_pull recycles the
\* descriptor, and rmnet_frag_deliver will do it again
DeliverShort(c) ==
    /\ Delivering(c)
    /\ LET d == Head(ctx[c].segs) IN
       /\ desc[d].hdr > FragsLen(desc[d].frags)
       /\ Recycle(d)
       /\ ctx' = [ctx EXCEPT ![c] = [AfterSegment(@) EXCEPT !.again = d,
                                                           !.pc = "again"]]
    /\ UNCHANGED <<format, stack, stopped, mark, ghosts, clash>>

\* What rmnet_alloc_skb adds of the fragments: all, or as many as the socket
\* buffers hold that it has when the allocation of another one fails
Attached(frags) ==
    {frags} \cup {SubSeq(frags, 1, j * MaxSkbFrags) :
                    j \in {i \in 1 .. Len(frags) : i * MaxSkbFrags < Len(frags)}}

Deliver(c) ==
    /\ Delivering(c)
    /\ LET d == Head(ctx[c].segs)
           x == desc[d]
           body == Pull(x.frags, x.hdr)
       IN  /\ x.hdr <= FragsLen(x.frags)
           /\ \E frags \in Attached(body) :
                /\ stack' = [stack EXCEPT ![c] = Append(@,
                       [head |-> Bytes(Ranges(x.frags, 0, x.hdr)),
                        frags |-> frags, held |-> frags, short |-> frags # body,
                        valid |-> x.valid /\ x.seg = NULL,
                        csum |-> PktOf(c, d).csum,
                        want |-> Want(format.flags, Buffer(c), x.nth,
                                      x.seg)])]
                /\ refs' = PutPages(GetPages(refs, <<frags>>), <<x.frags>>)
           /\ free' = ToTail(free, d)
           /\ desc' = [desc EXCEPT ![d] = Blank]
           /\ ctx' = [ctx EXCEPT ![c] = AfterSegment(@)]
    /\ UNCHANGED <<format, pool_size, up, alive, stopped, mark, ghosts, clash>>

\* The second rmnet_recycle_frag_descriptor of a descriptor.  While it is on
\* the free list this changes nothing; if another context has it by now, it
\* is taken from under its hands.
RecycleAgain(c) ==
    /\ ctx[c].pc = "again"
    /\ LET d == ctx[c].again IN
       /\ clash' = (\A i \in 1 .. Len(free) : free[i] # d)
       /\ Recycle(d)
    /\ ctx' = [ctx EXCEPT ![c].again = NULL,
                          ![c].pc = IF ctx[c].segs = <<>> THEN "handle"
                                    ELSE "deliver"]
    /\ UNCHANGED <<format, stack, stopped, mark, ghosts>>

\* The next buffer of a chain
NextBuffer(c, pc) ==
    LET k == ctx[c].buf + 1
    IN  IF k > Len(ChainOf(c)) THEN Idle
        ELSE [Idle EXCEPT !.pc = pc, !.chain = ctx[c].chain, !.buf = k,
                          !.rest = ChainOf(c)[k].frags]

\* The list is done: rmnet_frag_ingress_handler frees the buffer
Consume(c) ==
    /\ ctx[c].pc = "handle" /\ ctx[c].list = <<>>
    /\ refs' = PutPages(refs, <<Buffer(c).frags>>)
    /\ ctx' = [ctx EXCEPT ![c] = NextBuffer(c, "deaggregate")]
    /\ UNCHANGED <<format, poolVars, desc, stack, stopped, mark, ghosts,
                   clash>>

-----------------------------------------------------------------------------
(* Linear buffers: rmnet_map_ingress_handler.                              *)

\* The length rmnet_map_deaggregate computes
SkbLen(f, p) ==
    MapLen + p.len + CASE f.v4 -> TrailerLen
                       [] ~f.v4 /\ f.v5 /\ ~p.cd -> CsumLen
                       [] OTHER -> 0

LinearPkt(c) == Buffer(c).pkts[ctx[c].nth + 1]

\* The buffer itself is passed on, not a copy of one packet
PassedWhole(f, p) ==
    ~f.deagg \/ (~f.v4 /\ f.v5 /\ ~p.cd /\ p.type = "coal")

Whole(c) == PassedWhole(format.flags, LinearPkt(c))

\* The bytes the handler is given
Avail(c) ==
    IF Whole(c) THEN FragsLen(ctx[c].rest)
    ELSE SkbLen(format.flags, LinearPkt(c))

\* __rmnet_map_ingress_handler runs for the next packet
LinearReady(c) ==
    /\ ctx[c].pc = "linear" /\ FragsLen(ctx[c].rest) > 0
    /\ format.flags.deagg =>
           /\ SkbLen(format.flags, LinearPkt(c)) <= FragsLen(ctx[c].rest)
           /\ LinearPkt(c).len # 0

\* A context is done with the next packet, of len bytes
PastPacket(x, len) == [x EXCEPT !.rest = Pull(@, len), !.nth = @ + 1]

\* After a packet; kept says that the buffer itself went to the stack
LinearDone(c, kept) ==
    /\ ctx' = [ctx EXCEPT ![c] =
           IF Whole(c) THEN NextBuffer(c, "linear")
           ELSE PastPacket(@, Avail(c))]
    /\ refs' = IF Whole(c) /\ ~kept
               THEN PutPages(refs, <<Buffer(c).frags>>) ELSE refs
    /\ UNCHANGED <<format, poolVars, desc, ghosts, clash>>

\* A packet of the list that rmnet_deliver_skb_list passes on: bytes of the
\* buffer, in the buffer itself or copied
LinearSkb(c, ranges, seg, valid, kept) ==
    [head |-> IF kept THEN <<>> ELSE Bytes(ranges),
     frags |-> IF kept THEN ranges ELSE <<>>,
     held |-> IF kept THEN Buffer(c).frags ELSE <<>>, short |-> FALSE,
     valid |-> valid /\ seg = NULL, csum |-> LinearPkt(c).csum,
     want |-> Want(format.flags, Buffer(c), ctx[c].nth + 1, seg)]

\* No more packets in the buffer, or no memory to copy one
LinearEnd(c) ==
    /\ ctx[c].pc = "linear" /\ format.flags.deagg
    /\ LinearReady(c) => ~Whole(c)
    /\ refs' = PutPages(refs, <<Buffer(c).frags>>)
    /\ ctx' = [ctx EXCEPT ![c] = NextBuffer(c, "linear")]
    /\ UNCHANGED <<format, poolVars, desc, stack, stopped, mark, ghosts,
                   clash>>

\* rmnet_map_flow_command, which leaves other commands to rmnet_map_command
LinearCommand(c) ==
    LET f == format.flags
        p == LinearPkt(c)
        marker == f.marker /\ p.cmd \in {"start", "end"}
        queue == ~marker /\ f.cmds /\ p.mux \in Muxes
    IN  /\ LinearReady(c) /\ p.cd
        /\ mark' = IF marker /\ Avail(c) >= MapLen + CmdLen + IndLen
                   THEN p.cmd ELSE mark
        /\ stopped' = CASE queue /\ p.cmd = "enable" -> stopped \ {p.mux}
                        [] queue /\ p.cmd = "disable" -> stopped \cup {p.mux}
                        [] OTHER -> stopped
        /\ LinearDone(c, FALSE)
        /\ UNCHANGED stack

LinearDrop(c) ==
    LET p == LinearPkt(c)
    IN  /\ LinearReady(c) /\ ~p.cd
        /\ \/ ~ForUs(p)
           \/ /\ ForUs(p) /\ HasNextHdr(p)
              /\ p.type = "none" \/ (p.type = "coal"
                                      /\ ~SkbCheckCoalHeader(p.coal))
        /\ LinearDone(c, FALSE)
        /\ UNCHANGED <<stack, stopped, mark>>

\* What rmnet_map_checksum_downlink_packet may answer: a checksum trailer that
\* is not valid is not looked at, the sums of a valid one may be wrong
ChecksumDownlink(p) ==
    IF format.features.rxcsum /\ p.csum THEN BOOLEAN ELSE {FALSE}

\* What a packet with the checksum header or trailer of its format is marked
LinearValid(p) ==
    CASE HasNextHdr(p) -> {format.features.rxcsum /\ p.csum}
      [] ~HasNextHdr(p) /\ format.flags.v4 -> ChecksumDownlink(p)
      [] OTHER -> {FALSE}

\* A packet with or without a checksum header or trailer
LinearPacket(c) ==
    LET p == LinearPkt(c)
        hdrs == MapLen + IF HasNextHdr(p) THEN CsumLen ELSE 0
        len == IF DataLen(p) < Avail(c) - hdrs THEN DataLen(p)
               ELSE Avail(c) - hdrs
    IN  /\ LinearReady(c) /\ ForUs(p)
        /\ HasNextHdr(p) => p.type = "csum"
        /\ \E valid \in LinearValid(p) :
               stack' = [stack EXCEPT ![c] = Append(@,
                   LinearSkb(c, Ranges(ctx[c].rest, hdrs, len), NULL, valid,
                             Whole(c)))]
        /\ LinearDone(c, TRUE)
        /\ UNCHANGED <<stopped, mark>>

\* A coalesced frame
LinearCoal(c) ==
    LET p == LinearPkt(c)
        frags == Pull(Ranges(ctx[c].rest, 0, Avail(c)), MapLen + CoalLen)
        Cut(hlen, s, kept) ==
            LinearSkb(c, IF kept THEN frags
                         ELSE AddFragsFrom(Ranges(frags, 0, hlen), frags,
                                           hlen + s.off, s.dlen),
                      <<s.off, s.dlen>>, s.valid, kept)
    IN  /\ LinearReady(c) /\ ForUs(p) /\ HasNextHdr(p) /\ p.type = "coal"
        /\ SkbCheckCoalHeader(p.coal)
        /\ \E r \in {SkbSegments(p, FragsLen(frags), format.features, fails) :
                      fails \in Failing} :
               /\ stack' = [stack EXCEPT ![c] =
                      @ \o [i \in 1 .. Len(r.out) |->
                               Cut(r.hlen, r.out[i], r.reuse /\ Whole(c))]]
               /\ LinearDone(c, r.reuse)
        /\ UNCHANGED <<stopped, mark>>

-----------------------------------------------------------------------------
(* What a chain of buffers is: pkts names the packet at every MAP header    *)
(* of a buffer, the lengths are those of the header fields, and where the   *)
(* driver does not read the type of the header it counts on a v5 header.    *)
(* Buffers in pages need a format with v5 headers, and a port that does not *)
(* deaggregate gets one buffer at a time.                                   *)

IsPacket(p) ==
    /\ p.len \in 0 .. U16 - 1 /\ p.pad \in 0 .. U16 - 1
    /\ IsIp(p.ip)
    /\ p.type = "coal" => IsCoal(p.coal)

IsBuffer(f, paged, buf) ==
    LET end == Start(f, buf.pkts, Len(buf.pkts) + 1)
    IN  /\ buf.frags \in Seq(Fragments(Pages))
        /\ Len(buf.pkts) \in Nat
        /\ \A k \in 1 .. Len(buf.pkts) : IsPacket(buf.pkts[k])
        /\ IF paged THEN FragsLen(buf.frags) < end + MapLen
           ELSE /\ buf.linear /\ FragsLen(buf.frags) <= end
                /\ \A k \in 1 .. Len(buf.pkts) :
                       \/ PassedWhole(f, buf.pkts[k])
                       \/ SkbLen(f, buf.pkts[k]) = HwLen(f, buf.pkts[k])

IsChain(f, chain) ==
    LET paged == V5(f) /\ ~chain[1].linear
    IN  /\ Len(chain) \in Nat \ {0}
        /\ \A i \in 1 .. Len(chain) : IsBuffer(f, paged, chain[i])
        /\ ~f.deagg /\ ~paged => Len(chain) = 1

ASSUME ChainsAssumption ==
    \A c \in Ctx, f \in Formats :
        /\ Len(Chains[c][f.name]) \in Nat
        /\ \A n \in 1 .. Len(Chains[c][f.name]) : IsChain(f, Chains[c][f.name][n])

-----------------------------------------------------------------------------

\* The network stack frees the packets it has
StackFree(c) ==
    /\ stack[c] # <<>>
    /\ refs' = PutPages(refs, HeldBy(stack[c]))
    /\ stack' = [stack EXCEPT ![c] = <<>>]
    /\ UNCHANGED <<format, poolVars, desc, ctx, stopped, mark, ghosts, clash>>

\* rmnet_descriptor_deinit; the receive handler is gone by then
DescriptorDeinit ==
    /\ up /\ \A c \in Ctx : ctx[c].pc = "idle"
    /\ up' = FALSE
    /\ alive' = alive \ {free[i] : i \in 1 .. Len(free)}
    /\ pool_size' = pool_size - Len(free)
    /\ free' = <<>>
    /\ UNCHANGED <<format, desc, refs, ctx, stack, stopped, mark, ghosts,
                   clash>>

\* rmnet_descriptor_init of a new port
DescriptorInit ==
    /\ ~up
    /\ up' = TRUE
    /\ alive' \in {D \in SUBSET Desc : Cardinality(D) = PoolSize}
    /\ free' \in Orders(alive') /\ pool_size' = PoolSize
    /\ lost' = {}
    /\ UNCHANGED <<format, desc, refs, ctx, stack, stopped, mark, runt, hollow,
                   clash>>

\* Two contexts use one descriptor: what follows is undefined
Corrupted == clash /\ UNCHANGED vars

Step(c) ==
    \/ \E n \in 1 .. Len(Received[c][format.flags.name]) : Receive(c, n)
    \/ DeaggregateEnd(c)
    \/ \E d \in Desc : DeaggregateOne(c, d)
    \/ HandleCommand(c) \/ HandleDrop(c) \/ HandlePlain(c) \/ HandleCsum(c)
    \/ HandleCoal(c)
    \/ DeliverNoMem(c) \/ DeliverShort(c) \/ Deliver(c)
    \/ RecycleAgain(c) \/ Consume(c)
    \/ LinearEnd(c) \/ LinearCommand(c) \/ LinearDrop(c) \/ LinearPacket(c)
    \/ LinearCoal(c)
    \/ StackFree(c)

Next ==
    \/ ~clash /\ \E c \in Ctx : Step(c)
    \/ ~clash /\ (DescriptorDeinit \/ DescriptorInit)
    \/ Corrupted

Spec == Init /\ [][Next]_vars

-----------------------------------------------------------------------------
(* Properties.                                                             *)

\* The places of the code that hold descriptor d
Holders(d) ==
    LET At(list, name) == {<<name, i>> : i \in {k \in 1 .. Len(list) : list[k] = d}}
    IN  At(free, <<"free">>)
        \cup (UNION {At(ctx[c].list, <<"list", c>>)
                     \cup At(ctx[c].segs, <<"segs", c>>) : c \in Ctx})

\* The fragments of the buffers of a chain that a context has not freed
Buffers(c) ==
    IF ctx[c].pc = "idle" THEN <<>>
    ELSE [i \in 1 .. Len(ChainOf(c)) |->
             IF i < ctx[c].buf THEN <<>> ELSE ChainOf(c)[i].frags]

\* The fragments of buffers, of packets of the stack and of descriptors that
\* are in page g
PageHolders(g) ==
    LET At(lists, name) == {<<name, u>> : u \in PageUses(lists, g)}
    IN  (UNION {At(Buffers(c), <<"buffers", c>>)
                \cup At(HeldBy(stack[c]), <<"stack", c>>) : c \in Ctx})
        \cup (UNION {At(<<desc[d].frags>>, <<"desc", d>>) : d \in Desc})

\* Every page has one reference for each buffer, descriptor fragment and
\* packet of the stack that still points to it: none is freed under a packet
\* the stack has, and none leaks, whichever packets are cut off, dropped,
\* trimmed, segmented or run out of memory.
PagesBalanced == \A g \in Pages : refs[g] = Cardinality(PageHolders(g))

\* Every descriptor is in exactly one place, the free list or a list of one
\* context, pool_size counts them, and rmnet_descriptor_deinit frees them
\* all.  The code gives this up in two cases only: for a buffer that ends
\* right after a MAP header (the descriptor is forgotten) and for a v5 packet
\* of nothing but padding or headers (it is recycled twice).  All lists hold
\* descriptors that were not freed.
OneHolder ==
    /\ TypeOK
    /\ pool_size = Cardinality(alive)
    /\ ~hollow => ~clash /\ \A d \in alive \ lost : Cardinality(Holders(d)) = 1
    /\ ~runt => lost = {}
    /\ ~up => alive = lost

Prefix(s, t) == Len(s) <= Len(t) /\ s = SubSeq(t, 1, Len(s))

\* The last byte of s is not after the last byte of t in the chain's pages
NotAfter(s, t) ==
    s # <<>> /\ t # <<>> =>
        LET a == s[Len(s)]
            b == t[Len(t)]
        IN  a[1][2] < b[1][2] \/ (a[1] = b[1] /\ a[2] <= b[2])

\* What the stack gets is what the hardware sent: the bytes of the packet, or
\* of the segment, from whatever pages they are in, less the end only if
\* memory ran out for another socket buffer; in the order of the chain; and,
\* where there is a checksum header or trailer, verified only if it says so.
DeliveredRight ==
    \A c \in Ctx : \A i \in 1 .. Len(stack[c]) :
        LET e == stack[c][i]
            got == e.head \o Bytes(e.frags)
        IN  /\ IF e.short THEN Prefix(got, e.want) ELSE got = e.want
            /\ e.valid => e.csum
            /\ i > 1 => NotAfter(stack[c][i - 1].want, e.want)
=============================================================================
