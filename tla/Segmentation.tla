---------------------------- MODULE Segmentation ----------------------------
(***************************************************************************)
(* One coalesced frame taken through both implementations of segmentation, *)
(* the one over fragment descriptors and the one over socket buffers, and  *)
(* what the result is compared with: the list of packets that the header   *)
(* describes.                                                              *)
(***************************************************************************)
EXTENDS Coalesce

CONSTANT Families  \* sets of records [p, frags, features, fails]: a packet,
                   \* the pages it arrived in, the device's features and
                   \* the numbers of the segment allocations that fail

ASSUME FamiliesAssumption ==
    \A frames \in Families : \A f \in frames :
        /\ IsIp(f.p.ip) /\ IsCoal(f.p.coal)
        /\ Len(f.frags) \in Nat
        /\ \A i \in 1 .. Len(f.frags) : f.frags[i].size \in Nat

VARIABLES
    frame,   \* the frame received
    frag,    \* what the fragment path made of it
    skb,     \* what the socket buffer path made of it
    todo     \* the paths that have not run

segVars == <<frame, frag, skb, todo>>

SegInit ==
    /\ \E frames \in Families : frame \in frames
    /\ frag = NoSegments
    /\ skb = NoSegments
    /\ todo = {"frag", "skb"}

\* rmnet_frag_process_next_hdr_packet for a coalesced frame, the MAP and
\* coalescing headers of which were found
SegmentFrags ==
    /\ "frag" \in todo
    /\ \E sums \in FragValidateCsum(frame.p.ip, frame.frags) :
           frag' = IF FragCheckCoalHeader(frame.p.coal)
                   THEN FragSegments(frame.p, frame.frags, frame.features,
                                     sums, frame.fails)
                   ELSE NoSegments
    /\ todo' = todo \ {"frag"}
    /\ UNCHANGED <<frame, skb>>

\* rmnet_map_process_next_hdr_packet for the same frame
SegmentSkb ==
    /\ "skb" \in todo
    /\ skb' = IF SkbCheckCoalHeader(frame.p.coal)
              THEN SkbSegments(frame.p, FragsLen(frame.frags),
                               frame.features, frame.fails)
              ELSE NoSegments
    /\ todo' = todo \ {"skb"}
    /\ UNCHANGED <<frame, frag>>

SegNext == SegmentFrags \/ SegmentSkb

SegSpec == SegInit /\ [][SegNext]_segVars

-----------------------------------------------------------------------------
(* What the header says.                                                   *)

\* The lengths of the packets of all NLOs, in the order of the frame
Described(h) ==
    LET upto[i \in 0 .. h.num_nlos] ==
            IF i = 0 THEN <<>>
            ELSE upto[i - 1] \o [k \in 1 .. h.nl[i].num |-> h.nl[i].len]
    IN  upto[h.num_nlos]

\* The packets a frame consists of: their lengths without headers, and
\* whether the hardware marked them
PacketList(h, hlen) ==
    LET lens == Described(h)
    IN  [k \in 1 .. Len(lens) |->
            [size |-> lens[k] - hlen, err |-> (k - 1) \in ErrMask(h)]]

\* The bytes of the first k packets
Total(pkts, k) ==
    LET sum[i \in 0 .. k] == IF i = 0 THEN 0 ELSE sum[i - 1] + pkts[i].size
    IN  sum[k]

\* The bytes and the packets in the first k segments
SegBytes(out, k) ==
    LET sum[i \in 0 .. k] == IF i = 0 THEN 0 ELSE sum[i - 1] + out[i].dlen
    IN  sum[k]

SegPackets(out, k) ==
    LET sum[i \in 0 .. k] == IF i = 0 THEN 0 ELSE sum[i - 1] + out[i].segs
    IN  sum[k]

\* A frame as the hardware builds it: a complete unfragmented TCP or UDP
\* header, as much data as the NLOs say, no mark where all checksums are good
Honest(f) ==
    LET h == f.p.coal
        ip == f.p.ip
        pkts == PacketList(h, HdrLen(ip))
    IN  /\ ip.version \in {4, 6} /\ ip.proto \in {"tcp", "udp"}
        /\ \A i \in 1 .. Len(ip.exts) : ip.exts[i] \in {"opt", "atomic"}
        /\ h.num_nlos \in 1 .. MaxNlos
        /\ \A i \in 1 .. h.num_nlos : h.nl[i].len > HdrLen(ip)
        /\ \A i \in h.num_nlos + 1 .. MaxNlos : h.nl[i].num = 0
        /\ Len(pkts) \in 1 .. MaxPackets
        /\ HdrLen(ip) + Total(pkts, Len(pkts)) = FragsLen(f.frags)
        /\ h.csum_valid => ErrMask(h) = {}

-----------------------------------------------------------------------------

\* No descriptor that __rmnet_frag_segment_data builds asks for a byte that
\* the frame does not have, whatever its headers claim and whichever
\* allocations fail: a wrapped packet count, a length below the header's
\* and a truncated frame included.
FragInFrame ==
    \A k \in 1 .. Len(frag.out) :
        LET s == frag.out[k]
        IN  ~frag.reuse =>
                /\ s.dlen >= 0
                /\ frag.hlen + s.off + s.dlen <= FragsLen(frame.frags)

\* Both paths pass on a prefix of the frame's data without a hole: a segment
\* starts where the one before it ended and, for TCP, its sequence number
\* says so, even after an allocation failed in between (the metadata of the
\* frame is advanced only when a segment was queued).  The start is kept in 16
\* bits: past 64 KB the socket buffer path, which does not compare it with the
\* frame's length, starts over at the wrapped offset, whereas on the fragment
\* path the offset of a frame below 64 KB is exact whatever the NLOs claim.
NoHole ==
    /\ \A out \in {frag.out, skb.out} : \A k \in 1 .. Len(out) :
           /\ out[k].off = SegBytes(out, k - 1) % U16
           /\ out[k].seq = IF frame.p.ip.proto = "tcp" THEN out[k].off ELSE 0
    /\ FragsLen(frame.frags) < U16 =>
           \A k \in 1 .. Len(frag.out) :
               frag.out[k].off = SegBytes(frag.out, k - 1)

\* For a frame as the hardware builds it, with memory for every segment, the
\* segments are the frame's packets in order: each holds packets of one
\* size, all of the data is passed on, a marked packet is alone in its
\* segment and the only kind that is passed on with a bad checksum, the FIN
\* and PSH flags are on the last segment only and IP ids never go back.
Resegmented(result, len) ==
    LET pkts == PacketList(frame.p.coal, HdrLen(frame.p.ip))
        out == result.out
    IN  /\ SegPackets(out, Len(out)) = Len(pkts)
        /\ SegBytes(out, Len(out)) = len - HdrLen(frame.p.ip)
        /\ \A k \in 1 .. Len(out) :
               LET from == SegPackets(out, k - 1) + 1
                   to == SegPackets(out, k)
               IN  /\ \A j \in from .. to : pkts[j].size = out[k].size
                   /\ ~result.reuse =>
                        IF \E j \in from .. to : pkts[j].err
                        THEN /\ from = to
                             /\ out[k].valid = ZeroCsum(frame.p.ip)
                        ELSE out[k].valid
                   /\ out[k].fin => k = Len(out)
                   /\ k > 1 => out[k].id >= out[k - 1].id
        /\ out # <<>> /\ out[Len(out)].fin = frame.p.ip.fin

PacketsRestored ==
    Honest(frame) /\ frame.fails = {} =>
        /\ "frag" \notin todo => Resegmented(frag, FragsLen(frame.frags))
        /\ "skb" \notin todo => Resegmented(skb, FragsLen(frame.frags))

\* What the comments over rmnet_map_segment_coal_skb and
\* rmnet_frag_segment_coal_data say: a packet of an NLO that the hardware marked
\* is not among the segments.
ErrorsNotIncluded ==
    \A result \in {frag, skb} :
        LET pkts == PacketList(frame.p.coal, HdrLen(frame.p.ip))
            out == result.out
        IN  Honest(frame) /\ frame.fails = {} /\ ~result.reuse =>
                \A k \in 1 .. Len(out) :
                    \A j \in SegPackets(out, k - 1) + 1 .. SegPackets(out, k) :
                        ~pkts[j].err

\* The two implementations agree: a frame as the hardware builds it, in one
\* page, gives the same packets on either path when no allocation fails.
PathsAgree ==
    todo = {} /\ Honest(frame) /\ Len(frame.frags) = 1 /\ frame.fails = {}
        => frag = skb
=============================================================================
