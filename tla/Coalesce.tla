------------------------------ MODULE Coalesce ------------------------------
(***************************************************************************)
(* Undoing hardware coalescing.  A coalesced frame is one IP and transport *)
(* header followed by the data of up to MaxPackets packets, described by   *)
(* number-length objects (NLOs) in the coalescing header.  The driver has  *)
(* the algorithm twice: over fragment descriptors (rmnet_descriptor.c) and *)
(* over linear socket buffers (rmnet_map_data.c).  Both are here, written  *)
(* from their own source, as operators from a packet to the segments that  *)
(* are passed on.                                                          *)
(*                                                                         *)
(* A packet is the record of what its headers say:                         *)
(*   ip    version, len (header length), exts (IPv6 extension headers),    *)
(*         proto, tlen (transport header length), fin (FIN or PSH),        *)
(*         zero (UDP checksum field 0), good (the checksum is right)       *)
(*   coal  num_nlos, csum_valid, close (the reason coalescing ended), and  *)
(*         nl, one [len, num, err] per NLO slot                            *)
(***************************************************************************)
EXTENDS FragData

CONSTANTS
    MapLen,      \* sizeof(struct rmnet_map_header)
    CoalLen,     \* sizeof(struct rmnet_map_v5_coal_header)
    IpMin,       \* the IP header without options or extension headers
    TransMin,    \* the TCP header without options, and the UDP header
    MaxNlos,     \* RMNET_MAP_V5_MAX_NLOS (6)
    MaxPackets,  \* RMNET_MAP_V5_MAX_PACKETS (48)
    ErrBits,     \* bits of csum_error_bitmap (8)
    U8,          \* 2^8
    U16          \* 2^16

ASSUME CoalesceAssumption ==
    /\ MapLen \in Nat \ {0} /\ CoalLen \in Nat \ {0}
    /\ IpMin \in Nat \ {0} /\ TransMin \in Nat \ {0}
    /\ MaxNlos \in Nat \ {0} /\ ErrBits \in Nat \ {0}
    /\ MaxPackets = MaxNlos * ErrBits
    /\ U8 \in Nat /\ U16 \in Nat /\ MaxPackets < U8 /\ U8 < U16

\* The lengths and counts of the headers of a packet that are not a choice
IsIp(ip) ==
    /\ ip.len \in Nat /\ ip.tlen \in Nat /\ ip.exts \in Seq(ExtHdrs)
    /\ {ip.fin, ip.zero, ip.good} \subseteq BOOLEAN

IsCoal(h) ==
    /\ h.num_nlos \in Nat
    /\ Len(h.nl) \in Nat /\ Len(h.nl) >= MaxNlos
    /\ \A i \in 1 .. Len(h.nl) : h.nl[i].len \in Nat /\ h.nl[i].num \in Nat

\* rmnet_map_v5_csum_buggy
CsumBuggy(h) ==
    /\ h.num_nlos = 1 /\ h.nl[1].num = 1
    /\ h.close \in {"coal", "hw_pkt", "hw_byte", "hw_time"}

\* The full checksum error field, one bit per packet of the frame in order,
\* that nlo_err_mask is rebuilt into from the slots of the header
ErrMask(h) ==
    UNION {{ErrBits * (i - 1) + b : b \in h.nl[i].err} : i \in 1 .. MaxNlos}

\* The packet count of the header, a u8 that is checked after each addition
CountOK(h) ==
    LET pkts[i \in 0 .. MaxNlos] ==
            IF i = 0 THEN 0 ELSE (pkts[i - 1] + h.nl[i].num) % U8
    IN  \A i \in 1 .. MaxNlos : pkts[i] <= MaxPackets

\* rmnet_frag_data_check_coal_header, after it has found the header
FragCheckCoalHeader(h) ==
    /\ h.num_nlos \in 1 .. MaxNlos
    /\ CountOK(h)

\* rmnet_map_data_check_coal_header
SkbCheckCoalHeader(h) ==
    /\ h.num_nlos # 0 /\ h.num_nlos <= MaxNlos
    /\ CountOK(h)

\* The length of the headers of a frame that has all of them
HdrLen(ip) ==
    (IF ip.version = 4 THEN ip.len ELSE IpMin + ExtLen * Len(ip.exts))
    + (IF ip.proto = "tcp" THEN ip.tlen ELSE TransMin)

-----------------------------------------------------------------------------
(* Over fragment descriptors.                                              *)

\* What rmnet_frag_segment_coal_data learns from the headers: the length of
\* the IP header, or -1 where it returns, and whether segments may stay large
FragIp(ip, frags) ==
    LET v6 == SkipExtHdr(frags, IpMin, ip.exts)
        bail == [len |-> -1, gro |-> FALSE]
    IN  CASE ip.version = 4 /\ HeaderPtr(frags, 0, IpMin) ->
                [len |-> ip.len, gro |-> ip.len = IpMin]
          [] ip.version = 6 /\ HeaderPtr(frags, 0, IpMin)
                /\ v6.len >= 0 /\ ~v6.fragp ->
                [len |-> v6.len, gro |-> v6.len = IpMin]
          [] OTHER -> bail

\* The length of the transport header, or -1 where the function returns
FragTrans(ip, ipLen, frags) ==
    CASE ip.proto = "tcp" /\ HeaderPtr(frags, ipLen, TransMin) -> ip.tlen
      [] ip.proto = "udp" /\ HeaderPtr(frags, ipLen, TransMin) -> TransMin
      [] OTHER -> -1

ZeroCsum(ip) == ip.version = 4 /\ ip.proto = "udp" /\ ip.zero

\* What rmnet_frag_validate_csum may answer.  It sums one contiguous piece
\* of memory from the first fragment on, so for a frame in several
\* fragments the answer depends on what follows the first one.
FragValidateCsum(ip, frags) == IF Len(frags) = 1 THEN {ip.good} ELSE BOOLEAN

\* The whole frame as one packet, the descriptor or socket buffer unchanged
WholeFrame(p, hlen, len, valid) ==
    [off |-> 0, dlen |-> len - hlen,
     size |-> (p.coal.nl[1].len - hlen) % U16, segs |-> p.coal.nl[1].num,
     seq |-> 0, id |-> 0, fin |-> p.ip.fin, valid |-> valid]

\* Mutant: the FIN and PSH flags of the frame stay on every segment
SegmentKeepsFin(ip, m, end, len, valid) ==
    [off |-> m.off, dlen |-> m.size * m.n, size |-> m.size, segs |-> m.n,
     seq |-> IF ip.proto = "tcp" THEN m.off ELSE 0,
     id |-> IF ip.version = 4 THEN m.id ELSE 0,
     fin |-> ip.fin, valid |-> valid \/ ZeroCsum(ip)]

\* The packet that m describes, cut out of a frame that ends after end bytes
\* of its len
Segment(ip, m, end, len, valid) ==
    [off |-> m.off, dlen |-> m.size * m.n, size |-> m.size, segs |-> m.n,
     seq |-> IF ip.proto = "tcp" THEN m.off ELSE 0,
     id |-> IF ip.version = 4 THEN m.id ELSE 0,
     fin |-> ip.fin /\ ~(end < len),
     valid |-> valid \/ ZeroCsum(ip)]

\* The metadata of a frame that is being cut up
Meta == [off |-> 0, id |-> 0, n |-> 0, size |-> 0, calls |-> 0, out |-> <<>>]

\* Mutant: the end of the segment is not compared with the frame's length
FragSegmentDataUnchecked(job, m, pktId, valid) ==
    LET dlen == m.size * m.n
        call == [m EXCEPT !.calls = @ + 1]
    IN  IF call.calls \in job.fails \/ job.hlen > job.len
        THEN call
        ELSE [call EXCEPT
                !.off = (@ + dlen) % U16, !.id = (pktId + 1) % U8, !.n = 0,
                !.out = Append(@, Segment(job.p.ip, m, job.hlen + m.off + dlen,
                                          job.len, valid))]

\* __rmnet_frag_segment_data of the job [p, hlen, len, gro, fails].  A call in
\* fails is one that runs out of memory; it and a call that asks for more
\* than the frame has leave the metadata alone.  data_offset is a u16.
FragSegmentData(job, m, pktId, valid) ==
    LET dlen == m.size * m.n
        end == job.hlen + m.off + dlen
        call == [m EXCEPT !.calls = @ + 1]
    IN  IF call.calls \in job.fails \/ job.hlen > job.len \/ end > job.len
        THEN call
        ELSE [call EXCEPT
                !.off = (@ + dlen) % U16,
                !.id = (pktId + 1) % U8,
                !.n = 0,
                !.out = Append(@, Segment(job.p.ip, m, end, job.len, valid))]

\* The state of the loops: the metadata and how many packets are done.
\* nlo_err_mask >> total has the next packet's mark in bit 0; total_pkt is the
\* low byte of total.
LoopStart == [m |-> Meta, total |-> 0]

\* What was gathered is sent: before a marked packet, at the end of an NLO
FragFlush(job, s) ==
    IF s.m.n # 0 THEN FragSegmentData(job, s.m, s.total, TRUE) ELSE s.m

\* The inner loop of rmnet_frag_segment_coal_data, for one packet of an NLO
FragPacket(job, s) ==
    LET err == s.total \in ErrMask(job.p.coal)
    IN  [m |-> CASE ~job.gro ->
                      FragSegmentData(job, [s.m EXCEPT !.n = 1], s.total, ~err)
                 [] job.gro /\ err ->
                      FragSegmentData(job, [FragFlush(job, s) EXCEPT !.n = 1],
                                      s.total, FALSE)
                 [] OTHER -> [s.m EXCEPT !.n = @ + 1],
         total |-> s.total + 1]

\* Its outer loop, for NLO nlo: all packets of it, then what is left
FragNlo(job, nlo, s0) ==
    LET nl == job.p.coal.nl[nlo]
        s[i \in 0 .. nl.num] ==
            IF i = 0 THEN [s0 EXCEPT !.m.size = (nl.len - job.hlen) % U16]
            ELSE FragPacket(job, s[i - 1])
    IN  [s[nl.num] EXCEPT !.m = FragFlush(job, s[nl.num])]

FragSegmentLoop(job) ==
    LET s[i \in 0 .. job.p.coal.num_nlos] ==
            IF i = 0 THEN LoopStart ELSE FragNlo(job, i, s[i - 1])
    IN  s[job.p.coal.num_nlos].m

\* What is left of a frame that is dropped without a segment
NoSegments == [reuse |-> FALSE, hlen |-> 0, calls |-> 0, out |-> <<>>]

\* rmnet_frag_segment_coal_data after the MAP and coalescing headers are
\* pulled: the segments, and whether the descriptor itself is the only one.
\* sums is the answer of rmnet_frag_validate_csum.
FragSegments(p, frags, features, sums, fails) ==
    LET h == p.coal
        len == FragsLen(frags)
        ip == FragIp(p.ip, frags)
        tlen == FragTrans(p.ip, ip.len, frags)
        hlen == ip.len + tlen
        gro == features.gro /\ ip.gro
        Whole(valid) == [reuse |-> TRUE, hlen |-> hlen, calls |-> 0,
                         out |-> <<WholeFrame(p, hlen, len, valid)>>]
        cut == FragSegmentLoop([p |-> p, hlen |-> hlen, len |-> len,
                                gro |-> gro, fails |-> fails])
    IN  IF ip.len < 0 \/ tlen < 0 THEN NoSegments
        ELSE IF CsumBuggy(h) /\ ~ZeroCsum(p.ip) THEN Whole(sums)
        ELSE IF gro /\ h.num_nlos = 1 /\ h.csum_valid THEN Whole(TRUE)
        ELSE [reuse |-> FALSE, hlen |-> hlen, calls |-> cut.calls,
              out |-> cut.out]

-----------------------------------------------------------------------------
(* Over socket buffers.                                                    *)

\* Mutant: segments stay large behind IPv4 options too
SkbIpOptions(ip, len) ==
    LET v6 == SkipExtHdr(<<Frag(0, 0, len)>>, IpMin, ip.exts)
    IN  CASE ip.version = 4 -> [len |-> ip.len, gro |-> TRUE]
          [] ip.version = 6 /\ v6.len >= 0 /\ ~v6.fragp ->
                [len |-> v6.len, gro |-> v6.len = IpMin]
          [] OTHER -> [len |-> -1, gro |-> FALSE]

\* rmnet_map_segment_coal_skb up to the transport header of a frame of len
\* bytes: the length of the IP header, or -1 where it returns.  Headers are
\* read in place; only ipv6_skip_exthdr of the kernel stays inside the frame.
SkbIp(ip, len) ==
    LET v6 == SkipExtHdr(<<Frag(0, 0, len)>>, IpMin, ip.exts)
    IN  CASE ip.version = 4 -> [len |-> ip.len, gro |-> ip.len = IpMin]
          [] ip.version = 6 /\ v6.len >= 0 /\ ~v6.fragp ->
                [len |-> v6.len, gro |-> v6.len = IpMin]
          [] OTHER -> [len |-> -1, gro |-> FALSE]

SkbTrans(ip) ==
    CASE ip.proto = "tcp" -> ip.tlen
      [] ip.proto = "udp" -> TransMin
      [] OTHER -> -1

\* Mutant: the offset moves on when the allocation failed
SkbSegmentDataSkips(job, m, pktId, valid) ==
    LET dlen == m.size * m.n
        call == [m EXCEPT !.calls = @ + 1, !.off = (@ + dlen) % U16, !.n = 0]
    IN  IF call.calls \in job.fails
        THEN call
        ELSE [call EXCEPT
                !.id = (pktId + 1) % U8,
                !.out = Append(@, Segment(job.p.ip, m,
                                          job.hlen + m.off + dlen, job.len,
                                          valid))]

\* __rmnet_map_segment_coal_skb, which copies the data wherever it ends; the
\* u16 data_offset wraps where the NLOs claim more than 64 KB
SkbSegmentData(job, m, pktId, valid) ==
    LET dlen == m.size * m.n
        call == [m EXCEPT !.calls = @ + 1]
    IN  IF call.calls \in job.fails
        THEN call
        ELSE [call EXCEPT
                !.off = (@ + dlen) % U16,
                !.id = (pktId + 1) % U8,
                !.n = 0,
                !.out = Append(@, Segment(job.p.ip, m,
                                          job.hlen + m.off + dlen, job.len,
                                          valid))]

\* What was gathered is sent
SkbFlush(job, s) ==
    IF s.m.n # 0 THEN SkbSegmentData(job, s.m, s.total, TRUE) ELSE s.m

\* The inner loop of rmnet_map_segment_coal_skb, for one packet of an NLO
SkbPacket(job, s) ==
    LET err == s.total \in ErrMask(job.p.coal)
    IN  [m |-> CASE ~job.gro ->
                      SkbSegmentData(job, [s.m EXCEPT !.n = 1], s.total, ~err)
                 [] job.gro /\ err ->
                      SkbSegmentData(job, [SkbFlush(job, s) EXCEPT !.n = 1],
                                     s.total, FALSE)
                 [] OTHER -> [s.m EXCEPT !.n = @ + 1],
         total |-> s.total + 1]

\* Its outer loop, for NLO nlo: what is left of it is sent before the next one
SkbNlo(job, nlo, s0) ==
    LET nl == job.p.coal.nl[nlo]
        s[i \in 0 .. nl.num] ==
            IF i = 0 THEN [s0 EXCEPT !.m.size = (nl.len - job.hlen) % U16]
            ELSE SkbPacket(job, s[i - 1])
    IN  [s[nl.num] EXCEPT !.m = SkbFlush(job, s[nl.num])]

SkbSegmentNlos(job) ==
    LET s[i \in 0 .. job.p.coal.num_nlos] ==
            IF i = 0 THEN LoopStart ELSE SkbNlo(job, i, s[i - 1])
    IN  s[job.p.coal.num_nlos].m

\* rmnet_map_segment_coal_skb for a frame of len bytes after the MAP and
\* coalescing headers
SkbSegments(p, len, features, fails) ==
    LET ip == SkbIp(p.ip, len)
        tlen == SkbTrans(p.ip)
        hlen == ip.len + tlen
        gro == features.gro /\ ip.gro
        cut == SkbSegmentNlos([p |-> p, hlen |-> hlen, len |-> len,
                               gro |-> gro, fails |-> fails])
        Whole(valid) == [reuse |-> TRUE, hlen |-> hlen, calls |-> 0,
                         out |-> <<WholeFrame(p, hlen, len, valid)>>]
    IN  IF ip.len < 0 \/ tlen < 0 THEN NoSegments
        ELSE IF CsumBuggy(p.coal) /\ ~ZeroCsum(p.ip) THEN Whole(p.ip.good)
        ELSE IF gro /\ p.coal.num_nlos = 1 /\ p.coal.csum_valid
             THEN Whole(TRUE)
        ELSE [reuse |-> FALSE, hlen |-> hlen, calls |-> cut.calls,
              out |-> cut.out]
=============================================================================
