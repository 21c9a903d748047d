----------------------------- MODULE MCIngress -----------------------------
(* Instances of Ingress for TLC: the formats and the chains of buffers.     *)
EXTENDS Ingress, TLC

Fmt(name, v4, v5, deagg, marker, cmds) ==
    [name |-> name, v4 |-> v4, v5 |-> v5, coal |-> v5, deagg |-> deagg, marker |-> marker,
     cmds |-> cmds]

FmtV5 == Fmt("v5", FALSE, TRUE, TRUE, TRUE, FALSE)
FmtV5Cmds == Fmt("cmds", FALSE, TRUE, TRUE, FALSE, TRUE)
FmtV4 == Fmt("v4", TRUE, FALSE, TRUE, TRUE, TRUE)
FmtRaw == Fmt("raw", FALSE, FALSE, FALSE, FALSE, FALSE)
MCFormats == {FmtV5, FmtV5Cmds, FmtV4, FmtRaw}

MCFeatures == {[gro |-> TRUE, rxcsum |-> TRUE],
               [gro |-> FALSE, rxcsum |-> FALSE]}

MCIp(tlen) ==
    [version |-> 4, len |-> 1, exts |-> <<>>, proto |-> "tcp", tlen |-> tlen,
     fin |-> TRUE, zero |-> FALSE, good |-> TRUE]

NL(len, num, err) == [len |-> len, num |-> num, err |-> err]

MCCoal(num, valid, close, nl) ==
    [num_nlos |-> num, csum_valid |-> valid, close |-> close, nl |-> nl]

Pkt == [cd |-> FALSE, cmd |-> NULL, mux |-> 1, len |-> 2, pad |-> 0,
        next |-> FALSE, type |-> "none", csum |-> TRUE, ip |-> MCIp(1),
        coal |-> NULL]
Plain(len, pad) == [Pkt EXCEPT !.len = len, !.pad = pad]
Csum(len, pad, ok) ==
    [Pkt EXCEPT !.len = len, !.pad = pad, !.next = TRUE, !.type = "csum",
                !.csum = ok]
Cmd(cmd, len) == [Pkt EXCEPT !.cd = TRUE, !.cmd = cmd, !.len = len]
Coal(len, tlen, coal) ==
    [Pkt EXCEPT !.len = len, !.next = TRUE, !.type = "coal",
                !.ip = MCIp(tlen), !.coal = coal]

\* Two packets of different lengths, the second one marked
CoalMarked == Coal(5, 1, MCCoal(2, FALSE, "net", <<NL(3, 1, {1}), NL(4, 1, {})>>))
\* Two packets of one NLO, all good: passed on whole if the device does GRO
CoalGood == Coal(4, 1, MCCoal(1, TRUE, "net", <<NL(3, 2, {}), NL(0, 0, {})>>))
\* A header that claims more than there is
CoalHollow == Coal(2, 4, MCCoal(1, TRUE, "coal", <<NL(2, 1, {}), NL(0, 0, {})>>))
CoalBad == Coal(2, 1, MCCoal(0, TRUE, "net", <<NL(2, 1, {}), NL(0, 0, {})>>))

\* A buffer in pages of the given sizes
Buf(c, first, linear, sizes, pkts) ==
    [linear |-> linear,
     frags |-> SelectSeq(<<Frag(<<c, first>>, 0, sizes[1]),
                           Frag(<<c, first + 1>>, 0, sizes[2]),
                           Frag(<<c, first + 2>>, 0, sizes[3])>>,
                         LAMBDA f : f.size > 0),
     pkts |-> pkts]
Paged(c, sizes, pkts) == <<Buf(c, 1, FALSE, sizes, pkts)>>
Linear(c, size, pkts) == <<Buf(c, 1, TRUE, <<size, 0, 0>>, pkts)>>

\* A packet over two page boundaries behind another one, with padding
Split(c) == Paged(c, <<5, 2, 2>>, <<Csum(2, 1, TRUE), Csum(3, 0, FALSE)>>)
Chained(c) ==
    <<Buf(c, 1, FALSE, <<4, 0, 0>>, <<Csum(2, 0, TRUE)>>),
      Buf(c, 2, FALSE, <<3, 3, 0>>, <<Cmd("start", 2), Plain(2, 0)>>)>>
Frames(c) == Paged(c, <<5, 3, 0>>, <<CoalMarked>>)
OneHollow(c) == Paged(c, <<4, 4, 0>>, <<Csum(2, 2, TRUE), Csum(2, 0, TRUE)>>)

V5Chains(c) ==
    IF c = 1
    THEN <<Split(c), Chained(c), Frames(c), OneHollow(c),
          Paged(c, <<3, 4, 0>>, <<CoalGood>>),
          Paged(c, <<2, 3, 0>>, <<CoalHollow>>),
          \* no endpoint, refused, empty
          Paged(c, <<3, 4, 1>>, <<[Plain(1, 0) EXCEPT !.mux = 9], CoalBad,
                                  Plain(0, 0)>>),
          \* the last packet is cut off, or is only a MAP header
          Paged(c, <<4, 2, 0>>, <<Csum(2, 0, TRUE), Csum(2, 0, TRUE)>>),
          Paged(c, <<4, 1, 0>>, <<Csum(2, 0, TRUE), Csum(2, 0, TRUE)>>),
          Paged(c, <<3, 0, 0>>, <<Plain(2, 2)>>),
          Linear(c, 12, <<Csum(2, 1, TRUE), CoalMarked>>),
          Linear(c, 7, <<CoalGood>>),
          Linear(c, 11, <<Cmd("end", 2), Cmd("disable", 2), CoalBad>>)>>
    ELSE <<Frames(c), OneHollow(c)>>

CmdChains(c) ==
    <<Paged(c, <<3, 3, 0>>, <<Cmd("disable", 2), Cmd("enable", 2)>>),
      Linear(c, 7, <<Cmd("disable", 2), Csum(2, 0, FALSE)>>)>>

V4Chains(c) ==
    <<Linear(c, 12, <<Plain(2, 1), Cmd("disable", 2), Plain(2, 0)>>),
     Linear(c, 11, <<Cmd("end", 2), Cmd("enable", 2),
                    [Plain(1, 0) EXCEPT !.mux = 9]>>)>>
RawChains(c) == <<Linear(c, 3, <<Plain(2, 0)>>), Linear(c, 3, <<Cmd("end", 2)>>)>>

ByFormat(c) ==
    [v5 |-> V5Chains(c), cmds |-> CmdChains(c), v4 |-> V4Chains(c),
     raw |-> RawChains(c)]
MCChains == <<ByFormat(1), ByFormat(2)>>

SymDesc == Permutations(Desc)

MCFailSets == {{}, {1}, {2}} \cup {1 .. k : k \in 2 .. 4}
=============================================================================
