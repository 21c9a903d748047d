--------------------------- MODULE MCSegmentation ---------------------------
(* Instances of Segmentation for TLC: families of coalesced frames.         *)
EXTENDS Segmentation

\* The headers of a packet
MCIp(version, len, exts, proto, tlen, fin, zero, good) ==
    [version |-> version, len |-> len, exts |-> exts, proto |-> proto,
     tlen |-> tlen, fin |-> fin, zero |-> zero, good |-> good]

Tcp4 == MCIp(4, 1, <<>>, "tcp", 1, TRUE, FALSE, TRUE)
Tcp6 == MCIp(6, 1, <<>>, "tcp", 1, FALSE, FALSE, TRUE)
Udp4(zero) == MCIp(4, 1, <<>>, "udp", 1, FALSE, zero, TRUE)

\* Frames in pages of the given lengths
MCFrame(ip, num, valid, close, nl, sizes, gro, fails) ==
    [p |-> [ip |-> ip, coal |-> [num_nlos |-> num, csum_valid |-> valid,
                                 close |-> close, nl |-> nl]],
     frags |-> [i \in 1 .. Len(sizes) |-> Frag(i, 0, sizes[i])],
     features |-> [gro |-> gro], fails |-> fails]

NL(len, num, err) == [len |-> len, num |-> num, err |-> err]

\* The data of a header whose IP and transport headers are hlen long
Data(nl, num, hlen) ==
    nl[1].num * (nl[1].len - hlen)
    + IF num > 1 THEN nl[2].num * (nl[2].len - hlen) ELSE 0

\* Every mark on every packet of one or two NLOs
Marked ==
    {MCFrame(ip, num, FALSE, "net", nl, <<2 + Data(nl, num, 2)>>, gro, {}) :
        ip \in {Tcp4, Tcp6, Udp4(TRUE), Udp4(FALSE)}, num \in {1, 2},
        nl \in {<<NL(3, a, e), NL(4, b, f)>> :
                    a \in 1 .. 3, b \in {0, 1, 3},
                    e, f \in SUBSET (0 .. ErrBits - 1)},
        gro \in BOOLEAN}

\* Allocations that fail
Starved ==
    {MCFrame(Tcp4, 2, FALSE, "net", nl, <<2 + Data(nl, 2, 2)>>, gro, fails) :
        nl \in {<<NL(3, 3, e), NL(4, 2, f)>> : e, f \in {{}, {0}, {1, 2}}},
        gro \in BOOLEAN, fails \in SUBSET (1 .. 4)}

\* Headers that do not fit the frame: counts that wrap, lengths below the
\* header's, too many or no NLOs, data in several pages that ends early
Dishonest ==
    {MCFrame(ip, num, FALSE, "net", nl, sizes, gro, fails) :
        ip \in {Tcp4, MCIp(4, 1, <<>>, "tcp", 9, FALSE, FALSE, TRUE)},
        num \in 0 .. MaxNlos + 1,
        nl \in {<<NL(k, a, {1}), NL(l, b, {0}), NL(0, 0, {})>> :
                    k \in {0, 1, 3}, l \in {1, 4}, a \in {0, 1, 5},
                    b \in {0, 2, U8 - 4}},
        sizes \in {<<1>>, <<2>>, <<2, 2>>, <<1, 1, 4>>}, gro \in BOOLEAN,
        fails \in {{}, {1}}}

\* Options, extension headers and protocols
Headers ==
    {MCFrame(ip, 1, v, c, <<NL(n + 1, a, {}), NL(0, 0, {})>>,
             sizes, gro, {}) :
        ip \in {Tcp4, Udp4(TRUE),
                MCIp(4, 2, <<>>, "tcp", 2, TRUE, FALSE, FALSE),
                MCIp(5, 1, <<>>, "tcp", 1, TRUE, FALSE, TRUE),
                MCIp(6, 1, <<>>, "icmp", 1, TRUE, FALSE, TRUE)}
            \cup {MCIp(6, 1, exts, "udp", 1, FALSE, TRUE, good) :
                    exts \in {<<>>, <<"opt">>, <<"frag">>, <<"more">>,
                              <<"more", "atomic">>, <<"opt", "none">>},
                    good \in BOOLEAN},
        n \in 2 .. 4, a \in {1, 2},
        v \in BOOLEAN, c \in {"net", "coal", "hw_pkt", "hw_time"},
        sizes \in {<<3>>, <<4>>, <<5>>, <<3, 2>>, <<2, 1, 2>>},
        gro \in BOOLEAN}

MCFamilies == {Marked, Starved, Dishonest, Headers}
=============================================================================
