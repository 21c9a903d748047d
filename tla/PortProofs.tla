----------------------------- MODULE PortProofs -----------------------------
(***************************************************************************)
(* Proofs about Port for any number of ports, devices, endpoints, readers  *)
(* and marker clients.                                                     *)
(***************************************************************************)
EXTENDS Port, FiniteSetTheorems, TLAPS

-----------------------------------------------------------------------------
(* The inductive invariant.                                                *)

\* Inside rmnet_unregister_real_device
Calling == rt.pc \in {"unreal", "dying", "freeport"}

\* Before the grace period after which endpoints are freed, between it and
\* the one after which devices are uninitialised, and after that
Early ==
    \/ rt.pc \in {"qmi_exit", "bridge", "unlist"}
    \/ rt.pc = "detach" /\ ~rt.grace
    \/ Calling /\ rt.back = "detach"

Mid ==
    \/ rt.pc = "detach" /\ rt.grace
    \/ rt.pc \in {"free", "qmi_last"}
    \/ rt.pc = "close"

Late ==
    \/ rt.pc \in {"uninit", "exit_post", "freedev"}
    \/ Calling /\ rt.back = "freedev"

\* What rtnl_lock's holder carries at each step
RtOK ==
    /\ rt.pc = "idle" => rt = NoWork
    /\ rt.grace => rt.pc \in {"detach", "close", "uninit", "dying"}
    /\ rt.pc = "newlink" =>
           /\ rt.real \in Reals /\ rt.mux \in Muxes /\ rt.es = {}
           /\ \E v \in Vnds : rt.vs = {v}
           /\ \A v \in rt.vs : vnd[v].st = "none"
           /\ port[rt.real].st = "live"
    /\ Calling => rt.gone \in Reals /\ rt.back \in {"idle", "detach", "freedev"}
    /\ Calling /\ rt.back = "idle" => rt.vs = {} /\ rt.es = {}
    /\ Early \/ Mid \/ Late => rt.real \in Reals
    /\ rt.pc = "unlist" => rt.ep \in rt.es /\ ep[rt.ep].st = "dead"
    /\ rt.es # {} =>
           Early \/ (rt.pc = "detach" /\ rt.grace) \/ rt.pc = "free"

\* The endpoints being deleted
EsOK ==
    \A e \in rt.es :
        /\ ep[e].st \in {"listed", "dead"} /\ ep[e].real = rt.real
        /\ ep[e].egress_dev \in rt.vs \cup {NULL}
        /\ ~Early => ep[e].st = "dead"
        /\ rt.op = "dellink" => \A m \in Muxes : port[rt.real].eps[m] # <<e>>

\* A mux id has at most one endpoint
ListOK ==
    \A r \in Reals, m \in Muxes :
        \/ port[r].eps[m] = <<>>
        \/ \E e \in Eps :
              /\ port[r].eps[m] = <<e>>
              /\ ep[e].real = r /\ ep[e].mux = m
              /\ ep[e].st = "listed" \/ (rt.pc = "unlist" /\ rt.ep = e)

\* An endpoint leads to the device of its port and mux id
EpOK ==
    /\ \A e \in Eps :
          /\ ep[e].st = "listed" <=> ep[e].egress_dev # NULL
          /\ ep[e].egress_dev # NULL =>
                LET v == ep[e].egress_dev
                IN  /\ v \in Vnds /\ ep[e].real \in Reals /\ ep[e].mux \in Muxes
                    /\ vnd[v].st = "reg"
                    /\ vnd[v].real = ep[e].real /\ vnd[v].mux = ep[e].mux
                    /\ \/ port[ep[e].real].eps[ep[e].mux] = <<e>>
                       \/ e \in rt.es
                    /\ v \in rt.vs => e \in rt.es
    /\ \A e, f \in Eps :
          ep[e].egress_dev # NULL /\ ep[e].egress_dev = ep[f].egress_dev => e = f

\* A device that is not being deleted is led to; one that is goes through
\* closing, uninit and free
VndOK ==
    \A v \in Vnds :
        /\ vnd[v].st = "none" => vnd[v] = NoVnd
        /\ vnd[v].st \in {"reg", "closed"} => vnd[v].qos = "live"
        /\ vnd[v].st = "uninit" => vnd[v].qos # "live"
        /\ vnd[v].timer => vnd[v].qos = "live"
        /\ vnd[v].st # "none" => vnd[v].real \in Reals /\ vnd[v].mux \in Muxes
        /\ v \notin rt.vs => vnd[v].st \in {"none", "reg"}
        /\ v \notin rt.vs /\ vnd[v].st = "reg" =>
              \E e \in Eps : /\ port[vnd[v].real].eps[vnd[v].mux] = <<e>>
                             /\ ep[e].egress_dev = v
        /\ v \in rt.vs /\ rt.pc # "newlink" =>
              /\ vnd[v].real = rt.real
              /\ Early => vnd[v].st = "reg"
              /\ Mid /\ rt.pc # "close" => vnd[v].st = "reg"
              /\ Mid => vnd[v].st \in {"reg", "closed"}
              /\ rt.pc = "close" /\ rt.grace => vnd[v].st = "closed"
              /\ Late => vnd[v].st \in {"closed", "uninit"}
              /\ Late /\ (rt.pc = "uninit" => rt.grace) => vnd[v].st = "uninit"

\* nr_rmnet_devs counts the endpoints that lead to a device
Leading(r) == {e \in Eps : ep[e].egress_dev # NULL /\ ep[e].real = r}

NrOK == \A r \in Reals : port[r].nr = Cardinality(Leading(r))

\* A port in bridge mode has another port at the other end
OtherEnd(x, r) == x.bridge_ep # r /\ (x.mode = "bridge" => x.bridge_ep # NULL)

\* A port is given up with no device left, by the one who calls for it
PortOK ==
    /\ \A r \in Reals :
          /\ port[r].st = "none" => port[r] = NoPort
          /\ port[r].st = "dying" =>
                rt.pc \in {"dying", "freeport"} /\ rt.gone = r
          /\ OtherEnd(port[r], r)
    /\ rt.pc = "unreal" => port[rt.gone].st = "live"
    /\ rt.pc \in {"dying", "freeport"} =>
          port[rt.gone].st = "dying" /\ port[rt.gone].nr = 0
    /\ Early \/ Mid \/ rt.pc \in {"uninit", "exit_post"} =>
          port[rt.real].st = "live"
    /\ Calling /\ rt.back = "detach" => rt.gone # rt.real
    /\ Calling /\ rt.back = "freedev" => rt.gone = rt.real

\* What a reader k with state x holds is not freed before the reader is out
ReaderOK(k, x) ==
    /\ x.pc = "idle" <=> x = Away
    /\ x.pc # "idle" => x.real \in Reals
    /\ x.pc \in {"ep", "dev", "qos"} => x.ep \in Eps
    /\ x.pc \in {"port", "sent"} => x.ep = NULL
    /\ x.pc \in {"port", "ep"} => x.dev = NULL
    /\ x.pc \in {"sent", "qos"} => x.dev \in Vnds
    /\ x.pc = "dev" => x.dev \in Vnds \/ crash # NULL
    /\ x.real # NULL =>
          \/ port[x.real].st = "live"
          \/ /\ port[x.real].st = "dying" /\ rt.pc = "dying"
             /\ rt.grace => k \in wait
    /\ x.ep # NULL =>
          /\ ep[x.ep].st # "none"
          /\ x.ep \in rt.es =>
                /\ rt.pc # "free"
                /\ rt.pc = "detach" /\ rt.grace => k \in wait
    /\ x.dev # NULL =>
          /\ vnd[x.dev].st \in {"reg", "closed"}
          /\ x.dev \in rt.vs =>
                /\ ~Late
                /\ rt.pc = "close" /\ rt.grace => k \in wait

ReadOK == \A k \in Readers : ReaderOK(k, rd[k])

CrashOK ==
    /\ crash # "timer"
    /\ crash = "egress" =>
          \E k \in Readers : rd[k].ep # NULL /\ ep[rd[k].ep].st = "dead"

StructInv == RtOK /\ EsOK /\ ListOK /\ EpOK /\ VndOK /\ NrOK /\ PortOK

PortInv == TypeOK /\ (misled \/ (StructInv /\ ReadOK /\ CrashOK))

-----------------------------------------------------------------------------
(* Types.                                                                  *)

PortRec ==
    [st : {"none", "live", "dying"}, mode : {"none", "vnd", "bridge"},
     bridge_ep : Reals \cup {NULL}, nr : Nat,
     eps : [Muxes -> Seq(Eps)], built : BOOLEAN, qmi : BOOLEAN,
     dl : Seq(Clients)]

VndRec ==
    [st : {"none", "reg", "closed", "uninit"},
     real : Reals \cup {NULL}, mux : Muxes \cup {NULL},
     qos : {"none", "live", "cleanup"}, timer : BOOLEAN]

EpRec ==
    [st : {"none", "listed", "dead"}, real : Reals \cup {NULL},
     mux : Muxes \cup {NULL}, egress_dev : Vnds \cup {NULL}]

RtRec ==
    [op : {"none", "dellink", "force"}, pc : Steps, grace : BOOLEAN,
     real : Reals \cup {NULL}, vs : SUBSET Vnds, es : SUBSET Eps,
     ep : Eps \cup {NULL}, mux : Muxes \cup {NULL},
     gone : Reals \cup {NULL}, back : Steps]

RdRec ==
    [kind : {"none", "rx", "qos", "tx"},
     pc : {"idle", "port", "sent", "ep", "dev", "qos"},
     real : Reals \cup {NULL}, ep : Eps \cup {NULL}, dev : Vnds \cup {NULL}]

LEMMA Types ==
    TypeOK <=> /\ env \in Envs /\ port \in [Reals -> PortRec]
               /\ vnd \in [Vnds -> VndRec] /\ ep \in [Eps -> EpRec]
               /\ rt \in RtRec /\ wait \subseteq Readers
               /\ rd \in [Readers -> RdRec]
               /\ {misled, mixed, nomem} \subseteq BOOLEAN
               /\ crash \in {NULL, "half", "port", "egress", "timer"}
BY DEF TypeOK, PortRec, VndRec, EpRec, RtRec, RdRec

\* An element is put in or taken out
LEMMA InsertSeq ==
    ASSUME NEW S, NEW s \in Seq(S), NEW i \in 1 .. Len(s) + 1, NEW x \in S
    PROVE  /\ InsertAt(s, i, x) \in Seq(S)
           /\ Len(InsertAt(s, i, x)) = Len(s) + 1
           /\ \A j \in 1 .. Len(s) + 1 :
                 InsertAt(s, i, x)[j] = IF j < i THEN s[j]
                                        ELSE IF j = i THEN x ELSE s[j - 1]
<1> DEFINE a == SubSeq(s, 1, i - 1)
           z == SubSeq(s, i, Len(s))
           h == a \o <<x>>
<1>1. a \in Seq(S) /\ Len(a) = i - 1 /\ \A j \in 1 .. i - 1 : a[j] = s[j]
  OBVIOUS
<1>2. /\ z \in Seq(S) /\ Len(z) = Len(s) - i + 1
      /\ \A j \in 1 .. Len(s) - i + 1 : z[j] = s[i + j - 1]
  OBVIOUS
<1> HIDE DEF a, z
<1>3. /\ h \in Seq(S) /\ Len(h) = i /\ h[i] = x
      /\ \A j \in 1 .. i - 1 : h[j] = s[j]
  BY <1>1
<1>4. InsertAt(s, i, x) = h \o z
  BY DEF InsertAt, a, z
<1> HIDE DEF h
<1>a. i \in Nat /\ i >= 1 /\ i <= Len(s) + 1 /\ Len(s) \in Nat
  OBVIOUS
<1>b. h \in Seq(S) /\ z \in Seq(S)
  BY <1>2, <1>3
<1>c. h \o z \in Seq(S)
  BY <1>b
<1>d. Len(h \o z) = Len(h) + Len(z)
  BY <1>b
<1>e. \A j \in 1 .. Len(h) + Len(z) :
         (h \o z)[j] = IF j <= Len(h) THEN h[j] ELSE z[j - Len(h)]
  BY <1>b
<1>5. /\ h \o z \in Seq(S) /\ Len(h \o z) = Len(h) + Len(z)
      /\ \A j \in 1 .. Len(h) + Len(z) :
            (h \o z)[j] = IF j <= Len(h) THEN h[j] ELSE z[j - Len(h)]
  BY <1>c, <1>d, <1>e
<1>6. Len(h) + Len(z) = Len(s) + 1
  BY <1>2, <1>3, <1>a
<1>7. PICK w : w = h \o z
  OBVIOUS
<1>8. ASSUME NEW j \in 1 .. Len(s) + 1
      PROVE  w[j] = IF j < i THEN s[j] ELSE IF j = i THEN x ELSE s[j - 1]
  <2>1. w[j] = IF j <= i THEN h[j] ELSE z[j - i]
    BY <1>3, <1>5, <1>6, <1>7
  <2>2. CASE j < i
    BY <2>1, <2>2, <1>3, <1>a
  <2>3. CASE j = i
    BY <2>1, <2>3, <1>3, <1>a
  <2>4. CASE j > i
    <3>1. j - i \in 1 .. Len(s) - i + 1 /\ i + (j - i) - 1 = j - 1
      BY <2>4, <1>a
    <3>2. w[j] = z[j - i] /\ ~(j < i) /\ j # i
      BY <2>1, <2>4, <1>a
    <3> QED
      BY <3>1, <3>2, <1>2
  <2> QED
    BY <2>2, <2>3, <2>4, <1>a
<1>9. w \in Seq(S) /\ Len(w) = Len(s) + 1 /\ InsertAt(s, i, x) = w
  BY <1>4, <1>5, <1>6, <1>7
<1> QED
  BY <1>8, <1>9

LEMMA RemoveSeq ==
    ASSUME NEW S, NEW s \in Seq(S), NEW i \in 1 .. Len(s)
    PROVE  /\ RemoveAt(s, i) \in Seq(S)
           /\ Len(RemoveAt(s, i)) = Len(s) - 1
           /\ \A j \in 1 .. Len(s) - 1 :
                 RemoveAt(s, i)[j] = IF j < i THEN s[j] ELSE s[j + 1]
<1> DEFINE a == SubSeq(s, 1, i - 1)
           z == SubSeq(s, i + 1, Len(s))
<1>1. a \in Seq(S) /\ Len(a) = i - 1 /\ \A j \in 1 .. i - 1 : a[j] = s[j]
  OBVIOUS
<1>2. /\ z \in Seq(S) /\ Len(z) = Len(s) - i
      /\ \A j \in 1 .. Len(s) - i : z[j] = s[i + j]
  OBVIOUS
<1>3. RemoveAt(s, i) = a \o z
  BY DEF RemoveAt
<1> HIDE DEF a, z
<1>4. /\ a \o z \in Seq(S) /\ Len(a \o z) = Len(s) - 1
      /\ \A j \in 1 .. i - 1 : (a \o z)[j] = a[j]
      /\ \A j \in i .. Len(s) - 1 : (a \o z)[j] = z[j - i + 1]
  <2> a \in Seq(S) /\ z \in Seq(S)
    BY <1>1, <1>2
  <2>1. a \o z \in Seq(S) /\ Len(a \o z) = Len(a) + Len(z)
    OBVIOUS
  <2>2. \A j \in 1 .. Len(a) : (a \o z)[j] = a[j]
    BY <1>1, <1>2
  <2>3. \A j \in Len(a) + 1 .. Len(a) + Len(z) : (a \o z)[j] = z[j - Len(a)]
    BY <1>1, <1>2
  <2> QED
    BY <1>1, <1>2, <2>1, <2>2, <2>3
<1>5. \A j \in i .. Len(s) - 1 : (a \o z)[j] = s[j + 1]
  BY <1>2, <1>4
<1> QED
  BY <1>1, <1>3, <1>4, <1>5

LEMMA UnlistedType ==
    ASSUME NEW eps \in [Muxes -> Seq(Eps)], NEW e
    PROVE  Unlisted(eps, e) \in [Muxes -> Seq(Eps)]
<1>1. ASSUME NEW m \in Muxes, Places(eps[m], e) # {}
      PROVE  RemoveAt(eps[m], CHOOSE i \in Places(eps[m], e) : TRUE) \in Seq(Eps)
  <2>1. (CHOOSE i \in Places(eps[m], e) : TRUE) \in Places(eps[m], e)
    BY <1>1
  <2>2. (CHOOSE i \in Places(eps[m], e) : TRUE) \in 1 .. Len(eps[m])
    BY <2>1 DEF Places
  <2> QED
    BY <2>2, RemoveSeq
<1> QED
  BY <1>1 DEF Unlisted

LEMMA ListedType ==
    ASSUME NEW eps \in [Muxes -> Seq(Eps)], NEW e \in Eps, NEW m \in Muxes
    PROVE  Listed(eps, e, m) \in [Muxes -> Seq(Eps)]
<1>1. <<e>> \o eps[m] \in Seq(Eps)
  OBVIOUS
<1> QED
  BY <1>1 DEF Listed

LEMMA NullTypes ==
    /\ NoPort \in PortRec /\ NoVnd \in VndRec /\ NoEp \in EpRec
    /\ NoWork \in RtRec /\ Away \in RdRec
BY DEF NoPort, NoVnd, NoEp, NoWork, Away, PortRec, VndRec, EpRec, RtRec, RdRec,
       Steps

\* rmnet_get_endpoint
LEMMA GetType ==
    ASSUME TypeOK, NEW r \in Reals, NEW m \in Muxes
    PROVE  GetEndpoint(r, m) \in Eps \cup {NULL}
BY Types DEF GetEndpoint, PortRec

LEMMA GotoType ==
    ASSUME TypeOK, NEW step \in Steps, Goto(step)
    PROVE  rt' \in RtRec
BY Types, NullTypes DEF Goto, RtRec

-----------------------------------------------------------------------------
(* Readers.                                                                *)

LEMMA StructFrame ==
    ASSUME StructInv, UNCHANGED <<port, vnd, ep, rt>>
    PROVE  StructInv'
BY DEF StructInv, RtOK, EsOK, ListOK, EpOK, VndOK, NrOK, PortOK, Leading,
       Early, Mid, Late, Calling

\* The other readers do not notice what one does
LEMMA OthersRead ==
    ASSUME TypeOK, ReadOK, NEW j \in Readers, NEW new,
           rd' = [rd EXCEPT ![j] = new], UNCHANGED <<port, vnd, ep, rt>>,
           wait' \in {wait, wait \ {j}}, crash = NULL,
           ReaderOK(j, new)'
    PROVE  ReadOK'
<1>1. SUFFICES ASSUME NEW k \in Readers, k # j
               PROVE  ReaderOK(k, rd[k])'
  BY Types DEF ReadOK
<1>2. rd'[k] = rd[k] /\ ReaderOK(k, rd[k]) /\ (k \in wait => k \in wait')
  BY <1>1, Types DEF ReadOK
<1>3. Late' <=> Late
  BY DEF Late, Calling
<1> QED
  BY <1>2, <1>3 DEF ReaderOK

\* The endpoint that rmnet_get_endpoint finds
LEMMA FoundEp ==
    ASSUME TypeOK, StructInv, NEW r \in Reals, NEW m \in Muxes,
           GetEndpoint(r, m) # NULL
    PROVE  /\ GetEndpoint(r, m) \in Eps
           /\ port[r].eps[m] = <<GetEndpoint(r, m)>>
           /\ ep[GetEndpoint(r, m)].real = r /\ ep[GetEndpoint(r, m)].mux = m
           /\ ep[GetEndpoint(r, m)].st \in {"listed", "dead"}
           /\ \/ ep[GetEndpoint(r, m)].st = "listed"
              \/ rt.pc = "unlist" /\ rt.ep = GetEndpoint(r, m)
           /\ GetEndpoint(r, m) \in rt.es => Early
<1> DEFINE e == GetEndpoint(r, m)
<1>1. port[r].eps[m] # <<>> /\ e = Head(port[r].eps[m])
  BY DEF GetEndpoint
<1>2. PICK f \in Eps : /\ port[r].eps[m] = <<f>> /\ ep[f].real = r /\ ep[f].mux = m
                       /\ ep[f].st = "listed" \/ (rt.pc = "unlist" /\ rt.ep = f)
  BY <1>1 DEF StructInv, ListOK
<1>3. e = f
  BY <1>1, <1>2
<1>4. ep[f].st \in {"listed", "dead"}
  BY <1>2 DEF StructInv, RtOK
<1>5. f \in rt.es => Early
  BY <1>2 DEF StructInv, EsOK, Early
<1> HIDE DEF e
<1> QED
  BY <1>2, <1>3, <1>4, <1>5 DEF e

Inv == StructInv /\ ReadOK /\ CrashOK

\* A reader that leads to another state of its own
LEMMA ReadsKeep ==
    ASSUME TypeOK, Inv, crash = NULL, NEW j \in Readers, NEW new \in RdRec,
           Reads(j, new), wait' \in {wait, wait \ {j}}, ReaderOK(j, new)',
           crash' \in {NULL, "egress"},
           crash' = "egress" => new.ep # NULL /\ ep[new.ep].st = "dead"
    PROVE  TypeOK' /\ Inv'
<1>1. UNCHANGED <<env, port, vnd, ep, rt, hist>> /\ rd' = [rd EXCEPT ![j] = new]
  BY DEF Reads
<1>2. TypeOK'
  <2>1. rd' \in [Readers -> RdRec]
    BY <1>1, Types
  <2>2. wait' \subseteq Readers
    BY Types
  <2> QED
    BY <1>1, <2>1, <2>2, Types DEF hist, TypeOK, RdRec
<1>3. StructInv'
  BY <1>1, StructFrame DEF Inv
<1>4. ReadOK'
  BY <1>1, OthersRead DEF Inv
<1>5. CrashOK'
  <2>1. crash' # "timer"
    BY NullAssumption
  <2>2. rd'[j] = new
    BY <1>1, Types
  <2> QED
    BY <1>1, <2>1, <2>2 DEF CrashOK
<1> QED
  BY <1>2, <1>3, <1>4, <1>5 DEF Inv

LEMMA LeaveKeeps ==
    ASSUME TypeOK, Inv, crash = NULL, NEW k \in Readers, Leave(k)
    PROVE  TypeOK' /\ Inv'
<1>1. Away \in RdRec /\ Reads(k, Away) /\ wait' = wait \ {k} /\ crash' = NULL
  BY NullTypes DEF Leave
<1>2. ReaderOK(k, Away)'
  BY NullAssumption DEF ReaderOK, Away
<1> QED
  BY <1>1, <1>2, NullAssumption, ReadsKeep

LEMMA EnterKeeps ==
    ASSUME TypeOK, Inv, crash = NULL, NEW k \in Readers,
           NEW kind \in {"rx", "qos"}, NEW r \in Reals, Enter(k, kind, r)
    PROVE  TypeOK' /\ Inv'
<1> DEFINE new == [Away EXCEPT !.kind = kind, !.pc = "port", !.real = r]
<1>1. /\ new \in RdRec /\ new.pc = "port" /\ new.real = r /\ new.ep = NULL
      /\ new.dev = NULL
  BY DEF RdRec, Away
<1>2. /\ Reads(k, new) /\ wait' = wait /\ crash' = NULL /\ port[r].st = "live"
      /\ UNCHANGED <<port, rt>>
  BY DEF Enter, Reads
<1>3. new # Away
  BY <1>1 DEF Away
<1> HIDE DEF new
<1>4. ReaderOK(k, new)'
  BY <1>1, <1>2, <1>3, NullAssumption DEF ReaderOK
<1> QED
  BY <1>1, <1>2, <1>4, NullAssumption, ReadsKeep

LEMMA EgressKeeps ==
    ASSUME TypeOK, Inv, crash = NULL, NEW k \in Readers, NEW v \in Vnds,
           EnterEgress(k, v)
    PROVE  TypeOK' /\ Inv'
<1> DEFINE r == vnd[v].real
           upd == [Away EXCEPT !.kind = "tx", !.pc = "sent", !.real = r, !.dev = v]
<1>n. PICK new : new = upd
  OBVIOUS
<1>0. vnd[v].st = "reg" /\ r \in Reals
  BY DEF EnterEgress, Inv, StructInv, VndOK
<1>1. /\ new \in RdRec /\ new.pc = "sent" /\ new.real = r /\ new.ep = NULL
      /\ new.dev = v
  BY <1>0, <1>n DEF RdRec, Away
<1>2. /\ Reads(k, new) /\ wait' = wait /\ crash' = NULL /\ port[r].st = "live"
      /\ UNCHANGED <<port, rt, vnd>>
  BY <1>n DEF EnterEgress, Reads
<1>3. new # Away
  BY <1>1 DEF Away
<1>5. v \in rt.vs => ~Late /\ ~(rt.pc = "close" /\ rt.grace)
  BY <1>0 DEF Inv, StructInv, VndOK, RtOK, Late, Calling
<1>6. Late' <=> Late
  BY <1>2 DEF Late, Calling
<1> HIDE DEF upd, r
<1>4. ReaderOK(k, new)'
  BY <1>0, <1>1, <1>2, <1>3, <1>5, <1>6, NullAssumption DEF ReaderOK
<1> QED
  BY <1>1, <1>2, <1>4, NullAssumption, ReadsKeep

LEMMA LookupKeeps ==
    ASSUME TypeOK, Inv, crash = NULL, NEW k \in Readers, NEW m \in Muxes,
           Lookup(k, m)
    PROVE  TypeOK' /\ Inv'
<1> DEFINE r == rd[k].real
           e == GetEndpoint(r, m)
           upd == [rd[k] EXCEPT !.pc = "ep", !.ep = e]
<1>n. PICK new : new = upd
  OBVIOUS
<1>0. /\ rd[k] \in RdRec /\ rd[k].pc = "port" /\ ReaderOK(k, rd[k]) /\ e # NULL
      /\ Reads(k, new) /\ wait' = wait /\ crash' = NULL
      /\ UNCHANGED <<port, rt, vnd, ep>>
  BY <1>n, Types DEF Lookup, Inv, ReadOK, Reads
<1>1. r \in Reals /\ rd[k].dev = NULL
  BY <1>0 DEF ReaderOK
<1>2. e \in Eps /\ ep[e].st \in {"listed", "dead"} /\ (e \in rt.es => Early)
  BY <1>0, <1>1, FoundEp DEF Inv
<1>3. /\ new \in RdRec /\ new.pc = "ep" /\ new.real = r /\ new.ep = e
      /\ new.dev = NULL
  BY <1>0, <1>1, <1>2, <1>n DEF RdRec
<1>4. new # Away
  BY <1>3 DEF Away
<1>5. e \in rt.es => rt.pc # "free" /\ ~(rt.pc = "detach" /\ rt.grace)
  BY <1>2 DEF Early, Calling
<1> HIDE DEF upd, r, e
<1>6. ReaderOK(k, new)'
  <2>1. port[r].st = "live" \/ /\ port[r].st = "dying" /\ rt.pc = "dying"
                               /\ rt.grace => k \in wait
    BY <1>0, <1>1, NullAssumption DEF ReaderOK, r
  <2> QED
    BY <1>0, <1>1, <1>2, <1>3, <1>4, <1>5, <2>1, NullAssumption DEF ReaderOK
<1> QED
  BY <1>0, <1>3, <1>6, NullAssumption, ReadsKeep

LEMMA ReadDevKeeps ==
    ASSUME TypeOK, Inv, crash = NULL, NEW k \in Readers, ReadEgressDev(k)
    PROVE  TypeOK' /\ Inv'
<1> DEFINE e == rd[k].ep
           v == ep[e].egress_dev
           upd == [rd[k] EXCEPT !.pc = "dev", !.dev = v]
<1>n. PICK new : new = upd
  OBVIOUS
<1>0. /\ rd[k] \in RdRec /\ rd[k].pc = "ep" /\ ReaderOK(k, rd[k])
      /\ Reads(k, new) /\ wait' = wait
      /\ crash' = IF v = NULL THEN "egress" ELSE crash
      /\ UNCHANGED <<port, rt, vnd, ep>>
  BY <1>n, Types DEF ReadEgressDev, Inv, ReadOK, Reads
<1>1. rd[k].real \in Reals /\ e \in Eps /\ ep[e].st # "none" /\ ep[e] \in EpRec
  BY <1>0, NullAssumption, Types DEF ReaderOK
<1>2. v \in Vnds \cup {NULL}
  BY <1>1 DEF EpRec
<1>3. v # NULL => /\ vnd[v].st = "reg" /\ ep[e].st = "listed"
                  /\ v \in rt.vs => e \in rt.es /\ Early
  BY <1>1 DEF Inv, StructInv, EpOK, EsOK
<1>4. v = NULL => ep[e].st = "dead"
  BY <1>1 DEF Inv, StructInv, EpOK, EpRec
<1>5. /\ new \in RdRec /\ new.pc = "dev" /\ new.real = rd[k].real /\ new.ep = e
      /\ new.dev = v
  BY <1>0, <1>2, <1>n DEF RdRec
<1>6. new # Away
  BY <1>5 DEF Away
<1>7. Early => ~Late /\ ~(rt.pc = "close" /\ rt.grace)
  BY DEF Early, Late, Calling, Inv, StructInv, RtOK
<1>8. Late' <=> Late
  BY <1>0 DEF Late, Calling
<1> HIDE DEF upd, e, v
<1>9. ReaderOK(k, new)'
  <2>1. LET r == rd[k].real IN
        port[r].st = "live" \/ /\ port[r].st = "dying" /\ rt.pc = "dying"
                               /\ rt.grace => k \in wait
    BY <1>0, <1>1, NullAssumption DEF ReaderOK
  <2>2. e \in rt.es => /\ rt.pc # "free"
                       /\ rt.pc = "detach" /\ rt.grace => k \in wait
    BY <1>0, <1>1, NullAssumption DEF ReaderOK, e
  <2> QED
    BY <1>0, <1>1, <1>2, <1>3, <1>5, <1>6, <1>7, <1>8, <2>1, <2>2, NullAssumption
       DEF ReaderOK
<1> QED
  BY <1>0, <1>1, <1>4, <1>5, <1>9, NullAssumption, ReadsKeep

LEMMA QosPtKeeps ==
    ASSUME TypeOK, Inv, crash = NULL, NEW k \in Readers, GetQosPt(k)
    PROVE  TypeOK' /\ Inv'
<1> DEFINE upd == [rd[k] EXCEPT !.pc = "qos"]
<1>n. PICK new : new = upd
  OBVIOUS
<1>0. /\ rd[k] \in RdRec /\ rd[k].pc = "dev" /\ ReaderOK(k, rd[k])
      /\ Reads(k, new) /\ wait' = wait /\ crash' = NULL
      /\ UNCHANGED <<port, rt, vnd, ep>>
  BY <1>n, Types DEF GetQosPt, Inv, ReadOK, Reads
<1>1. /\ new \in RdRec /\ new.pc = "qos" /\ new.real = rd[k].real
      /\ new.ep = rd[k].ep /\ new.dev = rd[k].dev
  BY <1>0, <1>n DEF RdRec
<1>2. new # Away
  BY <1>1 DEF Away
<1>3. Late' <=> Late
  BY <1>0 DEF Late, Calling
<1> HIDE DEF upd
<1>4. ReaderOK(k, new)'
  BY <1>0, <1>1, <1>2, <1>3 DEF ReaderOK
<1> QED
  BY <1>0, <1>1, <1>4, NullAssumption, ReadsKeep

\* What the invariant looks at in a port and in a device
SamePort(r) ==
    /\ port'[r].st = port[r].st /\ port'[r].nr = port[r].nr
    /\ port'[r].eps = port[r].eps /\ OtherEnd(port'[r], r)
    /\ port[r].st = "none" => port'[r] = NoPort

SameVnd(v) ==
    /\ vnd'[v].st = vnd[v].st /\ vnd'[v].real = vnd[v].real
    /\ vnd'[v].mux = vnd[v].mux /\ vnd'[v].qos = vnd[v].qos
    /\ vnd'[v].timer => vnd[v].qos = "live"
    /\ vnd[v].st = "none" => vnd'[v] = NoVnd

LEMMA SameKeeps ==
    ASSUME TypeOK, Inv, crash = NULL, UNCHANGED <<ep, rt, rd, wait>>,
           \A r \in Reals : SamePort(r), \A v \in Vnds : SameVnd(v),
           crash' \in {NULL, "half", "port"}
    PROVE  Inv'
<1>0. /\ Early' <=> Early
      /\ Mid' <=> Mid
      /\ Late' <=> Late
      /\ Calling' <=> Calling
  BY DEF Early, Mid, Late, Calling
<1>1. RtOK'
  BY <1>0, Types DEF Inv, StructInv, RtOK, SamePort, SameVnd, RtRec
<1>2. EsOK'
  <2> rt.es # {} => rt.real \in Reals
    BY DEF Inv, StructInv, RtOK, Mid
  <2> QED
    BY <1>0 DEF Inv, StructInv, EsOK, SamePort
<1>3. ListOK'
  BY DEF Inv, StructInv, ListOK, SamePort
<1>4. EpOK'
  BY DEF Inv, StructInv, EpOK, SamePort, SameVnd
<1>5. VndOK'
  <2> SUFFICES ASSUME NEW v \in Vnds
               PROVE  VndOK!(v)'
    BY DEF VndOK
  <2>1. VndOK!(v) /\ SameVnd(v)
    BY DEF Inv, StructInv, VndOK
  <2>2. v \notin rt.vs /\ vnd[v].st = "reg" =>
          port'[vnd[v].real].eps = port[vnd[v].real].eps
    BY <2>1 DEF SamePort
  <2> QED
    BY <1>0, <2>1, <2>2 DEF SameVnd
<1>6. NrOK'
  BY DEF Inv, StructInv, NrOK, Leading, SamePort
<1>7. PortOK'
  <2>1. /\ rt.pc \in {"unreal", "dying", "freeport"} => rt.gone \in Reals
        /\ Early \/ Mid \/ rt.pc \in {"uninit", "exit_post"} => rt.real \in Reals
    BY DEF Inv, StructInv, RtOK, Calling, Late
  <2>2. PortOK
    BY DEF Inv, StructInv
  <2> QED
    BY <1>0, <2>1, <2>2 DEF PortOK, SamePort
<1>8. ReadOK'
  <2> SUFFICES ASSUME NEW k \in Readers PROVE ReaderOK(k, rd[k])'
    BY DEF ReadOK
  <2>1. ReaderOK(k, rd[k]) /\ rd[k] \in RdRec
    BY Types DEF Inv, ReadOK
  <2> QED
    BY <1>0, <2>1 DEF ReaderOK, SamePort, SameVnd, RdRec
<1>9. CrashOK'
  BY NullAssumption DEF CrashOK
<1> QED
  BY <1>1, <1>2, <1>3, <1>4, <1>5, <1>6, <1>7, <1>8, <1>9 DEF Inv, StructInv

-----------------------------------------------------------------------------
(* Steps that change what the invariant does not look at.                  *)

LEMMA TypesNext ==
    ASSUME TypeOK, UNCHANGED env, port' \in [Reals -> PortRec],
           vnd' \in [Vnds -> VndRec], ep' \in [Eps -> EpRec], rt' \in RtRec,
           wait' \subseteq Readers, rd' \in [Readers -> RdRec],
           misled' \in BOOLEAN, mixed' \in BOOLEAN, nomem' \in BOOLEAN,
           crash' \in {NULL, "half", "port", "egress", "timer"}
    PROVE  TypeOK'
BY DEF TypeOK, PortRec, VndRec, EpRec, RtRec, RdRec

LEMMA HistSame ==
    ASSUME TypeOK, UNCHANGED hist
    PROVE  /\ misled' = misled /\ mixed' = mixed /\ nomem' = nomem
           /\ misled' \in BOOLEAN /\ mixed' \in BOOLEAN /\ nomem' \in BOOLEAN
BY DEF TypeOK, hist

LEMMA PortSame == Inv /\ UNCHANGED port => \A r \in Reals : SamePort(r)
BY DEF Inv, StructInv, PortOK, SamePort

LEMMA VndSame == Inv /\ UNCHANGED vnd => \A v \in Vnds : SameVnd(v)
BY DEF Inv, StructInv, VndOK, SameVnd

LEMMA TimerKeeps ==
    ASSUME TypeOK, Inv, crash = NULL, NEW v \in Vnds, NEW armed \in BOOLEAN,
           vnd' = [vnd EXCEPT ![v].timer = armed], vnd[v].qos = "live",
           UNCHANGED <<env, port, ep, rt, wait, rd, hist, crash>>
    PROVE  TypeOK' /\ Inv'
<1>1. vnd[v] \in VndRec /\ vnd[v].st # "none"
  BY Types DEF Inv, StructInv, VndOK, NoVnd
<1>2. /\ vnd' \in [Vnds -> VndRec]
      /\ \A w \in Vnds : w # v => vnd'[w] = vnd[w]
      /\ vnd'[v].st = vnd[v].st /\ vnd'[v].real = vnd[v].real
      /\ vnd'[v].mux = vnd[v].mux /\ vnd'[v].qos = vnd[v].qos
  BY <1>1, Types DEF VndRec
<1>3. TypeOK'
  BY <1>2, HistSame, Types, TypesNext
<1>4. \A w \in Vnds : SameVnd(w)
  BY <1>1, <1>2 DEF SameVnd, Inv, StructInv, VndOK
<1> QED
  BY <1>3, <1>4, PortSame, SameKeeps

LEMMA WatchdogAddKeeps ==
    ASSUME TypeOK, Inv, crash = NULL, NEW k \in Readers, WatchdogAdd(k)
    PROVE  TypeOK' /\ Inv'
<1> DEFINE v == rd[k].dev
<1>1. v \in Vnds /\ vnd[v].st \in {"reg", "closed"}
  BY NullAssumption DEF WatchdogAdd, Inv, ReadOK, ReaderOK
<1>2. vnd[v].qos = "live"
  BY <1>1 DEF Inv, StructInv, VndOK
<1> QED
  BY <1>1, <1>2, TimerKeeps DEF WatchdogAdd

LEMMA WatchdogFnKeeps ==
    ASSUME TypeOK, Inv, crash = NULL, NEW v \in Vnds, WatchdogFn(v)
    PROVE  TypeOK' /\ Inv'
<1>1. vnd[v].qos = "live"
  BY DEF WatchdogFn, Inv, StructInv, VndOK
<1> QED
  BY <1>1, TimerKeeps DEF WatchdogFn

\* One port changes in what the invariant does not look at
LEMMA OnePortKeeps ==
    ASSUME TypeOK, Inv, crash = NULL, NEW r \in Reals, NEW x \in PortRec,
           port' = [port EXCEPT ![r] = x], port[r].st # "none",
           x.st = port[r].st, x.nr = port[r].nr, x.eps = port[r].eps,
           x.bridge_ep = port[r].bridge_ep, x.mode = port[r].mode,
           crash' \in {NULL, "half", "port"},
           UNCHANGED <<env, vnd, ep, rt, wait, rd, hist>>
    PROVE  TypeOK' /\ Inv'
<1>1. /\ port' \in [Reals -> PortRec] /\ port'[r] = x
      /\ \A q \in Reals : q # r => port'[q] = port[q]
  BY Types
<1>2. TypeOK'
  BY <1>1, HistSame, Types, TypesNext
<1>3. \A q \in Reals : SamePort(q)
  BY <1>1 DEF SamePort, Inv, StructInv, PortOK, OtherEnd
<1> QED
  BY <1>2, <1>3, VndSame, SameKeeps

LEMMA ClientSetupKeeps ==
    ASSUME TypeOK, Inv, crash = NULL, NEW v \in Vnds, ClientSetup(v)
    PROVE  TypeOK' /\ Inv'
<1> DEFINE r == vnd[v].real
           x == [port[r] EXCEPT !.qmi = TRUE]
<1>1. r \in Reals /\ port[r].st = "live" /\ port[r] \in PortRec
  BY Types DEF ClientSetup, Inv, StructInv, VndOK
<1>2. /\ x \in PortRec /\ x.st = port[r].st /\ x.nr = port[r].nr
      /\ x.eps = port[r].eps /\ x.bridge_ep = port[r].bridge_ep
        /\ x.mode = port[r].mode
  BY <1>1 DEF PortRec
<1>3. /\ port' = [port EXCEPT ![r] = x]
      /\ UNCHANGED <<env, vnd, ep, rt, wait, rd, hist, crash>>
  BY DEF ClientSetup
<1> HIDE DEF r, x
<1> QED
  BY <1>1, <1>2, <1>3, OnePortKeeps

LEMMA DlKeeps ==
    ASSUME TypeOK, Inv, crash = NULL, NEW r \in Reals, NEW dl \in Seq(Clients),
           port[r].st = "live", port' \in {port, [port EXCEPT ![r].dl = dl]},
           crash' \in {NULL, "half"},
           UNCHANGED <<env, vnd, ep, rt, wait, rd, hist>>
    PROVE  TypeOK' /\ Inv'
<1>1. CASE port' = port
  <2>1. TypeOK'
    BY <1>1, HistSame, Types, TypesNext
  <2> QED
    BY <1>1, <2>1, VndSame, PortSame, SameKeeps
<1>2. CASE port' = [port EXCEPT ![r].dl = dl]
  <2> DEFINE x == [port[r] EXCEPT !.dl = dl]
  <2>1. port[r] \in PortRec
    BY Types
  <2>2. /\ x \in PortRec /\ x.st = port[r].st /\ x.nr = port[r].nr
        /\ x.eps = port[r].eps /\ x.bridge_ep = port[r].bridge_ep
        /\ x.mode = port[r].mode
    BY <2>1 DEF PortRec
  <2>3. port' = [port EXCEPT ![r] = x]
    BY <1>2
  <2> HIDE DEF x
  <2> QED
    BY <2>2, <2>3, OnePortKeeps
<1> QED
  BY <1>1, <1>2

\* Where a client is put
LEMMA PlacesOK ==
    ASSUME NEW s \in Seq(Clients), NEW c \in Clients, NEW at \in DlPlaces(s, c)
    PROVE  at = 0 \/ at \in 1 .. Len(s) + 1
BY DEF DlPlaces

LEMMA RegisterKeeps ==
    ASSUME TypeOK, Inv, crash = NULL, NEW r \in Reals, NEW c \in Clients,
           DlIndRegister(r, c)
    PROVE  TypeOK' /\ Inv'
<1> DEFINE s == port[r].dl
<1>1. s \in Seq(Clients)
  BY Types DEF PortRec
<1>2. PICK at \in DlPlaces(s, c) :
         port' = IF at = 0 \/ ~port[r].built THEN port
                 ELSE [port EXCEPT ![r].dl = InsertAt(s, at, c)]
  BY DEF DlIndRegister
<1>3. /\ port[r].st = "live" /\ crash' \in {NULL, "half"}
      /\ UNCHANGED <<env, vnd, ep, rt, wait, rd, hist>>
  BY DEF DlIndRegister
<1>4. CASE at = 0 \/ ~port[r].built
  <2>1. port' = port
    BY <1>2, <1>4
  <2> QED
    BY <1>1, <1>3, <2>1, DlKeeps
<1>5. CASE ~(at = 0 \/ ~port[r].built)
  <2>1. at \in 1 .. Len(s) + 1
    BY <1>1, <1>5, PlacesOK
  <2>2. InsertAt(s, at, c) \in Seq(Clients)
    BY <1>1, <2>1, InsertSeq
  <2>3. port' = [port EXCEPT ![r].dl = InsertAt(s, at, c)]
    BY <1>2, <1>5
  <2> QED
    BY <1>3, <2>2, <2>3, DlKeeps
<1> QED
  BY <1>4, <1>5

LEMMA DeregisterKeeps ==
    ASSUME TypeOK, Inv, crash = NULL, NEW r \in Reals, NEW c \in Clients,
           DlIndDeregister(r, c)
    PROVE  TypeOK' /\ Inv'
<1> DEFINE s == port[r].dl
<1>1. s \in Seq(Clients)
  BY Types DEF PortRec
<1>2. PICK i \in Places(s, c) : port' = [port EXCEPT ![r].dl = RemoveAt(s, i)]
  BY DEF DlIndDeregister
<1>3. /\ port[r].st = "live" /\ crash' \in {NULL, "half"}
      /\ UNCHANGED <<env, vnd, ep, rt, wait, rd, hist>>
  BY DEF DlIndDeregister
<1>4. RemoveAt(s, i) \in Seq(Clients)
  BY <1>1, RemoveSeq DEF Places
<1> QED
  BY <1>2, <1>3, <1>4, DlKeeps

-----------------------------------------------------------------------------
(* Steps of the holder of rtnl_lock.                                       *)

\* A step that changes no object
LEMMA WorkKeeps ==
    ASSUME TypeOK, Inv, crash = NULL,
           UNCHANGED <<env, port, vnd, ep, rd, hist, crash>>,
           rt' \in RtRec, wait' \subseteq Readers,
           RtOK', EsOK', ListOK', EpOK', VndOK', PortOK', ReadOK'
    PROVE  TypeOK' /\ Inv'
<1>1. TypeOK'
  BY HistSame, Types, TypesNext
<1>2. NrOK'
  BY DEF Inv, StructInv, NrOK, Leading
<1>3. CrashOK'
  BY DEF Inv, CrashOK
<1> QED
  BY <1>1, <1>2, <1>3 DEF Inv, StructInv

LEMMA SyncKeeps ==
    ASSUME TypeOK, Inv, crash = NULL, Synchronize
    PROVE  TypeOK' /\ Inv'
<1>0. rt \in RtRec /\ RtOK /\ EsOK /\ ListOK /\ EpOK /\ VndOK /\ PortOK /\ ReadOK
  BY Types DEF Inv, StructInv
<1>1. /\ rt' \in RtRec /\ rt'.grace
      /\ rt'.pc = rt.pc /\ rt'.op = rt.op /\ rt'.real = rt.real /\ rt'.vs = rt.vs /\ rt'.es = rt.es
      /\ rt'.ep = rt.ep /\ rt'.gone = rt.gone /\ rt'.back = rt.back
  BY <1>0 DEF Synchronize, RtRec
<1>2. /\ ~rt.grace
      /\ \/ rt.pc = "detach" /\ \A e \in rt.es : ep[e].st = "dead"
         \/ rt.pc = "close" /\ \A v \in rt.vs : vnd[v].st = "closed"
         \/ rt.pc = "uninit" /\ \A v \in rt.vs : vnd[v].st = "uninit"
         \/ rt.pc = "dying"
      /\ wait' = {k \in Readers : rd[k].pc # "idle"}
      /\ UNCHANGED <<env, port, vnd, ep, rd, hist, crash>>
  BY DEF Synchronize, At
<1>3. /\ Calling' <=> Calling
      /\ Late' <=> Late
      /\ rt.pc # "detach" => (Early' <=> Early) /\ (Mid' <=> Mid)
      /\ rt.pc = "detach" => ~Early' /\ Mid' /\ ~Calling /\ ~Late /\ Early
  BY <1>1, <1>2 DEF Calling, Early, Mid, Late
<1>4. RtOK'
  BY <1>0, <1>1, <1>2, <1>3 DEF RtOK
<1>5. EsOK'
  BY <1>0, <1>1, <1>2, <1>3 DEF EsOK
<1>6. ListOK' /\ EpOK'
  BY <1>0, <1>1, <1>2 DEF ListOK, EpOK
<1>7. VndOK'
  BY <1>0, <1>1, <1>2, <1>3 DEF VndOK
<1>8. PortOK'
  BY <1>0, <1>1, <1>2, <1>3 DEF PortOK
<1>9. ReadOK'
  <2> SUFFICES ASSUME NEW k \in Readers PROVE ReaderOK(k, rd[k])'
    BY DEF ReadOK
  <2>1. ReaderOK(k, rd[k]) /\ rd[k] \in RdRec /\ (rd[k] # Away => k \in wait')
    BY <1>0, <1>2, Types DEF ReadOK, ReaderOK
  <2>2. rd[k] = Away => rd[k].real = NULL /\ rd[k].ep = NULL /\ rd[k].dev = NULL
    BY DEF Away
  <2> QED
    BY <1>1, <1>2, <1>3, <2>1, <2>2 DEF ReaderOK
<1> QED
  BY <1>1, <1>2, <1>4, <1>5, <1>6, <1>7, <1>8, <1>9, WorkKeeps

LEMMA GraceKeeps ==
    ASSUME TypeOK, Inv, crash = NULL, GracePeriod
    PROVE  TypeOK' /\ Inv'
<1>0. rt \in RtRec /\ RtOK /\ EsOK /\ ListOK /\ EpOK /\ VndOK /\ PortOK /\ ReadOK
  BY Types DEF Inv, StructInv
<1>1. /\ rt.grace /\ wait = {} /\ wait' = {}
      /\ rt.pc \in {"detach", "close", "uninit", "dying"}
      /\ rt' = [rt EXCEPT !.grace = FALSE, !.pc = AfterGrace[rt.pc]]
      /\ UNCHANGED <<env, port, vnd, ep, rd, hist, crash>>
  BY <1>0 DEF GracePeriod, RtOK
<1>2. /\ rt.pc = "detach" => AfterGrace[rt.pc] = "free"
      /\ rt.pc = "close" => AfterGrace[rt.pc] = "uninit"
      /\ rt.pc = "uninit" => AfterGrace[rt.pc] = "exit_post"
      /\ rt.pc = "dying" => AfterGrace[rt.pc] = "freeport"
  BY <1>1 DEF AfterGrace
<1>3. /\ rt' \in RtRec /\ ~rt'.grace
      /\ rt'.pc = AfterGrace[rt.pc] /\ rt'.real = rt.real /\ rt'.vs = rt.vs
      /\ rt'.es = rt.es /\ rt'.op = rt.op
      /\ rt'.ep = rt.ep /\ rt'.gone = rt.gone /\ rt'.back = rt.back
  <2> AfterGrace[rt.pc] \in Steps
    BY <1>1, <1>2 DEF Steps
  <2> QED
    BY <1>0, <1>1 DEF RtRec
<1>4. /\ Calling' <=> Calling
      /\ rt.pc = "dying" => /\ Calling /\ (Early' <=> Early)
                            /\ ~Mid /\ ~Mid' /\ (Late' <=> Late)
      /\ rt.pc = "detach" => ~Early /\ ~Early' /\ Mid /\ Mid' /\ ~Late'
      /\ rt.pc = "close" => ~Early /\ ~Early' /\ Mid /\ ~Mid' /\ Late'
      /\ rt.pc = "uninit" => ~Early /\ ~Early' /\ Late /\ ~Mid /\ ~Mid' /\ Late'
      /\ rt.pc # "dying" => ~Calling
  BY <1>1, <1>2, <1>3 DEF Calling, Early, Mid, Late
<1>5. RtOK'
  BY <1>0, <1>1, <1>2, <1>3, <1>4 DEF RtOK
<1>6. EsOK'
  BY <1>0, <1>1, <1>2, <1>3, <1>4 DEF EsOK
<1>7. ListOK' /\ EpOK'
  BY <1>0, <1>1, <1>2, <1>3 DEF ListOK, EpOK
<1>8. VndOK'
  BY <1>0, <1>1, <1>2, <1>3, <1>4 DEF VndOK
<1>9. PortOK'
  BY <1>0, <1>1, <1>2, <1>3, <1>4 DEF PortOK
<1>10. ReadOK'
  <2> SUFFICES ASSUME NEW k \in Readers PROVE ReaderOK(k, rd[k])'
    BY DEF ReadOK
  <2>1. ReaderOK(k, rd[k]) /\ rd[k] \in RdRec
    BY <1>0, Types DEF ReadOK
  <2> QED
    BY <1>0, <1>1, <1>2, <1>3, <1>4, <2>1 DEF ReaderOK, RtOK
<1> QED
  BY <1>1, <1>3, <1>5, <1>6, <1>7, <1>8, <1>9, <1>10, WorkKeeps

LEMMA GotoFacts ==
    ASSUME rt \in RtRec, NEW step \in Steps \ {"idle"}, Goto(step)
    PROVE  /\ rt' \in RtRec /\ rt'.pc = step /\ rt'.grace = rt.grace
           /\ rt'.op = rt.op /\ rt'.real = rt.real
           /\ rt'.vs = rt.vs /\ rt'.es = rt.es /\ rt'.ep = rt.ep
           /\ rt'.mux = rt.mux /\ rt'.gone = rt.gone /\ rt'.back = rt.back
BY DEF Goto, RtRec

\* The lists stay, and so do the endpoints
LEMMA EpFrame ==
    ASSUME EpOK, UNCHANGED <<vnd, ep>>,
           \A q \in Reals : port'[q].eps = port[q].eps, rt.es \subseteq rt'.es,
           \A e \in Eps : ep[e].egress_dev \in rt'.vs /\ ep[e].egress_dev # NULL =>
              e \in rt'.es
    PROVE  EpOK'
<1>1. ASSUME NEW e \in Eps
      PROVE  EpOK!1!(e)'
  <2>1. EpOK!1!(e)
    BY DEF EpOK
  <2>2. ep[e].egress_dev # NULL =>
           port'[ep[e].real].eps[ep[e].mux] = port[ep[e].real].eps[ep[e].mux]
    BY <2>1
  <2> QED
    BY <2>1, <2>2
<1> QED
  BY <1>1 DEF EpOK

LEMMA NoWorkFacts ==
    /\ NoWork \in RtRec /\ NoWork.pc = "idle" /\ ~NoWork.grace
    /\ NoWork.real = NULL /\ NoWork.vs = {} /\ NoWork.es = {}
    /\ NoWork.ep = NULL /\ NoWork.gone = NULL /\ NoWork.back = "idle"
    /\ NoWork.op = "none" /\ NoWork.mux = NULL
BY NullTypes DEF NoWork

\* Nothing leads to the device of a port with no devices
LEMMA NoneLead ==
    ASSUME TypeOK, NrOK, NEW r \in Reals, port[r].nr = 0, NEW e \in Eps,
           ep[e].egress_dev # NULL
    PROVE  ep[e].real # r
<1>1. IsFiniteSet(Leading(r))
  BY PortAssumption, FS_Subset DEF Leading
<1>2. Leading(r) = {}
  BY <1>1, FS_EmptySet DEF NrOK
<1> QED
  BY <1>2 DEF Leading

\* rmnet_unregister_real_device returns; the port is as it was or is freed
LEMMA ReturnKeeps ==
    ASSUME TypeOK, Inv, crash = NULL, Calling, rt.pc \in {"unreal", "freeport"},
           ~rt.grace, Goto(rt.back),
           port' = IF rt.pc = "unreal" THEN port
                   ELSE [port EXCEPT ![rt.gone] = NoPort],
           crash' \in {NULL, "half"},
           UNCHANGED <<env, vnd, ep, wait, rd, hist>>
    PROVE  TypeOK' /\ Inv'
<1>0. /\ rt \in RtRec /\ RtOK /\ EsOK /\ ListOK /\ EpOK /\ VndOK /\ PortOK
      /\ ReadOK /\ NrOK
  BY Types DEF Inv, StructInv
<1> DEFINE g == rt.gone
<1>1. g \in Reals /\ rt.back \in {"idle", "detach", "freedev"}
  BY <1>0 DEF RtOK
<1>2. /\ rt' \in RtRec /\ rt'.pc = rt.back /\ ~rt'.grace
      /\ rt'.vs = rt.vs /\ rt'.es = rt.es
      /\ rt.back # "idle" => rt'.real = rt.real /\ rt'.op = rt.op
      /\ rt.back = "idle" => rt' = NoWork
  <2>1. CASE rt.back = "idle"
    BY <1>0, <2>1, NoWorkFacts DEF Goto, RtOK
  <2>2. CASE rt.back # "idle"
    <3> rt.back \in Steps \ {"idle"}
      BY <1>1, <2>2 DEF Steps
    <3> QED
      BY <1>0, <2>2, GotoFacts
  <2> QED
    BY <2>1, <2>2
<1>3. /\ ~Calling' /\ ~Mid' /\ ~Mid
      /\ Early' <=> Early
      /\ Late' <=> Late
      /\ Early <=> rt.back = "detach"
      /\ Late <=> rt.back = "freedev"
  BY <1>1, <1>2 DEF Calling, Early, Mid, Late
<1>4. \A r \in Reals : r # g => port'[r] = port[r]
  BY <1>1, Types
<1>5. \/ rt.pc = "unreal" /\ port'[g] = port[g]
      \/ rt.pc = "freeport" /\ port'[g] = NoPort
  BY <1>1, Types
<1>6. NoPort.st = "none" /\ NoPort.nr = 0 /\ NoPort.bridge_ep = NULL
      /\ NoPort.mode = "none"
      /\ \A m \in Muxes : NoPort.eps[m] = <<>>
  BY DEF NoPort
<1>7. rt.pc = "freeport" => port[g].nr = 0
  BY <1>0 DEF PortOK
<1>8. rt.pc = "freeport" => \A e \in Eps : ep[e].egress_dev # NULL => ep[e].real # g
  BY <1>0, <1>1, <1>7, NoneLead
<1> HIDE DEF g
<1>10. TypeOK'
  <2> port' \in [Reals -> PortRec]
    BY <1>1, <1>4, <1>5, Types, NullTypes
  <2> QED
    BY <1>2, HistSame, Types, TypesNext
<1>11. RtOK'
  BY <1>0, <1>2, <1>3 DEF RtOK
<1>12. EsOK'
  <2>1. rt.es # {} => rt.back = "detach" /\ rt.real \in Reals /\ rt.real # g
    BY <1>0, <1>1, <1>3 DEF RtOK, PortOK, g
  <2>2. rt.es # {} => port'[rt.real].eps = port[rt.real].eps
    BY <1>4, <2>1
  <2> QED
    BY <1>0, <1>2, <1>3, <2>1, <2>2 DEF EsOK
<1>13. ListOK'
  BY <1>0, <1>2, <1>4, <1>5, <1>6 DEF ListOK
<1>14. EpOK'
  <2>1. \A e \in Eps : ep[e].egress_dev # NULL =>
           port'[ep[e].real].eps = port[ep[e].real].eps
    BY <1>0, <1>4, <1>5, <1>8 DEF EpOK
  <2> QED
    BY <1>0, <1>2, <2>1 DEF EpOK
<1>15. VndOK'
  <2> SUFFICES ASSUME NEW v \in Vnds PROVE VndOK!(v)'
    BY DEF VndOK
  <2>1. VndOK!(v)
    BY <1>0 DEF VndOK
  <2>2. v \notin rt.vs /\ vnd[v].st = "reg" =>
           port'[vnd[v].real].eps = port[vnd[v].real].eps
    <3> SUFFICES ASSUME v \notin rt.vs, vnd[v].st = "reg", vnd[v].real = g,
                        rt.pc = "freeport"
                 PROVE  FALSE
      BY <1>4, <1>5, <2>1
    <3>1. PICK e \in Eps : ep[e].egress_dev = v
      BY <2>1
    <3> QED
      BY <1>0, <1>8, <3>1, NullAssumption DEF EpOK
  <2> QED
    BY <1>0, <1>2, <1>3, <2>1, <2>2 DEF RtOK
<1>16. NrOK'
  BY <1>0, <1>4, <1>5, <1>6, <1>7 DEF NrOK, Leading
<1>17. PortOK'
  <2>1. \A r \in Reals : /\ port'[r].st = "none" => port'[r] = NoPort
                         /\ port'[r].st # "dying"
                         /\ OtherEnd(port'[r], r)
    BY <1>0, <1>4, <1>5, <1>6, NullAssumption DEF PortOK, OtherEnd, g
  <2>2. rt.back = "detach" =>
           rt.real \in Reals /\ g # rt.real /\ port[rt.real].st = "live"
    BY <1>0, <1>3 DEF PortOK, RtOK, g
  <2>3. rt.back = "detach" => port'[rt.real].st = "live"
    BY <1>4, <2>2
  <2> QED
    BY <1>1, <1>2, <1>3, <2>1, <2>3 DEF PortOK
<1>18. ReadOK'
  <2> SUFFICES ASSUME NEW k \in Readers PROVE ReaderOK(k, rd[k])'
    BY DEF ReadOK
  <2>1. ReaderOK(k, rd[k]) /\ rd[k] \in RdRec
    BY <1>0, Types DEF ReadOK
  <2>2. rd[k].real # NULL => rd[k].real \in Reals /\ port[rd[k].real].st = "live"
    BY <2>1 DEF ReaderOK, RdRec
  <2>3. rd[k].real # NULL => port'[rd[k].real].st = "live"
    BY <1>0, <1>4, <1>5, <2>2 DEF PortOK, g
  <2> QED
    BY <1>1, <1>2, <1>3, <2>1, <2>3 DEF ReaderOK
<1>19. CrashOK'
  BY NullAssumption DEF CrashOK
<1> QED
  BY <1>10, <1>11, <1>12, <1>13, <1>14, <1>15, <1>16, <1>17, <1>18, <1>19
     DEF Inv, StructInv

LEMMA FreePortKeeps ==
    ASSUME TypeOK, Inv, crash = NULL, FreePort
    PROVE  TypeOK' /\ Inv'
<1>1. rt.pc = "freeport" /\ Calling /\ ~rt.grace
  BY DEF FreePort, At, Calling
<1> QED
  BY <1>1, ReturnKeeps DEF FreePort

LEMMA UnrealKeeps ==
    ASSUME TypeOK, Inv, crash = NULL, UnregisterRealDevice
    PROVE  TypeOK' /\ Inv'
<1>0. /\ rt \in RtRec /\ RtOK /\ EsOK /\ ListOK /\ EpOK /\ VndOK /\ PortOK
      /\ ReadOK /\ NrOK
  BY Types DEF Inv, StructInv
<1>1. /\ rt.pc = "unreal" /\ Calling /\ ~rt.grace
      /\ UNCHANGED <<env, vnd, ep, wait, rd, hist, crash>>
  BY DEF UnregisterRealDevice, At, Calling
<1>2. CASE port[rt.gone].nr # 0
  BY <1>1, <1>2, ReturnKeeps DEF UnregisterRealDevice
<1>3. CASE port[rt.gone].nr = 0
  <2> DEFINE g == rt.gone
  <2>0. g \in Reals /\ port[g] \in PortRec
    BY <1>0, <1>1, Types DEF RtOK
  <2>1. port' = [port EXCEPT ![g].st = "dying"] /\ Goto("dying")
    BY <1>3 DEF UnregisterRealDevice
  <2>2. /\ port' \in [Reals -> PortRec]
        /\ \A r \in Reals : r # g => port'[r] = port[r]
        /\ port'[g].st = "dying" /\ port'[g].nr = port[g].nr
        /\ port'[g].eps = port[g].eps /\ port'[g].bridge_ep = port[g].bridge_ep
        /\ port'[g].mode = port[g].mode
    BY <2>0, <2>1, Types DEF PortRec
  <2>3. /\ rt' \in RtRec /\ rt'.pc = "dying" /\ ~rt'.grace /\ rt'.real = rt.real
        /\ rt'.op = rt.op
        /\ rt'.vs = rt.vs /\ rt'.es = rt.es /\ rt'.gone = rt.gone
        /\ rt'.back = rt.back
    BY <1>0, <1>1, <2>1, GotoFacts DEF Steps
  <2>4. /\ Calling' /\ Calling /\ ~Mid /\ ~Mid'
        /\ Early' <=> Early
        /\ Late' <=> Late
        /\ Early <=> rt.back = "detach"
        /\ Late <=> rt.back = "freedev"
    BY <1>1, <2>3 DEF Calling, Early, Mid, Late
  <2> HIDE DEF g
  <2>5. \A r \in Reals : /\ port'[r].nr = port[r].nr /\ port'[r].eps = port[r].eps
                         /\ port'[r].bridge_ep = port[r].bridge_ep
    BY <2>2
  <2>6. TypeOK'
    BY <1>1, <2>2, <2>3, HistSame, Types, TypesNext
  <2>7. /\ RtOK'
        /\ EsOK'
        /\ NrOK'
    <3>1. RtOK'
      BY <1>0, <1>1, <2>3, <2>4 DEF RtOK
    <3>2. EsOK'
      <4> rt.es # {} => rt.real \in Reals
        BY <1>0, <2>4 DEF RtOK, Mid
      <4> QED
        BY <1>0, <1>1, <2>3, <2>4, <2>5 DEF EsOK
    <3>3. NrOK'
      BY <1>0, <1>1, <2>5 DEF NrOK, Leading
    <3> QED
      BY <3>1, <3>2, <3>3
  <2>8. ListOK' /\ EpOK'
    <3>1. ListOK'
      BY <1>0, <1>1, <2>3, <2>5 DEF ListOK
    <3>2. EpOK'
      BY <1>0, <1>1, <2>3, <2>5 DEF EpOK
    <3> QED
      BY <3>1, <3>2
  <2>9. VndOK'
    <3> SUFFICES ASSUME NEW v \in Vnds PROVE VndOK!(v)'
      BY DEF VndOK
    <3>1. VndOK!(v)
      BY <1>0 DEF VndOK
    <3> QED
      BY <1>1, <2>3, <2>4, <2>5, <3>1
  <2>10. PortOK'
    BY <1>0, <1>1, <1>3, <2>0, <2>2, <2>3, <2>4 DEF PortOK, RtOK, OtherEnd, g
  <2>11. ReadOK'
    <3> SUFFICES ASSUME NEW k \in Readers PROVE ReaderOK(k, rd[k])'
      BY DEF ReadOK
    <3>1. ReaderOK(k, rd[k]) /\ rd[k] \in RdRec
      BY <1>0, Types DEF ReadOK
    <3>2. rd[k].real # NULL => rd[k].real \in Reals
      BY <3>1 DEF RdRec
    <3> QED
      BY <1>1, <2>2, <2>3, <2>4, <3>1, <3>2 DEF ReaderOK
  <2>12. CrashOK'
    BY <1>1, NullAssumption DEF CrashOK
  <2> QED
    BY <2>6, <2>7, <2>8, <2>9, <2>10, <2>11, <2>12 DEF Inv, StructInv
<1> QED
  BY <1>2, <1>3

-----------------------------------------------------------------------------
(* Operations.                                                             *)

\* Between operations
LEMMA IdleFacts ==
    ASSUME TypeOK, Inv, Idle
    PROVE  /\ rt = NoWork /\ rt.pc = "idle" /\ ~rt.grace
           /\ rt.vs = {} /\ rt.es = {}
           /\ ~Calling /\ ~Early /\ ~Mid /\ ~Late
           /\ \A r \in Reals : port[r].st \in {"none", "live"}
           /\ \A k \in Readers : rd[k].real # NULL =>
                 rd[k].real \in Reals /\ port[rd[k].real].st = "live"
<1>1. rt = NoWork
  BY DEF Idle
<1>2. \A r \in Reals : port[r] \in PortRec
  BY Types
<1>3. \A k \in Readers : ReaderOK(k, rd[k]) /\ rd[k] \in RdRec
  BY Types DEF Inv, ReadOK
<1>4. \A r \in Reals : port[r].st \in {"none", "live"}
  BY <1>1, <1>2, NoWorkFacts DEF PortRec, Inv, StructInv, PortOK
<1>5. \A k \in Readers : rd[k].real # NULL =>
                 rd[k].real \in Reals /\ port[rd[k].real].st = "live"
  BY <1>1, <1>3, NoWorkFacts DEF ReaderOK, RdRec
<1> QED
  BY <1>1, <1>4, <1>5, NoWorkFacts DEF Calling, Early, Mid, Late

\* A port that is not there is registered, or not; no link is made yet
LEMMA RegisterRealKeeps ==
    ASSUME TypeOK, Inv, crash = NULL, Idle,
           port' \in [Reals -> PortRec],
           \A q \in Reals : /\ port'[q].nr = port[q].nr
                            /\ port'[q].eps = port[q].eps
                            /\ OtherEnd(port'[q], q)
                            /\ port[q].st = "live" => port'[q].st = "live"
                            /\ port'[q].st # "dying"
                            /\ port'[q].st = "none" => port'[q] = NoPort,
           rt' \in RtRec, ~rt'.grace, rt'.pc \in {"idle", "newlink"},
           rt'.es = {}, \A v \in rt'.vs : vnd[v].st = "none",
           rt'.pc = "idle" => rt' = NoWork,
           rt'.pc = "newlink" =>
               /\ rt'.real \in Reals /\ rt'.mux \in Muxes
               /\ \E v \in Vnds : rt'.vs = {v}
               /\ port'[rt'.real].st = "live",
           crash' \in {NULL, "half"},
           misled' \in BOOLEAN, mixed' \in BOOLEAN, nomem' \in BOOLEAN,
           UNCHANGED <<env, vnd, ep, wait, rd>>
    PROVE  TypeOK' /\ Inv'
<1>0. /\ RtOK /\ EsOK /\ ListOK /\ EpOK /\ VndOK /\ PortOK /\ ReadOK /\ NrOK
  BY DEF Inv, StructInv
<1>1. /\ rt = NoWork /\ rt.pc = "idle" /\ rt.vs = {} /\ rt.es = {}
      /\ \A k \in Readers : rd[k].real # NULL =>
            rd[k].real \in Reals /\ port[rd[k].real].st = "live"
  BY IdleFacts
<1>4. ~Calling' /\ ~Early' /\ ~Mid' /\ ~Late'
  BY DEF Calling, Early, Mid, Late
<1>5. TypeOK'
  BY Types, TypesNext
<1>6. RtOK'
  BY <1>4 DEF RtOK
<1>7. EsOK'
  BY DEF EsOK
<1>8. ListOK'
  BY <1>0, <1>1 DEF ListOK
<1>9. EpOK'
  <2> \A e \in Eps : ep[e].egress_dev \notin rt'.vs \/ ep[e].egress_dev = NULL
    BY <1>0 DEF EpOK
  <2> QED
    BY <1>0, <1>1, EpFrame
<1>10. VndOK'
  <2> SUFFICES ASSUME NEW v \in Vnds PROVE VndOK!(v)'
    BY DEF VndOK
  <2>1. VndOK!(v)
    BY <1>0 DEF VndOK
  <2>2. v \in rt'.vs => rt'.pc = "newlink"
    BY NoWorkFacts
  <2>3. v \notin rt.vs /\ vnd'[v] = vnd[v]
    BY <1>1
  <2>4. vnd[v].st = "reg" => port'[vnd[v].real].eps = port[vnd[v].real].eps
    BY <2>1
  <2>5. v \in rt'.vs => vnd[v].st = "none"
    OBVIOUS
  <2> QED
    BY <2>1, <2>2, <2>3, <2>4, <2>5
<1>11. NrOK'
  BY <1>0 DEF NrOK, Leading
<1>12. PortOK'
  BY <1>0, <1>4 DEF PortOK
<1>13. ReadOK'
  <2> SUFFICES ASSUME NEW k \in Readers PROVE ReaderOK(k, rd[k])'
    BY DEF ReadOK
  <2>1. ReaderOK(k, rd[k]) /\ rd[k] \in RdRec
    BY <1>0, Types DEF ReadOK
  <2>2. rd[k].real # NULL => port'[rd[k].real].st = "live"
    BY <1>1
  <2> QED
    BY <1>4, <2>1, <2>2 DEF ReaderOK
<1>14. CrashOK'
  BY NullAssumption DEF CrashOK
<1> QED
  BY <1>5, <1>6, <1>7, <1>8, <1>9, <1>10, <1>11, <1>12, <1>13, <1>14
     DEF Inv, StructInv

\* What a registered port is
LEMMA RegisterRealFacts ==
    ASSUME TypeOK, Inv, Idle, NEW r \in Reals, NEW got \in Outcomes,
           RegisterRealDevice(r, got)
    PROVE  /\ port' \in [Reals -> PortRec] /\ port'[r].st = "live"
           /\ \A q \in Reals : /\ port'[q].nr = port[q].nr
                               /\ port'[q].eps = port[q].eps
                               /\ OtherEnd(port'[q], q)
                               /\ port[q].st = "live" => port'[q].st = "live"
                               /\ port'[q].st # "dying"
                               /\ port'[q].st = "none" => port'[q] = NoPort
           /\ crash' \in {crash, "half"} /\ nomem' \in BOOLEAN
<1> DEFINE new == [NoPort EXCEPT !.st = "live", !.built = (got = "all")]
<1>1. /\ new.st = "live" /\ new.nr = NoPort.nr /\ new.eps = NoPort.eps
      /\ new.bridge_ep = NULL /\ new.mode = "none" /\ new \in PortRec
  BY NullTypes DEF NoPort, PortRec
<1>2. port[r] = NoPort
  BY DEF RegisterRealDevice, Inv, StructInv, PortOK
<1>3. port' = [port EXCEPT ![r] = new]
  BY DEF RegisterRealDevice
<1>4. crash' \in {crash, "half"}
  BY DEF RegisterRealDevice
<1>5. nomem' \in BOOLEAN
  BY Zenon DEF RegisterRealDevice
<1> HIDE DEF new
<1>6. /\ port' \in [Reals -> PortRec] /\ port'[r] = new
      /\ \A q \in Reals : q # r => port'[q] = port[q]
  BY <1>1, <1>3, Types
<1>7. \A q \in Reals : port[q].st # "dying"
  BY IdleFacts
<1>8. \A q \in Reals : /\ OtherEnd(port[q], q)
                       /\ port[q].st = "none" => port[q] = NoPort
  BY DEF Inv, StructInv, PortOK
<1> QED
  BY <1>1, <1>2, <1>4, <1>5, <1>6, <1>7, <1>8, NullAssumption DEF OtherEnd

LEMMA NewlinkKeeps ==
    ASSUME TypeOK, Inv, crash = NULL, NEW r \in Reals, NEW v \in Vnds,
           NEW m \in Muxes, NEW got \in Outcomes, Newlink(r, v, m, got)
    PROVE  TypeOK' /\ Inv'
<1>1. /\ Idle /\ vnd[v].st = "none"
      /\ UNCHANGED <<env, vnd, ep, wait, rd, misled>>
      /\ mixed' = (mixed \/ InBridge(r))
      /\ rt' = IF got # "all" THEN rt
               ELSE [NoWork EXCEPT !.pc = "newlink", !.real = r, !.vs = {v},
                                   !.mux = m]
  BY DEF Newlink
<1>2. misled' \in BOOLEAN /\ mixed' \in BOOLEAN
  <2>1. misled' \in BOOLEAN
    BY <1>1, Types
  <2>2. mixed' \in BOOLEAN
    BY <1>1, Zenon
  <2> QED
    BY <2>1, <2>2
<1>3. /\ port' \in [Reals -> PortRec] /\ port'[r].st = "live"
      /\ \A q \in Reals : /\ port'[q].nr = port[q].nr
                          /\ port'[q].eps = port[q].eps
                          /\ OtherEnd(port'[q], q)
                          /\ port[q].st = "live" => port'[q].st = "live"
                          /\ port'[q].st # "dying"
                          /\ port'[q].st = "none" => port'[q] = NoPort
      /\ crash' \in {NULL, "half"} /\ nomem' \in BOOLEAN
  <2>1. CASE RegisterRealDevice(r, got)
    BY <1>1, <2>1, RegisterRealFacts
  <2>2. CASE port[r].st = "live" /\ UNCHANGED <<port, nomem, crash>>
    <3>1. \A q \in Reals : port[q].st # "dying"
      BY <1>1, IdleFacts
    <3>2. \A q \in Reals : /\ OtherEnd(port[q], q)
                           /\ port[q].st = "none" => port[q] = NoPort
      BY DEF Inv, StructInv, PortOK
    <3> QED
      BY <2>2, <3>1, <3>2, Types
  <2> QED
    BY <2>1, <2>2 DEF Newlink
<1>4. /\ rt' \in RtRec /\ ~rt'.grace /\ rt'.pc \in {"idle", "newlink"}
      /\ rt'.es = {} /\ rt'.vs \subseteq {v} /\ (rt'.pc = "idle" => rt' = NoWork)
      /\ rt'.pc = "newlink" => rt'.real = r /\ rt'.mux = m /\ rt'.vs = {v}
  <2>1. CASE got # "all"
    BY <1>1, <2>1, NoWorkFacts DEF Idle
  <2>2. CASE got = "all"
    BY <1>1, <2>2, NullTypes DEF NoWork, RtRec, Steps
  <2> QED
    BY <2>1, <2>2
<1> QED
  BY <1>1, <1>2, <1>3, <1>4, RegisterRealKeeps

LEMMA UnrealFacts ==
    ASSUME NEW work \in RtRec, NEW r \in Reals, NEW back \in Steps,
           rt' = Unreal(work, r, back)
    PROVE  /\ rt' \in RtRec /\ rt'.pc = "unreal" /\ rt'.grace = work.grace
           /\ rt'.op = work.op /\ rt'.real = work.real /\ rt'.vs = work.vs
           /\ rt'.es = work.es /\ rt'.gone = r /\ rt'.back = back
BY DEF Unreal, RtRec, Steps

\* A port is given up by an operation that has not begun to delete
LEMMA CallKeeps ==
    ASSUME TypeOK, Inv, crash = NULL, rt.pc \in {"idle", "newlink"},
           NEW r \in Reals, port[r].st = "live",
           rt' = Unreal(NoWork, r, "idle"),
           port' \in [Reals -> PortRec], \A q \in Reals : SamePort(q),
           UNCHANGED <<env, vnd, ep, wait, rd, hist, crash>>
    PROVE  TypeOK' /\ Inv'
<1>0. /\ RtOK /\ EsOK /\ ListOK /\ EpOK /\ VndOK /\ PortOK /\ ReadOK /\ NrOK
  BY DEF Inv, StructInv
<1>1. rt.es = {} /\ ~rt.grace /\ \A v \in rt.vs : vnd[v].st = "none"
  BY <1>0, NoWorkFacts DEF RtOK
<1>2. /\ rt' \in RtRec /\ rt'.pc = "unreal" /\ ~rt'.grace /\ rt'.vs = {}
      /\ rt'.es = {} /\ rt'.gone = r /\ rt'.back = "idle"
  BY NoWorkFacts, UnrealFacts DEF Steps
<1>3. Calling' /\ ~Early' /\ ~Mid' /\ ~Late' /\ ~Calling
  BY <1>2 DEF Calling, Early, Mid, Late
<1>4. RtOK'
  BY <1>1, <1>2, <1>3 DEF RtOK
<1>5. \A q \in Reals : /\ port'[q].st = port[q].st /\ port'[q].nr = port[q].nr
                       /\ port'[q].eps = port[q].eps /\ OtherEnd(port'[q], q)
                       /\ port[q].st = "none" => port'[q] = NoPort
  BY DEF SamePort
<1>6. TypeOK'
  BY <1>2, HistSame, Types, TypesNext
<1>7. EsOK'
  BY <1>2 DEF EsOK
<1>8. ListOK'
  BY <1>0, <1>5 DEF ListOK
<1>9. EpOK'
  BY <1>0, <1>1, <1>2, <1>5, EpFrame
<1>10. VndOK'
  <2> SUFFICES ASSUME NEW v \in Vnds PROVE VndOK!(v)'
    BY DEF VndOK
  <2>1. VndOK!(v)
    BY <1>0 DEF VndOK
  <2> QED
    BY <1>1, <1>2, <1>5, <2>1
<1>11. NrOK'
  <2> \A q \in Reals : Leading(q)' = Leading(q)
    BY DEF Leading
  <2> QED
    BY <1>0, <1>5 DEF NrOK
<1>12. PortOK'
  <2>1. \A q \in Reals : port'[q].st # "dying"
    BY <1>0, <1>5 DEF PortOK
  <2> QED
    BY <1>2, <1>3, <1>5, <2>1 DEF PortOK
<1>13. ReadOK'
  <2> SUFFICES ASSUME NEW k \in Readers PROVE ReaderOK(k, rd[k])'
    BY DEF ReadOK
  <2>1. ReaderOK(k, rd[k]) /\ rd[k] \in RdRec
    BY <1>0, Types DEF ReadOK
  <2> QED
    BY <1>1, <1>2, <1>3, <1>5, <2>1 DEF ReaderOK, RdRec
<1>14. CrashOK'
  BY NullAssumption DEF CrashOK
<1> QED
  BY <1>4, <1>6, <1>7, <1>8, <1>9, <1>10, <1>11, <1>12, <1>13, <1>14
     DEF Inv, StructInv

\* An endpoint, its device and the port that counts it appear together
LEMMA LinkMade ==
    ASSUME TypeOK, Inv, crash = NULL, rt.pc = "newlink",
           NEW r \in Reals, r = rt.real, NEW m \in Muxes,
           NEW v \in rt.vs, NEW e \in Eps,
           ep[e].st = "none", port[r].eps[m] = <<>>,
           ep' \in [Eps -> EpRec], \A f \in Eps \ {e} : ep'[f] = ep[f],
           ep'[e].st = "listed", ep'[e].real = r, ep'[e].mux = m,
           ep'[e].egress_dev = v,
           vnd' \in [Vnds -> VndRec], \A w \in Vnds \ {v} : vnd'[w] = vnd[w],
           vnd'[v].st = "reg", vnd'[v].real = r, vnd'[v].mux = m,
           vnd'[v].qos = "live", ~vnd'[v].timer,
           port' \in [Reals -> PortRec],
           \A q \in Reals \ {r} : port'[q] = port[q],
           port'[r].st = port[r].st, port'[r].nr = port[r].nr + 1,
           port'[r].bridge_ep = port[r].bridge_ep, port'[r].mode = "vnd",
           port'[r].eps[m] = <<e>>,
           \A n \in Muxes \ {m} : port'[r].eps[n] = port[r].eps[n],
           rt' = NoWork, UNCHANGED <<env, wait, rd, hist, crash>>
    PROVE  TypeOK' /\ Inv'
<1>0. /\ RtOK /\ EsOK /\ ListOK /\ EpOK /\ VndOK /\ PortOK /\ ReadOK /\ NrOK
      /\ ep \in [Eps -> EpRec] /\ vnd \in [Vnds -> VndRec]
      /\ port \in [Reals -> PortRec] /\ rd \in [Readers -> RdRec]
  BY Types DEF Inv, StructInv
<1>1. /\ v \in Vnds /\ rt.vs = {v} /\ vnd[v].st = "none" /\ port[r].st = "live"
      /\ rt.es = {} /\ ~rt.grace /\ v # NULL
  BY <1>0, NullAssumption DEF RtOK
<1>2. \A f \in Eps : f # e => ep'[f] = ep[f]
  OBVIOUS
<1>3. \A w \in Vnds : w # v => vnd'[w] = vnd[w]
  OBVIOUS
<1>4. \A q \in Reals : q # r => port'[q] = port[q]
  OBVIOUS
<1>5. /\ rt' = NoWork /\ rt'.pc = "idle" /\ ~rt'.grace /\ rt'.vs = {}
      /\ rt'.es = {} /\ rt' \in RtRec
  BY NoWorkFacts
<1>6. ~Calling' /\ ~Early' /\ ~Mid' /\ ~Late' /\ ~Calling
  BY <1>5 DEF Calling, Early, Mid, Late
<1>7. \A q \in Reals, n \in Muxes :
         port'[q].eps[n] = IF q = r /\ n = m THEN <<e>> ELSE port[q].eps[n]
  BY <1>4
<1>8. ep[e].egress_dev = NULL /\ \A f \in Eps : ep[f].egress_dev # v
  BY <1>0, <1>1 DEF EpOK
<1>9. \A f \in Eps : <<f>> # <<>>
  OBVIOUS
<1>10. TypeOK'
  BY <1>2, <1>3, <1>4, <1>5, HistSame, Types, TypesNext
<1>11. RtOK'
  BY <1>5, <1>6 DEF RtOK
<1>12. EsOK'
  BY <1>5 DEF EsOK
<1>13. ListOK'
  <2> SUFFICES ASSUME NEW q \in Reals, NEW n \in Muxes
               PROVE  ListOK!(q, n)'
    BY DEF ListOK
  <2>1. CASE q = r /\ n = m
    BY <1>2, <1>7, <2>1
  <2>2. CASE ~(q = r /\ n = m) /\ port[q].eps[n] = <<>>
    BY <1>7, <2>2
  <2>3. CASE ~(q = r /\ n = m) /\ port[q].eps[n] # <<>>
    <3>1. PICK f \in Eps : /\ port[q].eps[n] = <<f>>
                           /\ ep[f].real = q /\ ep[f].mux = n
                           /\ ep[f].st = "listed"
      BY <1>0, <2>3 DEF ListOK
    <3>2. f # e
      BY <3>1
    <3> QED
      BY <1>2, <1>7, <2>3, <3>1, <3>2
  <2> QED
    BY <2>1, <2>2, <2>3
<1>14. EpOK'
  <2>1. \A f \in Eps : f # e /\ ep[f].egress_dev # NULL =>
            ep[f].real # r \/ ep[f].mux # m
    <3> SUFFICES ASSUME NEW f \in Eps, ep[f].egress_dev # NULL,
                        ep[f].real = r, ep[f].mux = m
                 PROVE  FALSE
      OBVIOUS
    <3>1. port[ep[f].real].eps[ep[f].mux] = <<f>> \/ f \in rt.es
      BY <1>0 DEF EpOK
    <3>2. port[r].eps[m] # <<f>>
      BY <1>9
    <3>3. f \notin rt.es
      BY <1>1
    <3> QED
      BY <3>1, <3>2, <3>3
  <2>2. ASSUME NEW f \in Eps
        PROVE  EpOK!1!(f)'
    <3>1. CASE f = e
      BY <1>1, <1>2, <1>3, <1>5, <1>7, <3>1, NullAssumption
    <3>2. CASE f # e
      <4>1. EpOK!1!(f) /\ ep'[f] = ep[f]
        BY <1>0, <1>2, <3>2 DEF EpOK
      <4> QED
        BY <1>1, <1>3, <1>5, <1>7, <1>8, <2>1, <3>2, <4>1
    <3> QED
      BY <3>1, <3>2
  <2>3. ASSUME NEW f \in Eps, NEW g \in Eps,
               ep'[f].egress_dev # NULL, ep'[f].egress_dev = ep'[g].egress_dev
        PROVE  f = g
    BY <1>0, <1>2, <1>8, <2>3 DEF EpOK
  <2> QED
    BY <2>2, <2>3 DEF EpOK
<1>15. VndOK'
  <2> SUFFICES ASSUME NEW w \in Vnds PROVE VndOK!(w)'
    BY DEF VndOK
  <2>1. CASE w = v
    BY <1>1, <1>2, <1>3, <1>5, <1>7, <2>1
  <2>2. CASE w # v
    <3>1. VndOK!(w) /\ vnd'[w] = vnd[w] /\ w \notin rt.vs
      BY <1>0, <1>1, <1>3, <2>2 DEF VndOK
    <3>2. ASSUME vnd[w].st = "reg"
          PROVE  \E f \in Eps : /\ port'[vnd[w].real].eps[vnd[w].mux] = <<f>>
                                /\ ep'[f].egress_dev = w
      <4>1. PICK f \in Eps : /\ port[vnd[w].real].eps[vnd[w].mux] = <<f>>
                             /\ ep[f].egress_dev = w
        BY <3>1, <3>2
      <4>2. f # e /\ vnd[w].real \in Reals /\ vnd[w].mux \in Muxes
        BY <1>8, <3>1, <3>2, <4>1, NullAssumption
      <4>3. ~(vnd[w].real = r /\ vnd[w].mux = m)
        <5>1. <<f>> # <<>>
          BY <1>9
        <5> QED
          BY <4>1, <5>1
      <4> QED
        BY <1>2, <1>7, <4>1, <4>2, <4>3
    <3> QED
      BY <1>5, <3>1, <3>2
  <2> QED
    BY <2>1, <2>2
<1>16. NrOK'
  <2> SUFFICES ASSUME NEW q \in Reals
               PROVE  port'[q].nr = Cardinality(Leading(q)')
    BY DEF NrOK
  <2>1. CASE q # r
    <3> Leading(q)' = Leading(q)
      BY <1>2, <1>8, <2>1 DEF Leading
    <3> QED
      BY <1>0, <1>4, <2>1 DEF NrOK
  <2>2. CASE q = r
    <3>1. Leading(q)' = Leading(q) \cup {e} /\ e \notin Leading(q)
      BY <1>1, <1>2, <1>8, <2>2 DEF Leading
    <3>2. IsFiniteSet(Leading(q))
      BY PortAssumption, FS_Subset DEF Leading
    <3>3. Cardinality(Leading(q) \cup {e}) = Cardinality(Leading(q)) + 1
      BY <3>1, <3>2, FS_AddElement
    <3> QED
      BY <1>0, <1>4, <2>2, <3>1, <3>3 DEF NrOK
  <2> QED
    BY <2>1, <2>2
<1>17. PortOK'
  BY <1>0, <1>1, <1>4, <1>5, <1>6 DEF PortOK, OtherEnd
<1>18. ReadOK'
  <2> SUFFICES ASSUME NEW k \in Readers PROVE ReaderOK(k, rd[k])'
    BY DEF ReadOK
  <2>1. ReaderOK(k, rd[k]) /\ rd[k] \in RdRec
    BY <1>0 DEF ReadOK
  <2>2. rd[k].real # NULL => port'[rd[k].real].st = "live"
    BY <1>4, <2>1 DEF ReaderOK, RdRec
  <2>3. rd[k].ep # NULL => ep'[rd[k].ep].st # "none"
    BY <1>2, <2>1 DEF ReaderOK, RdRec
  <2>4. rd[k].dev # NULL => vnd'[rd[k].dev].st \in {"reg", "closed"}
    BY <1>1, <1>3, <2>1 DEF ReaderOK, RdRec
  <2> QED
    BY <1>5, <1>6, <2>1, <2>2, <2>3, <2>4 DEF ReaderOK
<1>19. CrashOK'
  BY NullAssumption DEF CrashOK
<1> QED
  BY <1>10, <1>11, <1>12, <1>13, <1>14, <1>15, <1>16, <1>17, <1>18, <1>19
     DEF Inv, StructInv

LEMMA NewlinkRestKeeps ==
    ASSUME TypeOK, Inv, crash = NULL, NEW ok \in BOOLEAN, NewlinkRest(ok)
    PROVE  TypeOK' /\ Inv'
<1>n. PICK r, m : r = rt.real /\ m = rt.mux
  OBVIOUS
<1>0. /\ rt.pc = "newlink" /\ r \in Reals /\ m \in Muxes /\ rt.vs \subseteq Vnds
      /\ UNCHANGED <<env, wait, rd, hist, crash>>
  BY <1>n DEF NewlinkRest, At, Inv, StructInv, RtOK
<1>1. CASE GetEndpoint(r, m) # NULL \/ ~ok
  <2>1. rt' = Unreal(NoWork, r, "idle") /\ UNCHANGED <<port, vnd, ep>>
    BY <1>1, <1>n DEF NewlinkRest
  <2>2. port[r].st = "live"
    BY <1>0, <1>n DEF Inv, StructInv, RtOK
  <2> QED
    BY <1>0, <2>1, <2>2, PortSame, Types, CallKeeps
<1>2. CASE ~(GetEndpoint(r, m) # NULL \/ ~ok)
  <2>1. PICK v \in rt.vs, e \in {e \in Eps : ep[e].st = "none"} :
                /\ ep' = [ep EXCEPT ![e] = [st |-> "listed", real |-> r,
                                            mux |-> m, egress_dev |-> v]]
                /\ vnd' = [vnd EXCEPT ![v] =
                       [NoVnd EXCEPT !.st = "reg", !.real = r, !.mux = m,
                                     !.qos = "live"]]
                /\ port' = [port EXCEPT ![r] =
                       [@ EXCEPT !.nr = port[r].nr + 1, !.mode = "vnd",
                                 !.eps = Listed(port[r].eps, e, m)]]
                /\ Goto("idle")
    BY <1>2, <1>n DEF NewlinkRest
  <2>n. PICK l : l = Listed(port[r].eps, e, m)
    OBVIOUS
  <2>2. PICK x, y, z :
           /\ x = [st |-> "listed", real |-> r, mux |-> m, egress_dev |-> v]
           /\ y = [NoVnd EXCEPT !.st = "reg", !.real = r, !.mux = m, !.qos = "live"]
           /\ z = [port[r] EXCEPT !.nr = port[r].nr + 1, !.mode = "vnd",
                                  !.eps = l]
    OBVIOUS
  <2>3. /\ x \in EpRec /\ x.st = "listed" /\ x.real = r /\ x.mux = m
        /\ x.egress_dev = v
    BY <1>0, <2>2 DEF EpRec
  <2>4. /\ y \in VndRec /\ y.st = "reg" /\ y.real = r /\ y.mux = m
        /\ y.qos = "live" /\ ~y.timer
    BY <1>0, <2>2, NullTypes DEF VndRec, NoVnd
  <2>5. port[r] \in PortRec /\ port[r].eps \in [Muxes -> Seq(Eps)]
    BY <1>0, Types DEF PortRec
  <2>6. port[r].eps[m] = <<>>
    <3> SUFFICES ASSUME port[r].eps[m] # <<>> PROVE FALSE
      OBVIOUS
    <3>1. PICK f \in Eps : port[r].eps[m] = <<f>>
      BY <1>0 DEF Inv, StructInv, ListOK
    <3>2. GetEndpoint(r, m) = f
      BY <3>1 DEF GetEndpoint
    <3> QED
      BY <1>2, <3>2, NullAssumption
  <2>7. /\ l \in [Muxes -> Seq(Eps)] /\ l[m] = <<e>>
        /\ \A n \in Muxes : n # m => l[n] = port[r].eps[n]
    <3>1. l \in [Muxes -> Seq(Eps)]
      BY <1>0, <2>5, <2>n, ListedType
    <3>2. <<e>> \o <<>> = <<e>>
      OBVIOUS
    <3> QED
      BY <1>0, <2>5, <2>6, <2>n, <3>1, <3>2 DEF Listed
  <2>8. /\ z \in PortRec /\ z.st = port[r].st /\ z.nr = port[r].nr + 1
        /\ z.bridge_ep = port[r].bridge_ep /\ z.eps = l /\ z.mode = "vnd"
    <3>1. port[r].nr + 1 \in Nat
      BY <2>5 DEF PortRec
    <3> QED
      BY <2>2, <2>5, <2>7, <3>1 DEF PortRec
  <2>9. /\ ep' = [ep EXCEPT ![e] = x]
        /\ vnd' = [vnd EXCEPT ![v] = y]
        /\ port' = [port EXCEPT ![r] = z]
        /\ rt' = NoWork
    <3>1. ep' = [ep EXCEPT ![e] = x]
      BY <2>1, <2>2
    <3>2. vnd' = [vnd EXCEPT ![v] = y]
      BY <2>1, <2>2
    <3>3. port' = [port EXCEPT ![r] = z]
      BY <2>1, <2>2, <2>n
    <3> QED
      BY <2>1, <3>1, <3>2, <3>3 DEF Goto
  <2>10. e \in Eps /\ ep[e].st = "none" /\ z.eps[m] = <<e>>
         /\ \A n \in Muxes \ {m} : z.eps[n] = port[r].eps[n]
    BY <2>7, <2>8
  <2>11. /\ ep' \in [Eps -> EpRec] /\ ep'[e] = x
         /\ \A f \in Eps \ {e} : ep'[f] = ep[f]
    BY <2>3, <2>9, <2>10, Types
  <2>12. /\ vnd' \in [Vnds -> VndRec] /\ vnd'[v] = y
         /\ \A w \in Vnds \ {v} : vnd'[w] = vnd[w]
    BY <1>0, <2>4, <2>9, Types
  <2>13. /\ port' \in [Reals -> PortRec] /\ port'[r] = z
         /\ \A q \in Reals \ {r} : port'[q] = port[q]
    BY <1>0, <2>8, <2>9, Types
  <2>14. rt' = NoWork
    BY <2>9
  <2> QED
    BY <1>0, <1>n, <2>3, <2>4, <2>6, <2>8, <2>10, <2>11, <2>12, <2>13, <2>14,
       LinkMade
<1> QED
  BY <1>1, <1>2

\* An endpoint is on the list of its own mux id only
LEMMA UnlistedFacts ==
    ASSUME TypeOK, ListOK, NEW r \in Reals, NEW e \in Eps
    PROVE  /\ Unlisted(port[r].eps, e) \in [Muxes -> Seq(Eps)]
           /\ \A m \in Muxes :
                 Unlisted(port[r].eps, e)[m] =
                     IF port[r].eps[m] = <<e>> THEN <<>> ELSE port[r].eps[m]
<1>0. port[r].eps \in [Muxes -> Seq(Eps)]
  BY Types DEF PortRec
<1>1. Unlisted(port[r].eps, e) \in [Muxes -> Seq(Eps)]
  BY <1>0, UnlistedType
<1>2. SUFFICES ASSUME NEW m \in Muxes
               PROVE  Unlisted(port[r].eps, e)[m] =
                         IF port[r].eps[m] = <<e>> THEN <<>> ELSE port[r].eps[m]
  BY <1>1
<1>3. PICK l : l = port[r].eps[m]
  OBVIOUS
<1>4. Unlisted(port[r].eps, e)[m] =
         IF Places(l, e) = {} THEN l
         ELSE RemoveAt(l, CHOOSE i \in Places(l, e) : TRUE)
  BY <1>3 DEF Unlisted
<1>5. CASE l = <<>>
  <2>1. Places(l, e) = {} /\ l # <<e>>
    BY <1>5 DEF Places
  <2> QED
    BY <1>3, <1>4, <2>1
<1>6. CASE l # <<>>
  <2>1. PICK f \in Eps : l = <<f>>
    BY <1>3, <1>6 DEF ListOK
  <2>2. CASE f # e
    <3>1. Places(l, e) = {} /\ l # <<e>>
      BY <2>1, <2>2 DEF Places
    <3> QED
      BY <1>3, <1>4, <3>1
  <2>3. CASE f = e
    <3>1. Places(l, e) = {1}
      BY <2>1, <2>3 DEF Places
    <3>2. (CHOOSE i \in Places(l, e) : TRUE) = 1
      BY <3>1
    <3>3. RemoveAt(l, 1) = <<>>
      <4>1. l \in Seq(Eps) /\ Len(l) = 1
        BY <2>1
      <4>2. RemoveAt(l, 1) \in Seq(Eps) /\ Len(RemoveAt(l, 1)) = 0
        <5> 1 \in 1 .. Len(l)
          BY <4>1
        <5>1. /\ RemoveAt(l, 1) \in Seq(Eps)
              /\ Len(RemoveAt(l, 1)) = Len(l) - 1
          BY <4>1, RemoveSeq
        <5> QED
          BY <4>1, <5>1
      <4> QED
        BY <4>2
    <3> QED
      BY <1>3, <1>4, <2>1, <2>3, <3>1, <3>2, <3>3
  <2> QED
    BY <2>2, <2>3
<1> QED
  BY <1>5, <1>6

\* What changelink leaves when the mux id is free or its own
LEMMA RelistedFacts ==
    ASSUME TypeOK, ListOK, NEW r \in Reals, NEW e \in Eps, NEW m \in Muxes
    PROVE  /\ Listed(Unlisted(port[r].eps, e), e, m) \in [Muxes -> Seq(Eps)]
           /\ port[r].eps[m] \in {<<>>, <<e>>} =>
                 Listed(Unlisted(port[r].eps, e), e, m)[m] = <<e>>
           /\ \A n \in Muxes \ {m} :
                 Listed(Unlisted(port[r].eps, e), e, m)[n] =
                     IF port[r].eps[n] = <<e>> THEN <<>> ELSE port[r].eps[n]
<1>1. PICK u : u = Unlisted(port[r].eps, e)
  OBVIOUS
<1>2. /\ u \in [Muxes -> Seq(Eps)]
      /\ \A n \in Muxes :
            u[n] = IF port[r].eps[n] = <<e>> THEN <<>> ELSE port[r].eps[n]
  BY <1>1, UnlistedFacts
<1>3. Listed(u, e, m) \in [Muxes -> Seq(Eps)]
  BY <1>2, ListedType
<1>4. Listed(u, e, m)[m] = <<e>> \o u[m] /\ \A n \in Muxes \ {m} : Listed(u, e, m)[n] = u[n]
  BY <1>2 DEF Listed
<1>5. <<e>> \o <<>> = <<e>>
  OBVIOUS
<1> HIDE <1>1
<1>6. port[r].eps[m] \in {<<>>, <<e>>} => Listed(u, e, m)[m] = <<e>>
  BY <1>2, <1>4, <1>5
<1>7. \A n \in Muxes \ {m} :
         Listed(u, e, m)[n] = IF port[r].eps[n] = <<e>> THEN <<>> ELSE port[r].eps[n]
  BY <1>2, <1>4
<1> QED
  BY <1>1, <1>3, <1>6, <1>7

\* Between operations a device has its endpoint
LEMMA DeviceEp ==
    ASSUME TypeOK, Inv, Idle, NEW v \in Vnds, vnd[v].st = "reg"
    PROVE  LET e == GetEndpoint(vnd[v].real, vnd[v].mux)
           IN  /\ vnd[v].real \in Reals /\ vnd[v].mux \in Muxes
               /\ e \in Eps /\ e # NULL
               /\ port[vnd[v].real].eps[vnd[v].mux] = <<e>>
               /\ ep[e].egress_dev = v /\ ep[e].st = "listed"
               /\ ep[e].real = vnd[v].real /\ ep[e].mux = vnd[v].mux
<1>1. vnd[v].real \in Reals /\ vnd[v].mux \in Muxes /\ v \notin rt.vs
  BY IdleFacts DEF Inv, StructInv, VndOK
<1>2. PICK e \in Eps : /\ port[vnd[v].real].eps[vnd[v].mux] = <<e>>
                       /\ ep[e].egress_dev = v
  BY <1>1 DEF Inv, StructInv, VndOK
<1>3. GetEndpoint(vnd[v].real, vnd[v].mux) = e
  BY <1>2 DEF GetEndpoint
<1>4. /\ ep[e].st = "listed" /\ ep[e].real = vnd[v].real
      /\ ep[e].mux = vnd[v].mux
  BY <1>2, NullAssumption DEF Inv, StructInv, EpOK
<1> QED
  BY <1>1, <1>2, <1>3, <1>4, NullAssumption

LEMMA DellinkKeeps ==
    ASSUME TypeOK, Inv, crash = NULL, NEW v \in Vnds, Dellink(v)
    PROVE  TypeOK' /\ Inv'
<1>0. /\ RtOK /\ EsOK /\ ListOK /\ EpOK /\ VndOK /\ PortOK /\ ReadOK /\ NrOK
  BY DEF Inv, StructInv
<1>1. PICK r, m, e : /\ r = vnd[v].real /\ m = vnd[v].mux
                     /\ e = GetEndpoint(r, m)
  OBVIOUS
<1>2. /\ Idle /\ vnd[v].st = "reg" /\ port[r].st = "live"
      /\ UNCHANGED <<env, vnd, ep, wait, rd, hist, crash>>
  BY <1>1 DEF Dellink
<1>3. /\ r \in Reals /\ m \in Muxes /\ e \in Eps /\ e # NULL
      /\ port[r].eps[m] = <<e>> /\ ep[e].egress_dev = v
      /\ ep[e].st = "listed" /\ ep[e].real = r /\ ep[e].mux = m
  BY <1>1, <1>2, DeviceEp
<1>4. PICK u : u = Unlisted(port[r].eps, e)
  OBVIOUS
<1>5. /\ port' = [port EXCEPT ![r].eps = u]
      /\ rt' = [[NoWork EXCEPT !.op = "dellink", !.real = r, !.vs = {v}]
                   EXCEPT !.pc = "bridge", !.es = {e}]
  BY <1>1, <1>3, <1>4 DEF Dellink
<1>6. /\ u \in [Muxes -> Seq(Eps)]
      /\ \A n \in Muxes :
            u[n] = IF port[r].eps[n] = <<e>> THEN <<>> ELSE port[r].eps[n]
  BY <1>0, <1>3, <1>4, UnlistedFacts
<1>7. /\ port' \in [Reals -> PortRec]
      /\ \A q \in Reals : q # r => port'[q] = port[q]
      /\ port'[r].st = port[r].st /\ port'[r].nr = port[r].nr
      /\ port'[r].eps = u /\ port'[r].bridge_ep = port[r].bridge_ep
      /\ port'[r].mode = port[r].mode
  <2>1. port[r] \in PortRec
    BY <1>3, Types
  <2> QED
    BY <1>3, <1>5, <1>6, <2>1, Types DEF PortRec
<1>8. /\ rt' \in RtRec /\ rt'.pc = "bridge" /\ ~rt'.grace /\ rt'.real = r
      /\ rt'.vs = {v} /\ rt'.es = {e}
  <2>1. rt'.pc = "bridge" /\ ~rt'.grace /\ rt'.real = r /\ rt'.vs = {v} /\ rt'.es = {e}
    BY <1>5 DEF NoWork
  <2>2. rt' \in RtRec
    BY <1>3, <1>5, NullTypes DEF RtRec, NoWork, Steps
  <2> QED
    BY <2>1, <2>2
<1> HIDE <1>4, <1>5
<1>9. Early' /\ ~Mid' /\ ~Late' /\ ~Calling'
  BY <1>8 DEF Early, Mid, Late, Calling
<1>10. /\ rt = NoWork /\ rt.pc = "idle" /\ ~rt.grace /\ rt.vs = {} /\ rt.es = {}
       /\ ~Early /\ ~Mid /\ ~Late /\ ~Calling
       /\ \A k \in Readers : rd[k].real # NULL =>
            rd[k].real \in Reals /\ port[rd[k].real].st = "live"
       /\ \A q \in Reals : port[q].st # "dying"
  BY <1>2, IdleFacts
<1>11. \A q \in Reals, n \in Muxes :
          /\ port[q].eps[n] # <<e>> => port'[q].eps[n] = port[q].eps[n]
          /\ port'[q].eps[n] # <<>> => port'[q].eps[n] = port[q].eps[n]
  BY <1>6, <1>7
<1>12. \A f \in Eps : f # e => <<f>> # <<e>>
  OBVIOUS
<1>20. TypeOK'
  BY <1>2, <1>7, <1>8, HistSame, Types, TypesNext
<1>21. RtOK'
  BY <1>3, <1>8, <1>9 DEF RtOK
<1>22. EsOK'
  <2> \A n \in Muxes : port'[r].eps[n] # <<e>>
    <3>1. <<>> # <<e>>
      OBVIOUS
    <3> QED
      BY <1>6, <1>7, <3>1
  <2> QED
    BY <1>2, <1>3, <1>8, <1>9 DEF EsOK
<1>23. ListOK'
  <2> SUFFICES ASSUME NEW q \in Reals, NEW n \in Muxes, port'[q].eps[n] # <<>>
               PROVE  ListOK!(q, n)'
    BY DEF ListOK
  <2>1. port'[q].eps[n] = port[q].eps[n]
    BY <1>11
  <2> QED
    BY <1>0, <1>2, <1>10, <2>1 DEF ListOK
<1>24. EpOK'
  <2>1. ASSUME NEW f \in Eps
        PROVE  EpOK!1!(f)'
    <3>1. EpOK!1!(f)
      BY <1>0 DEF EpOK
    <3>2. f = e => f \in rt'.es
      BY <1>8
    <3>3. ep[f].egress_dev = v => f = e
      BY <1>0, <1>3 DEF EpOK
    <3> QED
      BY <1>2, <1>8, <1>10, <1>11, <1>12, <3>1, <3>2, <3>3
  <2> QED
    BY <1>0, <1>2, <2>1 DEF EpOK
<1>25. VndOK'
  <2> SUFFICES ASSUME NEW w \in Vnds PROVE VndOK!(w)'
    BY DEF VndOK
  <2>1. VndOK!(w) /\ vnd'[w] = vnd[w]
    BY <1>0, <1>2 DEF VndOK
  <2>2. CASE w = v
    BY <1>1, <1>2, <1>8, <1>9, <2>1, <2>2
  <2>3. CASE w # v
    <3>1. ASSUME vnd[w].st = "reg"
          PROVE  \E f \in Eps : /\ port'[vnd[w].real].eps[vnd[w].mux] = <<f>>
                                /\ ep'[f].egress_dev = w
      <4>1. PICK f \in Eps : /\ port[vnd[w].real].eps[vnd[w].mux] = <<f>>
                             /\ ep[f].egress_dev = w
        BY <1>10, <2>1, <3>1
      <4>2. f # e
        BY <1>3, <2>3, <4>1
      <4> QED
        BY <1>2, <1>11, <1>12, <2>1, <3>1, <4>1, <4>2
    <3>2. w \notin rt'.vs /\ w \notin rt.vs
      BY <1>8, <1>10, <2>3
    <3> QED
      BY <2>1, <3>1, <3>2
  <2> QED
    BY <2>2, <2>3
<1>26. NrOK'
  <2>1. \A q \in Reals : Leading(q)' = Leading(q) /\ port'[q].nr = port[q].nr
    BY <1>2, <1>7 DEF Leading
  <2> QED
    BY <1>0, <2>1 DEF NrOK
<1>27. PortOK'
  <2>1. \A q \in Reals : /\ port'[q].st # "dying" /\ OtherEnd(port'[q], q)
                         /\ port'[q].st = "none" => port'[q] = NoPort
    BY <1>0, <1>2, <1>7, <1>10 DEF PortOK, OtherEnd
  <2> QED
    BY <1>2, <1>7, <1>8, <1>9, <2>1 DEF PortOK
<1>28. ReadOK'
  <2> SUFFICES ASSUME NEW k \in Readers PROVE ReaderOK(k, rd[k])'
    BY DEF ReadOK
  <2>1. ReaderOK(k, rd[k]) /\ rd[k] \in RdRec
    BY <1>0, Types DEF ReadOK
  <2>2. rd[k].real # NULL => port'[rd[k].real].st = "live"
    BY <1>7, <1>10
  <2> QED
    BY <1>2, <1>8, <1>9, <1>10, <2>1, <2>2 DEF ReaderOK
<1>29. CrashOK'
  BY <1>2, NullAssumption DEF CrashOK
<1> QED
  BY <1>20, <1>21, <1>22, <1>23, <1>24, <1>25, <1>26, <1>27, <1>28, <1>29
     DEF Inv, StructInv

LEMMA ForceKeeps ==
    ASSUME TypeOK, Inv, crash = NULL, NEW r \in Reals, ForceUnassociate(r)
    PROVE  TypeOK' /\ Inv'
<1>0. /\ RtOK /\ EsOK /\ ListOK /\ EpOK /\ VndOK /\ PortOK /\ ReadOK /\ NrOK
  BY DEF Inv, StructInv
<1>1. PICK es, vs : es = EpsOf(r) /\ vs = {ep[e].egress_dev : e \in es}
  OBVIOUS
<1>2. /\ Idle /\ port[r].st = "live"
      /\ rt' = [NoWork EXCEPT !.op = "force", !.pc = "qmi_exit", !.real = r,
                              !.es = es, !.vs = vs]
      /\ UNCHANGED <<env, port, vnd, ep, wait, rd, hist, crash>>
  BY <1>1 DEF ForceUnassociate
<1>3. /\ rt = NoWork /\ rt.pc = "idle" /\ ~rt.grace /\ rt.vs = {} /\ rt.es = {}
      /\ ~Early /\ ~Mid /\ ~Late /\ ~Calling
      /\ \A k \in Readers : rd[k].real # NULL =>
            rd[k].real \in Reals /\ port[rd[k].real].st = "live"
      /\ \A q \in Reals : port[q].st # "dying"
  BY <1>2, IdleFacts
<1>4. \A e \in es : /\ e \in Eps /\ ep[e].st = "listed" /\ ep[e].real = r
                    /\ ep[e].egress_dev # NULL
                    /\ ep[e].egress_dev \in Vnds
  <2> SUFFICES ASSUME NEW e \in es
               PROVE  /\ e \in Eps /\ ep[e].st = "listed" /\ ep[e].real = r
    BY <1>0 DEF EpOK
  <2>1. e \in Eps
    BY <1>1 DEF EpsOf
  <2>2. PICK m \in Muxes : Places(port[r].eps[m], e) # {}
    BY <1>1 DEF EpsOf
  <2>3. PICK i \in 1 .. Len(port[r].eps[m]) : port[r].eps[m][i] = e
    BY <2>2 DEF Places
  <2>4. port[r].eps[m] # <<>>
    BY <2>3
  <2>5. PICK f \in Eps : port[r].eps[m] = <<f>> /\ ep[f].real = r /\ ep[f].st = "listed"
    BY <1>0, <1>3, <2>4 DEF ListOK
  <2>6. f = e
    BY <2>3, <2>5
  <2> QED
    BY <2>1, <2>5, <2>6
<1>5. vs \subseteq Vnds /\ \A v \in vs : \E e \in es : v = ep[e].egress_dev
  BY <1>1, <1>4
<1>6. \A e \in Eps : ep[e].egress_dev \in vs => e \in es
  BY <1>0, <1>4, <1>5, NullAssumption DEF EpOK
<1>7. \A e \in es : ep[e].egress_dev \in vs
  BY <1>1
<1>8. \A e \in Eps, m \in Muxes : port[r].eps[m] = <<e>> => e \in es
  <2> SUFFICES ASSUME NEW e \in Eps, NEW m \in Muxes, port[r].eps[m] = <<e>>
               PROVE  e \in EpsOf(r)
    BY <1>1
  <2>1. 1 \in Places(port[r].eps[m], e)
    BY DEF Places
  <2> QED
    BY <2>1 DEF EpsOf
<1>9. /\ rt' \in RtRec /\ rt'.pc = "qmi_exit" /\ ~rt'.grace /\ rt'.real = r
      /\ rt'.vs = vs /\ rt'.es = es /\ rt'.op = "force"
  <2>1. rt'.op = "force" /\ rt'.pc = "qmi_exit" /\ ~rt'.grace /\ rt'.real = r /\ rt'.vs = vs /\ rt'.es = es
    BY <1>2 DEF NoWork
  <2>2. rt' \in RtRec
    BY <1>2, <1>4, <1>5, NullTypes DEF RtRec, NoWork, Steps
  <2> QED
    BY <2>1, <2>2
<1> HIDE <1>1
<1>10. Early' /\ ~Mid' /\ ~Late' /\ ~Calling'
  BY <1>9 DEF Early, Mid, Late, Calling
<1>11. RtOK'
  BY <1>9, <1>10 DEF RtOK
<1>12. EsOK'
  BY <1>2, <1>4, <1>7, <1>9, <1>10 DEF EsOK
<1>13. ListOK'
  BY <1>0, <1>2, <1>3 DEF ListOK
<1>14. EpOK'
  BY <1>0, <1>2, <1>3, <1>6, <1>9 DEF EpOK
<1>15. VndOK'
  <2> SUFFICES ASSUME NEW v \in Vnds PROVE VndOK!(v)'
    BY DEF VndOK
  <2>1. VndOK!(v) /\ vnd'[v] = vnd[v] /\ v \notin rt.vs
    BY <1>0, <1>2, <1>3 DEF VndOK
  <2>2. v \in vs => vnd[v].st = "reg" /\ vnd[v].real = r
    BY <1>0, <1>4, <1>5 DEF EpOK
  <2> QED
    BY <1>2, <1>9, <1>10, <2>1, <2>2
<1>16. PortOK'
  BY <1>0, <1>2, <1>3, <1>9, <1>10 DEF PortOK
<1>17. ReadOK'
  <2> SUFFICES ASSUME NEW k \in Readers PROVE ReaderOK(k, rd[k])'
    BY DEF ReadOK
  <2>1. ReaderOK(k, rd[k]) /\ rd[k] \in RdRec
    BY <1>0, Types DEF ReadOK
  <2> QED
    BY <1>2, <1>3, <1>9, <1>10, <2>1 DEF ReaderOK
<1> QED
  BY <1>2, <1>9, <1>11, <1>12, <1>13, <1>14, <1>15, <1>16, <1>17, Types, WorkKeeps

LEMMA ChangelinkKeeps ==
    ASSUME TypeOK, Inv, crash = NULL, NEW v \in Vnds, NEW r \in Reals,
           NEW m \in Muxes, Changelink(v, r, m)
    PROVE  TypeOK' /\ (misled' \/ Inv')
<1>0. /\ RtOK /\ EsOK /\ ListOK /\ EpOK /\ VndOK /\ PortOK /\ ReadOK /\ NrOK
  BY DEF Inv, StructInv
<1>1. PICK n, e : n = vnd[v].mux /\ e = GetEndpoint(r, n)
  OBVIOUS
<1>2. /\ Idle /\ vnd[v].st = "reg" /\ port[r].st = "live" /\ e # NULL
      /\ misled' = (misled \/ r # vnd[v].real \/ GetEndpoint(r, m) \notin {e, NULL})
      /\ UNCHANGED <<env, rt, wait, rd, mixed, nomem, crash>>
  BY <1>1 DEF Changelink
<1>3. n \in Muxes
  BY <1>0, <1>1, <1>2 DEF VndOK
<1>4. e \in Eps /\ port[r].eps[n] = <<e>> /\ ep[e].real = r /\ ep[e].mux = n
  BY <1>1, <1>2, <1>3, FoundEp DEF Inv
<1>5. PICK l : l = Listed(Unlisted(port[r].eps, e), e, m)
  OBVIOUS
<1>6. /\ l \in [Muxes -> Seq(Eps)]
      /\ port[r].eps[m] \in {<<>>, <<e>>} => l[m] = <<e>>
      /\ \A i \in Muxes \ {m} :
            l[i] = IF port[r].eps[i] = <<e>> THEN <<>> ELSE port[r].eps[i]
  <2> DEFINE t == Listed(Unlisted(port[r].eps, e), e, m)
  <2>1. e \in Eps /\ ListOK
    BY <1>0, <1>4
  <2>2. /\ t \in [Muxes -> Seq(Eps)]
        /\ port[r].eps[m] \in {<<>>, <<e>>} => t[m] = <<e>>
        /\ \A i \in Muxes \ {m} :
              t[i] = IF port[r].eps[i] = <<e>> THEN <<>> ELSE port[r].eps[i]
    BY <2>1, RelistedFacts
  <2>3. l = t
    BY <1>5
  <2> HIDE DEF t
  <2> QED
    BY <2>2, <2>3
<1>7. /\ port' \in [Reals -> PortRec]
      /\ \A q \in Reals : q # r => port'[q] = port[q]
      /\ port'[r].st = port[r].st /\ port'[r].nr = port[r].nr
      /\ port'[r].eps = l /\ port'[r].bridge_ep = port[r].bridge_ep
      /\ port'[r].mode = port[r].mode
  <2>1. port[r] \in PortRec
    BY Types
  <2>2. port' = [port EXCEPT ![r].eps = l]
    BY <1>1, <1>5 DEF Changelink
  <2> QED
    BY <1>6, <2>1, <2>2, Types DEF PortRec
<1>8. /\ ep' \in [Eps -> EpRec] /\ \A f \in Eps : f # e => ep'[f] = ep[f]
      /\ ep'[e].st = ep[e].st /\ ep'[e].real = r /\ ep'[e].mux = m
      /\ ep'[e].egress_dev = ep[e].egress_dev
  <2>1. ep[e] \in EpRec
    BY <1>4, Types
  <2>2. ep' = [ep EXCEPT ![e].mux = m]
    BY <1>1 DEF Changelink
  <2> QED
    BY <1>4, <2>1, <2>2, Types DEF EpRec
<1>9. /\ vnd' \in [Vnds -> VndRec] /\ \A w \in Vnds : w # v => vnd'[w] = vnd[w]
      /\ vnd'[v].st = vnd[v].st /\ vnd'[v].real = vnd[v].real
      /\ vnd'[v].mux = m /\ vnd'[v].qos = vnd[v].qos
      /\ vnd'[v].timer = vnd[v].timer
  <2>1. vnd[v] \in VndRec
    BY Types
  <2>2. vnd' = [vnd EXCEPT ![v].mux = m]
    BY <1>1 DEF Changelink
  <2> QED
    BY <2>1, <2>2, Types DEF VndRec
<1>10. TypeOK'
  <2> misled' \in BOOLEAN
    BY <1>2, Zenon
  <2> QED
    BY <1>2, <1>7, <1>8, <1>9, Types, TypesNext
<1>11. SUFFICES ASSUME ~misled' PROVE Inv'
  BY <1>10
<1>12. r = vnd[v].real /\ GetEndpoint(r, m) \in {e, NULL}
  BY <1>2, <1>11
<1>13. ep[e].egress_dev = v /\ ep[e].st = "listed"
  BY <1>1, <1>2, <1>12, DeviceEp
<1>14. /\ port[r].eps[m] = <<>> \/ (port[r].eps[m] = <<e>> /\ m = n)
  <2> SUFFICES ASSUME port[r].eps[m] # <<>>
               PROVE  port[r].eps[m] = <<e>> /\ m = n
    OBVIOUS
  <2>1. PICK f \in Eps : port[r].eps[m] = <<f>> /\ ep[f].mux = m
    BY <1>0 DEF ListOK
  <2>2. GetEndpoint(r, m) = f
    BY <2>1 DEF GetEndpoint
  <2> QED
    BY <1>4, <1>12, <2>1, <2>2, NullAssumption
<1>15. \A q \in Reals, i \in Muxes :
          port'[q].eps[i] = IF q = r /\ i = m THEN <<e>>
                            ELSE IF q = r /\ i = n THEN <<>>
                            ELSE port[q].eps[i]
  <2>1. \A i \in Muxes : port[r].eps[i] = <<e>> => i = n
    <3> SUFFICES ASSUME NEW i \in Muxes, port[r].eps[i] = <<e>> PROVE i = n
      OBVIOUS
    <3>1. PICK f \in Eps : port[r].eps[i] = <<f>> /\ ep[f].mux = i
      BY <1>0 DEF ListOK
    <3> QED
      BY <1>4, <3>1
  <2>2. port'[r].eps[m] = <<e>>
    BY <1>6, <1>7, <1>14
  <2>3. \A i \in Muxes \ {m} : port'[r].eps[i] = IF i = n THEN <<>> ELSE port[r].eps[i]
    BY <1>4, <1>6, <1>7, <2>1
  <2> QED
    BY <1>7, <2>2, <2>3
<1>16. /\ rt = NoWork /\ rt.pc = "idle" /\ ~rt.grace /\ rt.vs = {} /\ rt.es = {}
       /\ rt' = rt /\ ~Early' /\ ~Mid' /\ ~Late' /\ ~Calling'
       /\ \A k \in Readers : rd[k].real # NULL =>
            rd[k].real \in Reals /\ port[rd[k].real].st = "live"
       /\ \A q \in Reals : port[q].st # "dying"
  BY <1>2, IdleFacts DEF Early, Mid, Late, Calling
<1> HIDE <1>6
<1>17. RtOK' /\ EsOK'
  BY <1>16 DEF RtOK, EsOK
<1>18. \A f \in Eps : <<f>> # <<>>
  OBVIOUS
<1>19. ListOK'
  <2> SUFFICES ASSUME NEW q \in Reals, NEW i \in Muxes, port'[q].eps[i] # <<>>
               PROVE  ListOK!(q, i)'
    BY DEF ListOK
  <2>1. CASE q = r /\ i = m
    BY <1>4, <1>8, <1>13, <1>15, <2>1
  <2>2. CASE ~(q = r /\ i = m)
    <3>1. port'[q].eps[i] = port[q].eps[i] /\ ~(q = r /\ i = n)
      BY <1>15, <2>2
    <3>2. PICK f \in Eps : /\ port[q].eps[i] = <<f>>
                           /\ ep[f].real = q /\ ep[f].mux = i /\ ep[f].st = "listed"
      BY <1>0, <1>16, <3>1 DEF ListOK
    <3>3. f # e
      BY <1>4, <3>1, <3>2
    <3> QED
      BY <1>8, <3>1, <3>2, <3>3
  <2> QED
    BY <2>1, <2>2
<1>20. EpOK'
  <2>1. ASSUME NEW f \in Eps
        PROVE  EpOK!1!(f)'
    <3>1. EpOK!1!(f)
      BY <1>0 DEF EpOK
    <3>2. CASE f = e
      BY <1>2, <1>8, <1>9, <1>12, <1>13, <1>15, <1>16, <3>1, <3>2
    <3>3. CASE f # e
      <4>1. ep[f].egress_dev # v /\ ep'[f] = ep[f]
        <5>1. ep[e].egress_dev # NULL
          BY <1>13, NullAssumption
        <5>2. ep[e].egress_dev = ep[f].egress_dev => e = f
          BY <1>0, <1>4, <5>1 DEF EpOK
        <5> QED
          BY <1>8, <1>13, <3>3, <5>2
      <4>2. ep[f].egress_dev # NULL =>
               port[ep[f].real].eps[ep[f].mux] = <<f>>
        BY <1>16, <3>1
      <4>3. ep[f].egress_dev # NULL /\ ep[f].real = r =>
               ep[f].mux # m /\ ep[f].mux # n
        <5>1. <<f>> # <<e>> /\ <<f>> # <<>>
          BY <3>3
        <5> QED
          BY <1>4, <1>14, <4>2, <5>1
      <4> QED
        BY <1>9, <1>15, <1>16, <3>1, <4>1, <4>2, <4>3
    <3> QED
      BY <3>2, <3>3
  <2>2. \A f \in Eps : ep'[f].egress_dev = ep[f].egress_dev
    BY <1>8
  <2> QED
    BY <1>0, <2>1, <2>2 DEF EpOK
<1>21. VndOK'
  <2> SUFFICES ASSUME NEW w \in Vnds PROVE VndOK!(w)'
    BY DEF VndOK
  <2>1. VndOK!(w) /\ w \notin rt.vs
    BY <1>0, <1>16 DEF VndOK
  <2>2. CASE w = v
    BY <1>2, <1>4, <1>8, <1>9, <1>12, <1>13, <1>15, <1>16, <2>1, <2>2
  <2>3. CASE w # v
    <3>1. ASSUME vnd[w].st = "reg"
          PROVE  \E f \in Eps : /\ port'[vnd[w].real].eps[vnd[w].mux] = <<f>>
                                /\ ep'[f].egress_dev = w
      <4>1. PICK f \in Eps : /\ port[vnd[w].real].eps[vnd[w].mux] = <<f>>
                             /\ ep[f].egress_dev = w
        BY <2>1, <3>1
      <4>2. f # e /\ <<f>> # <<e>> /\ <<f>> # <<>>
        BY <1>13, <2>3, <4>1
      <4>3. vnd[w].real \in Reals /\ vnd[w].mux \in Muxes
        BY <2>1, <3>1
      <4>4. port'[vnd[w].real].eps[vnd[w].mux] = <<f>>
        BY <1>4, <1>14, <1>15, <4>1, <4>2, <4>3
      <4> QED
        BY <1>8, <4>1, <4>2, <4>4
    <3> QED
      BY <1>9, <1>16, <2>1, <2>3, <3>1
  <2> QED
    BY <2>2, <2>3
<1>22. NrOK'
  <2>1. \A q \in Reals : Leading(q)' = Leading(q) /\ port'[q].nr = port[q].nr
    BY <1>4, <1>7, <1>8 DEF Leading
  <2> QED
    BY <1>0, <2>1 DEF NrOK
<1>23. PortOK'
  <2>1. \A q \in Reals : /\ port'[q].st # "dying" /\ OtherEnd(port'[q], q)
                         /\ port'[q].st = "none" => port'[q] = NoPort
    BY <1>0, <1>2, <1>7, <1>16 DEF PortOK, OtherEnd
  <2> QED
    BY <1>16, <2>1 DEF PortOK
<1>24. ReadOK'
  <2> SUFFICES ASSUME NEW k \in Readers PROVE ReaderOK(k, rd[k])'
    BY DEF ReadOK
  <2>1. ReaderOK(k, rd[k]) /\ rd[k] \in RdRec
    BY <1>0, Types DEF ReadOK
  <2>2. rd[k].real # NULL => port'[rd[k].real].st = "live"
    BY <1>7, <1>16
  <2>3. rd[k].ep # NULL => ep'[rd[k].ep].st # "none"
    BY <1>8, <2>1 DEF ReaderOK, RdRec
  <2>4. rd[k].dev # NULL => vnd'[rd[k].dev].st \in {"reg", "closed"}
    BY <1>9, <2>1 DEF ReaderOK, RdRec
  <2> QED
    BY <1>2, <1>16, <2>1, <2>2, <2>3, <2>4 DEF ReaderOK
<1>25. CrashOK'
  BY <1>2, NullAssumption DEF CrashOK
<1> QED
  BY <1>17, <1>19, <1>20, <1>21, <1>22, <1>23, <1>24, <1>25 DEF Inv, StructInv

LEMMA AddBridgeKeeps ==
    ASSUME TypeOK, Inv, crash = NULL, NEW v \in Vnds, NEW s \in Reals,
           NEW got \in Outcomes, AddBridge(v, s, got)
    PROVE  TypeOK' /\ Inv'
<1>1. PICK r : r = vnd[v].real
  OBVIOUS
<1>2. /\ Idle /\ vnd[v].st = "reg" /\ port[r].st = "live" /\ port[s].st = "none"
      /\ mixed' = (mixed \/ InBridge(r) \/ InBridge(s))
      /\ UNCHANGED <<env, vnd, ep, rt, wait, rd, misled>>
  BY <1>1 DEF AddBridge
<1>3. r \in Reals /\ r # s /\ port[s] = NoPort
  BY <1>1, <1>2 DEF Inv, StructInv, VndOK, PortOK
<1>4. misled' \in BOOLEAN
  BY <1>2, Types
<1>5. mixed' \in BOOLEAN
  BY <1>2, Zenon
<1>6. /\ port' \in [Reals -> PortRec]
      /\ \A q \in Reals : /\ port'[q].nr = port[q].nr
                          /\ port'[q].eps = port[q].eps
                          /\ OtherEnd(port'[q], q)
                          /\ port[q].st = "live" => port'[q].st = "live"
                          /\ port'[q].st # "dying"
                          /\ port'[q].st = "none" => port'[q] = NoPort
      /\ crash' \in {NULL, "half"} /\ nomem' \in BOOLEAN
  <2>1. CASE got # "all"
    BY <1>2, <2>1, RegisterRealFacts DEF AddBridge
  <2>2. CASE got = "all"
    <3>1. PICK x, y :
             /\ x = [NoPort EXCEPT !.st = "live", !.built = TRUE,
                                   !.mode = "bridge", !.bridge_ep = r]
             /\ y = [port[r] EXCEPT !.mode = "bridge", !.bridge_ep = s]
      OBVIOUS
    <3>2. port' = [port EXCEPT ![s] = x, ![r].mode = "bridge", ![r].bridge_ep = s]
      BY <1>1, <2>2, <3>1 DEF AddBridge
    <3>3. UNCHANGED <<nomem, crash>>
      BY <2>2 DEF AddBridge
    <3>4. /\ x \in PortRec /\ x.st = "live" /\ x.nr = NoPort.nr
          /\ x.eps = NoPort.eps /\ x.bridge_ep = r
      BY <1>3, <3>1, NullTypes DEF NoPort, PortRec
    <3>5. port[r] \in PortRec
      BY <1>3, Types
    <3>6. /\ y \in PortRec /\ y.st = port[r].st /\ y.nr = port[r].nr
          /\ y.eps = port[r].eps /\ y.bridge_ep = s
      BY <3>1, <3>5 DEF PortRec
    <3>7. port'[r] = y /\ port'[s] = x /\ port' \in [Reals -> PortRec]
          /\ \A q \in Reals : q # r /\ q # s => port'[q] = port[q]
      <4>1. port'[s] = x
        BY <1>3, <3>2, Types
      <4>2. port'[r] = y
        BY <1>3, <3>1, <3>2, Types
      <4>3. \A q \in Reals : q # r /\ q # s => port'[q] = port[q]
        BY <1>3, <3>2, Types
      <4>4. DOMAIN port' = Reals /\ port' = [q \in Reals |-> port'[q]]
        BY <3>2, Types
      <4>5. \A q \in Reals : port'[q] \in PortRec
        BY <3>4, <3>6, <4>1, <4>2, <4>3, Types
      <4> QED
        BY <4>1, <4>2, <4>3, <4>4, <4>5
    <3>8. \A q \in Reals : port[q].st # "dying"
      BY <1>2, IdleFacts
    <3>9. \A q \in Reals : /\ OtherEnd(port[q], q)
                           /\ port[q].st = "none" => port[q] = NoPort
      BY DEF Inv, StructInv, PortOK
    <3> QED
      BY <1>2, <1>3, <3>3, <3>4, <3>6, <3>7, <3>8, <3>9, NullAssumption, Types
         DEF OtherEnd
  <2> QED
    BY <2>1, <2>2
<1>7. /\ rt' = NoWork /\ rt' \in RtRec /\ ~rt'.grace /\ rt'.pc = "idle"
      /\ rt'.es = {} /\ rt'.vs = {}
  BY <1>2, NoWorkFacts DEF Idle
<1> QED
  BY <1>2, <1>4, <1>5, <1>6, <1>7, RegisterRealKeeps

LEMMA DelBridgeKeeps ==
    ASSUME TypeOK, Inv, crash = NULL, NEW v \in Vnds, NEW s \in Reals,
           DelBridge(v, s)
    PROVE  TypeOK' /\ Inv'
<1>1. PICK r : r = vnd[v].real
  OBVIOUS
<1>2. /\ Idle /\ vnd[v].st = "reg" /\ port[r].st = "live"
      /\ UNCHANGED <<env, vnd, ep, wait, rd, hist>>
  BY <1>1 DEF DelBridge
<1>3. r \in Reals /\ port[r] \in PortRec
  BY <1>1, <1>2, Types DEF Inv, StructInv, VndOK
<1>4. CASE port[s].st # "live"
  <2>1. crash' = "port" /\ UNCHANGED <<port, rt>>
    BY <1>4 DEF DelBridge
  <2>2. TypeOK'
    BY <1>2, <2>1, HistSame, Types, TypesNext
  <2> QED
    BY <1>2, <2>1, <2>2, PortSame, VndSame, SameKeeps
<1>5. CASE port[s].st = "live"
  <2>1. /\ port' = [port EXCEPT ![r].mode = "vnd", ![r].bridge_ep = NULL]
        /\ rt' = Unreal(NoWork, s, "idle") /\ UNCHANGED crash
    BY <1>1, <1>5 DEF DelBridge
  <2>2. /\ port' \in [Reals -> PortRec]
        /\ \A q \in Reals : q # r => port'[q] = port[q]
        /\ port'[r].st = port[r].st /\ port'[r].nr = port[r].nr
        /\ port'[r].eps = port[r].eps /\ port'[r].bridge_ep = NULL
        /\ port'[r].mode = "vnd"
    BY <1>3, <2>1, Types DEF PortRec
  <2>3. \A q \in Reals : SamePort(q)
    BY <1>2, <1>3, <2>2, NullAssumption
       DEF SamePort, Inv, StructInv, PortOK, OtherEnd
  <2>4. rt.pc = "idle"
    BY <1>2, NoWorkFacts DEF Idle
  <2> QED
    BY <1>2, <1>5, <2>1, <2>2, <2>3, <2>4, CallKeeps
<1> QED
  BY <1>4, <1>5

-----------------------------------------------------------------------------
(* Deleting.                                                               *)

\* On to the next step of deleting
LEMMA StepKeeps ==
    ASSUME TypeOK, Inv, crash = NULL, ~rt.grace, rt' \in RtRec, ~rt'.grace,
           \/ rt.pc = "bridge" /\ rt'.pc = "detach"
           \/ rt.pc = "qmi_exit" /\ rt'.pc = "bridge"
           \/ rt.pc = "qmi_last" /\ rt'.pc = "close"
           \/ rt.pc = "free" /\ rt'.pc \in {"qmi_last", "close"} /\ rt.es = {},
           rt'.op = rt.op, rt'.real = rt.real, rt'.vs = rt.vs, rt'.es = rt.es,
           port' \in [Reals -> PortRec], \A q \in Reals : SamePort(q),
           UNCHANGED <<env, vnd, ep, wait, rd, hist, crash>>
    PROVE  TypeOK' /\ Inv'
<1>0. /\ RtOK /\ EsOK /\ ListOK /\ EpOK /\ VndOK /\ PortOK /\ ReadOK /\ NrOK
  BY DEF Inv, StructInv
<1>1. /\ ~Calling /\ ~Calling' /\ ~Late /\ ~Late'
      /\ Early' <=> Early
      /\ Mid' <=> Mid
      /\ Early \/ Mid
      /\ rt.es # {} => Early
  BY <1>0 DEF Calling, Early, Mid, Late, RtOK
<1>2. \A q \in Reals : /\ port'[q].st = port[q].st /\ port'[q].nr = port[q].nr
                       /\ port'[q].eps = port[q].eps /\ OtherEnd(port'[q], q)
                       /\ port[q].st = "none" => port'[q] = NoPort
  BY DEF SamePort
<1>3. rt.real \in Reals
  BY <1>0, <1>1 DEF RtOK
<1>4. rt'.pc \in {"detach", "bridge", "qmi_last", "close"}
  OBVIOUS
<1>10. TypeOK'
  BY HistSame, Types, TypesNext
<1>11. RtOK'
  BY <1>0, <1>1, <1>3, <1>4 DEF RtOK
<1>12. EsOK'
  BY <1>0, <1>1, <1>2, <1>3 DEF EsOK
<1>13. ListOK'
  <2> rt.pc # "unlist"
    OBVIOUS
  <2> QED
    BY <1>0, <1>2 DEF ListOK
<1>14. EpOK'
  <2> \A e \in Eps : ep[e].egress_dev \in rt.vs /\ ep[e].egress_dev # NULL => e \in rt.es
    BY <1>0 DEF EpOK
  <2> QED
    BY <1>0, <1>2, EpFrame
<1>15. VndOK'
  <2> SUFFICES ASSUME NEW v \in Vnds PROVE VndOK!(v)'
    BY DEF VndOK
  <2>1. VndOK!(v) /\ vnd'[v] = vnd[v]
    BY <1>0 DEF VndOK
  <2>2. vnd[v].st = "reg" => port'[vnd[v].real].eps = port[vnd[v].real].eps
    BY <1>2, <2>1
  <2>3. v \in rt.vs => vnd[v].st = "reg"
    BY <1>1, <2>1
  <2> QED
    BY <1>1, <1>4, <2>1, <2>2, <2>3
<1>16. NrOK'
  <2> \A q \in Reals : Leading(q)' = Leading(q)
    BY DEF Leading
  <2> QED
    BY <1>0, <1>2 DEF NrOK
<1>17. PortOK'
  <2>1. \A q \in Reals : port'[q].st # "dying"
    BY <1>0, <1>2 DEF PortOK
  <2> QED
    BY <1>0, <1>1, <1>2, <1>3, <1>4, <2>1 DEF PortOK
<1>18. ReadOK'
  <2> SUFFICES ASSUME NEW k \in Readers PROVE ReaderOK(k, rd[k])'
    BY DEF ReadOK
  <2>1. ReaderOK(k, rd[k]) /\ rd[k] \in RdRec
    BY <1>0, Types DEF ReadOK
  <2>2. rd[k].real # NULL => port'[rd[k].real].st = "live"
    BY <1>2, <2>1 DEF ReaderOK, RdRec
  <2> QED
    BY <1>1, <1>4, <2>1, <2>2 DEF ReaderOK
<1>19. CrashOK'
  BY NullAssumption DEF CrashOK
<1> QED
  BY <1>10, <1>11, <1>12, <1>13, <1>14, <1>15, <1>16, <1>17, <1>18, <1>19
     DEF Inv, StructInv

\* The slave is given up before the endpoints are taken off their devices
LEMMA SlaveKeeps ==
    ASSUME TypeOK, Inv, crash = NULL, At("bridge"), NEW b \in Reals,
           port[b].st = "live", b # rt.real, rt' = Unreal(rt, b, "detach"),
           UNCHANGED <<env, port, vnd, ep, wait, rd, hist, crash>>
    PROVE  TypeOK' /\ Inv'
<1>0. /\ RtOK /\ EsOK /\ ListOK /\ EpOK /\ VndOK /\ PortOK /\ ReadOK
      /\ rt \in RtRec
  BY Types DEF Inv, StructInv
<1>1. rt.pc = "bridge" /\ ~rt.grace
  BY DEF At
<1>2. /\ rt' \in RtRec /\ rt'.pc = "unreal" /\ ~rt'.grace /\ rt'.op = rt.op
      /\ rt'.real = rt.real /\ rt'.vs = rt.vs /\ rt'.es = rt.es /\ rt'.gone = b
      /\ rt'.back = "detach"
  BY <1>0, <1>1, UnrealFacts DEF Steps
<1>3. /\ Early /\ Early' /\ ~Mid /\ ~Mid' /\ ~Late /\ ~Late'
      /\ ~Calling /\ Calling'
  BY <1>1, <1>2 DEF Early, Mid, Late, Calling
<1>4. RtOK'
  BY <1>0, <1>1, <1>2, <1>3 DEF RtOK
<1>5. EsOK'
  BY <1>0, <1>2, <1>3 DEF EsOK
<1>6. ListOK'
  BY <1>0, <1>1, <1>2 DEF ListOK
<1>7. EpOK'
  BY <1>0, <1>2 DEF EpOK
<1>8. VndOK'
  BY <1>0, <1>1, <1>2, <1>3 DEF VndOK
<1>9. PortOK'
  BY <1>0, <1>1, <1>2, <1>3 DEF PortOK
<1>10. ReadOK'
  <2> SUFFICES ASSUME NEW k \in Readers PROVE ReaderOK(k, rd[k])'
    BY DEF ReadOK
  <2>1. ReaderOK(k, rd[k]) /\ rd[k] \in RdRec
    BY <1>0, Types DEF ReadOK
  <2> QED
    BY <1>1, <1>2, <1>3, <2>1 DEF ReaderOK
<1> QED
  BY <1>2, <1>4, <1>5, <1>6, <1>7, <1>8, <1>9, <1>10, Types, WorkKeeps

LEMMA UnregisterBridgeStep ==
    ASSUME TypeOK, Inv, crash = NULL, UnregisterBridge
    PROVE  TypeOK' /\ Inv'
<1>0. /\ rt.pc = "bridge" /\ ~rt.grace /\ At("bridge") /\ rt \in RtRec
      /\ UNCHANGED <<env, vnd, ep, wait, rd, hist>>
  BY Types DEF UnregisterBridge, At
<1>1. PICK r, b : r = rt.real /\ b = port[r].bridge_ep
  OBVIOUS
<1>2. r \in Reals /\ port[r] \in PortRec
  BY <1>0, <1>1, Types DEF Inv, StructInv, RtOK, Early
<1>3. CASE port[r].mode # "bridge"
  <2>1. Goto("detach") /\ UNCHANGED <<port, crash>>
    BY <1>1, <1>3 DEF UnregisterBridge
  <2>2. /\ rt' \in RtRec /\ rt'.pc = "detach" /\ ~rt'.grace
        /\ rt'.op = rt.op /\ rt'.real = rt.real /\ rt'.vs = rt.vs /\ rt'.es = rt.es
    BY <1>0, <2>1, GotoFacts DEF Steps
  <2> QED
    BY <1>0, <2>1, <2>2, PortSame, Types, StepKeeps
<1>4. CASE port[r].mode = "bridge" /\ port[b].st # "live"
  <2>1. crash' = "port" /\ UNCHANGED <<port, rt>>
    BY <1>1, <1>4 DEF UnregisterBridge
  <2>2. TypeOK'
    BY <1>0, <2>1, HistSame, Types, TypesNext
  <2> QED
    BY <1>0, <2>1, <2>2, PortSame, VndSame, SameKeeps
<1>5. CASE port[r].mode = "bridge" /\ port[b].st = "live"
  <2>1. b \in Reals /\ b # r
    BY <1>1, <1>2, <1>5 DEF Inv, StructInv, PortOK, OtherEnd, PortRec
  <2>2. UNCHANGED crash
    BY <1>1, <1>5 DEF UnregisterBridge
  <2>3. CASE port[r].nr # 0
    <3>1. rt' = Unreal(rt, b, "detach") /\ UNCHANGED port
      BY <1>1, <1>5, <2>3 DEF UnregisterBridge
    <3> QED
      BY <1>0, <1>1, <1>5, <2>1, <2>2, <3>1, SlaveKeeps
  <2>4. CASE port[r].nr = 0
    <3>1. /\ port' = [port EXCEPT ![b].bridge_ep = NULL, ![b].mode = "vnd"]
          /\ Goto("detach")
      BY <1>1, <1>5, <2>4 DEF UnregisterBridge
    <3>2. /\ rt' \in RtRec /\ rt'.pc = "detach" /\ ~rt'.grace
          /\ rt'.op = rt.op /\ rt'.real = rt.real /\ rt'.vs = rt.vs /\ rt'.es = rt.es
      BY <1>0, <3>1, GotoFacts DEF Steps
    <3>3. port[b] \in PortRec
      BY <2>1, Types
    <3>4. /\ port' \in [Reals -> PortRec]
          /\ \A q \in Reals : q # b => port'[q] = port[q]
          /\ port'[b].st = port[b].st /\ port'[b].nr = port[b].nr
          /\ port'[b].eps = port[b].eps /\ port'[b].bridge_ep = NULL
          /\ port'[b].mode = "vnd"
      BY <2>1, <3>1, <3>3, Types DEF PortRec
    <3>5. \A q \in Reals : SamePort(q)
      BY <1>5, <2>1, <3>4, NullAssumption
         DEF SamePort, Inv, StructInv, PortOK, OtherEnd
    <3> QED
      BY <1>0, <2>2, <3>2, <3>4, <3>5, StepKeeps
  <2> QED
    BY <2>3, <2>4
<1> QED
  BY <1>3, <1>4, <1>5

LEMMA QmiExitKeeps ==
    ASSUME TypeOK, Inv, crash = NULL, QmiExit
    PROVE  TypeOK' /\ Inv'
<1>1. PICK r : r = rt.real
  OBVIOUS
<1>2. /\ rt.pc \in {"qmi_exit", "qmi_last"} /\ ~rt.grace /\ rt \in RtRec
      /\ UNCHANGED <<env, vnd, ep, wait, rd, hist, crash>>
  BY Types DEF QmiExit, At
<1>3. PICK step : step = IF At("qmi_exit") THEN "bridge" ELSE "close"
  OBVIOUS
<1>4. step = (IF rt.pc = "qmi_exit" THEN "bridge" ELSE "close") /\ Goto(step)
  BY <1>2, <1>3 DEF At, QmiExit
<1>5. /\ rt' \in RtRec /\ rt'.pc = step /\ ~rt'.grace
      /\ rt'.op = rt.op /\ rt'.real = rt.real /\ rt'.vs = rt.vs /\ rt'.es = rt.es
  BY <1>2, <1>4, GotoFacts DEF Steps
<1>6. r \in Reals /\ port[r] \in PortRec /\ port[r].st = "live"
  BY <1>1, <1>2, Types DEF Inv, StructInv, RtOK, PortOK, Early, Mid
<1>7. port' \in {port, [port EXCEPT ![r].qmi = FALSE]}
  BY <1>1 DEF QmiExit
<1>8. /\ port' \in [Reals -> PortRec]
      /\ \A q \in Reals : q # r => port'[q] = port[q]
      /\ port'[r].st = port[r].st /\ port'[r].nr = port[r].nr
      /\ port'[r].eps = port[r].eps /\ port'[r].bridge_ep = port[r].bridge_ep
      /\ port'[r].mode = port[r].mode
  <2>1. CASE port' = port
    BY <2>1, Types
  <2>2. CASE port' = [port EXCEPT ![r].qmi = FALSE]
    BY <1>6, <2>2, Types DEF PortRec
  <2> QED
    BY <1>7, <2>1, <2>2
<1>9. \A q \in Reals : SamePort(q)
  BY <1>6, <1>8 DEF SamePort, Inv, StructInv, PortOK, OtherEnd
<1>10. \/ rt.pc = "qmi_exit" /\ rt'.pc = "bridge"
       \/ rt.pc = "qmi_last" /\ rt'.pc = "close"
  BY <1>2, <1>4, <1>5
<1> HIDE <1>3, <1>4, <1>7
<1> QED
  BY <1>2, <1>5, <1>8, <1>9, <1>10, StepKeeps

LEMMA VndDellinkKeeps ==
    ASSUME TypeOK, Inv, crash = NULL, VndDellink
    PROVE  TypeOK' /\ Inv'
<1>0. /\ RtOK /\ EsOK /\ ListOK /\ EpOK /\ VndOK /\ PortOK /\ ReadOK /\ NrOK
      /\ rt \in RtRec
  BY Types DEF Inv, StructInv
<1>1. /\ rt.pc = "detach" /\ ~rt.grace
      /\ UNCHANGED <<env, vnd, wait, rd, hist, crash>>
  BY DEF VndDellink, At
<1>2. PICK e \in {e \in rt.es : ep[e].st = "listed"} :
           /\ ep' = [ep EXCEPT ![e].egress_dev = NULL, ![e].st = "dead"]
           /\ port' = IF ep[e].egress_dev = NULL THEN port
                      ELSE [port EXCEPT ![ep[e].real].nr = @ - 1]
           /\ rt' = IF rt.op = "dellink" THEN rt
                    ELSE [rt EXCEPT !.pc = "unlist", !.ep = e]
  BY DEF VndDellink
<1>3. PICK r : r = rt.real
  OBVIOUS
<1>4. /\ r \in Reals /\ e \in Eps /\ e \in rt.es /\ ep[e].real = r
      /\ ep[e].egress_dev # NULL /\ ep[e].egress_dev \in rt.vs
      /\ ep[e] \in EpRec /\ port[r] \in PortRec /\ ep[e].mux \in Muxes
  <2>1. r \in Reals
    BY <1>0, <1>1, <1>3 DEF RtOK, Early
  <2>2. e \in Eps
    BY <1>0 DEF RtRec
  <2>3. ep[e].real = r /\ ep[e].egress_dev \in rt.vs \cup {NULL}
    BY <1>0, <1>3 DEF EsOK
  <2>4. ep[e].egress_dev # NULL /\ ep[e].mux \in Muxes
    BY <1>0, <2>2 DEF EpOK
  <2> QED
    BY <2>1, <2>2, <2>3, <2>4, Types
<1>5. /\ ep' \in [Eps -> EpRec] /\ \A f \in Eps : f # e => ep'[f] = ep[f]
      /\ ep'[e].st = "dead" /\ ep'[e].real = r /\ ep'[e].egress_dev = NULL
      /\ ep'[e].mux = ep[e].mux
  BY <1>2, <1>4, Types DEF EpRec
<1>6. port[r].nr - 1 \in Nat /\ IsFiniteSet(Leading(r)) /\ e \in Leading(r)
  <2>1. IsFiniteSet(Leading(r))
    BY PortAssumption, FS_Subset DEF Leading
  <2>2. e \in Leading(r)
    BY <1>4 DEF Leading
  <2>3. Cardinality(Leading(r)) # 0 /\ Cardinality(Leading(r)) \in Nat
    BY <2>1, <2>2, FS_EmptySet, FS_CardinalityType
  <2>4. port[r].nr = Cardinality(Leading(r))
    BY <1>0, <1>4 DEF NrOK
  <2> QED
    BY <2>1, <2>2, <2>3, <2>4
<1>7. /\ port' \in [Reals -> PortRec]
      /\ \A q \in Reals : q # r => port'[q] = port[q]
      /\ port'[r].st = port[r].st /\ port'[r].nr = port[r].nr - 1
      /\ port'[r].eps = port[r].eps /\ port'[r].bridge_ep = port[r].bridge_ep
      /\ port'[r].mode = port[r].mode
  <2>1. port' = [port EXCEPT ![r].nr = port[r].nr - 1]
    BY <1>2, <1>4
  <2> QED
    BY <1>4, <1>6, <2>1, Types DEF PortRec
<1>8. /\ rt' \in RtRec /\ ~rt'.grace /\ rt'.op = rt.op /\ rt'.real = rt.real
      /\ rt'.vs = rt.vs /\ rt'.es = rt.es
      /\ \/ rt.op = "dellink" /\ rt'.pc = "detach"
         \/ rt'.pc = "unlist" /\ rt'.ep = e
  <2>1. CASE rt.op = "dellink"
    BY <1>0, <1>1, <1>2, <2>1
  <2>2. CASE rt.op # "dellink"
    BY <1>0, <1>1, <1>2, <1>4, <2>2 DEF RtRec, Steps
  <2> QED
    BY <2>1, <2>2
<1> HIDE <1>2
<1>9. /\ Early /\ Early' /\ ~Mid /\ ~Mid' /\ ~Late /\ ~Late'
      /\ ~Calling /\ ~Calling'
  BY <1>1, <1>8 DEF Early, Mid, Late, Calling
<1>10. \A q \in Reals : port'[q].eps = port[q].eps /\ port'[q].st = port[q].st
  BY <1>7
<1>11. TypeOK'
  BY <1>1, <1>5, <1>7, <1>8, HistSame, Types, TypesNext
<1>12. RtOK'
  BY <1>3, <1>4, <1>5, <1>8, <1>9 DEF RtOK
<1>13. EsOK'
  <2> SUFFICES ASSUME NEW f \in rt.es
               PROVE  /\ ep'[f].st \in {"listed", "dead"} /\ ep'[f].real = r
                      /\ ep'[f].egress_dev \in rt.vs \cup {NULL}
                      /\ rt.op = "dellink" => \A m \in Muxes : port'[r].eps[m] # <<f>>
    BY <1>3, <1>8, <1>9 DEF EsOK
  <2>1. f \in Eps
    BY <1>0 DEF RtRec
  <2>2. /\ ep[f].st \in {"listed", "dead"} /\ ep[f].real = r
        /\ ep[f].egress_dev \in rt.vs \cup {NULL}
        /\ rt.op = "dellink" => \A m \in Muxes : port[r].eps[m] # <<f>>
    BY <1>0, <1>3 DEF EsOK
  <2> QED
    BY <1>5, <1>7, <2>1, <2>2
<1>14. ListOK'
  <2> SUFFICES ASSUME NEW q \in Reals, NEW m \in Muxes, port[q].eps[m] # <<>>
               PROVE  ListOK!(q, m)'
    BY <1>10 DEF ListOK
  <2>1. PICK f \in Eps : /\ port[q].eps[m] = <<f>>
                         /\ ep[f].real = q /\ ep[f].mux = m /\ ep[f].st = "listed"
    BY <1>0, <1>1 DEF ListOK
  <2>2. CASE f # e
    BY <1>5, <1>10, <2>1, <2>2
  <2>3. CASE f = e
    <3>1. rt.op # "dellink"
      BY <1>0, <1>3, <1>4, <2>1, <2>3 DEF EsOK
    <3> QED
      BY <1>4, <1>5, <1>8, <1>10, <2>1, <2>3, <3>1
  <2> QED
    BY <2>2, <2>3
<1>15. EpOK'
  <2>1. ASSUME NEW f \in Eps
        PROVE  EpOK!1!(f)'
    <3>1. EpOK!1!(f)
      BY <1>0 DEF EpOK
    <3>2. CASE f = e
      BY <1>5, <3>2
    <3>3. CASE f # e
      BY <1>1, <1>5, <1>8, <1>10, <3>1, <3>3
    <3> QED
      BY <3>2, <3>3
  <2>2. ASSUME NEW f \in Eps, NEW g \in Eps,
               ep'[f].egress_dev # NULL, ep'[f].egress_dev = ep'[g].egress_dev
        PROVE  f = g
    <3>1. f # e /\ g # e
      BY <1>5, <2>2
    <3> QED
      BY <1>0, <1>5, <2>2, <3>1 DEF EpOK
  <2> QED
    BY <2>1, <2>2 DEF EpOK
<1>16. VndOK'
  <2> SUFFICES ASSUME NEW w \in Vnds PROVE VndOK!(w)'
    BY DEF VndOK
  <2>1. VndOK!(w) /\ vnd'[w] = vnd[w]
    BY <1>0, <1>1 DEF VndOK
  <2>2. ASSUME vnd[w].st = "reg", w \notin rt.vs
        PROVE  \E f \in Eps : /\ port'[vnd[w].real].eps[vnd[w].mux] = <<f>>
                              /\ ep'[f].egress_dev = w
    <3>1. PICK f \in Eps : /\ port[vnd[w].real].eps[vnd[w].mux] = <<f>>
                           /\ ep[f].egress_dev = w
      BY <2>1, <2>2
    <3>2. f # e
      BY <1>4, <2>2, <3>1
    <3>3. port'[vnd[w].real].eps = port[vnd[w].real].eps
      BY <1>10, <2>1, <2>2
    <3> QED
      BY <1>5, <3>1, <3>2, <3>3
  <2> QED
    BY <1>1, <1>8, <1>9, <2>1, <2>2
<1>17. NrOK'
  <2> SUFFICES ASSUME NEW q \in Reals
               PROVE  port'[q].nr = Cardinality(Leading(q)')
    BY DEF NrOK
  <2>1. CASE q # r
    <3> Leading(q)' = Leading(q)
      BY <1>4, <1>5, <2>1 DEF Leading
    <3> QED
      BY <1>0, <1>7, <2>1 DEF NrOK
  <2>2. CASE q = r
    <3>1. Leading(q)' = Leading(q) \ {e}
      BY <1>4, <1>5, <2>2 DEF Leading
    <3>2. Cardinality(Leading(r) \ {e}) = Cardinality(Leading(r)) - 1
      BY <1>6, FS_RemoveElement
    <3> QED
      BY <1>0, <1>4, <1>7, <2>2, <3>1, <3>2 DEF NrOK
  <2> QED
    BY <2>1, <2>2
<1>18. PortOK'
  <2>1. \A q \in Reals : /\ port'[q].st # "dying" /\ OtherEnd(port'[q], q)
                         /\ port'[q].st = "none" => port'[q] = NoPort
    <3>1. port[r].st = "live"
      BY <1>0, <1>3, <1>9 DEF PortOK
    <3> QED
      BY <1>0, <1>1, <1>7, <3>1 DEF PortOK, OtherEnd
  <2> QED
    BY <1>0, <1>3, <1>4, <1>8, <1>9, <1>10, <2>1 DEF PortOK
<1>19. ReadOK'
  <2> SUFFICES ASSUME NEW k \in Readers PROVE ReaderOK(k, rd[k])'
    BY DEF ReadOK
  <2>1. ReaderOK(k, rd[k]) /\ rd[k] \in RdRec
    BY <1>0, Types DEF ReadOK
  <2>2. rd[k].real # NULL => port'[rd[k].real].st = "live"
    BY <1>1, <1>10, <2>1 DEF ReaderOK, RdRec
  <2>3. rd[k].ep # NULL => ep'[rd[k].ep].st # "none"
    BY <1>5, <2>1 DEF ReaderOK, RdRec
  <2> QED
    BY <1>1, <1>8, <1>9, <2>1, <2>2, <2>3 DEF ReaderOK
<1>20. CrashOK'
  BY <1>1, NullAssumption DEF CrashOK
<1> QED
  BY <1>11, <1>12, <1>13, <1>14, <1>15, <1>16, <1>17, <1>18, <1>19, <1>20
     DEF Inv, StructInv

LEMMA UnlistKeeps ==
    ASSUME TypeOK, Inv, crash = NULL, Unlist
    PROVE  TypeOK' /\ Inv'
<1>0. /\ RtOK /\ EsOK /\ ListOK /\ EpOK /\ VndOK /\ PortOK /\ ReadOK /\ NrOK
      /\ rt \in RtRec
  BY Types DEF Inv, StructInv
<1>1. /\ rt.pc = "unlist" /\ ~rt.grace
      /\ UNCHANGED <<env, vnd, ep, wait, rd, hist, crash>>
  BY DEF Unlist, At
<1>2. PICK r, e, u : r = rt.real /\ e = rt.ep /\ u = Unlisted(port[r].eps, e)
  OBVIOUS
<1>3. port' = [port EXCEPT ![r].eps = u] /\ Goto("detach")
  BY <1>2 DEF Unlist
<1>4. /\ r \in Reals /\ e \in rt.es /\ e \in Eps /\ ep[e].st = "dead"
      /\ ep[e].egress_dev = NULL
  BY <1>0, <1>1, <1>2 DEF RtOK, Early, RtRec, EpOK
<1>5. /\ u \in [Muxes -> Seq(Eps)]
      /\ \A m \in Muxes :
            u[m] = IF port[r].eps[m] = <<e>> THEN <<>> ELSE port[r].eps[m]
  BY <1>0, <1>2, <1>4, UnlistedFacts
<1>6. port[r] \in PortRec
  BY <1>4, Types
<1>7. /\ port' \in [Reals -> PortRec]
      /\ \A q \in Reals : q # r => port'[q] = port[q]
      /\ port'[r].st = port[r].st /\ port'[r].nr = port[r].nr
      /\ port'[r].eps = u /\ port'[r].bridge_ep = port[r].bridge_ep
      /\ port'[r].mode = port[r].mode
  BY <1>3, <1>4, <1>5, <1>6, Types DEF PortRec
<1>8. /\ rt' \in RtRec /\ rt'.pc = "detach" /\ ~rt'.grace /\ rt'.op = rt.op
      /\ rt'.real = rt.real /\ rt'.vs = rt.vs /\ rt'.es = rt.es
  BY <1>0, <1>1, <1>3, GotoFacts DEF Steps
<1>9. /\ Early /\ Early' /\ ~Mid /\ ~Mid' /\ ~Late /\ ~Late'
      /\ ~Calling /\ ~Calling'
  BY <1>1, <1>8 DEF Early, Mid, Late, Calling
<1>10. \A q \in Reals, m \in Muxes :
          /\ port[q].eps[m] # <<e>> => port'[q].eps[m] = port[q].eps[m]
          /\ port'[q].eps[m] # <<>> => port'[q].eps[m] = port[q].eps[m]
  BY <1>5, <1>7
<1>11. \A m \in Muxes : port'[r].eps[m] # <<e>>
  <2>1. <<>> # <<e>>
    OBVIOUS
  <2> QED
    BY <1>5, <1>7, <2>1
<1>12. \A f \in Eps : f # e => <<f>> # <<e>>
  OBVIOUS
<1> HIDE <1>3
<1>20. TypeOK'
  BY <1>1, <1>7, <1>8, HistSame, Types, TypesNext
<1>21. RtOK'
  BY <1>2, <1>4, <1>8, <1>9 DEF RtOK
<1>22. EsOK'
  <2> SUFFICES ASSUME NEW f \in rt.es, rt.op = "dellink", NEW m \in Muxes
               PROVE  port'[r].eps[m] # <<f>>
    BY <1>0, <1>1, <1>2, <1>8, <1>9 DEF EsOK
  <2>1. port[r].eps[m] # <<f>>
    BY <1>0, <1>2 DEF EsOK
  <2>2. <<>> # <<f>>
    OBVIOUS
  <2> QED
    BY <1>4, <1>10, <2>1, <2>2
<1>23. ListOK'
  <2> SUFFICES ASSUME NEW q \in Reals, NEW m \in Muxes, port'[q].eps[m] # <<>>
               PROVE  ListOK!(q, m)'
    BY DEF ListOK
  <2>1. port'[q].eps[m] = port[q].eps[m]
    BY <1>10
  <2>2. PICK f \in Eps : /\ port[q].eps[m] = <<f>>
                         /\ ep[f].real = q /\ ep[f].mux = m
                         /\ ep[f].st = "listed" \/ (rt.pc = "unlist" /\ rt.ep = f)
    BY <1>0, <2>1 DEF ListOK
  <2>3. ep[f].st = "listed"
    <3> SUFFICES ASSUME f = e PROVE FALSE
      BY <1>2, <2>2
    <3>1. ep[e].real = r
      BY <1>0, <1>2, <1>4 DEF EsOK
    <3> QED
      BY <1>11, <2>1, <2>2, <3>1
  <2> QED
    BY <1>1, <2>1, <2>2, <2>3
<1>24. EpOK'
  <2>1. ASSUME NEW f \in Eps
        PROVE  EpOK!1!(f)'
    <3>1. EpOK!1!(f)
      BY <1>0 DEF EpOK
    <3>2. ep[f].egress_dev # NULL => f # e
      BY <1>4
    <3> QED
      BY <1>1, <1>8, <1>10, <1>12, <3>1, <3>2
  <2> QED
    BY <1>0, <1>1, <2>1 DEF EpOK
<1>25. VndOK'
  <2> SUFFICES ASSUME NEW w \in Vnds PROVE VndOK!(w)'
    BY DEF VndOK
  <2>1. VndOK!(w) /\ vnd'[w] = vnd[w]
    BY <1>0, <1>1 DEF VndOK
  <2>2. ASSUME vnd[w].st = "reg", w \notin rt.vs
        PROVE  \E f \in Eps : /\ port'[vnd[w].real].eps[vnd[w].mux] = <<f>>
                              /\ ep'[f].egress_dev = w
    <3>1. PICK f \in Eps : /\ port[vnd[w].real].eps[vnd[w].mux] = <<f>>
                           /\ ep[f].egress_dev = w
      BY <2>1, <2>2
    <3>2. f # e
      BY <1>4, <3>1, NullAssumption
    <3> QED
      BY <1>1, <1>10, <1>12, <2>1, <2>2, <3>1, <3>2
  <2> QED
    BY <1>1, <1>8, <1>9, <2>1, <2>2
<1>26. NrOK'
  <2>1. \A q \in Reals : Leading(q)' = Leading(q) /\ port'[q].nr = port[q].nr
    BY <1>1, <1>7 DEF Leading
  <2> QED
    BY <1>0, <2>1 DEF NrOK
<1>27. PortOK'
  <2>0. port[r].st = "live"
    BY <1>0, <1>2, <1>9 DEF PortOK
  <2>1. \A q \in Reals : /\ port'[q].st # "dying" /\ OtherEnd(port'[q], q)
                         /\ port'[q].st = "none" => port'[q] = NoPort
    BY <1>0, <1>1, <1>7, <2>0 DEF PortOK, OtherEnd
  <2> QED
    BY <1>2, <1>7, <1>8, <1>9, <2>0, <2>1 DEF PortOK
<1>28. ReadOK'
  <2> SUFFICES ASSUME NEW k \in Readers PROVE ReaderOK(k, rd[k])'
    BY DEF ReadOK
  <2>1. ReaderOK(k, rd[k]) /\ rd[k] \in RdRec
    BY <1>0, Types DEF ReadOK
  <2>2. rd[k].real # NULL => port'[rd[k].real].st = "live"
    BY <1>1, <1>7, <2>1 DEF ReaderOK, RdRec
  <2> QED
    BY <1>1, <1>8, <1>9, <2>1, <2>2 DEF ReaderOK
<1>29. CrashOK'
  BY <1>1, NullAssumption DEF CrashOK
<1> QED
  BY <1>20, <1>21, <1>22, <1>23, <1>24, <1>25, <1>26, <1>27, <1>28, <1>29
     DEF Inv, StructInv

LEMMA FreeEndpointKeeps ==
    ASSUME TypeOK, Inv, crash = NULL, FreeEndpoint
    PROVE  TypeOK' /\ Inv'
<1>0. /\ RtOK /\ EsOK /\ ListOK /\ EpOK /\ VndOK /\ PortOK /\ ReadOK /\ NrOK
      /\ rt \in RtRec
  BY Types DEF Inv, StructInv
<1>1. /\ rt.pc = "free" /\ ~rt.grace
      /\ UNCHANGED <<env, port, vnd, wait, rd, hist, crash>>
  BY DEF FreeEndpoint, At
<1>2. CASE \E e \in rt.es : /\ ep' = [ep EXCEPT ![e] = NoEp]
                            /\ rt' = [rt EXCEPT !.es = @ \ {e}]
  <2>1. PICK e \in rt.es : /\ ep' = [ep EXCEPT ![e] = NoEp]
                           /\ rt' = [rt EXCEPT !.es = @ \ {e}]
    BY <1>2
  <2>2. e \in Eps /\ ep[e].st = "dead" /\ ep[e].egress_dev = NULL
    BY <1>0, <1>1 DEF EsOK, EpOK, RtRec, Early, Calling
  <2>3. NoEp \in EpRec /\ NoEp.st = "none" /\ NoEp.egress_dev = NULL
    BY NullTypes DEF NoEp
  <2>4. /\ ep' \in [Eps -> EpRec] /\ ep'[e] = NoEp
        /\ \A f \in Eps : f # e => ep'[f] = ep[f]
    BY <2>1, <2>2, <2>3, Types
  <2>5. /\ rt' \in RtRec /\ rt'.pc = "free" /\ ~rt'.grace /\ rt'.op = rt.op
        /\ rt'.real = rt.real /\ rt'.vs = rt.vs /\ rt'.es = rt.es \ {e}
    BY <1>0, <1>1, <2>1 DEF RtRec
  <2> HIDE <2>1
  <2>6. /\ ~Early /\ ~Early' /\ Mid /\ Mid' /\ ~Late /\ ~Late'
        /\ ~Calling /\ ~Calling'
    BY <1>1, <2>5 DEF Early, Mid, Late, Calling
  <2>7. TypeOK'
    BY <1>1, <2>4, <2>5, HistSame, Types, TypesNext
  <2>8. RtOK'
    BY <1>0, <2>5, <2>6 DEF RtOK
  <2>9. EsOK'
    <3> SUFFICES ASSUME NEW f \in rt'.es PROVE EsOK!(f)'
      BY DEF EsOK
    <3>1. f \in rt.es /\ f # e /\ f \in Eps
      BY <1>0, <2>5 DEF RtRec
    <3>2. EsOK!(f)
      BY <1>0, <3>1 DEF EsOK
    <3> QED
      BY <1>1, <2>4, <2>5, <2>6, <3>1, <3>2
  <2>10. ListOK'
    <3> SUFFICES ASSUME NEW q \in Reals, NEW m \in Muxes, port[q].eps[m] # <<>>
                 PROVE  ListOK!(q, m)'
      BY <1>1 DEF ListOK
    <3>1. PICK f \in Eps : /\ port[q].eps[m] = <<f>>
                           /\ ep[f].real = q /\ ep[f].mux = m /\ ep[f].st = "listed"
      BY <1>0, <1>1 DEF ListOK
    <3>2. f # e
      BY <2>2, <3>1
    <3> QED
      BY <1>1, <2>4, <3>1, <3>2
  <2>11. EpOK'
    <3>1. ASSUME NEW f \in Eps
          PROVE  EpOK!1!(f)'
      <4>1. EpOK!1!(f)
        BY <1>0 DEF EpOK
      <4>2. CASE f = e
        BY <2>3, <2>4, <4>2
      <4>3. CASE f # e
        <5>1. ep'[f] = ep[f] /\ (f \in rt.es => f \in rt'.es)
          BY <2>4, <2>5, <4>3
        <5> QED
          BY <1>1, <2>5, <4>1, <5>1
      <4> QED
        BY <4>2, <4>3
    <3>2. ASSUME NEW f \in Eps, NEW g \in Eps,
                 ep'[f].egress_dev # NULL, ep'[f].egress_dev = ep'[g].egress_dev
          PROVE  f = g
      <4>1. f # e /\ g # e
        BY <2>3, <2>4, <3>2
      <4> QED
        BY <1>0, <2>4, <3>2, <4>1 DEF EpOK
    <3> QED
      BY <3>1, <3>2 DEF EpOK
  <2>12. VndOK'
    <3> SUFFICES ASSUME NEW w \in Vnds PROVE VndOK!(w)'
      BY DEF VndOK
    <3>1. VndOK!(w) /\ vnd'[w] = vnd[w]
      BY <1>0, <1>1 DEF VndOK
    <3>2. \A f \in Eps : ep[f].egress_dev = w => ep'[f] = ep[f]
      BY <2>2, <2>4, NullAssumption
    <3> QED
      BY <1>1, <2>5, <2>6, <3>1, <3>2
  <2>13. NrOK'
    <3> \A q \in Reals : Leading(q)' = Leading(q)
      BY <2>2, <2>3, <2>4 DEF Leading
    <3> QED
      BY <1>0, <1>1 DEF NrOK
  <2>14. PortOK'
    BY <1>0, <1>1, <2>5, <2>6 DEF PortOK
  <2>15. ReadOK'
    <3> SUFFICES ASSUME NEW k \in Readers PROVE ReaderOK(k, rd[k])'
      BY DEF ReadOK
    <3>1. ReaderOK(k, rd[k]) /\ rd[k] \in RdRec
      BY <1>0, Types DEF ReadOK
    <3>2. rd[k].ep # NULL => /\ rd[k].ep # e /\ ep'[rd[k].ep].st # "none"
                             /\ rd[k].ep \notin rt'.es
      BY <1>1, <2>4, <2>5, <3>1 DEF ReaderOK, RdRec
    <3> QED
      BY <1>1, <2>5, <2>6, <3>1, <3>2 DEF ReaderOK
  <2>16. CrashOK'
    BY <1>1, NullAssumption DEF CrashOK
  <2> QED
    BY <2>7, <2>8, <2>9, <2>10, <2>11, <2>12, <2>13, <2>14, <2>15, <2>16
       DEF Inv, StructInv
<1>3. CASE /\ rt.es = {} /\ UNCHANGED ep
           /\ Goto(IF rt.op = "dellink" THEN "qmi_last" ELSE "close")
  <2>1. PICK step \in {"qmi_last", "close"} : Goto(step)
    BY <1>3
  <2>2. /\ rt' \in RtRec /\ rt'.pc = step /\ ~rt'.grace
        /\ rt'.op = rt.op /\ rt'.real = rt.real /\ rt'.vs = rt.vs /\ rt'.es = rt.es
    BY <1>0, <1>1, <2>1, GotoFacts DEF Steps
  <2> QED
    BY <1>1, <1>3, <2>2, PortSame, Types, StepKeeps
<1> QED
  BY <1>2, <1>3 DEF FreeEndpoint

\* No endpoint leads to a device that is being closed, and no reader has one
\* that is past that
LEMMA DevicesKeep ==
    ASSUME TypeOK, Inv, crash = NULL, ~rt.grace,
           rt.pc \in {"close", "uninit", "exit_post", "freedev"},
           vnd' \in [Vnds -> VndRec],
           \A w \in Vnds : w \notin rt.vs => vnd'[w] = vnd[w],
           rt.pc = "close" => \A w \in rt.vs : vnd'[w].st \in {"reg", "closed"},
           rt' \in RtRec, ~rt'.grace, rt'.vs \subseteq rt.vs, rt'.es = {},
           Late' => Late, RtOK', VndOK', PortOK',
           UNCHANGED <<env, port, ep, wait, rd, hist, crash>>
    PROVE  TypeOK' /\ Inv'
<1>0. /\ RtOK /\ EsOK /\ ListOK /\ EpOK /\ VndOK /\ PortOK /\ ReadOK /\ NrOK
      /\ rt \in RtRec
  BY Types DEF Inv, StructInv
<1>1. rt.es = {} /\ (Late <=> rt.pc # "close")
  BY <1>0 DEF RtOK, Early, Late, Calling
<1>2. \A e \in Eps : ep[e].egress_dev # NULL =>
         ep[e].egress_dev \in Vnds /\ ep[e].egress_dev \notin rt.vs
  BY <1>0, <1>1 DEF EpOK
<1>3. TypeOK'
  BY HistSame, Types, TypesNext
<1>4. EsOK'
  BY DEF EsOK
<1>5. ListOK'
  BY <1>0 DEF ListOK
<1>6. EpOK'
  <2>1. ASSUME NEW e \in Eps
        PROVE  EpOK!1!(e)'
    <3>1. EpOK!1!(e)
      BY <1>0 DEF EpOK
    <3>2. ep[e].egress_dev # NULL =>
             /\ vnd'[ep[e].egress_dev] = vnd[ep[e].egress_dev]
             /\ ep[e].egress_dev \notin rt'.vs
      BY <1>2
    <3> QED
      BY <1>1, <3>1, <3>2
  <2> QED
    BY <1>0, <2>1 DEF EpOK
<1>7. NrOK'
  BY <1>0 DEF NrOK, Leading
<1>8. ReadOK'
  <2> SUFFICES ASSUME NEW k \in Readers PROVE ReaderOK(k, rd[k])'
    BY DEF ReadOK
  <2>1. ReaderOK(k, rd[k]) /\ rd[k] \in RdRec
    BY <1>0, Types DEF ReadOK
  <2>2. rd[k].dev # NULL =>
           /\ vnd'[rd[k].dev].st \in {"reg", "closed"}
           /\ rd[k].dev \in rt'.vs => ~Late'
    <3> SUFFICES ASSUME rd[k].dev # NULL
                 PROVE  /\ vnd'[rd[k].dev].st \in {"reg", "closed"}
                        /\ rd[k].dev \in rt'.vs => ~Late'
      OBVIOUS
    <3>1. /\ rd[k].dev \in Vnds /\ vnd[rd[k].dev].st \in {"reg", "closed"}
          /\ rd[k].dev \in rt.vs => ~Late
      BY <2>1 DEF ReaderOK, RdRec
    <3> QED
      BY <1>1, <3>1
  <2>3. rd[k].real # NULL => port[rd[k].real].st = "live"
    BY <2>1 DEF ReaderOK
  <2> QED
    BY <2>1, <2>2, <2>3 DEF ReaderOK
<1>9. CrashOK'
  BY NullAssumption DEF CrashOK
<1> QED
  BY <1>0, <1>3, <1>4, <1>5, <1>6, <1>7, <1>8, <1>9 DEF Inv, StructInv

\* One device goes on while the holder of rtnl_lock stays where it is
LEMMA DeviceStep ==
    ASSUME TypeOK, Inv, crash = NULL, ~rt.grace, NEW v \in rt.vs, NEW x \in VndRec,
           \/ rt.pc = "close" /\ x.st = "closed" /\ x.qos = "live"
           \/ rt.pc = "uninit" /\ x.st = "uninit" /\ x.qos # "live" /\ ~x.timer,
           x.real = vnd[v].real, x.mux = vnd[v].mux, vnd[v].st # "none",
           vnd' = [vnd EXCEPT ![v] = x],
           UNCHANGED <<env, port, ep, rt, wait, rd, hist, crash>>
    PROVE  TypeOK' /\ Inv'
<1>0. /\ RtOK /\ EsOK /\ ListOK /\ EpOK /\ VndOK /\ PortOK /\ ReadOK /\ NrOK
      /\ rt \in RtRec
  BY Types DEF Inv, StructInv
<1>1. v \in Vnds /\ rt.es = {} /\ ~Early /\ ~Calling
  BY <1>0 DEF RtRec, RtOK, Early, Calling
<1>2. /\ vnd' \in [Vnds -> VndRec] /\ vnd'[v] = x
      /\ \A w \in Vnds : w # v => vnd'[w] = vnd[w]
  BY <1>1, Types
<1>3. /\ Early' <=> Early
      /\ Mid' <=> Mid
      /\ Late' <=> Late
      /\ Calling' <=> Calling
  BY DEF Early, Mid, Late, Calling
<1>4. RtOK'
  BY <1>0, <1>3 DEF RtOK
<1>5. PortOK'
  BY <1>0, <1>3 DEF PortOK
<1>6. VndOK'
  <2> SUFFICES ASSUME NEW w \in Vnds PROVE VndOK!(w)'
    BY DEF VndOK
  <2>1. VndOK!(w)
    BY <1>0 DEF VndOK
  <2>2. CASE w # v
    BY <1>2, <1>3, <2>1, <2>2
  <2>3. CASE w = v
    <3>1. /\ rt.pc = "close" => Mid /\ ~Late
          /\ rt.pc = "uninit" => ~Mid /\ Late
      BY DEF Mid, Late, Calling
    <3>2. x.timer => x.qos = "live"
      OBVIOUS
    <3>3. vnd'[w] = x /\ w \in rt'.vs
      BY <1>2, <2>3
    <3> QED
      BY <1>1, <1>3, <2>1, <2>3, <3>1, <3>2, <3>3
  <2> QED
    BY <2>2, <2>3
<1>7. rt.pc = "close" => \A w \in rt.vs : vnd'[w].st \in {"reg", "closed"}
  BY <1>0, <1>2 DEF VndOK, Mid, RtRec
<1> QED
  BY <1>0, <1>1, <1>2, <1>3, <1>4, <1>5, <1>6, <1>7, DevicesKeep

LEMMA CloseKeeps ==
    ASSUME TypeOK, Inv, crash = NULL, CloseDevice
    PROVE  TypeOK' /\ Inv'
<1>1. /\ rt.pc = "close" /\ ~rt.grace
      /\ UNCHANGED <<env, port, ep, rt, wait, rd, hist, crash>>
  BY DEF CloseDevice, At
<1>2. PICK v \in {v \in rt.vs : vnd[v].st = "reg"} :
         vnd' = [vnd EXCEPT ![v].st = "closed"]
  BY DEF CloseDevice
<1>3. PICK x : x = [vnd[v] EXCEPT !.st = "closed"]
  OBVIOUS
<1>4. v \in Vnds /\ vnd[v] \in VndRec /\ vnd[v].qos = "live"
  BY Types DEF RtRec, Inv, StructInv, VndOK
<1>5. /\ x \in VndRec /\ x.st = "closed" /\ x.qos = vnd[v].qos
      /\ x.real = vnd[v].real /\ x.mux = vnd[v].mux
  BY <1>3, <1>4 DEF VndRec
<1>6. vnd' = [vnd EXCEPT ![v] = x]
  BY <1>2, <1>3
<1> HIDE <1>2, <1>3
<1> QED
  BY <1>1, <1>4, <1>5, <1>6, DeviceStep

LEMMA UninitKeeps ==
    ASSUME TypeOK, Inv, crash = NULL, VndUninit
    PROVE  TypeOK' /\ Inv'
<1>1. /\ rt.pc = "uninit" /\ ~rt.grace
      /\ UNCHANGED <<env, port, ep, rt, wait, rd, hist, crash>>
  BY DEF VndUninit, At
<1>2. PICK v \in {v \in rt.vs : vnd[v].st = "closed"} :
         vnd' = [vnd EXCEPT ![v] =
                   [@ EXCEPT !.st = "uninit", !.qos = "cleanup", !.timer = FALSE]]
  BY DEF VndUninit
<1>3. PICK x : x = [vnd[v] EXCEPT !.st = "uninit", !.qos = "cleanup", !.timer = FALSE]
  OBVIOUS
<1>4. v \in Vnds /\ vnd[v] \in VndRec
  BY Types DEF RtRec
<1>5. /\ x \in VndRec /\ x.st = "uninit" /\ x.qos = "cleanup" /\ ~x.timer
      /\ x.real = vnd[v].real /\ x.mux = vnd[v].mux
  BY <1>3, <1>4 DEF VndRec
<1>6. vnd' = [vnd EXCEPT ![v] = x]
  BY <1>2, <1>3
<1> HIDE <1>2, <1>3
<1> QED
  BY <1>1, <1>4, <1>5, <1>6, DeviceStep

LEMMA ExitPostKeeps ==
    ASSUME TypeOK, Inv, crash = NULL, QosExitPost
    PROVE  TypeOK' /\ Inv'
<1>0. /\ RtOK /\ EsOK /\ ListOK /\ EpOK /\ VndOK /\ PortOK /\ ReadOK /\ NrOK
      /\ rt \in RtRec
  BY Types DEF Inv, StructInv
<1>1. /\ rt.pc = "exit_post" /\ ~rt.grace
      /\ UNCHANGED <<env, port, ep, wait, rd, hist>>
  BY DEF QosExitPost, At
<1>2. \A v \in Vnds : vnd[v] \in VndRec /\ VndOK!(v)
  BY <1>0, Types DEF VndOK
<1>3. rt.real \in Reals /\ rt.es = {} /\ Late /\ ~Early /\ ~Mid /\ ~Calling
  BY <1>0, <1>1 DEF RtOK, Late, Early, Mid, Calling
<1>4. \A v \in Vnds : vnd[v].qos = "cleanup" =>
         v \in rt.vs /\ vnd[v].st = "uninit" /\ ~vnd[v].timer
  <2> SUFFICES ASSUME NEW v \in Vnds, vnd[v].qos = "cleanup"
               PROVE  v \in rt.vs /\ vnd[v].st = "uninit" /\ ~vnd[v].timer
    OBVIOUS
  <2>1. NoVnd.qos = "none"
    BY DEF NoVnd
  <2> QED
    BY <1>2, <2>1 DEF VndRec
<1>5. UNCHANGED crash
  BY <1>4 DEF QosExitPost
<1>6. /\ vnd' \in [Vnds -> VndRec]
      /\ \A v \in Vnds :
            /\ vnd'[v].st = vnd[v].st /\ vnd'[v].real = vnd[v].real
            /\ vnd'[v].mux = vnd[v].mux /\ vnd'[v].timer = vnd[v].timer
            /\ vnd'[v].qos \in {vnd[v].qos, "none"}
            /\ vnd[v].qos # "cleanup" => vnd'[v] = vnd[v]
  <2>1. \A v \in Vnds : vnd'[v] = IF vnd[v].qos = "cleanup"
                                  THEN [vnd[v] EXCEPT !.qos = "none"] ELSE vnd[v]
    BY DEF QosExitPost
  <2>2. vnd' = [v \in Vnds |-> vnd'[v]]
    BY DEF QosExitPost
  <2>3. ASSUME NEW v \in Vnds, NEW x, x = [vnd[v] EXCEPT !.qos = "none"]
        PROVE  /\ x \in VndRec /\ x.st = vnd[v].st /\ x.real = vnd[v].real
               /\ x.mux = vnd[v].mux /\ x.timer = vnd[v].timer /\ x.qos = "none"
    <3> vnd[v] \in VndRec
      BY <1>2
    <3> QED
      BY <2>3 DEF VndRec
  <2>4. \A v \in Vnds : vnd'[v] \in VndRec
    BY <1>2, <2>1, <2>3
  <2> QED
    BY <2>1, <2>2, <2>3, <2>4
<1>7. /\ rt' \in RtRec /\ rt'.pc = "unreal" /\ ~rt'.grace /\ rt'.op = rt.op
      /\ rt'.real = rt.real /\ rt'.vs = rt.vs /\ rt'.es = rt.es
      /\ rt'.gone = rt.real /\ rt'.back = "freedev"
  BY <1>0, <1>1, <1>3, UnrealFacts DEF QosExitPost, Steps
<1>8. Late' /\ ~Early' /\ ~Mid' /\ Calling'
  BY <1>7 DEF Late, Early, Mid, Calling
<1>9. RtOK'
  BY <1>3, <1>7, <1>8 DEF RtOK
<1>10. PortOK'
  BY <1>0, <1>1, <1>3, <1>7, <1>8 DEF PortOK
<1>11. VndOK'
  <2> SUFFICES ASSUME NEW v \in Vnds PROVE VndOK!(v)'
    BY DEF VndOK
  <2>1. VndOK!(v)
    BY <1>2
  <2>2. v \notin rt.vs => vnd'[v] = vnd[v]
    BY <1>4, <1>6
  <2>3. vnd[v].st = "none" => vnd'[v] = NoVnd
    BY <1>4, <1>6, <2>1
  <2>4. v \in rt.vs => vnd[v].st = "uninit" /\ vnd[v].real = rt.real
    BY <1>1, <1>3, <2>1
  <2>5. v \in rt.vs => vnd'[v].qos # "live"
    BY <1>6, <2>1, <2>4
  <2>6. vnd'[v].timer => vnd'[v].qos = "live"
    BY <1>4, <1>6, <2>1
  <2>7. CASE v \in rt.vs
    BY <1>6, <1>7, <1>8, <2>1, <2>4, <2>5, <2>6, <2>7
  <2>8. CASE v \notin rt.vs
    BY <1>1, <1>7, <2>1, <2>2, <2>8
  <2> QED
    BY <2>7, <2>8
<1>12. \A w \in Vnds : w \notin rt.vs => vnd'[w] = vnd[w]
  BY <1>4, <1>6
<1> QED
  BY <1>1, <1>3, <1>5, <1>6, <1>7, <1>9, <1>10, <1>11, <1>12, DevicesKeep

LEMMA FreeDeviceKeeps ==
    ASSUME TypeOK, Inv, crash = NULL, FreeDevice
    PROVE  TypeOK' /\ Inv'
<1>0. /\ RtOK /\ EsOK /\ ListOK /\ EpOK /\ VndOK /\ PortOK /\ ReadOK /\ NrOK
      /\ rt \in RtRec
  BY Types DEF Inv, StructInv
<1>1. /\ rt.pc = "freedev" /\ ~rt.grace
      /\ UNCHANGED <<env, port, ep, wait, rd, hist, crash>>
  BY DEF FreeDevice, At
<1>2. rt.real \in Reals /\ rt.es = {} /\ Late /\ ~Early /\ ~Mid /\ ~Calling
  BY <1>0, <1>1 DEF RtOK, Late, Early, Mid, Calling
<1>3. CASE \E v \in rt.vs : /\ vnd' = [vnd EXCEPT ![v] = NoVnd]
                            /\ rt' = [rt EXCEPT !.vs = @ \ {v}]
  <2>1. PICK v \in rt.vs : /\ vnd' = [vnd EXCEPT ![v] = NoVnd]
                           /\ rt' = [rt EXCEPT !.vs = @ \ {v}]
    BY <1>3
  <2>2. v \in Vnds
    BY <1>0 DEF RtRec
  <2>3. /\ NoVnd \in VndRec /\ NoVnd.st = "none" /\ ~NoVnd.timer
    BY NullTypes DEF NoVnd
  <2>4. /\ vnd' \in [Vnds -> VndRec] /\ vnd'[v] = NoVnd
        /\ \A w \in Vnds : w # v => vnd'[w] = vnd[w]
    BY <2>1, <2>2, <2>3, Types
  <2>5. /\ rt' \in RtRec /\ rt'.pc = "freedev" /\ ~rt'.grace
        /\ rt'.real = rt.real /\ rt'.vs = rt.vs \ {v} /\ rt'.es = {}
    BY <1>0, <1>1, <1>2, <2>1 DEF RtRec
  <2> HIDE <2>1
  <2>6. Late' /\ ~Early' /\ ~Mid' /\ ~Calling'
    BY <2>5 DEF Late, Early, Mid, Calling
  <2>7. RtOK'
    BY <1>2, <2>5, <2>6 DEF RtOK
  <2>8. PortOK'
    BY <1>0, <1>1, <1>2, <2>5, <2>6 DEF PortOK
  <2>9. VndOK'
    <3> SUFFICES ASSUME NEW w \in Vnds PROVE VndOK!(w)'
      BY DEF VndOK
    <3>1. VndOK!(w)
      BY <1>0 DEF VndOK
    <3>2. CASE w = v
      BY <2>3, <2>4, <2>5, <3>2
    <3>3. CASE w # v
      BY <1>1, <1>2, <2>4, <2>5, <2>6, <3>1, <3>3
    <3> QED
      BY <3>2, <3>3
  <2>10. \A w \in Vnds : w \notin rt.vs => vnd'[w] = vnd[w]
    BY <2>4
  <2> QED
    BY <1>1, <1>2, <2>4, <2>5, <2>7, <2>8, <2>9, <2>10, DevicesKeep
<1>4. CASE rt.vs = {} /\ Goto("idle") /\ UNCHANGED vnd
  <2>1. /\ rt' = NoWork /\ rt' \in RtRec /\ rt'.pc = "idle" /\ ~rt'.grace
        /\ rt'.vs = {} /\ rt'.es = {}
    BY <1>4, NoWorkFacts DEF Goto
  <2>2. ~Late' /\ ~Early' /\ ~Mid' /\ ~Calling'
    BY <2>1 DEF Late, Early, Mid, Calling
  <2>3. RtOK'
    BY <2>1, <2>2 DEF RtOK
  <2>4. PortOK'
    BY <1>0, <1>1, <2>1, <2>2 DEF PortOK
  <2>5. VndOK'
    <3> SUFFICES ASSUME NEW w \in Vnds PROVE VndOK!(w)'
      BY DEF VndOK
    <3>1. VndOK!(w) /\ vnd'[w] = vnd[w]
      BY <1>0, <1>4 DEF VndOK
    <3> QED
      BY <1>1, <1>4, <2>1, <3>1
  <2> QED
    BY <1>1, <1>4, <2>1, <2>2, <2>3, <2>4, <2>5, Types, DevicesKeep
<1> QED
  BY <1>3, <1>4 DEF FreeDevice

-----------------------------------------------------------------------------
(* The invariant.                                                          *)

LEMMA InvInit == Init => PortInv
<1> SUFFICES ASSUME Init PROVE TypeOK /\ Inv
  BY DEF PortInv, Inv
<1>1. TypeOK
  BY NullTypes, Types DEF Init
<1>2. rt = NoWork /\ crash = NULL
  BY DEF Init
<1>3. ~Early /\ ~Mid /\ ~Late /\ ~Calling
  BY <1>2, NoWorkFacts DEF Early, Mid, Late, Calling
<1>4. \A r \in Reals : port[r] = NoPort
  BY DEF Init
<1>5. \A v \in Vnds : vnd[v] = NoVnd
  BY DEF Init
<1>6. \A e \in Eps : ep[e] = NoEp
  BY DEF Init
<1>7. \A k \in Readers : rd[k] = Away
  BY DEF Init
<1>8. /\ NoPort.st = "none" /\ NoPort.nr = 0 /\ NoPort.bridge_ep = NULL
      /\ NoPort.mode = "none"
      /\ \A m \in Muxes : NoPort.eps[m] = <<>>
  BY DEF NoPort
<1>9. /\ NoVnd.st = "none" /\ ~NoVnd.timer
      /\ NoEp.st = "none" /\ NoEp.egress_dev = NULL
  BY DEF NoVnd, NoEp
<1>10. /\ Away.pc = "idle" /\ Away.real = NULL /\ Away.ep = NULL /\ Away.dev = NULL
  BY DEF Away
<1>11. RtOK /\ EsOK
  BY <1>2, <1>3, NoWorkFacts DEF RtOK, EsOK
<1>12. ListOK
  BY <1>4, <1>8 DEF ListOK
<1>13. EpOK
  BY <1>6, <1>9 DEF EpOK
<1>14. VndOK
  BY <1>2, <1>5, <1>9, NoWorkFacts DEF VndOK
<1>15. NrOK
  <2>1. \A r \in Reals : Leading(r) = {}
    BY <1>6, <1>9 DEF Leading
  <2>2. Cardinality({}) = 0
    BY FS_EmptySet
  <2> QED
    BY <1>4, <1>8, <2>1, <2>2 DEF NrOK
<1>16. PortOK
  BY <1>2, <1>3, <1>4, <1>8, NoWorkFacts, NullAssumption DEF PortOK, OtherEnd
<1>17. ReadOK
  BY <1>7, <1>10 DEF ReadOK, ReaderOK
<1>18. CrashOK
  BY <1>2, NullAssumption DEF CrashOK
<1> QED
  BY <1>1, <1>11, <1>12, <1>13, <1>14, <1>15, <1>16, <1>17, <1>18
     DEF Inv, StructInv

LEMMA InvNext == PortInv /\ [Next]_vars => PortInv'
<1> SUFFICES ASSUME PortInv, [Next]_vars PROVE PortInv'
  OBVIOUS
<1>1. TypeOK /\ (misled \/ Inv)
  BY DEF PortInv, Inv
<1>2. SUFFICES TypeOK' /\ (misled' \/ Inv')
  BY DEF PortInv, Inv
<1>3. CASE UNCHANGED vars
  <2>1. UNCHANGED <<env, port, vnd, ep, rt, wait, rd, hist, crash>>
    BY <1>3 DEF vars
  <2>2. TypeOK'
    BY <1>1, <2>1, HistSame, Types, TypesNext
  <2>3. misled' = misled
    BY <1>1, <2>1, HistSame
  <2>4. ASSUME Inv PROVE Inv'
    <3>1. StructInv'
      BY <2>1, <2>4, StructFrame DEF Inv
    <3>2. ReadOK'
      BY <2>1, <2>4 DEF Inv, ReadOK, ReaderOK, Late, Calling
    <3>3. CrashOK'
      BY <2>1, <2>4 DEF Inv, CrashOK
    <3> QED
      BY <3>1, <3>2, <3>3 DEF Inv
  <2> QED
    BY <1>1, <2>2, <2>3, <2>4
<1>4. CASE ~UNCHANGED vars
  <2>0. crash = NULL /\ ~misled /\ Inv
    BY <1>1, <1>4 DEF Next, Going, Over
  <2>1. CASE Rtnl
    <3>1. CASE \E v \in Vnds, r \in Reals, m \in Muxes : Changelink(v, r, m)
      BY <1>1, <2>0, <3>1, ChangelinkKeeps
    <3>2. CASE \E r \in Reals, v \in Vnds, m \in Muxes, got \in Outcomes :
                  Newlink(r, v, m, got)
      BY <1>1, <2>0, <3>2, NewlinkKeeps
    <3>3. CASE \E v \in Vnds, s \in Reals, got \in Outcomes : AddBridge(v, s, got)
      BY <1>1, <2>0, <3>3, AddBridgeKeeps
    <3> QED
      BY <1>1, <2>0, <2>1, <3>1, <3>2, <3>3, DellinkKeeps, ClientSetupKeeps,
         ForceKeeps, DelBridgeKeeps DEF Rtnl
  <2>2. CASE Working
    BY <1>1, <2>0, <2>2, NewlinkRestKeeps, SyncKeeps, GraceKeeps, UnrealKeeps,
       FreePortKeeps, UnregisterBridgeStep, VndDellinkKeeps, UnlistKeeps,
       FreeEndpointKeeps, QmiExitKeeps, CloseKeeps, UninitKeeps, ExitPostKeeps,
       FreeDeviceKeeps DEF Working
  <2>3. CASE \E k \in Readers : Reading(k)
    BY <1>1, <2>0, <2>3, EnterKeeps, EgressKeeps, LookupKeeps, ReadDevKeeps,
       QosPtKeeps, WatchdogAddKeeps, LeaveKeeps DEF Reading
  <2>4. CASE \E v \in Vnds : WatchdogFn(v)
    BY <1>1, <2>0, <2>4, WatchdogFnKeeps
  <2>5. CASE DlMarkers
    BY <1>1, <2>0, <2>5, RegisterKeeps, DeregisterKeeps DEF DlMarkers
  <2> QED
    BY <1>4, <2>1, <2>2, <2>3, <2>4, <2>5 DEF Next, Over
<1> QED
  BY <1>3, <1>4

LEMMA InvAlways == Spec => []PortInv
BY InvInit, InvNext, PTL DEF Spec

LEMMA InvReaders == PortInv => ReadersSafe
<1> SUFFICES ASSUME TypeOK, Inv, NEW k \in Readers
             PROVE  /\ rd[k].real # NULL => port[rd[k].real].st # "none"
                    /\ rd[k].ep # NULL => ep[rd[k].ep].st # "none"
                    /\ rd[k].dev # NULL => vnd[rd[k].dev].st # "none"
                    /\ rd[k].pc = "qos" => vnd[rd[k].dev].qos # "none"
  BY DEF PortInv, Inv, ReadersSafe, CrashOK
<1>1. ReaderOK(k, rd[k])
  BY DEF Inv, ReadOK
<1>2. rd[k].pc = "qos" => rd[k].dev \in Vnds /\ rd[k].dev # NULL
  BY <1>1, NullAssumption DEF ReaderOK
<1> QED
  BY <1>1, <1>2 DEF ReaderOK, Inv, StructInv, VndOK

\* Nothing a reader has found is freed before the reader is out, and a packet
\* finds a null egress_dev only in an endpoint that is being deleted.
THEOREM ReadersOutlived == Spec => []ReadersSafe
BY InvAlways, InvReaders, PTL

\* No bearer is freed with its watchdog armed.
THEOREM TimersSafe == Spec => []TimersStopped
<1>1. PortInv => TimersStopped
  BY DEF PortInv, CrashOK, TimersStopped
<1> QED
  BY <1>1, InvAlways, PTL

-----------------------------------------------------------------------------
(* Clients of downlink markers.                                            *)

LEMMA InsertSorted ==
    ASSUME NEW s \in Seq(Clients), NEW c \in Clients, Sorted(s),
           NEW at \in DlPlaces(s, c), at # 0
    PROVE  Sorted(InsertAt(s, at, c))
<1>0. at \in 1 .. Len(s) + 1
  BY PlacesOK
<1>1. \A d \in Clients : Priority[d] \in Nat
  BY PortAssumption
<1>2. \A i \in 1 .. Len(s) : s[i] \in Clients
  OBVIOUS
<1>3. \A i \in 1 .. Len(s) : i < at => Priority[s[i]] <= Priority[c]
  BY <1>0, <1>1, <1>2 DEF DlPlaces
<1>4. \A i \in 1 .. Len(s) : i >= at => Priority[c] <= Priority[s[i]]
  <2> SUFFICES ASSUME NEW i \in 1 .. Len(s), i >= at
               PROVE  Priority[c] <= Priority[s[i]]
    OBVIOUS
  <2>1. at \in 1 .. Len(s)
    BY <1>0
  <2>2. Priority[s[at]] >= Priority[c]
    BY <2>1 DEF DlPlaces
  <2>3. Priority[s[at]] <= Priority[s[i]]
    BY <1>1, <1>2, <2>1 DEF Sorted
  <2> QED
    BY <1>1, <1>2, <2>1, <2>2, <2>3
<1> DEFINE t == InsertAt(s, at, c)
<1>5. /\ Len(t) = Len(s) + 1
      /\ \A j \in 1 .. Len(s) + 1 :
            t[j] = IF j < at THEN s[j] ELSE IF j = at THEN c ELSE s[j - 1]
  BY <1>0, InsertSeq
<1> HIDE DEF t
<1> SUFFICES ASSUME NEW i \in 1 .. Len(s) + 1, NEW j \in 1 .. Len(s) + 1, i < j
             PROVE  Priority[t[i]] <= Priority[t[j]]
  BY <1>5 DEF Sorted, t
<1>6. CASE j < at
  BY <1>0, <1>1, <1>2, <1>5, <1>6 DEF Sorted
<1>7. CASE j = at
  BY <1>0, <1>3, <1>5, <1>7
<1>8. CASE i = at
  BY <1>0, <1>4, <1>5, <1>8
<1>9. CASE i < at /\ at < j
  <2>1. t[i] = s[i] /\ t[j] = s[j - 1] /\ i \in 1 .. Len(s) /\ j - 1 \in 1 .. Len(s)
    BY <1>0, <1>5, <1>9
  <2>2. i < j - 1 \/ i = j - 1
    BY <1>0, <1>9
  <2> QED
    BY <1>0, <1>1, <1>2, <1>3, <1>4, <1>9, <2>1, <2>2
<1>10. CASE at < i
  <2>1. /\ t[i] = s[i - 1] /\ t[j] = s[j - 1] /\ i - 1 < j - 1
        /\ i - 1 \in 1 .. Len(s) /\ j - 1 \in 1 .. Len(s)
    BY <1>0, <1>5, <1>10
  <2> QED
    BY <2>1 DEF Sorted
<1> QED
  BY <1>0, <1>6, <1>7, <1>8, <1>9, <1>10

LEMMA RemoveSorted ==
    ASSUME NEW s \in Seq(Clients), Sorted(s), NEW at \in 1 .. Len(s)
    PROVE  Sorted(RemoveAt(s, at))
<1> DEFINE t == RemoveAt(s, at)
<1>1. /\ Len(t) = Len(s) - 1
      /\ \A j \in 1 .. Len(s) - 1 : t[j] = IF j < at THEN s[j] ELSE s[j + 1]
  BY RemoveSeq
<1> HIDE DEF t
<1> SUFFICES ASSUME NEW i \in 1 .. Len(s) - 1, NEW j \in 1 .. Len(s) - 1, i < j
             PROVE  Priority[t[i]] <= Priority[t[j]]
  BY <1>1 DEF Sorted, t
<1>2. CASE i < at /\ j < at
  BY <1>1, <1>2 DEF Sorted
<1>3. CASE i < at /\ ~(j < at)
  <2> j + 1 \in 1 .. Len(s) /\ i \in 1 .. Len(s) /\ i < j + 1
    OBVIOUS
  <2> QED
    BY <1>1, <1>3 DEF Sorted
<1>4. CASE ~(i < at)
  <2> /\ j + 1 \in 1 .. Len(s) /\ i + 1 \in 1 .. Len(s) /\ i + 1 < j + 1
      /\ ~(j < at)
    BY <1>4
  <2> QED
    BY <1>1, <1>4 DEF Sorted
<1> QED
  BY <1>2, <1>3, <1>4

\* Configuration keeps the list of clients of a port or frees the port
LEMMA DlStays ==
    ASSUME TypeOK, Rtnl \/ Working, NEW q \in Reals
    PROVE  port'[q].dl = port[q].dl \/ port'[q].dl = <<>>
<1>0. port \in [Reals -> PortRec] /\ port[q] \in PortRec
  BY Types
<1>1. NoPort.dl = <<>>
  BY DEF NoPort
<1>2. ASSUME NEW r, NEW got, RegisterRealDevice(r, got)
      PROVE  port'[q].dl = port[q].dl \/ port'[q].dl = <<>>
  BY <1>0, <1>2 DEF RegisterRealDevice, NoPort
<1>3. CASE Rtnl
  <2>1. ASSUME NEW r \in Reals, NEW v \in Vnds, NEW m \in Muxes, NEW got \in Outcomes,
               Newlink(r, v, m, got)
        PROVE  port'[q].dl = port[q].dl \/ port'[q].dl = <<>>
    BY <1>2, <2>1 DEF Newlink
  <2>2. ASSUME NEW v \in Vnds, Dellink(v)
        PROVE  port'[q].dl = port[q].dl
    <3>1. \/ port' = port
          \/ \E r, u : port' = [port EXCEPT ![r].eps = u]
      BY <2>2 DEF Dellink
    <3>2. ASSUME NEW r, NEW u, port' = [port EXCEPT ![r].eps = u]
          PROVE  port'[q].dl = port[q].dl
      BY <1>0, <3>2 DEF PortRec
    <3> QED
      BY <3>1, <3>2
  <2>3. ASSUME NEW v \in Vnds, ClientSetup(v)
        PROVE  port'[q].dl = port[q].dl
    BY <1>0, <2>3 DEF ClientSetup, PortRec
  <2>4. ASSUME NEW v \in Vnds, NEW r \in Reals, NEW m \in Muxes, Changelink(v, r, m)
        PROVE  port'[q].dl = port[q].dl
    BY <1>0, <2>4 DEF Changelink, PortRec
  <2>5. ASSUME NEW v \in Vnds, NEW s \in Reals, NEW got \in Outcomes,
               AddBridge(v, s, got)
        PROVE  port'[q].dl = port[q].dl \/ port'[q].dl = <<>>
    <3>1. PICK r, x : /\ r = vnd[v].real
                      /\ x = [NoPort EXCEPT !.st = "live", !.built = TRUE,
                                            !.mode = "bridge", !.bridge_ep = r]
      OBVIOUS
    <3>2. \/ RegisterRealDevice(s, got)
          \/ port' = [port EXCEPT ![s] = x, ![r].mode = "bridge", ![r].bridge_ep = s]
      BY <2>5, <3>1 DEF AddBridge
    <3>3. x.dl = <<>>
      BY <3>1 DEF NoPort
    <3>4. CASE port' = [port EXCEPT ![s] = x, ![r].mode = "bridge", ![r].bridge_ep = s]
      <4>1. CASE q = s /\ q # r
        BY <1>0, <3>3, <3>4, <4>1
      <4>2. CASE q = s /\ q = r
        <5> PICK y : y = [[x EXCEPT !.mode = "bridge"] EXCEPT !.bridge_ep = s]
          OBVIOUS
        <5>1. y.dl = x.dl
          BY <3>1 DEF NoPort
        <5>2. port'[q] = y
          BY <1>0, <3>4, <4>2
        <5> QED
          BY <3>3, <5>1, <5>2
      <4>3. CASE q # s
        BY <1>0, <3>4, <4>3 DEF PortRec
      <4> QED
        BY <4>1, <4>2, <4>3
    <3> QED
      BY <1>2, <3>2, <3>4
  <2>6. ASSUME NEW v \in Vnds, NEW s \in Reals, DelBridge(v, s)
        PROVE  port'[q].dl = port[q].dl
    <3>1. \/ port' = port
          \/ \E r : port' = [port EXCEPT ![r].mode = "vnd", ![r].bridge_ep = NULL]
      BY <2>6 DEF DelBridge
    <3>2. ASSUME NEW r, port' = [port EXCEPT ![r].mode = "vnd", ![r].bridge_ep = NULL]
          PROVE  port'[q].dl = port[q].dl
      BY <1>0, <3>2 DEF PortRec
    <3> QED
      BY <3>1, <3>2
  <2>7. ASSUME NEW r \in Reals, ForceUnassociate(r)
        PROVE  port'[q].dl = port[q].dl
    BY <2>7 DEF ForceUnassociate
  <2> QED
    BY <1>3, <2>1, <2>2, <2>3, <2>4, <2>5, <2>6, <2>7 DEF Rtnl
<1>4. CASE Working
  <2>1. ASSUME NEW ok \in BOOLEAN, NewlinkRest(ok)
        PROVE  port'[q].dl = port[q].dl
    <3>1. \/ port' = port
          \/ \E e \in Eps : port' = [port EXCEPT ![rt.real] =
                 [port[rt.real] EXCEPT !.nr = port[rt.real].nr + 1, !.mode = "vnd",
                                       !.eps = Listed(port[rt.real].eps, e, rt.mux)]]
      BY <2>1 DEF NewlinkRest
    <3>2. ASSUME NEW r, NEW n, NEW l,
                 port' = [port EXCEPT ![r] =
                            [port[r] EXCEPT !.nr = n, !.mode = "vnd", !.eps = l]]
          PROVE  port'[q].dl = port[q].dl
      BY <1>0, <3>2 DEF PortRec
    <3> QED
      BY <3>1, <3>2
  <2>2. CASE UnregisterRealDevice
    BY <1>0, <2>2 DEF UnregisterRealDevice, PortRec
  <2>3. CASE FreePort
    BY <1>0, <1>1, <2>3 DEF FreePort
  <2>4. CASE UnregisterBridge
    BY <1>0, <2>4 DEF UnregisterBridge, PortRec
  <2>5. CASE VndDellink
    BY <1>0, <2>5 DEF VndDellink, PortRec
  <2>6. CASE Unlist
    BY <1>0, <2>6 DEF Unlist, PortRec
  <2>7. CASE QmiExit
    BY <1>0, <2>7 DEF QmiExit, PortRec
  <2>8. CASE \/ Synchronize \/ GracePeriod \/ FreeEndpoint \/ CloseDevice
             \/ VndUninit \/ QosExitPost \/ FreeDevice
    BY <2>8 DEF Synchronize, GracePeriod, FreeEndpoint, CloseDevice, VndUninit,
                QosExitPost, FreeDevice
  <2> QED
    BY <1>4, <2>1, <2>2, <2>3, <2>4, <2>5, <2>6, <2>7, <2>8 DEF Working
<1> QED
  BY <1>3, <1>4

LEMMA SortedNext == TypeOK /\ MarkersSorted /\ [Next]_vars => MarkersSorted'
<1> SUFFICES ASSUME TypeOK, MarkersSorted, [Next]_vars, NEW q \in Reals
             PROVE  Sorted(port'[q].dl)
  BY DEF MarkersSorted, Sorted
<1>0. /\ Sorted(port[q].dl) /\ port[q].dl \in Seq(Clients)
      /\ port \in [Reals -> PortRec]
  BY Types DEF MarkersSorted, PortRec
<1>1. CASE port'[q].dl = port[q].dl
  BY <1>0, <1>1
<1>2. CASE port'[q].dl = <<>>
  BY <1>2 DEF Sorted
<1>3. ASSUME NEW r \in Reals, NEW c \in Clients, DlIndRegister(r, c)
      PROVE  Sorted(port'[q].dl)
  <2>1. PICK at \in DlPlaces(port[r].dl, c) :
           port' = IF at = 0 \/ ~port[r].built THEN port
                   ELSE [port EXCEPT ![r].dl = InsertAt(port[r].dl, at, c)]
    BY <1>3 DEF DlIndRegister
  <2>2. CASE port' = port
    BY <1>1, <2>2
  <2>3. CASE port' # port
    <3>1. /\ at # 0 /\ port' = [port EXCEPT ![r].dl = InsertAt(port[r].dl, at, c)]
      BY <2>1, <2>3
    <3>2. CASE q # r
      BY <1>0, <1>1, <3>1, <3>2
    <3>3. CASE q = r
      <4>1. port'[q].dl = InsertAt(port[q].dl, at, c)
        BY <1>0, <3>1, <3>3 DEF PortRec
      <4> QED
        BY <1>0, <3>1, <3>3, <4>1, InsertSorted
    <3> QED
      BY <3>2, <3>3
  <2> QED
    BY <2>2, <2>3
<1>4. ASSUME NEW r \in Reals, NEW c \in Clients, DlIndDeregister(r, c)
      PROVE  Sorted(port'[q].dl)
  <2>1. PICK i \in Places(port[r].dl, c) :
           port' = [port EXCEPT ![r].dl = RemoveAt(port[r].dl, i)]
    BY <1>4 DEF DlIndDeregister
  <2>2. CASE q # r
    BY <1>0, <1>1, <2>1, <2>2
  <2>3. CASE q = r
    <3>1. port'[q].dl = RemoveAt(port[q].dl, i) /\ i \in 1 .. Len(port[q].dl)
      BY <1>0, <2>1, <2>3 DEF PortRec, Places
    <3> QED
      BY <1>0, <3>1, RemoveSorted
  <2> QED
    BY <2>2, <2>3
<1>5. ASSUME NEW k \in Readers, Reading(k)
      PROVE  port' = port
  BY <1>5 DEF Reading, Enter, EnterEgress, Lookup, ReadEgressDev, GetQosPt,
              WatchdogAdd, Leave, Reads
<1>6. ASSUME NEW v \in Vnds, WatchdogFn(v)
      PROVE  port' = port
  BY <1>6 DEF WatchdogFn
<1>7. CASE Rtnl \/ Working
  BY <1>1, <1>2, <1>7, DlStays
<1>8. UNCHANGED vars => port' = port
  BY DEF vars
<1> QED
  BY <1>1, <1>3, <1>4, <1>5, <1>6, <1>7, <1>8 DEF Next, Over, DlMarkers

\* However clients come and go, on however many ports, each port notifies them
\* in the order of their priority.
THEOREM MarkersSafe == Spec => []MarkersSorted
<1>1. Init => MarkersSorted
  BY DEF Init, MarkersSorted, NoPort, Sorted
<1>2. PortInv => TypeOK
  BY DEF PortInv
<1> QED
  BY <1>1, <1>2, InvAlways, SortedNext, PTL DEF Spec

-----------------------------------------------------------------------------
(* Bridges and counts.                                                     *)

\* An endpoint that has lost its device is being deleted
DeadOK == \A e \in Eps : ep[e].st = "dead" => e \in rt.es

\* The operation is before rmnet_unregister_bridge, gives up the slave of its
\* port, is past that, or has called for a port to be given up at once
Starting == rt.pc \in {"qmi_exit", "bridge"}
Slaving == Calling /\ rt.back = "detach"
Parting ==
    \/ rt.pc \in {"detach", "unlist", "free", "qmi_last", "close", "uninit",
                  "exit_post"}
    \/ Calling /\ rt.back = "freedev"
Called == Calling /\ rt.back = "idle"

\* The port r is on its way out
Leaving(r) ==
    \/ Called /\ rt.gone = r
    \/ (Slaving \/ Parting) /\ rt.real = r

\* The operation will look after the port r
Used(r) ==
    \/ rt.pc = "newlink" /\ rt.real = r
    \/ Called /\ rt.gone = r
    \/ (Starting \/ Slaving \/ Parting) /\ rt.real = r

\* The ports r and b are the ends of a bridge, one of them with a device
Paired(r) ==
    LET b == port[r].bridge_ep
    IN  /\ b \in Reals /\ port[b].st = "live"
        /\ port[b].mode = "bridge" /\ port[b].bridge_ep = r
        /\ \/ port[r].nr = 0 /\ port[b].nr = 1
           \/ port[r].nr = 1 /\ port[b].nr = 0

Ends ==
    \A r \in Reals :
        /\ port[r].mode = "bridge" <=> port[r].bridge_ep # NULL
        /\ port[r].mode = "bridge" /\ ~Leaving(r) => Paired(r)
        /\ port[r].st = "live" /\ port[r].nr = 0 /\ port[r].mode # "bridge" =>
              Used(r)
        /\ \A q \in Reals : Leaving(r) /\ port[q].bridge_ep = r =>
              Slaving /\ r = rt.real /\ q = rt.gone

Work ==
    /\ rt.pc = "newlink" =>
          /\ port[rt.real].mode # "bridge"
          /\ \A q \in Reals : port[q].bridge_ep # rt.real
    /\ Slaving =>
          /\ port[rt.real].mode = "bridge" /\ port[rt.real].bridge_ep = rt.gone
          /\ port[rt.gone].mode = "bridge" /\ port[rt.gone].bridge_ep = rt.real
          /\ port[rt.gone].nr = 0
    /\ Called /\ port[rt.gone].mode = "bridge" => port[rt.gone].nr = 0
    /\ (Starting \/ Slaving \/ Parting) /\ port[rt.real].mode = "bridge" =>
          Leading(rt.real) \subseteq rt.es
    /\ rt.pc = "freedev" => port[rt.real].mode # "bridge"

BridgeOK == crash # "port" /\ Ends /\ Work

LinkInv == misled \/ (DeadOK /\ (mixed \/ nomem \/ BridgeOK))

\* What bridges look at in a port
SameEnd(q) ==
    /\ port'[q].st = port[q].st /\ port'[q].mode = port[q].mode
    /\ port'[q].bridge_ep = port[q].bridge_ep /\ port'[q].nr = port[q].nr

SameStage ==
    /\ rt'.pc = "newlink" <=> rt.pc = "newlink"
    /\ rt'.pc = "freedev" <=> rt.pc = "freedev"
    /\ Starting' <=> Starting
    /\ Slaving' <=> Slaving
    /\ Parting' <=> Parting
    /\ Called' <=> Called
    /\ rt'.real = rt.real
    /\ Slaving \/ Called => rt'.gone = rt.gone

\* The ports an operation works on are ports
LEMMA StageReals ==
    ASSUME TypeOK, Inv
    PROVE  /\ rt.pc \in {"newlink", "freedev"} \/ Starting \/ Slaving \/ Parting =>
                 rt.real \in Reals
           /\ Slaving \/ Called => rt.gone \in Reals
<1>1. /\ Calling => rt.gone \in Reals
      /\ Early \/ Mid \/ Late \/ rt.pc = "newlink" => rt.real \in Reals
  BY DEF Inv, StructInv, RtOK
<1>2. rt.pc = "freedev" \/ Starting \/ Slaving \/ Parting => Early \/ Mid \/ Late
  BY DEF Starting, Slaving, Parting, Early, Mid, Late, Calling
<1> QED
  BY <1>1, <1>2 DEF Slaving, Called

LEMMA SamePaired ==
    ASSUME TypeOK, \A q \in Reals : SameEnd(q), NEW r \in Reals, Paired(r)
    PROVE  Paired(r)'
BY DEF Paired, SameEnd

LEMMA BridgeFrame ==
    ASSUME TypeOK, Inv, BridgeOK, \A q \in Reals : SameEnd(q), SameStage,
           Leading(rt.real) \subseteq rt.es => (Leading(rt.real) \subseteq rt.es)',
           crash' # "port"
    PROVE  BridgeOK'
<1>1. \A r \in Reals : (Leaving(r)' <=> Leaving(r)) /\ (Used(r)' <=> Used(r))
  BY DEF Leaving, Used, SameStage
<1>2. \A r \in Reals : Paired(r) => Paired(r)'
  BY SamePaired
<1>3. Ends
  BY DEF BridgeOK
<1>4. Ends'
  <2> SUFFICES ASSUME NEW r \in Reals PROVE Ends!(r)'
    BY DEF Ends
  <2>1. Ends!(r)
    BY <1>3 DEF Ends
  <2>2. SameEnd(r) /\ \A q \in Reals : port'[q].bridge_ep = port[q].bridge_ep
    BY DEF SameEnd
  <2>3. /\ Slaving' <=> Slaving
        /\ Slaving => rt'.real = rt.real /\ rt'.gone = rt.gone
    BY DEF SameStage
  <2> QED
    BY <1>1, <1>2, <2>1, <2>2, <2>3 DEF SameEnd
<1>5. Work'
  BY StageReals DEF SameStage, SameEnd, BridgeOK, Work
<1> QED
  BY <1>4, <1>5 DEF BridgeOK

\* Steps that leave the work and the endpoints alone
LEMMA QuietBridge ==
    ASSUME TypeOK, Inv, BridgeOK, UNCHANGED rt, \A q \in Reals : SameEnd(q),
           \A e \in Eps : /\ ep'[e].egress_dev = ep[e].egress_dev
                          /\ ep'[e].real = ep[e].real,
           crash' # "port"
    PROVE  BridgeOK'
<1>1. SameStage
  BY DEF SameStage, Starting, Slaving, Parting, Called, Calling
<1>2. Leading(rt.real)' = Leading(rt.real)
  BY DEF Leading
<1> QED
  BY <1>1, <1>2, BridgeFrame

LEMMA SameEnds == UNCHANGED port => \A q \in Reals : SameEnd(q)
BY DEF SameEnd

\* Steps within a stage
LEMMA SyncBridge ==
    ASSUME TypeOK, Inv, BridgeOK, crash = NULL, Synchronize
    PROVE  BridgeOK'
<1>0. rt \in RtRec
  BY Types
<1>1. /\ UNCHANGED <<port, ep, crash>> /\ rt' = [rt EXCEPT !.grace = TRUE]
      /\ rt.pc \in {"detach", "close", "uninit", "dying"}
  BY DEF Synchronize, At
<1>2. /\ rt'.pc = rt.pc /\ rt'.real = rt.real /\ rt'.gone = rt.gone
      /\ rt'.back = rt.back /\ rt'.es = rt.es
  BY <1>0, <1>1 DEF RtRec
<1>3. SameStage
  BY <1>2 DEF SameStage, Starting, Slaving, Parting, Called, Calling
<1>4. Leading(rt.real)' = Leading(rt.real)
  BY <1>1, <1>2 DEF Leading
<1> QED
  BY <1>1, <1>2, <1>3, <1>4, SameEnds, BridgeFrame, NullAssumption

LEMMA GraceBridge ==
    ASSUME TypeOK, Inv, BridgeOK, crash = NULL, GracePeriod
    PROVE  BridgeOK'
<1>0. rt \in RtRec /\ rt.pc \in {"detach", "close", "uninit", "dying"}
  BY Types DEF Inv, StructInv, RtOK, GracePeriod
<1>1. /\ UNCHANGED <<port, ep, crash>>
      /\ rt' = [rt EXCEPT !.grace = FALSE, !.pc = AfterGrace[rt.pc]]
  BY DEF GracePeriod
<1>2. /\ rt'.pc = AfterGrace[rt.pc] /\ rt'.real = rt.real /\ rt'.gone = rt.gone
      /\ rt'.back = rt.back /\ rt'.es = rt.es
  BY <1>0, <1>1 DEF RtRec
<1>3. \/ rt.pc # "dying" /\ rt'.pc \in {"free", "uninit", "exit_post"}
      \/ rt.pc = "dying" /\ rt'.pc = "freeport"
  BY <1>0, <1>2 DEF AfterGrace
<1>4. SameStage
  BY <1>0, <1>2, <1>3 DEF SameStage, Starting, Slaving, Parting, Called, Calling
<1>5. Leading(rt.real)' = Leading(rt.real)
  BY <1>1, <1>2 DEF Leading
<1> QED
  BY <1>1, <1>2, <1>4, <1>5, SameEnds, BridgeFrame, NullAssumption

LEMMA UnlistBridge ==
    ASSUME TypeOK, Inv, BridgeOK, crash = NULL, Unlist
    PROVE  BridgeOK'
<1>0. rt \in RtRec /\ rt.pc = "unlist" /\ port \in [Reals -> PortRec]
  BY Types DEF Unlist, At
<1>1. /\ UNCHANGED <<ep, crash>> /\ Goto("detach")
      /\ port' = [port EXCEPT ![rt.real].eps = Unlisted(@, rt.ep)]
  BY DEF Unlist
<1>2. /\ rt'.pc = "detach" /\ rt'.real = rt.real /\ rt'.gone = rt.gone
      /\ rt'.back = rt.back /\ rt'.es = rt.es
  BY <1>0, <1>1, GotoFacts DEF Steps
<1>3. SameStage
  BY <1>0, <1>2 DEF SameStage, Starting, Slaving, Parting, Called, Calling
<1>4. Leading(rt.real)' = Leading(rt.real)
  BY <1>1, <1>2 DEF Leading
<1>5. \A q \in Reals : SameEnd(q)
  BY <1>0, <1>1 DEF SameEnd, PortRec
<1> QED
  BY <1>1, <1>2, <1>3, <1>4, <1>5, BridgeFrame, NullAssumption

LEMMA FreeEndpointBridge ==
    ASSUME TypeOK, Inv, BridgeOK, crash = NULL, FreeEndpoint
    PROVE  BridgeOK'
<1>0. /\ rt \in RtRec /\ rt.pc = "free" /\ UNCHANGED <<port, crash>>
      /\ ep \in [Eps -> EpRec]
  BY Types DEF FreeEndpoint, At
<1>1. CASE \E e \in rt.es : /\ ep' = [ep EXCEPT ![e] = NoEp]
                            /\ rt' = [rt EXCEPT !.es = @ \ {e}]
  <2>1. PICK e \in rt.es : /\ ep' = [ep EXCEPT ![e] = NoEp]
                           /\ rt' = [rt EXCEPT !.es = @ \ {e}]
    BY <1>1
  <2>2. /\ rt'.pc = rt.pc /\ rt'.real = rt.real /\ rt'.gone = rt.gone
        /\ rt'.back = rt.back /\ rt'.es = rt.es \ {e}
    BY <1>0, <2>1 DEF RtRec
  <2>3. SameStage
    BY <2>2 DEF SameStage, Starting, Slaving, Parting, Called, Calling
  <2>4. e \in Eps /\ ep'[e].egress_dev = NULL
    BY <1>0, <2>1 DEF RtRec, NoEp
  <2>5. Leading(rt.real)' \subseteq Leading(rt.real) \ {e}
    BY <1>0, <2>1, <2>2, <2>4 DEF Leading
  <2> QED
    BY <1>0, <2>2, <2>3, <2>5, SameEnds, BridgeFrame, NullAssumption
<1>2. CASE UNCHANGED ep /\ Goto(IF rt.op = "dellink" THEN "qmi_last" ELSE "close")
  <2>1. /\ rt'.pc \in {"qmi_last", "close"} /\ rt'.real = rt.real
        /\ rt'.gone = rt.gone /\ rt'.back = rt.back /\ rt'.es = rt.es
    BY <1>0, <1>2, GotoFacts DEF Steps
  <2>2. SameStage
    BY <1>0, <2>1 DEF SameStage, Starting, Slaving, Parting, Called, Calling
  <2>3. Leading(rt.real)' = Leading(rt.real)
    BY <1>2, <2>1 DEF Leading
  <2> QED
    BY <1>0, <2>1, <2>2, <2>3, SameEnds, BridgeFrame, NullAssumption
<1> QED
  BY <1>1, <1>2 DEF FreeEndpoint

LEMMA QmiExitBridge ==
    ASSUME TypeOK, Inv, BridgeOK, crash = NULL, QmiExit
    PROVE  BridgeOK'
<1>0. /\ rt \in RtRec /\ rt.pc \in {"qmi_exit", "qmi_last"}
      /\ UNCHANGED <<ep, crash>> /\ port \in [Reals -> PortRec]
  BY Types DEF QmiExit, At
<1>1. /\ Goto(IF At("qmi_exit") THEN "bridge" ELSE "close")
      /\ port' = port \/ port' = [port EXCEPT ![rt.real].qmi = FALSE]
  BY DEF QmiExit
<1>2. At("qmi_exit") <=> rt.pc = "qmi_exit"
  BY <1>0 DEF QmiExit, At
<1>3. /\ rt'.pc = (IF rt.pc = "qmi_exit" THEN "bridge" ELSE "close")
      /\ rt'.real = rt.real
      /\ rt'.gone = rt.gone /\ rt'.back = rt.back /\ rt'.es = rt.es
  BY <1>0, <1>1, <1>2, GotoFacts DEF Steps
<1>4. SameStage
  BY <1>0, <1>3 DEF SameStage, Starting, Slaving, Parting, Called, Calling
<1>5. Leading(rt.real)' = Leading(rt.real)
  BY <1>0, <1>3 DEF Leading
<1>6. \A q \in Reals : SameEnd(q)
  BY <1>0, <1>1 DEF SameEnd, PortRec
<1> QED
  BY <1>0, <1>3, <1>4, <1>5, <1>6, BridgeFrame, NullAssumption

LEMMA ExitPostBridge ==
    ASSUME TypeOK, Inv, BridgeOK, crash = NULL, QosExitPost
    PROVE  BridgeOK'
<1>0. /\ rt \in RtRec /\ rt.pc = "exit_post" /\ UNCHANGED <<port, ep>>
      /\ rt' = Unreal(rt, rt.real, "freedev") /\ crash' \in {NULL, "timer"}
  BY Types DEF QosExitPost, At
<1>1. rt.real \in Reals
  BY <1>0 DEF Inv, StructInv, RtOK, Late
<1>2. /\ rt'.pc = "unreal" /\ rt'.real = rt.real /\ rt'.back = "freedev"
      /\ rt'.es = rt.es
  BY <1>0, <1>1, UnrealFacts DEF Steps
<1>3. SameStage
  BY <1>0, <1>2 DEF SameStage, Starting, Slaving, Parting, Called, Calling
<1>4. Leading(rt.real)' = Leading(rt.real)
  BY <1>0, <1>2 DEF Leading
<1> QED
  BY <1>0, <1>2, <1>3, <1>4, SameEnds, BridgeFrame, NullAssumption

\* A bridge that is not on its way out
LEMMA EndFacts ==
    ASSUME BridgeOK, NEW r \in Reals
    PROVE  /\ port[r].mode = "bridge" <=> port[r].bridge_ep # NULL
           /\ port[r].mode = "bridge" /\ ~Leaving(r) => Paired(r)
           /\ port[r].st = "live" /\ port[r].nr = 0 /\ port[r].mode # "bridge" =>
                 Used(r)
           /\ \A q \in Reals : Leaving(r) /\ port[q].bridge_ep = r =>
                 Slaving /\ r = rt.real /\ q = rt.gone
BY DEF BridgeOK, Ends

\* Two bridges do not have the same port for their other end
LEMMA OneBridge ==
    ASSUME BridgeOK, NEW r \in Reals, NEW q \in Reals, NEW b \in Reals,
           port[r].bridge_ep = b, port[q].bridge_ep = b,
           ~Leaving(r), ~Leaving(q)
    PROVE  q = r
<1>1. port[r].mode = "bridge" /\ port[q].mode = "bridge"
  BY EndFacts, NullAssumption
<1>2. Paired(r) /\ Paired(q)
  BY <1>1, EndFacts
<1> QED
  BY <1>2 DEF Paired

\* An endpoint loses its device
LEMMA VndDellinkBridge ==
    ASSUME TypeOK, Inv, BridgeOK, crash = NULL, VndDellink
    PROVE  BridgeOK'
<1>0. /\ rt \in RtRec /\ rt.pc = "detach" /\ UNCHANGED crash
      /\ ep \in [Eps -> EpRec] /\ port \in [Reals -> PortRec]
  BY Types DEF VndDellink, At
<1>1. PICK e \in rt.es :
         /\ ep' = [ep EXCEPT ![e].egress_dev = NULL, ![e].st = "dead"]
         /\ port' = port \/ port' = [port EXCEPT ![ep[e].real].nr = @ - 1]
         /\ rt' = IF rt.op = "dellink" THEN rt
                  ELSE [rt EXCEPT !.pc = "unlist", !.ep = e]
  BY DEF VndDellink
<1>2. e \in Eps /\ ep[e].real = rt.real
  BY <1>0 DEF RtRec, Inv, StructInv, EsOK
<1>n. PICK r : r = rt.real
  OBVIOUS
<1>3. r \in Reals /\ Parting /\ ~Slaving /\ ~Called /\ ~Starting
  BY <1>0, <1>n, StageReals DEF Parting, Slaving, Called, Calling, Starting
<1>4. /\ rt'.pc \in {"detach", "unlist"} /\ rt'.real = r /\ rt'.es = rt.es
  BY <1>0, <1>1, <1>n DEF RtRec
<1>5. Parting' /\ ~Slaving' /\ ~Called' /\ ~Starting'
  BY <1>4 DEF Parting, Slaving, Called, Calling, Starting
<1>6. /\ \A q \in Reals : q # r => SameEnd(q)
      /\ port'[r].mode = port[r].mode /\ port'[r].bridge_ep = port[r].bridge_ep
  BY <1>0, <1>1, <1>2, <1>3, <1>n DEF SameEnd, PortRec
<1>7. \A q \in Reals : /\ Leaving(q) <=> q = r
                       /\ Leaving(q)' <=> q = r
                       /\ Used(q) <=> q = r
                       /\ Used(q)' <=> q = r
  BY <1>0, <1>3, <1>4, <1>5, <1>n DEF Leaving, Used
<1>8. \A q \in Reals : port[q].bridge_ep # r
  BY <1>3, <1>7, EndFacts
<1>9. ASSUME NEW q \in Reals PROVE Ends!(q)'
  <2>1. CASE q = r
    BY <1>3, <1>6, <1>7, <1>8, <2>1, EndFacts DEF SameEnd
  <2>2. CASE q # r
    <3>1. SameEnd(q)
      BY <1>6, <2>2
    <3>2. Paired(q) => Paired(q)'
      BY <1>6, <1>8, <3>1 DEF Paired, SameEnd
    <3> QED
      BY <1>7, <2>2, <3>1, <3>2, EndFacts DEF SameEnd
  <2> QED
    BY <2>1, <2>2
<1>10. Leading(r)' \subseteq Leading(r)
  BY <1>0, <1>1, <1>2 DEF Leading, EpRec
<1>11. port[r].mode = "bridge" => Leading(r) \subseteq rt.es
  BY <1>3, <1>n DEF BridgeOK, Work
<1>12. Work'
  BY <1>4, <1>5, <1>6, <1>10, <1>11 DEF Work
<1> QED
  BY <1>0, <1>9, <1>12, NullAssumption DEF BridgeOK, Ends

LEMMA FreeDeviceBridge ==
    ASSUME TypeOK, Inv, BridgeOK, crash = NULL, FreeDevice
    PROVE  BridgeOK'
<1>0. rt \in RtRec /\ rt.pc = "freedev" /\ UNCHANGED <<port, ep, crash>>
  BY Types DEF FreeDevice, At
<1>1. /\ rt'.pc \in {"freedev", "idle"}
      /\ rt'.pc = "freedev" => rt'.real = rt.real
  <2>1. CASE \E v \in rt.vs : rt' = [rt EXCEPT !.vs = @ \ {v}]
    BY <1>0, <2>1 DEF RtRec
  <2>2. CASE Goto("idle")
    BY <2>2, NoWorkFacts DEF Goto
  <2> QED
    BY <2>1, <2>2 DEF FreeDevice
<1>2. /\ ~Starting /\ ~Slaving /\ ~Parting /\ ~Called
      /\ ~Starting' /\ ~Slaving' /\ ~Parting' /\ ~Called'
  BY <1>0, <1>1 DEF Starting, Slaving, Parting, Called, Calling
<1>3. \A q \in Reals : /\ ~Leaving(q) /\ ~Leaving(q)'
                       /\ Used(q) <=> Used(q)'
  BY <1>0, <1>1, <1>2 DEF Leaving, Used
<1>4. ASSUME NEW q \in Reals PROVE Ends!(q)'
  <2>1. Paired(q) => Paired(q)'
    BY <1>0 DEF Paired
  <2> QED
    BY <1>0, <1>3, <2>1, EndFacts
<1>5. Work'
  BY <1>0, <1>1, <1>2 DEF Work, BridgeOK
<1> QED
  BY <1>0, <1>4, <1>5, NullAssumption DEF BridgeOK, Ends

\* rmnet_unregister_bridge leaves one end and takes the other
LEMMA UnregisterBridgeBridge ==
    ASSUME TypeOK, Inv, BridgeOK, crash = NULL, UnregisterBridge
    PROVE  BridgeOK'
<1>n. PICK r, b : r = rt.real /\ b = port[r].bridge_ep
  OBVIOUS
<1>0. /\ rt \in RtRec /\ rt.pc = "bridge" /\ UNCHANGED ep
      /\ port \in [Reals -> PortRec]
  BY Types DEF UnregisterBridge, At
<1>1. Starting /\ ~Slaving /\ ~Parting /\ ~Called
  BY <1>0 DEF Starting, Slaving, Parting, Called, Calling
<1>2. r \in Reals
  BY <1>n, <1>1, StageReals
<1>3. \A q \in Reals : ~Leaving(q) /\ (Used(q) <=> q = r)
  BY <1>0, <1>1, <1>n DEF Leaving, Used
<1>4. port[r].mode = "bridge" => Leading(r) \subseteq rt.es
  BY <1>1, <1>n DEF BridgeOK, Work
<1>5. Leading(r)' = Leading(r)
  BY <1>0 DEF Leading
<1>6. CASE port[r].mode # "bridge"
  <2>1. Goto("detach") /\ UNCHANGED <<port, crash>>
    BY <1>6, <1>n DEF UnregisterBridge
  <2>2. rt'.pc = "detach" /\ rt'.real = r
    BY <1>0, <1>n, <2>1, GotoFacts DEF Steps
  <2>3. ~Starting' /\ ~Slaving' /\ Parting' /\ ~Called'
    BY <2>2 DEF Starting, Slaving, Parting, Called, Calling
  <2>4. \A q \in Reals : (Leaving(q)' <=> q = r) /\ (Used(q)' <=> q = r)
    BY <2>2, <2>3 DEF Leaving, Used
  <2>5. ASSUME NEW q \in Reals PROVE port[q].bridge_ep # r
    <3> SUFFICES ASSUME port[q].bridge_ep = r PROVE FALSE
      OBVIOUS
    <3>1. Paired(q)
      BY <1>2, <1>3, EndFacts, NullAssumption
    <3> QED
      BY <1>6, <3>1 DEF Paired
  <2>6. ASSUME NEW q \in Reals PROVE Ends!(q)'
    <3>1. Paired(q) => Paired(q)'
      BY <2>1 DEF Paired
    <3> QED
      BY <1>3, <1>6, <2>1, <2>4, <2>5, <3>1, EndFacts
  <2>7. Work'
    BY <1>6, <2>1, <2>2, <2>3 DEF Work
  <2> QED
    BY <2>1, <2>6, <2>7, NullAssumption DEF BridgeOK, Ends
<1>7. CASE port[r].mode = "bridge"
  <2>1. /\ Paired(r) /\ b \in Reals /\ port[b].st = "live"
        /\ port[b].mode = "bridge" /\ port[b].bridge_ep = r
        /\ \/ port[r].nr = 0 /\ port[b].nr = 1
           \/ port[r].nr = 1 /\ port[b].nr = 0
    <3>1. Paired(r)
      BY <1>2, <1>3, <1>7, EndFacts
    <3> QED
      BY <1>n, <3>1 DEF Paired
  <2>2. b # r
    BY <2>1
  <2>3. ASSUME NEW q \in Reals
        PROVE  /\ port[q].bridge_ep = r => q = b
               /\ port[q].bridge_ep = b => q = r
    BY <1>2, <1>3, <1>n, <2>1, OneBridge
  <2>4. CASE port[r].nr = 0
    <3>1. /\ port' = [port EXCEPT ![b].bridge_ep = NULL, ![b].mode = "vnd"]
          /\ Goto("detach") /\ UNCHANGED crash
      BY <1>7, <1>n, <2>1, <2>4 DEF UnregisterBridge
    <3>2. rt'.pc = "detach" /\ rt'.real = r /\ rt'.es = rt.es
      BY <1>0, <1>n, <3>1, GotoFacts DEF Steps
    <3>3. ~Starting' /\ ~Slaving' /\ Parting' /\ ~Called'
      BY <3>2 DEF Starting, Slaving, Parting, Called, Calling
    <3>4. \A q \in Reals : (Leaving(q)' <=> q = r) /\ (Used(q)' <=> q = r)
      BY <3>2, <3>3 DEF Leaving, Used
    <3>5. /\ \A q \in Reals : q # b => SameEnd(q)
          /\ port'[b].st = "live" /\ port'[b].mode = "vnd"
          /\ port'[b].bridge_ep = NULL /\ port'[b].nr = 1
      BY <1>0, <2>1, <2>4, <3>1 DEF SameEnd, PortRec
    <3>6. \A q \in Reals : port'[q].bridge_ep # r
      BY <1>2, <2>3, <3>5, NullAssumption DEF SameEnd
    <3>7. ASSUME NEW q \in Reals PROVE Ends!(q)'
      <4>1. CASE q = b
        BY <2>2, <3>4, <3>5, <4>1
      <4>2. CASE q = r
        BY <1>2, <1>7, <2>2, <3>4, <3>5, <3>6, <4>2, EndFacts DEF SameEnd
      <4>3. CASE q # b /\ q # r
        <5>1. SameEnd(q) /\ port[q].bridge_ep # b
          BY <2>3, <3>5, <4>3
        <5>2. Paired(q) => Paired(q)'
          BY <3>5, <5>1 DEF Paired, SameEnd
        <5> QED
          BY <1>3, <3>4, <4>3, <5>1, <5>2, EndFacts DEF SameEnd
      <4> QED
        BY <4>1, <4>2, <4>3
    <3>8. Work'
      BY <1>4, <1>5, <1>7, <3>2, <3>3 DEF Work
    <3> QED
      BY <3>1, <3>7, <3>8, NullAssumption DEF BridgeOK, Ends
  <2>5. CASE port[r].nr # 0
    <3>1. rt' = Unreal(rt, b, "detach") /\ UNCHANGED <<port, crash>>
      BY <1>7, <1>n, <2>1, <2>5 DEF UnregisterBridge
    <3>2. /\ rt'.pc = "unreal" /\ rt'.real = r /\ rt'.es = rt.es
          /\ rt'.gone = b /\ rt'.back = "detach"
      BY <1>0, <1>n, <2>1, <3>1, UnrealFacts DEF Steps
    <3>3. ~Starting' /\ Slaving' /\ ~Parting' /\ ~Called'
      BY <3>2 DEF Starting, Slaving, Parting, Called, Calling
    <3>4. \A q \in Reals : (Leaving(q)' <=> q = r) /\ (Used(q)' <=> q = r)
      BY <3>2, <3>3 DEF Leaving, Used
    <3>5. ASSUME NEW q \in Reals PROVE Ends!(q)'
      <4>1. Paired(q) => Paired(q)'
        BY <3>1 DEF Paired
      <4> QED
        BY <1>3, <2>3, <3>1, <3>2, <3>3, <3>4, <4>1, EndFacts
    <3>6. Work'
      BY <1>4, <1>5, <1>7, <1>n, <2>1, <2>5, <3>1, <3>2, <3>3 DEF Work
    <3> QED
      BY <3>1, <3>5, <3>6, NullAssumption DEF BridgeOK, Ends
  <2> QED
    BY <2>4, <2>5
<1> QED
  BY <1>6, <1>7

\* Who has called for a port to be given up
LEMMA CallFacts ==
    ASSUME TypeOK, Inv, BridgeOK, Calling
    PROVE  /\ rt \in RtRec /\ rt.gone \in Reals /\ port \in [Reals -> PortRec]
           /\ rt.back \in {"idle", "detach", "freedev"}
           /\ ~Starting
           /\ Called <=> rt.back = "idle"
           /\ Slaving <=> rt.back = "detach"
           /\ Parting <=> rt.back = "freedev"
           /\ rt.back = "detach" => rt.real \in Reals /\ rt.gone # rt.real
           /\ rt.back = "freedev" => rt.gone = rt.real
           /\ \A q \in Reals : port[q].bridge_ep = rt.gone =>
                 rt.back = "detach" /\ q = rt.real
           /\ \A q \in Reals : rt.back = "detach" =>
                 (port[q].bridge_ep = rt.real <=> q = rt.gone)
<1>1. /\ rt \in RtRec /\ rt.gone \in Reals /\ port \in [Reals -> PortRec]
      /\ rt.back \in {"idle", "detach", "freedev"}
  BY Types DEF Inv, StructInv, RtOK
<1>2. /\ ~Starting
      /\ Called <=> rt.back = "idle"
      /\ Slaving <=> rt.back = "detach"
      /\ Parting <=> rt.back = "freedev"
  BY <1>1 DEF Calling, Starting, Called, Slaving, Parting
<1>3. /\ rt.back = "detach" => rt.real \in Reals /\ rt.gone # rt.real
      /\ rt.back = "freedev" => rt.gone = rt.real
  BY <1>2, StageReals DEF Inv, StructInv, PortOK
<1>4. /\ rt.back = "detach" => Leaving(rt.real)
      /\ rt.back # "detach" => Leaving(rt.gone)
  BY <1>1, <1>2, <1>3 DEF Leaving
<1>5. rt.back = "detach" => \A q \in Reals : ~(q = rt.real) => ~Leaving(q)
  BY <1>2 DEF Leaving
<1>6. Slaving => /\ port[rt.gone].mode = "bridge"
                 /\ port[rt.gone].bridge_ep = rt.real
  BY DEF BridgeOK, Work
<1>7. ASSUME NEW q \in Reals, port[q].bridge_ep = rt.gone
      PROVE  rt.back = "detach" /\ q = rt.real
  <2>1. rt.back = "detach"
    BY <1>1, <1>2, <1>4, <1>7, EndFacts
  <2>2. q # rt.real => Paired(q)
    BY <1>1, <1>5, <1>7, <2>1, EndFacts, NullAssumption
  <2> QED
    BY <1>2, <1>6, <1>7, <2>1, <2>2 DEF Paired
<1>8. ASSUME NEW q \in Reals, rt.back = "detach"
      PROVE  port[q].bridge_ep = rt.real <=> q = rt.gone
  BY <1>2, <1>3, <1>4, <1>6, <1>8, EndFacts
<1> QED
  BY <1>1, <1>2, <1>3, <1>7, <1>8

LEMMA UnrealBridge ==
    ASSUME TypeOK, Inv, BridgeOK, crash = NULL, UnregisterRealDevice
    PROVE  BridgeOK'
<1>0. /\ rt.pc = "unreal" /\ Calling /\ UNCHANGED <<ep, crash>>
  BY DEF UnregisterRealDevice, At, Calling
<1>n. PICK g, r : g = rt.gone /\ r = rt.real
  OBVIOUS
<1>1. CASE port[g].nr # 0
  <2>1. Goto(rt.back) /\ UNCHANGED port
    BY <1>1, <1>n DEF UnregisterRealDevice
  <2>2. rt.back # "detach"
    BY <1>0, <1>1, <1>n, CallFacts DEF BridgeOK, Work
  <2>3. port[g].mode # "bridge"
    <3> SUFFICES ASSUME port[g].mode = "bridge" PROVE FALSE
      OBVIOUS
    <3>1. rt.back = "freedev" /\ g = rt.real /\ g \in Reals
      BY <1>0, <1>1, <1>n, <2>2, CallFacts DEF BridgeOK, Work
    <3>2. Leading(g) \subseteq rt.es
      BY <1>0, <1>n, <3>1, CallFacts DEF BridgeOK, Work
    <3>3. rt.es = {}
      BY <1>0, <3>1 DEF Inv, StructInv, RtOK, Early
    <3>4. Leading(g) = {}
      BY <3>2, <3>3
    <3>5. port[g].nr = 0
      BY <3>1, <3>4, FS_EmptySet DEF Inv, StructInv, NrOK
    <3> QED
      BY <1>1, <3>5
  <2>4. \A q \in Reals : port[q].bridge_ep # g
    BY <1>0, <1>n, <2>2, CallFacts
  <2>5. /\ rt'.pc = rt.back /\ rt'.pc \in {"idle", "freedev"}
        /\ rt'.pc = "freedev" => rt'.real = g
    <3>1. CASE rt.back = "idle"
      BY <2>1, <3>1, NoWorkFacts DEF Goto
    <3>2. CASE rt.back = "freedev"
      BY <1>0, <1>n, <2>1, <3>2, CallFacts, GotoFacts DEF Steps
    <3> QED
      BY <1>0, <2>2, <3>1, <3>2, CallFacts
  <2>6. ~Starting' /\ ~Slaving' /\ ~Parting' /\ ~Called'
    BY <2>5 DEF Starting, Slaving, Parting, Called, Calling
  <2>7. \A q \in Reals : ~Leaving(q)' /\ ~Used(q)'
    BY <2>5, <2>6 DEF Leaving, Used
  <2>8. \A q \in Reals : q # g => ~Leaving(q) /\ ~Used(q)
    BY <1>0, <1>n, <2>2, CallFacts DEF Leaving, Used
  <2>9. ASSUME NEW q \in Reals PROVE Ends!(q)'
    <3>1. Paired(q) => Paired(q)'
      BY <2>1 DEF Paired
    <3> QED
      BY <1>1, <2>1, <2>3, <2>7, <2>8, <3>1, EndFacts
  <2>10. Work'
    BY <2>1, <2>3, <2>5, <2>6 DEF Work
  <2> QED
    BY <1>0, <2>9, <2>10, NullAssumption DEF BridgeOK, Ends
<1>2. CASE port[g].nr = 0
  <2>1. Goto("dying") /\ port' = [port EXCEPT ![g].st = "dying"]
    BY <1>2, <1>n DEF UnregisterRealDevice
  <2>2. g \in Reals /\ rt \in RtRec /\ port \in [Reals -> PortRec]
    BY <1>0, <1>n, CallFacts
  <2>3. /\ rt'.pc = "dying" /\ rt'.real = rt.real /\ rt'.gone = g
        /\ rt'.back = rt.back /\ rt'.es = rt.es
    BY <1>n, <2>1, <2>2, GotoFacts DEF Steps
  <2>4. /\ Starting' <=> Starting
        /\ Slaving' <=> Slaving
        /\ Parting' <=> Parting
        /\ Called' <=> Called
    BY <1>0, <2>3 DEF Starting, Slaving, Parting, Called, Calling
  <2>5. \A q \in Reals : (Leaving(q)' <=> Leaving(q)) /\ (Used(q)' <=> Used(q))
    BY <1>0, <1>n, <2>3, <2>4 DEF Leaving, Used
  <2>6. /\ \A q \in Reals : q # g => SameEnd(q)
        /\ port'[g].mode = port[g].mode /\ port'[g].st = "dying"
        /\ port'[g].bridge_ep = port[g].bridge_ep /\ port'[g].nr = port[g].nr
    BY <2>1, <2>2 DEF SameEnd, PortRec
  <2>7. ASSUME NEW q \in Reals, ~Leaving(q) PROVE port[q].bridge_ep # g
    <3> SUFFICES ASSUME port[q].bridge_ep = g PROVE FALSE
      OBVIOUS
    <3>1. rt.back = "detach" /\ q = rt.real
      BY <1>0, <1>n, CallFacts
    <3> QED
      BY <1>0, <2>7, <3>1, CallFacts DEF Leaving
  <2>8. ASSUME NEW q \in Reals PROVE Ends!(q)'
    <3>1. /\ port'[q].mode = port[q].mode /\ port'[q].nr = port[q].nr
          /\ \A p \in Reals : port'[p].bridge_ep = port[p].bridge_ep
          /\ port'[q].st = "live" => port[q].st = "live"
      BY <2>6 DEF SameEnd
    <3>2. Paired(q) /\ ~Leaving(q) => Paired(q)'
      BY <2>6, <2>7, <3>1 DEF Paired, SameEnd
    <3>3. Slaving => rt'.real = rt.real /\ rt'.gone = rt.gone
      BY <1>n, <2>3
    <3> QED
      BY <2>4, <2>5, <3>1, <3>2, <3>3, EndFacts
  <2>9. Leading(r)' = Leading(r)
    BY <1>0 DEF Leading
  <2>10. Work'
    <3>1. \A q \in Reals : /\ port'[q].mode = port[q].mode
                           /\ port'[q].bridge_ep = port[q].bridge_ep
                           /\ port'[q].nr = port[q].nr
      BY <2>6 DEF SameEnd
    <3> QED
      BY <1>0, <1>n, <2>2, <2>3, <2>4, <2>9, <3>1, StageReals DEF Work, BridgeOK
  <2> QED
    BY <1>0, <2>8, <2>10, NullAssumption DEF BridgeOK, Ends
<1> QED
  BY <1>1, <1>2

LEMMA FreePortBridge ==
    ASSUME TypeOK, Inv, BridgeOK, crash = NULL, FreePort
    PROVE  BridgeOK'
<1>0. /\ rt.pc = "freeport" /\ Calling /\ UNCHANGED ep
      /\ crash' \in {NULL, "half"}
  BY DEF FreePort, At, Calling
<1>n. PICK g, r : g = rt.gone /\ r = rt.real
  OBVIOUS
<1>1. Goto(rt.back) /\ port' = [port EXCEPT ![g] = NoPort]
  BY <1>n DEF FreePort
<1>2. g \in Reals /\ rt \in RtRec /\ port \in [Reals -> PortRec]
  BY <1>0, <1>n, CallFacts
<1>3. /\ \A q \in Reals : q # g => SameEnd(q)
      /\ port'[g].st = "none" /\ port'[g].mode = "none"
      /\ port'[g].bridge_ep = NULL
  BY <1>1, <1>2 DEF SameEnd, NoPort
<1>4. /\ rt'.pc = rt.back /\ rt'.pc \in {"idle", "detach", "freedev"}
      /\ rt'.pc # "idle" => rt'.real = r /\ rt'.es = rt.es
      /\ rt'.pc = "freedev" => rt'.real = g
  <2>1. CASE rt.back = "idle"
    BY <1>1, <2>1, NoWorkFacts DEF Goto
  <2>2. CASE rt.back \in {"detach", "freedev"}
    BY <1>0, <1>1, <1>n, <2>2, CallFacts, GotoFacts DEF Steps
  <2> QED
    BY <1>0, <2>1, <2>2, CallFacts
<1>5. /\ ~Starting' /\ ~Slaving' /\ ~Called'
      /\ Parting' <=> rt.back = "detach"
  BY <1>4 DEF Starting, Slaving, Parting, Called, Calling
<1>6. ASSUME NEW q \in Reals
      PROVE  /\ Leaving(q)' <=> rt.back = "detach" /\ q = r
             /\ Used(q)' <=> rt.back = "detach" /\ q = r
  BY <1>4, <1>5 DEF Leaving, Used
<1>7. ASSUME NEW q \in Reals
      PROVE  /\ q # g => (Leaving(q) <=> rt.back = "detach" /\ q = r)
             /\ q # g => (Used(q) <=> rt.back = "detach" /\ q = r)
             /\ port[q].bridge_ep = g => rt.back = "detach" /\ q = r
             /\ rt.back = "detach" => (port[q].bridge_ep = r <=> q = g)
             /\ rt.back = "detach" => r \in Reals /\ g # r
  BY <1>0, <1>n, CallFacts DEF Leaving, Used
<1>8. ASSUME NEW q \in Reals PROVE Ends!(q)'
  <2>1. CASE q = g
    <3>1. \A p \in Reals : Leaving(q)' => FALSE
      BY <1>6, <1>7, <2>1
    <3> QED
      BY <1>3, <2>1, <3>1
  <2>2. CASE q # g
    <3>1. SameEnd(q)
      BY <1>3, <2>2
    <3>2. Paired(q) /\ ~Leaving(q) => Paired(q)'
      BY <1>3, <1>7, <2>2, <3>1 DEF Paired, SameEnd
    <3>3. ASSUME NEW p \in Reals, Leaving(q)' PROVE port'[p].bridge_ep # q
      <4>1. rt.back = "detach" /\ q = r
        BY <1>6, <3>3
      <4>2. p # g => port[p].bridge_ep # q
        BY <1>7, <4>1
      <4> QED
        BY <1>3, <4>2, NullAssumption DEF SameEnd
    <3> QED
      BY <1>6, <1>7, <2>2, <3>1, <3>2, <3>3, EndFacts DEF SameEnd
  <2> QED
    BY <2>1, <2>2
<1>9. Leading(r)' = Leading(r)
  BY <1>0 DEF Leading
<1>10. rt.back = "detach" /\ port'[r].mode = "bridge" => Leading(r) \subseteq rt.es
  <2>1. rt.back = "detach" => SameEnd(r) /\ Slaving
    BY <1>0, <1>3, <1>7, CallFacts
  <2> QED
    BY <1>n, <2>1 DEF BridgeOK, Work, SameEnd
<1>11. Work'
  BY <1>3, <1>4, <1>5, <1>9, <1>10 DEF Work
<1> QED
  BY <1>0, <1>8, <1>11, NullAssumption DEF BridgeOK, Ends

\* Between operations every bridge has both ends
LEMMA IdleBridge ==
    ASSUME TypeOK, Inv, BridgeOK, Idle
    PROVE  /\ ~Starting /\ ~Slaving /\ ~Parting /\ ~Called
           /\ \A q \in Reals : ~Leaving(q) /\ ~Used(q)
           /\ \A q \in Reals : port[q].mode = "bridge" => Paired(q)
<1>1. rt.pc = "idle"
  BY IdleFacts
<1>2. ~Starting /\ ~Slaving /\ ~Parting /\ ~Called
  BY <1>1 DEF Starting, Slaving, Parting, Called, Calling
<1>3. \A q \in Reals : ~Leaving(q) /\ ~Used(q)
  BY <1>1, <1>2 DEF Leaving, Used
<1> QED
  BY <1>2, <1>3, EndFacts

\* A device is counted
LEMMA CountedDevice ==
    ASSUME TypeOK, Inv, Idle, NEW v \in Vnds, vnd[v].st = "reg"
    PROVE  /\ vnd[v].real \in Reals /\ port[vnd[v].real].nr # 0
           /\ GetEndpoint(vnd[v].real, vnd[v].mux) \in Leading(vnd[v].real)
<1>n. PICK r, e : r = vnd[v].real /\ e = GetEndpoint(r, vnd[v].mux)
  OBVIOUS
<1>1. r \in Reals /\ e \in Eps /\ ep[e].egress_dev = v /\ ep[e].real = r
  BY <1>n, DeviceEp
<1>2. e \in Leading(r)
  BY <1>1, NullAssumption DEF Leading
<1>3. port[r].nr # 0
  BY <1>1, <1>2, NoneLead, NullAssumption DEF Inv, StructInv
<1> QED
  BY <1>1, <1>2, <1>3, <1>n

LEMMA CardOne ==
    ASSUME NEW S, IsFiniteSet(S), Cardinality(S) = 1, NEW e \in S
    PROVE  S = {e}
<1>1. PICK x : S = {x}
  BY FS_Singleton
<1> QED
  BY <1>1

\* An operation begins: nothing leaves yet
LEMMA StartBridge ==
    ASSUME TypeOK, Inv, BridgeOK, Idle, \A q \in Reals : SameEnd(q),
           rt'.pc \in {"qmi_exit", "bridge"}, rt'.real \in Reals,
           port[rt'.real].mode = "bridge" => (Leading(rt.real) \subseteq rt.es)',
           crash' # "port"
    PROVE  BridgeOK'
<1>1. Starting' /\ ~Slaving' /\ ~Parting' /\ ~Called'
  BY DEF Starting, Slaving, Parting, Called, Calling
<1>2. \A q \in Reals : ~Leaving(q)'
  BY <1>1 DEF Leaving
<1>3. ASSUME NEW q \in Reals PROVE Ends!(q)'
  <2>1. SameEnd(q) /\ ~Leaving(q) /\ ~Used(q)
    BY IdleBridge
  <2>2. Paired(q) => Paired(q)'
    BY SamePaired
  <2> QED
    BY <1>2, <2>1, <2>2, EndFacts DEF SameEnd
<1>4. SameEnd(rt'.real)
  OBVIOUS
<1>5. Work'
  BY <1>1, <1>4 DEF Work, SameEnd
<1> QED
  BY <1>3, <1>5 DEF BridgeOK, Ends

LEMMA DellinkBridge ==
    ASSUME TypeOK, Inv, BridgeOK, crash = NULL, NEW v \in Vnds, Dellink(v)
    PROVE  BridgeOK'
<1>n. PICK r, e : r = vnd[v].real /\ e = GetEndpoint(r, vnd[v].mux)
  OBVIOUS
<1>0. /\ Idle /\ vnd[v].st = "reg" /\ UNCHANGED <<ep, crash>>
      /\ port \in [Reals -> PortRec]
  BY Types DEF Dellink
<1>1. /\ r \in Reals /\ port[r].nr # 0 /\ e \in Leading(r) /\ e # NULL
  BY <1>0, <1>n, CountedDevice, NullAssumption DEF Leading
<1>2. /\ port' = [port EXCEPT ![r].eps = Unlisted(@, e)]
      /\ rt' = [NoWork EXCEPT !.op = "dellink", !.real = r, !.vs = {v},
                              !.pc = "bridge", !.es = {e}]
  BY <1>1, <1>n DEF Dellink, NoWork
<1>3. rt'.pc = "bridge" /\ rt'.real = r /\ rt'.es = {e}
  BY <1>2 DEF NoWork
<1>4. \A q \in Reals : SameEnd(q)
  BY <1>0, <1>1, <1>2 DEF SameEnd, PortRec
<1>5. port[r].mode = "bridge" => Leading(r) = {e}
  <2> SUFFICES ASSUME port[r].mode = "bridge" PROVE Leading(r) = {e}
    OBVIOUS
  <2>1. Paired(r)
    BY <1>0, <1>1, IdleBridge
  <2>2. Cardinality(Leading(r)) = 1
    BY <1>1, <2>1 DEF Paired, Inv, StructInv, NrOK
  <2>3. IsFiniteSet(Leading(r))
    BY PortAssumption, FS_Subset DEF Leading
  <2> QED
    BY <1>1, <2>2, <2>3, CardOne
<1>6. Leading(r)' = Leading(r)
  BY <1>0 DEF Leading
<1> QED
  BY <1>0, <1>1, <1>3, <1>4, <1>5, <1>6, StartBridge, NullAssumption

LEMMA ForceBridge ==
    ASSUME TypeOK, Inv, BridgeOK, crash = NULL, NEW r \in Reals,
           ForceUnassociate(r)
    PROVE  BridgeOK'
<1>0. Idle /\ UNCHANGED <<port, ep, crash>>
  BY DEF ForceUnassociate
<1>1. rt'.pc = "qmi_exit" /\ rt'.real = r /\ rt'.es = EpsOf(r)
  BY DEF ForceUnassociate, NoWork
<1>2. ASSUME NEW e \in Leading(r) PROVE e \in EpsOf(r)
  <2>1. /\ e \in Eps /\ ep[e].mux \in Muxes /\ rt.es = {}
        /\ port[r].eps[ep[e].mux] = <<e>>
    <3>1. e \in Eps /\ ep[e].egress_dev # NULL /\ ep[e].real = r /\ rt.es = {}
      BY <1>0, <1>2, IdleFacts DEF Leading
    <3>2. EpOK!1!(e)
      BY <3>1 DEF Inv, StructInv, EpOK
    <3> QED
      BY <3>1, <3>2
  <2>2. 1 \in Places(<<e>>, e)
    BY DEF Places
  <2> QED
    BY <2>1, <2>2 DEF EpsOf
<1>3. Leading(r)' = Leading(r)
  BY <1>0 DEF Leading
<1> QED
  BY <1>0, <1>1, <1>2, <1>3, SameEnds, StartBridge, NullAssumption

LEMMA NewlinkBridge ==
    ASSUME TypeOK, Inv, BridgeOK, crash = NULL, NEW r \in Reals, NEW v \in Vnds,
           NEW m \in Muxes, NEW got \in Outcomes, Newlink(r, v, m, got),
           ~mixed', ~nomem'
    PROVE  BridgeOK'
<1>0. /\ Idle /\ mixed' = (mixed \/ InBridge(r)) /\ port \in [Reals -> PortRec]
  BY Types DEF Newlink
<1>1. got = "all" /\ crash' = crash
  BY DEF Newlink, RegisterRealDevice
<1>2. rt'.pc = "newlink" /\ rt'.real = r
  BY <1>1 DEF Newlink, NoWork
<1>3. /\ \A q \in Reals : q # r => SameEnd(q)
      /\ \/ SameEnd(r)
         \/ /\ port'[r].st = "live" /\ port'[r].mode = "none"
            /\ port'[r].bridge_ep = NULL
  <2>1. CASE UNCHANGED port
    BY <2>1 DEF SameEnd
  <2>2. CASE RegisterRealDevice(r, got)
    <3>1. port' = [port EXCEPT ![r] =
                      [NoPort EXCEPT !.st = "live", !.built = (got = "all")]]
      BY <2>2 DEF RegisterRealDevice
    <3> QED
      BY <1>0, <3>1 DEF SameEnd, NoPort
  <2> QED
    BY <2>1, <2>2 DEF Newlink
<1>4. port[r].mode # "bridge" /\ \A q \in Reals : port[q].bridge_ep # r
  <2>1. ~InBridge(r)
    BY <1>0
  <2> QED
    BY <2>1 DEF InBridge
<1>5. port'[r].mode # "bridge" /\ port'[r].bridge_ep = NULL
  BY <1>3, <1>4, EndFacts DEF SameEnd
<1>6. ~Starting' /\ ~Slaving' /\ ~Parting' /\ ~Called'
  BY <1>2 DEF Starting, Slaving, Parting, Called, Calling
<1>7. \A q \in Reals : ~Leaving(q)' /\ (Used(q)' <=> q = r)
  BY <1>2, <1>6 DEF Leaving, Used
<1>8. ASSUME NEW q \in Reals PROVE Ends!(q)'
  <2>1. CASE q = r
    BY <1>5, <1>7, <2>1
  <2>2. CASE q # r
    <3>1. SameEnd(q) /\ ~Leaving(q) /\ ~Used(q) /\ port[q].bridge_ep # r
      BY <1>0, <1>3, <1>4, <2>2, IdleBridge
    <3>2. Paired(q) => Paired(q)'
      BY <1>3, <3>1 DEF Paired, SameEnd
    <3> QED
      BY <1>7, <3>1, <3>2, EndFacts DEF SameEnd
  <2> QED
    BY <2>1, <2>2
<1>9. \A q \in Reals : port'[q].bridge_ep # r
  BY <1>3, <1>4, <1>5, NullAssumption DEF SameEnd
<1>10. Work'
  BY <1>2, <1>5, <1>6, <1>9 DEF Work
<1> QED
  BY <1>1, <1>8, <1>10, NullAssumption DEF BridgeOK, Ends

LEMMA NewlinkRestBridge ==
    ASSUME TypeOK, Inv, BridgeOK, crash = NULL, NEW ok \in BOOLEAN,
           NewlinkRest(ok)
    PROVE  BridgeOK'
<1>n. PICK r, m : r = rt.real /\ m = rt.mux
  OBVIOUS
<1>0. /\ rt.pc = "newlink" /\ r \in Reals /\ m \in Muxes /\ UNCHANGED crash
      /\ port \in [Reals -> PortRec]
  BY <1>n, Types DEF NewlinkRest, At, Inv, StructInv, RtOK
<1>1. ~Starting /\ ~Slaving /\ ~Parting /\ ~Called
  BY <1>0 DEF Starting, Slaving, Parting, Called, Calling
<1>2. \A q \in Reals : ~Leaving(q) /\ (Used(q) <=> q = r)
  BY <1>0, <1>1, <1>n DEF Leaving, Used
<1>3. port[r].mode # "bridge" /\ \A q \in Reals : port[q].bridge_ep # r
  BY <1>0, <1>n DEF BridgeOK, Work
<1>4. CASE GetEndpoint(r, m) # NULL \/ ~ok
  <2>1. rt' = Unreal(NoWork, r, "idle") /\ UNCHANGED port
    BY <1>4, <1>n DEF NewlinkRest
  <2>2. rt'.pc = "unreal" /\ rt'.gone = r /\ rt'.back = "idle"
    BY <1>0, <2>1, NoWorkFacts, UnrealFacts DEF Steps
  <2>3. ~Starting' /\ ~Slaving' /\ ~Parting' /\ Called'
    BY <2>2 DEF Starting, Slaving, Parting, Called, Calling
  <2>4. \A q \in Reals : (Leaving(q)' <=> q = r) /\ (Used(q)' <=> q = r)
    BY <2>2, <2>3 DEF Leaving, Used
  <2>5. ASSUME NEW q \in Reals PROVE Ends!(q)'
    <3>1. Paired(q) => Paired(q)'
      BY <2>1 DEF Paired
    <3> QED
      BY <1>2, <1>3, <2>1, <2>4, <3>1, EndFacts
  <2>6. Work'
    BY <1>3, <2>1, <2>2, <2>3 DEF Work
  <2> QED
    BY <1>0, <2>5, <2>6, NullAssumption DEF BridgeOK, Ends
<1>5. CASE ~(GetEndpoint(r, m) # NULL \/ ~ok)
  <2>1. PICK e \in Eps :
           port' = [port EXCEPT ![r] =
                       [@ EXCEPT !.nr = port[r].nr + 1, !.mode = "vnd",
                                 !.eps = Listed(port[r].eps, e, m)]]
    BY <1>5, <1>n DEF NewlinkRest
  <2>2. rt' = NoWork
    BY <1>5, <1>n DEF NewlinkRest, Goto
  <2>3. rt'.pc = "idle"
    BY <2>2, NoWorkFacts
  <2>4. PICK z : z = [port[r] EXCEPT !.nr = port[r].nr + 1, !.mode = "vnd",
                                     !.eps = Listed(port[r].eps, e, m)]
    OBVIOUS
  <2>5. port' = [port EXCEPT ![r] = z]
    BY <2>1, <2>4
  <2>6. port[r] \in PortRec /\ port[r].nr \in Nat
    BY <1>0 DEF PortRec
  <2>7. z.mode = "vnd" /\ z.bridge_ep = port[r].bridge_ep /\ z.nr = port[r].nr + 1
    BY <2>4, <2>6 DEF PortRec
  <2>8. /\ \A q \in Reals : q # r => SameEnd(q)
        /\ port'[r].mode = "vnd" /\ port'[r].bridge_ep = NULL /\ port'[r].nr # 0
    <3>1. port[r].bridge_ep = NULL
      BY <1>0, <1>3, EndFacts
    <3> QED
      BY <1>0, <2>5, <2>6, <2>7, <3>1 DEF SameEnd
  <2>9. ~Starting' /\ ~Slaving' /\ ~Parting' /\ ~Called'
    BY <2>3 DEF Starting, Slaving, Parting, Called, Calling
  <2>10. \A q \in Reals : ~Leaving(q)' /\ ~Used(q)'
    BY <2>3, <2>9 DEF Leaving, Used
  <2>11. ASSUME NEW q \in Reals PROVE Ends!(q)'
    <3>1. CASE q = r
      BY <2>8, <2>10, <3>1
    <3>2. CASE q # r
      <4>1. SameEnd(q) /\ port[q].bridge_ep # r
        BY <1>3, <2>8, <3>2
      <4>2. Paired(q) => Paired(q)'
        BY <2>8, <4>1 DEF Paired, SameEnd
      <4> QED
        BY <1>2, <2>10, <3>2, <4>1, <4>2, EndFacts DEF SameEnd
    <3> QED
      BY <3>1, <3>2
  <2>12. Work'
    BY <2>3, <2>9 DEF Work
  <2> QED
    BY <1>0, <2>11, <2>12, NullAssumption DEF BridgeOK, Ends
<1> QED
  BY <1>4, <1>5

LEMMA AddBridgeBridge ==
    ASSUME TypeOK, Inv, BridgeOK, crash = NULL, NEW v \in Vnds, NEW s \in Reals,
           NEW got \in Outcomes, AddBridge(v, s, got), ~mixed', ~nomem'
    PROVE  BridgeOK'
<1>n. PICK r : r = vnd[v].real
  OBVIOUS
<1>0. /\ Idle /\ vnd[v].st = "reg" /\ port[r].st = "live" /\ port[r].nr <= 1
      /\ port[s].st = "none" /\ UNCHANGED <<ep, rt>>
      /\ mixed' = (mixed \/ InBridge(r) \/ InBridge(s))
      /\ port \in [Reals -> PortRec]
  BY <1>n, Types DEF AddBridge
<1>1. r \in Reals /\ port[r].nr = 1 /\ r # s
  <2>1. r \in Reals /\ port[r].nr # 0 /\ r # s
    BY <1>0, <1>n, CountedDevice
  <2> QED
    BY <1>0, <2>1 DEF PortRec
<1>2. got = "all"
  BY DEF AddBridge, RegisterRealDevice
<1>3. PICK slave : slave = [NoPort EXCEPT !.st = "live", !.built = TRUE,
                                          !.mode = "bridge", !.bridge_ep = r]
  OBVIOUS
<1>4. /\ port' = [port EXCEPT ![s] = slave, ![r].mode = "bridge",
                              ![r].bridge_ep = s]
      /\ UNCHANGED crash
  BY <1>2, <1>3, <1>n DEF AddBridge
<1>5. slave.st = "live" /\ slave.mode = "bridge" /\ slave.bridge_ep = r /\ slave.nr = 0
  BY <1>3 DEF NoPort
<1>6. /\ \A q \in Reals : q # r /\ q # s => SameEnd(q)
      /\ port'[s] = slave
      /\ port'[r].st = "live" /\ port'[r].mode = "bridge"
      /\ port'[r].bridge_ep = s /\ port'[r].nr = 1
  BY <1>0, <1>1, <1>4 DEF SameEnd, PortRec
<1>7. \A q \in Reals : port[q].bridge_ep # r /\ port[q].bridge_ep # s
  <2>1. ~InBridge(r) /\ ~InBridge(s)
    BY <1>0
  <2> QED
    BY <2>1 DEF InBridge
<1>8. /\ ~Starting' /\ ~Slaving' /\ ~Parting' /\ ~Called'
      /\ \A q \in Reals : ~Leaving(q)' /\ ~Used(q)'
      /\ rt'.pc = "idle"
  <2>1. rt'.pc = "idle"
    BY <1>0, IdleFacts
  <2>2. ~Starting' /\ ~Slaving' /\ ~Parting' /\ ~Called'
    BY <2>1 DEF Starting, Slaving, Parting, Called, Calling
  <2> QED
    BY <2>1, <2>2 DEF Leaving, Used
<1>9. Paired(r)' /\ Paired(s)'
  BY <1>1, <1>5, <1>6 DEF Paired
<1>10. ASSUME NEW q \in Reals PROVE Ends!(q)'
  <2>1. CASE q = r \/ q = s
    BY <1>1, <1>5, <1>6, <1>8, <1>9, <2>1, NullAssumption
  <2>2. CASE q # r /\ q # s
    <3>1. SameEnd(q) /\ ~Leaving(q) /\ ~Used(q)
      BY <1>0, <1>6, <2>2, IdleBridge
    <3>2. Paired(q) => Paired(q)'
      BY <1>6, <1>7, <3>1 DEF Paired, SameEnd
    <3> QED
      BY <1>8, <3>1, <3>2, EndFacts DEF SameEnd
  <2> QED
    BY <2>1, <2>2
<1>11. Work'
  BY <1>8 DEF Work
<1> QED
  BY <1>4, <1>10, <1>11, NullAssumption DEF BridgeOK, Ends

LEMMA DelBridgeBridge ==
    ASSUME TypeOK, Inv, BridgeOK, crash = NULL, NEW v \in Vnds, NEW s \in Reals,
           DelBridge(v, s)
    PROVE  BridgeOK'
<1>n. PICK r : r = vnd[v].real
  OBVIOUS
<1>0. /\ Idle /\ vnd[v].st = "reg" /\ port[r].st = "live"
      /\ port[r].mode = "bridge" /\ port[r].bridge_ep = s
      /\ port \in [Reals -> PortRec] /\ UNCHANGED ep
  BY <1>n, Types DEF DelBridge
<1>1. r \in Reals /\ port[r].nr # 0
  BY <1>0, <1>n, CountedDevice
<1>2. /\ port[s].st = "live" /\ port[s].mode = "bridge" /\ port[s].bridge_ep = r
      /\ port[s].nr = 0 /\ s # r
  <2>1. Paired(r)
    BY <1>0, <1>1, IdleBridge
  <2> QED
    BY <1>0, <1>1, <2>1 DEF Paired
<1>3. /\ port' = [port EXCEPT ![r].mode = "vnd", ![r].bridge_ep = NULL]
      /\ rt' = Unreal(NoWork, s, "idle") /\ UNCHANGED crash
  BY <1>2, <1>n DEF DelBridge
<1>4. rt'.pc = "unreal" /\ rt'.gone = s /\ rt'.back = "idle"
  BY <1>3, NoWorkFacts, UnrealFacts DEF Steps
<1>5. /\ \A q \in Reals : q # r => SameEnd(q)
      /\ port'[r].mode = "vnd" /\ port'[r].bridge_ep = NULL
      /\ port'[r].nr = port[r].nr
  BY <1>0, <1>1, <1>3 DEF SameEnd, PortRec
<1>6. ~Starting' /\ ~Slaving' /\ ~Parting' /\ Called'
  BY <1>4 DEF Starting, Slaving, Parting, Called, Calling
<1>7. \A q \in Reals : (Leaving(q)' <=> q = s) /\ (Used(q)' <=> q = s)
  BY <1>4, <1>6 DEF Leaving, Used
<1>8. ASSUME NEW q \in Reals
      PROVE  /\ ~Leaving(q) /\ ~Used(q)
             /\ port[q].bridge_ep = r => q = s
             /\ port[q].bridge_ep = s => q = r
  BY <1>0, <1>1, <1>2, IdleBridge, OneBridge
<1>9. ASSUME NEW q \in Reals PROVE Ends!(q)'
  <2>1. \A p \in Reals : port'[p].bridge_ep # s
    BY <1>5, <1>8, NullAssumption DEF SameEnd
  <2>2. CASE q = r
    BY <1>1, <1>2, <1>5, <1>7, <2>2
  <2>3. CASE q = s
    BY <1>2, <1>5, <1>7, <2>1, <2>3, <1>8, EndFacts DEF SameEnd
  <2>4. CASE q # r /\ q # s
    <3>1. SameEnd(q) /\ port[q].bridge_ep # r
      BY <1>5, <1>8, <2>4
    <3>2. Paired(q) => Paired(q)'
      BY <1>5, <3>1 DEF Paired, SameEnd
    <3> QED
      BY <1>7, <1>8, <2>4, <3>1, <3>2, EndFacts DEF SameEnd
  <2> QED
    BY <2>2, <2>3, <2>4
<1>10. Work'
  <2>1. port'[s].nr = 0
    BY <1>2, <1>5 DEF SameEnd
  <2> QED
    BY <1>4, <1>6, <2>1 DEF Work
<1> QED
  BY <1>3, <1>9, <1>10, NullAssumption DEF BridgeOK, Ends

\* Steps that bridges do not notice
LEMMA ReadingBridge ==
    ASSUME TypeOK, Inv, BridgeOK, crash = NULL, NEW k \in Readers, Reading(k)
    PROVE  BridgeOK'
<1>1. UNCHANGED <<port, ep, rt>> /\ crash' \in {NULL, "egress"}
  BY DEF Reading, Enter, EnterEgress, Lookup, ReadEgressDev, GetQosPt,
         WatchdogAdd, Leave, Reads
<1> QED
  BY <1>1, SameEnds, QuietBridge, NullAssumption

LEMMA DeviceBridge ==
    ASSUME TypeOK, Inv, BridgeOK, crash = NULL,
           CloseDevice \/ VndUninit \/ \E v \in Vnds : WatchdogFn(v)
    PROVE  BridgeOK'
<1>1. UNCHANGED <<port, ep, rt, crash>>
  BY DEF CloseDevice, VndUninit, WatchdogFn
<1> QED
  BY <1>1, SameEnds, QuietBridge, NullAssumption

LEMMA MarkerBridge ==
    ASSUME TypeOK, Inv, BridgeOK, crash = NULL, DlMarkers
    PROVE  BridgeOK'
<1>1. PICK r \in Reals, c \in Clients : DlIndRegister(r, c) \/ DlIndDeregister(r, c)
  BY DEF DlMarkers
<1>2. UNCHANGED <<ep, rt>> /\ crash' \in {NULL, "half"}
  BY <1>1 DEF DlIndRegister, DlIndDeregister
<1>3. port' = port \/ \E l : port' = [port EXCEPT ![r].dl = l]
  <2>1. CASE DlIndRegister(r, c)
    BY <2>1 DEF DlIndRegister
  <2>2. CASE DlIndDeregister(r, c)
    BY <2>2 DEF DlIndDeregister
  <2> QED
    BY <1>1, <2>1, <2>2
<1>4. \A q \in Reals : SameEnd(q)
  BY <1>3, Types DEF SameEnd, PortRec
<1> QED
  BY <1>2, <1>4, QuietBridge, NullAssumption

LEMMA SetupBridge ==
    ASSUME TypeOK, Inv, BridgeOK, crash = NULL, NEW v \in Vnds, ClientSetup(v)
    PROVE  BridgeOK'
<1>1. /\ UNCHANGED <<ep, rt, crash>>
      /\ port' = [port EXCEPT ![vnd[v].real].qmi = TRUE]
  BY DEF ClientSetup
<1>2. \A q \in Reals : SameEnd(q)
  BY <1>1, Types DEF SameEnd, PortRec
<1> QED
  BY <1>1, <1>2, QuietBridge, NullAssumption

LEMMA ChangelinkBridge ==
    ASSUME TypeOK, Inv, BridgeOK, crash = NULL, NEW v \in Vnds, NEW r \in Reals,
           NEW m \in Muxes, Changelink(v, r, m)
    PROVE  BridgeOK'
<1>1. PICK e, l : /\ port' = [port EXCEPT ![r].eps = l]
                  /\ ep' = [ep EXCEPT ![e].mux = m]
                  /\ UNCHANGED <<rt, crash>>
  BY DEF Changelink
<1>2. \A q \in Reals : SameEnd(q)
  BY <1>1, Types DEF SameEnd, PortRec
<1>3. \A f \in Eps : /\ ep'[f].egress_dev = ep[f].egress_dev
                     /\ ep'[f].real = ep[f].real
  BY <1>1, Types DEF EpRec
<1> QED
  BY <1>1, <1>2, <1>3, QuietBridge, NullAssumption

LEMMA BridgeInit == Init => BridgeOK
<1> SUFFICES ASSUME Init PROVE BridgeOK
  OBVIOUS
<1>1. rt.pc = "idle" /\ crash = NULL
  BY NoWorkFacts DEF Init
<1>2. ~Starting /\ ~Slaving /\ ~Parting /\ ~Called
  BY <1>1 DEF Starting, Slaving, Parting, Called, Calling
<1>3. \A r \in Reals : port[r].mode = "none" /\ port[r].bridge_ep = NULL
                       /\ port[r].st = "none"
  BY DEF Init, NoPort
<1>4. \A r \in Reals : ~Leaving(r)
  BY <1>1, <1>2 DEF Leaving
<1>5. Ends
  BY <1>3, <1>4 DEF Ends
<1>6. Work
  BY <1>1, <1>2 DEF Work
<1> QED
  BY <1>1, <1>5, <1>6, NullAssumption DEF BridgeOK

\* Every step keeps both ends of bridges
LEMMA BridgeNext ==
    ASSUME TypeOK, Inv, BridgeOK, Going, ~mixed', ~nomem',
           \/ Rtnl \/ Working \/ (\E k \in Readers : Reading(k))
           \/ (\E v \in Vnds : WatchdogFn(v)) \/ DlMarkers
    PROVE  BridgeOK'
<1>0. crash = NULL
  BY DEF Going
<1>1. CASE Rtnl
  <2>1. CASE \E v \in Vnds, r \in Reals, m \in Muxes : Changelink(v, r, m)
    BY <1>0, <2>1, ChangelinkBridge
  <2>2. CASE \E r \in Reals, v \in Vnds, m \in Muxes, got \in Outcomes :
                Newlink(r, v, m, got)
    BY <1>0, <2>2, NewlinkBridge
  <2>3. CASE \E v \in Vnds, s \in Reals, got \in Outcomes : AddBridge(v, s, got)
    BY <1>0, <2>3, AddBridgeBridge
  <2> QED
    BY <1>0, <1>1, <2>1, <2>2, <2>3, DellinkBridge, SetupBridge, ForceBridge,
       DelBridgeBridge DEF Rtnl
<1>2. CASE Working
  BY <1>0, <1>2, NewlinkRestBridge, SyncBridge, GraceBridge, UnrealBridge,
     FreePortBridge, UnregisterBridgeBridge, VndDellinkBridge, UnlistBridge,
     FreeEndpointBridge, QmiExitBridge, DeviceBridge, ExitPostBridge,
     FreeDeviceBridge DEF Working
<1> QED
  BY <1>0, <1>1, <1>2, ReadingBridge, DeviceBridge, MarkerBridge

\* The endpoints of an operation stay its own until they are freed
LEMMA DeadFrame ==
    ASSUME DeadOK, rt.es \subseteq rt'.es,
           \A e \in Eps : ep'[e].st = "dead" => ep[e].st = "dead" \/ e \in rt'.es
    PROVE  DeadOK'
BY DEF DeadOK

LEMMA DeadRtnl ==
    ASSUME TypeOK, Inv, DeadOK, Rtnl
    PROVE  DeadOK'
<1>1. Idle
  BY DEF Rtnl, Newlink, Dellink, ClientSetup, ForceUnassociate, Changelink,
         AddBridge, DelBridge
<1>2. rt.es = {}
  BY <1>1, IdleFacts
<1>3. \A e \in Eps : ep'[e].st = ep[e].st
  <2>1. CASE UNCHANGED ep
    BY <2>1
  <2>2. CASE \E v \in Vnds, r \in Reals, m \in Muxes : Changelink(v, r, m)
    <3>1. PICK e, m : ep' = [ep EXCEPT ![e].mux = m]
      BY <2>2 DEF Changelink
    <3> QED
      BY <3>1, Types DEF EpRec
  <2> QED
    BY <2>1, <2>2 DEF Rtnl, Newlink, Dellink, ClientSetup, ForceUnassociate,
       AddBridge, DelBridge
<1> QED
  BY <1>2, <1>3, DeadFrame

LEMMA DeadNewlink ==
    ASSUME TypeOK, Inv, DeadOK, NEW ok \in BOOLEAN, NewlinkRest(ok)
    PROVE  DeadOK'
<1>1. rt.es = {}
  BY DEF NewlinkRest, At, Inv, StructInv, RtOK
<1>n. PICK r, m : r = rt.real /\ m = rt.mux
  OBVIOUS
<1>2. CASE GetEndpoint(r, m) # NULL \/ ~ok
  <2>1. UNCHANGED ep
    BY <1>2, <1>n DEF NewlinkRest
  <2> QED
    BY <1>1, <2>1, DeadFrame
<1>3. CASE ~(GetEndpoint(r, m) # NULL \/ ~ok)
  <2>1. PICK v \in rt.vs, e \in {e \in Eps : ep[e].st = "none"} :
           ep' = [ep EXCEPT ![e] = [st |-> "listed", real |-> r, mux |-> m,
                                    egress_dev |-> v]]
    BY <1>3, <1>n DEF NewlinkRest
  <2>2. \A f \in Eps : ep'[f].st = "dead" => ep[f].st = "dead"
    BY <2>1, Types
  <2> QED
    BY <1>1, <2>2, DeadFrame
<1> QED
  BY <1>2, <1>3

LEMMA DeadReturn ==
    ASSUME TypeOK, Inv, DeadOK, Calling, Goto(rt.back), UNCHANGED ep
    PROVE  DeadOK'
<1>1. rt \in RtRec /\ rt.back \in Steps
  BY Types DEF RtRec
<1>2. rt.back = "idle" => rt.es = {}
  BY DEF Inv, StructInv, RtOK
<1>3. rt.back # "idle" => rt'.es = rt.es
  BY <1>1, GotoFacts
<1> QED
  BY <1>2, <1>3, DeadFrame

LEMMA DeadStep ==
    ASSUME TypeOK, Inv, DeadOK, NEW step \in Steps \ {"idle"}, Goto(step),
           UNCHANGED ep
    PROVE  DeadOK'
<1>1. rt'.es = rt.es
  BY Types, GotoFacts
<1> QED
  BY <1>1, DeadFrame

LEMMA DeadWorking ==
    ASSUME TypeOK, Inv, DeadOK, Working
    PROVE  DeadOK'
<1>0. rt \in RtRec /\ ep \in [Eps -> EpRec]
  BY Types
<1>1. CASE \E ok \in BOOLEAN : NewlinkRest(ok)
  BY <1>1, DeadNewlink
<1>2. CASE Synchronize \/ GracePeriod
  <2>1. rt'.es = rt.es /\ UNCHANGED ep
    BY <1>0, <1>2 DEF Synchronize, GracePeriod, RtRec
  <2> QED
    BY <2>1, DeadFrame
<1>3. CASE UnregisterRealDevice
  <2>1. Calling /\ UNCHANGED ep /\ (Goto(rt.back) \/ Goto("dying"))
    BY <1>3 DEF UnregisterRealDevice, At, Calling
  <2> QED
    BY <2>1, DeadReturn, DeadStep DEF Steps
<1>4. CASE FreePort
  <2>1. Calling /\ UNCHANGED ep /\ Goto(rt.back)
    BY <1>4 DEF FreePort, At, Calling
  <2> QED
    BY <2>1, DeadReturn
<1>5. CASE UnregisterBridge
  <2>1. /\ UNCHANGED ep
        /\ \/ Goto("detach") \/ UNCHANGED rt
           \/ rt' = Unreal(rt, port[rt.real].bridge_ep, "detach")
    BY <1>5 DEF UnregisterBridge
  <2>2. CASE Goto("detach")
    BY <2>1, <2>2, DeadStep DEF Steps
  <2>3. CASE ~Goto("detach")
    <3>1. rt'.es = rt.es
      BY <1>0, <2>1, <2>3 DEF Unreal, RtRec
    <3> QED
      BY <2>1, <3>1, DeadFrame
  <2> QED
    BY <2>2, <2>3
<1>6. CASE VndDellink
  <2>1. PICK e \in rt.es :
           /\ ep' = [ep EXCEPT ![e].egress_dev = NULL, ![e].st = "dead"]
           /\ rt' = IF rt.op = "dellink" THEN rt
                    ELSE [rt EXCEPT !.pc = "unlist", !.ep = e]
    BY <1>6 DEF VndDellink
  <2>2. rt'.es = rt.es /\ \A f \in Eps : f # e => ep'[f] = ep[f]
    BY <1>0, <2>1 DEF RtRec
  <2> QED
    BY <2>2, DeadFrame
<1>7. CASE Unlist
  BY <1>7, DeadStep DEF Unlist, Steps
<1>8. CASE FreeEndpoint
  <2>1. CASE \E e \in rt.es : /\ ep' = [ep EXCEPT ![e] = NoEp]
                              /\ rt' = [rt EXCEPT !.es = @ \ {e}]
    <3>1. PICK e \in rt.es : /\ ep' = [ep EXCEPT ![e] = NoEp]
                             /\ rt' = [rt EXCEPT !.es = @ \ {e}]
      BY <2>1
    <3>2. /\ rt'.es = rt.es \ {e}
          /\ \A f \in Eps : ep'[f] = IF f = e THEN NoEp ELSE ep[f]
          /\ NoEp.st # "dead"
      BY <1>0, <3>1 DEF RtRec, NoEp
    <3> QED
      BY <3>2 DEF DeadOK
  <2>2. CASE UNCHANGED ep /\ Goto(IF rt.op = "dellink" THEN "qmi_last" ELSE "close")
    BY <2>2, DeadStep DEF Steps
  <2> QED
    BY <1>8, <2>1, <2>2 DEF FreeEndpoint
<1>9. CASE QmiExit
  <2>1. UNCHANGED ep /\ Goto(IF At("qmi_exit") THEN "bridge" ELSE "close")
    BY <1>9 DEF QmiExit
  <2> QED
    BY <2>1, DeadStep DEF Steps
<1>10. CASE CloseDevice \/ VndUninit
  BY <1>10, DeadFrame DEF CloseDevice, VndUninit
<1>11. CASE QosExitPost
  <2>1. rt'.es = rt.es /\ UNCHANGED ep
    BY <1>0, <1>11 DEF QosExitPost, Unreal, RtRec
  <2> QED
    BY <2>1, DeadFrame
<1>12. CASE FreeDevice
  <2>1. UNCHANGED ep
    BY <1>12 DEF FreeDevice
  <2>2. rt.es = {}
    BY <1>12 DEF FreeDevice, At, Inv, StructInv, RtOK, Early, Calling
  <2> QED
    BY <2>1, <2>2, DeadFrame
<1> QED
  BY <1>1, <1>2, <1>3, <1>4, <1>5, <1>6, <1>7, <1>8, <1>9, <1>10, <1>11, <1>12
     DEF Working

LEMMA DeadOthers ==
    ASSUME DeadOK,
           \/ \E k \in Readers : Reading(k)
           \/ \E v \in Vnds : WatchdogFn(v)
           \/ DlMarkers
    PROVE  DeadOK'
<1>1. UNCHANGED <<ep, rt>>
  BY DEF Reading, Enter, EnterEgress, Lookup, ReadEgressDev, GetQosPt,
         WatchdogAdd, Leave, Reads, WatchdogFn, DlMarkers, DlIndRegister,
         DlIndDeregister
<1> QED
  BY <1>1, DeadFrame

LEMMA HistGrows ==
    ASSUME TypeOK, Next
    PROVE  (mixed => mixed') /\ (nomem => nomem')
<1>1. CASE Rtnl
  <2>1. CASE \E r \in Reals, v \in Vnds, m \in Muxes, got \in Outcomes :
                Newlink(r, v, m, got)
    <3>1. PICK r \in Reals, v \in Vnds, m \in Muxes, got \in Outcomes :
             Newlink(r, v, m, got)
      BY <2>1
    <3>2. mixed => mixed'
      BY <3>1, Zenon DEF Newlink
    <3>3. nomem => nomem'
      BY <3>1, Zenon DEF Newlink, RegisterRealDevice
    <3> QED
      BY <3>2, <3>3
  <2>2. CASE \E v \in Vnds, s \in Reals, got \in Outcomes : AddBridge(v, s, got)
    BY <2>2 DEF AddBridge, RegisterRealDevice
  <2>3. CASE UNCHANGED <<mixed, nomem>>
    BY <2>3
  <2> QED
    BY <1>1, <2>1, <2>2, <2>3 DEF Rtnl, Dellink, ClientSetup, ForceUnassociate,
       Changelink, DelBridge, hist
<1>2. CASE Working
  <2>1. UNCHANGED hist
    BY <1>2 DEF Working, NewlinkRest, Synchronize, GracePeriod,
       UnregisterRealDevice, FreePort, UnregisterBridge, VndDellink, Unlist,
       FreeEndpoint, QmiExit, CloseDevice, VndUninit, QosExitPost, FreeDevice
  <2> QED
    BY <2>1 DEF hist
<1>3. CASE \E k \in Readers : Reading(k)
  <2>1. UNCHANGED hist
    BY <1>3 DEF Reading, Enter, EnterEgress, Lookup, ReadEgressDev, GetQosPt,
       WatchdogAdd, Leave, Reads
  <2> QED
    BY <2>1 DEF hist
<1>4. CASE (\E v \in Vnds : WatchdogFn(v)) \/ DlMarkers \/ Over
  <2>1. UNCHANGED hist
    BY <1>4 DEF WatchdogFn, DlMarkers, DlIndRegister, DlIndDeregister, Over, vars
  <2> QED
    BY <2>1 DEF hist
<1> QED
  BY <1>1, <1>2, <1>3, <1>4 DEF Next

LEMMA LinkInit == Init => LinkInv
<1>1. Init => DeadOK
  BY DEF Init, DeadOK, NoEp
<1> QED
  BY <1>1, BridgeInit DEF LinkInv

LEMMA LinkNext == PortInv /\ LinkInv /\ [Next]_vars => LinkInv'
<1> SUFFICES ASSUME PortInv, LinkInv, [Next]_vars PROVE LinkInv'
  OBVIOUS
<1>0. TypeOK /\ (misled \/ Inv)
  BY DEF PortInv, Inv
<1>1. CASE UNCHANGED vars
  BY <1>1 DEF vars, hist, LinkInv, DeadOK, BridgeOK, Ends, Work, Paired, Leaving,
     Used, Leading, Called, Calling, Starting, Slaving, Parting
<1>2. CASE ~UNCHANGED vars
  <2>0. Next /\ Going /\ crash = NULL /\ ~misled /\ Inv /\ DeadOK
    BY <1>0, <1>2 DEF Next, Going, Over, LinkInv
  <2>1. \/ Rtnl \/ Working \/ (\E k \in Readers : Reading(k))
        \/ (\E v \in Vnds : WatchdogFn(v)) \/ DlMarkers
    BY <1>2, <2>0 DEF Next, Over
  <2>2. DeadOK'
    BY <1>0, <2>0, <2>1, DeadRtnl, DeadWorking, DeadOthers
  <2>3. CASE mixed' \/ nomem'
    BY <2>2, <2>3 DEF LinkInv
  <2>4. CASE ~mixed' /\ ~nomem'
    <3>1. BridgeOK
      BY <1>0, <2>0, <2>4, HistGrows DEF LinkInv
    <3>2. BridgeOK'
      BY <1>0, <2>0, <2>1, <2>4, <3>1, BridgeNext
    <3> QED
      BY <2>2, <3>2 DEF LinkInv
  <2> QED
    BY <2>3, <2>4
<1> QED
  BY <1>1, <1>2

LEMMA LinkAlways == Spec => []LinkInv
BY LinkInit, LinkNext, InvAlways, PTL DEF Spec

\* The two ports of a bridge go together between operations, and
\* rmnet_unregister_bridge never follows a null port, as long as no port of a
\* bridge gets a link or a second bridge and no port runs out of memory.
THEOREM BridgeSafe == Spec => []BridgePaired
<1>1. PortInv /\ LinkInv => BridgePaired
  <2> SUFFICES ASSUME PortInv, LinkInv, ~mixed, ~nomem, ~misled
               PROVE  /\ crash # "port"
                      /\ Idle => \A r \in Reals : port[r].mode = "bridge" =>
                            /\ port[port[r].bridge_ep].mode = "bridge"
                            /\ port[port[r].bridge_ep].bridge_ep = r
    BY DEF BridgePaired
  <2>1. TypeOK /\ Inv /\ BridgeOK
    BY DEF PortInv, Inv, LinkInv
  <2> QED
    BY <2>1, IdleBridge DEF BridgeOK, Paired
<1> QED
  BY <1>1, InvAlways, LinkAlways, PTL

\* Between operations, for any port: the endpoints that lead to it are the
\* ones on its lists, and lead to its devices, one each
LEMMA ListedLead ==
    ASSUME TypeOK, Inv, Idle, NEW r \in Reals
    PROVE  EpsOf(r) = Leading(r)
<1>0. rt.es = {} /\ rt.pc = "idle"
  BY IdleFacts
<1>1. ASSUME NEW e \in EpsOf(r) PROVE e \in Leading(r)
  <2>1. e \in Eps
    BY <1>1 DEF EpsOf
  <2>2. PICK m \in Muxes : Places(port[r].eps[m], e) # {}
    BY <1>1 DEF EpsOf
  <2>3. PICK i \in 1 .. Len(port[r].eps[m]) : port[r].eps[m][i] = e
    BY <2>2 DEF Places
  <2>4. port[r].eps[m] # <<>>
    BY <2>3
  <2>5. PICK f \in Eps : /\ port[r].eps[m] = <<f>>
                         /\ ep[f].real = r /\ ep[f].st = "listed"
    BY <1>0, <2>4 DEF Inv, StructInv, ListOK
  <2>6. f = e
    BY <2>3, <2>5
  <2> QED
    BY <2>1, <2>5, <2>6 DEF Leading, Inv, StructInv, EpOK
<1>2. ASSUME NEW e \in Leading(r) PROVE e \in EpsOf(r)
  <2>1. e \in Eps /\ ep[e].egress_dev # NULL /\ ep[e].real = r
    BY <1>2 DEF Leading
  <2>2. EpOK!1!(e)
    BY <2>1 DEF Inv, StructInv, EpOK
  <2>3. ep[e].mux \in Muxes /\ port[r].eps[ep[e].mux] = <<e>>
    BY <1>0, <2>1, <2>2
  <2>4. 1 \in Places(<<e>>, e)
    BY DEF Places
  <2> QED
    BY <2>1, <2>3, <2>4 DEF EpsOf
<1> QED
  BY <1>1, <1>2

LEMMA OneToOne ==
    ASSUME NEW S, NEW T, NEW F \in [S -> T], IsFiniteSet(S),
           \A a, b \in S : F[a] = F[b] => a = b,
           \A t \in T : \E a \in S : F[a] = t
    PROVE  Cardinality(T) = Cardinality(S)
<1>1. F \in Injection(S, T)
  BY DEF Injection, IsInjective
<1>2. F \in Surjection(S, T)
  BY DEF Surjection
<1>3. ExistsBijection(S, T)
  BY <1>1, <1>2 DEF Bijection, ExistsBijection
<1> QED
  BY <1>3, FS_Bijection

LEMMA CountLeads ==
    ASSUME TypeOK, Inv, Idle, NEW r \in Reals
    PROVE  port[r].nr = Cardinality({v \in Vnds : vnd[v].real = r})
<1> DEFINE D == {v \in Vnds : vnd[v].real = r}
           f == [e \in Leading(r) |-> ep[e].egress_dev]
<1>0. rt.es = {} /\ rt.vs = {} /\ rt.pc = "idle"
  BY IdleFacts
<1>1. ASSUME NEW e \in Leading(r)
      PROVE  e \in Eps /\ ep[e].egress_dev # NULL /\ ep[e].egress_dev \in D
  <2>1. e \in Eps /\ ep[e].egress_dev # NULL /\ ep[e].real = r
    BY <1>1 DEF Leading
  <2>2. EpOK!1!(e)
    BY <2>1 DEF Inv, StructInv, EpOK
  <2> QED
    BY <2>1, <2>2
<1>2. \A e, g \in Leading(r) : ep[e].egress_dev = ep[g].egress_dev => e = g
  BY <1>1 DEF Inv, StructInv, EpOK
<1>3. ASSUME NEW v \in D PROVE \E e \in Leading(r) : ep[e].egress_dev = v
  <2>1. v \in Vnds /\ vnd[v].real = r /\ vnd[v].st \in {"none", "reg"}
        /\ (vnd[v].st = "none" => vnd[v] = NoVnd)
    BY <1>0 DEF Inv, StructInv, VndOK
  <2>2. vnd[v].st = "reg"
    BY <2>1, NullAssumption DEF NoVnd
  <2>3. /\ GetEndpoint(r, vnd[v].mux) \in Leading(r)
        /\ ep[GetEndpoint(r, vnd[v].mux)].egress_dev = v
    BY <2>1, <2>2, CountedDevice, DeviceEp
  <2> QED
    BY <2>3
<1>4. f \in [Leading(r) -> D]
  BY <1>1
<1>5. \A e, g \in Leading(r) : f[e] = f[g] => e = g
  BY <1>2
<1>6. \A v \in D : \E e \in Leading(r) : f[e] = v
  BY <1>3
<1>7. Cardinality(D) = Cardinality(Leading(r))
  <2>1. IsFiniteSet(Leading(r))
    BY PortAssumption, FS_Subset DEF Leading
  <2>2. PICK L, E, g : L = Leading(r) /\ E = D /\ g = f
    OBVIOUS
  <2> HIDE DEF f, D
  <2>3. g \in [L -> E] /\ IsFiniteSet(L)
    BY <1>4, <2>1, <2>2
  <2>4. \A a, b \in L : g[a] = g[b] => a = b
    BY <1>5, <2>2
  <2>5. \A t \in E : \E a \in L : g[a] = t
    BY <1>6, <2>2
  <2>6. Cardinality(E) = Cardinality(L)
    BY <2>3, <2>4, <2>5, OneToOne
  <2> QED
    BY <2>2, <2>6
<1> QED
  BY <1>7 DEF Inv, StructInv, NrOK

\* Between operations nr_rmnet_devs is the number of devices of the port and of
\* its endpoints, every device is what the endpoint of its mux id leads to, no
\* endpoint is left of a deleted device, and a port without devices is the
\* slave of a bridge, unless a port of a bridge got a link or a second bridge
\* or a port ran out of memory.  At all times the types hold.
THEOREM LinksSafe == Spec => []LinksSound
<1>1. PortInv /\ LinkInv => LinksSound
  <2> SUFFICES ASSUME PortInv, LinkInv PROVE LinksSound
    OBVIOUS
  <2>0. TypeOK
    BY DEF PortInv
  <2>1. SUFFICES ASSUME Idle, crash = NULL, ~misled
        PROVE  /\ \A r \in Reals :
                     /\ port[r].nr = Cardinality({v \in Vnds : vnd[v].real = r})
                     /\ Cardinality(EpsOf(r)) = port[r].nr
                     /\ port[r].st = "live" /\ port[r].nr = 0 =>
                            nomem \/ mixed \/ port[r].mode = "bridge"
               /\ \A v \in Vnds : vnd[v].st = "reg" =>
                     /\ port[vnd[v].real].st = "live"
                     /\ LET e == GetEndpoint(vnd[v].real, vnd[v].mux)
                        IN  e # NULL /\ ep[e].egress_dev = v
               /\ \A e \in Eps : ep[e].st # "dead"
    BY <2>0 DEF LinksSound
  <2>2. Inv /\ DeadOK /\ (mixed \/ nomem \/ BridgeOK)
    BY <2>1 DEF PortInv, Inv, LinkInv
  <2>3. ASSUME NEW r \in Reals
        PROVE  /\ port[r].nr = Cardinality({v \in Vnds : vnd[v].real = r})
               /\ Cardinality(EpsOf(r)) = port[r].nr
               /\ port[r].st = "live" /\ port[r].nr = 0 =>
                      nomem \/ mixed \/ port[r].mode = "bridge"
    <3>1. port[r].nr = Cardinality({v \in Vnds : vnd[v].real = r})
      BY <2>0, <2>1, <2>2, CountLeads
    <3>2. Cardinality(EpsOf(r)) = port[r].nr
      BY <2>0, <2>1, <2>2, ListedLead DEF Inv, StructInv, NrOK
    <3>3. ASSUME port[r].st = "live", port[r].nr = 0
          PROVE  nomem \/ mixed \/ port[r].mode = "bridge"
      BY <2>0, <2>1, <2>2, <3>3, IdleBridge, EndFacts
    <3> QED
      BY <3>1, <3>2, <3>3
  <2>4. ASSUME NEW v \in Vnds, vnd[v].st = "reg"
        PROVE  /\ port[vnd[v].real].st = "live"
               /\ GetEndpoint(vnd[v].real, vnd[v].mux) # NULL
               /\ ep[GetEndpoint(vnd[v].real, vnd[v].mux)].egress_dev = v
    <3>1. vnd[v].real \in Reals /\ port[vnd[v].real].nr # 0
      BY <2>0, <2>1, <2>2, <2>4, CountedDevice
    <3>2. port[vnd[v].real].st \in {"none", "live"}
      BY <2>0, <2>1, <2>2, <3>1, IdleFacts
    <3>3. port[vnd[v].real].st # "none"
      BY <2>2, <3>1 DEF Inv, StructInv, PortOK, NoPort
    <3> QED
      BY <2>0, <2>1, <2>2, <2>4, <3>2, <3>3, DeviceEp
  <2>5. \A e \in Eps : ep[e].st # "dead"
    BY <2>0, <2>1, <2>2, IdleFacts DEF DeadOK
  <2> QED
    BY <2>3, <2>4, <2>5
<1> QED
  BY <1>1, InvAlways, LinkAlways, PTL

=============================================================================
