-------------------------- MODULE QmiClientsProofs --------------------------
(***************************************************************************)
(* Proofs about QmiClients for any set of setup requests: no client and no *)
(* qmi_info is used after it was freed, none is leaked, and each is        *)
(* handled by the code of its transport (ClientsSound); a client in place  *)
(* takes part in the query that ends power save (QueriedWhenUp).           *)
(***************************************************************************)
EXTENDS QmiClients, TLAPS

\* Power save is asked for with instance 0 only.
SaveOnZero == \A S \in Setups : \A r \in S : r[2] => r[1] = 0

-----------------------------------------------------------------------------
(* The inductive invariant.                                                *)

\* __qmi_rmnet_delete_client at a DFC client
DfcPhase == {"dfc", "drain", "ctlwait", "qmapwait", "clear", "last"}

\* The thread that holds rtnl: what it deletes, and in which state the client
\* it waits for is.
RtOK ==
    /\ rt.pc = "idle" => rt = IdleRt
    /\ rt.pc # "idle" => rt.todo # {}
    /\ ~rt.all => rt.todo \in {{}, {0}, {1}}
    /\ rt.pc \in {"wdadrain", "wdaclear"} => rt.all \/ 0 \in rt.todo
    /\ rt.pc \in {"drain", "ctlwait", "qmapwait"} => client[DfcSlot(Now)].alloc
    /\ rt.pc = "drain" => client[DfcSlot(Now)].via = "qmi"
    /\ rt.pc \in {"ctlwait", "qmapwait"} => client[DfcSlot(Now)].via = "qmap"
    /\ rt.pc = "qmapwait" => qmap = NoQmap
    /\ rt.pc = "last" => ptr[DfcSlot(Now)] = "none"

\* The power save work is stopped while instance 0 or everything is deleted;
\* while another instance is, it cannot take that client.
PsOK ==
    /\ ps.pc = "idle" => ps.uses = {}
    /\ ps.pc # "idle" => ps_up
    /\ rt.pc \notin {"idle", "psexit"} /\ (rt.all \/ 0 \in rt.todo) => ~ps_up
    /\ rt.pc = "flush" => exiting[Now]
    /\ rt.pc \in DfcPhase => \/ ~ps_up
                             \/ exiting[Now] /\ DfcSlot(Now) \notin ps.uses

\* Nobody uses a client that is freed, and its service does not arrive.
DeadOK ==
    \A s \in Slots : ~client[s].alloc =>
        /\ ~client[s].handle /\ ~client[s].queued
        /\ client[s].wpc = "idle" /\ s \notin ps.uses

\* The pointer of slot s is about to be cleared
Dangling(s) == \/ rt.pc = "wdaclear" /\ s = "wda"
               \/ rt.pc = "clear" /\ s = DfcSlot(Now)

PtrOK ==
    \A s \in Slots : IF Dangling(s) THEN ~client[s].alloc
                                    ELSE ptr[s] # "none" <=> client[s].alloc

QmapOK ==
    /\ \A s \in Dfc : client[s].alloc /\ client[s].via = "qmap" =>
          \/ qmap.data = s
          \/ rt.pc = "qmapwait" /\ s = DfcSlot(Now)
    /\ qmap.data # "none" =>
          client[qmap.data].alloc /\ client[qmap.data].via = "qmap"
    /\ qmap.data = "none" => qmap.ctl = "none"
    /\ rx.pc # "idle" => qmap.ctl # "none"
    /\ rx.uses \subseteq {qmap.data}
    /\ rx.pc = "idle" => rx.uses = {}

\* Without a change of transport every DFC client has that of the flag.
SwitchOK ==
    /\ ~switched => \A s \in Dfc : client[s].alloc =>
                       (client[s].via = "qmap" <=> dfc_qmap)
    /\ mixed => switched

\* While power save is set up, there is the client of instance 0 or the WDA
\* client: qmi_info stays.
PowerOK == ps_up => ptr["dfc0"] # "none" \/ ptr["wda"] # "none"

QmiOK == ~qmi => NoRef(ptr)

ClientInv ==
    /\ TypeOK /\ RtOK /\ PsOK /\ DeadOK /\ PtrOK /\ QmapOK /\ SwitchOK
    /\ QmiOK /\ QueriedWhenUp

-----------------------------------------------------------------------------
(* Slots and the index that is deleted.                                    *)

ClientRec == [alloc : BOOLEAN, handle : BOOLEAN, restart : BOOLEAN,
              queued : BOOLEAN, wpc : {"idle", "marker", "init", "lock"},
              via : {"qmi", "qmap"}]

LEMMA SlotShape ==
    /\ Slots = {"dfc0", "dfc1", "wda"} /\ Dfc = {"dfc0", "dfc1"}
    /\ DfcSlot(0) = "dfc0" /\ DfcSlot(1) = "dfc1"
    /\ \A i \in Indices : DfcSlot(i) \in Dfc /\ DfcSlot(i) \in Slots
    /\ \A i, j \in Indices : DfcSlot(i) = DfcSlot(j) => i = j
    /\ Now \in {0, 1} /\ Now \in Indices
    /\ DfcSlot(Now) \in Dfc /\ DfcSlot(Now) \in Slots /\ DfcSlot(Now) # "wda"
BY DEF Slots, Dfc, DfcSlot, Now, Indices

LEMMA ClientTypes ==
    /\ NoClient \in ClientRec /\ QmiClient \in ClientRec /\ QmapClient \in ClientRec
    /\ ~NoClient.alloc /\ ~NoClient.handle /\ ~NoClient.queued
    /\ NoClient.wpc = "idle"
    /\ QmiClient.alloc /\ QmiClient.via = "qmi"
    /\ QmapClient.alloc /\ QmapClient.via = "qmap"
BY DEF NoClient, QmiClient, QmapClient, ClientRec

LEMMA NowIn ==
    ASSUME rt.todo \subseteq Indices, rt.todo # {}
    PROVE  Now \in rt.todo
BY DEF Now, Indices

LEMMA IdlePc ==
    ASSUME TypeOK, RtOK
    PROVE  rt = IdleRt <=> rt.pc = "idle"
BY DEF RtOK, IdleRt

-----------------------------------------------------------------------------
(* Steps of a client's own work item.  They change a client that is there, *)
(* and leave what the invariant says of it.                                *)

LEMMA WorkFrame ==
    ASSUME ClientInv, NEW s \in Slots,
           client[s].alloc, client' \in [Slots -> ClientRec],
           client'[s].alloc, client'[s].via = client[s].via,
           \A t \in Slots : t # s => client'[t] = client[t],
           ptr' \in [Slots -> {"none", "pending", "client"}],
           \A t \in Slots : ptr'[t] = "none" <=> ptr[t] = "none",
           UNCHANGED <<qmi, exiting, ps_up, ps, rt, qmapVars, mixed>>
    PROVE  ClientInv' /\ (PowerOK => PowerOK')
<1>0. /\ TypeOK /\ RtOK /\ PsOK /\ DeadOK /\ PtrOK /\ QmapOK /\ SwitchOK
      /\ QmiOK /\ QueriedWhenUp
  BY DEF ClientInv
<1>1. client \in [Slots -> ClientRec]
  BY <1>0 DEF TypeOK, ClientRec
<1>2. \A t \in Slots : /\ client'[t].alloc <=> client[t].alloc
                       /\ client'[t].via = client[t].via
  BY <1>1
<1>3. Now' = Now /\ (\A t : Dangling(t)' <=> Dangling(t))
  BY DEF Now, Dangling
<1>4. UNCHANGED <<dfc_qmap, qmap, rx, switched>>
  BY DEF qmapVars
<1>5. TypeOK'
  BY <1>0, <1>1, <1>4 DEF TypeOK, ClientRec
<1>6. RtOK'
  BY <1>0, <1>2, <1>3, <1>4, SlotShape DEF RtOK
<1>7. PsOK'
  BY <1>0, <1>3 DEF PsOK
<1>8. DeadOK'
  BY <1>0, <1>1, <1>2 DEF DeadOK
<1>9. PtrOK'
  BY <1>0, <1>2, <1>3 DEF PtrOK
<1>10. QmapOK'
  BY <1>0, <1>2, <1>3, <1>4, SlotShape DEF QmapOK, TypeOK
<1>11. SwitchOK'
  BY <1>0, <1>2, <1>4, SlotShape DEF SwitchOK
<1>12. QmiOK' /\ QueriedWhenUp'
  BY <1>0, SlotShape DEF QmiOK, QueriedWhenUp, NoRef
<1>13. PowerOK => PowerOK'
  BY SlotShape DEF PowerOK
<1> QED
  BY <1>5, <1>6, <1>7, <1>8, <1>9, <1>10, <1>11, <1>12, <1>13 DEF ClientInv

LEMMA WorkInv ==
    ASSUME ClientInv, NEW s \in Slots,
           \/ SvcArrive(s) \/ SvcStart(s) \/ SvcGivesUp(s) \/ SvcEstablished(s)
           \/ \E ok \in BOOLEAN : SvcInit(s, ok)
           \/ s = "wda" /\ SvcMarker
    PROVE  ClientInv' /\ (PowerOK => PowerOK')
<1>0. TypeOK /\ DeadOK /\ PtrOK /\ RtOK /\ client[s] \in ClientRec
  BY DEF ClientInv, TypeOK, ClientRec
<1>1. client[s].alloc
  BY <1>0 DEF DeadOK, SvcArrive, SvcStart, SvcGivesUp, SvcEstablished, SvcInit,
     SvcMarker
<1>2. UNCHANGED <<qmi, exiting, ps_up, ps, rt, qmapVars, mixed>>
  BY DEF SvcArrive, SvcStart, SvcGivesUp, SvcEstablished, SvcInit, SvcMarker
<1>3. client \in [Slots -> ClientRec]
  BY <1>0 DEF TypeOK, ClientRec
<1>4. /\ client' \in [Slots -> ClientRec]
      /\ client'[s].alloc /\ client'[s].via = client[s].via
      /\ \A t \in Slots : t # s => client'[t] = client[t]
  <2>1. CASE SvcArrive(s)
    BY <1>1, <1>3, <2>1 DEF SvcArrive, ClientRec
  <2>2. CASE SvcStart(s)
    <3> DEFINE w == IF s = "wda" THEN "marker"
                    ELSE IF client[s].restart THEN "idle" ELSE "init"
    <3>1. client' = [client EXCEPT ![s].queued = FALSE, ![s].wpc = w]
      BY <2>2 DEF SvcStart
    <3>2. w \in {"idle", "marker", "init", "lock"}
      OBVIOUS
    <3> HIDE DEF w
    <3> QED
      BY <1>1, <1>3, <3>1, <3>2 DEF ClientRec
  <2>3. CASE SvcGivesUp(s)
    BY <1>1, <1>3, <2>3 DEF SvcGivesUp, ClientRec
  <2>4. CASE SvcEstablished(s)
    BY <1>1, <1>3, <2>4 DEF SvcEstablished, ClientRec
  <2>5. CASE \E ok \in BOOLEAN : SvcInit(s, ok)
    BY <1>1, <1>3, <2>5 DEF SvcInit, ClientRec
  <2>6. CASE s = "wda" /\ SvcMarker
    BY <1>1, <1>3, <2>6 DEF SvcMarker, ClientRec
  <2> QED
    BY <2>1, <2>2, <2>3, <2>4, <2>5, <2>6
<1>7. /\ ptr' \in [Slots -> {"none", "pending", "client"}]
      /\ \A t \in Slots : ptr'[t] = "none" <=> ptr[t] = "none"
  <2>1. CASE SvcEstablished(s)
    <3>1. rt.pc = "idle"
      BY <2>1 DEF SvcEstablished, IdleRt
    <3>2. ptr[s] # "none"
      BY <1>0, <1>1, <3>1 DEF PtrOK, Dangling
    <3> QED
      BY <1>0, <2>1, <3>2 DEF SvcEstablished, TypeOK
  <2>2. CASE ~SvcEstablished(s)
    BY <1>0, <2>2 DEF TypeOK, SvcArrive, SvcStart, SvcGivesUp, SvcInit, SvcMarker
  <2> QED
    BY <2>1, <2>2
<1> QED
  BY <1>1, <1>2, <1>4, <1>7, WorkFrame

-----------------------------------------------------------------------------
(* The power save work and a QMAP command.                                 *)

\* The power save work takes only a client that is there and is not about to
\* be freed.
LEMMA PsFrame ==
    ASSUME ClientInv,
           ps' \in [pc : {"idle", "mode", "query0", "query1"}, uses : SUBSET Slots],
           ps'.pc = "idle" => ps'.uses = {},
           ps'.pc # "idle" => ps_up,
           \A t \in ps'.uses : \/ t \in ps.uses
                               \/ /\ client[t].alloc
                                  /\ rt.pc \in DfcPhase /\ ps_up => t # DfcSlot(Now),
           mixed' \in BOOLEAN, mixed' => switched,
           UNCHANGED <<qmi, ptr, client, exiting, ps_up, rt, qmapVars>>
    PROVE  ClientInv' /\ (PowerOK => PowerOK')
<1>0. /\ TypeOK /\ RtOK /\ PsOK /\ DeadOK /\ PtrOK /\ QmapOK /\ SwitchOK
      /\ QmiOK /\ QueriedWhenUp
  BY DEF ClientInv
<1>1. Now' = Now /\ (\A t : Dangling(t)' <=> Dangling(t))
  BY DEF Now, Dangling
<1>2. UNCHANGED <<dfc_qmap, qmap, rx, switched, user>>
  BY DEF qmapVars
<1>3. TypeOK'
  BY <1>0, <1>2 DEF TypeOK
<1>4. RtOK' /\ QmapOK' /\ SwitchOK' /\ QmiOK' /\ QueriedWhenUp' /\ PtrOK'
  BY <1>0, <1>1, <1>2 DEF RtOK, QmapOK, SwitchOK, QmiOK, QueriedWhenUp, PtrOK, NoRef
<1>5. PsOK'
  BY <1>0, <1>1 DEF PsOK
<1>6. DeadOK'
  BY <1>0 DEF DeadOK
<1>7. PowerOK => PowerOK'
  BY DEF PowerOK
<1> QED
  BY <1>3, <1>4, <1>5, <1>6, <1>7 DEF ClientInv

LEMMA PsInv ==
    ASSUME ClientInv, ~mixed, PsStart \/ PsWork
    PROVE  ClientInv' /\ (PowerOK => PowerOK')
<1>0. /\ TypeOK /\ RtOK /\ PsOK /\ DeadOK /\ PtrOK /\ SwitchOK
      /\ ps \in [pc : {"idle", "mode", "query0", "query1"}, uses : SUBSET Slots]
  BY DEF ClientInv, TypeOK
<1>1. CASE PsStart
  <2>1. /\ ps'.pc = "mode" /\ ps'.uses = ps.uses
        /\ ps' \in [pc : {"idle", "mode", "query0", "query1"}, uses : SUBSET Slots]
    BY <1>0, <1>1 DEF PsStart
  <2>2. ps_up /\ UNCHANGED <<qmi, ptr, client, exiting, ps_up, rt, qmapVars, mixed>>
    BY <1>1 DEF PsStart
  <2> QED
    BY <1>0, <2>1, <2>2, PsFrame DEF TypeOK, SwitchOK
<1>2. CASE PsUseWda
  <2>1. /\ ps'.pc = "mode" /\ ps'.uses = {"wda"} /\ ps.pc = "mode"
        /\ ps' \in [pc : {"idle", "mode", "query0", "query1"}, uses : SUBSET Slots]
    BY <1>0, <1>2, SlotShape DEF PsUseWda
  <2>2. ptr["wda"] # "none" /\ UNCHANGED <<qmi, ptr, client, exiting, ps_up, rt, qmapVars, mixed>>
    BY <1>2 DEF PsUseWda
  <2>3. ps_up /\ rt.pc # "wdaclear"
    BY <1>0, <2>1 DEF PsOK, RtOK
  <2>4. client["wda"].alloc
    BY <1>0, <2>2, <2>3, SlotShape DEF PtrOK, Dangling
  <2> QED
    BY <1>0, <2>1, <2>2, <2>3, <2>4, SlotShape, PsFrame DEF TypeOK, SwitchOK
<1>3. ASSUME NEW i \in Indices, PsQuery(i)
      PROVE  ClientInv' /\ (PowerOK => PowerOK')
  <2> DEFINE d == DfcSlot(i)
  <2>0. d \in Dfc /\ d \in Slots
    BY SlotShape
  <2>1. /\ ps'.pc = ps.pc /\ ps'.uses = {d} /\ ps.pc # "idle"
        /\ ps' \in [pc : {"idle", "mode", "query0", "query1"}, uses : SUBSET Slots]
    BY <1>0, <1>3, <2>0 DEF PsQuery
  <2>2. /\ ptr[d] # "none" /\ ~dfc_qmap /\ ~exiting[i]
        /\ UNCHANGED <<qmi, ptr, client, exiting, ps_up, rt, qmapVars>>
        /\ mixed' = (client[d].via = "qmap")
    BY <1>3 DEF PsQuery
  <2>3. ps_up
    BY <1>0, <2>1 DEF PsOK
  <2>4. rt.pc \in DfcPhase => d # DfcSlot(Now)
    BY <1>0, <2>2, <2>3, SlotShape DEF PsOK
  <2>5. client[d].alloc
    BY <1>0, <2>0, <2>2, <2>4, SlotShape DEF PtrOK, Dangling, DfcPhase
  <2>6. mixed' \in BOOLEAN /\ (mixed' => switched)
    BY <1>0, <2>0, <2>2, <2>5 DEF SwitchOK
  <2> HIDE DEF d
  <2> QED
    BY <2>1, <2>2, <2>3, <2>4, <2>5, <2>6, PsFrame
<1>4. ASSUME NEW more \in BOOLEAN, PsNext(more)
      PROVE  ClientInv' /\ (PowerOK => PowerOK')
  <2>1. /\ ps'.uses = {} /\ ps.pc # "idle"
        /\ ps' \in [pc : {"idle", "mode", "query0", "query1"}, uses : SUBSET Slots]
    BY <1>0, <1>4 DEF PsNext
  <2>2. UNCHANGED <<qmi, ptr, client, exiting, ps_up, rt, qmapVars, mixed>>
    BY <1>4 DEF PsNext
  <2> QED
    BY <1>0, <2>1, <2>2, PsFrame DEF PsOK, TypeOK, SwitchOK
<1> QED
  BY <1>1, <1>2, <1>3, <1>4 DEF PsWork

LEMMA RxInv ==
    ASSUME ClientInv, EndpointPost \/ CmdHandler \/ CmdDone
    PROVE  ClientInv' /\ (PowerOK => PowerOK')
<1>0. /\ TypeOK /\ RtOK /\ PsOK /\ DeadOK /\ PtrOK /\ QmapOK /\ SwitchOK
      /\ QmiOK /\ QueriedWhenUp
  BY DEF ClientInv
<1>1. UNCHANGED <<qmi, ptr, client, exiting, ps_up, ps, rt, dfc_qmap, qmap,
                  switched, user, mixed>>
  BY DEF EndpointPost, CmdHandler, CmdDone
<1>2. /\ rx' \in [pc : {"idle", "hook", "cmd"}, uses : SUBSET Dfc]
      /\ rx'.pc # "idle" => qmap.ctl # "none"
      /\ rx'.uses \subseteq {qmap.data}
      /\ rx'.pc = "idle" => rx'.uses = {}
  <2>1. CASE EndpointPost
    BY <1>0, <2>1 DEF EndpointPost, TypeOK, QmapOK
  <2>2. CASE CmdHandler
    BY <1>0, <2>2 DEF CmdHandler, TypeOK, QmapOK, IdleRx
  <2>3. CASE CmdDone
    BY <1>0, <2>3 DEF CmdDone, IdleRx
  <2> QED
    BY <2>1, <2>2, <2>3
<1>3. Now' = Now /\ (\A t : Dangling(t)' <=> Dangling(t))
  BY <1>1 DEF Now, Dangling
<1>4. TypeOK'
  BY <1>0, <1>1, <1>2 DEF TypeOK
<1>5. QmapOK'
  BY <1>0, <1>1, <1>2, <1>3 DEF QmapOK
<1>6. RtOK' /\ PsOK' /\ DeadOK' /\ PtrOK' /\ SwitchOK' /\ QmiOK' /\ QueriedWhenUp'
  BY <1>0, <1>1, <1>3 DEF RtOK, PsOK, DeadOK, PtrOK, SwitchOK, QmiOK, QueriedWhenUp, NoRef
<1>7. PowerOK => PowerOK'
  BY <1>1 DEF PowerOK
<1> QED
  BY <1>4, <1>5, <1>6, <1>7 DEF ClientInv

-----------------------------------------------------------------------------
(* Clients are deleted.                                                    *)

\* No client comes or goes, and nothing of a client that is freed begins.
Keeps ==
    /\ client' \in [Slots -> ClientRec]
    /\ \A t \in Slots :
          /\ client'[t].alloc <=> client[t].alloc
          /\ client'[t].via = client[t].via
          /\ client'[t].handle => client[t].handle
          /\ client'[t].queued => client[t].queued
          /\ client'[t].wpc = client[t].wpc

\* What holds after a step that only moves the netlink thread on
LEMMA RtFrame ==
    ASSUME ClientInv, Keeps, TypeOK', RtOK', PsOK', QmapOK', QueriedWhenUp',
           rt.pc \notin {"wdaclear", "clear"}, rt'.pc \notin {"wdaclear", "clear"},
           ps_up' => ps_up,
           UNCHANGED <<qmi, ptr, ps, dfc_qmap, switched>>, mixed' => switched
    PROVE  ClientInv' /\ (PowerOK => PowerOK')
<1>0. /\ TypeOK /\ RtOK /\ PsOK /\ DeadOK /\ PtrOK /\ QmapOK /\ SwitchOK
      /\ QmiOK /\ QueriedWhenUp
  BY DEF ClientInv
<1>1. DeadOK'
  BY <1>0 DEF DeadOK, Keeps
<1>2. PtrOK'
  BY <1>0 DEF PtrOK, Keeps, Dangling
<1>3. SwitchOK'
  BY <1>0, SlotShape DEF SwitchOK, Keeps
<1>4. QmiOK'
  BY <1>0 DEF QmiOK, NoRef
<1>5. PowerOK => PowerOK'
  BY DEF PowerOK
<1> QED
  BY <1>1, <1>2, <1>3, <1>4, <1>5 DEF ClientInv

LEMMA StartDeleteInv ==
    ASSUME ClientInv, (\E i \in Indices : DeleteClient(i)) \/ QmiExit
    PROVE  ClientInv' /\ (PowerOK => PowerOK')
<1>0. /\ TypeOK /\ RtOK /\ PsOK /\ QmapOK /\ QueriedWhenUp /\ SwitchOK
      /\ client \in [Slots -> ClientRec]
  BY DEF ClientInv, TypeOK, ClientRec
<1>1. /\ rt = IdleRt /\ rt.pc = "idle"
      /\ UNCHANGED <<qmi, ptr, exiting, ps_up, ps, qmapVars, mixed>>
  BY DEF DeleteClient, QmiExit, IdleRt
<1>2. UNCHANGED <<dfc_qmap, qmap, rx, switched, user>>
  BY <1>1 DEF qmapVars
<1>3. \E h \in BOOLEAN : /\ client' = [client EXCEPT !["wda"].handle = h]
                         /\ h => client["wda"].handle
  <2>1. CASE QmiExit
    <3>1. client' = [client EXCEPT !["wda"].handle = FALSE]
      BY <2>1 DEF QmiExit
    <3> WITNESS FALSE \in BOOLEAN
    <3> QED
      BY <3>1
  <2>2. ASSUME NEW i \in Indices, DeleteClient(i)
        PROVE  \E h \in BOOLEAN : /\ client' = [client EXCEPT !["wda"].handle = h]
                                  /\ h => client["wda"].handle
    <3> DEFINE h == client["wda"].handle /\ i # 0
    <3>1. h \in BOOLEAN /\ (h => client["wda"].handle)
      OBVIOUS
    <3>2. client' = [client EXCEPT !["wda"].handle = h]
      BY <2>2 DEF DeleteClient
    <3> HIDE DEF h
    <3> QED
      BY <3>1, <3>2
  <2> QED
    BY <2>1, <2>2
<1>4. Keeps
  BY <1>0, <1>3, SlotShape DEF Keeps, ClientRec
<1>5. \/ rt' = [pc |-> "psexit", todo |-> {0}, all |-> FALSE]
      \/ rt' = [pc |-> "wda", todo |-> {1}, all |-> FALSE]
      \/ rt' = [pc |-> "psexit", todo |-> {0, 1}, all |-> TRUE]
  BY DEF DeleteClient, QmiExit, Indices
<1>6. TypeOK'
  <2>1. /\ rt' \in [pc : RtPc, todo : SUBSET Indices, all : BOOLEAN]
        /\ rt'.pc \notin {"flush", "dfc", "drain", "clear"}
    <3>1. /\ {"psexit", "wda"} \subseteq RtPc
          /\ {0} \in SUBSET Indices /\ {1} \in SUBSET Indices /\ {0, 1} \in SUBSET Indices
      BY DEF RtPc, Indices
    <3>2. CASE rt' = [pc |-> "psexit", todo |-> {0}, all |-> FALSE]
      BY <3>1, <3>2
    <3>3. CASE rt' = [pc |-> "wda", todo |-> {1}, all |-> FALSE]
      BY <3>1, <3>3
    <3>4. CASE rt' = [pc |-> "psexit", todo |-> {0, 1}, all |-> TRUE]
      BY <3>1, <3>4
    <3> QED
      BY <1>5, <3>2, <3>3, <3>4
  <2>2. client' \in [Slots -> [alloc : BOOLEAN, handle : BOOLEAN,
                               restart : BOOLEAN, queued : BOOLEAN,
                               wpc : {"idle", "marker", "init", "lock"},
                               via : {"qmi", "qmap"}]]
    BY <1>4 DEF Keeps, ClientRec
  <2> QED
    BY <1>0, <1>1, <1>2, <2>1, <2>2 DEF TypeOK
<1>7. RtOK'
  BY <1>5 DEF RtOK
<1>8. PsOK'
  BY <1>0, <1>1, <1>5 DEF PsOK, DfcPhase
<1>9. QmapOK'
  BY <1>0, <1>1, <1>2, <1>4, SlotShape DEF QmapOK, Keeps, TypeOK
<1>10. QueriedWhenUp'
  BY <1>0, <1>1 DEF QueriedWhenUp
<1>11. rt'.pc \notin {"wdaclear", "clear"}
  BY <1>5
<1> QED
  BY <1>0, <1>1, <1>2, <1>4, <1>6, <1>7, <1>8, <1>9, <1>10, <1>11, RtFrame DEF SwitchOK

LEMMA PsExitInv ==
    ASSUME ClientInv, PsExit \/ FlushPsWq
    PROVE  ClientInv' /\ (PowerOK => PowerOK')
<1>0. /\ TypeOK /\ RtOK /\ PsOK /\ QmapOK /\ QueriedWhenUp /\ SwitchOK
      /\ client \in [Slots -> ClientRec]
  BY DEF ClientInv, TypeOK, ClientRec
<1>1. UNCHANGED <<qmi, ptr, client, exiting, ps, qmapVars, mixed>> /\ ps.pc = "idle"
  BY DEF PsExit, FlushPsWq
<1>2. UNCHANGED <<dfc_qmap, qmap, rx, switched, user>>
  BY <1>1 DEF qmapVars
<1>3. Keeps
  BY <1>0, <1>1 DEF Keeps
<1>4. \/ rt.pc = "psexit" /\ ps_up' = FALSE /\ rt' = [rt EXCEPT !.pc = "wda"]
      \/ rt.pc = "flush" /\ ps_up' = ps_up /\ rt' = [rt EXCEPT !.pc = "dfc"]
  BY DEF PsExit, FlushPsWq
<1>5. rt'.todo = rt.todo /\ rt'.all = rt.all /\ rt'.pc \in {"wda", "dfc"}
  BY <1>0, <1>4 DEF TypeOK
<1>6. Now' = Now
  BY <1>5 DEF Now
<1>7. TypeOK'
  <2>1. /\ rt' \in [pc : RtPc, todo : SUBSET Indices, all : BOOLEAN]
        /\ rt'.pc \in {"flush", "dfc", "drain", "clear"} => rt'.todo # {}
    BY <1>0, <1>4 DEF TypeOK, RtPc
  <2>2. ps_up' \in BOOLEAN
    BY <1>0, <1>4 DEF TypeOK
  <2> QED
    BY <1>0, <1>1, <1>2, <2>1, <2>2 DEF TypeOK
<1>8. RtOK'
  BY <1>0, <1>4, <1>5 DEF RtOK
<1>9. PsOK'
  BY <1>0, <1>1, <1>4, <1>5, <1>6 DEF PsOK, DfcPhase
<1>10. QmapOK'
  BY <1>0, <1>1, <1>2, <1>4, <1>5 DEF QmapOK
<1>11. QueriedWhenUp'
  BY <1>0, <1>1, <1>5 DEF QueriedWhenUp, IdleRt
<1> QED
  BY <1>0, <1>1, <1>2, <1>3, <1>4, <1>5, <1>7, <1>8, <1>9, <1>10, <1>11, RtFrame
     DEF SwitchOK

LEMMA DeleteWdaInv ==
    ASSUME ClientInv, DeleteWda
    PROVE  ClientInv' /\ (PowerOK => PowerOK')
<1> DEFINE mine == (rt.all \/ rt.todo = {0}) /\ ptr["wda"] # "none"
<1>0. /\ TypeOK /\ RtOK /\ PsOK /\ QmapOK /\ QueriedWhenUp /\ SwitchOK
      /\ client \in [Slots -> ClientRec]
  BY DEF ClientInv, TypeOK, ClientRec
<1>1. /\ rt.pc = "wda"
      /\ client' = [client EXCEPT !["wda"].restart = @ \/ mine]
      /\ exiting' = [i \in Indices |->
                       exiting[i] \/ (~mine /\ ~rt.all /\ i \in rt.todo)]
      /\ rt' = [rt EXCEPT !.pc = IF mine THEN "wdadrain"
                                 ELSE IF rt.all THEN "dfc" ELSE "flush"]
      /\ UNCHANGED <<qmi, ptr, ps_up, ps, qmapVars, mixed>>
  BY DEF DeleteWda
<1>2. UNCHANGED <<dfc_qmap, qmap, rx, switched, user>>
  BY <1>1 DEF qmapVars
<1>3. mine \in BOOLEAN /\ (mine => rt.all \/ rt.todo = {0})
  OBVIOUS
<1> HIDE DEF mine
<1>4. Keeps
  <2> DEFINE h == client["wda"].restart \/ mine
  <2>1. h \in BOOLEAN
    OBVIOUS
  <2>2. client' = [client EXCEPT !["wda"].restart = h]
    BY <1>1
  <2> HIDE DEF h
  <2> QED
    BY <1>0, <2>1, <2>2, SlotShape DEF Keeps, ClientRec
<1>5. /\ rt'.todo = rt.todo /\ rt'.all = rt.all
      /\ rt' \in [pc : RtPc, todo : SUBSET Indices, all : BOOLEAN]
      /\ \/ rt'.pc = "wdadrain" /\ mine
         \/ rt'.pc = "dfc" /\ ~mine /\ rt.all
         \/ rt'.pc = "flush" /\ ~mine /\ ~rt.all
  BY <1>0, <1>1, <1>3 DEF TypeOK, RtPc
<1>6. Now' = Now /\ rt.todo # {} /\ Now \in rt.todo /\ Now \in Indices
  BY <1>0, <1>1, <1>5, NowIn, SlotShape DEF Now, RtOK, TypeOK
<1>7. /\ exiting' \in [Indices -> BOOLEAN]
      /\ \A i \in Indices : exiting[i] => exiting'[i]
      /\ \A i \in Indices : exiting'[i] => exiting[i] \/ i \in rt.todo
      /\ ~mine /\ ~rt.all => exiting'[Now]
  BY <1>0, <1>1, <1>6 DEF TypeOK
<1>8. TypeOK'
  <2>1. client' \in [Slots -> [alloc : BOOLEAN, handle : BOOLEAN,
                               restart : BOOLEAN, queued : BOOLEAN,
                               wpc : {"idle", "marker", "init", "lock"},
                               via : {"qmi", "qmap"}]]
    BY <1>4 DEF Keeps, ClientRec
  <2> QED
    BY <1>0, <1>1, <1>2, <1>5, <1>6, <1>7, <2>1 DEF TypeOK
<1>9. RtOK'
  BY <1>0, <1>1, <1>3, <1>5, <1>6 DEF RtOK
<1>10. PsOK'
  BY <1>0, <1>1, <1>3, <1>5, <1>6, <1>7 DEF PsOK, DfcPhase, RtOK
<1>11. QmapOK'
  BY <1>0, <1>1, <1>2, <1>4, <1>5, SlotShape DEF QmapOK, Keeps, TypeOK
<1>12. QueriedWhenUp'
  BY <1>0, <1>1, <1>5, <1>7, SlotShape DEF QueriedWhenUp, IdleRt
<1>13. rt.pc \notin {"wdaclear", "clear"} /\ rt'.pc \notin {"wdaclear", "clear"}
  BY <1>1, <1>5
<1> QED
  BY <1>0, <1>1, <1>2, <1>4, <1>8, <1>9, <1>10, <1>11, <1>12, <1>13, RtFrame
     DEF SwitchOK

\* The WDA client goes: its work is over, then the pointers are cleared.
LEMMA WdaGoneInv ==
    ASSUME ClientInv, WdaDrained \/ WdaCleared
    PROVE  ClientInv' /\ (PowerOK => PowerOK')
<1>0. /\ TypeOK /\ RtOK /\ PsOK /\ DeadOK /\ PtrOK /\ QmapOK /\ SwitchOK
      /\ QmiOK /\ QueriedWhenUp /\ client \in [Slots -> ClientRec]
  BY DEF ClientInv, TypeOK, ClientRec
<1>1. UNCHANGED <<qmi, exiting, ps_up, ps, qmapVars, mixed>>
  BY DEF WdaDrained, WdaCleared
<1>2. UNCHANGED <<dfc_qmap, qmap, rx, switched, user>>
  BY <1>1 DEF qmapVars
<1>3. \/ /\ rt.pc = "wdadrain" /\ rt' = [rt EXCEPT !.pc = "wdaclear"]
         /\ client' = [client EXCEPT !["wda"] = NoClient] /\ ptr' = ptr
      \/ /\ rt.pc = "wdaclear" /\ rt' = [rt EXCEPT !.pc = "dfc"]
         /\ client' = client /\ ptr' = [ptr EXCEPT !["wda"] = "none"]
  BY DEF WdaDrained, WdaCleared
<1>4. /\ rt'.todo = rt.todo /\ rt'.all = rt.all
      /\ rt' \in [pc : RtPc, todo : SUBSET Indices, all : BOOLEAN]
      /\ \/ rt.pc = "wdadrain" /\ rt'.pc = "wdaclear"
         \/ rt.pc = "wdaclear" /\ rt'.pc = "dfc"
  BY <1>0, <1>3 DEF TypeOK, RtPc
<1>5. Now' = Now
  BY <1>4 DEF Now
<1>6. ~ps_up /\ ps.pc = "idle" /\ ps.uses = {}
  BY <1>0, <1>4 DEF PsOK, RtOK
<1>7. /\ client' \in [Slots -> ClientRec]
      /\ client'["dfc0"] = client["dfc0"] /\ client'["dfc1"] = client["dfc1"]
      /\ ptr' \in [Slots -> {"none", "pending", "client"}]
      /\ ptr'["dfc0"] = ptr["dfc0"] /\ ptr'["dfc1"] = ptr["dfc1"]
      /\ ~client'["wda"].alloc
      /\ ~client'["wda"].handle /\ ~client'["wda"].queued /\ client'["wda"].wpc = "idle"
      /\ rt'.pc = "dfc" => ptr'["wda"] = "none"
      /\ rt'.pc = "wdaclear" => ptr' = ptr
  <2>1. CASE rt.pc = "wdadrain"
    BY <1>0, <1>3, <1>4, <2>1, ClientTypes, SlotShape DEF TypeOK
  <2>2. CASE rt.pc = "wdaclear"
    <3>1. ~client["wda"].alloc
      BY <1>0, <2>2, SlotShape DEF PtrOK, Dangling
    <3>2. ~client["wda"].handle /\ ~client["wda"].queued /\ client["wda"].wpc = "idle"
      BY <1>0, <3>1, SlotShape DEF DeadOK
    <3>3. client' = client /\ ptr' = [ptr EXCEPT !["wda"] = "none"] /\ rt'.pc = "dfc"
      BY <1>3, <1>4, <2>2
    <3> QED
      BY <1>0, <3>1, <3>2, <3>3, SlotShape DEF TypeOK
  <2> QED
    BY <1>4, <2>1, <2>2
<1>8. TypeOK'
  BY <1>0, <1>1, <1>2, <1>4, <1>7 DEF TypeOK, ClientRec, RtOK
<1>9. RtOK'
  BY <1>0, <1>4, <1>5 DEF RtOK
<1>10. PsOK'
  BY <1>0, <1>1, <1>4, <1>6 DEF PsOK
<1>11. DeadOK'
  BY <1>0, <1>1, <1>6, <1>7, SlotShape DEF DeadOK
<1>12. PtrOK'
  BY <1>0, <1>4, <1>5, <1>7, SlotShape DEF PtrOK, Dangling
<1>13. QmapOK'
  BY <1>0, <1>2, <1>4, <1>7, SlotShape DEF QmapOK, TypeOK
<1>14. SwitchOK'
  BY <1>0, <1>1, <1>2, <1>7, SlotShape DEF SwitchOK
<1>15. QmiOK' /\ QueriedWhenUp'
  BY <1>0, <1>1, <1>4, <1>7, SlotShape DEF QmiOK, QueriedWhenUp, NoRef, IdleRt
<1>16. PowerOK'
  BY <1>1, <1>6 DEF PowerOK
<1> QED
  BY <1>8, <1>9, <1>10, <1>11, <1>12, <1>13, <1>14, <1>15, <1>16 DEF ClientInv

\* A DFC client is about to go: over QMI its work is to be drained, over QMAP
\* rmnet_ctl forgets it.
LEMMA DeleteDfcInv ==
    ASSUME ClientInv, ~mixed, DeleteDfc \/ CtlFreed
    PROVE  ClientInv' /\ (PowerOK => PowerOK')
<1> DEFINE d == DfcSlot(Now)
<1>0. /\ TypeOK /\ RtOK /\ PsOK /\ PtrOK /\ QmapOK /\ SwitchOK
      /\ QueriedWhenUp /\ client \in [Slots -> ClientRec]
      /\ qmap \in [data : Dfc \cup {"none"}, ctl : {"none", "set", "gone"}]
  BY DEF ClientInv, TypeOK, ClientRec
<1>1. UNCHANGED <<qmi, ptr, exiting, ps_up, ps, dfc_qmap, rx, switched, user>>
  BY DEF DeleteDfc, CtlFreed
<1>2. d \in Dfc /\ d \in Slots /\ d # "wda"
  BY SlotShape
<1>3. rt.pc \in {"dfc", "ctlwait"} /\ ~Dangling(d) /\ rt.todo # {}
  BY <1>0 DEF DeleteDfc, CtlFreed, Dangling, RtOK
<1>4. client[d].alloc <=> ptr[d] # "none"
  BY <1>0, <1>2, <1>3 DEF PtrOK
<1>5. \/ /\ rt' = [rt EXCEPT !.pc = "last"] /\ ptr[d] = "none"
         /\ UNCHANGED <<client, qmap, mixed>> /\ rt.pc = "dfc"
      \/ /\ rt' = rt /\ UNCHANGED <<client, qmap>> /\ client[d].alloc
         /\ dfc_qmap # (client[d].via = "qmap") /\ mixed' = TRUE /\ rt.pc = "dfc"
      \/ /\ rt' = [rt EXCEPT !.pc = "drain"] /\ client[d].alloc
         /\ client[d].via = "qmi" /\ rt.pc = "dfc"
         /\ client' = [client EXCEPT ![d].restart = TRUE, ![d].handle = FALSE]
         /\ UNCHANGED <<qmap, mixed>>
      \/ /\ rt' = [rt EXCEPT !.pc = "ctlwait"] /\ client[d].alloc
         /\ client[d].via = "qmap" /\ rt.pc = "dfc"
         /\ qmap' = [qmap EXCEPT !.ctl = "gone"] /\ UNCHANGED <<client, mixed>>
      \/ /\ rt.pc = "ctlwait" /\ rt' = [rt EXCEPT !.pc = "qmapwait"]
         /\ qmap' = NoQmap /\ rx.pc = "idle" /\ UNCHANGED mixed
         /\ client' = [client EXCEPT ![d].restart = TRUE]
  BY <1>4 DEF DeleteDfc, CtlFreed, GracePeriod
<1> HIDE DEF d
<1>6. Keeps
  <2>1. CASE client' = client
    BY <1>0, <2>1 DEF Keeps
  <2>2. CASE client' = [client EXCEPT ![d].restart = TRUE, ![d].handle = FALSE]
    BY <1>0, <1>2, <2>2 DEF Keeps, ClientRec
  <2>3. CASE client' = [client EXCEPT ![d].restart = TRUE]
    BY <1>0, <1>2, <2>3 DEF Keeps, ClientRec
  <2> QED
    BY <1>5, <2>1, <2>2, <2>3
<1>7. /\ rt'.todo = rt.todo /\ rt'.all = rt.all
      /\ rt' \in [pc : RtPc, todo : SUBSET Indices, all : BOOLEAN]
      /\ rt'.pc \in DfcPhase /\ rt'.pc # "clear"
  BY <1>0, <1>5 DEF TypeOK, RtPc, DfcPhase
<1>8. Now' = Now /\ DfcSlot(Now)' = d
  BY <1>7 DEF Now, d, DfcSlot
<1>9. qmap' \in [data : Dfc \cup {"none"}, ctl : {"none", "set", "gone"}]
  BY <1>0, <1>5 DEF NoQmap
<1>10. mixed' \in BOOLEAN /\ (mixed' => switched)
  <2>1. CASE mixed' = mixed
    BY <1>0, <2>1 DEF TypeOK, SwitchOK
  <2>2. CASE mixed' = TRUE /\ client[d].alloc /\ dfc_qmap # (client[d].via = "qmap")
    <3>1. dfc_qmap \in BOOLEAN
      BY <1>0 DEF TypeOK
    <3>2. ~(client[d].via = "qmap" <=> dfc_qmap)
      BY <2>2, <3>1, Zenon
    <3>3. switched
      BY <1>0, <1>2, <2>2, <3>2 DEF SwitchOK
    <3> QED
      BY <2>2, <3>3
  <2> QED
    BY <1>5, <2>1, <2>2
<1>11. TypeOK'
  BY <1>0, <1>1, <1>3, <1>6, <1>7, <1>9, <1>10 DEF TypeOK, Keeps, ClientRec
<1>12. \/ rt'.pc = "last" /\ ptr[d] = "none" /\ qmap' = qmap
       \/ rt'.pc = "dfc" /\ qmap' = qmap
       \/ rt'.pc = "drain" /\ client[d].alloc /\ client[d].via = "qmi" /\ qmap' = qmap
       \/ /\ rt'.pc = "ctlwait" /\ client[d].alloc /\ client[d].via = "qmap"
          /\ qmap'.data = qmap.data /\ qmap'.ctl = "gone" /\ rt.pc = "dfc"
       \/ /\ rt'.pc = "qmapwait" /\ client[d].alloc /\ client[d].via = "qmap"
          /\ qmap' = NoQmap /\ rx.pc = "idle" /\ rt.pc = "ctlwait"
  BY <1>0, <1>5 DEF RtOK, d, TypeOK
<1>13. RtOK'
  <2>1. /\ client'[d].alloc <=> client[d].alloc
        /\ client'[d].via = client[d].via
    BY <1>2, <1>6 DEF Keeps
  <2> QED
    BY <1>0, <1>1, <1>3, <1>7, <1>8, <1>12, <2>1 DEF RtOK, d
<1>14. PsOK'
  BY <1>0, <1>1, <1>3, <1>7, <1>8 DEF PsOK, DfcPhase
<1>15. QmapOK'
  <2>1. client[d].alloc /\ client[d].via = "qmap" => qmap.data = d
    BY <1>0, <1>2, <1>3 DEF QmapOK
  <2>2. \A s \in Dfc : client[s].alloc /\ client[s].via = "qmap" => qmap.data = s
    BY <1>0, <1>3 DEF QmapOK
  <2>3. \A s \in Dfc : /\ client'[s].alloc <=> client[s].alloc
                       /\ client'[s].via = client[s].via
    BY <1>6, SlotShape DEF Keeps
  <2>4. CASE qmap' = qmap
    BY <1>0, <1>1, <2>2, <2>3, <2>4 DEF QmapOK
  <2>5. CASE /\ rt'.pc = "ctlwait" /\ qmap'.data = qmap.data /\ qmap'.ctl = "gone"
             /\ client[d].alloc /\ client[d].via = "qmap"
    BY <1>0, <1>1, <1>2, <2>1, <2>2, <2>3, <2>5, SlotShape DEF QmapOK
  <2>6. CASE /\ rt'.pc = "qmapwait" /\ qmap' = NoQmap /\ rx.pc = "idle"
             /\ client[d].alloc /\ client[d].via = "qmap"
    <3>1. qmap'.data = "none" /\ qmap'.ctl = "none" /\ rx'.pc = "idle" /\ rx'.uses = {}
      BY <1>0, <1>1, <2>6 DEF NoQmap, QmapOK
    <3>2. \A s \in Dfc : client'[s].alloc /\ client'[s].via = "qmap" => s = d
      BY <2>1, <2>2, <2>3, <2>6
    <3> QED
      BY <1>8, <2>6, <3>1, <3>2 DEF QmapOK
  <2> QED
    BY <1>12, <2>4, <2>5, <2>6
<1>16. QueriedWhenUp'
  BY <1>0, <1>1, <1>7 DEF QueriedWhenUp, IdleRt, DfcPhase
<1>17. /\ rt.pc \notin {"wdaclear", "clear"} /\ rt'.pc \notin {"wdaclear", "clear"}
       /\ ps_up' => ps_up
       /\ UNCHANGED <<qmi, ptr, ps, dfc_qmap, switched>>
  BY <1>1, <1>3, <1>7 DEF DfcPhase
<1> QED
  BY <1>6, <1>10, <1>11, <1>13, <1>14, <1>15, <1>16, <1>17, RtFrame

\* The DFC client is freed: nobody uses it.
LEMMA DfcFreedInv ==
    ASSUME ClientInv, DfcDrained \/ QmapFreed
    PROVE  ClientInv' /\ (PowerOK => PowerOK')
<1> DEFINE d == DfcSlot(Now)
<1>0. /\ TypeOK /\ RtOK /\ PsOK /\ DeadOK /\ PtrOK /\ QmapOK /\ SwitchOK
      /\ QmiOK /\ QueriedWhenUp /\ client \in [Slots -> ClientRec]
  BY DEF ClientInv, TypeOK, ClientRec
<1>1. UNCHANGED <<qmi, ptr, exiting, ps_up, ps, qmapVars, mixed>>
  BY DEF DfcDrained, QmapFreed
<1>2. UNCHANGED <<dfc_qmap, qmap, rx, switched, user>>
  BY <1>1 DEF qmapVars
<1>3. /\ rt.pc \in {"drain", "qmapwait"} /\ rt' = [rt EXCEPT !.pc = "clear"]
      /\ client' = [client EXCEPT ![d] = NoClient]
  BY DEF DfcDrained, QmapFreed
<1>4. d \in Dfc /\ d \in Slots /\ d # "wda" /\ d # "none"
  BY SlotShape
<1>5. /\ rt'.todo = rt.todo /\ rt'.all = rt.all /\ rt'.pc = "clear" /\ rt.todo # {}
      /\ rt' \in [pc : RtPc, todo : SUBSET Indices, all : BOOLEAN]
  BY <1>0, <1>3 DEF TypeOK, RtPc, RtOK
<1>6. qmap.data # d
  BY <1>0, <1>3, <1>4 DEF RtOK, QmapOK, NoQmap
<1>7. d \notin ps.uses
  BY <1>0, <1>3 DEF PsOK, DfcPhase
<1>8. Now' = Now /\ DfcSlot(Now)' = d
  BY <1>5 DEF Now, d, DfcSlot
<1> HIDE DEF d
<1>9. /\ client' \in [Slots -> ClientRec] /\ client'[d] = NoClient
      /\ \A t \in Slots : t # d => client'[t] = client[t]
  BY <1>0, <1>3, <1>4, ClientTypes
<1>10. /\ ~client'[d].alloc /\ ~client'[d].handle /\ ~client'[d].queued
       /\ client'[d].wpc = "idle"
  BY <1>9, ClientTypes
<1>11. TypeOK'
  BY <1>0, <1>1, <1>2, <1>5, <1>9 DEF TypeOK, ClientRec
<1>12. RtOK'
  BY <1>0, <1>5 DEF RtOK
<1>13. PsOK'
  BY <1>0, <1>1, <1>3, <1>5, <1>8 DEF PsOK, DfcPhase
<1>14. DeadOK'
  BY <1>0, <1>1, <1>7, <1>9, <1>10 DEF DeadOK
<1>15. PtrOK'
  BY <1>0, <1>1, <1>3, <1>4, <1>5, <1>8, <1>9, <1>10 DEF PtrOK, Dangling, d
<1>16. QmapOK'
  <2>1. \A s \in Dfc : client'[s].alloc => s # d /\ client'[s] = client[s]
    BY <1>9, <1>10, SlotShape
  <2>2. \A s \in Dfc : client'[s].alloc /\ client'[s].via = "qmap" => qmap.data = s
    BY <1>0, <2>1 DEF QmapOK, d
  <2>3. qmap.data # "none" => client'[qmap.data] = client[qmap.data]
    BY <1>0, <1>6, <1>9, SlotShape DEF TypeOK
  <2> QED
    BY <1>0, <1>2, <2>2, <2>3 DEF QmapOK
<1>17. SwitchOK'
  BY <1>0, <1>1, <1>2, <1>9, <1>10, SlotShape DEF SwitchOK
<1>18. QmiOK' /\ QueriedWhenUp'
  BY <1>0, <1>1, <1>5 DEF QmiOK, QueriedWhenUp, NoRef, IdleRt
<1>19. PowerOK => PowerOK'
  BY <1>1 DEF PowerOK
<1> QED
  BY <1>11, <1>12, <1>13, <1>14, <1>15, <1>16, <1>17, <1>18, <1>19 DEF ClientInv

\* Its pointers are cleared.
LEMMA DfcClearedInv ==
    ASSUME ClientInv, DfcCleared
    PROVE  ClientInv' /\ (PowerOK => PowerOK')
<1> DEFINE d == DfcSlot(Now)
<1>0. /\ TypeOK /\ RtOK /\ PsOK /\ DeadOK /\ PtrOK /\ QmapOK /\ SwitchOK
      /\ QmiOK /\ QueriedWhenUp
  BY DEF ClientInv
<1>1. UNCHANGED <<qmi, client, exiting, ps_up, ps, qmapVars, mixed>>
  BY DEF DfcCleared
<1>2. UNCHANGED <<dfc_qmap, qmap, rx, switched, user>>
  BY <1>1 DEF qmapVars
<1>3. /\ rt.pc = "clear" /\ rt' = [rt EXCEPT !.pc = "last"]
      /\ ptr' = [ptr EXCEPT ![d] = "none"]
  BY DEF DfcCleared
<1>4. d \in Dfc /\ d \in Slots /\ d # "wda" /\ Now \in rt.todo
  BY <1>0, <1>3, SlotShape, NowIn DEF TypeOK
<1>5. /\ rt'.todo = rt.todo /\ rt'.all = rt.all /\ rt'.pc = "last" /\ rt.todo # {}
      /\ rt' \in [pc : RtPc, todo : SUBSET Indices, all : BOOLEAN]
  BY <1>0, <1>3 DEF TypeOK, RtPc, RtOK
<1>6. Now' = Now /\ DfcSlot(Now)' = d
  BY <1>5 DEF Now, d, DfcSlot
<1>7. /\ ptr' \in [Slots -> {"none", "pending", "client"}]
      /\ ptr'[d] = "none" /\ \A t \in Slots : t # d => ptr'[t] = ptr[t]
  BY <1>0, <1>3, <1>4 DEF TypeOK
<1>8. ~client[d].alloc
  BY <1>0, <1>3, <1>4 DEF PtrOK, Dangling
<1>9. TypeOK'
  BY <1>0, <1>1, <1>2, <1>5, <1>7 DEF TypeOK
<1>10. RtOK'
  BY <1>0, <1>5, <1>6, <1>7 DEF RtOK
<1>11. PsOK'
  BY <1>0, <1>1, <1>3, <1>5, <1>6 DEF PsOK, DfcPhase
<1>12. DeadOK' /\ SwitchOK'
  BY <1>0, <1>1, <1>2 DEF DeadOK, SwitchOK
<1>13. PtrOK'
  BY <1>0, <1>1, <1>3, <1>5, <1>7, <1>8 DEF PtrOK, Dangling
<1>14. QmapOK'
  BY <1>0, <1>1, <1>2, <1>3, <1>5 DEF QmapOK
<1>15. QmiOK' /\ QueriedWhenUp'
  BY <1>0, <1>1, <1>5, <1>7, SlotShape DEF QmiOK, QueriedWhenUp, NoRef, IdleRt
<1>16. PowerOK => PowerOK'
  <2>1. CASE Now = 0
    BY <1>0, <1>1, <1>3, <1>4, <2>1 DEF PsOK, PowerOK
  <2>2. CASE Now = 1
    <3>1. ptr'["dfc0"] = ptr["dfc0"] /\ ptr'["wda"] = ptr["wda"]
      BY <1>7, <2>2, SlotShape
    <3> QED
      BY <1>1, <3>1 DEF PowerOK
  <2> QED
    BY <2>1, <2>2, SlotShape
<1> QED
  BY <1>9, <1>10, <1>11, <1>12, <1>13, <1>14, <1>15, <1>16 DEF ClientInv

\* The next client, or the end
LEMMA LastInv ==
    ASSUME ClientInv, Last
    PROVE  ClientInv' /\ (PowerOK => PowerOK')
<1>0. /\ TypeOK /\ RtOK /\ PsOK /\ DeadOK /\ PtrOK /\ QmapOK /\ SwitchOK
      /\ QmiOK /\ QueriedWhenUp
  BY DEF ClientInv
<1>1. UNCHANGED <<ptr, client, exiting, ps_up, ps, qmapVars, mixed>>
  BY DEF Last
<1>2. UNCHANGED <<dfc_qmap, qmap, rx, switched, user>>
  BY <1>1 DEF qmapVars
<1>3. /\ rt.pc = "last" /\ qmi' = ~NoRef(ptr)
      /\ rt' = IF qmi' /\ rt.todo \ {Now} # {}
               THEN [rt EXCEPT !.pc = "dfc", !.todo = @ \ {Now}] ELSE IdleRt
  BY DEF Last
<1>4. /\ rt.todo \subseteq Indices /\ Now \in rt.todo /\ ptr[DfcSlot(Now)] = "none"
      /\ rt \in [pc : RtPc, todo : SUBSET Indices, all : BOOLEAN]
  BY <1>0, <1>3, NowIn DEF TypeOK, RtOK
<1>5. qmi' \in BOOLEAN /\ (qmi' <=> ~NoRef(ptr))
  BY <1>3, Zenon DEF NoRef
<1>6. \/ /\ rt' = IdleRt /\ (~qmi' \/ rt.todo = {Now})
      \/ /\ rt'.pc = "dfc" /\ rt'.todo = rt.todo \ {Now} /\ rt'.todo # {}
         /\ rt'.all = rt.all /\ rt' \in [pc : RtPc, todo : SUBSET Indices, all : BOOLEAN]
  BY <1>3, <1>4 DEF RtPc
<1>7. rt' \in [pc : RtPc, todo : SUBSET Indices, all : BOOLEAN]
  <2>1. IdleRt \in [pc : RtPc, todo : SUBSET Indices, all : BOOLEAN]
    BY DEF IdleRt, RtPc
  <2> QED
    BY <1>6, <2>1
<1>8. TypeOK'
  BY <1>0, <1>1, <1>2, <1>5, <1>6, <1>7 DEF TypeOK, IdleRt
<1>9. CASE rt' = IdleRt
  <2>1. rt'.pc = "idle" /\ rt'.todo = {} /\ rt'.all = FALSE
    BY <1>9 DEF IdleRt
  <2>2. RtOK'
    BY <1>9, <2>1 DEF RtOK, IdleRt
  <2>3. PsOK'
    BY <1>0, <1>1, <2>1 DEF PsOK, DfcPhase
  <2>4. PtrOK' /\ QmapOK' /\ DeadOK' /\ SwitchOK'
    BY <1>0, <1>1, <1>2, <1>3, <2>1 DEF PtrOK, QmapOK, DeadOK, SwitchOK, Dangling
  <2>5. QmiOK'
    BY <1>1, <1>5 DEF QmiOK, NoRef
  <2>6. QueriedWhenUp'
    <3>1. CASE NoRef(ptr)
      <4>1. \A i \in Indices : ptr'[DfcSlot(i)] = "none"
        BY <1>1, <3>1, SlotShape DEF NoRef
      <4> QED
        BY <4>1 DEF QueriedWhenUp
    <3>2. CASE rt.todo = {Now}
      BY <1>0, <1>1, <1>4, <3>2 DEF QueriedWhenUp
    <3> QED
      BY <1>5, <1>6, <2>1, <3>1, <3>2
  <2>7. PowerOK => PowerOK'
    BY <1>1 DEF PowerOK
  <2> QED
    BY <1>8, <2>2, <2>3, <2>4, <2>5, <2>6, <2>7 DEF ClientInv
<1>10. CASE rt' # IdleRt
  <2>1. /\ rt'.pc = "dfc" /\ rt'.todo = rt.todo \ {Now} /\ rt'.todo # {}
        /\ rt'.all = rt.all
    BY <1>6, <1>10
  <2>2. rt.all
    BY <1>0, <1>4, <2>1 DEF RtOK
  <2>3. RtOK'
    BY <2>1, <2>2 DEF RtOK
  <2>4. PsOK'
    BY <1>0, <1>1, <1>3, <2>1, <2>2 DEF PsOK, DfcPhase
  <2>5. PtrOK' /\ QmapOK' /\ DeadOK' /\ SwitchOK'
    BY <1>0, <1>1, <1>2, <1>3, <2>1 DEF PtrOK, QmapOK, DeadOK, SwitchOK, Dangling
  <2>6. QmiOK'
    BY <1>1, <1>5 DEF QmiOK, NoRef
  <2>7. QueriedWhenUp'
    BY <1>0, <1>1, <1>4, <1>10, <2>1 DEF QueriedWhenUp
  <2>8. PowerOK => PowerOK'
    BY <1>1 DEF PowerOK
  <2> QED
    BY <1>8, <2>3, <2>4, <2>5, <2>6, <2>7, <2>8 DEF ClientInv
<1> QED
  BY <1>9, <1>10

-----------------------------------------------------------------------------
(* Clients are set up.                                                     *)

\* The slots a request creates clients for are empty; one of them is a DFC slot
LEMMA MadeShape ==
    ASSUME NEW i \in Indices, NEW save, NEW q, NEW made \in SUBSET Slots,
           made \subseteq Possible(Tried(i, save), q)
    PROVE  /\ \A s \in made : s \in Slots /\ ptr[s] = "none" /\ s \in Tried(i, save)
           /\ \A s \in made : s \in Dfc => s = DfcSlot(i)
           /\ q /\ (\E s \in made : s \in Dfc) => qmap.data = "none"
<1>1. made \subseteq Tried(i, save)
  BY DEF Possible
<1>2. q /\ qmap.data # "none" => \A s \in made : s \notin Dfc
  BY DEF Possible
<1>3. \A s \in Tried(i, save) : ptr[s] = "none" /\ (s = DfcSlot(i) \/ s = "wda")
  BY DEF Tried
<1> QED
  BY <1>1, <1>2, <1>3, SlotShape

LEMMA SetupInv ==
    ASSUME ClientInv, ~mixed, NEW i \in Indices, NEW save \in BOOLEAN,
           NEW q \in BOOLEAN, NEW made \in SUBSET Slots, NEW reg \in BOOLEAN,
           SetupClient(i, save, q, made, reg)
    PROVE  ClientInv' /\ ((save => i = 0) /\ PowerOK => PowerOK')
<1> DEFINE d == DfcSlot(i)
           tried == Tried(i, save)
           last == IF "wda" \in tried THEN "wda" ELSE d
           err == last \in tried \ made
<1>0. /\ TypeOK /\ RtOK /\ PsOK /\ DeadOK /\ PtrOK /\ QmapOK /\ SwitchOK
      /\ QmiOK /\ QueriedWhenUp /\ client \in [Slots -> ClientRec]
      /\ qmap \in [data : Dfc \cup {"none"}, ctl : {"none", "set", "gone"}]
  BY DEF ClientInv, TypeOK, ClientRec
<1>1. /\ rt = IdleRt /\ made \subseteq Possible(tried, q) /\ Create(made, q, reg)
      /\ exiting' = [j \in Indices |->
                       qmi /\ exiting[j] /\ ~(j = i /\ DfcSlot(i) \in tried)]
      /\ qmi' = ~(err /\ NoRef(ptr'))
      /\ ps_up' = (ps_up \/ (save /\ ~err))
      /\ UNCHANGED <<ps, rt, rx, user, mixed>>
  BY DEF SetupClient
<1>2. d \in Dfc /\ d \in Slots /\ d # "wda" /\ d # "none"
  BY SlotShape
<1>3. /\ \A s \in made : s \in Slots /\ ptr[s] = "none" /\ s \in tried
      /\ \A s \in made : s \in Dfc => s = d
      /\ q /\ (\E s \in made : s \in Dfc) => qmap.data = "none"
  BY <1>1, MadeShape
<1>4. rt.pc = "idle" /\ rt'.pc = "idle" /\ rt' = IdleRt
  BY <1>1 DEF IdleRt
<1>5. \A s \in Slots : ptr[s] # "none" <=> client[s].alloc
  BY <1>0, <1>4 DEF PtrOK, Dangling
<1>6. /\ \A s \in Slots : s \notin made => ptr'[s] = ptr[s] /\ client'[s] = client[s]
      /\ \A s \in made : /\ ptr'[s] \in {"pending", "client"}
                         /\ client'[s] \in {QmiClient, QmapClient}
                         /\ client'[s] = QmapClient <=> q /\ s \in Dfc
      /\ ptr' = [s \in Slots |-> ptr'[s]] /\ client' = [s \in Slots |-> client'[s]]
  <2>1. QmiClient # QmapClient
    BY ClientTypes
  <2> QED
    BY <1>1, <1>3, <2>1 DEF Create
<1>7. \A s \in made : /\ client'[s].alloc /\ client'[s] \in ClientRec
                      /\ client'[s].via = "qmap" <=> q /\ s \in Dfc
  BY <1>6, ClientTypes
<1>8. /\ ptr' \in [Slots -> {"none", "pending", "client"}]
      /\ client' \in [Slots -> ClientRec]
  <2>1. \A s \in Slots : ptr'[s] \in {"none", "pending", "client"} /\ client'[s] \in ClientRec
    BY <1>0, <1>6, <1>7 DEF TypeOK
  <2> QED
    BY <1>6, <2>1
<1>9. \/ /\ q /\ d \in made /\ qmap.data = "none" /\ qmap'.data = d
         /\ qmap' \in [data : Dfc \cup {"none"}, ctl : {"none", "set", "gone"}]
      \/ qmap' = qmap /\ (d \in made => ~q)
  <2>1. CASE q /\ made \cap Dfc # {}
    <3>1. d \in made /\ (CHOOSE s \in made : s \in Dfc) = d
      <4>1. \E s \in made : s \in Dfc
        BY <2>1
      <4>2. /\ (CHOOSE s \in made : s \in Dfc) \in made
            /\ (CHOOSE s \in made : s \in Dfc) \in Dfc
        BY <4>1
      <4> QED
        BY <1>3, <4>2
    <3>2. qmap' = [data |-> d, ctl |-> IF reg THEN "set" ELSE "none"]
      BY <1>1, <2>1, <3>1 DEF Create
    <3> QED
      BY <1>2, <1>3, <2>1, <3>1, <3>2
  <2>2. CASE ~(q /\ made \cap Dfc # {})
    <3>1. qmap' = qmap
      BY <1>1, <2>2 DEF Create
    <3> QED
      BY <1>2, <2>2, <3>1
  <2> QED
    BY <2>1, <2>2
<1>10. /\ dfc_qmap' = q
       /\ switched' = ((switched \/ q # dfc_qmap) /\ \E s \in Dfc : client[s].alloc)
  BY <1>1 DEF Create
<1>11. switched' \in BOOLEAN /\ qmi' \in BOOLEAN /\ ps_up' \in BOOLEAN
  BY <1>1, <1>10
<1>12. /\ qmi' <=> ~(err /\ NoRef(ptr'))
       /\ ps_up' <=> (ps_up \/ (save /\ ~err))
  BY <1>1, Zenon DEF NoRef
<1>13. exiting' \in [Indices -> BOOLEAN]
  BY <1>1
<1>14. \A j \in Indices : exiting'[j] => exiting[j] /\ ~(j = i /\ d \in tried)
  BY <1>1
<1>15. Now' = Now
  BY <1>1 DEF Now
<1> HIDE DEF err, last, tried, d
<1>16. TypeOK'
  BY <1>0, <1>1, <1>4, <1>8, <1>9, <1>10, <1>11, <1>13 DEF TypeOK, ClientRec
<1>17. RtOK'
  BY <1>4 DEF RtOK, IdleRt
<1>18. PsOK'
  BY <1>0, <1>1, <1>4, <1>12 DEF PsOK, DfcPhase
<1>19. DeadOK'
  BY <1>0, <1>1, <1>6, <1>7 DEF DeadOK
<1>20. PtrOK'
  BY <1>4, <1>5, <1>6, <1>7 DEF PtrOK, Dangling
<1>21. QmapOK'
  <2>1. CASE q /\ d \in made /\ qmap.data = "none" /\ qmap'.data = d
    <3>1. qmap.ctl = "none" /\ rx.pc = "idle" /\ rx.uses = {}
      BY <1>0, <2>1 DEF QmapOK
    <3>2. \A s \in Dfc : ~(client[s].alloc /\ client[s].via = "qmap")
      BY <1>0, <1>4, <2>1, SlotShape DEF QmapOK
    <3>3. \A s \in Dfc : s # d => client'[s] = client[s]
      BY <1>3, <1>6, SlotShape
    <3>4. client'[d].alloc /\ client'[d].via = "qmap"
      BY <1>2, <1>7, <2>1
    <3> QED
      BY <1>1, <1>2, <2>1, <3>1, <3>2, <3>3, <3>4 DEF QmapOK
  <2>2. CASE qmap' = qmap /\ (d \in made => ~q)
    <3>1. \A s \in Dfc : \/ client'[s] = client[s]
                         \/ ~client[s].alloc /\ client'[s].via # "qmap"
      BY <1>3, <1>5, <1>6, <1>7, <2>2, SlotShape
    <3>2. \A s \in Dfc : client'[s].alloc /\ client'[s].via = "qmap" <=>
                         client[s].alloc /\ client[s].via = "qmap"
      BY <3>1
    <3> QED
      BY <1>0, <1>1, <1>4, <2>2, <3>2 DEF QmapOK
  <2> QED
    BY <1>9, <2>1, <2>2
<1>22. SwitchOK'
  <2>1. ~mixed'
    BY <1>1
  <2>2. ASSUME ~switched', NEW s \in Dfc, client'[s].alloc
        PROVE  client'[s].via = "qmap" <=> q
    <3>1. CASE s \in made
      BY <1>7, <3>1
    <3>2. CASE s \notin made
      <4>1. client'[s] = client[s] /\ client[s].alloc
        BY <1>6, <2>2, <3>2, SlotShape
      <4>2. ~(switched \/ q # dfc_qmap)
        BY <1>10, <2>2, <4>1, Zenon
      <4> QED
        BY <1>0, <4>1, <4>2 DEF SwitchOK
    <3> QED
      BY <3>1, <3>2
  <2> QED
    BY <1>10, <2>1, <2>2 DEF SwitchOK
<1>23. QmiOK'
  BY <1>12 DEF QmiOK, NoRef
<1>24. QueriedWhenUp'
  <2>1. ASSUME NEW j \in Indices, exiting'[j] PROVE ptr'[DfcSlot(j)] = "none"
    <3>1. ptr[DfcSlot(j)] = "none"
      BY <1>0, <1>1, <1>14, <2>1 DEF QueriedWhenUp
    <3>2. DfcSlot(j) \notin made
      BY <1>3, <1>14, <2>1, SlotShape DEF d
    <3> QED
      BY <1>6, <3>1, <3>2, SlotShape
  <2> QED
    BY <2>1 DEF QueriedWhenUp
<1>25. (save => i = 0) /\ PowerOK => PowerOK'
  <2> SUFFICES ASSUME save => i = 0, PowerOK, ps_up'
               PROVE  ptr'["dfc0"] # "none" \/ ptr'["wda"] # "none"
    BY DEF PowerOK
  <2>1. \A s \in Slots : ptr[s] # "none" => ptr'[s] # "none"
    BY <1>3, <1>6
  <2>2. CASE ps_up
    BY <2>1, <2>2, SlotShape DEF PowerOK
  <2>3. CASE save /\ ~err
    <3>1. CASE "wda" \in tried
      <4>1. "wda" \in made
        BY <2>3, <3>1 DEF err, last
      <4> QED
        BY <1>6, <4>1
    <3>2. CASE "wda" \notin tried
      <4>1. ptr["wda"] # "none"
        BY <2>3, <3>2 DEF tried, Tried
      <4> QED
        BY <2>1, <4>1, SlotShape
    <3> QED
      BY <3>1, <3>2
  <2> QED
    BY <1>12, <2>2, <2>3
<1> QED
  BY <1>16, <1>17, <1>18, <1>19, <1>20, <1>21, <1>22, <1>23, <1>24, <1>25 DEF ClientInv

-----------------------------------------------------------------------------
(* The theorems.                                                           *)

LEMMA InitInv == Init => ClientInv /\ PowerOK /\ user \in Setups
<1> SUFFICES ASSUME Init PROVE ClientInv /\ PowerOK /\ user \in Setups
  OBVIOUS
<1>0. /\ rt = IdleRt /\ rt.pc = "idle" /\ ps.pc = "idle" /\ ps.uses = {}
      /\ rx.pc = "idle" /\ rx.uses = {} /\ qmap.data = "none" /\ qmap.ctl = "none"
      /\ ~qmi /\ ~ps_up /\ ~mixed /\ user \in Setups
      /\ \A s \in Slots : ptr[s] = "none" /\ client[s] = NoClient
      /\ \A i \in Indices : ~exiting[i]
  BY DEF Init, IdleRt, IdleRx, NoQmap
<1>1. TypeOK
  <2>1. /\ ptr \in [Slots -> {"none", "pending", "client"}]
        /\ client \in [Slots -> ClientRec]
    BY ClientTypes DEF Init
  <2>2. exiting \in [Indices -> BOOLEAN]
    BY DEF Init
  <2>3. rt \in [pc : RtPc, todo : SUBSET Indices, all : BOOLEAN]
    BY DEF Init, IdleRt, RtPc
  <2>4. /\ ps \in [pc : {"idle", "mode", "query0", "query1"}, uses : SUBSET Slots]
        /\ qmap \in [data : Dfc \cup {"none"}, ctl : {"none", "set", "gone"}]
        /\ rx \in [pc : {"idle", "hook", "cmd"}, uses : SUBSET Dfc]
    BY DEF Init, NoQmap, IdleRx
  <2>5. /\ qmi \in BOOLEAN /\ ps_up \in BOOLEAN
        /\ dfc_qmap \in BOOLEAN /\ switched \in BOOLEAN /\ mixed \in BOOLEAN
    BY DEF Init
  <2> QED
    BY <1>0, <2>1, <2>2, <2>3, <2>4, <2>5 DEF TypeOK, ClientRec
<1>2. RtOK
  BY <1>0 DEF RtOK, IdleRt
<1>3. PsOK /\ QmiOK /\ QueriedWhenUp /\ PowerOK
  BY <1>0 DEF PsOK, QmiOK, QueriedWhenUp, PowerOK, NoRef, DfcPhase
<1>4. DeadOK /\ PtrOK /\ SwitchOK /\ QmapOK
  BY <1>0, ClientTypes, SlotShape DEF DeadOK, PtrOK, SwitchOK, QmapOK, Dangling
<1> QED
  BY <1>0, <1>1, <1>2, <1>3, <1>4 DEF ClientInv

LEMMA NextInv ==
    ASSUME ClientInv, user \in Setups, [Next]_vars
    PROVE  ClientInv' /\ user' \in Setups /\ (SaveOnZero /\ PowerOK => PowerOK')
<1>1. CASE UNCHANGED vars
  <2>1. /\ UNCHANGED <<qmi, ptr, client, exiting, ps_up, ps, rt, mixed>>
        /\ UNCHANGED <<dfc_qmap, qmap, rx, switched, user>>
    BY <1>1 DEF vars, qmapVars
  <2>2. Now' = Now /\ (\A t : Dangling(t)' <=> Dangling(t))
    BY <2>1 DEF Now, Dangling
  <2> QED
    BY <2>1, <2>2 DEF ClientInv, TypeOK, RtOK, PsOK, DeadOK, PtrOK, QmapOK, SwitchOK,
       QmiOK, QueriedWhenUp, PowerOK, NoRef
<1>2. ASSUME ~mixed, NEW r \in user, NEW made \in SUBSET Slots, NEW reg \in BOOLEAN,
             SetupClient(r[1], r[2], r[3], made, reg)
      PROVE  ClientInv' /\ user' \in Setups /\ (SaveOnZero /\ PowerOK => PowerOK')
  <2>1. r[1] \in Indices /\ r[2] \in BOOLEAN /\ r[3] \in BOOLEAN
    BY SetupAssumption
  <2>2. SaveOnZero => (r[2] => r[1] = 0)
    BY DEF SaveOnZero
  <2>3. ClientInv' /\ ((r[2] => r[1] = 0) /\ PowerOK => PowerOK')
    BY <1>2, <2>1, SetupInv
  <2>4. user' = user
    BY <1>2 DEF SetupClient
  <2> QED
    BY <2>2, <2>3, <2>4
<1>3. CASE ~mixed /\ ((\E i \in Indices : DeleteClient(i)) \/ QmiExit)
  BY <1>3, StartDeleteInv DEF DeleteClient, QmiExit, qmapVars
<1>4. CASE ~mixed /\ Deleting
  <2>1. user' = user
    BY <1>4 DEF Deleting, PsExit, DeleteWda, WdaDrained, WdaCleared, FlushPsWq,
       DeleteDfc, DfcDrained, CtlFreed, QmapFreed, DfcCleared, Last, qmapVars
  <2> QED
    BY <1>4, <2>1, PsExitInv, DeleteWdaInv, WdaGoneInv, DeleteDfcInv, DfcFreedInv,
       DfcClearedInv, LastInv DEF Deleting
<1>5. ASSUME NEW s \in Slots, SvcArrive(s) \/ Svc(s) \/ (s = "wda" /\ SvcMarker)
      PROVE  ClientInv' /\ user' \in Setups /\ (PowerOK => PowerOK')
  <2>1. user' = user
    BY <1>5 DEF Svc, SvcArrive, SvcStart, SvcGivesUp, SvcEstablished, SvcInit,
       SvcMarker, qmapVars
  <2> QED
    BY <1>5, <2>1, WorkInv DEF Svc
<1>6. CASE ~mixed /\ (PsStart \/ PsWork)
  <2>1. user' = user
    BY <1>6 DEF PsStart, PsWork, PsUseWda, PsQuery, PsNext, qmapVars
  <2> QED
    BY <1>6, <2>1, PsInv
<1>7. CASE EndpointPost \/ CmdHandler \/ CmdDone
  BY <1>7, RxInv DEF EndpointPost, CmdHandler, CmdDone
<1> QED
  BY <1>1, <1>2, <1>3, <1>4, <1>5, <1>6, <1>7, SlotShape DEF Next, Going, Over

LEMMA InvSound ==
    ASSUME ClientInv, PowerOK
    PROVE  ClientsSound
<1>0. /\ TypeOK /\ RtOK /\ PsOK /\ DeadOK /\ PtrOK /\ QmapOK /\ SwitchOK /\ QmiOK
  BY DEF ClientInv
<1>1. ClientLive
  <2>1. \A s \in Slots : s \in rx.uses => client[s].alloc
    BY <1>0, SlotShape DEF QmapOK, TypeOK
  <2> QED
    BY <1>0, <2>1 DEF DeadOK, ClientLive
<1>2. PointersLive
  <2>1. ASSUME NEW s \in Slots
        PROVE  \/ (ptr[s] # "none") = client[s].alloc
               \/ s = "wda" /\ rt.pc = "wdaclear" /\ ps.pc = "idle"
               \/ s \in Dfc /\ rt.pc = "clear"
    <3>1. CASE Dangling(s)
      <4>1. rt.pc = "wdaclear" => ps.pc = "idle"
        BY <1>0 DEF PsOK, RtOK
      <4> QED
        BY <3>1, <4>1, SlotShape DEF Dangling
    <3>2. CASE ~Dangling(s)
      <4>1. client[s].alloc \in BOOLEAN
        BY <1>0 DEF TypeOK
      <4>2. ptr[s] # "none" <=> client[s].alloc
        BY <1>0, <3>2 DEF PtrOK
      <4> QED
        BY <4>1, <4>2, Zenon
    <3> QED
      BY <3>1, <3>2
  <2> QED
    BY <1>0, <2>1 DEF PointersLive, QmapOK
<1>3. QmiLive
  BY <1>0, SlotShape DEF QmiOK, QmiLive, NoRef, PowerOK, PsOK
<1> QED
  BY <1>0, <1>1, <1>2, <1>3 DEF ClientsSound, SwitchOK

\* The clients of a port (qmi_rmnet_setup_client, __qmi_rmnet_delete_client,
\* qmi_rmnet_qmi_exit, dfc_svc_init, wda_svc_config, dfc_qmap_cmd_handler): for
\* every set of setup requests that asks for power save with instance 0 only,
\* no client and no qmi_info is used after it was freed or leaked, and each DFC
\* client is handled by the code of its transport unless a request named the
\* other one while there was a DFC client.
THEOREM ClientsSafe ==
    ASSUME SaveOnZero
    PROVE  Spec => []ClientsSound
<1> DEFINE Inv == ClientInv /\ PowerOK /\ user \in Setups
<1>1. Init => Inv
  BY InitInv
<1>2. Inv /\ [Next]_vars => Inv'
  BY NextInv
<1>3. Inv => ClientsSound
  BY InvSound
<1> QED
  BY <1>1, <1>2, <1>3, PTL DEF Spec

\* dfc_client_exiting is never left set on a client in place, whatever requests
\* user space makes: such a client takes part in the query that ends power save
\* (qmi_rmnet_query_flows).
THEOREM QueriedSafe == Spec => []QueriedWhenUp
<1> DEFINE Inv == ClientInv /\ user \in Setups
<1>1. Init => Inv
  BY InitInv
<1>2. Inv /\ [Next]_vars => Inv'
  BY NextInv
<1>3. Inv => QueriedWhenUp
  BY DEF ClientInv
<1> QED
  BY <1>1, <1>2, <1>3, PTL DEF Spec

=============================================================================
