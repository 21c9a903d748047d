--------------------------- MODULE QosFlowsProofs ---------------------------
(***************************************************************************)
(* Proofs about QosFlows, for any number of flows, bearers and queues: the *)
(* types; that bearer objects are freed only when nothing refers to them   *)
(* and every queue has one owner (BearerLifetime, QueueOwner); that        *)
(* flow_ref of a listed bearer counts the flows that point at it           *)
(* (RefCount); and, resting on it, that a bearer with a grant has its      *)
(* queues awake (AwakeIfGranted) and a bearer without grant has its data   *)
(* queue stopped (OnlyStaleWatchdogOverGrants, StoppedIfNotGranted).  From *)
(* RefCount on they speak of what happens until an allocation fails in     *)
(* __qmi_rmnet_rebind_flow, which history variable nomem remembers.        *)
(***************************************************************************)
EXTENDS QosFlows, FiniteSetTheorems, TLAPS

-----------------------------------------------------------------------------
(* What the helpers return.                                                 *)

LEMMA ActivationParts ==
    ASSUME NEW r \in Activations
    PROVE  r[1] \in Flows /\ r[2] \in BearerIds /\ r[3] \in Mqs
BY ConstAssumption

LEMMA MqRange ==
    /\ AckMqOffset \in Nat /\ AckMqOffset >= 1
    /\ DefaultMq \in Mqs
    /\ Mqs \subseteq Queues /\ Mqs \subseteq MqIdx
    /\ InvalidMq \in MqIdx /\ InvalidMq \notin Queues /\ InvalidMq \notin Mqs
    /\ \A i \in Mqs : i + AckMqOffset \in Queues \cap MqIdx
BY ConstAssumption DEF AckMqOffset, DefaultMq, Mqs, Queues, MqIdx

LEMMA ZeroedType == Zeroed \in BearerRec
BY MqRange DEF Zeroed, BearerRec

LEMMA FlowControlType ==
    ASSUME NEW qs \in [Queues -> BOOLEAN], NEW i, NEW e \in BOOLEAN
    PROVE  FlowControl(qs, i, e) \in [Queues -> BOOLEAN]
BY DEF FlowControl

LEMMA BearerFlowCtlType ==
    ASSUME NEW qs \in [Queues -> BOOLEAN], NEW b \in BearerRec
    PROVE  BearerFlowCtl(qs, b) \in [Queues -> BOOLEAN]
<1>1. b.granted \in BOOLEAN
  BY DEF BearerRec
<1>2. FlowControl(qs, b.mq_idx, b.granted) \in [Queues -> BOOLEAN]
  BY <1>1, FlowControlType
<1> QED
  BY <1>1, <1>2, FlowControlType DEF BearerFlowCtl

LEMMA WatchdogType ==
    ASSUME NEW b \in BearerRec
    PROVE  WatchdogAdd(b) \in BearerRec /\ WatchdogRemove(b) \in BearerRec
BY DEF WatchdogAdd, WatchdogRemove, BearerRec

LEMMA GetChoicesType ==
    ASSUME NEW br, NEW id PROVE GetChoices(br, id) \subseteq Objs
BY DEF GetChoices, Lookup

LEMMA FreshType ==
    ASSUME NEW z \in BearerRec, NEW id \in BearerIds
    PROVE  [z EXCEPT !.st = "listed", !.bearer_id = id, !.flow_ref = 1,
                     !.granted = TRUE] \in BearerRec
<1> DEFINE z1 == [z EXCEPT !.st = "listed"]
           z2 == [z1 EXCEPT !.bearer_id = id]
           z3 == [z2 EXCEPT !.flow_ref = 1]
           z4 == [z3 EXCEPT !.granted = TRUE]
<1>1. z1 \in BearerRec
  BY DEF BearerRec
<1>2. z2 \in BearerRec
  <2> HIDE DEF z1
  <2> QED BY <1>1 DEF BearerRec
<1>3. z3 \in BearerRec
  <2> HIDE DEF z2
  <2> QED BY <1>2 DEF BearerRec
<1>4. z4 \in BearerRec
  <2> HIDE DEF z3
  <2> QED BY <1>3 DEF BearerRec
<1> QED
  BY <1>4

LEMMA BearerGetType ==
    ASSUME NEW br \in [Objs -> BearerRec], NEW id \in BearerIds, NEW o \in Objs
    PROVE  BearerGet(br, id, o) \in [Objs -> BearerRec]
<1>1. CASE br[o].st = "listed"
  BY <1>1 DEF BearerGet, BearerRec
<1>2. CASE br[o].st # "listed"
  <2>1. [Zeroed EXCEPT !.st = "listed", !.bearer_id = id, !.flow_ref = 1,
                       !.granted = TRUE] \in BearerRec
    BY ZeroedType, FreshType
  <2> QED
    BY <1>2, <2>1 DEF BearerGet
<1> QED
  BY <1>1, <1>2

LEMMA PutRecType ==
    ASSUME NEW z \in BearerRec, NEW n \in Int,
           NEW st \in {"free", "listed", "removed"}
    PROVE  [z EXCEPT !.flow_ref = n, !.st = st] \in BearerRec
<1> DEFINE z1 == [z EXCEPT !.flow_ref = n]
<1>1. z1 \in BearerRec
  BY DEF BearerRec
<1>2. [z1 EXCEPT !.st = st] \in BearerRec
  <2> HIDE DEF z1
  <2> QED BY <1>1 DEF BearerRec
<1> QED
  BY <1>2

LEMMA PutType ==
    ASSUME NEW br \in [Objs -> BearerRec], NEW o \in Pointer,
           NEW ms \in [Mqs -> Pointer], NEW qs \in [Queues -> BOOLEAN],
           removed \in Pointer
    PROVE  /\ PutBearer(br, o) \in [Objs -> BearerRec]
           /\ PutMq(ms, br, o) \in [Mqs -> Pointer]
           /\ PutQueue(qs, ms, br, o) \in [Queues -> BOOLEAN]
           /\ PutRemoved(br, o) \in Pointer
<1>1. PutBearer(br, o) \in [Objs -> BearerRec]
  <2>1. CASE o = NULL
    BY <2>1 DEF PutBearer
  <2>2. CASE o # NULL
    <3> DEFINE st == IF LastRef(br, o) THEN "removed" ELSE br[o].st
    <3>1. /\ o \in Objs /\ br[o].flow_ref - 1 \in Int
          /\ st \in {"free", "listed", "removed"}
      BY <2>2 DEF BearerRec, Pointer
    <3>2. [br[o] EXCEPT !.flow_ref = br[o].flow_ref - 1, !.st = st] \in BearerRec
      BY <3>1, PutRecType
    <3>3. PutBearer(br, o) =
             [br EXCEPT ![o] = [br[o] EXCEPT !.flow_ref = br[o].flow_ref - 1,
                                             !.st = st]]
      BY <2>2 DEF PutBearer
    <3> QED
      BY <3>1, <3>2, <3>3
  <2> QED
    BY <2>1, <2>2
<1>2. PutMq(ms, br, o) \in [Mqs -> Pointer]
  BY DEF PutMq, Pointer
<1>3. PutQueue(qs, ms, br, o) \in [Queues -> BOOLEAN]
  BY DEF PutQueue
<1>4. PutRemoved(br, o) \in Pointer
  BY DEF PutRemoved
<1> QED
  BY <1>1, <1>2, <1>3, <1>4

LEMMA BindType ==
    ASSUME NEW br \in [Objs -> BearerRec], NEW o \in Objs,
           NEW ms \in [Mqs -> Pointer], NEW qs \in [Queues -> BOOLEAN],
           NEW i \in Mqs
    PROVE  /\ BindBearer(br, ms, i, o) \in [Objs -> BearerRec]
           /\ BindMq(ms, i, o) \in [Mqs -> Pointer]
           /\ BindQueue(qs, br, ms, i, o) \in [Queues -> BOOLEAN]
<1>0. i \in MqIdx /\ i + AckMqOffset \in MqIdx
  BY MqRange
<1>1. BindBearer(br, ms, i, o) \in [Objs -> BearerRec]
  <2>1. [br[o] EXCEPT !.mq_idx = i, !.ack_mq_idx = i + AckMqOffset] \in BearerRec
    BY <1>0, ZenonT(40) DEF BearerRec
  <2> QED
    BY <2>1 DEF BindBearer
<1>2. BindMq(ms, i, o) \in [Mqs -> Pointer]
  BY DEF BindMq, Pointer
<1>3. br[o].granted \in BOOLEAN
  BY DEF BearerRec
<1>4. BindQueue(qs, br, ms, i, o) \in [Queues -> BOOLEAN]
  BY <1>3, FlowControlType DEF BindQueue
<1> QED
  BY <1>1, <1>2, <1>4

LEMMA AdjustedType ==
    ASSUME NEW num \in BOOLEAN, NEW adj \in Adjusted(num)
    PROVE  adj[1] \in BOOLEAN /\ adj[2] \in BOOLEAN
<1>1. CASE DfcQmap /\ num
  <2>1. adj \in BOOLEAN \X BOOLEAN
    BY <1>1 DEF Adjusted
  <2> QED
    BY <2>1
<1>2. CASE ~(DfcQmap /\ num)
  <2>1. adj = <<num, FALSE>>
    BY <1>2 DEF Adjusted
  <2>2. adj[1] = num /\ adj[2] = FALSE
    BY <2>1
  <2> QED
    BY <2>2
<1> QED
  BY <1>1, <1>2

LEMMA UpdateFcMapType ==
    ASSUME NEW b \in BearerRec, NEW num \in BOOLEAN, NEW rat \in BOOLEAN,
           NEW bidir \in BOOLEAN, NEW adj \in Adjusted(num)
    PROVE  UpdateFcMap(b, num, rat, bidir, adj) \in BearerRec
<1> DEFINE b1 == IF rat THEN [b EXCEPT !.rat_switch = ~num] ELSE b
           b2 == [b1 EXCEPT !.granted = adj[1], !.tcp_bidir = bidir]
<1>1. b1 \in BearerRec
  BY ZenonT(40) DEF BearerRec
<1>2. b2 \in BearerRec
  <2> HIDE DEF b1
  <2> QED BY <1>1, AdjustedType DEF BearerRec
<1>3. WatchdogAdd(b2) \in BearerRec /\ WatchdogRemove(b2) \in BearerRec
  BY <1>2, WatchdogType
<1> QED
  BY <1>1, <1>3 DEF UpdateFcMap

LEMMA EnabledBearerType ==
    ASSUME NEW b \in BearerRec
    PROVE  EnabledBearer(b) \in BearerRec
<1> DEFINE b1 == [b EXCEPT !.tcp_bidir = FALSE, !.rat_switch = FALSE]
           b2 == WatchdogRemove(b1)
<1>1. b1 \in BearerRec
  BY DEF BearerRec
<1>2. b2 \in BearerRec
  BY <1>1, WatchdogType
<1>3. [b2 EXCEPT !.granted = TRUE] \in BearerRec
  <2> HIDE DEF b2
  <2> QED BY <1>2 DEF BearerRec
<1> QED
  BY <1>2, <1>3 DEF EnabledBearer

LEMMA RtType ==
    ASSUME TypeOK, NEW r \in Activations \cup {NULL}, ToClean(r)
    PROVE  rt' \in RtRec
BY DEF ToClean, Resume, Idle, RtRec, TypeOK

LEMMA DelSectionType ==
    ASSUME TypeOK, NEW f \in Flows, DelSection(f)
    PROVE  /\ flow' \in [Flows -> FlowRec \cup {NULL}]
           /\ bearer' \in [Objs -> BearerRec]
           /\ mq' \in [Mqs -> Pointer]
           /\ queue' \in [Queues -> BOOLEAN]
           /\ removed' \in Pointer
<1> USE DEF TypeOK
<1>1. CASE flow[f] = NULL
  BY <1>1 DEF DelSection
<1>2. CASE flow[f] # NULL
  <2>1. flow[f].bearer \in Pointer
    BY <1>2 DEF FlowRec
  <2> QED
    BY <1>2, <2>1, PutType DEF DelSection
<1> QED
  BY <1>1, <1>2

-----------------------------------------------------------------------------
(* Type correctness.                                                        *)

LEMMA InitType == Init => TypeOK
<1> SUFFICES ASSUME Init PROVE TypeOK
  OBVIOUS
<1>1. /\ flow \in [Flows -> FlowRec \cup {NULL}]
      /\ bearer \in [Objs -> BearerRec]
      /\ mq \in [Mqs -> Pointer]
      /\ queue \in [Queues -> BOOLEAN]
  BY ZeroedType DEF Init, Pointer
<1>2. removed \in Pointer /\ rt \in RtRec
  BY DEF Init, Idle, RtRec, Pointer
<1>3. nomem \in BOOLEAN
  BY DEF Init
<1> QED
  BY <1>1, <1>2, <1>3 DEF TypeOK

LEMMA NextType == TypeOK /\ [Next]_vars => TypeOK'
<1> SUFFICES ASSUME TypeOK, [Next]_vars PROVE TypeOK'
  OBVIOUS
<1>1. ASSUME NEW r \in Activations, CreateFlow(r) PROVE TypeOK'
  <2>1. PICK o \in GetChoices(bearer, r[2]) :
          LET br == BearerGet(bearer, r[2], o)
          IN  /\ flow' = [flow EXCEPT ![r[1]] = [bearer_id |-> r[2],
                                                 mq_idx |-> r[3], bearer |-> o]]
              /\ bearer' = BindBearer(br, mq, r[3], o)
              /\ mq' = BindMq(mq, r[3], o)
              /\ queue' = BindQueue(queue, br, mq, r[3], o)
    BY <1>1 DEF CreateFlow
  <2>2. o \in Objs /\ BearerGet(bearer, r[2], o) \in [Objs -> BearerRec]
    BY GetChoicesType, BearerGetType, ActivationParts DEF TypeOK
  <2>3. flow' \in [Flows -> FlowRec \cup {NULL}]
    BY <2>1, <2>2, ActivationParts DEF TypeOK, FlowRec, Pointer
  <2>4. rt' \in RtRec
    BY <1>1, RtType DEF CreateFlow
  <2>5. removed' \in Pointer /\ nomem' \in BOOLEAN
    BY <1>1 DEF CreateFlow, TypeOK
  <2> QED
    BY <2>1, <2>2, <2>3, <2>4, <2>5, BindType, ActivationParts DEF TypeOK
<1>2. ASSUME NEW r \in Activations, CreateFlowFails(r) PROVE TypeOK'
  <2>1. flow' \in [Flows -> FlowRec \cup {NULL}]
    BY <1>2, ActivationParts DEF CreateFlowFails, TypeOK, FlowRec, Pointer
  <2> QED
    BY <1>2, <2>1 DEF CreateFlowFails, TypeOK, Idle, RtRec
<1>3. ASSUME NEW r \in Activations, RebindFlow(r) PROVE TypeOK'
  <2> DEFINE old == flow[r[1]].bearer
             put == PutBearer(bearer, old)
             ms == PutMq(mq, bearer, old)
  <2>1. old \in Pointer
    BY <1>3, ActivationParts DEF RebindFlow, TypeOK, FlowRec
  <2>2. /\ put \in [Objs -> BearerRec]
        /\ ms \in [Mqs -> Pointer]
        /\ PutRemoved(bearer, old) \in Pointer
    BY <2>1, PutType DEF TypeOK
  <2>3. removed' \in Pointer /\ rt' \in RtRec /\ nomem' \in BOOLEAN
    <3>1. removed' \in Pointer /\ rt' \in RtRec
      BY <1>3, <2>2, RtType DEF RebindFlow
    <3>2. nomem' \in BOOLEAN
      BY <1>3 DEF RebindFlow, TypeOK
    <3> QED
      BY <3>1, <3>2
  <2>4. CASE \E o \in GetChoices(put, r[2]) :
          LET br == BearerGet(put, r[2], o)
          IN  /\ flow' = [flow EXCEPT ![r[1]] = [bearer_id |-> r[2],
                                                 mq_idx |-> r[3], bearer |-> o]]
              /\ bearer' = BindBearer(br, ms, r[3], o)
              /\ mq' = BindMq(ms, r[3], o)
              /\ queue' = BindQueue(queue, br, ms, r[3], o)
    <3> HIDE DEF put, ms, old
    <3>1. PICK o \in GetChoices(put, r[2]) :
          LET br == BearerGet(put, r[2], o)
          IN  /\ flow' = [flow EXCEPT ![r[1]] = [bearer_id |-> r[2],
                                                 mq_idx |-> r[3], bearer |-> o]]
              /\ bearer' = BindBearer(br, ms, r[3], o)
              /\ mq' = BindMq(ms, r[3], o)
              /\ queue' = BindQueue(queue, br, ms, r[3], o)
      BY <2>4
    <3>2. o \in Objs /\ BearerGet(put, r[2], o) \in [Objs -> BearerRec]
      BY <2>2, GetChoicesType, BearerGetType, ActivationParts
    <3>3. flow' \in [Flows -> FlowRec \cup {NULL}]
      BY <3>1, <3>2, ActivationParts DEF TypeOK, FlowRec, Pointer
    <3> QED
      BY <2>2, <2>3, <3>1, <3>2, <3>3, BindType, ActivationParts DEF TypeOK
  <2>5. CASE bearer' = put /\ mq' = ms /\ UNCHANGED <<flow, queue>>
    BY <2>2, <2>3, <2>5 DEF TypeOK
  <2> QED
    BY <1>3, <2>4, <2>5 DEF RebindFlow
<1>4. ASSUME NEW r \in Activations, KeepFlow(r) PROVE TypeOK'
  BY <1>4 DEF KeepFlow, TypeOK, Idle, RtRec
<1>5. ASSUME NEW f \in Flows, Deactivate(f) PROVE TypeOK'
  BY <1>5, DelSectionType, RtType DEF Deactivate, TypeOK
<1>6. CASE DelForAgain
  <2>1. rt.req \in Activations
    BY <1>6 DEF DelForAgain, TypeOK, RtRec
  <2> QED
    BY <1>6, <2>1, ActivationParts, DelSectionType, RtType DEF DelForAgain, TypeOK
<1>7. CASE BearerCleanQuit
  <2>1. bearer' \in [Objs -> BearerRec]
    <3>1. \A o \in Objs : [bearer[o] EXCEPT !.wd_quit = TRUE] \in BearerRec
      BY ZenonT(40) DEF TypeOK, BearerRec
    <3> QED
      BY <1>7, <3>1 DEF BearerCleanQuit, TypeOK
  <2>2. rt' \in RtRec
    BY <1>7 DEF BearerCleanQuit, TypeOK, RtRec
  <2> QED
    BY <1>7, <2>1, <2>2 DEF BearerCleanQuit, TypeOK
<1>8. CASE BearerCleanFree
  <2>1. rt' \in RtRec
    BY <1>8 DEF BearerCleanFree, TypeOK, RtRec, Resume, Idle
  <2> QED
    BY <1>8, <2>1, ZeroedType DEF BearerCleanFree, TypeOK, Pointer
<1>9. ASSUME NEW o \in Objs, WatchdogExpire(o) PROVE TypeOK'
  <2>1. [bearer[o] EXCEPT !.wd_armed = FALSE, !.wd_running = TRUE] \in BearerRec
    BY ZenonT(40) DEF TypeOK, BearerRec
  <2> QED
    BY <1>9, <2>1 DEF WatchdogExpire, TypeOK
<1>10. ASSUME NEW o \in Objs, WatchdogFn(o) PROVE TypeOK'
  <2> DEFINE done == [bearer[o] EXCEPT !.wd_started = FALSE, !.wd_running = FALSE]
             start == [done EXCEPT !.granted = TRUE]
  <2>1. done \in BearerRec
    BY ZenonT(40) DEF TypeOK, BearerRec
  <2>2. start \in BearerRec
    <3> HIDE DEF done
    <3> QED BY <2>1 DEF BearerRec
  <2>3. BearerFlowCtl(queue, start) \in [Queues -> BOOLEAN]
    BY <2>2, BearerFlowCtlType DEF TypeOK
  <2> QED
    BY <1>10, <2>1, <2>2, <2>3 DEF WatchdogFn, TypeOK
<1>11. ASSUME NEW id \in BearerIds, NEW num \in BOOLEAN, NEW rat \in BOOLEAN,
              NEW bidir \in Bidirs, FlowStatus(id, num, rat, bidir)
       PROVE  TypeOK'
  <2>1. PICK o \in GetChoices(bearer, id), adj \in Adjusted(num) :
          LET br == IF bearer[o].st = "listed" THEN bearer
                    ELSE [BearerGet(bearer, id, o) EXCEPT ![o].flow_ref = 0]
              b == UpdateFcMap(br[o], num, rat, bidir, adj)
          IN  /\ bearer' = [br EXCEPT ![o] = b]
              /\ queue' = IF b.granted = br[o].granted THEN queue
                          ELSE BearerFlowCtl(queue, b)
    BY <1>11 DEF FlowStatus
  <2> DEFINE br == IF bearer[o].st = "listed" THEN bearer
                   ELSE [BearerGet(bearer, id, o) EXCEPT ![o].flow_ref = 0]
             b == UpdateFcMap(br[o], num, rat, bidir, adj)
  <2>2. o \in Objs /\ bidir \in BOOLEAN
    BY GetChoicesType, ConstAssumption
  <2>3. br \in [Objs -> BearerRec]
    <3> DEFINE new == BearerGet(bearer, id, o)
    <3>1. new \in [Objs -> BearerRec]
      BY <2>2, BearerGetType DEF TypeOK
    <3>2. [new EXCEPT ![o].flow_ref = 0] \in [Objs -> BearerRec]
      <4> HIDE DEF new
      <4> QED BY <2>2, <3>1 DEF BearerRec
    <3> QED
      BY <3>2 DEF TypeOK
  <2>4. b \in BearerRec
    <3> HIDE DEF br
    <3> QED BY <2>2, <2>3, UpdateFcMapType
  <2>5. BearerFlowCtl(queue, b) \in [Queues -> BOOLEAN]
    <3> HIDE DEF b
    <3> QED BY <2>4, BearerFlowCtlType DEF TypeOK
  <2>6. bearer' \in [Objs -> BearerRec] /\ queue' \in [Queues -> BOOLEAN]
    <3>1. bearer' = [br EXCEPT ![o] = b]
      BY <2>1
    <3>2. queue' = queue \/ queue' = BearerFlowCtl(queue, b)
      BY <2>1
    <3> HIDE DEF b, br
    <3> QED BY <2>2, <2>3, <2>4, <2>5, <3>1, <3>2 DEF TypeOK
  <2> QED
    BY <1>11, <2>6 DEF FlowStatus, TypeOK
<1>12. ASSUME NEW num \in AllBearerGrants, NEW bidir \in Bidirs,
              AllBearerFlowCtl(num, bidir)
       PROVE  TypeOK'
  <2>1. num \in BOOLEAN /\ bidir \in BOOLEAN
    BY ConstAssumption
  <2>2. \A o \in Objs : [bearer[o] EXCEPT !.granted = num, !.tcp_bidir = bidir]
                           \in BearerRec
    BY <2>1, ZenonT(40) DEF TypeOK, BearerRec
  <2>3. bearer' \in [Objs -> BearerRec]
    BY <1>12, <2>2 DEF AllBearerFlowCtl, TypeOK
  <2>4. queue' \in [Queues -> BOOLEAN]
    BY <1>12, <2>1 DEF AllBearerFlowCtl, TypeOK
  <2> QED
    BY <1>12, <2>3, <2>4 DEF AllBearerFlowCtl, TypeOK
<1>13. ASSUME NEW id \in BearerIds, NEW on \in TxStatuses, TxLinkStatus(id, on)
       PROVE  TypeOK'
  <2>1. PICK o \in Lookup(bearer, id) :
          LET off == [bearer[o] EXCEPT !.tx_off = ~on]
              stop == WatchdogRemove([off EXCEPT !.granted = FALSE,
                                                 !.tcp_bidir = FALSE])
              start == [off EXCEPT !.granted = TRUE]
          IN  \E c \in {off, stop, start} :
                 /\ bearer' = [bearer EXCEPT ![o] = c]
                 /\ queue' \in {queue, BearerFlowCtl(queue, c)}
    BY <1>13 DEF TxLinkStatus
  <2> DEFINE off == [bearer[o] EXCEPT !.tx_off = ~on]
             halt == [off EXCEPT !.granted = FALSE, !.tcp_bidir = FALSE]
             start == [off EXCEPT !.granted = TRUE]
  <2>2. o \in Objs
    BY DEF Lookup
  <2>3. off \in BearerRec
    BY <2>2, ZenonT(40) DEF TypeOK, BearerRec
  <2>4. halt \in BearerRec /\ start \in BearerRec
    <3> HIDE DEF off
    <3> QED BY <2>3 DEF BearerRec
  <2>5. WatchdogRemove(halt) \in BearerRec
    BY <2>4, WatchdogType
  <2>6. PICK c \in {off, WatchdogRemove(halt), start} :
                 /\ bearer' = [bearer EXCEPT ![o] = c]
                 /\ queue' \in {queue, BearerFlowCtl(queue, c)}
    BY <2>1
  <2>7. c \in BearerRec
    BY <2>3, <2>4, <2>5
  <2>8. BearerFlowCtl(queue, c) \in [Queues -> BOOLEAN]
    BY <2>7, BearerFlowCtlType DEF TypeOK
  <2> QED
    BY <1>13, <2>2, <2>6, <2>7, <2>8 DEF TxLinkStatus, TypeOK
<1>14. ASSUME NEW f \in Flows, BurstCheck(f) PROVE TypeOK'
  <2> DEFINE o == flow[f].bearer
             b == [bearer[o] EXCEPT !.granted = FALSE]
  <2>1. o \in Objs
    BY <1>14 DEF BurstCheck, TypeOK, FlowRec, Pointer
  <2>2. b \in BearerRec
    <3> HIDE DEF o
    <3>1. bearer[o] \in BearerRec
      BY <2>1 DEF TypeOK
    <3> QED
      BY <3>1 DEF BearerRec
  <2>3. BearerFlowCtl(queue, b) \in [Queues -> BOOLEAN]
    BY <2>2, BearerFlowCtlType DEF TypeOK
  <2> QED
    BY <1>14, <2>1, <2>2, <2>3 DEF BurstCheck, TypeOK
<1>15. CASE EnableAllFlows
  <2>1. bearer' \in [Objs -> BearerRec]
    BY <1>15, EnabledBearerType DEF EnableAllFlows, TypeOK
  <2>2. queue' \in [Queues -> BOOLEAN]
    BY <1>15 DEF EnableAllFlows
  <2> QED
    BY <1>15, <2>1, <2>2 DEF EnableAllFlows, TypeOK
<1>16. ASSUME NEW enable \in VndCommands, VndFlowControl(enable) PROVE TypeOK'
  <2>1. enable \in BOOLEAN
    BY ConstAssumption
  <2> QED
    BY <1>16, <2>1 DEF VndFlowControl, TypeOK
<1>17. CASE UNCHANGED vars
  BY <1>17 DEF vars, TypeOK
<1> QED
  BY <1>1, <1>2, <1>3, <1>4, <1>5, <1>6, <1>7, <1>8, <1>9, <1>10, <1>11,
     <1>12, <1>13, <1>14, <1>15, <1>16, <1>17
     DEF Next, Netlink, Watchdog, Modem

\* Whatever netlink requests, indications, timers and packets do, the state of
\* struct qos_info stays well formed: pointers are null or bearer objects,
\* queue indices are queue indices or INVALID_MQ, the netlink thread has a
\* request to go back to.
THEOREM TypeCorrect == Spec => []TypeOK
<1>1. Init => TypeOK
  BY InitType
<1>2. TypeOK /\ [Next]_vars => TypeOK'
  BY NextType
<1> QED
  BY <1>1, <1>2, PTL DEF Spec

-----------------------------------------------------------------------------
(* Lifetime and ownership.  The invariants are stated for a flow list fl,   *)
(* bearers br and queue table ms, so that a netlink request can be taken    *)
(* apart into its calls of bearer_put, bearer_get and update_mq, each of    *)
(* which keeps them.                                                        *)

Bearers == [Objs -> BearerRec]

\* A bearer that is not on the list has no reference left, and its timer runs
\* only until it is freed.
LifeOK(br) ==
    \A o \in Objs :
        /\ br[o].wd_armed \/ br[o].wd_running => br[o].st # "free"
        /\ br[o].st # "listed" => br[o].flow_ref <= 0

RemovedOK(br, rm) == \A o \in Objs : br[o].st = "removed" <=> o = rm

OwnOK(br, ms) ==
    /\ ms[DefaultMq] = NULL
    /\ \A i \in Mqs : ms[i] # NULL =>
          /\ br[ms[i]].st = "listed"
          /\ br[ms[i]].mq_idx # InvalidMq
    /\ \A o \in Objs : br[o].st = "listed" /\ br[o].mq_idx # InvalidMq =>
          /\ br[o].mq_idx \in Mqs
          /\ ms[br[o].mq_idx] = o
          /\ br[o].ack_mq_idx = br[o].mq_idx + AckMqOffset
    /\ \A o \in Objs : br[o].mq_idx = InvalidMq => br[o].ack_mq_idx = InvalidMq

-----------------------------------------------------------------------------
(* The fields of a bearer after each call.                                  *)

LEMMA GetFields ==
    ASSUME NEW br \in Bearers, NEW id \in BearerIds, NEW o \in Objs
    PROVE  LET new == BearerGet(br, id, o)
           IN  /\ \A p \in Objs : p # o => new[p] = br[p]
               /\ new[o].st = "listed"
               /\ br[o].st = "listed" =>
                     /\ new[o].flow_ref = br[o].flow_ref + 1
                     /\ new[o].mq_idx = br[o].mq_idx
                     /\ new[o].ack_mq_idx = br[o].ack_mq_idx
                     /\ new[o].granted = br[o].granted
                     /\ new[o].bearer_id = br[o].bearer_id
               /\ br[o].st # "listed" =>
                     /\ new[o].flow_ref = 1
                     /\ new[o].mq_idx = InvalidMq
                     /\ new[o].ack_mq_idx = InvalidMq
                     /\ new[o].granted
                     /\ new[o].bearer_id = id
<1>1. CASE br[o].st = "listed"
  BY <1>1 DEF BearerGet, Bearers, BearerRec
<1>2. CASE br[o].st # "listed"
  BY <1>2 DEF BearerGet, Bearers, Zeroed
<1> QED
  BY <1>1, <1>2

LEMMA PutFields ==
    ASSUME NEW br \in Bearers, NEW o \in Objs
    PROVE  LET new == PutBearer(br, o)
           IN  /\ \A p \in Objs : p # o => new[p] = br[p]
               /\ new[o].flow_ref = br[o].flow_ref - 1
               /\ new[o].st = IF br[o].flow_ref = 1 THEN "removed" ELSE br[o].st
               /\ new[o].mq_idx = br[o].mq_idx
               /\ new[o].ack_mq_idx = br[o].ack_mq_idx
               /\ new[o].granted = br[o].granted
               /\ new[o].bearer_id = br[o].bearer_id
               /\ new[o].wd_armed = br[o].wd_armed
               /\ new[o].wd_running = br[o].wd_running
BY ConstAssumption DEF PutBearer, LastRef, Bearers, BearerRec

LEMMA BindFields ==
    ASSUME NEW br \in Bearers, NEW o \in Objs, NEW ms, NEW i \in Mqs
    PROVE  LET new == BindBearer(br, ms, i, o)
           IN  /\ \A p \in Objs : p # o => new[p] = br[p]
               /\ new[o].flow_ref = br[o].flow_ref
               /\ new[o].st = br[o].st
               /\ new[o].granted = br[o].granted
               /\ new[o].bearer_id = br[o].bearer_id
               /\ new[o].wd_armed = br[o].wd_armed
               /\ new[o].wd_running = br[o].wd_running
               /\ Binds(ms, i) => /\ new[o].mq_idx = i
                                  /\ new[o].ack_mq_idx = i + AckMqOffset
               /\ ~Binds(ms, i) => new = br
<1>1. CASE Binds(ms, i)
  BY <1>1 DEF BindBearer, Bearers, BearerRec
<1>2. CASE ~Binds(ms, i)
  BY <1>2 DEF BindBearer
<1> QED
  BY <1>1, <1>2

-----------------------------------------------------------------------------
(* Each call keeps the invariants.                                          *)

LEMMA PutLife ==
    ASSUME NEW br \in Bearers, NEW o \in Pointer, LifeOK(br),
           RemovedOK(br, NULL), removed = NULL
    PROVE  /\ LifeOK(PutBearer(br, o))
           /\ RemovedOK(PutBearer(br, o), PutRemoved(br, o))
<1>1. CASE o = NULL
  BY <1>1 DEF PutBearer, PutRemoved, LastRef
<1>2. CASE o \in Objs
  <2>1. br[o].flow_ref \in Int
    BY <1>2 DEF Bearers, BearerRec
  <2>2. o # NULL
    BY <1>2, ConstAssumption
  <2>3. LifeOK(PutBearer(br, o))
    BY <1>2, <2>1, PutFields DEF LifeOK
  <2>4. RemovedOK(PutBearer(br, o), PutRemoved(br, o))
    BY <1>2, <2>1, <2>2, PutFields, ConstAssumption
       DEF RemovedOK, PutRemoved, LastRef, LifeOK
  <2> QED
    BY <2>3, <2>4
<1> QED
  BY <1>1, <1>2 DEF Pointer

LEMMA GetLife ==
    ASSUME NEW br \in Bearers, NEW id \in BearerIds, NEW rm \in Pointer,
           NEW o \in GetChoices(br, id), LifeOK(br), RemovedOK(br, rm)
    PROVE  /\ LifeOK(BearerGet(br, id, o))
           /\ RemovedOK(BearerGet(br, id, o), rm)
<1>1. o \in Objs /\ br[o].st # "removed"
  BY DEF GetChoices, Lookup
<1> DEFINE nb == BearerGet(br, id, o)
<1>2. nb[o].st = "listed" /\ \A p \in Objs : p # o => nb[p] = br[p]
  BY <1>1, GetFields
<1> HIDE DEF nb
<1>3. LifeOK(nb) /\ RemovedOK(nb, rm)
  BY <1>1, <1>2 DEF LifeOK, RemovedOK
<1> QED
  BY <1>3 DEF nb

LEMMA BindLife ==
    ASSUME NEW br \in Bearers, NEW o \in Objs, NEW ms, NEW i \in Mqs,
           NEW rm \in Pointer, LifeOK(br), RemovedOK(br, rm)
    PROVE  /\ LifeOK(BindBearer(br, ms, i, o))
           /\ RemovedOK(BindBearer(br, ms, i, o), rm)
BY BindFields DEF LifeOK, RemovedOK

LEMMA PutOwn ==
    ASSUME NEW br \in Bearers, NEW ms \in [Mqs -> Pointer], NEW o \in Pointer,
           OwnOK(br, ms), LifeOK(br)
    PROVE  OwnOK(PutBearer(br, o), PutMq(ms, br, o))
<1>1. CASE o = NULL
  BY <1>1 DEF PutBearer, PutMq, LastRef
<1>2. CASE o \in Objs
  <2> DEFINE nb == PutBearer(br, o)
             nm == PutMq(ms, br, o)
  <2>1. o # NULL /\ DefaultMq \in Mqs
    BY <1>2, ConstAssumption, MqRange
  <2>2. CASE br[o].flow_ref = 1
    <3>1. nm = [i \in Mqs |-> IF ms[i] = o THEN NULL ELSE ms[i]]
      BY <2>1, <2>2 DEF PutMq, LastRef
    <3>2. /\ \A p \in Objs : p # o => nb[p] = br[p]
          /\ nb[o].st = "removed"
          /\ nb[o].mq_idx = br[o].mq_idx /\ nb[o].ack_mq_idx = br[o].ack_mq_idx
      BY <1>2, <2>2, PutFields
    <3> HIDE DEF nb, nm
    <3>3. \A k \in Mqs : ms[k] \in Objs \/ ms[k] = NULL
      BY DEF Pointer
    <3>4. \A k \in Mqs : nm[k] # NULL => /\ nb[nm[k]].st = "listed"
                                         /\ nb[nm[k]].mq_idx # InvalidMq
      BY <1>2, <3>1, <3>2, <3>3 DEF OwnOK
    <3>5. \A p \in Objs : nb[p].st = "listed" /\ nb[p].mq_idx # InvalidMq =>
            /\ nb[p].mq_idx \in Mqs
            /\ nm[nb[p].mq_idx] = p
            /\ nb[p].ack_mq_idx = nb[p].mq_idx + AckMqOffset
      BY <1>2, <3>1, <3>2 DEF OwnOK
    <3>6. nm[DefaultMq] = NULL
      BY <2>1, <3>1 DEF OwnOK
    <3>7. \A p \in Objs : nb[p].mq_idx = InvalidMq =>
                             nb[p].ack_mq_idx = InvalidMq
      BY <3>2 DEF OwnOK
    <3> QED
      BY <3>4, <3>5, <3>6, <3>7 DEF OwnOK, nb, nm
  <2>3. CASE br[o].flow_ref # 1
    <3>1. nm = ms
      BY <2>3 DEF PutMq, LastRef
    <3>2. /\ \A p \in Objs : p # o => nb[p] = br[p]
          /\ nb[o].st = br[o].st
          /\ nb[o].mq_idx = br[o].mq_idx /\ nb[o].ack_mq_idx = br[o].ack_mq_idx
      BY <1>2, <2>3, PutFields
    <3>3. \A k \in Mqs : ms[k] \in Objs \/ ms[k] = NULL
      BY DEF Pointer
    <3> HIDE DEF nb, nm
    <3>4. OwnOK(nb, nm)
      BY <1>2, <3>1, <3>2, <3>3 DEF OwnOK
    <3> QED
      BY <3>4 DEF nb, nm
  <2> QED
    BY <2>2, <2>3
<1> QED
  BY <1>1, <1>2 DEF Pointer

LEMMA GetOwn ==
    ASSUME NEW br \in Bearers, NEW ms \in [Mqs -> Pointer], NEW id \in BearerIds,
           NEW o \in GetChoices(br, id), OwnOK(br, ms)
    PROVE  OwnOK(BearerGet(br, id, o), ms) /\ BearerGet(br, id, o)[o].st = "listed"
<1> DEFINE nb == BearerGet(br, id, o)
<1>1. o \in Objs /\ br[o].st \in {"free", "listed"}
  BY DEF GetChoices, Lookup
<1>2. /\ \A p \in Objs : p # o => nb[p] = br[p]
      /\ nb[o].st = "listed"
      /\ br[o].st = "listed" => /\ nb[o].mq_idx = br[o].mq_idx
                                /\ nb[o].ack_mq_idx = br[o].ack_mq_idx
      /\ br[o].st # "listed" => /\ nb[o].mq_idx = InvalidMq
                                /\ nb[o].ack_mq_idx = InvalidMq
  BY <1>1, GetFields
<1> HIDE DEF nb
<1>3. \A i \in Mqs : ms[i] \in Objs \/ ms[i] = NULL
  BY DEF Pointer
<1>4. OwnOK(nb, ms)
  BY <1>1, <1>2, <1>3 DEF OwnOK
<1> QED
  BY <1>2, <1>4 DEF nb

LEMMA BindOwn ==
    ASSUME NEW br \in Bearers, NEW ms \in [Mqs -> Pointer], NEW i \in Mqs,
           NEW o \in Objs, br[o].st = "listed", OwnOK(br, ms)
    PROVE  OwnOK(BindBearer(br, ms, i, o), BindMq(ms, i, o))
<1> DEFINE nb == BindBearer(br, ms, i, o)
           nm == BindMq(ms, i, o)
<1>1. CASE ~Binds(ms, i)
  BY <1>1 DEF BindBearer, BindMq
<1>2. CASE Binds(ms, i)
  <2>1. nm = [ms EXCEPT ![i] = o]
    BY <1>2 DEF BindMq
  <2>2. /\ \A p \in Objs : p # o => nb[p] = br[p]
        /\ nb[o].st = br[o].st
        /\ nb[o].mq_idx = i /\ nb[o].ack_mq_idx = i + AckMqOffset
    BY <1>2, BindFields
  <2>3. i # DefaultMq /\ ms[i] = NULL
    BY <1>2 DEF Binds
  <2>4. i # InvalidMq /\ DefaultMq \in Mqs
    BY MqRange
  <2>5. \A k \in Mqs : ms[k] \in Objs \/ ms[k] = NULL
    BY DEF Pointer
  <2>6. NULL \notin Objs
    BY ConstAssumption
  <2> HIDE DEF nb, nm
  <2>7. nm[DefaultMq] = NULL
    BY <2>1, <2>3, <2>4 DEF OwnOK
  <2>8. \A k \in Mqs : nm[k] # NULL => /\ nb[nm[k]].st = "listed"
                                       /\ nb[nm[k]].mq_idx # InvalidMq
    BY <2>1, <2>2, <2>4, <2>5 DEF OwnOK
  <2>9. \A p \in Objs : nb[p].st = "listed" /\ nb[p].mq_idx # InvalidMq =>
          /\ nb[p].mq_idx \in Mqs
          /\ nm[nb[p].mq_idx] = p
          /\ nb[p].ack_mq_idx = nb[p].mq_idx + AckMqOffset
    BY <2>1, <2>2, <2>3, <2>6 DEF OwnOK
  <2>10. \A p \in Objs : nb[p].mq_idx = InvalidMq => nb[p].ack_mq_idx = InvalidMq
    BY <2>2, <2>4 DEF OwnOK
  <2> QED
    BY <2>7, <2>8, <2>9, <2>10 DEF OwnOK, nb, nm
<1> QED
  BY <1>1, <1>2

-----------------------------------------------------------------------------
(* Steps that leave the list, the references and the queue indices alone.   *)

SameShape(br, nb) ==
    \A o \in Objs :
        /\ nb[o].st = br[o].st
        /\ nb[o].bearer_id = br[o].bearer_id
        /\ nb[o].flow_ref = br[o].flow_ref
        /\ nb[o].mq_idx = br[o].mq_idx
        /\ nb[o].ack_mq_idx = br[o].ack_mq_idx
        /\ nb[o].wd_armed \/ nb[o].wd_running =>
              br[o].wd_armed \/ br[o].wd_running \/ br[o].st = "listed"

LEMMA SameShapeKeeps ==
    ASSUME NEW br \in Bearers, NEW nb \in Bearers, NEW ms \in [Mqs -> Pointer],
           NEW rm, SameShape(br, nb), LifeOK(br), RemovedOK(br, rm), OwnOK(br, ms)
    PROVE  LifeOK(nb) /\ RemovedOK(nb, rm) /\ OwnOK(nb, ms)
<1>1. LifeOK(nb)
  BY DEF LifeOK, SameShape
<1>2. RemovedOK(nb, rm)
  BY DEF RemovedOK, SameShape
<1>3. \A i \in Mqs : ms[i] \in Objs \/ ms[i] = NULL
  BY DEF Pointer
<1>4. OwnOK(nb, ms)
  BY <1>3 DEF OwnOK, SameShape
<1> QED
  BY <1>1, <1>2, <1>4

\* One bearer is replaced by one of the same shape.
LEMMA UpdateShape ==
    ASSUME NEW br \in Bearers, NEW o \in Objs, NEW c \in BearerRec,
           c.st = br[o].st, c.bearer_id = br[o].bearer_id,
           c.flow_ref = br[o].flow_ref, c.mq_idx = br[o].mq_idx,
           c.ack_mq_idx = br[o].ack_mq_idx,
           c.wd_armed \/ c.wd_running =>
              br[o].wd_armed \/ br[o].wd_running \/ br[o].st = "listed"
    PROVE  SameShape(br, [br EXCEPT ![o] = c])
BY DEF SameShape, Bearers

LEMMA WatchdogFields ==
    ASSUME NEW b \in BearerRec
    PROVE  \A c \in {WatchdogAdd(b), WatchdogRemove(b)} :
              /\ c.st = b.st /\ c.bearer_id = b.bearer_id
              /\ c.flow_ref = b.flow_ref /\ c.granted = b.granted
              /\ c.mq_idx = b.mq_idx /\ c.ack_mq_idx = b.ack_mq_idx
              /\ c.wd_running = b.wd_running
BY DEF WatchdogAdd, WatchdogRemove, BearerRec

LEMMA UpdateFcMapFields ==
    ASSUME NEW b \in BearerRec, NEW num \in BOOLEAN, NEW rat \in BOOLEAN,
           NEW bidir \in BOOLEAN, NEW adj \in Adjusted(num)
    PROVE  LET c == UpdateFcMap(b, num, rat, bidir, adj)
           IN  /\ c.st = b.st /\ c.bearer_id = b.bearer_id
               /\ c.flow_ref = b.flow_ref
               /\ c.mq_idx = b.mq_idx /\ c.ack_mq_idx = b.ack_mq_idx
<1> DEFINE b1 == IF rat THEN [b EXCEPT !.rat_switch = ~num] ELSE b
           b2 == [b1 EXCEPT !.granted = adj[1], !.tcp_bidir = bidir]
<1>1. /\ b1 \in BearerRec
      /\ b1.st = b.st /\ b1.bearer_id = b.bearer_id
      /\ b1.flow_ref = b.flow_ref
      /\ b1.mq_idx = b.mq_idx /\ b1.ack_mq_idx = b.ack_mq_idx
  BY ZenonT(40) DEF BearerRec
<1>2. /\ b2 \in BearerRec
      /\ b2.st = b1.st /\ b2.bearer_id = b1.bearer_id
      /\ b2.flow_ref = b1.flow_ref
      /\ b2.mq_idx = b1.mq_idx /\ b2.ack_mq_idx = b1.ack_mq_idx
  <2> HIDE DEF b1
  <2> QED BY <1>1, AdjustedType DEF BearerRec
<1>3. UpdateFcMap(b, num, rat, bidir, adj)
        \in {b1, WatchdogAdd(b2), WatchdogRemove(b2)}
  BY DEF UpdateFcMap
<1> HIDE DEF b1, b2
<1> QED
  BY <1>1, <1>2, <1>3, WatchdogFields

LEMMA EnabledBearerFields ==
    ASSUME NEW b \in BearerRec
    PROVE  LET c == EnabledBearer(b)
           IN  /\ c.st = b.st /\ c.bearer_id = b.bearer_id
               /\ c.flow_ref = b.flow_ref
               /\ c.mq_idx = b.mq_idx /\ c.ack_mq_idx = b.ack_mq_idx
<1> DEFINE b1 == [b EXCEPT !.tcp_bidir = FALSE, !.rat_switch = FALSE]
           b2 == WatchdogRemove(b1)
           b3 == [b2 EXCEPT !.granted = TRUE]
<1>1. /\ b1 \in BearerRec
      /\ b1.st = b.st /\ b1.bearer_id = b.bearer_id
      /\ b1.flow_ref = b.flow_ref
      /\ b1.mq_idx = b.mq_idx /\ b1.ack_mq_idx = b.ack_mq_idx
  BY DEF BearerRec
<1>2. /\ b2 \in BearerRec
      /\ b2.st = b.st /\ b2.bearer_id = b.bearer_id
      /\ b2.flow_ref = b.flow_ref
      /\ b2.mq_idx = b.mq_idx /\ b2.ack_mq_idx = b.ack_mq_idx
  <2> HIDE DEF b1
  <2> QED BY <1>1, WatchdogType, WatchdogFields
<1>3. /\ b3.st = b.st /\ b3.bearer_id = b.bearer_id
      /\ b3.flow_ref = b.flow_ref
      /\ b3.mq_idx = b.mq_idx /\ b3.ack_mq_idx = b.ack_mq_idx
  <2> HIDE DEF b2
  <2> QED BY <1>2 DEF BearerRec
<1>4. EnabledBearer(b) \in {b2, b3}
  BY DEF EnabledBearer
<1> HIDE DEF b1, b2, b3
<1> QED
  BY <1>2, <1>3, <1>4

LEMMA WatchdogExpireShape ==
    ASSUME TypeOK, NEW o \in Objs, WatchdogExpire(o)
    PROVE  SameShape(bearer, bearer')
<1> DEFINE c == [bearer[o] EXCEPT !.wd_armed = FALSE, !.wd_running = TRUE]
<1>1. bearer[o] \in BearerRec /\ bearer \in Bearers
  BY DEF TypeOK, Bearers
<1>2. /\ c \in BearerRec
      /\ c.st = bearer[o].st /\ c.bearer_id = bearer[o].bearer_id
      /\ c.flow_ref = bearer[o].flow_ref
      /\ c.mq_idx = bearer[o].mq_idx /\ c.ack_mq_idx = bearer[o].ack_mq_idx
  BY <1>1 DEF BearerRec
<1>3. bearer' = [bearer EXCEPT ![o] = c] /\ bearer[o].wd_armed
  BY DEF WatchdogExpire
<1> HIDE DEF c
<1> QED
  BY <1>1, <1>2, <1>3, UpdateShape

LEMMA WatchdogFnShape ==
    ASSUME TypeOK, NEW o \in Objs, WatchdogFn(o)
    PROVE  SameShape(bearer, bearer')
<1> DEFINE done == [bearer[o] EXCEPT !.wd_started = FALSE, !.wd_running = FALSE]
           start == [done EXCEPT !.granted = TRUE]
<1>1. bearer[o] \in BearerRec /\ bearer \in Bearers
  BY DEF TypeOK, Bearers
<1>2. /\ done \in BearerRec
      /\ done.st = bearer[o].st /\ done.bearer_id = bearer[o].bearer_id
      /\ done.flow_ref = bearer[o].flow_ref
      /\ done.mq_idx = bearer[o].mq_idx
      /\ done.ack_mq_idx = bearer[o].ack_mq_idx
  BY <1>1 DEF BearerRec
<1>3. /\ start \in BearerRec
      /\ start.st = bearer[o].st /\ start.bearer_id = bearer[o].bearer_id
      /\ start.flow_ref = bearer[o].flow_ref
      /\ start.mq_idx = bearer[o].mq_idx
      /\ start.ack_mq_idx = bearer[o].ack_mq_idx
  <2> HIDE DEF done
  <2> QED BY <1>2 DEF BearerRec
<1>4. /\ bearer[o].wd_running
      /\ \E c \in {done, start} : bearer' = [bearer EXCEPT ![o] = c]
  BY DEF WatchdogFn
<1> HIDE DEF done, start
<1>5. PICK c \in {done, start} : bearer' = [bearer EXCEPT ![o] = c]
  BY <1>4
<1>6. /\ c \in BearerRec
      /\ c.st = bearer[o].st /\ c.bearer_id = bearer[o].bearer_id
      /\ c.flow_ref = bearer[o].flow_ref
      /\ c.mq_idx = bearer[o].mq_idx
      /\ c.ack_mq_idx = bearer[o].ack_mq_idx
  BY <1>2, <1>3
<1>7. SameShape(bearer, [bearer EXCEPT ![o] = c])
  BY <1>1, <1>4, <1>6, UpdateShape
<1> QED
  BY <1>5, <1>7

LEMMA AllBearerShape ==
    ASSUME TypeOK, NEW num \in AllBearerGrants, NEW bidir \in Bidirs,
           AllBearerFlowCtl(num, bidir)
    PROVE  SameShape(bearer, bearer')
<1> SUFFICES ASSUME NEW o \in Objs
             PROVE  /\ bearer'[o].st = bearer[o].st
                    /\ bearer'[o].bearer_id = bearer[o].bearer_id
                    /\ bearer'[o].flow_ref = bearer[o].flow_ref
                    /\ bearer'[o].mq_idx = bearer[o].mq_idx
                    /\ bearer'[o].ack_mq_idx = bearer[o].ack_mq_idx
                    /\ bearer'[o].wd_armed = bearer[o].wd_armed
                    /\ bearer'[o].wd_running = bearer[o].wd_running
  BY DEF SameShape
<1>1. bearer[o] \in BearerRec
  BY DEF TypeOK
<1>2. bearer'[o] \in {bearer[o],
                      [bearer[o] EXCEPT !.granted = num, !.tcp_bidir = bidir]}
  BY DEF AllBearerFlowCtl
<1> QED
  BY <1>1, <1>2 DEF BearerRec

LEMMA EnableAllShape ==
    ASSUME TypeOK, EnableAllFlows
    PROVE  SameShape(bearer, bearer')
<1> SUFFICES ASSUME NEW o \in Objs
             PROVE  /\ bearer'[o].st = bearer[o].st
                    /\ bearer'[o].bearer_id = bearer[o].bearer_id
                    /\ bearer'[o].flow_ref = bearer[o].flow_ref
                    /\ bearer'[o].mq_idx = bearer[o].mq_idx
                    /\ bearer'[o].ack_mq_idx = bearer[o].ack_mq_idx
                    /\ bearer'[o] = bearer[o] \/ bearer[o].st = "listed"
  BY DEF SameShape
<1>1. bearer[o] \in BearerRec
  BY DEF TypeOK
<1>2. \/ bearer'[o] = bearer[o]
      \/ bearer'[o] = EnabledBearer(bearer[o]) /\ bearer[o].st = "listed"
  BY DEF EnableAllFlows, Listed
<1> QED
  BY <1>1, <1>2, EnabledBearerFields

LEMMA TxLinkShape ==
    ASSUME TypeOK, NEW id \in BearerIds, NEW on \in TxStatuses,
           TxLinkStatus(id, on)
    PROVE  SameShape(bearer, bearer')
<1>1. PICK o \in Lookup(bearer, id) :
        LET off == [bearer[o] EXCEPT !.tx_off = ~on]
            stop == WatchdogRemove([off EXCEPT !.granted = FALSE,
                                               !.tcp_bidir = FALSE])
            start == [off EXCEPT !.granted = TRUE]
        IN  \E c \in {off, stop, start} : bearer' = [bearer EXCEPT ![o] = c]
  BY DEF TxLinkStatus
<1> DEFINE off == [bearer[o] EXCEPT !.tx_off = ~on]
           halt == [off EXCEPT !.granted = FALSE, !.tcp_bidir = FALSE]
           start == [off EXCEPT !.granted = TRUE]
           Same(c) == /\ c \in BearerRec
                      /\ c.st = bearer[o].st /\ c.bearer_id = bearer[o].bearer_id
                      /\ c.flow_ref = bearer[o].flow_ref
                      /\ c.mq_idx = bearer[o].mq_idx
                      /\ c.ack_mq_idx = bearer[o].ack_mq_idx
<1>2. /\ o \in Objs /\ bearer[o].st = "listed"
      /\ bearer[o] \in BearerRec /\ bearer \in Bearers
  BY DEF Lookup, TypeOK, Bearers
<1>3. Same(off)
  BY <1>2 DEF BearerRec
<1>4. Same(halt) /\ Same(start)
  <2> HIDE DEF off
  <2> QED BY <1>3 DEF BearerRec
<1>5. Same(WatchdogRemove(halt))
  <2> HIDE DEF halt
  <2> QED BY <1>4, WatchdogFields, WatchdogType
<1>6. \E c \in {off, WatchdogRemove(halt), start} :
         bearer' = [bearer EXCEPT ![o] = c]
  BY <1>1
<1>7. PICK c : Same(c) /\ bearer' = [bearer EXCEPT ![o] = c]
  <2> HIDE DEF off, halt, start, Same
  <2> QED BY <1>3, <1>4, <1>5, <1>6
<1> QED
  BY <1>2, <1>7, UpdateShape

LEMMA BurstShape ==
    ASSUME TypeOK, NEW f \in Flows, BurstCheck(f)
    PROVE  SameShape(bearer, bearer')
<1> DEFINE o == flow[f].bearer
           c == [bearer[o] EXCEPT !.granted = FALSE]
<1>1. o \in Objs
  BY DEF BurstCheck, TypeOK, FlowRec, Pointer
<1>2. bearer' = [bearer EXCEPT ![o] = c]
  BY DEF BurstCheck
<1> HIDE DEF o
<1>3. bearer[o] \in BearerRec /\ bearer \in Bearers
  BY <1>1 DEF TypeOK, Bearers
<1>4. /\ c \in BearerRec
      /\ c.st = bearer[o].st /\ c.bearer_id = bearer[o].bearer_id
      /\ c.flow_ref = bearer[o].flow_ref
      /\ c.mq_idx = bearer[o].mq_idx /\ c.ack_mq_idx = bearer[o].ack_mq_idx
      /\ c.wd_armed = bearer[o].wd_armed /\ c.wd_running = bearer[o].wd_running
  BY <1>3 DEF BearerRec
<1> HIDE DEF c
<1> QED
  BY <1>1, <1>2, <1>3, <1>4, UpdateShape

LEMMA CleanQuitShape ==
    ASSUME TypeOK, removed \in Objs, BearerCleanQuit
    PROVE  SameShape(bearer, bearer')
<1> DEFINE c == [bearer[removed] EXCEPT !.wd_quit = TRUE]
<1>1. bearer[removed] \in BearerRec /\ bearer \in Bearers
  BY DEF TypeOK, Bearers
<1>2. /\ c \in BearerRec
      /\ c.st = bearer[removed].st /\ c.bearer_id = bearer[removed].bearer_id
      /\ c.flow_ref = bearer[removed].flow_ref
      /\ c.mq_idx = bearer[removed].mq_idx
      /\ c.ack_mq_idx = bearer[removed].ack_mq_idx
      /\ c.wd_armed = bearer[removed].wd_armed
      /\ c.wd_running = bearer[removed].wd_running
  BY <1>1 DEF BearerRec
<1>3. bearer' = [bearer EXCEPT ![removed] = c]
  BY DEF BearerCleanQuit
<1> HIDE DEF c
<1> QED
  BY <1>1, <1>2, <1>3, UpdateShape

\* An indication for an unknown bearer creates it without a reference.
NoRef(br, id, o) == [BearerGet(br, id, o) EXCEPT ![o].flow_ref = 0]

LEMMA NoRefFields ==
    ASSUME NEW br \in Bearers, NEW id \in BearerIds, NEW o \in Objs,
           br[o].st = "free"
    PROVE  LET new == NoRef(br, id, o)
           IN  /\ new \in Bearers
               /\ \A p \in Objs : p # o => new[p] = br[p]
               /\ new[o].st = "listed"
               /\ new[o].flow_ref = 0
               /\ new[o].bearer_id = id
               /\ new[o].mq_idx = InvalidMq
               /\ new[o].ack_mq_idx = InvalidMq
<1> DEFINE get == BearerGet(br, id, o)
<1>1. get \in Bearers
  BY BearerGetType DEF Bearers
<1>2. /\ \A p \in Objs : p # o => get[p] = br[p]
      /\ get[o].st = "listed" /\ get[o].bearer_id = id
      /\ get[o].mq_idx = InvalidMq /\ get[o].ack_mq_idx = InvalidMq
  BY GetFields
<1> HIDE DEF get
<1> DEFINE new == [get EXCEPT ![o].flow_ref = 0]
<1>3. /\ new \in Bearers
      /\ \A p \in Objs : p # o => new[p] = get[p]
      /\ new[o].st = get[o].st
      /\ new[o].flow_ref = 0
      /\ new[o].bearer_id = get[o].bearer_id
      /\ new[o].mq_idx = get[o].mq_idx
      /\ new[o].ack_mq_idx = get[o].ack_mq_idx
  BY <1>1 DEF Bearers, BearerRec
<1>4. NoRef(br, id, o) = new
  BY DEF NoRef, get
<1> HIDE DEF new
<1> QED
  BY <1>2, <1>3, <1>4

LEMMA NoRefKeeps ==
    ASSUME NEW br \in Bearers, NEW id \in BearerIds, NEW o \in Objs,
           NEW ms \in [Mqs -> Pointer], NEW rm,
           br[o].st = "free", LifeOK(br), RemovedOK(br, rm), OwnOK(br, ms)
    PROVE  LET new == NoRef(br, id, o)
           IN  LifeOK(new) /\ RemovedOK(new, rm) /\ OwnOK(new, ms)
<1> DEFINE new == NoRef(br, id, o)
<1>1. /\ new \in Bearers
      /\ \A p \in Objs : p # o => new[p] = br[p]
      /\ new[o].st = "listed"
      /\ new[o].flow_ref = 0
      /\ new[o].mq_idx = InvalidMq
      /\ new[o].ack_mq_idx = InvalidMq
  BY NoRefFields
<1>2. \A i \in Mqs : ms[i] \in Objs \/ ms[i] = NULL
  BY DEF Pointer
<1> HIDE DEF new
<1>3. LifeOK(new)
  BY <1>1 DEF LifeOK
<1>4. RemovedOK(new, rm)
  BY <1>1 DEF RemovedOK
<1>5. OwnOK(new, ms)
  BY <1>1, <1>2 DEF OwnOK
<1> QED
  BY <1>3, <1>4, <1>5 DEF new

LEMMA FlowStatusShape ==
    ASSUME TypeOK, NEW id \in BearerIds, NEW num \in BOOLEAN,
           NEW rat \in BOOLEAN, NEW bidir \in Bidirs,
           FlowStatus(id, num, rat, bidir)
    PROVE  \/ SameShape(bearer, bearer')
           \/ \E o \in Objs : /\ bearer[o].st = "free"
                              /\ Lookup(bearer, id) = {}
                              /\ SameShape(NoRef(bearer, id, o), bearer')
<1>1. PICK o \in GetChoices(bearer, id), adj \in Adjusted(num) :
        LET br == IF bearer[o].st = "listed" THEN bearer
                  ELSE NoRef(bearer, id, o)
        IN  bearer' = [br EXCEPT ![o] = UpdateFcMap(br[o], num, rat, bidir, adj)]
  BY DEF FlowStatus, NoRef
<1> DEFINE br == IF bearer[o].st = "listed" THEN bearer
                 ELSE NoRef(bearer, id, o)
           c == UpdateFcMap(br[o], num, rat, bidir, adj)
<1>2. /\ o \in Objs /\ bearer[o].st \in {"free", "listed"}
      /\ bearer[o].st = "free" => Lookup(bearer, id) = {}
      /\ bearer \in Bearers /\ bidir \in BOOLEAN
  BY ConstAssumption DEF GetChoices, Lookup, TypeOK, Bearers
<1>3. br \in Bearers /\ br[o].st = "listed"
  BY <1>2, NoRefFields
<1>4. /\ c \in BearerRec
      /\ c.st = br[o].st /\ c.bearer_id = br[o].bearer_id
      /\ c.flow_ref = br[o].flow_ref
      /\ c.mq_idx = br[o].mq_idx /\ c.ack_mq_idx = br[o].ack_mq_idx
  <2> HIDE DEF br
  <2>1. br[o] \in BearerRec
    BY <1>2, <1>3 DEF Bearers
  <2> QED
    BY <1>2, <2>1, UpdateFcMapType, UpdateFcMapFields
<1>5. bearer' = [br EXCEPT ![o] = c]
  BY <1>1
<1>6. SameShape(br, bearer')
  <2> HIDE DEF br, c
  <2> QED BY <1>2, <1>3, <1>4, <1>5, UpdateShape
<1> QED
  BY <1>2, <1>6

-----------------------------------------------------------------------------
(* The lifetime of bearers and the ownership of queues.                     *)

RtOK == rt.pc \in {"clean", "sync"} <=> removed # NULL

StructInv ==
    /\ TypeOK
    /\ RtOK
    /\ LifeOK(bearer)
    /\ RemovedOK(bearer, removed)
    /\ OwnOK(bearer, mq)

LEMMA InitStruct == Init => StructInv
<1> SUFFICES ASSUME Init PROVE StructInv
  OBVIOUS
<1>1. TypeOK
  BY InitType
<1>2. RtOK
  BY DEF Init, RtOK, Idle
<1>3. LifeOK(bearer) /\ RemovedOK(bearer, removed)
  BY ConstAssumption DEF Init, LifeOK, RemovedOK, Zeroed
<1>4. OwnOK(bearer, mq)
  BY MqRange DEF Init, OwnOK, Zeroed
<1> QED
  BY <1>1, <1>2, <1>3, <1>4 DEF StructInv

\* rt after a section that ends in qmi_rmnet_bearer_clean
LEMMA ToCleanRt ==
    ASSUME NEW r \in Activations \cup {NULL}, ToClean(r) PROVE RtOK'
BY DEF ToClean, Resume, Idle, RtOK

LEMMA DelSectionStruct ==
    ASSUME StructInv, removed = NULL, NEW f \in Flows, DelSection(f)
    PROVE  /\ LifeOK(bearer') /\ RemovedOK(bearer', removed')
           /\ OwnOK(bearer', mq')
<1>1. CASE flow[f] = NULL
  BY <1>1 DEF DelSection, StructInv
<1>2. CASE flow[f] # NULL
  <2>1. flow[f].bearer \in Pointer /\ bearer \in Bearers
    BY <1>2 DEF StructInv, TypeOK, FlowRec, Bearers
  <2>2. /\ bearer' = PutBearer(bearer, flow[f].bearer)
        /\ mq' = PutMq(mq, bearer, flow[f].bearer)
        /\ removed' = PutRemoved(bearer, flow[f].bearer)
    BY <1>2 DEF DelSection
  <2> QED
    BY <2>1, <2>2, PutLife, PutOwn DEF StructInv, TypeOK
<1> QED
  BY <1>1, <1>2

LEMMA CreateFlowStruct ==
    ASSUME StructInv, NEW r \in Activations, CreateFlow(r) PROVE StructInv'
<1>1. PICK o \in GetChoices(bearer, r[2]) :
        /\ bearer' = BindBearer(BearerGet(bearer, r[2], o), mq, r[3], o)
        /\ mq' = BindMq(mq, r[3], o)
  BY DEF CreateFlow
<1> DEFINE br == BearerGet(bearer, r[2], o)
<1>2. /\ o \in Objs /\ r[2] \in BearerIds /\ r[3] \in Mqs
      /\ bearer \in Bearers /\ br \in Bearers
  BY GetChoicesType, ActivationParts, BearerGetType DEF StructInv, TypeOK, Bearers
<1>3. LifeOK(br) /\ RemovedOK(br, removed) /\ OwnOK(br, mq) /\ br[o].st = "listed"
  BY <1>2, GetLife, GetOwn DEF StructInv, TypeOK
<1>4. /\ LifeOK(bearer') /\ RemovedOK(bearer', removed)
      /\ OwnOK(bearer', mq')
  <2> HIDE DEF br
  <2>1. /\ bearer' = BindBearer(br, mq, r[3], o)
        /\ mq' = BindMq(mq, r[3], o)
    BY <1>1 DEF br
  <2> QED
    BY <1>2, <1>3, <2>1, BindLife, BindOwn DEF StructInv, TypeOK
<1>5. TypeOK'
  BY NextType DEF StructInv, Next, Netlink
<1>6. RtOK' /\ removed' = removed
  BY ToCleanRt DEF CreateFlow
<1> QED
  BY <1>4, <1>5, <1>6 DEF StructInv

LEMMA RebindFlowStruct ==
    ASSUME StructInv, NEW r \in Activations, RebindFlow(r) PROVE StructInv'
<1> DEFINE old == flow[r[1]].bearer
           put == PutBearer(bearer, old)
           ms == PutMq(mq, bearer, old)
<1>1. /\ old \in Pointer /\ r[2] \in BearerIds /\ r[3] \in Mqs
      /\ bearer \in Bearers
  BY ActivationParts DEF RebindFlow, StructInv, TypeOK, FlowRec, Bearers
<1>2. removed = NULL
  BY DEF RebindFlow, Enters, StructInv, RtOK, Idle
<1>3. removed' = PutRemoved(bearer, old)
  BY DEF RebindFlow
<1>4. TypeOK' /\ RtOK'
  BY NextType, ToCleanRt DEF RebindFlow, StructInv, Next, Netlink
<1>5. put \in Bearers /\ ms \in [Mqs -> Pointer]
  <2> HIDE DEF old
  <2> QED BY <1>1, PutType DEF StructInv, TypeOK, Bearers
<1>6. LifeOK(put) /\ RemovedOK(put, removed') /\ OwnOK(put, ms)
  <2> HIDE DEF old
  <2> QED BY <1>1, <1>2, <1>3, PutLife, PutOwn DEF StructInv, TypeOK
<1>7. CASE \E o \in GetChoices(put, r[2]) :
             /\ bearer' = BindBearer(BearerGet(put, r[2], o), ms, r[3], o)
             /\ mq' = BindMq(ms, r[3], o)
  <2> HIDE DEF put, ms, old
  <2>1. PICK o \in GetChoices(put, r[2]) :
             /\ bearer' = BindBearer(BearerGet(put, r[2], o), ms, r[3], o)
             /\ mq' = BindMq(ms, r[3], o)
    BY <1>7
  <2> DEFINE br == BearerGet(put, r[2], o)
  <2>2. o \in Objs /\ br \in Bearers
    BY <1>1, <1>5, GetChoicesType, BearerGetType DEF Bearers
  <2>3. removed' \in Pointer
    BY <1>4 DEF TypeOK
  <2>4. /\ LifeOK(br) /\ RemovedOK(br, removed') /\ OwnOK(br, ms)
        /\ br[o].st = "listed"
    BY <1>1, <1>5, <1>6, <2>3, GetLife, GetOwn
  <2>5. LifeOK(bearer') /\ RemovedOK(bearer', removed') /\ OwnOK(bearer', mq')
    <3>1. bearer' = BindBearer(br, ms, r[3], o) /\ mq' = BindMq(ms, r[3], o)
      BY <2>1
    <3> HIDE DEF br
    <3> QED BY <1>1, <1>5, <2>2, <2>3, <2>4, <3>1, BindLife, BindOwn
  <2> QED
    BY <1>4, <2>5 DEF StructInv
<1>8. CASE bearer' = put /\ mq' = ms
  <2> HIDE DEF put, ms
  <2> QED BY <1>4, <1>6, <1>8 DEF StructInv
<1> QED
  BY <1>7, <1>8 DEF RebindFlow

LEMMA QuietStruct ==
    ASSUME StructInv, TypeOK', RtOK', SameShape(bearer, bearer'),
           UNCHANGED <<mq, removed>>
    PROVE  StructInv'
<1>1. bearer \in Bearers /\ bearer' \in Bearers /\ mq \in [Mqs -> Pointer]
  BY DEF StructInv, TypeOK, Bearers
<1> QED
  BY <1>1, SameShapeKeeps DEF StructInv

LEMMA NextStruct == StructInv /\ [Next]_vars => StructInv'
<1> SUFFICES ASSUME StructInv, [Next]_vars PROVE StructInv'
  OBVIOUS
<1>0. TypeOK /\ TypeOK'
  BY NextType DEF StructInv
<1>1. ASSUME NEW r \in Activations, CreateFlow(r) PROVE StructInv'
  BY <1>1, CreateFlowStruct
<1>2. ASSUME NEW r \in Activations, CreateFlowFails(r) PROVE StructInv'
  <2>1. removed = NULL /\ UNCHANGED <<bearer, mq, removed>>
    BY <1>2 DEF CreateFlowFails, Enters, StructInv, RtOK, Idle
  <2>2. RtOK'
    BY <1>2, <2>1 DEF CreateFlowFails, RtOK, Idle
  <2> QED
    BY <1>0, <2>1, <2>2 DEF StructInv
<1>3. ASSUME NEW r \in Activations, RebindFlow(r) PROVE StructInv'
  BY <1>3, RebindFlowStruct
<1>4. ASSUME NEW r \in Activations, KeepFlow(r) PROVE StructInv'
  <2>1. removed = NULL /\ UNCHANGED <<bearer, mq, removed>>
    BY <1>4 DEF KeepFlow, Enters, StructInv, RtOK, Idle
  <2>2. RtOK'
    BY <1>4, <2>1 DEF KeepFlow, RtOK, Idle
  <2> QED
    BY <1>0, <2>1, <2>2 DEF StructInv
<1>5. ASSUME NEW f \in Flows, Deactivate(f) PROVE StructInv'
  <2>1. removed = NULL /\ RtOK'
    BY <1>5, ToCleanRt DEF Deactivate, StructInv, RtOK, Idle
  <2> QED
    BY <1>0, <1>5, <2>1, DelSectionStruct DEF Deactivate, StructInv
<1>6. CASE DelForAgain
  <2>1. rt.req \in Activations /\ removed = NULL
    BY <1>6 DEF DelForAgain, StructInv, TypeOK, RtRec, RtOK
  <2>2. rt.req[1] \in Flows /\ RtOK'
    BY <1>6, <2>1, ActivationParts, ToCleanRt DEF DelForAgain
  <2> QED
    BY <1>0, <1>6, <2>1, <2>2, DelSectionStruct DEF DelForAgain, StructInv
<1>7. CASE BearerCleanQuit
  <2>1. removed \in Objs
    BY <1>7 DEF BearerCleanQuit, StructInv, RtOK, TypeOK, Pointer
  <2>2. RtOK' /\ UNCHANGED <<mq, removed>>
    BY <1>0, <1>7 DEF BearerCleanQuit, StructInv, RtOK, TypeOK, RtRec
  <2> QED
    BY <1>0, <1>7, <2>1, <2>2, CleanQuitShape, QuietStruct
<1>8. CASE BearerCleanFree
  <2>1. /\ removed \in Objs /\ removed' = NULL /\ mq' = mq
        /\ bearer' = [bearer EXCEPT ![removed] = Zeroed]
    BY <1>8 DEF BearerCleanFree, StructInv, RtOK, TypeOK, Pointer
  <2>2. RtOK'
    BY <1>8, <2>1 DEF BearerCleanFree, RtOK, Resume, Idle
  <2>3. /\ \A p \in Objs : p # removed => bearer'[p] = bearer[p]
        /\ bearer'[removed] = Zeroed
        /\ bearer[removed].st = "removed"
    BY <1>0, <2>1 DEF TypeOK, StructInv, RemovedOK
  <2>4. LifeOK(bearer')
    BY <2>1, <2>3 DEF LifeOK, StructInv, Zeroed
  <2>5. RemovedOK(bearer', removed')
    BY <2>1, <2>3, ConstAssumption DEF RemovedOK, StructInv, Zeroed
  <2>6. \A i \in Mqs : mq[i] \in Objs \/ mq[i] = NULL
    BY <1>0 DEF TypeOK, Pointer
  <2>7. OwnOK(bearer', mq')
    BY <2>1, <2>3, <2>6 DEF OwnOK, StructInv, Zeroed
  <2> QED
    BY <1>0, <2>2, <2>4, <2>5, <2>7 DEF StructInv
<1>9. ASSUME NEW o \in Objs, WatchdogExpire(o) PROVE StructInv'
  BY <1>0, <1>9, WatchdogExpireShape, QuietStruct
     DEF WatchdogExpire, StructInv, RtOK
<1>10. ASSUME NEW o \in Objs, WatchdogFn(o) PROVE StructInv'
  BY <1>0, <1>10, WatchdogFnShape, QuietStruct DEF WatchdogFn, StructInv, RtOK
<1>11. ASSUME NEW id \in BearerIds, NEW num \in BOOLEAN, NEW rat \in BOOLEAN,
              NEW bidir \in Bidirs, FlowStatus(id, num, rat, bidir)
       PROVE  StructInv'
  <2>1. RtOK' /\ UNCHANGED <<mq, removed>>
    BY <1>11 DEF FlowStatus, StructInv, RtOK
  <2>2. CASE SameShape(bearer, bearer')
    BY <1>0, <2>1, <2>2, QuietStruct
  <2>3. ASSUME NEW o \in Objs, bearer[o].st = "free",
               SameShape(NoRef(bearer, id, o), bearer')
        PROVE  StructInv'
    <3> DEFINE new == NoRef(bearer, id, o)
    <3>1. bearer \in Bearers /\ bearer' \in Bearers /\ mq \in [Mqs -> Pointer]
      BY <1>0 DEF TypeOK, Bearers
    <3>2. /\ new \in Bearers
          /\ LifeOK(new) /\ RemovedOK(new, removed) /\ OwnOK(new, mq)
      BY <2>3, <3>1, NoRefFields, NoRefKeeps DEF StructInv
    <3>3. LifeOK(bearer') /\ RemovedOK(bearer', removed) /\ OwnOK(bearer', mq)
      BY <2>3, <3>1, <3>2, SameShapeKeeps
    <3> QED
      BY <1>0, <2>1, <3>3 DEF StructInv
  <2> QED
    BY <1>0, <1>11, <2>2, <2>3, FlowStatusShape
<1>12. ASSUME NEW num \in AllBearerGrants, NEW bidir \in Bidirs,
              AllBearerFlowCtl(num, bidir)
       PROVE  StructInv'
  BY <1>0, <1>12, AllBearerShape, QuietStruct
     DEF AllBearerFlowCtl, StructInv, RtOK
<1>13. ASSUME NEW id \in BearerIds, NEW on \in TxStatuses, TxLinkStatus(id, on)
       PROVE  StructInv'
  BY <1>0, <1>13, TxLinkShape, QuietStruct DEF TxLinkStatus, StructInv, RtOK
<1>14. ASSUME NEW f \in Flows, BurstCheck(f) PROVE StructInv'
  BY <1>0, <1>14, BurstShape, QuietStruct DEF BurstCheck, StructInv, RtOK
<1>15. CASE EnableAllFlows
  BY <1>0, <1>15, EnableAllShape, QuietStruct DEF EnableAllFlows, StructInv, RtOK
<1>16. ASSUME NEW enable \in VndCommands, VndFlowControl(enable)
       PROVE  StructInv'
  BY <1>0, <1>16 DEF VndFlowControl, StructInv, RtOK
<1>17. CASE UNCHANGED vars
  BY <1>0, <1>17 DEF vars, StructInv, RtOK
<1> QED
  BY <1>1, <1>2, <1>3, <1>4, <1>5, <1>6, <1>7, <1>8, <1>9, <1>10, <1>11,
     <1>12, <1>13, <1>14, <1>15, <1>16, <1>17
     DEF Next, Netlink, Watchdog, Modem

LEMMA StructImplies ==
    StructInv => BearerLifetime /\ QueueOwner
<1> SUFFICES ASSUME StructInv PROVE BearerLifetime /\ QueueOwner
  OBVIOUS
<1>1. BearerLifetime
  BY DEF StructInv, BearerLifetime, LifeOK, RemovedOK, RtOK
<1>2. \A i \in Mqs : mq[i] \in Objs \/ mq[i] = NULL
  BY DEF StructInv, TypeOK, Pointer
<1>3. QueueOwner
  BY <1>2 DEF StructInv, QueueOwner, OwnOK, Listed
<1> QED
  BY <1>1, <1>3

LEMMA StructInvariant == Spec => []StructInv
BY InitStruct, NextStruct, PTL DEF Spec

\* A bearer's timer neither pends nor runs once the bearer is freed, and a bearer
\* that left the list is always the one bearer_clean is about to free, even when
\* allocations fail half way through a rebind.
THEOREM LifetimeSafe == Spec => []BearerLifetime
<1>1. StructInv => BearerLifetime
  BY StructImplies
<1> QED
  BY <1>1, StructInvariant, PTL

\* qos->mq[] and the bearers' queue indices never disagree, for any number of
\* flows, bearers and queues and any order of requests.
THEOREM QueueOwnerSafe == Spec => []QueueOwner
<1>1. StructInv => QueueOwner
  BY StructImplies
<1> QED
  BY <1>1, StructInvariant, PTL

-----------------------------------------------------------------------------
(* A bearer id is on the list once.                                         *)

UniqueOK(br) ==
    \A o, p \in Objs :
        br[o].st = "listed" /\ br[p].st = "listed" =>
           (br[o].bearer_id = br[p].bearer_id => o = p)

\* Fewer bearers on the list, under the same ids
LEMMA FewerUnique ==
    ASSUME NEW br, NEW nb, UniqueOK(br),
           \A o \in Objs : nb[o].st = "listed" =>
              br[o].st = "listed" /\ nb[o].bearer_id = br[o].bearer_id
    PROVE  UniqueOK(nb)
BY DEF UniqueOK

LEMMA PutUnique ==
    ASSUME NEW br \in Bearers, NEW o \in Pointer, UniqueOK(br)
    PROVE  UniqueOK(PutBearer(br, o))
<1>1. CASE o = NULL
  BY <1>1 DEF PutBearer
<1>2. CASE o \in Objs
  <2> DEFINE nb == PutBearer(br, o)
  <2>1. \A p \in Objs : nb[p].st = "listed" =>
           br[p].st = "listed" /\ nb[p].bearer_id = br[p].bearer_id
    BY <1>2, PutFields
  <2> HIDE DEF nb
  <2>2. UniqueOK(nb)
    BY <2>1, FewerUnique
  <2> QED
    BY <2>2 DEF nb
<1> QED
  BY <1>1, <1>2 DEF Pointer

\* A new object is listed only under an id that no listed bearer has.
LEMMA AddUnique ==
    ASSUME NEW br, NEW nb, NEW id, NEW o \in Objs, UniqueOK(br),
           Lookup(br, id) = {}, nb[o].bearer_id = id,
           \A p \in Objs : p # o => nb[p] = br[p]
    PROVE  UniqueOK(nb)
BY DEF UniqueOK, Lookup

LEMMA GetBindUnique ==
    ASSUME NEW br \in Bearers, NEW id \in BearerIds, NEW o \in GetChoices(br, id),
           NEW ms, NEW i \in Mqs, UniqueOK(br)
    PROVE  UniqueOK(BindBearer(BearerGet(br, id, o), ms, i, o))
<1> DEFINE get == BearerGet(br, id, o)
           nb == BindBearer(get, ms, i, o)
<1>1. /\ o \in Objs /\ br[o].st \in {"free", "listed"}
      /\ br[o].st = "free" => Lookup(br, id) = {}
  BY DEF GetChoices, Lookup
<1>2. /\ get \in Bearers
      /\ \A p \in Objs : p # o => get[p] = br[p]
      /\ br[o].st = "listed" => get[o].bearer_id = br[o].bearer_id
      /\ br[o].st # "listed" => get[o].bearer_id = id
  BY <1>1, GetFields, BearerGetType DEF Bearers
<1> HIDE DEF get
<1>3. /\ nb[o].bearer_id = get[o].bearer_id
      /\ \A p \in Objs : p # o => nb[p] = get[p]
  BY <1>1, <1>2, BindFields
<1> HIDE DEF nb
<1>4. UniqueOK(nb)
  <2>1. CASE br[o].st = "listed"
    BY <1>1, <1>2, <1>3, <2>1, FewerUnique
  <2>2. CASE br[o].st = "free"
    BY <1>1, <1>2, <1>3, <2>2, AddUnique
  <2> QED
    BY <1>1, <2>1, <2>2
<1> QED
  BY <1>4 DEF nb, get

LEMMA ShapeUnique ==
    ASSUME NEW br, NEW nb, UniqueOK(br), SameShape(br, nb)
    PROVE  UniqueOK(nb)
BY FewerUnique DEF SameShape

UniqueInv == StructInv /\ UniqueOK(bearer)

LEMMA DelSectionUnique ==
    ASSUME TypeOK, UniqueOK(bearer), NEW f \in Flows, DelSection(f)
    PROVE  UniqueOK(bearer')
<1>1. CASE flow[f] = NULL
  BY <1>1 DEF DelSection
<1>2. CASE flow[f] # NULL
  <2>1. flow[f].bearer \in Pointer /\ bearer \in Bearers
    BY <1>2 DEF TypeOK, FlowRec, Bearers
  <2>2. bearer' = PutBearer(bearer, flow[f].bearer)
    BY <1>2 DEF DelSection
  <2> QED
    BY <2>1, <2>2, PutUnique
<1> QED
  BY <1>1, <1>2

LEMMA NextUnique == UniqueInv /\ [Next]_vars => UniqueInv'
<1> SUFFICES ASSUME UniqueInv, [Next]_vars PROVE UniqueInv'
  OBVIOUS
<1>0. StructInv /\ StructInv' /\ TypeOK /\ bearer \in Bearers /\ UniqueOK(bearer)
  BY NextStruct DEF UniqueInv, StructInv, TypeOK, Bearers
<1> SUFFICES UniqueOK(bearer')
  BY <1>0 DEF UniqueInv
<1>1. ASSUME NEW r \in Activations, CreateFlow(r) PROVE UniqueOK(bearer')
  <2>1. PICK o \in GetChoices(bearer, r[2]) :
          bearer' = BindBearer(BearerGet(bearer, r[2], o), mq, r[3], o)
    BY <1>1 DEF CreateFlow
  <2> QED
    BY <1>0, <2>1, ActivationParts, GetBindUnique
<1>2. ASSUME NEW r \in Activations, CreateFlowFails(r) \/ KeepFlow(r)
      PROVE  UniqueOK(bearer')
  BY <1>0, <1>2 DEF CreateFlowFails, KeepFlow
<1>3. ASSUME NEW r \in Activations, RebindFlow(r) PROVE UniqueOK(bearer')
  <2> DEFINE old == flow[r[1]].bearer
             put == PutBearer(bearer, old)
             ms == PutMq(mq, bearer, old)
  <2>1. old \in Pointer /\ r[2] \in BearerIds /\ r[3] \in Mqs
    BY <1>0, <1>3, ActivationParts DEF RebindFlow, TypeOK, FlowRec
  <2>2. \/ bearer' = put
        \/ \E o \in GetChoices(put, r[2]) :
              bearer' = BindBearer(BearerGet(put, r[2], o), ms, r[3], o)
    BY <1>3 DEF RebindFlow
  <2> HIDE DEF old
  <2>3. put \in Bearers
    BY <1>0, <2>1, PutType DEF TypeOK, Bearers
  <2>4. UniqueOK(put)
    BY <1>0, <2>1, PutUnique
  <2> HIDE DEF put, ms
  <2> QED
    BY <2>1, <2>2, <2>3, <2>4, GetBindUnique
<1>4. ASSUME NEW f \in Flows, Deactivate(f) PROVE UniqueOK(bearer')
  BY <1>0, <1>4, DelSectionUnique DEF Deactivate
<1>5. CASE DelForAgain
  <2>1. rt.req \in Activations
    BY <1>0, <1>5 DEF DelForAgain, TypeOK, RtRec
  <2> QED
    BY <1>0, <1>5, <2>1, ActivationParts, DelSectionUnique DEF DelForAgain
<1>6. CASE BearerCleanQuit
  <2>1. removed \in Objs
    BY <1>0, <1>6 DEF BearerCleanQuit, StructInv, RtOK, TypeOK, Pointer
  <2> QED
    BY <1>0, <1>6, <2>1, CleanQuitShape, ShapeUnique
<1>7. CASE BearerCleanFree
  <2>1. bearer' = [bearer EXCEPT ![removed] = Zeroed]
    BY <1>7 DEF BearerCleanFree
  <2>2. \A p \in Objs : bearer'[p].st = "listed" => bearer'[p] = bearer[p]
    BY <1>0, <2>1 DEF Bearers, Zeroed
  <2> QED
    BY <1>0, <2>2, FewerUnique
<1>8. ASSUME NEW o \in Objs, WatchdogExpire(o) \/ WatchdogFn(o)
      PROVE  UniqueOK(bearer')
  BY <1>0, <1>8, WatchdogExpireShape, WatchdogFnShape, ShapeUnique
<1>9. ASSUME NEW id \in BearerIds, NEW num \in BOOLEAN, NEW rat \in BOOLEAN,
             NEW bidir \in Bidirs, FlowStatus(id, num, rat, bidir)
      PROVE  UniqueOK(bearer')
  <2>1. CASE SameShape(bearer, bearer')
    BY <1>0, <2>1, ShapeUnique
  <2>2. ASSUME NEW o \in Objs, bearer[o].st = "free", Lookup(bearer, id) = {},
               SameShape(NoRef(bearer, id, o), bearer')
        PROVE  UniqueOK(bearer')
    <3> DEFINE new == NoRef(bearer, id, o)
    <3>1. /\ \A p \in Objs : p # o => new[p] = bearer[p]
          /\ new[o].bearer_id = id
      BY <1>0, <2>2, NoRefFields
    <3> HIDE DEF new
    <3>2. UniqueOK(new)
      BY <1>0, <2>2, <3>1, AddUnique
    <3> QED
      BY <2>2, <3>2, ShapeUnique DEF new
  <2> QED
    BY <1>0, <1>9, <2>1, <2>2, FlowStatusShape
<1>10. ASSUME NEW num \in AllBearerGrants, NEW bidir \in Bidirs,
              AllBearerFlowCtl(num, bidir)
       PROVE  UniqueOK(bearer')
  BY <1>0, <1>10, AllBearerShape, ShapeUnique
<1>11. ASSUME NEW id \in BearerIds, NEW on \in TxStatuses, TxLinkStatus(id, on)
       PROVE  UniqueOK(bearer')
  BY <1>0, <1>11, TxLinkShape, ShapeUnique
<1>12. ASSUME NEW f \in Flows, BurstCheck(f) PROVE UniqueOK(bearer')
  BY <1>0, <1>12, BurstShape, ShapeUnique
<1>13. CASE EnableAllFlows
  BY <1>0, <1>13, EnableAllShape, ShapeUnique
<1>14. CASE UNCHANGED bearer
  BY <1>0, <1>14
<1>15. ASSUME NEW enable \in VndCommands, VndFlowControl(enable)
       PROVE  UNCHANGED bearer
  BY <1>15 DEF VndFlowControl
<1> QED
  BY <1>1, <1>2, <1>3, <1>4, <1>5, <1>6, <1>7, <1>8, <1>9, <1>10, <1>11,
     <1>12, <1>13, <1>14, <1>15
     DEF Next, Netlink, Watchdog, Modem, vars

\* A bearer id is on the bearer list at most once, for any number of flows and
\* bearers, although the netlink thread and the indications both create bearers
\* and a bearer of the same id may still be on its way to being freed.
THEOREM UniqueSafe == Spec => []UniqueBearer
<1>1. Init => UniqueInv
  <2> SUFFICES ASSUME Init PROVE UniqueInv
    OBVIOUS
  <2>1. UniqueOK(bearer)
    BY DEF Init, UniqueOK, Zeroed
  <2> QED
    BY <2>1, InitStruct DEF UniqueInv
<1>2. UniqueInv => UniqueBearer
  BY DEF UniqueInv, UniqueOK, UniqueBearer, Listed
<1> QED
  BY <1>1, <1>2, NextUnique, PTL DEF Spec

-----------------------------------------------------------------------------
(* The flows that point at a bearer.                                         *)

FlowList == [Flows -> FlowRec \cup {NULL}]

Users(fl, o) == {f \in Flows : fl[f] # NULL /\ fl[f].bearer = o}

\* The two halves of RefCount
PointOK(fl, br) ==
    \A f \in Flows : fl[f] # NULL =>
        fl[f].bearer = NULL \/ br[fl[f].bearer].st = "listed"

CountOK(fl, br) ==
    \A o \in Objs : br[o].st = "listed" =>
        br[o].flow_ref = Cardinality(Users(fl, o))

-----------------------------------------------------------------------------
(* Counting flows.                                                          *)

LEMMA UsersFinite ==
    ASSUME NEW fl, NEW o
    PROVE  IsFiniteSet(Users(fl, o)) /\ Cardinality(Users(fl, o)) \in Nat
<1>1. IsFiniteSet(Flows) /\ Users(fl, o) \in SUBSET Flows
  BY ConstAssumption DEF Users
<1>2. IsFiniteSet(Users(fl, o))
  BY <1>1, FS_Subset
<1> QED
  BY <1>2, FS_CardinalityType

LEMMA AddUser ==
    ASSUME NEW fl \in FlowList, NEW f \in Flows, fl[f] = NULL,
           NEW rec \in FlowRec, NEW o
    PROVE  Cardinality(Users([fl EXCEPT ![f] = rec], o)) =
             IF rec.bearer = o THEN Cardinality(Users(fl, o)) + 1
                               ELSE Cardinality(Users(fl, o))
<1> DEFINE nf == [fl EXCEPT ![f] = rec]
<1>1. nf[f] = rec /\ rec # NULL /\ \A g \in Flows : g # f => nf[g] = fl[g]
  BY NullAssumption DEF FlowList
<1> HIDE DEF nf
<1>2. f \notin Users(fl, o)
  BY DEF Users
<1>3. CASE rec.bearer = o
  <2>1. Users(nf, o) = Users(fl, o) \cup {f}
    BY <1>1, <1>3 DEF Users
  <2> QED
    BY <1>2, <1>3, <2>1, UsersFinite, FS_AddElement DEF nf
<1>4. CASE rec.bearer # o
  <2>1. Users(nf, o) = Users(fl, o)
    BY <1>1, <1>2, <1>4 DEF Users
  <2> QED
    BY <1>4, <2>1 DEF nf
<1> QED
  BY <1>3, <1>4

LEMMA DropUser ==
    ASSUME NEW fl \in FlowList, NEW f \in Flows, fl[f] # NULL, NEW o
    PROVE  /\ Users([fl EXCEPT ![f] = NULL], o) = Users(fl, o) \ {f}
           /\ Cardinality(Users([fl EXCEPT ![f] = NULL], o)) =
                IF fl[f].bearer = o THEN Cardinality(Users(fl, o)) - 1
                                    ELSE Cardinality(Users(fl, o))
<1> DEFINE nf == [fl EXCEPT ![f] = NULL]
<1>1. nf[f] = NULL /\ \A g \in Flows : g # f => nf[g] = fl[g]
  BY DEF FlowList
<1>2. f \in Users(fl, o) <=> fl[f].bearer = o
  BY DEF Users
<1> HIDE DEF nf
<1>3. Users(nf, o) = Users(fl, o) \ {f}
  BY <1>1 DEF Users
<1> QED
  BY <1>2, <1>3, UsersFinite, FS_RemoveElement DEF nf

LEMMA NoUsers ==
    ASSUME NEW fl \in FlowList, NEW br, NEW o \in Objs,
           PointOK(fl, br), br[o].st # "listed"
    PROVE  Cardinality(Users(fl, o)) = 0
<1>1. Users(fl, o) = {}
  BY ConstAssumption DEF Users, PointOK
<1> QED
  BY <1>1, FS_EmptySet

-----------------------------------------------------------------------------
(* Each call keeps the count.                                               *)

LEMMA PutRef ==
    ASSUME NEW fl \in FlowList, NEW br \in Bearers, NEW f \in Flows,
           fl[f] # NULL, PointOK(fl, br), CountOK(fl, br)
    PROVE  LET nf == [fl EXCEPT ![f] = NULL]
               nb == PutBearer(br, fl[f].bearer)
           IN  PointOK(nf, nb) /\ CountOK(nf, nb)
<1> DEFINE o == fl[f].bearer
           nf == [fl EXCEPT ![f] = NULL]
           nb == PutBearer(br, o)
<1>1. o \in Pointer /\ nf[f] = NULL /\ \A g \in Flows : g # f => nf[g] = fl[g]
  BY DEF FlowList, FlowRec
<1>2. \A g \in Flows : fl[g] # NULL => fl[g].bearer \in Objs \cup {NULL}
  BY DEF FlowList, FlowRec, Pointer
<1>3. CASE o = NULL
  <2>1. nb = br
    BY <1>3 DEF PutBearer
  <2>2. PointOK(nf, nb)
    BY <1>1, <2>1 DEF PointOK
  <2>3. \A p \in Objs : Cardinality(Users(nf, p)) = Cardinality(Users(fl, p))
    <3>1. \A p \in Objs : o # p
      BY <1>3, ConstAssumption
    <3> QED
      BY <3>1, DropUser
  <2>4. CountOK(nf, nb)
    BY <2>1, <2>3 DEF CountOK
  <2> QED
    BY <2>2, <2>4
<1>4. CASE o \in Objs
  <2>1. /\ \A p \in Objs : p # o => nb[p] = br[p]
        /\ nb[o].flow_ref = br[o].flow_ref - 1
        /\ nb[o].st = IF br[o].flow_ref = 1 THEN "removed" ELSE br[o].st
    BY <1>4, PutFields
  <2>2. /\ o # NULL /\ br[o].st = "listed"
        /\ br[o].flow_ref = Cardinality(Users(fl, o))
    BY <1>4, ConstAssumption DEF PointOK, CountOK
  <2>3. \A p \in Objs : p # o =>
           Cardinality(Users(nf, p)) = Cardinality(Users(fl, p))
    BY DropUser
  <2>4. Cardinality(Users(nf, o)) = Cardinality(Users(fl, o)) - 1
    BY DropUser
  <2> HIDE DEF nf, nb
  <2>5. CountOK(nf, nb)
    BY <1>4, <2>1, <2>2, <2>3, <2>4 DEF CountOK
  <2>6. ASSUME NEW g \in Flows, nf[g] # NULL, nf[g].bearer # NULL
        PROVE  nb[nf[g].bearer].st = "listed"
    <3>1. g # f /\ nf[g] = fl[g] /\ fl[g].bearer \in Objs
      BY <1>1, <1>2, <2>6
    <3>2. br[fl[g].bearer].st = "listed"
      BY <2>6, <3>1 DEF PointOK
    <3>3. CASE fl[g].bearer # o
      BY <2>1, <3>1, <3>2, <3>3
    <3>4. CASE fl[g].bearer = o
      <4>1. g \in Users(fl, o) /\ f \in Users(fl, o)
        BY <2>6, <3>1, <3>4 DEF Users
      <4>2. Cardinality(Users(fl, o)) # 1
        BY <3>1, <4>1, UsersFinite, FS_Singleton
      <4> QED
        BY <2>1, <2>2, <3>1, <3>4, <4>2
    <3> QED
      BY <3>3, <3>4
  <2>7. PointOK(nf, nb)
    BY <2>6 DEF PointOK
  <2> QED
    BY <2>5, <2>7 DEF nf, nb
<1> QED
  BY <1>1, <1>3, <1>4 DEF Pointer

LEMMA GetRef ==
    ASSUME NEW fl \in FlowList, NEW br \in Bearers, NEW f \in Flows,
           fl[f] = NULL, NEW id \in BearerIds, NEW o \in GetChoices(br, id),
           NEW rec \in FlowRec, rec.bearer = o,
           PointOK(fl, br), CountOK(fl, br)
    PROVE  LET nf == [fl EXCEPT ![f] = rec]
               nb == BearerGet(br, id, o)
           IN  PointOK(nf, nb) /\ CountOK(nf, nb)
<1> DEFINE nf == [fl EXCEPT ![f] = rec]
           nb == BearerGet(br, id, o)
<1>1. o \in Objs /\ nf[f] = rec /\ \A g \in Flows : g # f => nf[g] = fl[g]
  BY GetChoicesType DEF FlowList
<1>2. /\ \A p \in Objs : p # o => nb[p] = br[p]
      /\ nb[o].st = "listed"
      /\ br[o].st = "listed" => nb[o].flow_ref = br[o].flow_ref + 1
      /\ br[o].st # "listed" => nb[o].flow_ref = 1
  BY <1>1, GetFields
<1>3. \A g \in Flows : fl[g] # NULL => fl[g].bearer \in Objs \cup {NULL}
  BY DEF FlowList, FlowRec, Pointer
<1>4. \A p \in Objs : p # o =>
         Cardinality(Users(nf, p)) = Cardinality(Users(fl, p))
  BY AddUser
<1>5. Cardinality(Users(nf, o)) = Cardinality(Users(fl, o)) + 1
  BY AddUser
<1>6. br[o].st # "listed" => Cardinality(Users(fl, o)) = 0
  BY <1>1, NoUsers
<1> HIDE DEF nf, nb
<1>7. CountOK(nf, nb)
  BY <1>1, <1>2, <1>4, <1>5, <1>6 DEF CountOK
<1>8. PointOK(nf, nb)
  BY <1>1, <1>2, <1>3 DEF PointOK
<1> QED
  BY <1>7, <1>8 DEF nf, nb

LEMMA BindRef ==
    ASSUME NEW fl, NEW br \in Bearers, NEW o \in Objs, NEW ms, NEW i \in Mqs,
           fl \in FlowList, PointOK(fl, br), CountOK(fl, br)
    PROVE  /\ PointOK(fl, BindBearer(br, ms, i, o))
           /\ CountOK(fl, BindBearer(br, ms, i, o))
<1> DEFINE nb == BindBearer(br, ms, i, o)
<1>1. \A p \in Objs : nb[p].st = br[p].st /\ nb[p].flow_ref = br[p].flow_ref
  BY BindFields
<1>2. \A g \in Flows : fl[g] # NULL => fl[g].bearer \in Objs \cup {NULL}
  BY DEF FlowList, FlowRec, Pointer
<1> HIDE DEF nb
<1>3. PointOK(fl, nb) /\ CountOK(fl, nb)
  BY <1>1, <1>2 DEF PointOK, CountOK
<1> QED
  BY <1>3 DEF nb

LEMMA SameShapeRef ==
    ASSUME NEW fl \in FlowList, NEW br, NEW nb,
           SameShape(br, nb), PointOK(fl, br), CountOK(fl, br)
    PROVE  PointOK(fl, nb) /\ CountOK(fl, nb)
<1>1. \A g \in Flows : fl[g] # NULL => fl[g].bearer \in Objs \cup {NULL}
  BY DEF FlowList, FlowRec, Pointer
<1> QED
  BY <1>1 DEF SameShape, PointOK, CountOK

LEMMA NoRefRef ==
    ASSUME NEW fl \in FlowList, NEW br \in Bearers, NEW id \in BearerIds,
           NEW o \in Objs, br[o].st = "free", PointOK(fl, br), CountOK(fl, br)
    PROVE  PointOK(fl, NoRef(br, id, o)) /\ CountOK(fl, NoRef(br, id, o))
<1> DEFINE nb == NoRef(br, id, o)
<1>1. /\ \A p \in Objs : p # o => nb[p] = br[p]
      /\ nb[o].st = "listed" /\ nb[o].flow_ref = 0
  BY NoRefFields
<1>2. Cardinality(Users(fl, o)) = 0
  BY NoUsers
<1>3. \A g \in Flows : fl[g] # NULL => fl[g].bearer \in Objs \cup {NULL}
  BY DEF FlowList, FlowRec, Pointer
<1> HIDE DEF nb
<1>4. PointOK(fl, nb) /\ CountOK(fl, nb)
  BY <1>1, <1>2, <1>3 DEF PointOK, CountOK
<1> QED
  BY <1>4 DEF nb

-----------------------------------------------------------------------------
(* The reference count.                                                     *)

RefInv == StructInv /\ PointOK(flow, bearer) /\ CountOK(flow, bearer)

LEMMA QuietRef ==
    ASSUME RefInv, StructInv', SameShape(bearer, bearer'), UNCHANGED flow
    PROVE  RefInv'
<1>1. flow \in FlowList
  BY DEF RefInv, StructInv, TypeOK, FlowList
<1> QED
  BY <1>1, SameShapeRef DEF RefInv

LEMMA CreateFlowRef ==
    ASSUME RefInv, NEW r \in Activations, CreateFlow(r), StructInv'
    PROVE  RefInv'
<1>1. PICK o \in GetChoices(bearer, r[2]) :
        /\ flow' = [flow EXCEPT ![r[1]] = [bearer_id |-> r[2],
                                           mq_idx |-> r[3], bearer |-> o]]
        /\ bearer' = BindBearer(BearerGet(bearer, r[2], o), mq, r[3], o)
  BY DEF CreateFlow
<1> DEFINE br == BearerGet(bearer, r[2], o)
           rec == [bearer_id |-> r[2], mq_idx |-> r[3], bearer |-> o]
<1>2. /\ o \in Objs /\ r[1] \in Flows /\ r[2] \in BearerIds /\ r[3] \in Mqs
      /\ bearer \in Bearers /\ br \in Bearers /\ flow \in FlowList
      /\ flow' \in FlowList
  BY GetChoicesType, ActivationParts, BearerGetType
     DEF RefInv, StructInv, TypeOK, Bearers, FlowList
<1>3. rec \in FlowRec /\ rec.bearer = o
  BY <1>2 DEF FlowRec, Pointer
<1>4. flow[r[1]] = NULL
  BY DEF CreateFlow
<1>5. PointOK(flow', br) /\ CountOK(flow', br)
  <2> HIDE DEF rec
  <2>1. flow' = [flow EXCEPT ![r[1]] = rec]
    BY <1>1 DEF rec
  <2> QED
    BY <1>2, <1>3, <1>4, <2>1, GetRef DEF RefInv
<1>6. PointOK(flow', bearer') /\ CountOK(flow', bearer')
  <2>1. bearer' = BindBearer(br, mq, r[3], o)
    BY <1>1
  <2> HIDE DEF br
  <2> QED BY <1>2, <1>5, <2>1, BindRef
<1> QED
  BY <1>6 DEF RefInv

LEMMA RebindFlowRef ==
    ASSUME RefInv, ~nomem', NEW r \in Activations, RebindFlow(r), StructInv'
    PROVE  RefInv'
<1> DEFINE old == flow[r[1]].bearer
           put == PutBearer(bearer, old)
           ms == PutMq(mq, bearer, old)
           mid == [flow EXCEPT ![r[1]] = NULL]
<1>1. PICK o \in GetChoices(put, r[2]) :
        /\ flow' = [flow EXCEPT ![r[1]] = [bearer_id |-> r[2],
                                           mq_idx |-> r[3], bearer |-> o]]
        /\ bearer' = BindBearer(BearerGet(put, r[2], o), ms, r[3], o)
  BY DEF RebindFlow
<1> DEFINE br == BearerGet(put, r[2], o)
           rec == [bearer_id |-> r[2], mq_idx |-> r[3], bearer |-> o]
<1>2. /\ o \in Objs /\ r[1] \in Flows /\ r[2] \in BearerIds /\ r[3] \in Mqs
      /\ flow \in FlowList /\ flow' \in FlowList /\ bearer \in Bearers
      /\ flow[r[1]] # NULL
  BY GetChoicesType, ActivationParts
     DEF RebindFlow, RefInv, StructInv, TypeOK, Bearers, FlowList
<1>3. old \in Pointer
  BY <1>2 DEF FlowList, FlowRec
<1>4. put \in Bearers
  <2> HIDE DEF old
  <2> QED BY <1>2, <1>3, PutType DEF RefInv, StructInv, TypeOK, Bearers
<1>5. PointOK(mid, put) /\ CountOK(mid, put)
  BY <1>2, PutRef DEF RefInv
<1>6. mid \in FlowList /\ mid[r[1]] = NULL
  BY <1>2 DEF FlowList
<1>7. rec \in FlowRec /\ rec.bearer = o
  BY <1>2 DEF FlowRec, Pointer
<1>8. flow' = [mid EXCEPT ![r[1]] = rec]
  BY <1>1, <1>2 DEF FlowList
<1>9. PointOK(flow', br) /\ CountOK(flow', br) /\ br \in Bearers
  <2> HIDE DEF put, mid, rec
  <2> QED
    BY <1>2, <1>4, <1>5, <1>6, <1>7, <1>8, GetRef, BearerGetType DEF Bearers
<1>10. PointOK(flow', bearer') /\ CountOK(flow', bearer')
  <2>1. bearer' = BindBearer(br, ms, r[3], o)
    BY <1>1
  <2> HIDE DEF br, ms
  <2> QED BY <1>2, <1>9, <2>1, BindRef
<1> QED
  BY <1>10 DEF RefInv

LEMMA DelSectionRef ==
    ASSUME RefInv, NEW f \in Flows, DelSection(f), StructInv'
    PROVE  RefInv'
<1>1. flow \in FlowList /\ bearer \in Bearers
  BY DEF RefInv, StructInv, TypeOK, Bearers, FlowList
<1>2. CASE flow[f] = NULL
  BY <1>2 DEF DelSection, RefInv
<1>3. CASE flow[f] # NULL
  <2>1. /\ flow' = [flow EXCEPT ![f] = NULL]
        /\ bearer' = PutBearer(bearer, flow[f].bearer)
    BY <1>3 DEF DelSection
  <2> QED
    BY <1>1, <1>3, <2>1, PutRef DEF RefInv
<1> QED
  BY <1>2, <1>3

\* Memory that ran out in a rebind stays on record: only RebindFlow writes nomem.
LEMMA NomemStays ==
    ASSUME [Next]_vars, ~nomem'
    PROVE  ~nomem
<1>1. ASSUME NEW r \in Activations, CreateFlow(r) PROVE ~nomem
  BY <1>1 DEF CreateFlow
<1>2. ASSUME NEW r \in Activations, CreateFlowFails(r) PROVE ~nomem
  BY <1>2 DEF CreateFlowFails
<1>3. ASSUME NEW r \in Activations, RebindFlow(r) PROVE ~nomem
  BY <1>3 DEF RebindFlow
<1>4. ASSUME NEW r \in Activations, KeepFlow(r) PROVE ~nomem
  BY <1>4 DEF KeepFlow
<1>5. ASSUME NEW f \in Flows, Deactivate(f) PROVE ~nomem
  BY <1>5 DEF Deactivate
<1>6. CASE DelForAgain \/ BearerCleanQuit \/ BearerCleanFree
  BY <1>6 DEF DelForAgain, BearerCleanQuit, BearerCleanFree
<1>7. ASSUME NEW o \in Objs, WatchdogExpire(o) \/ WatchdogFn(o) PROVE ~nomem
  BY <1>7 DEF WatchdogExpire, WatchdogFn
<1>8. CASE Modem
  BY <1>8 DEF Modem, FlowStatus, AllBearerFlowCtl, TxLinkStatus, VndFlowControl
<1>9. ASSUME NEW f \in Flows, BurstCheck(f) PROVE ~nomem
  BY <1>9 DEF BurstCheck
<1>10. CASE EnableAllFlows \/ UNCHANGED vars
  BY <1>10 DEF EnableAllFlows, vars
<1> QED
  BY <1>1, <1>2, <1>3, <1>4, <1>5, <1>6, <1>7, <1>8, <1>9, <1>10
     DEF Next, Netlink, Watchdog

LEMMA NextRef == ~nomem' /\ RefInv /\ [Next]_vars => RefInv'
<1> SUFFICES ASSUME ~nomem', RefInv, [Next]_vars PROVE RefInv'
  OBVIOUS
<1>0. StructInv /\ StructInv' /\ TypeOK /\ flow \in FlowList
  BY NextStruct DEF RefInv, StructInv, TypeOK, FlowList
<1>1. ASSUME NEW r \in Activations, CreateFlow(r) PROVE RefInv'
  BY <1>0, <1>1, CreateFlowRef
<1>2. ASSUME NEW r \in Activations, CreateFlowFails(r) PROVE RefInv'
  <2>1. CASE UNCHANGED flow
    BY <1>0, <1>2, <2>1 DEF CreateFlowFails, RefInv
  <2>2. CASE flow' = [flow EXCEPT ![r[1]] = [bearer_id |-> r[2],
                                    mq_idx |-> r[3], bearer |-> NULL]]
    <3> DEFINE rec == [bearer_id |-> r[2], mq_idx |-> r[3], bearer |-> NULL]
    <3>1. /\ r[1] \in Flows /\ flow[r[1]] = NULL
          /\ rec \in FlowRec /\ rec.bearer = NULL
      BY <1>2, ActivationParts DEF CreateFlowFails, FlowRec, Pointer
    <3>2. flow' = [flow EXCEPT ![r[1]] = rec] /\ bearer' = bearer
      BY <1>2, <2>2 DEF CreateFlowFails
    <3> HIDE DEF rec
    <3>3. \A p \in Objs : Cardinality(Users(flow', p)) = Cardinality(Users(flow, p))
      <4>1. \A p \in Objs : NULL # p
        BY ConstAssumption
      <4> QED
        BY <1>0, <3>1, <3>2, <4>1, AddUser, ZenonT(40)
    <3>4. CountOK(flow', bearer')
      BY <3>2, <3>3 DEF RefInv, CountOK
    <3>5. PointOK(flow', bearer')
      BY <1>0, <3>1, <3>2 DEF RefInv, PointOK, FlowList
    <3> QED
      BY <1>0, <3>4, <3>5 DEF RefInv
  <2> QED
    BY <1>2, <2>1, <2>2 DEF CreateFlowFails
<1>3. ASSUME NEW r \in Activations, RebindFlow(r) PROVE RefInv'
  BY <1>0, <1>3, RebindFlowRef
<1>4. ASSUME NEW r \in Activations, KeepFlow(r) PROVE RefInv'
  BY <1>0, <1>4 DEF KeepFlow, RefInv
<1>5. ASSUME NEW f \in Flows, Deactivate(f) PROVE RefInv'
  BY <1>0, <1>5, DelSectionRef DEF Deactivate
<1>6. CASE DelForAgain
  <2>1. rt.req \in Activations
    BY <1>0, <1>6 DEF DelForAgain, TypeOK, RtRec
  <2> QED
    BY <1>0, <1>6, <2>1, ActivationParts, DelSectionRef DEF DelForAgain
<1>7. CASE BearerCleanQuit
  <2>1. removed \in Objs
    BY <1>0, <1>7 DEF BearerCleanQuit, StructInv, RtOK, TypeOK, Pointer
  <2> QED
    BY <1>0, <1>7, <2>1, CleanQuitShape, QuietRef DEF BearerCleanQuit
<1>8. CASE BearerCleanFree
  <2>1. /\ removed \in Objs /\ flow' = flow
        /\ bearer' = [bearer EXCEPT ![removed] = Zeroed]
    BY <1>0, <1>8 DEF BearerCleanFree, StructInv, RtOK, TypeOK, Pointer
  <2>2. /\ \A p \in Objs : p # removed => bearer'[p] = bearer[p]
        /\ bearer'[removed].st = "free"
        /\ bearer[removed].st = "removed"
    BY <1>0, <2>1 DEF TypeOK, StructInv, RemovedOK, Zeroed
  <2>3. \A g \in Flows : flow[g] # NULL => flow[g].bearer \in Objs \cup {NULL}
    BY <1>0 DEF FlowList, FlowRec, Pointer
  <2>4. PointOK(flow', bearer') /\ CountOK(flow', bearer')
    BY <2>1, <2>2, <2>3 DEF RefInv, PointOK, CountOK
  <2> QED
    BY <1>0, <2>4 DEF RefInv
<1>9. ASSUME NEW o \in Objs, WatchdogExpire(o) PROVE RefInv'
  BY <1>0, <1>9, WatchdogExpireShape, QuietRef DEF WatchdogExpire
<1>10. ASSUME NEW o \in Objs, WatchdogFn(o) PROVE RefInv'
  BY <1>0, <1>10, WatchdogFnShape, QuietRef DEF WatchdogFn
<1>11. ASSUME NEW id \in BearerIds, NEW num \in BOOLEAN, NEW rat \in BOOLEAN,
              NEW bidir \in Bidirs, FlowStatus(id, num, rat, bidir)
       PROVE  RefInv'
  <2>1. UNCHANGED flow
    BY <1>11 DEF FlowStatus
  <2>2. CASE SameShape(bearer, bearer')
    BY <1>0, <2>1, <2>2, QuietRef
  <2>3. ASSUME NEW o \in Objs, bearer[o].st = "free",
               SameShape(NoRef(bearer, id, o), bearer')
        PROVE  RefInv'
    <3> DEFINE new == NoRef(bearer, id, o)
    <3>1. bearer \in Bearers
      BY <1>0 DEF TypeOK, Bearers
    <3>2. PointOK(flow, new) /\ CountOK(flow, new)
      BY <1>0, <2>3, <3>1, NoRefRef DEF RefInv
    <3> HIDE DEF new
    <3>3. PointOK(flow', bearer') /\ CountOK(flow', bearer')
      BY <1>0, <2>1, <2>3, <3>2, SameShapeRef DEF new
    <3> QED
      BY <1>0, <3>3 DEF RefInv
  <2> QED
    BY <1>0, <1>11, <2>2, <2>3, FlowStatusShape
<1>12. ASSUME NEW num \in AllBearerGrants, NEW bidir \in Bidirs,
              AllBearerFlowCtl(num, bidir)
       PROVE  RefInv'
  BY <1>0, <1>12, AllBearerShape, QuietRef DEF AllBearerFlowCtl
<1>13. ASSUME NEW id \in BearerIds, NEW on \in TxStatuses, TxLinkStatus(id, on)
       PROVE  RefInv'
  BY <1>0, <1>13, TxLinkShape, QuietRef DEF TxLinkStatus
<1>14. ASSUME NEW f \in Flows, BurstCheck(f) PROVE RefInv'
  BY <1>0, <1>14, BurstShape, QuietRef DEF BurstCheck
<1>15. CASE EnableAllFlows
  BY <1>0, <1>15, EnableAllShape, QuietRef DEF EnableAllFlows
<1>16. ASSUME NEW enable \in VndCommands, VndFlowControl(enable) PROVE RefInv'
  BY <1>0, <1>16 DEF VndFlowControl, RefInv
<1>17. CASE UNCHANGED vars
  BY <1>0, <1>17 DEF vars, RefInv
<1> QED
  BY <1>1, <1>2, <1>3, <1>4, <1>5, <1>6, <1>7, <1>8, <1>9, <1>10, <1>11,
     <1>12, <1>13, <1>14, <1>15, <1>16, <1>17
     DEF Next, Netlink, Watchdog, Modem

LEMMA InitRef == Init => RefInv
<1> SUFFICES ASSUME Init PROVE RefInv
  OBVIOUS
<1>1. PointOK(flow, bearer)
  BY DEF Init, PointOK
<1>2. CountOK(flow, bearer)
  BY DEF Init, CountOK, Zeroed
<1> QED
  BY <1>1, <1>2, InitStruct DEF RefInv

LEMMA RefImplies == RefInv => RefCount
<1> SUFFICES ASSUME RefInv PROVE RefCount
  OBVIOUS
<1>1. \A g \in Flows : flow[g] # NULL => flow[g].bearer \in Objs \cup {NULL}
  BY DEF RefInv, StructInv, TypeOK, FlowRec, Pointer
<1>2. \A o : Users(flow, o) = FlowsOf(o)
  BY DEF Users, FlowsOf
<1> QED
  BY <1>1, <1>2 DEF RefInv, RefCount, PointOK, CountOK, Listed

RefHist == ~nomem => RefInv

\* A flow points only at a bearer on the list, and a listed bearer's flow_ref is
\* the number of flows that point at it: bearer_put frees a bearer exactly when
\* its last flow is gone, for any number of flows and bearers, until a rebind
\* runs out of memory.
THEOREM RefCountSafe == Spec => []RefCount
<1>1. RefHist /\ [Next]_vars => RefHist'
  BY NomemStays, NextRef DEF RefHist
<1>2. Init => RefHist
  BY InitRef DEF RefHist
<1>3. RefHist => RefCount
  BY RefImplies DEF RefHist, RefCount
<1> QED
  BY <1>1, <1>2, <1>3, PTL DEF Spec

-----------------------------------------------------------------------------
(* AwakeIfGranted: a listed bearer that has a grant finds the queues it     *)
(* controls awake, whatever the other bearers, the watchdogs, power save    *)
(* and user space do in between.                                            *)

QueueStates == [Queues -> BOOLEAN]

\* The queues a bearer controls
QueuesOf(b) == {b.mq_idx, b.ack_mq_idx} \cap Queues

AwakeOK(br, qs) ==
    \A o \in Objs : br[o].st = "listed" /\ br[o].granted =>
        \A q \in QueuesOf(br[o]) : qs[q]

-----------------------------------------------------------------------------
(* Queues.                                                                  *)

LEMMA FlowControlFields ==
    ASSUME NEW qs \in QueueStates, NEW i, NEW e \in BOOLEAN, NEW q \in Queues
    PROVE  FlowControl(qs, i, e)[q] = IF q = i THEN e ELSE qs[q]
BY DEF FlowControl, QueueStates

LEMMA BearerFlowCtlFields ==
    ASSUME NEW qs \in QueueStates, NEW b \in BearerRec, NEW q \in Queues
    PROVE  /\ q \notin QueuesOf(b) => BearerFlowCtl(qs, b)[q] = qs[q]
           /\ b.granted /\ q \in QueuesOf(b) => BearerFlowCtl(qs, b)[q]
<1> DEFINE data == FlowControl(qs, b.mq_idx, b.granted)
<1>1. b.granted \in BOOLEAN
  BY DEF BearerRec
<1>2. data \in QueueStates
  BY <1>1, FlowControlType DEF QueueStates
<1>3. data[q] = IF q = b.mq_idx THEN b.granted ELSE qs[q]
  BY <1>1, FlowControlFields
<1> HIDE DEF data
<1>4. FlowControl(data, b.ack_mq_idx, b.granted)[q] =
         IF q = b.ack_mq_idx THEN b.granted ELSE data[q]
  BY <1>1, <1>2, FlowControlFields
<1>5. BearerFlowCtl(qs, b) = IF b.ack_mq_idx # InvalidMq /\ (b.granted \/ ~b.tcp_bidir)
                             THEN FlowControl(data, b.ack_mq_idx, b.granted)
                             ELSE data
  BY DEF BearerFlowCtl, data
<1>6. q # InvalidMq
  BY MqRange
<1>7. CASE b.ack_mq_idx # InvalidMq /\ (b.granted \/ ~b.tcp_bidir)
  BY <1>3, <1>4, <1>5, <1>7 DEF QueuesOf
<1>8. CASE ~(b.ack_mq_idx # InvalidMq /\ (b.granted \/ ~b.tcp_bidir))
  BY <1>3, <1>5, <1>6, <1>8 DEF QueuesOf
<1> QED
  BY <1>7, <1>8

\* The queues of two bearers on the list are different queues, and none of
\* them is the default queue.
LEMMA DistinctQueues ==
    ASSUME NEW br \in Bearers, NEW ms \in [Mqs -> Pointer], OwnOK(br, ms),
           NEW o \in Objs, br[o].st = "listed", NEW q \in QueuesOf(br[o])
    PROVE  /\ q # DefaultMq
           /\ \A p \in Objs : p # o /\ br[p].st = "listed" =>
                 q \notin QueuesOf(br[p])
<1>1. q \in Queues /\ q # InvalidMq /\ q \in {br[o].mq_idx, br[o].ack_mq_idx}
  BY MqRange DEF QueuesOf
<1>2. \A p \in Objs : br[p].st = "listed" /\ br[p].mq_idx # InvalidMq =>
          /\ br[p].mq_idx \in 1 .. (MaxMq - 1)
          /\ br[p].ack_mq_idx = br[p].mq_idx + (MaxMq - 1)
          /\ ms[br[p].mq_idx] = p
  <2> SUFFICES ASSUME NEW p \in Objs, br[p].st = "listed",
                      br[p].mq_idx # InvalidMq
               PROVE  /\ br[p].mq_idx \in 1 .. (MaxMq - 1)
                      /\ br[p].ack_mq_idx = br[p].mq_idx + (MaxMq - 1)
                      /\ ms[br[p].mq_idx] = p
    OBVIOUS
  <2>1. /\ br[p].mq_idx \in Mqs /\ ms[br[p].mq_idx] = p
        /\ br[p].ack_mq_idx = br[p].mq_idx + AckMqOffset
    BY DEF OwnOK
  <2>2. br[p].mq_idx # DefaultMq
    BY <2>1, ConstAssumption DEF OwnOK
  <2> QED
    BY <2>1, <2>2, ConstAssumption DEF Mqs, DefaultMq, AckMqOffset
<1>3. br[o].mq_idx # InvalidMq
  BY <1>1 DEF OwnOK
<1>4. MaxMq \in Nat
  BY ConstAssumption
<1>5. q # DefaultMq
  BY <1>1, <1>2, <1>3, <1>4 DEF DefaultMq
<1>6. ASSUME NEW p \in Objs, p # o, br[p].st = "listed", q \in QueuesOf(br[p])
      PROVE  FALSE
  <2>1. q \in {br[p].mq_idx, br[p].ack_mq_idx}
    BY <1>6 DEF QueuesOf
  <2>2. br[p].mq_idx # InvalidMq
    BY <1>1, <2>1 DEF OwnOK
  <2>3. br[p].mq_idx # br[o].mq_idx
    BY <1>2, <1>3, <1>6, <2>2
  <2> QED
    BY <1>1, <1>2, <1>3, <1>4, <1>6, <2>1, <2>2, <2>3
<1> QED
  BY <1>5, <1>6

-----------------------------------------------------------------------------
(* What keeps the queues of the granted bearers awake.                      *)

\* Nothing new is granted and no queue is stopped.
LEMMA NotFewerAwake ==
    ASSUME NEW br, NEW nb, NEW qs, NEW nq, AwakeOK(br, qs),
           \A q \in Queues : qs[q] => nq[q],
           \A o \in Objs : nb[o].st = "listed" /\ nb[o].granted =>
              /\ br[o].st = "listed" /\ br[o].granted
              /\ nb[o].mq_idx = br[o].mq_idx
              /\ nb[o].ack_mq_idx = br[o].ack_mq_idx
    PROVE  AwakeOK(nb, nq)
<1> SUFFICES ASSUME NEW o \in Objs, nb[o].st = "listed", nb[o].granted,
                    NEW q \in QueuesOf(nb[o])
             PROVE  nq[q]
  BY DEF AwakeOK
<1>1. q \in QueuesOf(br[o]) /\ q \in Queues
  BY DEF QueuesOf
<1> QED
  BY <1>1 DEF AwakeOK

\* dfc_bearer_flow_ctl after the grant of one listed bearer changed.
LEMMA UpdateAwake ==
    ASSUME NEW br \in Bearers, NEW ms \in [Mqs -> Pointer], NEW qs \in QueueStates,
           NEW o \in Objs, NEW c \in BearerRec, OwnOK(br, ms), AwakeOK(br, qs),
           br[o].st = "listed",
           c.mq_idx = br[o].mq_idx, c.ack_mq_idx = br[o].ack_mq_idx
    PROVE  AwakeOK([br EXCEPT ![o] = c], BearerFlowCtl(qs, c))
<1> DEFINE nb == [br EXCEPT ![o] = c]
           nq == BearerFlowCtl(qs, c)
<1>1. nb[o] = c /\ \A p \in Objs : p # o => nb[p] = br[p]
  BY DEF Bearers
<1>2. QueuesOf(c) = QueuesOf(br[o])
  BY DEF QueuesOf
<1> HIDE DEF nb
<1>3. ASSUME NEW p \in Objs, nb[p].st = "listed", nb[p].granted,
             NEW q \in QueuesOf(nb[p])
      PROVE  nq[q]
  <2>1. q \in Queues
    BY DEF QueuesOf
  <2>2. CASE p = o
    BY <1>1, <1>3, <2>1, <2>2, BearerFlowCtlFields
  <2>3. CASE p # o
    <3>1. q \in QueuesOf(br[p]) /\ br[p].st = "listed" /\ br[p].granted
      BY <1>1, <1>3, <2>3
    <3>2. q \notin QueuesOf(c)
      BY <1>2, <2>3, <3>1, DistinctQueues
    <3> QED
      BY <2>1, <3>1, <3>2, BearerFlowCtlFields DEF AwakeOK
  <2> QED
    BY <2>2, <2>3
<1>4. AwakeOK(nb, nq)
  BY <1>3 DEF AwakeOK
<1> QED
  BY <1>4 DEF nb

LEMMA GetAwake ==
    ASSUME NEW br \in Bearers, NEW qs, NEW id \in BearerIds, NEW o \in Objs,
           AwakeOK(br, qs)
    PROVE  AwakeOK(BearerGet(br, id, o), qs)
<1> DEFINE nb == BearerGet(br, id, o)
<1>1. /\ \A p \in Objs : p # o => nb[p] = br[p]
      /\ br[o].st = "listed" => /\ nb[o].granted = br[o].granted
                                /\ nb[o].mq_idx = br[o].mq_idx
                                /\ nb[o].ack_mq_idx = br[o].ack_mq_idx
      /\ br[o].st # "listed" => /\ nb[o].mq_idx = InvalidMq
                                /\ nb[o].ack_mq_idx = InvalidMq
  BY GetFields
<1>2. InvalidMq \notin Queues
  BY MqRange
<1> HIDE DEF nb
<1>3. AwakeOK(nb, qs)
  BY <1>1, <1>2 DEF AwakeOK, QueuesOf
<1> QED
  BY <1>3 DEF nb

LEMMA NoRefAwake ==
    ASSUME NEW br \in Bearers, NEW qs, NEW id \in BearerIds, NEW o \in Objs,
           br[o].st = "free", AwakeOK(br, qs)
    PROVE  AwakeOK(NoRef(br, id, o), qs)
<1> DEFINE nb == NoRef(br, id, o)
<1>1. /\ \A p \in Objs : p # o => nb[p] = br[p]
      /\ nb[o].mq_idx = InvalidMq /\ nb[o].ack_mq_idx = InvalidMq
  BY NoRefFields
<1>2. InvalidMq \notin Queues
  BY MqRange
<1> HIDE DEF nb
<1>3. AwakeOK(nb, qs)
  BY <1>1, <1>2 DEF AwakeOK, QueuesOf
<1> QED
  BY <1>3 DEF nb

LEMMA PutAwake ==
    ASSUME NEW br \in Bearers, NEW qs, NEW o \in Pointer, AwakeOK(br, qs)
    PROVE  AwakeOK(PutBearer(br, o), qs)
<1>1. CASE o = NULL
  BY <1>1 DEF PutBearer
<1>2. CASE o \in Objs
  <2> DEFINE nb == PutBearer(br, o)
  <2>1. \A p \in Objs : /\ nb[p].st = "listed" => br[p].st = "listed"
                        /\ nb[p].granted = br[p].granted
                        /\ nb[p].mq_idx = br[p].mq_idx
                        /\ nb[p].ack_mq_idx = br[p].ack_mq_idx
    BY <1>2, PutFields
  <2> HIDE DEF nb
  <2>2. AwakeOK(nb, qs)
    BY <2>1, NotFewerAwake
  <2> QED
    BY <2>2 DEF nb
<1> QED
  BY <1>1, <1>2 DEF Pointer

LEMMA BindAwake ==
    ASSUME NEW br \in Bearers, NEW ms \in [Mqs -> Pointer], NEW qs \in QueueStates,
           NEW i \in Mqs, NEW o \in Objs, br[o].st = "listed",
           OwnOK(br, ms), AwakeOK(br, qs)
    PROVE  AwakeOK(BindBearer(br, ms, i, o), BindQueue(qs, br, ms, i, o))
<1>1. CASE ~Binds(ms, i)
  BY <1>1 DEF BindBearer, BindQueue
<1>2. CASE Binds(ms, i)
  <2> DEFINE nb == BindBearer(br, ms, i, o)
             nm == BindMq(ms, i, o)
             q1 == FlowControl(qs, i, br[o].granted)
             nq == BindQueue(qs, br, ms, i, o)
  <2>1. /\ \A p \in Objs : p # o => nb[p] = br[p]
        /\ nb[o].st = "listed" /\ nb[o].granted = br[o].granted
        /\ nb[o].mq_idx = i /\ nb[o].ack_mq_idx = i + AckMqOffset
    BY <1>2, BindFields
  <2>2. OwnOK(nb, nm)
    BY BindOwn
  <2>3. nb \in Bearers /\ nm \in [Mqs -> Pointer]
    BY BindType DEF Bearers, QueueStates
  <2>4. br[o].granted \in BOOLEAN
    BY DEF Bearers, BearerRec
  <2>5. q1 \in QueueStates
    BY <2>4, FlowControlType DEF QueueStates
  <2>6. nq = FlowControl(q1, i + AckMqOffset, br[o].granted)
    BY <1>2 DEF BindQueue
  <2>7. \A q \in Queues : q1[q] = IF q = i THEN br[o].granted ELSE qs[q]
    BY <2>4, FlowControlFields
  <2> HIDE DEF q1
  <2>8. \A q \in Queues : nq[q] = IF q \in {i, i + AckMqOffset}
                                  THEN br[o].granted ELSE qs[q]
    BY <2>4, <2>5, <2>6, <2>7, FlowControlFields
  <2>9. i \in Queues /\ i + AckMqOffset \in Queues
    BY MqRange
  <2>10. QueuesOf(nb[o]) = {i, i + AckMqOffset}
    BY <2>1, <2>9 DEF QueuesOf
  <2> HIDE DEF nb, nm, nq
  <2>11. ASSUME NEW p \in Objs, nb[p].st = "listed", nb[p].granted,
                NEW q \in QueuesOf(nb[p])
         PROVE  nq[q]
    <3>1. q \in Queues
      BY DEF QueuesOf
    <3>2. CASE p = o
      BY <2>1, <2>8, <2>10, <2>11, <3>1, <3>2
    <3>3. CASE p # o
      <4>1. q \notin QueuesOf(nb[o])
        BY <2>1, <2>2, <2>3, <2>11, <3>3, DistinctQueues
      <4>2. nq[q] = qs[q]
        BY <2>8, <2>10, <3>1, <4>1
      <4>3. br[p].st = "listed" /\ br[p].granted /\ q \in QueuesOf(br[p])
        BY <2>1, <2>11, <3>3
      <4> QED
        BY <4>2, <4>3 DEF AwakeOK
    <3> QED
      BY <3>2, <3>3
  <2>12. AwakeOK(nb, nq)
    BY <2>11 DEF AwakeOK
  <2> QED
    BY <2>12 DEF nb, nq
<1> QED
  BY <1>1, <1>2

-----------------------------------------------------------------------------
(* The actions.                                                             *)

AwakeInv == RefInv /\ AwakeOK(bearer, queue)

LEMMA AwakeTypes ==
    ASSUME RefInv
    PROVE  /\ TypeOK /\ StructInv /\ OwnOK(bearer, mq)
           /\ bearer \in Bearers /\ mq \in [Mqs -> Pointer]
           /\ queue \in QueueStates /\ flow \in FlowList
BY DEF RefInv, StructInv, TypeOK, Bearers, QueueStates, FlowList

LEMMA CreateFlowAwake ==
    ASSUME AwakeInv, NEW r \in Activations, CreateFlow(r)
    PROVE  AwakeOK(bearer', queue')
<1>1. PICK o \in GetChoices(bearer, r[2]) :
        /\ bearer' = BindBearer(BearerGet(bearer, r[2], o), mq, r[3], o)
        /\ queue' = BindQueue(queue, BearerGet(bearer, r[2], o), mq, r[3], o)
  BY DEF CreateFlow
<1> DEFINE br == BearerGet(bearer, r[2], o)
<1>2. /\ TypeOK /\ OwnOK(bearer, mq)
      /\ bearer \in Bearers /\ mq \in [Mqs -> Pointer] /\ queue \in QueueStates
  BY AwakeTypes DEF AwakeInv
<1>3. o \in Objs /\ r[2] \in BearerIds /\ r[3] \in Mqs
  BY GetChoicesType, ActivationParts
<1>4. br \in Bearers
  BY <1>2, <1>3, BearerGetType DEF Bearers
<1>5. OwnOK(br, mq) /\ br[o].st = "listed"
  BY <1>2, <1>3, GetOwn
<1>6. AwakeOK(br, queue)
  BY <1>2, <1>3, GetAwake DEF AwakeInv
<1>7. bearer' = BindBearer(br, mq, r[3], o) /\ queue' = BindQueue(queue, br, mq, r[3], o)
  BY <1>1
<1> HIDE DEF br
<1> QED
  BY <1>2, <1>3, <1>4, <1>5, <1>6, <1>7, BindAwake

LEMMA RebindFlowAwake ==
    ASSUME AwakeInv, ~nomem', NEW r \in Activations, RebindFlow(r)
    PROVE  AwakeOK(bearer', queue')
<1> DEFINE old == flow[r[1]].bearer
           put == PutBearer(bearer, old)
           ms == PutMq(mq, bearer, old)
<1>1. PICK o \in GetChoices(put, r[2]) :
        /\ bearer' = BindBearer(BearerGet(put, r[2], o), ms, r[3], o)
        /\ queue' = BindQueue(queue, BearerGet(put, r[2], o), ms, r[3], o)
  BY DEF RebindFlow
<1> DEFINE br == BearerGet(put, r[2], o)
<1>2. /\ TypeOK /\ OwnOK(bearer, mq) /\ LifeOK(bearer)
      /\ bearer \in Bearers /\ mq \in [Mqs -> Pointer] /\ queue \in QueueStates
  BY AwakeTypes DEF AwakeInv, RefInv, StructInv
<1>3. /\ o \in Objs /\ r[2] \in BearerIds /\ r[3] \in Mqs /\ old \in Pointer
  BY <1>2, GetChoicesType, ActivationParts DEF RebindFlow, TypeOK, FlowRec
<1>4. put \in Bearers /\ ms \in [Mqs -> Pointer]
  <2> HIDE DEF old
  <2> QED BY <1>2, <1>3, PutType DEF TypeOK, Bearers, QueueStates
<1>5. OwnOK(put, ms) /\ AwakeOK(put, queue)
  <2> HIDE DEF old
  <2> QED BY <1>2, <1>3, PutOwn, PutAwake DEF AwakeInv
<1>6. /\ br \in Bearers /\ OwnOK(br, ms) /\ br[o].st = "listed"
      /\ AwakeOK(br, queue)
  <2> HIDE DEF put, ms
  <2> QED BY <1>3, <1>4, <1>5, BearerGetType, GetOwn, GetAwake DEF Bearers
<1>7. bearer' = BindBearer(br, ms, r[3], o) /\ queue' = BindQueue(queue, br, ms, r[3], o)
  BY <1>1
<1> HIDE DEF br, ms
<1> QED
  BY <1>2, <1>3, <1>4, <1>6, <1>7, BindAwake

LEMMA DelSectionAwake ==
    ASSUME AwakeInv, NEW f \in Flows, DelSection(f)
    PROVE  AwakeOK(bearer', queue')
<1>1. TypeOK /\ bearer \in Bearers /\ queue \in QueueStates
  BY AwakeTypes DEF AwakeInv
<1>2. AwakeOK(bearer', queue)
  <2>1. CASE flow[f] = NULL
    BY <2>1 DEF DelSection, AwakeInv
  <2>2. CASE flow[f] # NULL
    <3>1. flow[f].bearer \in Pointer
      BY <1>1, <2>2 DEF TypeOK, FlowRec
    <3>2. bearer' = PutBearer(bearer, flow[f].bearer)
      BY <2>2 DEF DelSection
    <3> QED
      BY <1>1, <3>1, <3>2, PutAwake DEF AwakeInv
  <2> QED
    BY <2>1, <2>2
<1>3. \A q \in Queues : queue[q] => queue'[q]
  BY DEF DelSection, PutQueue
<1> QED
  BY <1>2, <1>3, NotFewerAwake

LEMMA WatchdogFnAwake ==
    ASSUME AwakeInv, NEW o \in Objs, WatchdogFn(o)
    PROVE  AwakeOK(bearer', queue')
<1> DEFINE done == [bearer[o] EXCEPT !.wd_started = FALSE, !.wd_running = FALSE]
           start == [done EXCEPT !.granted = TRUE]
<1>1. /\ TypeOK /\ OwnOK(bearer, mq) /\ bearer \in Bearers
      /\ mq \in [Mqs -> Pointer] /\ queue \in QueueStates
      /\ bearer[o] \in BearerRec /\ AwakeOK(bearer, queue)
  BY AwakeTypes DEF AwakeInv, Bearers
<1>2. /\ done \in BearerRec /\ done.st = bearer[o].st
      /\ done.granted = bearer[o].granted
      /\ done.mq_idx = bearer[o].mq_idx
      /\ done.ack_mq_idx = bearer[o].ack_mq_idx
  BY <1>1 DEF BearerRec
<1>3. /\ start \in BearerRec /\ start.st = bearer[o].st /\ start.granted
      /\ start.mq_idx = bearer[o].mq_idx
      /\ start.ack_mq_idx = bearer[o].ack_mq_idx
  <2> HIDE DEF done
  <2> QED BY <1>2 DEF BearerRec
<1>4. CASE bearer' = [bearer EXCEPT ![o] = done] /\ UNCHANGED queue
  <2> HIDE DEF done
  <2>1. \A p \in Objs : /\ bearer'[p].st = bearer[p].st
                        /\ bearer'[p].granted = bearer[p].granted
                        /\ bearer'[p].mq_idx = bearer[p].mq_idx
                        /\ bearer'[p].ack_mq_idx = bearer[p].ack_mq_idx
    BY <1>1, <1>2, <1>4 DEF Bearers
  <2> QED
    BY <1>1, <1>4, <2>1 DEF AwakeOK, QueuesOf
<1>5. CASE /\ bearer' = [bearer EXCEPT ![o] = start]
           /\ queue' = BearerFlowCtl(queue, start)
  <2> HIDE DEF start
  <2>1. CASE bearer[o].st = "listed"
    BY <1>1, <1>3, <1>5, <2>1, UpdateAwake
  <2>2. CASE bearer[o].st # "listed"
    <3>1. \A p \in Objs : bearer'[p].st = "listed" => bearer'[p] = bearer[p]
      BY <1>1, <1>3, <1>5, <2>2 DEF Bearers
    <3>2. \A q \in Queues : queue[q] => queue'[q]
      BY <1>1, <1>3, <1>5, BearerFlowCtlFields
    <3> QED
      BY <1>1, <3>1, <3>2, NotFewerAwake
  <2> QED
    BY <2>1, <2>2
<1> QED
  BY <1>4, <1>5 DEF WatchdogFn

LEMMA FlowStatusAwake ==
    ASSUME AwakeInv, NEW id \in BearerIds, NEW num \in BOOLEAN,
           NEW rat \in BOOLEAN, NEW bidir \in Bidirs,
           FlowStatus(id, num, rat, bidir)
    PROVE  AwakeOK(bearer', queue')
<1>1. PICK o \in GetChoices(bearer, id), adj \in Adjusted(num) :
        LET br == IF bearer[o].st = "listed" THEN bearer
                  ELSE NoRef(bearer, id, o)
            c == UpdateFcMap(br[o], num, rat, bidir, adj)
        IN  /\ bearer' = [br EXCEPT ![o] = c]
            /\ queue' = IF c.granted = br[o].granted THEN queue
                        ELSE BearerFlowCtl(queue, c)
  BY DEF FlowStatus, NoRef
<1> DEFINE br == IF bearer[o].st = "listed" THEN bearer
                 ELSE NoRef(bearer, id, o)
           c == UpdateFcMap(br[o], num, rat, bidir, adj)
<1>2. /\ TypeOK /\ StructInv /\ OwnOK(bearer, mq) /\ bearer \in Bearers
      /\ mq \in [Mqs -> Pointer] /\ queue \in QueueStates
      /\ AwakeOK(bearer, queue) /\ bidir \in BOOLEAN
  BY AwakeTypes, ConstAssumption DEF AwakeInv
<1>3. o \in Objs /\ bearer[o].st \in {"free", "listed"}
  BY DEF GetChoices, Lookup
<1>4. /\ br \in Bearers /\ br[o].st = "listed"
      /\ OwnOK(br, mq) /\ AwakeOK(br, queue)
  <2>1. CASE bearer[o].st = "listed"
    BY <1>2, <2>1
  <2>2. CASE bearer[o].st = "free"
    BY <1>2, <1>3, <2>2, NoRefFields, NoRefKeeps, NoRefAwake DEF StructInv
  <2> QED
    BY <1>3, <2>1, <2>2
<1>5. /\ bearer' = [br EXCEPT ![o] = c]
      /\ queue' = IF c.granted = br[o].granted THEN queue
                  ELSE BearerFlowCtl(queue, c)
  BY <1>1
<1> HIDE DEF br
<1>6. /\ c \in BearerRec
      /\ c.mq_idx = br[o].mq_idx /\ c.ack_mq_idx = br[o].ack_mq_idx
  <2>1. br[o] \in BearerRec
    BY <1>3, <1>4 DEF Bearers
  <2> QED
    BY <1>2, <2>1, UpdateFcMapType, UpdateFcMapFields
<1> HIDE DEF c
<1>7. CASE c.granted = br[o].granted
  <2>1. \A p \in Objs : /\ bearer'[p].granted = br[p].granted
                        /\ bearer'[p].mq_idx = br[p].mq_idx
                        /\ bearer'[p].ack_mq_idx = br[p].ack_mq_idx
                        /\ bearer'[p].st = "listed" => br[p].st = "listed"
    BY <1>3, <1>4, <1>5, <1>6, <1>7 DEF Bearers
  <2> QED
    BY <1>4, <1>5, <1>7, <2>1 DEF AwakeOK, QueuesOf
<1>8. CASE c.granted # br[o].granted
  BY <1>2, <1>3, <1>4, <1>5, <1>6, <1>8, UpdateAwake
<1> QED
  BY <1>7, <1>8

LEMMA AllBearerAwake ==
    ASSUME AwakeInv, NEW num \in AllBearerGrants, NEW bidir \in Bidirs,
           AllBearerFlowCtl(num, bidir)
    PROVE  AwakeOK(bearer', queue')
<1>1. TypeOK /\ bearer \in Bearers /\ num \in BOOLEAN
  BY AwakeTypes, ConstAssumption DEF AwakeInv
<1>2. SameShape(bearer, bearer')
  BY <1>1, AllBearerShape
<1>3. ASSUME NEW o \in Objs, bearer'[o].st = "listed", bearer'[o].granted,
             NEW q \in QueuesOf(bearer'[o])
      PROVE  queue'[q]
  <2>1. /\ o \in Listed /\ q \in Queues
        /\ q \in {bearer[o].mq_idx, bearer[o].ack_mq_idx}
    BY <1>2, <1>3 DEF SameShape, Listed, QueuesOf
  <2>2. bearer[o] \in BearerRec
    BY <1>1 DEF TypeOK
  <2>3. bearer'[o] = [bearer[o] EXCEPT !.granted = num, !.tcp_bidir = bidir]
    BY <2>1 DEF AllBearerFlowCtl
  <2>4. num
    BY <1>3, <2>2, <2>3 DEF BearerRec
  <2> QED
    BY <2>1, <2>4 DEF AllBearerFlowCtl
<1> QED
  BY <1>3 DEF AwakeOK

LEMMA TxLinkAwake ==
    ASSUME AwakeInv, NEW id \in BearerIds, NEW on \in TxStatuses,
           TxLinkStatus(id, on)
    PROVE  AwakeOK(bearer', queue')
<1>1. PICK o \in Lookup(bearer, id) :
        LET off == [bearer[o] EXCEPT !.tx_off = ~on]
            halt == [off EXCEPT !.granted = FALSE, !.tcp_bidir = FALSE]
            stop == WatchdogRemove(halt)
            start == [off EXCEPT !.granted = TRUE]
        IN  \/ \E c \in {stop, start} : /\ bearer' = [bearer EXCEPT ![o] = c]
                                        /\ queue' = BearerFlowCtl(queue, c)
            \/ bearer' = [bearer EXCEPT ![o] = off] /\ queue' = queue
  BY DEF TxLinkStatus
<1> DEFINE off == [bearer[o] EXCEPT !.tx_off = ~on]
           halt == [off EXCEPT !.granted = FALSE, !.tcp_bidir = FALSE]
           start == [off EXCEPT !.granted = TRUE]
           Same(c) == /\ c \in BearerRec
                      /\ c.mq_idx = bearer[o].mq_idx
                      /\ c.ack_mq_idx = bearer[o].ack_mq_idx
<1>2. /\ o \in Objs /\ bearer[o].st = "listed"
  BY DEF Lookup
<1>3. /\ OwnOK(bearer, mq) /\ bearer \in Bearers
      /\ mq \in [Mqs -> Pointer] /\ queue \in QueueStates
      /\ bearer[o] \in BearerRec /\ AwakeOK(bearer, queue)
  BY <1>2, AwakeTypes DEF AwakeInv, Bearers
<1>4. Same(off) /\ off.granted = bearer[o].granted
  BY <1>3 DEF BearerRec
<1>5. Same(halt) /\ Same(start)
  <2> HIDE DEF off
  <2> QED BY <1>4 DEF BearerRec
<1>6. Same(WatchdogRemove(halt))
  <2> HIDE DEF halt
  <2> QED BY <1>5, WatchdogFields, WatchdogType
<1>7. CASE \E c \in {WatchdogRemove(halt), start} :
              /\ bearer' = [bearer EXCEPT ![o] = c]
              /\ queue' = BearerFlowCtl(queue, c)
  <2>1. PICK c : /\ Same(c)
                 /\ bearer' = [bearer EXCEPT ![o] = c]
                 /\ queue' = BearerFlowCtl(queue, c)
    <3> HIDE DEF off, halt, start, Same
    <3> QED BY <1>5, <1>6, <1>7
  <2> QED
    BY <1>2, <1>3, <2>1, UpdateAwake
<1>8. CASE bearer' = [bearer EXCEPT ![o] = off] /\ queue' = queue
  <2> HIDE DEF off
  <2>1. \A p \in Objs : /\ bearer'[p].granted = bearer[p].granted
                        /\ bearer'[p].mq_idx = bearer[p].mq_idx
                        /\ bearer'[p].ack_mq_idx = bearer[p].ack_mq_idx
                        /\ bearer'[p].st = "listed" => bearer[p].st = "listed"
    BY <1>2, <1>3, <1>4, <1>8 DEF Bearers
  <2> QED
    BY <1>3, <1>8, <2>1 DEF AwakeOK, QueuesOf
<1> QED
  BY <1>1, <1>7, <1>8

LEMMA BurstAwake ==
    ASSUME AwakeInv, NEW f \in Flows, BurstCheck(f)
    PROVE  AwakeOK(bearer', queue')
<1> DEFINE o == flow[f].bearer
           c == [bearer[o] EXCEPT !.granted = FALSE]
<1>1. /\ OwnOK(bearer, mq) /\ bearer \in Bearers /\ flow \in FlowList
      /\ mq \in [Mqs -> Pointer] /\ queue \in QueueStates
      /\ AwakeOK(bearer, queue) /\ PointOK(flow, bearer)
  BY AwakeTypes DEF AwakeInv, RefInv
<1>2. o \in Objs /\ bearer[o].st = "listed"
  BY <1>1 DEF BurstCheck, FlowList, FlowRec, Pointer, PointOK
<1>3. bearer' = [bearer EXCEPT ![o] = c] /\ queue' = BearerFlowCtl(queue, c)
  BY DEF BurstCheck
<1> HIDE DEF o
<1>4. /\ c \in BearerRec
      /\ c.mq_idx = bearer[o].mq_idx /\ c.ack_mq_idx = bearer[o].ack_mq_idx
  <2>1. bearer[o] \in BearerRec
    BY <1>1, <1>2 DEF Bearers
  <2> QED
    BY <2>1 DEF BearerRec
<1> HIDE DEF c
<1> QED
  BY <1>1, <1>2, <1>3, <1>4, UpdateAwake

LEMMA EnabledGranted ==
    ASSUME NEW b \in BearerRec
    PROVE  EnabledBearer(b).granted => b.granted \/ ~b.tx_off
<1> DEFINE b1 == [b EXCEPT !.tcp_bidir = FALSE, !.rat_switch = FALSE]
<1>1. b1 \in BearerRec /\ b1.granted = b.granted
  BY DEF BearerRec
<1>2. WatchdogRemove(b1).granted = b.granted
  <2> HIDE DEF b1
  <2> QED BY <1>1, WatchdogFields
<1> QED
  BY <1>2 DEF EnabledBearer

LEMMA EnableAllAwake ==
    ASSUME AwakeInv, EnableAllFlows
    PROVE  AwakeOK(bearer', queue')
<1>1. TypeOK /\ AwakeOK(bearer, queue)
  BY AwakeTypes DEF AwakeInv
<1>2. SameShape(bearer, bearer')
  BY <1>1, EnableAllShape
<1>3. ASSUME NEW o \in Objs, bearer'[o].st = "listed", bearer'[o].granted,
             NEW q \in QueuesOf(bearer'[o])
      PROVE  queue'[q]
  <2>1. /\ o \in Listed /\ bearer[o].st = "listed" /\ q \in Queues
        /\ q \in {bearer[o].mq_idx, bearer[o].ack_mq_idx}
    BY <1>2, <1>3 DEF SameShape, Listed, QueuesOf
  <2>2. bearer[o] \in BearerRec
    BY <1>1 DEF TypeOK
  <2>3. bearer'[o] = EnabledBearer(bearer[o])
    BY <2>1 DEF EnableAllFlows
  <2>4. bearer[o].granted \/ ~bearer[o].tx_off
    BY <1>3, <2>2, <2>3, EnabledGranted
  <2>5. CASE bearer[o].granted
    <3>1. queue[q]
      BY <1>1, <2>1, <2>5 DEF AwakeOK, QueuesOf
    <3> QED
      BY <2>1, <3>1 DEF EnableAllFlows
  <2>6. CASE ~bearer[o].granted
    BY <2>1, <2>4, <2>6 DEF EnableAllFlows
  <2> QED
    BY <2>5, <2>6
<1> QED
  BY <1>3 DEF AwakeOK

LEMMA VndAwake ==
    ASSUME AwakeInv, NEW enable \in VndCommands, VndFlowControl(enable)
    PROVE  AwakeOK(bearer', queue')
<1>1. /\ OwnOK(bearer, mq) /\ bearer \in Bearers
      /\ mq \in [Mqs -> Pointer] /\ queue \in QueueStates
      /\ AwakeOK(bearer, queue)
  BY AwakeTypes DEF AwakeInv
<1>2. bearer' = bearer /\ queue' = [queue EXCEPT ![DefaultMq] = enable]
  BY DEF VndFlowControl
<1>3. ASSUME NEW o \in Objs, bearer[o].st = "listed", bearer[o].granted,
             NEW q \in QueuesOf(bearer[o])
      PROVE  queue'[q]
  <2>1. q # DefaultMq /\ q \in Queues /\ queue[q]
    BY <1>1, <1>3, DistinctQueues DEF AwakeOK, QueuesOf
  <2> QED
    BY <1>1, <1>2, <2>1 DEF QueueStates
<1> QED
  BY <1>2, <1>3 DEF AwakeOK

LEMMA NextAwake == ~nomem' /\ AwakeInv /\ [Next]_vars => AwakeInv'
<1> SUFFICES ASSUME ~nomem', AwakeInv, [Next]_vars PROVE AwakeInv'
  OBVIOUS
<1>0. /\ RefInv /\ RefInv' /\ AwakeOK(bearer, queue)
      /\ StructInv /\ TypeOK /\ bearer \in Bearers
  BY NextRef, AwakeTypes DEF AwakeInv
<1> SUFFICES AwakeOK(bearer', queue')
  BY <1>0 DEF AwakeInv
<1>1. ASSUME NEW r \in Activations, CreateFlow(r) PROVE AwakeOK(bearer', queue')
  BY <1>1, CreateFlowAwake
<1>2. ASSUME NEW r \in Activations, CreateFlowFails(r) \/ KeepFlow(r)
      PROVE  AwakeOK(bearer', queue')
  BY <1>0, <1>2 DEF CreateFlowFails, KeepFlow
<1>3. ASSUME NEW r \in Activations, RebindFlow(r) PROVE AwakeOK(bearer', queue')
  BY <1>3, RebindFlowAwake
<1>4. ASSUME NEW f \in Flows, Deactivate(f) PROVE AwakeOK(bearer', queue')
  BY <1>4, DelSectionAwake DEF Deactivate
<1>5. CASE DelForAgain
  <2>1. rt.req \in Activations
    BY <1>0, <1>5 DEF DelForAgain, TypeOK, RtRec
  <2> QED
    BY <1>5, <2>1, ActivationParts, DelSectionAwake DEF DelForAgain
<1>6. CASE BearerCleanQuit
  <2>1. removed \in Objs
    BY <1>0, <1>6 DEF BearerCleanQuit, StructInv, RtOK, TypeOK, Pointer
  <2>2. bearer[removed].st # "listed"
    BY <1>0, <2>1 DEF StructInv, RemovedOK
  <2>3. SameShape(bearer, bearer') /\ queue' = queue
    BY <1>0, <1>6, <2>1, CleanQuitShape DEF BearerCleanQuit
  <2>4. \A p \in Objs : p # removed => bearer'[p] = bearer[p]
    BY <1>0, <1>6 DEF BearerCleanQuit, Bearers
  <2> QED
    BY <1>0, <2>1, <2>2, <2>3, <2>4 DEF AwakeOK, SameShape
<1>7. CASE BearerCleanFree
  <2>1. /\ removed \in Objs /\ queue' = queue
        /\ bearer' = [bearer EXCEPT ![removed] = Zeroed]
    BY <1>0, <1>7 DEF BearerCleanFree, StructInv, RtOK, TypeOK, Pointer
  <2>2. /\ bearer'[removed].st = "free"
        /\ \A p \in Objs : p # removed => bearer'[p] = bearer[p]
    BY <1>0, <2>1 DEF Bearers, Zeroed
  <2> QED
    BY <1>0, <2>1, <2>2 DEF AwakeOK
<1>8. ASSUME NEW o \in Objs, WatchdogExpire(o) PROVE AwakeOK(bearer', queue')
  <2> DEFINE c == [bearer[o] EXCEPT !.wd_armed = FALSE, !.wd_running = TRUE]
  <2>1. bearer[o] \in BearerRec
    BY <1>0 DEF Bearers
  <2>2. /\ c.st = bearer[o].st /\ c.granted = bearer[o].granted
        /\ c.mq_idx = bearer[o].mq_idx /\ c.ack_mq_idx = bearer[o].ack_mq_idx
    BY <2>1 DEF BearerRec
  <2>3. bearer' = [bearer EXCEPT ![o] = c] /\ queue' = queue
    BY <1>8 DEF WatchdogExpire
  <2> HIDE DEF c
  <2>4. bearer'[o] = c /\ \A p \in Objs : p # o => bearer'[p] = bearer[p]
    BY <1>0, <2>3 DEF Bearers
  <2> QED
    BY <1>0, <2>2, <2>3, <2>4 DEF AwakeOK, QueuesOf
<1>9. ASSUME NEW o \in Objs, WatchdogFn(o) PROVE AwakeOK(bearer', queue')
  BY <1>9, WatchdogFnAwake
<1>10. ASSUME NEW id \in BearerIds, NEW num \in BOOLEAN, NEW rat \in BOOLEAN,
              NEW bidir \in Bidirs, FlowStatus(id, num, rat, bidir)
       PROVE  AwakeOK(bearer', queue')
  BY <1>10, FlowStatusAwake
<1>11. ASSUME NEW num \in AllBearerGrants, NEW bidir \in Bidirs,
              AllBearerFlowCtl(num, bidir)
       PROVE  AwakeOK(bearer', queue')
  BY <1>11, AllBearerAwake
<1>12. ASSUME NEW id \in BearerIds, NEW on \in TxStatuses, TxLinkStatus(id, on)
       PROVE  AwakeOK(bearer', queue')
  BY <1>12, TxLinkAwake
<1>13. ASSUME NEW f \in Flows, BurstCheck(f) PROVE AwakeOK(bearer', queue')
  BY <1>13, BurstAwake
<1>14. CASE EnableAllFlows
  BY <1>14, EnableAllAwake
<1>15. ASSUME NEW enable \in VndCommands, VndFlowControl(enable)
       PROVE  AwakeOK(bearer', queue')
  BY <1>15, VndAwake
<1>16. CASE UNCHANGED vars
  BY <1>0, <1>16 DEF vars
<1> QED
  BY <1>1, <1>2, <1>3, <1>4, <1>5, <1>6, <1>7, <1>8, <1>9, <1>10, <1>11,
     <1>12, <1>13, <1>14, <1>15, <1>16
     DEF Next, Netlink, Watchdog, Modem

LEMMA InitAwake == Init => AwakeInv
<1> SUFFICES ASSUME Init PROVE AwakeInv
  OBVIOUS
<1>1. AwakeOK(bearer, queue)
  BY DEF Init, AwakeOK, Zeroed
<1> QED
  BY <1>1, InitRef DEF AwakeInv

AwakeHist == ~nomem => AwakeInv

\* No stall: until a rebind runs out of memory, a listed bearer that has a grant
\* never finds a queue it controls stopped.  The proof needs the reference count (a packet is charged to a
\* listed bearer) and the ownership of queues (stopping the queues of one bearer
\* stops no queue of another).
THEOREM AwakeSafe == Spec => []AwakeIfGranted
<1>1. AwakeHist /\ [Next]_vars => AwakeHist'
  BY NomemStays, NextAwake DEF AwakeHist
<1>2. Init => AwakeHist
  BY InitAwake DEF AwakeHist
<1>3. AwakeHist => AwakeIfGranted
  BY DEF AwakeHist, AwakeInv, AwakeOK, AwakeIfGranted, QueuesOf, Listed
<1> QED
  BY <1>1, <1>2, <1>3, PTL DEF Spec

-----------------------------------------------------------------------------
(* Flow control has effect: no step wakes the data queue of a bearer that   *)
(* has no grant, or takes the grant and leaves the queue awake, except the  *)
(* watchdog of a removed bearer.                                            *)

\* OverGrant for bearers br and queues qs
Over(br, qs, o) ==
    /\ br[o].st = "listed"
    /\ ~br[o].granted
    /\ br[o].mq_idx \in Queues
    /\ qs[br[o].mq_idx]

NoNewOver(br, qs, nb, nq) == \A o \in Objs : Over(nb, nq, o) => Over(br, qs, o)

\* A bearer on the list with a queue still has a flow, and any bearer, also a
\* removed one, has its ack queue beyond all the data queues.
BoundOK(br) ==
    \A o \in Objs : br[o].mq_idx # InvalidMq =>
        /\ br[o].st = "listed" => br[o].flow_ref >= 1
        /\ br[o].mq_idx \in 1 .. (MaxMq - 1)
        /\ br[o].ack_mq_idx = br[o].mq_idx + AckMqOffset

\* Without QMAP no bearer is ever put under watch.
NoWatch(br) == \A o \in Objs : ~br[o].wd_armed /\ ~br[o].wd_running

OverInv == RefInv /\ BoundOK(bearer)

StopInv == OverInv /\ NoWatch(bearer) /\ \A o \in Objs : ~OverGrant(o)

OverHist == ~nomem => OverInv

StopHist == ~nomem => StopInv

-----------------------------------------------------------------------------
(* Each call keeps BoundOK.                                                 *)

LEMMA PutBound ==
    ASSUME NEW br \in Bearers, NEW o \in Pointer, BoundOK(br)
    PROVE  BoundOK(PutBearer(br, o))
<1>1. CASE o = NULL
  BY <1>1 DEF PutBearer
<1>2. CASE o \in Objs
  <2> DEFINE nb == PutBearer(br, o)
  <2>1. /\ \A p \in Objs : p # o => nb[p] = br[p]
        /\ nb[o].flow_ref = br[o].flow_ref - 1
        /\ nb[o].st = IF br[o].flow_ref = 1 THEN "removed" ELSE br[o].st
        /\ nb[o].mq_idx = br[o].mq_idx
        /\ nb[o].ack_mq_idx = br[o].ack_mq_idx
    BY <1>2, PutFields
  <2>2. br[o].flow_ref \in Int
    BY <1>2 DEF Bearers, BearerRec
  <2> HIDE DEF nb
  <2>3. BoundOK(nb)
    BY <2>1, <2>2 DEF BoundOK
  <2> QED
    BY <2>3 DEF nb
<1> QED
  BY <1>1, <1>2 DEF Pointer

LEMMA GetBindBound ==
    ASSUME NEW br \in Bearers, NEW id \in BearerIds, NEW o \in Objs,
           NEW ms, NEW i \in Mqs, BoundOK(br),
           BindBearer(BearerGet(br, id, o), ms, i, o)[o].flow_ref >= 1
    PROVE  BoundOK(BindBearer(BearerGet(br, id, o), ms, i, o))
<1> DEFINE get == BearerGet(br, id, o)
           nb == BindBearer(get, ms, i, o)
<1>1. /\ get \in Bearers
      /\ \A p \in Objs : p # o => get[p] = br[p]
      /\ br[o].st = "listed" => /\ get[o].mq_idx = br[o].mq_idx
                                /\ get[o].ack_mq_idx = br[o].ack_mq_idx
      /\ br[o].st # "listed" => get[o].mq_idx = InvalidMq
  BY GetFields, BearerGetType DEF Bearers
<1> HIDE DEF get
<1>2. /\ \A p \in Objs : p # o => nb[p] = get[p]
      /\ Binds(ms, i) => nb[o].mq_idx = i /\ nb[o].ack_mq_idx = i + AckMqOffset
      /\ ~Binds(ms, i) => nb = get
      /\ nb[o].flow_ref >= 1
  BY <1>1, BindFields DEF get
<1>3. Binds(ms, i) => i \in 1 .. (MaxMq - 1)
  BY ConstAssumption DEF Binds, DefaultMq, Mqs
<1> HIDE DEF nb
<1>4. \A p \in Objs : p # o => nb[p] = br[p]
  BY <1>1, <1>2
<1>5. nb[o].mq_idx # InvalidMq =>
         /\ nb[o].mq_idx \in 1 .. (MaxMq - 1)
         /\ nb[o].ack_mq_idx = nb[o].mq_idx + AckMqOffset
  <2>1. CASE Binds(ms, i)
    BY <1>2, <1>3, <2>1
  <2>2. CASE ~Binds(ms, i)
    BY <1>1, <1>2, <2>2 DEF BoundOK
  <2> QED
    BY <2>1, <2>2
<1>6. BoundOK(nb)
  BY <1>2, <1>4, <1>5 DEF BoundOK
<1> QED
  BY <1>6 DEF nb, get

LEMMA ShapeBound ==
    ASSUME NEW br, NEW nb, BoundOK(br), SameShape(br, nb)
    PROVE  BoundOK(nb)
BY DEF BoundOK, SameShape

\* A flow that points at a listed bearer is counted.
LEMMA UserCounted ==
    ASSUME NEW fl, NEW br, CountOK(fl, br), NEW f \in Flows, NEW o \in Objs,
           fl[f] # NULL, fl[f].bearer = o, br[o].st = "listed"
    PROVE  br[o].flow_ref >= 1
<1>1. f \in Users(fl, o)
  BY DEF Users
<1>2. /\ Cardinality(Users(fl, o)) \in Nat
      /\ Cardinality(Users(fl, o)) # 0
  BY <1>1, UsersFinite, FS_EmptySet
<1> QED
  BY <1>2 DEF CountOK

LEMMA CreateFlowBound ==
    ASSUME OverInv, RefInv', NEW r \in Activations, CreateFlow(r)
    PROVE  BoundOK(bearer')
<1>1. PICK o \in GetChoices(bearer, r[2]) :
        /\ flow' = [flow EXCEPT ![r[1]] = [bearer_id |-> r[2],
                                           mq_idx |-> r[3], bearer |-> o]]
        /\ bearer' = BindBearer(BearerGet(bearer, r[2], o), mq, r[3], o)
  BY DEF CreateFlow
<1>2. /\ r[1] \in Flows /\ r[2] \in BearerIds /\ r[3] \in Mqs /\ o \in Objs
      /\ bearer \in Bearers /\ flow \in FlowList
  BY GetChoicesType, ActivationParts, AwakeTypes DEF OverInv
<1> DEFINE get == BearerGet(bearer, r[2], o)
<1>3. get \in Bearers /\ get[o].st = "listed"
  BY <1>2, BearerGetType, GetFields DEF Bearers
<1> HIDE DEF get
<1>4. bearer'[o].st = "listed"
  BY <1>1, <1>2, <1>3, BindFields DEF get
<1>5. flow'[r[1]] \in FlowRec /\ flow'[r[1]].bearer = o
  BY <1>1, <1>2 DEF FlowList, FlowRec, Pointer
<1>6. flow'[r[1]] # NULL
  BY <1>5, NullAssumption
<1>7. CountOK(flow', bearer')
  BY DEF RefInv
<1>8. bearer'[o].flow_ref >= 1
  BY <1>2, <1>4, <1>5, <1>6, <1>7, UserCounted
<1> QED
  BY <1>1, <1>2, <1>8, GetBindBound DEF OverInv

LEMMA RebindFlowBound ==
    ASSUME ~nomem', OverInv, RefInv', NEW r \in Activations, RebindFlow(r)
    PROVE  BoundOK(bearer')
<1> DEFINE old == flow[r[1]].bearer
           put == PutBearer(bearer, old)
           ms == PutMq(mq, bearer, old)
<1>1. PICK o \in GetChoices(put, r[2]) :
        /\ flow' = [flow EXCEPT ![r[1]] = [bearer_id |-> r[2],
                                           mq_idx |-> r[3], bearer |-> o]]
        /\ bearer' = BindBearer(BearerGet(put, r[2], o), ms, r[3], o)
  BY DEF RebindFlow
<1>2. /\ r[1] \in Flows /\ r[2] \in BearerIds /\ r[3] \in Mqs /\ o \in Objs
      /\ TypeOK /\ bearer \in Bearers /\ flow \in FlowList
  BY GetChoicesType, ActivationParts, AwakeTypes DEF OverInv
<1>3. old \in Pointer
  BY <1>2 DEF RebindFlow, TypeOK, FlowRec
<1>4. put \in Bearers /\ BoundOK(put)
  <2> HIDE DEF old
  <2> QED BY <1>2, <1>3, PutType, PutBound DEF TypeOK, Bearers, OverInv
<1> HIDE DEF put, ms
<1> DEFINE get == BearerGet(put, r[2], o)
<1>5. get \in Bearers /\ get[o].st = "listed"
  BY <1>2, <1>4, BearerGetType, GetFields DEF Bearers
<1> HIDE DEF get
<1>6. bearer'[o].st = "listed"
  BY <1>1, <1>2, <1>5, BindFields DEF get
<1>7. flow'[r[1]] \in FlowRec /\ flow'[r[1]].bearer = o
  BY <1>1, <1>2 DEF FlowList, FlowRec, Pointer
<1>8. flow'[r[1]] # NULL
  BY <1>7, NullAssumption
<1>9. CountOK(flow', bearer')
  BY DEF RefInv
<1>10. bearer'[o].flow_ref >= 1
  BY <1>2, <1>6, <1>7, <1>8, <1>9, UserCounted
<1> QED
  BY <1>1, <1>2, <1>4, <1>10, GetBindBound

LEMMA DelSectionBound ==
    ASSUME OverInv, NEW f \in Flows, DelSection(f)
    PROVE  BoundOK(bearer')
<1>1. CASE flow[f] = NULL
  BY <1>1 DEF DelSection, OverInv
<1>2. CASE flow[f] # NULL
  <2>1. flow[f].bearer \in Pointer /\ bearer \in Bearers
    BY <1>2, AwakeTypes DEF OverInv, TypeOK, FlowRec
  <2>2. bearer' = PutBearer(bearer, flow[f].bearer)
    BY <1>2 DEF DelSection
  <2> QED
    BY <2>1, <2>2, PutBound DEF OverInv
<1> QED
  BY <1>1, <1>2

LEMMA NextOver == ~nomem' /\ OverInv /\ [Next]_vars => OverInv'
<1> SUFFICES ASSUME ~nomem', OverInv, [Next]_vars PROVE OverInv'
  OBVIOUS
<1>0. /\ RefInv /\ RefInv' /\ BoundOK(bearer)
      /\ StructInv /\ TypeOK /\ bearer \in Bearers
  BY NextRef, AwakeTypes DEF OverInv
<1> SUFFICES BoundOK(bearer')
  BY <1>0 DEF OverInv
<1>1. ASSUME NEW r \in Activations, CreateFlow(r) PROVE BoundOK(bearer')
  BY <1>0, <1>1, CreateFlowBound
<1>2. ASSUME NEW r \in Activations, CreateFlowFails(r) \/ KeepFlow(r)
      PROVE  BoundOK(bearer')
  BY <1>0, <1>2 DEF CreateFlowFails, KeepFlow
<1>3. ASSUME NEW r \in Activations, RebindFlow(r) PROVE BoundOK(bearer')
  BY <1>0, <1>3, RebindFlowBound
<1>4. ASSUME NEW f \in Flows, Deactivate(f) PROVE BoundOK(bearer')
  BY <1>4, DelSectionBound DEF Deactivate
<1>5. CASE DelForAgain
  <2>1. rt.req \in Activations
    BY <1>0, <1>5 DEF DelForAgain, TypeOK, RtRec
  <2> QED
    BY <1>5, <2>1, ActivationParts, DelSectionBound DEF DelForAgain
<1>6. CASE BearerCleanQuit
  <2>1. removed \in Objs
    BY <1>0, <1>6 DEF BearerCleanQuit, StructInv, RtOK, TypeOK, Pointer
  <2> QED
    BY <1>0, <1>6, <2>1, CleanQuitShape, ShapeBound
<1>7. CASE BearerCleanFree
  <2>1. bearer' = [bearer EXCEPT ![removed] = Zeroed]
    BY <1>7 DEF BearerCleanFree
  <2>2. \A p \in Objs : bearer'[p].mq_idx # InvalidMq => bearer'[p] = bearer[p]
    BY <1>0, <2>1 DEF Bearers, Zeroed
  <2> QED
    BY <1>0, <2>2 DEF BoundOK
<1>8. ASSUME NEW o \in Objs, WatchdogExpire(o) \/ WatchdogFn(o)
      PROVE  BoundOK(bearer')
  BY <1>0, <1>8, WatchdogExpireShape, WatchdogFnShape, ShapeBound
<1>9. ASSUME NEW id \in BearerIds, NEW num \in BOOLEAN, NEW rat \in BOOLEAN,
             NEW bidir \in Bidirs, FlowStatus(id, num, rat, bidir)
      PROVE  BoundOK(bearer')
  <2>1. CASE SameShape(bearer, bearer')
    BY <1>0, <2>1, ShapeBound
  <2>2. ASSUME NEW o \in Objs, bearer[o].st = "free",
               SameShape(NoRef(bearer, id, o), bearer')
        PROVE  BoundOK(bearer')
    <3> DEFINE new == NoRef(bearer, id, o)
    <3>1. /\ \A p \in Objs : p # o => new[p] = bearer[p]
          /\ new[o].mq_idx = InvalidMq
      BY <1>0, <2>2, NoRefFields
    <3> HIDE DEF new
    <3>2. BoundOK(new)
      BY <1>0, <3>1 DEF BoundOK
    <3> QED
      BY <2>2, <3>2, ShapeBound DEF new
  <2> QED
    BY <1>0, <1>9, <2>1, <2>2, FlowStatusShape
<1>10. ASSUME NEW num \in AllBearerGrants, NEW bidir \in Bidirs,
              AllBearerFlowCtl(num, bidir)
       PROVE  BoundOK(bearer')
  BY <1>0, <1>10, AllBearerShape, ShapeBound
<1>11. ASSUME NEW id \in BearerIds, NEW on \in TxStatuses, TxLinkStatus(id, on)
       PROVE  BoundOK(bearer')
  BY <1>0, <1>11, TxLinkShape, ShapeBound
<1>12. ASSUME NEW f \in Flows, BurstCheck(f) PROVE BoundOK(bearer')
  BY <1>0, <1>12, BurstShape, ShapeBound
<1>13. CASE EnableAllFlows
  BY <1>0, <1>13, EnableAllShape, ShapeBound
<1>14. CASE UNCHANGED bearer
  BY <1>0, <1>14
<1>15. ASSUME NEW enable \in VndCommands, VndFlowControl(enable)
       PROVE  UNCHANGED bearer
  BY <1>15 DEF VndFlowControl
<1> QED
  BY <1>1, <1>2, <1>3, <1>4, <1>5, <1>6, <1>7, <1>8, <1>9, <1>10, <1>11,
     <1>12, <1>13, <1>14, <1>15
     DEF Next, Netlink, Watchdog, Modem, vars

LEMMA InitOver == Init => OverInv
<1> SUFFICES ASSUME Init PROVE OverInv
  OBVIOUS
<1>1. BoundOK(bearer)
  BY DEF Init, BoundOK, Zeroed
<1> QED
  BY <1>1, InitRef DEF OverInv

-----------------------------------------------------------------------------
(* Which calls leave no bearer over its grant that was not before.          *)

\* dfc_bearer_flow_ctl for a bearer without grant stops its data queue and
\* wakes none.
LEMMA BearerFlowCtlStops ==
    ASSUME NEW qs \in QueueStates, NEW b \in BearerRec, NEW q \in Queues,
           ~b.granted
    PROVE  BearerFlowCtl(qs, b)[q] => qs[q] /\ q # b.mq_idx
<1> DEFINE data == FlowControl(qs, b.mq_idx, b.granted)
<1>1. b.granted \in BOOLEAN
  BY DEF BearerRec
<1>2. data \in QueueStates
  BY <1>1, FlowControlType DEF QueueStates
<1>3. data[q] = IF q = b.mq_idx THEN b.granted ELSE qs[q]
  BY <1>1, FlowControlFields
<1> HIDE DEF data
<1>4. FlowControl(data, b.ack_mq_idx, b.granted)[q] =
         IF q = b.ack_mq_idx THEN b.granted ELSE data[q]
  BY <1>1, <1>2, FlowControlFields
<1>5. BearerFlowCtl(qs, b) \in {data, FlowControl(data, b.ack_mq_idx, b.granted)}
  BY DEF BearerFlowCtl, data
<1> QED
  BY <1>3, <1>4, <1>5

\* No queue is woken and no grant taken.
LEMMA NoneWoken ==
    ASSUME NEW br, NEW nb, NEW qs, NEW nq,
           \A q \in Queues : nq[q] => qs[q],
           \A o \in Objs :
              nb[o].st = "listed" /\ ~nb[o].granted /\ nb[o].mq_idx \in Queues =>
                 /\ br[o].st = "listed" /\ ~br[o].granted
                 /\ nb[o].mq_idx = br[o].mq_idx
    PROVE  NoNewOver(br, qs, nb, nq)
BY DEF NoNewOver, Over

\* dfc_bearer_flow_ctl after the grant of one listed bearer changed
LEMMA UpdateOver ==
    ASSUME NEW br \in Bearers, NEW ms \in [Mqs -> Pointer], NEW qs \in QueueStates,
           NEW o \in Objs, NEW c \in BearerRec, OwnOK(br, ms),
           br[o].st = "listed",
           c.mq_idx = br[o].mq_idx, c.ack_mq_idx = br[o].ack_mq_idx
    PROVE  NoNewOver(br, qs, [br EXCEPT ![o] = c], BearerFlowCtl(qs, c))
<1> DEFINE nb == [br EXCEPT ![o] = c]
           nq == BearerFlowCtl(qs, c)
<1>1. nb[o] = c /\ \A p \in Objs : p # o => nb[p] = br[p]
  BY DEF Bearers
<1>2. QueuesOf(c) = QueuesOf(br[o])
  BY DEF QueuesOf
<1> HIDE DEF nb
<1>3. ASSUME NEW p \in Objs, Over(nb, nq, p) PROVE Over(br, qs, p)
  <2>1. CASE p = o
    BY <1>1, <1>3, <2>1, BearerFlowCtlStops DEF Over
  <2>2. CASE p # o
    <3>1. /\ br[p].st = "listed" /\ br[p].mq_idx \in QueuesOf(br[p])
          /\ br[p].mq_idx \in Queues /\ ~br[p].granted /\ nq[br[p].mq_idx]
      BY <1>1, <1>3, <2>2 DEF Over, QueuesOf
    <3>2. br[p].mq_idx \notin QueuesOf(c)
      BY <1>2, <2>2, <3>1, DistinctQueues
    <3>3. nq[br[p].mq_idx] = qs[br[p].mq_idx]
      BY <3>1, <3>2, BearerFlowCtlFields
    <3> QED
      BY <3>1, <3>3 DEF Over
  <2> QED
    BY <2>1, <2>2
<1> QED
  BY <1>3 DEF NoNewOver, nb

LEMMA BindOver ==
    ASSUME NEW br \in Bearers, NEW ms \in [Mqs -> Pointer], NEW qs \in QueueStates,
           NEW i \in Mqs, NEW o \in Objs, br[o].st = "listed", OwnOK(br, ms)
    PROVE  NoNewOver(br, qs, BindBearer(br, ms, i, o), BindQueue(qs, br, ms, i, o))
<1>1. CASE ~Binds(ms, i)
  BY <1>1 DEF BindBearer, BindQueue, NoNewOver
<1>2. CASE Binds(ms, i)
  <2> DEFINE nb == BindBearer(br, ms, i, o)
             nm == BindMq(ms, i, o)
             q1 == FlowControl(qs, i, br[o].granted)
             nq == BindQueue(qs, br, ms, i, o)
  <2>1. /\ \A p \in Objs : p # o => nb[p] = br[p]
        /\ nb[o].st = "listed" /\ nb[o].granted = br[o].granted
        /\ nb[o].mq_idx = i /\ nb[o].ack_mq_idx = i + AckMqOffset
    BY <1>2, BindFields
  <2>2. OwnOK(nb, nm)
    BY BindOwn
  <2>3. nb \in Bearers /\ nm \in [Mqs -> Pointer]
    BY BindType DEF Bearers, QueueStates
  <2>4. br[o].granted \in BOOLEAN
    BY DEF Bearers, BearerRec
  <2>5. q1 \in QueueStates
    BY <2>4, FlowControlType DEF QueueStates
  <2>6. nq = FlowControl(q1, i + AckMqOffset, br[o].granted)
    BY <1>2 DEF BindQueue
  <2>7. \A q \in Queues : q1[q] = IF q = i THEN br[o].granted ELSE qs[q]
    BY <2>4, FlowControlFields
  <2> HIDE DEF q1
  <2>8. \A q \in Queues : nq[q] = IF q \in {i, i + AckMqOffset}
                                  THEN br[o].granted ELSE qs[q]
    BY <2>4, <2>5, <2>6, <2>7, FlowControlFields
  <2>9. i \in Queues /\ i + AckMqOffset \in Queues
    BY MqRange
  <2>10. QueuesOf(nb[o]) = {i, i + AckMqOffset}
    BY <2>1, <2>9 DEF QueuesOf
  <2> HIDE DEF nb, nm, nq
  <2>11. ASSUME NEW p \in Objs, Over(nb, nq, p) PROVE Over(br, qs, p)
    <3>1. CASE p = o
      BY <2>1, <2>8, <2>9, <2>11, <3>1 DEF Over
    <3>2. CASE p # o
      <4>1. /\ br[p].st = "listed" /\ ~br[p].granted /\ nq[br[p].mq_idx]
            /\ br[p].mq_idx \in Queues /\ br[p].mq_idx \in QueuesOf(nb[p])
            /\ nb[p].st = "listed"
        BY <2>1, <2>11, <3>2 DEF Over, QueuesOf
      <4>2. br[p].mq_idx \notin QueuesOf(nb[o])
        BY <2>1, <2>2, <2>3, <3>2, <4>1, DistinctQueues
      <4>3. nq[br[p].mq_idx] = qs[br[p].mq_idx]
        BY <2>8, <2>10, <4>1, <4>2
      <4> QED
        BY <4>1, <4>3 DEF Over
    <3> QED
      BY <3>1, <3>2
  <2> QED
    BY <2>11 DEF NoNewOver, nb, nq
<1> QED
  BY <1>1, <1>2

LEMMA GetOver ==
    ASSUME NEW br \in Bearers, NEW qs, NEW id \in BearerIds, NEW o \in Objs
    PROVE  NoNewOver(br, qs, BearerGet(br, id, o), qs)
<1> DEFINE nb == BearerGet(br, id, o)
<1>1. /\ \A p \in Objs : p # o => nb[p] = br[p]
      /\ br[o].st = "listed" => /\ nb[o].granted = br[o].granted
                                /\ nb[o].mq_idx = br[o].mq_idx
      /\ br[o].st # "listed" => nb[o].mq_idx = InvalidMq
  BY GetFields
<1>2. InvalidMq \notin Queues
  BY MqRange
<1> HIDE DEF nb
<1>3. NoNewOver(br, qs, nb, qs)
  BY <1>1, <1>2, NoneWoken
<1> QED
  BY <1>3 DEF nb

LEMMA PutOver ==
    ASSUME NEW br \in Bearers, NEW qs, NEW o \in Pointer
    PROVE  NoNewOver(br, qs, PutBearer(br, o), qs)
<1>1. CASE o = NULL
  BY <1>1 DEF PutBearer, NoNewOver
<1>2. CASE o \in Objs
  <2> DEFINE nb == PutBearer(br, o)
  <2>1. \A p \in Objs : /\ nb[p].st = "listed" => br[p].st = "listed"
                        /\ nb[p].granted = br[p].granted
                        /\ nb[p].mq_idx = br[p].mq_idx
    BY <1>2, PutFields
  <2> HIDE DEF nb
  <2>2. NoNewOver(br, qs, nb, qs)
    BY <2>1, NoneWoken
  <2> QED
    BY <2>2 DEF nb
<1> QED
  BY <1>1, <1>2 DEF Pointer

-----------------------------------------------------------------------------
(* The actions.                                                             *)

NoNewOverStep == NoNewOver(bearer, queue, bearer', queue')

LEMMA CreateFlowOver ==
    ASSUME OverInv, NEW r \in Activations, CreateFlow(r)
    PROVE  NoNewOverStep
<1>1. PICK o \in GetChoices(bearer, r[2]) :
        /\ bearer' = BindBearer(BearerGet(bearer, r[2], o), mq, r[3], o)
        /\ queue' = BindQueue(queue, BearerGet(bearer, r[2], o), mq, r[3], o)
  BY DEF CreateFlow
<1> DEFINE br == BearerGet(bearer, r[2], o)
<1>2. /\ OwnOK(bearer, mq)
      /\ bearer \in Bearers /\ mq \in [Mqs -> Pointer] /\ queue \in QueueStates
  BY AwakeTypes DEF OverInv
<1>3. o \in Objs /\ r[2] \in BearerIds /\ r[3] \in Mqs
  BY GetChoicesType, ActivationParts
<1>4. br \in Bearers /\ OwnOK(br, mq) /\ br[o].st = "listed"
  BY <1>2, <1>3, BearerGetType, GetOwn DEF Bearers
<1>5. NoNewOver(bearer, queue, br, queue)
  BY <1>2, <1>3, GetOver
<1>6. bearer' = BindBearer(br, mq, r[3], o) /\ queue' = BindQueue(queue, br, mq, r[3], o)
  BY <1>1
<1> HIDE DEF br
<1>7. NoNewOver(br, queue, bearer', queue')
  BY <1>2, <1>3, <1>4, <1>6, BindOver
<1> QED
  BY <1>5, <1>7 DEF NoNewOver, NoNewOverStep

LEMMA RebindFlowOver ==
    ASSUME OverInv, ~nomem', NEW r \in Activations, RebindFlow(r)
    PROVE  NoNewOverStep
<1> DEFINE old == flow[r[1]].bearer
           put == PutBearer(bearer, old)
           ms == PutMq(mq, bearer, old)
<1>1. PICK o \in GetChoices(put, r[2]) :
        /\ bearer' = BindBearer(BearerGet(put, r[2], o), ms, r[3], o)
        /\ queue' = BindQueue(queue, BearerGet(put, r[2], o), ms, r[3], o)
  BY DEF RebindFlow
<1> DEFINE br == BearerGet(put, r[2], o)
<1>2. /\ TypeOK /\ OwnOK(bearer, mq) /\ LifeOK(bearer)
      /\ bearer \in Bearers /\ mq \in [Mqs -> Pointer] /\ queue \in QueueStates
  BY AwakeTypes DEF OverInv, RefInv, StructInv
<1>3. /\ o \in Objs /\ r[2] \in BearerIds /\ r[3] \in Mqs /\ old \in Pointer
  BY <1>2, GetChoicesType, ActivationParts DEF RebindFlow, TypeOK, FlowRec
<1>4. put \in Bearers /\ ms \in [Mqs -> Pointer]
  <2> HIDE DEF old
  <2> QED BY <1>2, <1>3, PutType DEF TypeOK, Bearers, QueueStates
<1>5. OwnOK(put, ms) /\ NoNewOver(bearer, queue, put, queue)
  <2> HIDE DEF old
  <2> QED BY <1>2, <1>3, PutOwn, PutOver
<1>6. /\ br \in Bearers /\ OwnOK(br, ms) /\ br[o].st = "listed"
      /\ NoNewOver(put, queue, br, queue)
  <2> HIDE DEF put, ms
  <2> QED BY <1>3, <1>4, <1>5, BearerGetType, GetOwn, GetOver DEF Bearers
<1>7. bearer' = BindBearer(br, ms, r[3], o) /\ queue' = BindQueue(queue, br, ms, r[3], o)
  BY <1>1
<1> HIDE DEF br, put, ms
<1>8. NoNewOver(br, queue, bearer', queue')
  BY <1>2, <1>3, <1>4, <1>6, <1>7, BindOver
<1> QED
  BY <1>5, <1>6, <1>8 DEF NoNewOver, NoNewOverStep

\* When the last flow goes no listed bearer has a queue, so waking all of them
\* is harmless; a bearer that goes wakes only its own queues.
LEMMA DelSectionOver ==
    ASSUME OverInv, OverInv', NEW f \in Flows, DelSection(f)
    PROVE  NoNewOverStep
<1>1. /\ TypeOK /\ OwnOK(bearer, mq) /\ BoundOK(bearer)
      /\ bearer \in Bearers /\ mq \in [Mqs -> Pointer] /\ queue \in QueueStates
      /\ BoundOK(bearer') /\ CountOK(flow', bearer')
  BY AwakeTypes DEF OverInv, RefInv
<1>2. CASE \A g \in Flows : flow'[g] = NULL
  <2>1. ASSUME NEW o \in Objs, Over(bearer', queue', o) PROVE FALSE
    <3>1. Users(flow', o) = {}
      BY <1>2 DEF Users
    <3>2. bearer'[o].flow_ref = 0
      BY <1>1, <2>1, <3>1, FS_EmptySet DEF CountOK, Over
    <3>3. bearer'[o].mq_idx # InvalidMq
      BY <2>1, MqRange DEF Over
    <3> QED
      BY <1>1, <2>1, <3>2, <3>3 DEF BoundOK, Over
  <2> QED
    BY <2>1 DEF NoNewOverStep, NoNewOver
<1>3. CASE ~(\A g \in Flows : flow'[g] = NULL) /\ flow[f] = NULL
  BY <1>3 DEF DelSection, NoNewOverStep, NoNewOver
<1>4. CASE ~(\A g \in Flows : flow'[g] = NULL) /\ flow[f] # NULL
  <2> DEFINE o == flow[f].bearer
  <2>1. o \in Pointer
    BY <1>1, <1>4 DEF TypeOK, FlowRec
  <2>2. /\ bearer' = PutBearer(bearer, o)
        /\ queue' = PutQueue(queue, mq, bearer, o)
    BY <1>4 DEF DelSection
  <2> HIDE DEF o
  <2>3. NoNewOver(bearer, queue, bearer', queue)
    BY <1>1, <2>1, <2>2, PutOver
  <2>4. CASE ~LastRef(bearer, o)
    BY <2>2, <2>3, <2>4 DEF PutQueue, NoNewOverStep
  <2>5. CASE LastRef(bearer, o)
    <3>1. o \in Objs /\ bearer[o].flow_ref = 1
      BY <2>1, <2>5 DEF LastRef, Pointer
    <3>2. /\ \A p \in Objs : p # o => bearer'[p] = bearer[p]
          /\ bearer'[o].st = "removed"
      BY <1>1, <2>2, <3>1, PutFields
    <3>3. ASSUME NEW p \in Objs, Over(bearer', queue', p)
          PROVE  queue[bearer'[p].mq_idx]
      <4>1. /\ p # o /\ bearer'[p] = bearer[p] /\ bearer[p].st = "listed"
            /\ bearer[p].mq_idx \in Queues /\ queue'[bearer[p].mq_idx]
        BY <3>2, <3>3 DEF Over
      <4> DEFINE k == bearer[p].mq_idx
      <4>2. k \in 1 .. (MaxMq - 1) /\ mq[k] = p
        BY <1>1, <4>1, MqRange DEF BoundOK, OwnOK
      <4> HIDE DEF k
      <4>3. ASSUME NEW i \in Mqs, mq[i] = o, k \in {i, i + AckMqOffset}
            PROVE  FALSE
        <5>1. i # DefaultMq /\ k # i
          BY <1>1, <3>1, <4>1, <4>2, <4>3, ConstAssumption DEF OwnOK
        <5> QED
          BY <4>2, <4>3, <5>1, ConstAssumption DEF Mqs, DefaultMq, AckMqOffset
      <4>4. queue'[k] => queue[k]
        BY <2>2, <2>5, <4>1, <4>3 DEF PutQueue, k
      <4> QED
        BY <4>1, <4>4 DEF k
    <3> QED
      BY <2>3, <3>3 DEF NoNewOverStep, NoNewOver, Over
  <2> QED
    BY <2>4, <2>5
<1> QED
  BY <1>2, <1>3, <1>4

\* A removed bearer whose watchdog runs while o owns its queue
StaleWatchdog(o) ==
    \E p \in Objs : /\ bearer[p].st = "removed" /\ bearer[p].wd_running
                    /\ bearer[p].mq_idx = bearer[o].mq_idx
                    /\ ~bearer'[p].wd_running

LEMMA WatchdogFnOver ==
    ASSUME OverInv, NEW o \in Objs, WatchdogFn(o)
    PROVE  \A p \in Objs : OverGrant(p)' /\ ~OverGrant(p) => StaleWatchdog(p)
<1> DEFINE done == [bearer[o] EXCEPT !.wd_started = FALSE, !.wd_running = FALSE]
           start == [done EXCEPT !.granted = TRUE]
<1>1. /\ TypeOK /\ OwnOK(bearer, mq) /\ bearer \in Bearers
      /\ mq \in [Mqs -> Pointer] /\ queue \in QueueStates
      /\ bearer[o] \in BearerRec /\ BoundOK(bearer) /\ LifeOK(bearer)
  BY AwakeTypes DEF OverInv, Bearers, RefInv, StructInv
<1>2. /\ done \in BearerRec /\ done.st = bearer[o].st
      /\ done.granted = bearer[o].granted
      /\ done.mq_idx = bearer[o].mq_idx
      /\ done.ack_mq_idx = bearer[o].ack_mq_idx
      /\ ~done.wd_running
  BY <1>1 DEF BearerRec
<1>3. /\ start \in BearerRec /\ start.st = bearer[o].st /\ start.granted
      /\ start.mq_idx = bearer[o].mq_idx
      /\ start.ack_mq_idx = bearer[o].ack_mq_idx
      /\ ~start.wd_running
  <2> HIDE DEF done
  <2> QED BY <1>2 DEF BearerRec
<1>4. CASE bearer' = [bearer EXCEPT ![o] = done] /\ UNCHANGED queue
  <2> HIDE DEF done
  <2>1. \A p \in Objs : /\ bearer'[p].st = bearer[p].st
                        /\ bearer'[p].granted = bearer[p].granted
                        /\ bearer'[p].mq_idx = bearer[p].mq_idx
    BY <1>1, <1>2, <1>4 DEF Bearers
  <2> QED
    BY <1>4, <2>1 DEF OverGrant
<1>5. CASE /\ bearer' = [bearer EXCEPT ![o] = start]
           /\ queue' = BearerFlowCtl(queue, start)
  <2> HIDE DEF start
  <2>1. CASE bearer[o].st = "listed"
    <3>1. NoNewOver(bearer, queue, bearer', queue')
      BY <1>1, <1>3, <1>5, <2>1, UpdateOver
    <3> QED
      BY <3>1 DEF NoNewOver, Over, OverGrant
  <2>2. CASE bearer[o].st # "listed"
    <3> SUFFICES ASSUME NEW p \in Objs, OverGrant(p)', ~OverGrant(p)
                 PROVE  StaleWatchdog(p)
      OBVIOUS
    <3>1. bearer'[o] = start /\ \A s \in Objs : s # o => bearer'[s] = bearer[s]
      BY <1>1, <1>5 DEF Bearers
    <3>2. /\ p # o /\ bearer[p].st = "listed" /\ ~bearer[p].granted
          /\ bearer[p].mq_idx \in Queues /\ queue'[bearer[p].mq_idx]
      BY <1>3, <2>2, <3>1 DEF OverGrant
    <3>3. ~queue[bearer[p].mq_idx]
      BY <3>2 DEF OverGrant
    <3>4. bearer[p].mq_idx \in QueuesOf(start)
      BY <1>1, <1>3, <1>5, <3>2, <3>3, BearerFlowCtlFields
    <3>5. /\ bearer[p].mq_idx # InvalidMq
          /\ bearer[p].mq_idx \in {bearer[o].mq_idx, bearer[o].ack_mq_idx}
      BY <1>3, <3>2, <3>4, MqRange DEF QueuesOf
    <3>6. bearer[o].mq_idx # InvalidMq
      BY <1>1, <3>5 DEF OwnOK
    <3>7. /\ bearer[p].mq_idx \in 1 .. (MaxMq - 1)
          /\ bearer[o].mq_idx \in 1 .. (MaxMq - 1)
          /\ bearer[o].ack_mq_idx = bearer[o].mq_idx + (MaxMq - 1)
      BY <1>1, <3>5, <3>6 DEF BoundOK, AckMqOffset
    <3>8. MaxMq \in Nat
      BY ConstAssumption
    <3>9. bearer[p].mq_idx = bearer[o].mq_idx
      BY <3>5, <3>7, <3>8
    <3>10. bearer[o].wd_running /\ bearer[o].st = "removed"
      <4>1. bearer[o].wd_running
        BY DEF WatchdogFn
      <4>2. bearer[o].st # "free"
        BY <1>1, <4>1 DEF LifeOK
      <4> QED
        BY <1>1, <2>2, <4>1, <4>2 DEF BearerRec
    <3>11. ~bearer'[o].wd_running
      BY <1>3, <3>1
    <3> QED
      BY <3>9, <3>10, <3>11 DEF StaleWatchdog
  <2> QED
    BY <2>1, <2>2
<1> QED
  BY <1>4, <1>5 DEF WatchdogFn

LEMMA FlowStatusOver ==
    ASSUME OverInv, NEW id \in BearerIds, NEW num \in BOOLEAN,
           NEW rat \in BOOLEAN, NEW bidir \in Bidirs,
           FlowStatus(id, num, rat, bidir)
    PROVE  NoNewOverStep
<1>1. PICK o \in GetChoices(bearer, id), adj \in Adjusted(num) :
        LET br == IF bearer[o].st = "listed" THEN bearer
                  ELSE NoRef(bearer, id, o)
            c == UpdateFcMap(br[o], num, rat, bidir, adj)
        IN  /\ bearer' = [br EXCEPT ![o] = c]
            /\ queue' = IF c.granted = br[o].granted THEN queue
                        ELSE BearerFlowCtl(queue, c)
  BY DEF FlowStatus, NoRef
<1> DEFINE br == IF bearer[o].st = "listed" THEN bearer
                 ELSE NoRef(bearer, id, o)
           c == UpdateFcMap(br[o], num, rat, bidir, adj)
<1>2. /\ TypeOK /\ StructInv /\ OwnOK(bearer, mq) /\ bearer \in Bearers
      /\ mq \in [Mqs -> Pointer] /\ queue \in QueueStates
      /\ bidir \in BOOLEAN
  BY AwakeTypes, ConstAssumption DEF OverInv
<1>3. o \in Objs /\ bearer[o].st \in {"free", "listed"}
  BY DEF GetChoices, Lookup
<1>4. /\ br \in Bearers /\ br[o].st = "listed"
      /\ OwnOK(br, mq) /\ NoNewOver(bearer, queue, br, queue)
  <2>1. CASE bearer[o].st = "listed"
    BY <1>2, <2>1 DEF NoNewOver
  <2>2. CASE bearer[o].st = "free"
    <3>1. br = NoRef(bearer, id, o)
      BY <2>2
    <3>2. /\ br \in Bearers /\ br[o].st = "listed" /\ OwnOK(br, mq)
          /\ \A p \in Objs : p # o => br[p] = bearer[p]
          /\ br[o].mq_idx = InvalidMq
      BY <1>2, <1>3, <2>2, <3>1, NoRefFields, NoRefKeeps DEF StructInv
    <3>3. InvalidMq \notin Queues
      BY MqRange
    <3> HIDE DEF br
    <3> QED
      BY <3>2, <3>3, NoneWoken
  <2> QED
    BY <1>3, <2>1, <2>2
<1>5. /\ bearer' = [br EXCEPT ![o] = c]
      /\ queue' = IF c.granted = br[o].granted THEN queue
                  ELSE BearerFlowCtl(queue, c)
  BY <1>1
<1> HIDE DEF br
<1>6. /\ c \in BearerRec
      /\ c.mq_idx = br[o].mq_idx /\ c.ack_mq_idx = br[o].ack_mq_idx
  <2>1. br[o] \in BearerRec
    BY <1>3, <1>4 DEF Bearers
  <2> QED
    BY <1>2, <2>1, UpdateFcMapType, UpdateFcMapFields
<1> HIDE DEF c
<1>7. NoNewOver(br, queue, bearer', queue')
  <2>1. CASE c.granted = br[o].granted
    <3>1. \A p \in Objs : /\ bearer'[p].granted = br[p].granted
                          /\ bearer'[p].mq_idx = br[p].mq_idx
                          /\ bearer'[p].st = "listed" => br[p].st = "listed"
      BY <1>3, <1>4, <1>5, <1>6, <2>1 DEF Bearers
    <3> QED
      BY <1>5, <2>1, <3>1, NoneWoken
  <2>2. CASE c.granted # br[o].granted
    BY <1>2, <1>3, <1>4, <1>5, <1>6, <2>2, UpdateOver
  <2> QED
    BY <2>1, <2>2
<1> QED
  BY <1>4, <1>7 DEF NoNewOver, NoNewOverStep

LEMMA AllBearerOver ==
    ASSUME OverInv, NEW num \in AllBearerGrants, NEW bidir \in Bidirs,
           AllBearerFlowCtl(num, bidir)
    PROVE  NoNewOverStep
<1>1. TypeOK /\ bearer \in Bearers /\ num \in BOOLEAN
  BY AwakeTypes, ConstAssumption DEF OverInv
<1>2. SameShape(bearer, bearer')
  BY <1>1, AllBearerShape
<1>3. ASSUME NEW o \in Objs, Over(bearer', queue', o) PROVE FALSE
  <2>1. /\ o \in Listed /\ bearer[o].mq_idx \in Queues
        /\ ~bearer'[o].granted /\ queue'[bearer[o].mq_idx]
    BY <1>2, <1>3 DEF SameShape, Listed, Over
  <2>2. bearer[o] \in BearerRec
    BY <1>1 DEF TypeOK
  <2>3. bearer'[o] = [bearer[o] EXCEPT !.granted = num, !.tcp_bidir = bidir]
    BY <2>1 DEF AllBearerFlowCtl
  <2>4. ~num
    BY <2>1, <2>2, <2>3 DEF BearerRec
  <2>5. queue'[bearer[o].mq_idx] = num
    BY <2>1 DEF AllBearerFlowCtl
  <2> QED
    BY <2>1, <2>4, <2>5
<1> QED
  BY <1>3 DEF NoNewOver, NoNewOverStep

LEMMA TxLinkOver ==
    ASSUME OverInv, NEW id \in BearerIds, NEW on \in TxStatuses,
           TxLinkStatus(id, on)
    PROVE  NoNewOverStep
<1>1. PICK o \in Lookup(bearer, id) :
        LET off == [bearer[o] EXCEPT !.tx_off = ~on]
            halt == [off EXCEPT !.granted = FALSE, !.tcp_bidir = FALSE]
            stop == WatchdogRemove(halt)
            start == [off EXCEPT !.granted = TRUE]
        IN  \/ \E c \in {stop, start} : /\ bearer' = [bearer EXCEPT ![o] = c]
                                        /\ queue' = BearerFlowCtl(queue, c)
            \/ bearer' = [bearer EXCEPT ![o] = off] /\ queue' = queue
  BY DEF TxLinkStatus
<1> DEFINE off == [bearer[o] EXCEPT !.tx_off = ~on]
           halt == [off EXCEPT !.granted = FALSE, !.tcp_bidir = FALSE]
           start == [off EXCEPT !.granted = TRUE]
           Same(c) == /\ c \in BearerRec
                      /\ c.mq_idx = bearer[o].mq_idx
                      /\ c.ack_mq_idx = bearer[o].ack_mq_idx
<1>2. /\ o \in Objs /\ bearer[o].st = "listed"
  BY DEF Lookup
<1>3. /\ OwnOK(bearer, mq) /\ bearer \in Bearers
      /\ mq \in [Mqs -> Pointer] /\ queue \in QueueStates
      /\ bearer[o] \in BearerRec
  BY <1>2, AwakeTypes DEF OverInv, Bearers
<1>4. Same(off) /\ off.granted = bearer[o].granted
  BY <1>3 DEF BearerRec
<1>5. Same(halt) /\ Same(start)
  <2> HIDE DEF off
  <2> QED BY <1>4 DEF BearerRec
<1>6. Same(WatchdogRemove(halt))
  <2> HIDE DEF halt
  <2> QED BY <1>5, WatchdogFields, WatchdogType
<1>7. CASE \E c \in {WatchdogRemove(halt), start} :
              /\ bearer' = [bearer EXCEPT ![o] = c]
              /\ queue' = BearerFlowCtl(queue, c)
  <2>1. PICK c : /\ Same(c)
                 /\ bearer' = [bearer EXCEPT ![o] = c]
                 /\ queue' = BearerFlowCtl(queue, c)
    <3> HIDE DEF off, halt, start, Same
    <3> QED BY <1>5, <1>6, <1>7
  <2> QED
    BY <1>2, <1>3, <2>1, UpdateOver DEF NoNewOverStep
<1>8. CASE bearer' = [bearer EXCEPT ![o] = off] /\ queue' = queue
  <2> HIDE DEF off
  <2>1. \A p \in Objs : /\ bearer'[p].granted = bearer[p].granted
                        /\ bearer'[p].mq_idx = bearer[p].mq_idx
                        /\ bearer'[p].st = "listed" => bearer[p].st = "listed"
    BY <1>2, <1>3, <1>4, <1>8 DEF Bearers
  <2> QED
    BY <1>8, <2>1, NoneWoken DEF NoNewOverStep
<1> QED
  BY <1>1, <1>7, <1>8

LEMMA BurstOver ==
    ASSUME OverInv, NEW f \in Flows, BurstCheck(f)
    PROVE  NoNewOverStep
<1> DEFINE o == flow[f].bearer
           c == [bearer[o] EXCEPT !.granted = FALSE]
<1>1. /\ OwnOK(bearer, mq) /\ bearer \in Bearers /\ flow \in FlowList
      /\ mq \in [Mqs -> Pointer] /\ queue \in QueueStates
      /\ PointOK(flow, bearer)
  BY AwakeTypes DEF OverInv, RefInv
<1>2. o \in Objs /\ bearer[o].st = "listed"
  BY <1>1 DEF BurstCheck, FlowList, FlowRec, Pointer, PointOK
<1>3. bearer' = [bearer EXCEPT ![o] = c] /\ queue' = BearerFlowCtl(queue, c)
  BY DEF BurstCheck
<1> HIDE DEF o
<1>4. /\ c \in BearerRec
      /\ c.mq_idx = bearer[o].mq_idx /\ c.ack_mq_idx = bearer[o].ack_mq_idx
  <2>1. bearer[o] \in BearerRec
    BY <1>1, <1>2 DEF Bearers
  <2> QED
    BY <2>1 DEF BearerRec
<1> HIDE DEF c
<1> QED
  BY <1>1, <1>2, <1>3, <1>4, UpdateOver DEF NoNewOverStep

\* Power save gives a grant to every bearer but the ones whose TX is off.
LEMMA EnabledNotGranted ==
    ASSUME NEW b \in BearerRec, ~EnabledBearer(b).granted
    PROVE  b.tx_off /\ ~b.granted
<1> DEFINE b1 == [b EXCEPT !.tcp_bidir = FALSE, !.rat_switch = FALSE]
           reset == WatchdogRemove(b1)
<1>1. b1 \in BearerRec /\ b1.granted = b.granted
  BY DEF BearerRec
<1>2. reset \in BearerRec /\ reset.granted = b.granted
  <2> HIDE DEF b1
  <2> QED BY <1>1, WatchdogFields, WatchdogType
<1>3. EnabledBearer(b) = IF b.tx_off THEN reset ELSE [reset EXCEPT !.granted = TRUE]
  BY DEF EnabledBearer
<1> HIDE DEF reset
<1>4. [reset EXCEPT !.granted = TRUE].granted
  BY <1>2 DEF BearerRec
<1>5. CASE b.tx_off
  BY <1>2, <1>3, <1>5
<1>6. CASE ~b.tx_off
  BY <1>3, <1>4, <1>6
<1> QED
  BY <1>5, <1>6

LEMMA EnableAllOver ==
    ASSUME OverInv, EnableAllFlows
    PROVE  NoNewOverStep
<1>1. /\ TypeOK /\ OwnOK(bearer, mq) /\ bearer \in Bearers
      /\ mq \in [Mqs -> Pointer]
  BY AwakeTypes DEF OverInv
<1>2. SameShape(bearer, bearer')
  BY <1>1, EnableAllShape
<1>3. ASSUME NEW o \in Objs, Over(bearer', queue', o)
      PROVE  Over(bearer, queue, o)
  <2>1. /\ o \in Listed /\ bearer[o].st = "listed" /\ bearer[o].mq_idx \in Queues
        /\ ~bearer'[o].granted /\ queue'[bearer[o].mq_idx]
    BY <1>2, <1>3 DEF SameShape, Listed, Over
  <2>2. bearer[o] \in BearerRec /\ bearer'[o] = EnabledBearer(bearer[o])
    BY <1>1, <2>1 DEF TypeOK, EnableAllFlows
  <2>3. bearer[o].tx_off /\ ~bearer[o].granted
    BY <2>1, <2>2, EnabledNotGranted
  <2>4. bearer[o].mq_idx \in QueuesOf(bearer[o])
    BY <2>1 DEF QueuesOf
  <2>5. \A p \in Listed : p # o =>
           bearer[o].mq_idx \notin {bearer[p].mq_idx, bearer[p].ack_mq_idx}
    BY <1>1, <2>1, <2>4, DistinctQueues DEF Listed, QueuesOf
  <2>6. queue[bearer[o].mq_idx]
    BY <2>1, <2>3, <2>5 DEF EnableAllFlows
  <2> QED
    BY <2>1, <2>3, <2>6 DEF Over
<1> QED
  BY <1>3 DEF NoNewOver, NoNewOverStep

LEMMA VndOver ==
    ASSUME OverInv, NEW enable \in VndCommands, VndFlowControl(enable)
    PROVE  NoNewOverStep
<1>1. /\ OwnOK(bearer, mq) /\ bearer \in Bearers
      /\ mq \in [Mqs -> Pointer] /\ queue \in QueueStates
  BY AwakeTypes DEF OverInv
<1>2. bearer' = bearer /\ queue' = [queue EXCEPT ![DefaultMq] = enable]
  BY DEF VndFlowControl
<1>3. ASSUME NEW o \in Objs, Over(bearer, queue', o)
      PROVE  Over(bearer, queue, o)
  <2>1. /\ bearer[o].st = "listed" /\ bearer[o].mq_idx \in Queues
        /\ bearer[o].mq_idx \in QueuesOf(bearer[o])
    BY <1>3 DEF Over, QueuesOf
  <2>2. bearer[o].mq_idx # DefaultMq
    BY <1>1, <2>1, DistinctQueues
  <2> QED
    BY <1>1, <1>2, <1>3, <2>1, <2>2 DEF QueueStates, Over
<1> QED
  BY <1>2, <1>3 DEF NoNewOver, NoNewOverStep

\* What a step may do: a bearer gets over its grant only by a stale watchdog.
LEMMA OverStep ==
    ASSUME ~nomem', OverInv, [Next]_vars
    PROVE  \A o \in Objs : OverGrant(o)' /\ ~OverGrant(o) => StaleWatchdog(o)
<1>0. /\ OverInv' /\ StructInv /\ TypeOK /\ bearer \in Bearers
  BY NextOver, AwakeTypes DEF OverInv
<1> DEFINE Goal == \A o \in Objs : OverGrant(o)' /\ ~OverGrant(o) => StaleWatchdog(o)
<1> SUFFICES Goal
  OBVIOUS
<1>1. ASSUME NoNewOverStep PROVE Goal
  BY <1>1 DEF NoNewOverStep, NoNewOver, Over, OverGrant
<1> HIDE DEF Goal
<1>2. ASSUME NEW r \in Activations, CreateFlow(r) PROVE Goal
  BY <1>1, <1>2, CreateFlowOver
<1>3. ASSUME NEW r \in Activations, RebindFlow(r) PROVE Goal
  BY <1>1, <1>3, RebindFlowOver
<1>4. ASSUME NEW f \in Flows, Deactivate(f) PROVE Goal
  BY <1>0, <1>1, <1>4, DelSectionOver DEF Deactivate
<1>5. CASE DelForAgain
  <2>1. rt.req \in Activations
    BY <1>0, <1>5 DEF DelForAgain, TypeOK, RtRec
  <2> QED
    BY <1>0, <1>1, <1>5, <2>1, ActivationParts, DelSectionOver DEF DelForAgain
<1>6. CASE BearerCleanQuit \/ BearerCleanFree
  <2>1. removed \in Objs /\ queue' = queue
    BY <1>0, <1>6
       DEF BearerCleanQuit, BearerCleanFree, StructInv, RtOK, TypeOK, Pointer
  <2>2. bearer[removed].st = "removed"
    BY <1>0, <2>1 DEF StructInv, RemovedOK
  <2>3. \A p \in Objs : p # removed => bearer'[p] = bearer[p]
    BY <1>0, <1>6, <2>1 DEF BearerCleanQuit, BearerCleanFree, Bearers
  <2>4. bearer'[removed].st # "listed"
    <3>1. CASE BearerCleanQuit
      BY <1>0, <2>1, <2>2, <3>1, CleanQuitShape DEF SameShape
    <3>2. CASE BearerCleanFree
      BY <1>0, <2>1, <3>2 DEF BearerCleanFree, Bearers, Zeroed
    <3> QED
      BY <1>6, <3>1, <3>2
  <2>5. NoNewOverStep
    BY <2>1, <2>3, <2>4, NoneWoken DEF NoNewOverStep
  <2> QED
    BY <1>1, <2>5
<1>7. ASSUME NEW o \in Objs, WatchdogExpire(o) PROVE Goal
  <2> DEFINE c == [bearer[o] EXCEPT !.wd_armed = FALSE, !.wd_running = TRUE]
  <2>1. bearer[o] \in BearerRec
    BY <1>0 DEF Bearers
  <2>2. /\ c.st = bearer[o].st /\ c.granted = bearer[o].granted
        /\ c.mq_idx = bearer[o].mq_idx
    BY <2>1 DEF BearerRec
  <2>3. bearer' = [bearer EXCEPT ![o] = c] /\ queue' = queue
    BY <1>7 DEF WatchdogExpire
  <2> HIDE DEF c
  <2>4. bearer'[o] = c /\ \A p \in Objs : p # o => bearer'[p] = bearer[p]
    BY <1>0, <2>3 DEF Bearers
  <2>5. NoNewOverStep
    BY <2>2, <2>3, <2>4, NoneWoken DEF NoNewOverStep
  <2> QED
    BY <1>1, <2>5
<1>8. ASSUME NEW o \in Objs, WatchdogFn(o) PROVE Goal
  BY <1>8, WatchdogFnOver DEF Goal
<1>9. ASSUME NEW id \in BearerIds, NEW num \in BOOLEAN, NEW rat \in BOOLEAN,
             NEW bidir \in Bidirs, FlowStatus(id, num, rat, bidir)
      PROVE  Goal
  BY <1>1, <1>9, FlowStatusOver
<1>10. ASSUME NEW num \in AllBearerGrants, NEW bidir \in Bidirs,
              AllBearerFlowCtl(num, bidir)
       PROVE  Goal
  BY <1>1, <1>10, AllBearerOver
<1>11. ASSUME NEW id \in BearerIds, NEW on \in TxStatuses, TxLinkStatus(id, on)
       PROVE  Goal
  BY <1>1, <1>11, TxLinkOver
<1>12. ASSUME NEW f \in Flows, BurstCheck(f) PROVE Goal
  BY <1>1, <1>12, BurstOver
<1>13. CASE EnableAllFlows
  BY <1>1, <1>13, EnableAllOver
<1>14. ASSUME NEW enable \in VndCommands, VndFlowControl(enable) PROVE Goal
  BY <1>1, <1>14, VndOver
<1>15. CASE UNCHANGED <<bearer, queue>>
  BY <1>1, <1>15 DEF NoNewOver, NoNewOverStep
<1>16. ASSUME NEW r \in Activations, CreateFlowFails(r) \/ KeepFlow(r)
       PROVE  UNCHANGED <<bearer, queue>>
  BY <1>16 DEF CreateFlowFails, KeepFlow
<1> QED
  BY <1>2, <1>3, <1>4, <1>5, <1>6, <1>7, <1>8, <1>9, <1>10, <1>11, <1>12,
     <1>13, <1>14, <1>15, <1>16 DEF Next, Netlink, Watchdog, Modem, vars

\* A bearer without grant gets its data queue awake in one way only: by the
\* watchdog of a bearer that a rebind just removed and that still remembers the
\* queue its successor owns.  Neither waking all queues with the last flow, nor
\* power save, nor the commands for queue 0, nor any other bearer does it, until
\* a rebind runs out of memory.
THEOREM OnlyStaleSafe == Spec => OnlyStaleWatchdogOverGrants
<1>1. OverHist /\ [Next]_vars => OverHist'
  BY NomemStays, NextOver DEF OverHist
<1>2. OverHist /\ [Next]_vars =>
        [~nomem' => \A o \in Objs : OverGrant(o)' /\ ~OverGrant(o) =>
          \E p \in Objs : /\ bearer[p].st = "removed" /\ bearer[p].wd_running
                          /\ bearer[p].mq_idx = bearer[o].mq_idx
                          /\ ~bearer'[p].wd_running]_vars
  BY NomemStays, OverStep DEF OverHist, StaleWatchdog
<1>3. Init => OverHist
  BY InitOver DEF OverHist
<1> QED
  BY <1>1, <1>2, <1>3, PTL DEF Spec, OnlyStaleWatchdogOverGrants

-----------------------------------------------------------------------------
(* Without QMAP no indication leaves a bearer under watch, no watchdog ever *)
(* runs, and the exception is gone.                                         *)

Unwatched(b) == ~b.wd_armed /\ ~b.wd_running

LEMMA RemoveUnwatched ==
    ASSUME NEW b \in BearerRec, Unwatched(b)
    PROVE  Unwatched(WatchdogRemove(b))
<1>1. CASE b.wd_started
  BY <1>1 DEF WatchdogRemove, BearerRec, Unwatched
<1>2. CASE ~b.wd_started
  BY <1>2 DEF WatchdogRemove, BearerRec, Unwatched
<1> QED
  BY <1>1, <1>2

LEMMA UpdateUnwatched ==
    ASSUME ~DfcQmap, NEW b \in BearerRec, Unwatched(b), NEW num \in BOOLEAN,
           NEW rat \in BOOLEAN, NEW bidir \in BOOLEAN, NEW adj \in Adjusted(num)
    PROVE  Unwatched(UpdateFcMap(b, num, rat, bidir, adj))
<1> DEFINE b1 == IF rat THEN [b EXCEPT !.rat_switch = ~num] ELSE b
           b2 == [b1 EXCEPT !.granted = adj[1], !.tcp_bidir = bidir]
<1>1. b1 \in BearerRec /\ b1.wd_armed = b.wd_armed /\ b1.wd_running = b.wd_running
  BY ZenonT(40) DEF BearerRec
<1>2. b2 \in BearerRec /\ b2.wd_armed = b1.wd_armed /\ b2.wd_running = b1.wd_running
  <2> HIDE DEF b1
  <2> QED BY <1>1, AdjustedType DEF BearerRec
<1>3. ~adj[2]
  <2>1. Adjusted(num) = {<<num, FALSE>>}
    BY DEF Adjusted
  <2>2. adj = <<num, FALSE>>
    BY <2>1
  <2>3. adj[2] = FALSE
    BY <2>2
  <2> QED
    BY <2>3
<1>4. UpdateFcMap(b, num, rat, bidir, adj) \in {b1, WatchdogRemove(b2)}
  BY <1>3 DEF UpdateFcMap
<1> HIDE DEF b1, b2
<1>5. Unwatched(b1) /\ Unwatched(b2)
  BY <1>1, <1>2 DEF Unwatched
<1> QED
  BY <1>2, <1>4, <1>5, RemoveUnwatched

LEMMA EnabledUnwatched ==
    ASSUME NEW b \in BearerRec, Unwatched(b)
    PROVE  Unwatched(EnabledBearer(b))
<1> DEFINE b1 == [b EXCEPT !.tcp_bidir = FALSE, !.rat_switch = FALSE]
           b2 == WatchdogRemove(b1)
           b3 == [b2 EXCEPT !.granted = TRUE]
<1>1. b1 \in BearerRec /\ Unwatched(b1)
  BY DEF BearerRec, Unwatched
<1>2. b2 \in BearerRec /\ Unwatched(b2)
  <2> HIDE DEF b1
  <2> QED BY <1>1, WatchdogType, RemoveUnwatched
<1>3. Unwatched(b3)
  <2> HIDE DEF b2
  <2> QED BY <1>2 DEF BearerRec, Unwatched
<1>4. EnabledBearer(b) \in {b2, b3}
  BY DEF EnabledBearer
<1> HIDE DEF b2, b3
<1> QED
  BY <1>2, <1>3, <1>4

LEMMA GetBindUnwatched ==
    ASSUME NEW br \in Bearers, NEW id \in BearerIds, NEW o \in Objs, NEW ms,
           NEW i \in Mqs, NoWatch(br)
    PROVE  NoWatch(BindBearer(BearerGet(br, id, o), ms, i, o))
<1> DEFINE get == BearerGet(br, id, o)
           nb == BindBearer(get, ms, i, o)
<1>1. get \in Bearers /\ \A p \in Objs : p # o => get[p] = br[p]
  BY GetFields, BearerGetType DEF Bearers
<1>2. Unwatched(get[o])
  <2>1. CASE br[o].st = "listed"
    BY <2>1 DEF BearerGet, Bearers, BearerRec, NoWatch, Unwatched
  <2>2. CASE br[o].st # "listed"
    BY <2>2 DEF BearerGet, Bearers, Zeroed, Unwatched
  <2> QED
    BY <2>1, <2>2
<1> HIDE DEF get
<1>3. /\ \A p \in Objs : p # o => nb[p] = get[p]
      /\ nb[o].wd_armed = get[o].wd_armed
      /\ nb[o].wd_running = get[o].wd_running
  BY <1>1, BindFields
<1> HIDE DEF nb
<1>4. NoWatch(nb)
  BY <1>1, <1>2, <1>3 DEF NoWatch, Unwatched
<1> QED
  BY <1>4 DEF nb, get

LEMMA PutUnwatched ==
    ASSUME NEW br \in Bearers, NEW o \in Pointer, NoWatch(br)
    PROVE  NoWatch(PutBearer(br, o))
<1>1. CASE o = NULL
  BY <1>1 DEF PutBearer
<1>2. CASE o \in Objs
  <2> DEFINE nb == PutBearer(br, o)
  <2>1. \A p \in Objs : /\ nb[p].wd_armed = br[p].wd_armed
                        /\ nb[p].wd_running = br[p].wd_running
    BY <1>2, PutFields
  <2> HIDE DEF nb
  <2>2. NoWatch(nb)
    BY <2>1 DEF NoWatch
  <2> QED
    BY <2>2 DEF nb
<1> QED
  BY <1>1, <1>2 DEF Pointer

LEMMA OneUnwatched ==
    ASSUME NEW br \in Bearers, NEW o \in Objs, NEW c, Unwatched(c), NoWatch(br)
    PROVE  NoWatch([br EXCEPT ![o] = c])
BY DEF NoWatch, Unwatched, Bearers

LEMMA DelSectionUnwatched ==
    ASSUME TypeOK, NoWatch(bearer), NEW f \in Flows, DelSection(f)
    PROVE  NoWatch(bearer')
<1>1. CASE flow[f] = NULL
  BY <1>1 DEF DelSection
<1>2. CASE flow[f] # NULL
  <2>1. flow[f].bearer \in Pointer /\ bearer \in Bearers
    BY <1>2 DEF TypeOK, FlowRec, Bearers
  <2>2. bearer' = PutBearer(bearer, flow[f].bearer)
    BY <1>2 DEF DelSection
  <2> QED
    BY <2>1, <2>2, PutUnwatched
<1> QED
  BY <1>1, <1>2

LEMMA FlowStatusUnwatched ==
    ASSUME ~DfcQmap, TypeOK, NoWatch(bearer), NEW id \in BearerIds,
           NEW num \in BOOLEAN, NEW rat \in BOOLEAN, NEW bidir \in Bidirs,
           FlowStatus(id, num, rat, bidir)
    PROVE  NoWatch(bearer')
<1>1. PICK o \in GetChoices(bearer, id), adj \in Adjusted(num) :
        LET br == IF bearer[o].st = "listed" THEN bearer
                  ELSE NoRef(bearer, id, o)
        IN  bearer' = [br EXCEPT ![o] = UpdateFcMap(br[o], num, rat, bidir, adj)]
  BY DEF FlowStatus, NoRef
<1> DEFINE br == IF bearer[o].st = "listed" THEN bearer
                 ELSE NoRef(bearer, id, o)
<1>2. /\ o \in Objs /\ bearer[o].st \in {"free", "listed"}
      /\ bearer \in Bearers /\ bidir \in BOOLEAN
  BY ConstAssumption DEF GetChoices, Lookup, TypeOK, Bearers
<1>3. br \in Bearers /\ NoWatch(br)
  <2>1. CASE bearer[o].st = "listed"
    BY <1>2, <2>1
  <2>2. CASE bearer[o].st = "free"
    <3> DEFINE get == BearerGet(bearer, id, o)
    <3>1. get \in Bearers /\ \A p \in Objs : p # o => get[p] = bearer[p]
      BY <1>2, GetFields, BearerGetType DEF Bearers
    <3>2. Unwatched(get[o])
      BY <1>2, <2>2 DEF BearerGet, Bearers, Zeroed, Unwatched
    <3> HIDE DEF get
    <3>3. br \in Bearers /\ br = [get EXCEPT ![o].flow_ref = 0]
      BY <1>2, <2>2, NoRefFields DEF NoRef, get
    <3>4. /\ br[o].wd_armed = get[o].wd_armed /\ br[o].wd_running = get[o].wd_running
          /\ \A p \in Objs : p # o => br[p] = get[p]
      BY <1>2, <3>1, <3>3 DEF Bearers, BearerRec
    <3> HIDE DEF br
    <3> QED
      BY <3>1, <3>2, <3>3, <3>4 DEF NoWatch, Unwatched
  <2> QED
    BY <1>2, <2>1, <2>2
<1> DEFINE c == UpdateFcMap(br[o], num, rat, bidir, adj)
<1>4. bearer' = [br EXCEPT ![o] = c]
  BY <1>1
<1> HIDE DEF br
<1>5. Unwatched(c)
  <2>1. br[o] \in BearerRec /\ Unwatched(br[o])
    BY <1>2, <1>3 DEF Bearers, NoWatch, Unwatched
  <2> QED
    BY <1>2, <2>1, UpdateUnwatched
<1> HIDE DEF c
<1> QED
  BY <1>2, <1>3, <1>4, <1>5, OneUnwatched

LEMMA TxLinkUnwatched ==
    ASSUME TypeOK, NoWatch(bearer), NEW id \in BearerIds, NEW on \in TxStatuses,
           TxLinkStatus(id, on)
    PROVE  NoWatch(bearer')
<1>1. PICK o \in Lookup(bearer, id) :
        LET off == [bearer[o] EXCEPT !.tx_off = ~on]
            halt == [off EXCEPT !.granted = FALSE, !.tcp_bidir = FALSE]
            stop == WatchdogRemove(halt)
            start == [off EXCEPT !.granted = TRUE]
        IN  \E c \in {stop, start, off} : bearer' = [bearer EXCEPT ![o] = c]
  BY DEF TxLinkStatus
<1> DEFINE off == [bearer[o] EXCEPT !.tx_off = ~on]
           halt == [off EXCEPT !.granted = FALSE, !.tcp_bidir = FALSE]
           start == [off EXCEPT !.granted = TRUE]
<1>2. o \in Objs /\ bearer \in Bearers /\ bearer[o] \in BearerRec
  BY DEF Lookup, TypeOK, Bearers
<1>3. off \in BearerRec /\ Unwatched(off)
  BY <1>2 DEF BearerRec, NoWatch, Unwatched
<1>4. halt \in BearerRec /\ Unwatched(halt) /\ Unwatched(start)
  <2> HIDE DEF off
  <2> QED BY <1>3 DEF BearerRec, Unwatched
<1>5. Unwatched(WatchdogRemove(halt))
  <2> HIDE DEF halt
  <2> QED BY <1>4, RemoveUnwatched
<1>6. PICK c : Unwatched(c) /\ bearer' = [bearer EXCEPT ![o] = c]
  <2>1. \E c \in {WatchdogRemove(halt), start, off} :
           bearer' = [bearer EXCEPT ![o] = c]
    BY <1>1
  <2> HIDE DEF off, halt, start
  <2> QED BY <1>3, <1>4, <1>5, <2>1
<1> QED
  BY <1>2, <1>6, OneUnwatched

LEMMA NextUnwatched ==
    ASSUME ~DfcQmap, ~nomem', StructInv, NoWatch(bearer), [Next]_vars
    PROVE  NoWatch(bearer')
<1>0. TypeOK /\ bearer \in Bearers
  BY DEF StructInv, TypeOK, Bearers
<1>1. ASSUME NEW r \in Activations, CreateFlow(r) PROVE NoWatch(bearer')
  <2>1. PICK o \in GetChoices(bearer, r[2]) :
          bearer' = BindBearer(BearerGet(bearer, r[2], o), mq, r[3], o)
    BY <1>1 DEF CreateFlow
  <2> QED
    BY <1>0, <2>1, ActivationParts, GetChoicesType, GetBindUnwatched
<1>2. ASSUME NEW r \in Activations, RebindFlow(r) PROVE NoWatch(bearer')
  <2> DEFINE old == flow[r[1]].bearer
             put == PutBearer(bearer, old)
             ms == PutMq(mq, bearer, old)
  <2>1. old \in Pointer /\ r[2] \in BearerIds /\ r[3] \in Mqs
    BY <1>0, <1>2, ActivationParts DEF RebindFlow, TypeOK, FlowRec
  <2>2. PICK o \in GetChoices(put, r[2]) :
           bearer' = BindBearer(BearerGet(put, r[2], o), ms, r[3], o)
    BY <1>2 DEF RebindFlow
  <2> HIDE DEF old
  <2>3. put \in Bearers /\ NoWatch(put)
    BY <1>0, <2>1, PutType, PutUnwatched DEF TypeOK, Bearers
  <2> HIDE DEF put, ms
  <2> QED
    BY <2>1, <2>2, <2>3, GetChoicesType, GetBindUnwatched
<1>3. ASSUME NEW f \in Flows, Deactivate(f) PROVE NoWatch(bearer')
  BY <1>0, <1>3, DelSectionUnwatched DEF Deactivate
<1>4. CASE DelForAgain
  <2>1. rt.req \in Activations
    BY <1>0, <1>4 DEF DelForAgain, TypeOK, RtRec
  <2> QED
    BY <1>0, <1>4, <2>1, ActivationParts, DelSectionUnwatched DEF DelForAgain
<1>5. CASE BearerCleanQuit
  <2>1. removed \in Objs
    BY <1>0, <1>5 DEF BearerCleanQuit, StructInv, RtOK, TypeOK, Pointer
  <2> DEFINE c == [bearer[removed] EXCEPT !.wd_quit = TRUE]
  <2>2. Unwatched(c)
    BY <1>0, <2>1 DEF Bearers, BearerRec, NoWatch, Unwatched
  <2>3. bearer' = [bearer EXCEPT ![removed] = c]
    BY <1>5 DEF BearerCleanQuit
  <2> HIDE DEF c
  <2> QED
    BY <1>0, <2>1, <2>2, <2>3, OneUnwatched
<1>6. CASE BearerCleanFree
  <2>1. removed \in Objs
    BY <1>0, <1>6 DEF BearerCleanFree, StructInv, RtOK, TypeOK, Pointer
  <2>2. Unwatched(Zeroed) /\ bearer' = [bearer EXCEPT ![removed] = Zeroed]
    BY <1>6 DEF BearerCleanFree, Unwatched, Zeroed
  <2> QED
    BY <1>0, <2>1, <2>2, OneUnwatched
<1>7. ASSUME NEW o \in Objs, WatchdogExpire(o) \/ WatchdogFn(o)
      PROVE  FALSE
  BY <1>7 DEF WatchdogExpire, WatchdogFn, NoWatch
<1>8. ASSUME NEW id \in BearerIds, NEW num \in BOOLEAN, NEW rat \in BOOLEAN,
             NEW bidir \in Bidirs, FlowStatus(id, num, rat, bidir)
      PROVE  NoWatch(bearer')
  BY <1>0, <1>8, FlowStatusUnwatched
<1>9. ASSUME NEW num \in AllBearerGrants, NEW bidir \in Bidirs,
              AllBearerFlowCtl(num, bidir)
       PROVE  NoWatch(bearer')
  <2>1. \A o \in Objs : bearer'[o] \in
           {bearer[o], [bearer[o] EXCEPT !.granted = num, !.tcp_bidir = bidir]}
    BY <1>9 DEF AllBearerFlowCtl
  <2>2. \A o \in Objs :
           Unwatched([bearer[o] EXCEPT !.granted = num, !.tcp_bidir = bidir])
    BY <1>0 DEF Bearers, BearerRec, NoWatch, Unwatched
  <2> QED
    BY <2>1, <2>2 DEF NoWatch, Unwatched
<1>10. ASSUME NEW id \in BearerIds, NEW on \in TxStatuses, TxLinkStatus(id, on)
       PROVE  NoWatch(bearer')
  BY <1>0, <1>10, TxLinkUnwatched
<1>11. ASSUME NEW f \in Flows, BurstCheck(f) PROVE NoWatch(bearer')
  <2> DEFINE o == flow[f].bearer
             c == [bearer[o] EXCEPT !.granted = FALSE]
  <2>1. o \in Objs
    BY <1>0, <1>11 DEF BurstCheck, TypeOK, FlowRec, Pointer
  <2>2. bearer' = [bearer EXCEPT ![o] = c]
    BY <1>11 DEF BurstCheck
  <2> HIDE DEF o
  <2>3. Unwatched(c)
    BY <1>0, <2>1 DEF Bearers, BearerRec, NoWatch, Unwatched
  <2> HIDE DEF c
  <2> QED
    BY <1>0, <2>1, <2>2, <2>3, OneUnwatched
<1>12. CASE EnableAllFlows
  <2>1. \A o \in Objs : bearer'[o] \in {bearer[o], EnabledBearer(bearer[o])}
    BY <1>12 DEF EnableAllFlows
  <2>2. \A o \in Objs : Unwatched(bearer[o]) /\ bearer[o] \in BearerRec
    BY <1>0 DEF Bearers, NoWatch, Unwatched
  <2>3. \A o \in Objs : Unwatched(EnabledBearer(bearer[o]))
    BY <2>2, EnabledUnwatched
  <2>4. \A o \in Objs : Unwatched(bearer'[o])
    BY <2>1, <2>2, <2>3
  <2> QED
    BY <2>4 DEF NoWatch, Unwatched
<1>13. CASE UNCHANGED bearer
  BY <1>13
<1>14. ASSUME NEW enable \in VndCommands, VndFlowControl(enable)
       PROVE  UNCHANGED bearer
  BY <1>14 DEF VndFlowControl
<1>15. ASSUME NEW r \in Activations, CreateFlowFails(r) \/ KeepFlow(r)
       PROVE  UNCHANGED bearer
  BY <1>15 DEF CreateFlowFails, KeepFlow
<1> QED
  BY <1>1, <1>2, <1>3, <1>4, <1>5, <1>6, <1>7, <1>8, <1>9, <1>10, <1>11,
     <1>12, <1>13, <1>14, <1>15 DEF Next, Netlink, Watchdog, Modem, vars

\* Without QMAP a bearer that has no grant never finds its data queue awake: no
\* order of indications, packets, power save, flow requests and MAP commands lets
\* a device send beyond the grant of its bearer, until a rebind runs out of
\* memory.
THEOREM StoppedSafe ==
    ASSUME ~DfcQmap
    PROVE  Spec => []StoppedIfNotGranted
<1>1. Init => StopHist
  <2> SUFFICES ASSUME Init PROVE StopInv
    BY DEF StopHist
  <2>1. NoWatch(bearer) /\ \A o \in Objs : ~OverGrant(o)
    BY DEF Init, NoWatch, OverGrant, Zeroed
  <2> QED
    BY <2>1, InitOver DEF StopInv
<1>2. StopHist /\ [Next]_vars => StopHist'
  <2> SUFFICES ASSUME StopInv, [Next]_vars, ~nomem' PROVE StopInv'
    BY NomemStays DEF StopHist
  <2>1. OverInv /\ OverInv' /\ NoWatch(bearer) /\ StructInv
    BY NextOver DEF StopInv, OverInv, RefInv
  <2>2. NoWatch(bearer')
    BY <2>1, NextUnwatched
  <2>3. \A o \in Objs : ~StaleWatchdog(o)
    BY <2>1 DEF StaleWatchdog, NoWatch
  <2>4. \A o \in Objs : ~OverGrant(o)'
    BY <2>1, <2>3, OverStep DEF StopInv
  <2> QED
    BY <2>1, <2>2, <2>4 DEF StopInv, NoWatch
<1>3. StopHist => StoppedIfNotGranted
  BY DEF StopHist, StopInv, StoppedIfNotGranted
<1> QED
  BY <1>1, <1>2, <1>3, PTL DEF Spec

=============================================================================
