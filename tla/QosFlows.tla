------------------------------ MODULE QosFlows ------------------------------
(***************************************************************************)
(* The QoS bookkeeping of one rmnet device (struct qos_info, qmi_rmnet.c   *)
(* and dfc_qmi.c): which flows are bound to which bearer, which bearer     *)
(* owns which transmit queue, which queues are stopped, and the lifetime   *)
(* of a bearer object and of the watchdog timer embedded in it.            *)
(*                                                                         *)
(* Everything done under qos_lock is one step.  The netlink thread that    *)
(* adds and deletes flows holds the rtnl lock over several such sections   *)
(* and is a small program of its own (variable rt); timers, indications,   *)
(* transmitted packets and power save interleave between its sections.     *)
(*                                                                         *)
(* Data abstraction: grant_size is only told apart from zero (granted);    *)
(* byte counts, thresholds, sequence numbers and acks are the subject of   *)
(* module DfcGrant.                                                        *)
(***************************************************************************)
EXTENDS Integers, FiniteSets

CONSTANTS
    Flows,          \* flow keys: pairs (flow_id, ip_type)
    BearerIds,      \* bearer_id values
    Objs,           \* addresses of struct rmnet_bearer_map
    NULL,           \* the null pointer
    MaxMq,          \* MAX_MQ_NUM
    InvalidMq,      \* INVALID_MQ
    DfcQmap,        \* dfc_qmap: flow control runs over QMAP
    Activations,    \* the <<flow, bearer, mq>> requests user space sends
    AllBearerGrants,\* num_bytes # 0 of the all-bearers (0xFF) indications
    Bidirs,         \* the TCP_BIDIR flags the modem sends
    TxStatuses,     \* the tx_status values the modem sends
    VndCommands,    \* enable of the MAP flow commands
    RebindMayFail   \* kzalloc may fail in __qmi_rmnet_rebind_flow

AckMqOffset == MaxMq - 1
DefaultMq == 0
Mqs == 0 .. (MaxMq - 1)
Queues == 0 .. (MaxMq + AckMqOffset - 1)
MqIdx == 0 .. InvalidMq

ASSUME ConstAssumption ==
    /\ MaxMq \in Nat /\ MaxMq >= 2
    /\ InvalidMq \in Nat /\ InvalidMq >= MaxMq + AckMqOffset
    /\ IsFiniteSet(Flows)
    /\ NULL \notin Objs
    /\ DfcQmap \in BOOLEAN
    /\ RebindMayFail \in BOOLEAN
    /\ Activations \subseteq Flows \X BearerIds \X Mqs
    /\ AllBearerGrants \subseteq BOOLEAN
    /\ Bidirs \subseteq BOOLEAN
    /\ TxStatuses \subseteq BOOLEAN
    /\ VndCommands \subseteq BOOLEAN

VARIABLES
    flow,    \* qos->flow_head, by key
    bearer,  \* every bearer object; st tells where it is
    mq,      \* qos->mq[i].bearer
    queue,   \* transmit queue i is awake
    removed, \* qos->removed_bearer
    rt,      \* the thread holding rtnl: program counter and saved request
    nomem    \* history: a rebind ran out of memory and left its flow behind

vars == <<flow, bearer, mq, queue, removed, rt, nomem>>

Pointer == Objs \cup {NULL}

\* NULL in place of a flow record: no such flow on the list.
FlowRec == [bearer_id : BearerIds, mq_idx : Mqs, bearer : Pointer]

ASSUME NullAssumption == NULL \notin FlowRec

BearerRec ==
    [st : {"free", "listed", "removed"},
     bearer_id : BearerIds \cup {NULL}, flow_ref : Int, granted : BOOLEAN,
     tcp_bidir : BOOLEAN, rat_switch : BOOLEAN, tx_off : BOOLEAN,
     mq_idx : MqIdx, ack_mq_idx : MqIdx,
     wd_started : BOOLEAN, wd_quit : BOOLEAN,
     wd_armed : BOOLEAN,    \* timer pending
     wd_running : BOOLEAN]  \* watchdog_fn entered, waiting for qos_lock

\* Where the netlink thread is: "add" is about to take qos_lock again in
\* qmi_rmnet_add_flow, "del" in the del_flow it calls, "clean" is about to run
\* qmi_rmnet_bearer_clean and "sync" is in its del_timer_sync.
RtRec == [pc : {"idle"}, req : {NULL}]
         \cup [pc : {"add", "del"}, req : Activations]
         \cup [pc : {"clean", "sync"}, req : Activations \cup {NULL}]
Idle == [pc |-> "idle", req |-> NULL]

\* kzalloc; a freed object is kept in this form too.
Zeroed ==
    [st |-> "free", bearer_id |-> NULL, flow_ref |-> 0, granted |-> FALSE,
     tcp_bidir |-> FALSE, rat_switch |-> FALSE, tx_off |-> FALSE,
     mq_idx |-> InvalidMq, ack_mq_idx |-> InvalidMq,
     wd_started |-> FALSE, wd_quit |-> FALSE,
     wd_armed |-> FALSE, wd_running |-> FALSE]

TypeOK ==
    /\ flow \in [Flows -> FlowRec \cup {NULL}]
    /\ bearer \in [Objs -> BearerRec]
    /\ mq \in [Mqs -> Pointer]
    /\ queue \in [Queues -> BOOLEAN]
    /\ removed \in Pointer
    /\ rt \in RtRec
    /\ nomem \in BOOLEAN

Init ==
    /\ flow = [f \in Flows |-> NULL]
    /\ bearer = [o \in Objs |-> Zeroed]
    /\ mq = [i \in Mqs |-> NULL]
    /\ queue = [q \in Queues |-> TRUE]
    /\ removed = NULL
    /\ rt = Idle
    /\ nomem = FALSE

Listed == {o \in Objs : bearer[o].st = "listed"}

-----------------------------------------------------------------------------
(* Helpers, each the effect of one C function on the piece of state it      *)
(* changes.                                                                 *)

\* qmi_rmnet_flow_control: an index beyond the device's queues is ignored.
FlowControl(qs, i, enable) ==
    IF i \in Queues THEN [qs EXCEPT ![i] = enable] ELSE qs

\* dfc_bearer_flow_ctl: the tcp ack queue is not stopped in tcp bidir.
BearerFlowCtl(qs, b) ==
    LET data == FlowControl(qs, b.mq_idx, b.granted)
    IN  IF b.ack_mq_idx # InvalidMq /\ (b.granted \/ ~b.tcp_bidir)
        THEN FlowControl(data, b.ack_mq_idx, b.granted)
        ELSE data

\* Mutant: mod_timer forgotten
WatchdogAddNoTimer(b) == [b EXCEPT !.wd_quit = FALSE, !.wd_started = TRUE]

\* qmi_rmnet_watchdog_add
WatchdogAdd(b) ==
    IF b.wd_started
    THEN [b EXCEPT !.wd_quit = FALSE]
    ELSE [b EXCEPT !.wd_quit = FALSE, !.wd_started = TRUE, !.wd_armed = TRUE]

\* qmi_rmnet_watchdog_remove
\* del_timer does not wait for a watchdog_fn that already started.
WatchdogRemove(b) ==
    IF b.wd_started
    THEN [b EXCEPT !.wd_quit = TRUE, !.wd_started = FALSE, !.wd_armed = FALSE]
    ELSE [b EXCEPT !.wd_quit = TRUE]

\* qmi_rmnet_get_bearer_map
Lookup(br, id) == {o \in Objs : br[o].st = "listed" /\ br[o].bearer_id = id}

\* Mutant: a bearer is allocated without looking for it on the list
GetChoicesNoLookup(br, id) == {o \in Objs : br[o].st = "free"}

\* __qmi_rmnet_bearer_get returns the listed bearer or a new object.
GetChoices(br, id) ==
    IF Lookup(br, id) # {} THEN Lookup(br, id)
                           ELSE {o \in Objs : br[o].st = "free"}

\* Mutant: a reference to a listed bearer is not counted
BearerGetNoCount(br, id, o) ==
    IF br[o].st = "listed" THEN br
    ELSE [br EXCEPT ![o] = [Zeroed EXCEPT !.st = "listed", !.bearer_id = id,
                                !.flow_ref = 1, !.granted = TRUE]]

BearerGet(br, id, o) ==
    IF br[o].st = "listed"
    THEN [br EXCEPT ![o].flow_ref = @ + 1]
    ELSE [br EXCEPT ![o] = [Zeroed EXCEPT !.st = "listed", !.bearer_id = id,
                                !.flow_ref = 1, !.granted = TRUE]]

\* __qmi_rmnet_bearer_put, the last reference
LastRef(br, o) == o # NULL /\ br[o].flow_ref = 1

PutBearer(br, o) ==
    IF o = NULL THEN br
    ELSE [br EXCEPT ![o] =
             [br[o] EXCEPT !.flow_ref = br[o].flow_ref - 1,
                 !.st = IF LastRef(br, o) THEN "removed" ELSE br[o].st]]

\* Mutant: qos->mq[] keeps the pointer to the removed bearer
PutMqKeeps(ms, br, o) == ms

PutMq(ms, br, o) ==
    IF LastRef(br, o) THEN [i \in Mqs |-> IF ms[i] = o THEN NULL ELSE ms[i]]
                      ELSE ms

PutQueue(qs, ms, br, o) ==
    IF LastRef(br, o)
    THEN [q \in Queues |-> qs[q] \/ \E i \in Mqs :
                              ms[i] = o /\ q \in {i, i + AckMqOffset}]
    ELSE qs

PutRemoved(br, o) == IF LastRef(br, o) THEN o ELSE removed

\* __qmi_rmnet_update_mq: only a queue without a bearer is bound.
Binds(ms, i) == i # DefaultMq /\ ms[i] = NULL

BindMq(ms, i, o) == IF Binds(ms, i) THEN [ms EXCEPT ![i] = o] ELSE ms

\* Mutant: the ack queue's index is made with the wrong offset
BindBearerOffset(br, ms, i, o) ==
    IF Binds(ms, i)
    THEN [br EXCEPT ![o].mq_idx = i, ![o].ack_mq_idx = i + InvalidMq]
    ELSE br

BindBearer(br, ms, i, o) ==
    IF Binds(ms, i)
    THEN [br EXCEPT ![o] = [@ EXCEPT !.mq_idx = i,
                                     !.ack_mq_idx = i + AckMqOffset]]
    ELSE br

\* Mutant: binding always wakes the queue
BindQueueWakes(qs, br, ms, i, o) ==
    IF Binds(ms, i)
    THEN FlowControl(FlowControl(qs, i, TRUE), i + AckMqOffset, TRUE)
    ELSE qs

BindQueue(qs, br, ms, i, o) ==
    IF Binds(ms, i)
    THEN FlowControl(FlowControl(qs, i, br[o].granted),
                     i + AckMqOffset, br[o].granted)
    ELSE qs

-----------------------------------------------------------------------------
(* The netlink thread: NLMSG_FLOW_ACTIVATE and NLMSG_FLOW_DEACTIVATE.       *)

\* A request enters qmi_rmnet_add_flow, or goes around its "again" loop.
Enters(r) == rt = Idle \/ rt = [pc |-> "add", req |-> r]

\* After an unlock the thread enters qmi_rmnet_bearer_clean, which returns at
\* once when no bearer was removed; then the interrupted request r, if any,
\* goes around again.
Resume(r) == IF r = NULL THEN Idle ELSE [pc |-> "add", req |-> r]
ToClean(r) ==
    rt' = IF removed' = NULL THEN Resume(r) ELSE [pc |-> "clean", req |-> r]

\* A flow that is not on the list: create it, get its bearer, bind its queue.
CreateFlow(r) ==
    LET f == r[1]  id == r[2]  i == r[3]
    IN  /\ Enters(r)
        /\ flow[f] = NULL
        /\ \E o \in GetChoices(bearer, id) :
              LET br == BearerGet(bearer, id, o)
              IN  /\ flow' = [flow EXCEPT ![f] = [bearer_id |-> id,
                                                  mq_idx |-> i, bearer |-> o]]
                  /\ bearer' = BindBearer(br, mq, i, o)
                  /\ mq' = BindMq(mq, i, o)
                  /\ queue' = BindQueue(queue, br, mq, i, o)
        /\ UNCHANGED <<removed, nomem>>
        /\ ToClean(NULL)

\* kzalloc fails for the flow, or for the bearer of the new flow.
CreateFlowFails(r) ==
    LET f == r[1]  id == r[2]  i == r[3]
    IN  /\ Enters(r)
        /\ flow[f] = NULL
        /\ \/ UNCHANGED flow
           \/ /\ Lookup(bearer, id) = {}
              /\ flow' = [flow EXCEPT ![f] = [bearer_id |-> id,
                                              mq_idx |-> i, bearer |-> NULL]]
        /\ rt' = Idle
        /\ UNCHANGED <<bearer, mq, queue, removed, nomem>>

\* __qmi_rmnet_rebind_flow: the flow moves to another bearer; the queues of
\* the old bearer are not reset.  When kzalloc fails the flow keeps its pointer
\* to the old bearer although the reference is gone; nomem remembers it
\* (bound: a count that is already zero is not driven further down).
RebindFlow(r) ==
    LET f == r[1]  id == r[2]  i == r[3]
        old == flow[f].bearer
        put == PutBearer(bearer, old)
        ms == PutMq(mq, bearer, old)
    IN  /\ Enters(r)
        /\ flow[f] # NULL
        /\ flow[f].bearer_id # id
        /\ removed' = PutRemoved(bearer, old)
        /\ \/ /\ \E o \in GetChoices(put, id) :
                    LET br == BearerGet(put, id, o)
                    IN  /\ flow' = [flow EXCEPT ![f] =
                                       [bearer_id |-> id, mq_idx |-> i,
                                        bearer |-> o]]
                        /\ bearer' = BindBearer(br, ms, i, o)
                        /\ mq' = BindMq(ms, i, o)
                        /\ queue' = BindQueue(queue, br, ms, i, o)
              /\ UNCHANGED nomem
           \/ /\ RebindMayFail
              /\ old # NULL => bearer[old].flow_ref > 0   \* bound
              /\ Lookup(put, id) = {}
              /\ bearer' = put
              /\ mq' = ms
              /\ nomem' = TRUE
              /\ UNCHANGED <<flow, queue>>
        /\ ToClean(NULL)

\* The flow is there with this bearer: nothing to do, or delete it first.
KeepFlow(r) ==
    LET f == r[1]  id == r[2]  i == r[3]
    IN  /\ Enters(r)
        /\ flow[f] # NULL
        /\ flow[f].bearer_id = id
        /\ rt' = IF flow[f].mq_idx = i THEN Idle ELSE [pc |-> "del", req |-> r]
        /\ UNCHANGED <<flow, bearer, mq, queue, removed, nomem>>

\* qmi_rmnet_del_flow under the lock; the last flow wakes every queue.
DelSection(f) ==
    LET o == flow[f].bearer
    IN  /\ IF flow[f] = NULL
           THEN UNCHANGED <<flow, bearer, mq, removed>>
           ELSE /\ flow' = [flow EXCEPT ![f] = NULL]
                /\ bearer' = PutBearer(bearer, o)
                /\ mq' = PutMq(mq, bearer, o)
                /\ removed' = PutRemoved(bearer, o)
        /\ queue' = IF \A g \in Flows : flow'[g] = NULL
                    THEN [q \in Queues |-> TRUE]
                    ELSE IF flow[f] = NULL THEN queue
                    ELSE PutQueue(queue, mq, bearer, o)

Deactivate(f) ==
    /\ rt = Idle
    /\ DelSection(f)
    /\ ToClean(NULL)
    /\ UNCHANGED nomem

\* The del_flow that add_flow calls to move a flow to another queue
DelForAgain ==
    /\ rt.pc = "del"
    /\ DelSection(rt.req[1])
    /\ ToClean(rt.req)
    /\ UNCHANGED nomem

\* qmi_rmnet_bearer_clean, without qos_lock: tell the watchdog to quit ...
BearerCleanQuit ==
    /\ rt.pc = "clean"
    /\ bearer' = [bearer EXCEPT ![removed].wd_quit = TRUE]
    /\ rt' = [rt EXCEPT !.pc = "sync"]
    /\ UNCHANGED <<flow, mq, queue, removed, nomem>>

\* Mutant: del_timer in place of del_timer_sync
BearerCleanFreeNoSync ==
    /\ rt.pc = "sync"
    /\ bearer' = [bearer EXCEPT ![removed] =
                     [Zeroed EXCEPT !.wd_running = bearer[removed].wd_running]]
    /\ removed' = NULL
    /\ rt' = Resume(rt.req)
    /\ UNCHANGED <<flow, mq, queue, nomem>>

\* ... then del_timer_sync waits for a running watchdog_fn, and kfree.
BearerCleanFree ==
    /\ rt.pc = "sync"
    /\ ~bearer[removed].wd_running
    /\ bearer' = [bearer EXCEPT ![removed] = Zeroed]
    /\ removed' = NULL
    /\ rt' = Resume(rt.req)
    /\ UNCHANGED <<flow, mq, queue, nomem>>

-----------------------------------------------------------------------------
(* The watchdog timer of a bearer.                                          *)

\* The timer softirq enters watchdog_fn, which then waits for qos_lock.  One
\* timer never runs on two processors at once.
WatchdogExpire(o) ==
    /\ bearer[o].wd_armed
    /\ ~bearer[o].wd_running
    /\ bearer' = [bearer EXCEPT ![o] = [@ EXCEPT !.wd_armed = FALSE,
                                                 !.wd_running = TRUE]]
    /\ UNCHANGED <<flow, mq, queue, removed, rt, nomem>>

\* Mutants: the queues are not woken; bearer_clean holds qos_lock
WatchdogFnNoWake(o) ==
    LET b == bearer[o]
        done == [b EXCEPT !.wd_started = FALSE, !.wd_running = FALSE]
    IN  /\ b.wd_running
        /\ bearer' = [bearer EXCEPT ![o] = IF b.wd_quit THEN done
                                           ELSE [done EXCEPT !.granted = TRUE]]
        /\ UNCHANGED <<flow, mq, queue, removed, rt, nomem>>

WatchdogFnLocked(o) ==
    LET b == bearer[o]
        done == [b EXCEPT !.wd_started = FALSE, !.wd_running = FALSE]
        start == [done EXCEPT !.granted = TRUE]
        retry == ~b.wd_quit /\ ~b.granted
    IN  /\ b.wd_running
        /\ rt.pc # "sync"
        /\ bearer' = [bearer EXCEPT ![o] = IF retry THEN start ELSE done]
        /\ queue' = IF retry THEN BearerFlowCtl(queue, start) ELSE queue
        /\ UNCHANGED <<flow, mq, removed, rt, nomem>>

\* qmi_rmnet_watchdog_fn under the lock: jump-start a bearer without grant.
WatchdogFn(o) ==
    LET b == bearer[o]
        done == [b EXCEPT !.wd_started = FALSE, !.wd_running = FALSE]
        start == [done EXCEPT !.granted = TRUE]
    IN  /\ b.wd_running
        /\ IF b.wd_quit \/ b.granted
           THEN /\ bearer' = [bearer EXCEPT ![o] = done]
                /\ UNCHANGED queue
           ELSE /\ bearer' = [bearer EXCEPT ![o] = start]
                /\ queue' = BearerFlowCtl(queue, start)
        /\ UNCHANGED <<flow, mq, removed, rt, nomem>>

-----------------------------------------------------------------------------
(* Indications from the modem, packets and power save.                      *)

\* What an indication can make of a grant: <<granted, below 20%>>.  Only the
\* answer to a QMAP query is reduced by the bytes in flight (dfc_adjust_grant);
\* any other indication is the case <<num, FALSE>>.
Adjusted(num) ==
    IF DfcQmap /\ num THEN BOOLEAN \X BOOLEAN ELSE {<<num, FALSE>>}

\* dfc_update_fc_map on bearer b: inside a RAT switch, and for a grant while
\* TX is off, the indication is ignored.
Ignored(b, num, rat) ==
    \/ ~rat /\ b.rat_switch
    \/ b.tx_off /\ num

UpdateFcMap(b, num, rat, bidir, adj) ==
    LET b1 == IF rat THEN [b EXCEPT !.rat_switch = ~num] ELSE b
        b2 == [b1 EXCEPT !.granted = adj[1], !.tcp_bidir = bidir]
    IN  IF Ignored(b, num, rat) THEN b1
        ELSE IF adj[2] THEN WatchdogAdd(b2) ELSE WatchdogRemove(b2)

\* One flow status for one bearer; an unknown bearer is created without a
\* reference (qmi_rmnet_get_bearer_noref), unless kzalloc fails.  QMAP
\* indications carry no RAT switch flag.
FlowStatus(id, num, rat, bidir) ==
    /\ DfcQmap => ~rat
    /\ \E o \in GetChoices(bearer, id), adj \in Adjusted(num) :
          LET br == IF bearer[o].st = "listed" THEN bearer
                    ELSE [BearerGet(bearer, id, o) EXCEPT ![o].flow_ref = 0]
              b == UpdateFcMap(br[o], num, rat, bidir, adj)
          IN  /\ bearer' = [br EXCEPT ![o] = b]
              /\ queue' = IF b.granted = br[o].granted THEN queue
                          ELSE BearerFlowCtl(queue, b)
    /\ UNCHANGED <<flow, mq, removed, rt, nomem>>

\* dfc_all_bearer_flow_ctl: bearer 0xFF stands for every listed bearer.
AllBearerFlowCtl(num, bidir) ==
    /\ bearer' = [o \in Objs |->
                    IF o \in Listed
                    THEN [bearer[o] EXCEPT !.granted = num, !.tcp_bidir = bidir]
                    ELSE bearer[o]]
    /\ queue' = [q \in Queues |->
                    IF \E o \in Listed :
                          \/ q = bearer[o].mq_idx
                          \/ q = bearer[o].ack_mq_idx /\ (num \/ ~bidir)
                    THEN num ELSE queue[q]]
    /\ UNCHANGED <<flow, mq, removed, rt, nomem>>

\* dfc_update_tx_link_status; no change of the status is ignored.
TxLinkStatus(id, on) ==
    /\ \E o \in Lookup(bearer, id) :
          LET b == bearer[o]
              off == [b EXCEPT !.tx_off = ~on]
              stop == WatchdogRemove([off EXCEPT !.granted = FALSE,
                                                 !.tcp_bidir = FALSE])
              start == [off EXCEPT !.granted = TRUE]
          IN  /\ b.tx_off = on
              /\ IF b.granted /\ ~on
                 THEN /\ bearer' = [bearer EXCEPT ![o] = stop]
                      /\ queue' = BearerFlowCtl(queue, stop)
                 ELSE IF ~b.granted /\ on /\ ~b.rat_switch
                 THEN /\ bearer' = [bearer EXCEPT ![o] = start]
                      /\ queue' = BearerFlowCtl(queue, start)
                 ELSE /\ bearer' = [bearer EXCEPT ![o] = off]
                      /\ UNCHANGED queue
    /\ UNCHANGED <<flow, mq, removed, rt, nomem>>

\* Mutant: the queues are not stopped when the grant is used up
BurstCheckNoStop(f) ==
    /\ flow[f] # NULL
    /\ flow[f].bearer # NULL
    /\ bearer[flow[f].bearer].granted
    /\ bearer' = [bearer EXCEPT ![flow[f].bearer].granted = FALSE]
    /\ UNCHANGED <<flow, mq, queue, removed, rt, nomem>>

\* dfc_qmi_burst_check: a packet of flow f uses up the grant of its bearer.
\* (A packet that does not leaves this state as it is.)
BurstCheck(f) ==
    /\ flow[f] # NULL
    /\ flow[f].bearer # NULL
    /\ LET o == flow[f].bearer
           b == [bearer[o] EXCEPT !.granted = FALSE]
       IN  /\ bearer[o].granted
           /\ bearer' = [bearer EXCEPT ![o] = b]
           /\ queue' = BearerFlowCtl(queue, b)
    /\ UNCHANGED <<flow, mq, removed, rt, nomem>>

\* qmi_rmnet_enable_all_flows, called when power save is entered
EnabledBearer(b) ==
    LET reset == WatchdogRemove([b EXCEPT !.tcp_bidir = FALSE,
                                          !.rat_switch = FALSE])
    IN  IF b.tx_off THEN reset ELSE [reset EXCEPT !.granted = TRUE]

EnableAllFlows ==
    /\ bearer' = [o \in Objs |-> IF o \in Listed THEN EnabledBearer(bearer[o])
                                                 ELSE bearer[o]]
    /\ queue' = [q \in Queues |->
                   queue[q] \/ \E o \in Listed :
                      /\ ~bearer[o].tx_off /\ ~bearer[o].granted
                      /\ q \in {bearer[o].mq_idx, bearer[o].ack_mq_idx}]
    /\ UNCHANGED <<flow, mq, removed, rt, nomem>>

\* rmnet_vnd_do_flow_control: a MAP flow command stops or wakes queue 0.
VndFlowControl(enable) ==
    /\ queue' = [queue EXCEPT ![DefaultMq] = enable]
    /\ UNCHANGED <<flow, bearer, mq, removed, rt, nomem>>

-----------------------------------------------------------------------------

Netlink ==
    \/ \E r \in Activations :
          CreateFlow(r) \/ CreateFlowFails(r) \/ RebindFlow(r) \/ KeepFlow(r)
    \/ \E f \in Flows : Deactivate(f)
    \/ DelForAgain \/ BearerCleanQuit \/ BearerCleanFree

Watchdog == \E o \in Objs : WatchdogExpire(o) \/ WatchdogFn(o)

Modem ==
    \/ \E id \in BearerIds, num, rat \in BOOLEAN, bidir \in Bidirs :
          FlowStatus(id, num, rat, bidir)
    \/ \E num \in AllBearerGrants, bidir \in Bidirs :
          AllBearerFlowCtl(num, bidir)
    \/ \E id \in BearerIds, on \in TxStatuses : TxLinkStatus(id, on)
    \/ \E enable \in VndCommands : VndFlowControl(enable)

Next ==
    \/ Netlink
    \/ Watchdog
    \/ Modem
    \/ \E f \in Flows : BurstCheck(f)
    \/ EnableAllFlows

Spec == Init /\ [][Next]_vars

\* Pending timers expire, timer functions get the lock, and a thread that is in
\* the middle of a netlink request goes on.  Nothing makes a new request, an
\* indication or a packet happen.
Fairness ==
    /\ WF_vars(rt # Idle /\ Netlink)
    /\ \A o \in Objs : WF_vars(WatchdogExpire(o)) /\ WF_vars(WatchdogFn(o))

FairSpec == Spec /\ Fairness

-----------------------------------------------------------------------------
(* Properties.                                                              *)

\* The flows whose itm->bearer is o.
FlowsOf(o) == {f \in Flows : flow[f] # NULL /\ flow[f].bearer = o}

\* A flow only ever points at a bearer that is on the bearer list, and a
\* listed bearer counts exactly the flows that point at it: no bearer is freed
\* under a flow, and none outlives its last flow with a queue bound to it.
\* A rebind that runs out of memory ends this: __qmi_rmnet_rebind_flow has
\* put the old bearer and returns with the flow still pointing at it.
RefCount == ~nomem =>
    /\ \A f \in Flows : flow[f] # NULL =>
          flow[f].bearer = NULL \/ flow[f].bearer \in Listed
    /\ \A o \in Listed : bearer[o].flow_ref = Cardinality(FlowsOf(o))

\* qos->mq[] and bearer->mq_idx agree: the owner of a queue is a listed bearer
\* some flow still uses, a bearer that believes it controls a queue owns it,
\* and the default queue has no owner (comment at __qmi_rmnet_update_mq).
QueueOwner ==
    /\ mq[DefaultMq] = NULL
    /\ \A i \in Mqs : mq[i] # NULL =>
          /\ mq[i] \in Listed
          /\ bearer[mq[i]].mq_idx # InvalidMq
    /\ \A o \in Listed : bearer[o].mq_idx # InvalidMq =>
          /\ bearer[o].mq_idx \in Mqs
          /\ mq[bearer[o].mq_idx] = o
          /\ bearer[o].ack_mq_idx = bearer[o].mq_idx + AckMqOffset

\* No stall: while a listed bearer has a grant, the data queue and the tcp ack
\* queue it controls are awake, whatever other bearers, watchdogs of bearers
\* being removed and power save do, until a rebind ran out of memory.
AwakeIfGranted == ~nomem =>
    \A o \in Listed : bearer[o].granted =>
        \A q \in {bearer[o].mq_idx, bearer[o].ack_mq_idx} \cap Queues : queue[q]

\* Flow control has effect: a bearer without grant keeps its data queue
\* stopped, until a rebind ran out of memory.
OverGrant(o) ==
    /\ bearer[o].st = "listed"
    /\ ~bearer[o].granted
    /\ bearer[o].mq_idx \in Queues
    /\ queue[bearer[o].mq_idx]

StoppedIfNotGranted == ~nomem => \A o \in Objs : ~OverGrant(o)

\* With the watchdog in play (QMAP) there is one way to get a queue awake
\* without a grant: the watchdog of a bearer that was just removed by a rebind
\* and still remembers the queue, which its successor now owns (again until a
\* rebind ran out of memory).
OnlyStaleWatchdogOverGrants ==
    [][~nomem' => \A o \in Objs : OverGrant(o)' /\ ~OverGrant(o) =>
          \E p \in Objs : /\ bearer[p].st = "removed" /\ bearer[p].wd_running
                          /\ bearer[p].mq_idx = bearer[o].mq_idx
                          /\ ~bearer'[p].wd_running]_vars

\* The watchdog timer of a freed bearer is neither pending nor running
\* (del_timer_sync in qmi_rmnet_bearer_clean), and a bearer taken off the list
\* is the one bearer_clean will free: it is not lost.
BearerLifetime ==
    /\ \A o \in Objs : bearer[o].wd_armed \/ bearer[o].wd_running =>
          bearer[o].st # "free"
    /\ \A o \in Objs : bearer[o].st = "removed" <=> o = removed
    /\ rt.pc \in {"idle", "add", "del"} => removed = NULL

\* A bearer id is on the bearer list at most once, also while an indication
\* recreates the bearer that the netlink thread is still taking down.
UniqueBearer ==
    \A o, p \in Listed : bearer[o].bearer_id = bearer[p].bearer_id => o = p

\* A bearer whose TX is off has no grant ("If TX is OFF but we received grant,
\* ignore it", dfc_qmi.c:1013).
TxOffNoGrant == \A o \in Listed : bearer[o].tx_off => ~bearer[o].granted

\* A bearer put under watch because a query left it less than 20% of its grant
\* ("Add to watch to recover if no indication is received", dfc_qmi.c:1037)
\* gets a grant again, unless it is taken off watch or off the list.
WatchdogRecovers ==
    \A o \in Objs :
        (/\ bearer[o].st = "listed" /\ bearer[o].wd_started
         /\ ~bearer[o].wd_quit /\ ~bearer[o].granted)
        ~> (bearer[o].st # "listed" \/ bearer[o].wd_quit \/ bearer[o].granted)

\* A netlink request ends: the wait in del_timer_sync for a watchdog function
\* that wants qos_lock is no deadlock, and "again" is not taken for ever.
NetlinkReturns == rt # Idle ~> rt = Idle

=============================================================================
