------------------------------ MODULE DfcGrant ------------------------------
(***************************************************************************)
(* The grant arithmetic of one bearer (dfc_qmi.c, dfc_qmap.c): how an      *)
(* indication, a query response, a packet, a TX link change, the watchdog  *)
(* and power save change the bearer's grant, its query threshold, its      *)
(* count of bytes in flight and its duty to acknowledge, and which         *)
(* commands they send to the modem.                                        *)
(*                                                                         *)
(* The bearer is listed, one flow is bound to it and it owns queue 1 with  *)
(* ack queue 2; what adding and deleting flows does is module QosFlows.    *)
(* Property AbstractStep ties the two together.                            *)
(***************************************************************************)
EXTENDS Integers

CONSTANTS
    DefaultCallGrant, \* DEFAULT_CALL_GRANT
    Grants,           \* num_bytes the modem sends
    AllGrants,        \* num_bytes of all-bearers (0xFF) indications
    RxBytes,          \* rx_bytes the modem reports
    Lens,             \* packet lengths
    Seqs,             \* seq_num of indications
    QuerySeq,         \* seq_num put into a QMAP query response (0xFFFF)
    ScaleFactors,     \* qmi_rmnet_scale_factor values
    Flags,            \* values of the TCP_BIDIR flag
    MaxInFlight,      \* bound on bytes_in_flight
    NULL              \* the null pointer of QosFlows

DefaultGrant == 1

ASSUME GrantAssumption ==
    /\ DefaultCallGrant \in Nat \ {0}
    /\ Grants \subseteq Nat /\ AllGrants \subseteq Nat /\ RxBytes \subseteq Nat
    /\ Lens \subseteq Nat /\ Seqs \subseteq Nat /\ QuerySeq \in Nat
    /\ ScaleFactors \subseteq Nat \ {0}
    /\ Flags \subseteq BOOLEAN
    /\ MaxInFlight \in Nat

VARIABLES
    dfc_qmap, \* the transport in use is QMAP, not QMI
    b,      \* the bearer
    queue,  \* data and ack queue awake
    scale,  \* qmi_rmnet_scale_factor
    out,    \* commands the last step handed to the transport
    lost,   \* commands the last step could not allocate or hand over
    query   \* history: what became of the threshold ack or query of the grant

vars == <<dfc_qmap, b, queue, scale, out, lost, query>>

Commands == {"threshold", "disable"}

\* The query of a grant is sent when the grant crosses its threshold ("due"),
\* was handed over ("sent") or lost ("lost"), or cannot come because scale
\* factor 1 made the threshold the whole grant ("never").
QueryStates == {"due", "sent", "lost", "never"}

Seq16 == Seqs \cup {0, QuerySeq}

TypeOK ==
    /\ b \in [grant_size : Nat, grant_thresh : Nat, seq : Seq16, last_seq : Seq16,
              ack_req : BOOLEAN, bytes_in_flight : Nat, tcp_bidir : BOOLEAN,
              rat_switch : BOOLEAN, tx_off : BOOLEAN,
              wd_started : BOOLEAN, wd_quit : BOOLEAN,
              wd_armed : BOOLEAN, wd_running : BOOLEAN]
    /\ queue \in [data : BOOLEAN, ack : BOOLEAN]
    /\ scale \in ScaleFactors
    /\ dfc_qmap \in BOOLEAN
    /\ out \subseteq Commands /\ lost \subseteq Commands
    /\ query \in QueryStates

GrantPer(g) == g \div scale

\* The bearer got a new grant with threshold GrantPer(grant)
QueryOfGrant == IF scale = 1 THEN "never" ELSE "due"

Init ==
    /\ dfc_qmap \in BOOLEAN
    /\ scale \in ScaleFactors
    /\ b = [grant_size |-> DefaultCallGrant,
            grant_thresh |-> GrantPer(DefaultCallGrant), seq |-> 0,
            last_seq |-> 0, ack_req |-> FALSE, bytes_in_flight |-> 0,
            tcp_bidir |-> FALSE, rat_switch |-> FALSE, tx_off |-> FALSE,
            wd_started |-> FALSE, wd_quit |-> FALSE,
            wd_armed |-> FALSE, wd_running |-> FALSE]
    /\ queue = [data |-> TRUE, ack |-> TRUE]
    /\ out = {} /\ lost = {}
    /\ query = QueryOfGrant

-----------------------------------------------------------------------------
\* dfc_send_ack, dfc_qmap_send_query and dfc_qmap_send_end_marker_cnf: each of
\* the commands is handed over, or dropped when its alloc_skb fails or rmnet_ctl
\* refuses it.  The callers do not learn which.
Send(cmds) ==
    \E dropped \in SUBSET cmds : lost' = dropped /\ out' = cmds \ dropped

\* Mutants: tcp bidir is ignored; the ack is skipped in tcp bidir
FlowCtlQueueNoBidir(c) ==
    [data |-> c.grant_size # 0, ack |-> c.grant_size # 0]

FlowCtlAckNoBidir(c) ==
    IF c.grant_size = 0 /\ c.ack_req /\ ~c.tcp_bidir THEN {"disable"} ELSE {}

\* dfc_bearer_flow_ctl on bearer c: its effect on the queues and the DISABLE
\* ack (in QMAP the end marker confirmation) it sends.
FlowCtlQueue(c) ==
    LET enable == c.grant_size # 0
    IN  [data |-> enable,
         ack |-> IF enable \/ ~c.tcp_bidir THEN enable ELSE queue.ack]

FlowCtlAck(c) ==
    IF c.grant_size = 0 /\ c.ack_req THEN {"disable"} ELSE {}

WatchdogAdd(c) ==
    IF c.wd_started
    THEN [c EXCEPT !.wd_quit = FALSE]
    ELSE [c EXCEPT !.wd_quit = FALSE, !.wd_started = TRUE, !.wd_armed = TRUE]

WatchdogRemove(c) ==
    IF c.wd_started
    THEN [c EXCEPT !.wd_quit = TRUE, !.wd_started = FALSE, !.wd_armed = FALSE]
    ELSE [c EXCEPT !.wd_quit = TRUE]

\* Mutant: the subtraction is not guarded
MinusUnguarded(x, y) == x - y

\* Unsigned subtraction that stops at zero
Minus(x, y) == IF x > y THEN x - y ELSE 0

-----------------------------------------------------------------------------
\* dfc_adjust_grant: what is left in flight after the modem received rx bytes
\* (-1: rx_bytes not valid), and the grant less that.
InFlightLeft(rx) == IF rx = -1 THEN b.bytes_in_flight
                               ELSE Minus(b.bytes_in_flight, rx)
AdjustGrant(num, rx) == IF rx = -1 THEN num ELSE Minus(num, InFlightLeft(rx))

\* Mutant: a held end marker request is overwritten without an answer
UpdateFcMapDropsMarker(num, sn, req, rat, bidir, is_query, rx) ==
    LET c == IF rat THEN [b EXCEPT !.rat_switch = (num = 0)] ELSE b
        ignored == (~rat /\ b.rat_switch) \/ (b.tx_off /\ num > 0)
        d == [c EXCEPT !.bytes_in_flight = 0, !.grant_size = num,
                       !.grant_thresh = GrantPer(num), !.seq = sn,
                       !.last_seq = sn, !.ack_req = req, !.tcp_bidir = bidir]
    IN  IF ignored
        THEN b' = c /\ Send({}) /\ UNCHANGED <<queue, query>>
        ELSE /\ b' = WatchdogRemove(d)
             /\ queue' = FlowCtlQueue(d)
             /\ Send(FlowCtlAck(d))
             /\ query' = QueryOfGrant

\* dfc_update_fc_map for an indication, or for the response to a query.
UpdateFcMap(num, sn, req, rat, bidir, is_query, rx) ==
    LET c == IF rat THEN [b EXCEPT !.rat_switch = (num = 0)] ELSE b
        ignored == (~rat /\ b.rat_switch) \/ (b.tx_off /\ num > 0)
        adjust == dfc_qmap /\ is_query
        grant == IF adjust THEN AdjustGrant(num, rx) ELSE num
        low == adjust /\ grant < num \div 5
        d == [c EXCEPT !.bytes_in_flight = IF adjust THEN InFlightLeft(rx) ELSE 0,
                       !.grant_size = grant,
                       !.grant_thresh = IF low THEN grant ELSE GrantPer(grant),
                       !.seq = sn, !.last_seq = sn,
                       !.ack_req = req, !.tcp_bidir = bidir]
        action == (b.grant_size = 0) # (grant = 0)
        superseded == dfc_qmap /\ b.ack_req /\ ~req /\ b.grant_size # 0
    IN  IF ignored
        THEN b' = c /\ Send({}) /\ UNCHANGED <<queue, query>>
        ELSE /\ b' = IF low THEN WatchdogAdd(d) ELSE WatchdogRemove(d)
             /\ queue' = IF action THEN FlowCtlQueue(d) ELSE queue
             /\ Send((IF superseded THEN {"disable"} ELSE {})
                       \cup (IF action THEN FlowCtlAck(d) ELSE {}))
             /\ query' = IF low THEN "due" ELSE QueryOfGrant

\* A flow status indication.  Over QMAP it asks for no ack and has no RAT
\* switch flag.
Indication(num, sn, req, rat, bidir) ==
    /\ dfc_qmap => ~req /\ ~rat
    /\ UpdateFcMap(num, sn, req, rat, bidir, FALSE, -1)
    /\ UNCHANGED <<dfc_qmap, scale>>

\* The response to a QMAP query (dfc_qmap_handle_query_resp)
QueryResponse(num, rx, bidir) ==
    /\ dfc_qmap
    /\ UpdateFcMap(num, QuerySeq, FALSE, FALSE, bidir, TRUE, rx)
    /\ UNCHANGED <<dfc_qmap, scale>>

\* Mutant: last_seq is not updated
AllBearerFlowCtlOldSeq(num, sn, req, bidir) ==
    LET c == [b EXCEPT !.grant_size = num, !.grant_thresh = GrantPer(num),
                       !.seq = sn, !.ack_req = req, !.tcp_bidir = bidir]
    IN  /\ dfc_qmap => ~req
        /\ b' = c
        /\ queue' = FlowCtlQueue(c)
        /\ Send(FlowCtlAck(c))
        /\ query' = QueryOfGrant
        /\ UNCHANGED <<dfc_qmap, scale>>

\* dfc_all_bearer_flow_ctl
AllBearerFlowCtl(num, sn, req, bidir) ==
    LET c == [b EXCEPT !.grant_size = num, !.grant_thresh = GrantPer(num),
                       !.seq = sn, !.last_seq = sn,
                       !.ack_req = req, !.tcp_bidir = bidir]
    IN  /\ dfc_qmap => ~req
        /\ b' = c
        /\ queue' = FlowCtlQueue(c)
        /\ Send(FlowCtlAck(c))
        /\ query' = QueryOfGrant
        /\ UNCHANGED <<dfc_qmap, scale>>

\* dfc_update_tx_link_status
TxLinkStatus(on) ==
    LET off == [b EXCEPT !.tx_off = ~on]
        stop == WatchdogRemove([off EXCEPT !.grant_size = 0, !.tcp_bidir = FALSE,
                                           !.bytes_in_flight = 0])
        start == [off EXCEPT !.grant_size = DefaultGrant, !.seq = 0,
                             !.grant_thresh = GrantPer(DefaultGrant),
                             !.ack_req = FALSE]
    IN  /\ b.tx_off = on
        /\ \/ /\ b.grant_size # 0 /\ ~on
              /\ b' = stop /\ queue' = FlowCtlQueue(stop)
              /\ Send(FlowCtlAck(stop)) /\ UNCHANGED query
           \/ /\ b.grant_size = 0 /\ on /\ ~b.rat_switch
              /\ b' = start /\ queue' = FlowCtlQueue(start)
              /\ Send(FlowCtlAck(start)) /\ query' = QueryOfGrant
           \/ /\ (b.grant_size # 0) = on \/ (on /\ b.rat_switch)
              /\ b' = off /\ Send({}) /\ UNCHANGED <<queue, query>>
        /\ UNCHANGED <<dfc_qmap, scale>>

\* dfc_qmi_burst_check: a packet of len bytes was sent.
BurstCheck(len) ==
    LET left == Minus(b.grant_size, len)
        c == [b EXCEPT !.bytes_in_flight = @ + len, !.grant_size = left]
        cross == b.grant_size > b.grant_thresh /\ left <= b.grant_thresh
    IN  /\ b.bytes_in_flight + len <= MaxInFlight   \* bound
        /\ b' = c
        /\ IF b.grant_size = 0
           THEN Send({}) /\ UNCHANGED <<queue, query>>
           ELSE /\ Send((IF cross THEN {"threshold"} ELSE {}) \cup FlowCtlAck(c))
                /\ queue' = IF left = 0 THEN FlowCtlQueue(c) ELSE queue
                /\ query' = IF ~cross THEN query
                            ELSE IF "threshold" \in out' THEN "sent" ELSE "lost"
        /\ UNCHANGED <<dfc_qmap, scale>>

\* dfc_qmap_set_end_marker: hold the request while the bearer it is about may
\* still send, else confirm at once.
EndMarker(sn) ==
    /\ dfc_qmap
    /\ IF b.last_seq = sn /\ b.grant_size # 0
       THEN b' = [b EXCEPT !.ack_req = TRUE] /\ Send({})
       ELSE Send({"disable"}) /\ UNCHANGED b
    /\ UNCHANGED <<dfc_qmap, queue, scale, query>>

WatchdogExpire ==
    /\ b.wd_armed /\ ~b.wd_running
    /\ b' = [b EXCEPT !.wd_armed = FALSE, !.wd_running = TRUE]
    /\ Send({})
    /\ UNCHANGED <<dfc_qmap, queue, scale, query>>

\* Mutant: a bearer that still has a grant is left as it is
WatchdogFnOnlyZero ==
    LET done == [b EXCEPT !.wd_started = FALSE, !.wd_running = FALSE]
        retry == [done EXCEPT !.bytes_in_flight = 0,
                              !.grant_size = DefaultCallGrant,
                              !.grant_thresh = GrantPer(DefaultCallGrant)]
    IN  /\ b.wd_running
        /\ IF b.wd_quit \/ b.grant_size # 0
           THEN b' = done /\ Send({}) /\ UNCHANGED <<queue, query>>
           ELSE /\ b' = retry /\ queue' = FlowCtlQueue(retry)
                /\ Send({}) /\ query' = QueryOfGrant
        /\ UNCHANGED <<dfc_qmap, scale>>

\* qmi_rmnet_watchdog_fn
WatchdogFn ==
    LET done == [b EXCEPT !.wd_started = FALSE, !.wd_running = FALSE]
        grant == IF b.grant_size = 0 THEN DefaultCallGrant ELSE b.grant_size
        retry == [done EXCEPT !.bytes_in_flight = 0, !.grant_size = grant,
                              !.grant_thresh = GrantPer(grant)]
    IN  /\ b.wd_running
        /\ IF b.wd_quit
           THEN b' = done /\ Send({}) /\ UNCHANGED <<queue, query>>
           ELSE /\ b' = retry
                /\ queue' = IF b.grant_size = 0 THEN FlowCtlQueue(retry) ELSE queue
                /\ Send(IF b.grant_size = 0 THEN FlowCtlAck(retry) ELSE {})
                /\ query' = QueryOfGrant
        /\ UNCHANGED <<dfc_qmap, scale>>

\* qmi_rmnet_enable_all_flows
EnableAllFlows ==
    LET reset == WatchdogRemove([b EXCEPT !.seq = 0, !.ack_req = FALSE,
                                    !.bytes_in_flight = 0, !.tcp_bidir = FALSE,
                                    !.rat_switch = FALSE])
        c == [reset EXCEPT !.grant_size = DefaultGrant,
                           !.grant_thresh = GrantPer(DefaultGrant)]
    IN  /\ IF b.tx_off
           THEN b' = reset /\ Send({}) /\ UNCHANGED <<queue, query>>
           ELSE /\ b' = c
                /\ queue' = IF b.grant_size = 0 THEN FlowCtlQueue(c) ELSE queue
                /\ Send(IF b.grant_size = 0 THEN FlowCtlAck(c) ELSE {})
                /\ query' = QueryOfGrant
        /\ UNCHANGED <<dfc_qmap, scale>>

\* NLMSG_SCALE_FACTOR; zero is refused.
SetScaleFactor(k) ==
    /\ scale' = k
    /\ Send({})
    /\ UNCHANGED <<dfc_qmap, b, queue, query>>

Next ==
    \/ \E num \in Grants, sn \in Seqs, req, rat \in BOOLEAN, bidir \in Flags :
          Indication(num, sn, req, rat, bidir)
    \/ \E num \in Grants, rx \in RxBytes \cup {-1}, bidir \in Flags :
          QueryResponse(num, rx, bidir)
    \/ \E num \in AllGrants, sn \in Seqs, req \in BOOLEAN, bidir \in Flags :
          AllBearerFlowCtl(num, sn, req, bidir)
    \/ \E on \in BOOLEAN : TxLinkStatus(on)
    \/ \E len \in Lens : BurstCheck(len)
    \/ \E sn \in Seq16 : EndMarker(sn)
    \/ WatchdogExpire \/ WatchdogFn
    \/ EnableAllFlows
    \/ \E k \in ScaleFactors : SetScaleFactor(k)

Spec == Init /\ [][Next]_vars

-----------------------------------------------------------------------------
(* Properties.                                                              *)

\* An ack is owed and the bearer may still send: over QMAP, a held end marker
\* request.
Held == b.ack_req /\ b.grant_size # 0

\* A held end marker request is not lost: when it stops being held, by traffic
\* that uses up the grant, an indication that supersedes it ("This is needed by
\* qmap") or TX going off, its confirmation is issued in the same step.  There
\* are three ways not to answer it: the confirmation is lost for want of memory
\* (it is issued once, nobody retries), entering power save, and an all-bearers
\* indication.
EndMarkerAnswered ==
    [][dfc_qmap /\ Held /\ ~Held' =>
          \/ "disable" \in out'
          \/ "disable" \in lost'
          \/ EnableAllFlows
          \/ \E num \in AllGrants, sn \in Seqs, req, bidir \in BOOLEAN :
                AllBearerFlowCtl(num, sn, req, bidir)]_vars

\* The confirmation carries bearer->seq.  While an ack is owed this is the
\* sequence number of the grant it is about, or 0 once power save or TX coming
\* back replaced the grant by the default one: never that of another grant.
AckSeqCurrent == b.ack_req => b.seq \in {b.last_seq, 0}

\* No silent stall: a bearer whose grant is down to its threshold has asked the
\* modem for more since it got the grant, or is being watched, except in the two
\* ways the code has to run a grant out unasked: the ack or query was lost for
\* want of memory, and scale factor 1, which makes the threshold the whole
\* grant, so that "start_grant > grant_thresh" is never true.
NoSilentStall ==
    b.grant_size # 0 /\ b.grant_size <= b.grant_thresh =>
        \/ query = "sent"
        \/ b.wd_armed \/ b.wd_running
        \/ query \in {"lost", "never"}

\* Stopping the data queue and owing an ack go together: the DISABLE ack is
\* issued in the step that stops the queue, and is handed to the transport
\* unless it could not be allocated.  A queue is never stopped first and the
\* ack left to a later step.
StopIsAcked ==
    [][queue.data /\ ~queue'.data /\ b'.ack_req
          => "disable" \in out' \cup lost']_vars

\* The step of QosFlows this is: byte counts abstracted to "has a grant".
Abs(c) ==
    [st |-> "listed", bearer_id |-> "b", flow_ref |-> 1,
     granted |-> c.grant_size # 0, tcp_bidir |-> c.tcp_bidir,
     rat_switch |-> c.rat_switch, tx_off |-> c.tx_off,
     mq_idx |-> 1, ack_mq_idx |-> 2,
     wd_started |-> c.wd_started, wd_quit |-> c.wd_quit,
     wd_armed |-> c.wd_armed, wd_running |-> c.wd_running]

absFlow == [f \in {"f"} |-> [bearer_id |-> "b", mq_idx |-> 1, bearer |-> "o"]]
absBearer == [o \in {"o"} |-> Abs(b)]
absMq == [i \in 0 .. 1 |-> IF i = 1 THEN "o" ELSE NULL]
absQueue == [q \in 0 .. 2 |-> IF q = 0 THEN TRUE
                              ELSE IF q = 1 THEN queue.data ELSE queue.ack]

\* NULL is neither the bearer nor the flow
ASSUME AbsAssumption == NULL # "o" /\ NULL # absFlow["f"]

Qos(qmap) == INSTANCE QosFlows WITH DfcQmap <- qmap,
    Flows <- {"f"}, BearerIds <- {"b"}, Objs <- {"o"}, NULL <- NULL,
    MaxMq <- 2, InvalidMq <- 255, Activations <- {},
    AllBearerGrants <- BOOLEAN, Bidirs <- BOOLEAN, TxStatuses <- BOOLEAN,
    VndCommands <- {}, RebindMayFail <- FALSE,
    flow <- absFlow, bearer <- absBearer, mq <- absMq, queue <- absQueue,
    removed <- NULL, rt <- [pc |-> "idle", req |-> NULL], nomem <- FALSE

\* Every step is a step of QosFlows on the bearer with its byte counts left
\* out, or leaves that bearer alone: the abstraction QosFlows is checked with
\* misses nothing the arithmetic can do.
AbstractStep ==
    [][IF dfc_qmap THEN Qos(TRUE)!Next ELSE Qos(FALSE)!Next]_(Qos(TRUE)!vars)

=============================================================================
