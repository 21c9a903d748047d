----------------------------- MODULE PowerSave -----------------------------
(***************************************************************************)
(* The power save work of a port (qmi_rmnet.c): a work item that watches   *)
(* the packet counters every interval, enters power save when there was no *)
(* traffic, and is started again by the first packet.  Its pieces are      *)
(*   - check_stats, the work function, which sleeps in the WDA request;    *)
(*   - the alarm that queues the work again;                               *)
(*   - packets on the transmit and receive paths (work_maybe_restart);     *)
(*   - DFC indications, dropped while ps_ignore_grant is set, and TX link  *)
(*     status indications, which are not;                                  *)
(*   - work_init and work_exit under rtnl.                                 *)
(*                                                                         *)
(* Data abstraction: packet counters are kept as "packets since the last   *)
(* look"; a bearer by whether it has a grant, its TX link is off and a RAT *)
(* switch is under way (the rest of it is modules QosFlows and DfcGrant).  *)
(***************************************************************************)
EXTENDS Naturals, FiniteSets

CONSTANTS
    Bearers,    \* the bearers of the port's devices
    Packets,    \* packet processing contexts (transmit and receive)
    AlarmCb     \* the context that runs the alarm callback

ASSUME ContextAssumption == AlarmCb \notin Packets

Contexts == Packets \cup {AlarmCb}

VARIABLES
    ps_enabled, ps_ignore_grant, dl_msg_active,  \* struct qmi_info
    active,     \* PS_WORK_ACTIVE_BIT of ps_work_active
    quit,       \* rmnet_work_quit
    inited,     \* rmnet_work_inited
    pending,    \* the delayed work is queued, or its delay is running
    alarm,      \* the alarm is started
    wpc,        \* where check_stats is
    cpc,        \* where each context is in work_maybe_restart / work_restart
    sent,       \* the contexts past the packet's counting and burst check
    rpc,        \* where the rtnl thread is in work_init / work_exit
    late,       \* history: work_init ran while a context was in work_restart
    traffic,    \* packets were counted since check_stats looked
    granted, tx_off, rat_switch  \* the bearers with a grant, TX off, RAT switch

vars == <<ps_enabled, ps_ignore_grant, dl_msg_active, active, quit, inited,
          pending, alarm, wpc, cpc, sent, rpc, late, traffic, granted, tx_off,
          rat_switch>>

qmi == <<ps_enabled, ps_ignore_grant, dl_msg_active>>
sched == <<pending, alarm>>
ctx == <<cpc, sent>>
life == <<quit, inited, rpc, late>>
flows == <<granted, tx_off, rat_switch>>

\* wpc: "mode0"/"mode1" in the WDA request, "ignore", "clear" and "enable" the
\* last steps into power save, "query" after leaving it, "end"/"end_queue"
\* before the rcu section at the end (alarm or delayed work), "arm"/"queue"
\* inside it.
WorkPc == {"idle", "decide", "mode1", "ignore", "clear", "enable",
           "mode0", "query", "end", "end_queue", "arm", "queue"}

\* cpc: "test" work_maybe_restart is next; "restart" in work_restart before its
\* rcu section; "queue" inside it, quit was not set; "count" the packet is about
\* to be counted.
ContextPc == {"idle", "test", "restart", "queue", "count"}

TypeOK ==
    /\ {ps_enabled, ps_ignore_grant, dl_msg_active, active, quit, inited,
        pending, alarm, traffic, late} \subseteq BOOLEAN
    /\ wpc \in WorkPc
    /\ cpc \in [Contexts -> ContextPc]
    /\ cpc[AlarmCb] \in {"idle", "restart", "queue"}
    /\ sent \subseteq Contexts /\ AlarmCb \in sent
    /\ rpc \in {"none", "up", "quit", "waited", "synced", "cancelled"}
    /\ granted \subseteq Bearers /\ tx_off \subseteq Bearers
    /\ rat_switch \subseteq Bearers

Init ==
    /\ ps_enabled = FALSE /\ ps_ignore_grant = FALSE /\ dl_msg_active = FALSE
    /\ active = FALSE /\ quit = FALSE /\ inited = FALSE
    /\ pending = FALSE /\ alarm = FALSE
    /\ wpc = "idle" /\ cpc = [c \in Contexts |-> "idle"]
    /\ sent = Contexts /\ rpc = "none" /\ late = FALSE
    /\ traffic = FALSE
    /\ granted = Bearers /\ tx_off = {} /\ rat_switch = {}

-----------------------------------------------------------------------------
(* qmi_rmnet_check_stats                                                    *)

\* In power save: accept grants again, then ask the modem to leave it.
\* Otherwise look at the counters and at dl_msg_active.
CheckStats ==
    /\ pending /\ wpc = "idle"
    /\ pending' = FALSE
    /\ IF ps_enabled
       THEN /\ ps_ignore_grant' = FALSE
            /\ wpc' = "mode0"
            /\ UNCHANGED <<dl_msg_active, traffic>>
       ELSE /\ wpc' = IF traffic THEN "end"
                      ELSE IF dl_msg_active THEN "mode1" ELSE "decide"
            /\ traffic' = FALSE
            /\ dl_msg_active' = FALSE
            /\ UNCHANGED ps_ignore_grant
    /\ UNCHANGED <<ps_enabled, active, alarm, ctx, life, flows>>

\* "If no DL msg received and there is a flow disabled ... no need to enter
\* powersave": rmnet_all_flows_enabled counts the bearers with TX off too.
Decide ==
    /\ wpc = "decide"
    /\ wpc' = IF granted = Bearers THEN "mode1" ELSE "end_queue"
    /\ UNCHANGED <<qmi, active, sched, ctx, life, traffic, flows>>

\* qmi_rmnet_set_powersave_mode(port, 1)
EnterMode(ok) ==
    /\ wpc = "mode1"
    /\ ps_enabled' = ok
    /\ wpc' = IF ok THEN "ignore" ELSE "end"
    /\ UNCHANGED <<ps_ignore_grant, dl_msg_active, active, sched, ctx, life,
                   traffic, flows>>

IgnoreGrants ==
    /\ wpc = "ignore"
    /\ ps_ignore_grant' = TRUE
    /\ wpc' = "clear"
    /\ UNCHANGED <<ps_enabled, dl_msg_active, active, sched, ctx, life,
                   traffic, flows>>

ClearActive ==
    /\ wpc = "clear"
    /\ active' = FALSE
    /\ wpc' = "enable"
    /\ UNCHANGED <<qmi, sched, ctx, life, traffic, flows>>

\* Mutant: the bearers are reset but get no grant
EnableAllFlowsSkips ==
    /\ wpc = "enable"
    /\ rat_switch' = {}
    /\ wpc' = "idle"
    /\ UNCHANGED <<qmi, active, sched, ctx, life, traffic, granted, tx_off>>

\* rmnet_enable_all_flows: the bearers with TX off are reset and get no grant;
\* the work is not queued again.
EnableAllFlows ==
    /\ wpc = "enable"
    /\ rat_switch' = {}
    /\ granted' = granted \cup (Bearers \ tx_off)
    /\ wpc' = "idle"
    /\ UNCHANGED <<qmi, active, sched, ctx, life, traffic, tx_off>>

\* qmi_rmnet_set_powersave_mode(port, 0)
LeaveMode(ok) ==
    /\ wpc = "mode0"
    /\ ps_enabled' = ~ok
    /\ wpc' = IF ok THEN "query" ELSE "end"
    /\ UNCHANGED <<ps_ignore_grant, dl_msg_active, active, sched, ctx, life,
                   traffic, flows>>

\* dfc_update_fc_map of bearer b, and its RAT switch flag rat: grants that come
\* during a RAT switch or while TX is off are ignored.
Granted(b, e, rat) ==
    IF ps_ignore_grant \/ (b \in rat_switch /\ ~rat) \/ (b \in tx_off /\ e)
    THEN granted
    ELSE IF e THEN granted \cup {b} ELSE granted \ {b}

RatSwitch(b, e, rat) ==
    IF ps_ignore_grant \/ ~rat THEN rat_switch
    ELSE IF e THEN rat_switch \ {b} ELSE rat_switch \cup {b}

\* qmi_rmnet_query_flows: the answer is applied like an indication, without RAT
\* switch flags.  It may be about some of the bearers only; gain and lose are
\* the ones it grants and stops.
QueryFlows(gain, lose) ==
    /\ wpc = "query"
    /\ granted' = IF ps_ignore_grant THEN granted
                  ELSE (granted \ (lose \ rat_switch))
                       \cup (gain \ (rat_switch \cup tx_off))
    /\ wpc' = "end"
    /\ UNCHANGED <<qmi, active, sched, ctx, life, traffic, tx_off, rat_switch>>

\* The rcu section at the end: start the alarm or queue the delayed work,
\* unless the work is being torn down.
EndLock ==
    /\ wpc \in {"end", "end_queue"}
    /\ wpc' = IF quit THEN "idle"
              ELSE IF wpc = "end" THEN "arm" ELSE "queue"
    /\ UNCHANGED <<qmi, active, sched, ctx, life, traffic, flows>>

EndArm ==
    /\ wpc \in {"arm", "queue"}
    /\ alarm' = (alarm \/ wpc = "arm")
    /\ pending' = (pending \/ wpc = "queue")
    /\ wpc' = "idle"
    /\ UNCHANGED <<qmi, active, ctx, life, traffic, flows>>

-----------------------------------------------------------------------------
(* Packets and the alarm                                                    *)

\* What context c does after work_maybe_restart
After(c) == IF c \in sent THEN "idle" ELSE "count"

\* A packet is received or transmitted.  With RMNET_INGRESS_FORMAT_PS the
\* ingress and egress handlers call work_maybe_restart before it is counted.
Packet(c, format) ==
    /\ cpc[c] = "idle"
    /\ sent' = sent \ {c}
    /\ cpc' = [cpc EXCEPT ![c] = IF format THEN "test" ELSE "count"]
    /\ UNCHANGED <<qmi, active, sched, wpc, life, traffic, flows>>

\* rmnet_vnd_rx_fixup: the packet is received.
Receive(c) ==
    /\ cpc[c] = "count"
    /\ traffic' = TRUE
    /\ cpc' = [cpc EXCEPT ![c] = "idle"]
    /\ sent' = sent \cup {c}
    /\ UNCHANGED <<qmi, active, sched, wpc, life, flows>>

\* rmnet_vnd_tx_fixup, then in rmnet_vnd_start_xmit the burst check, which may
\* use up the grant of its bearer (used), and work_maybe_restart once more.
Transmit(c, used) ==
    /\ cpc[c] = "count"
    /\ used \subseteq granted
    /\ traffic' = TRUE
    /\ granted' = granted \ used
    /\ cpc' = [cpc EXCEPT ![c] = "test"]
    /\ sent' = sent \cup {c}
    /\ UNCHANGED <<qmi, active, sched, wpc, life, tx_off, rat_switch>>

\* Mutant: the bit is tested and not set
MaybeRestartNoSet(c) ==
    /\ cpc[c] = "test"
    /\ cpc' = [cpc EXCEPT ![c] = IF inited /\ ~active THEN "restart" ELSE After(c)]
    /\ UNCHANGED <<qmi, active, sched, wpc, sent, life, traffic, flows>>

\* qmi_rmnet_work_maybe_restart: test_and_set_bit
MaybeRestart(c) ==
    /\ cpc[c] = "test"
    /\ active' = (active \/ inited)
    /\ cpc' = [cpc EXCEPT ![c] = IF inited /\ ~active THEN "restart" ELSE After(c)]
    /\ UNCHANGED <<qmi, sched, wpc, sent, life, traffic, flows>>

\* qmi_rmnet_work_alarm
AlarmFire ==
    /\ alarm
    /\ cpc[AlarmCb] = "idle"
    /\ alarm' = FALSE
    /\ cpc' = [cpc EXCEPT ![AlarmCb] = "restart"]
    /\ UNCHANGED <<qmi, active, pending, wpc, sent, life, traffic, flows>>

\* qmi_rmnet_work_restart
RestartLock(c) ==
    /\ cpc[c] = "restart"
    /\ cpc' = [cpc EXCEPT ![c] = IF quit THEN After(c) ELSE "queue"]
    /\ UNCHANGED <<qmi, active, sched, wpc, sent, life, traffic, flows>>

RestartQueue(c) ==
    /\ cpc[c] = "queue"
    /\ pending' = TRUE
    /\ cpc' = [cpc EXCEPT ![c] = After(c)]
    /\ UNCHANGED <<qmi, active, alarm, wpc, sent, life, traffic, flows>>

-----------------------------------------------------------------------------
(* Indications                                                              *)

\* dfc_do_burst_flow_control: the test of ps_ignore_grant and the update are
\* under one qos_lock.  Indications set dl_msg_active afterwards, the response
\* to a QMAP query (dl FALSE) does not.
Indication(b, e, rat, dl) ==
    /\ granted' = Granted(b, e, rat)
    /\ rat_switch' = RatSwitch(b, e, rat)
    /\ dl_msg_active' = (dl_msg_active \/ dl)
    /\ UNCHANGED <<ps_enabled, ps_ignore_grant, active, sched, wpc, ctx, life,
                   traffic, tx_off>>

\* dfc_all_bearer_flow_ctl: looks at neither TX nor RAT switch.
AllBearers(e) ==
    /\ granted' = IF ps_ignore_grant THEN granted
                  ELSE IF e THEN Bearers ELSE {}
    /\ dl_msg_active' = TRUE
    /\ UNCHANGED <<ps_enabled, ps_ignore_grant, active, sched, wpc, ctx, life,
                   traffic, tx_off, rat_switch>>

\* dfc_update_tx_link_status, which does not look at ps_ignore_grant
TxLinkStatus(b, on) ==
    /\ (b \in tx_off) = on
    /\ tx_off' = IF on THEN tx_off \ {b} ELSE tx_off \cup {b}
    /\ granted' = IF ~on THEN granted \ {b}
                  ELSE IF b \in rat_switch THEN granted ELSE granted \cup {b}
    /\ dl_msg_active' = TRUE
    /\ UNCHANGED <<ps_enabled, ps_ignore_grant, active, sched, wpc, ctx, life,
                   traffic, rat_switch>>

-----------------------------------------------------------------------------
(* qmi_rmnet_work_init and qmi_rmnet_work_exit                              *)

WorkInit ==
    /\ rpc = "none"
    /\ rpc' = "up"
    /\ quit' = FALSE /\ active' = TRUE /\ pending' = TRUE /\ inited' = TRUE
    /\ traffic' = FALSE
    /\ late' = \E c \in Contexts : cpc[c] = "restart"
    /\ UNCHANGED <<qmi, alarm, wpc, ctx, flows>>

WorkExitQuit ==
    /\ rpc = "up"
    /\ quit' = TRUE
    /\ rpc' = "quit"
    /\ UNCHANGED <<qmi, active, sched, wpc, ctx, inited, late, traffic, flows>>

\* Mutant: no synchronize_rcu
WorkExitNoSync ==
    /\ rpc = "quit"
    /\ rpc' = "waited"
    /\ UNCHANGED <<qmi, active, sched, wpc, ctx, quit, inited, late, traffic,
                   flows>>

\* synchronize_rcu: no reader is left that saw quit unset.
WorkExitSync ==
    /\ rpc = "quit"
    /\ wpc \notin {"arm", "queue"}
    /\ \A c \in Contexts : cpc[c] # "queue"
    /\ rpc' = "waited"
    /\ UNCHANGED <<qmi, active, sched, wpc, ctx, quit, inited, late, traffic,
                   flows>>

\* rmnet_work_inited = false.  A packet that saw it set may still be on its way
\* into work_restart, where it finds quit set.
WorkExitInited ==
    /\ rpc = "waited"
    /\ inited' = FALSE
    /\ rpc' = "synced"
    /\ UNCHANGED <<qmi, active, sched, wpc, ctx, quit, late, traffic, flows>>

\* alarm_cancel, which waits for the callback
WorkExitAlarm ==
    /\ rpc = "synced"
    /\ cpc[AlarmCb] = "idle"
    /\ alarm' = FALSE
    /\ rpc' = "cancelled"
    /\ UNCHANGED <<qmi, active, pending, wpc, ctx, quit, inited, late, traffic,
                   flows>>

\* cancel_delayed_work_sync, which waits for check_stats, destroy_workqueue,
\* clear the bit, kfree
WorkExitFree ==
    /\ rpc = "cancelled"
    /\ wpc = "idle"
    /\ pending' = FALSE
    /\ active' = FALSE
    /\ rpc' = "none"
    /\ UNCHANGED <<qmi, alarm, wpc, ctx, quit, inited, late, traffic, flows>>

-----------------------------------------------------------------------------

Work == \/ CheckStats \/ Decide \/ IgnoreGrants \/ ClearActive \/ EnableAllFlows
        \/ \E ok \in BOOLEAN : EnterMode(ok) \/ LeaveMode(ok)
        \/ \E gain, lose \in SUBSET Bearers : QueryFlows(gain, lose)
        \/ EndLock \/ EndArm

Restart(c) ==
    \/ MaybeRestart(c) \/ RestartLock(c) \/ RestartQueue(c)
    \/ Receive(c) \/ Transmit(c, {}) \/ \E b \in Bearers : Transmit(c, {b})

Modem ==
    \/ \E b \in Bearers, e, rat, dl \in BOOLEAN : Indication(b, e, rat, dl)
    \/ \E e \in BOOLEAN : AllBearers(e)
    \/ \E b \in Bearers, on \in BOOLEAN : TxLinkStatus(b, on)

Next ==
    \/ Work
    \/ AlarmFire
    \/ \E c \in Packets, format \in BOOLEAN : Packet(c, format)
    \/ \E c \in Contexts : Restart(c)
    \/ Modem
    \/ WorkInit \/ WorkExitQuit \/ WorkExitSync \/ WorkExitInited
    \/ WorkExitAlarm \/ WorkExitFree

Spec == Init /\ [][Next]_vars

\* The work queue runs queued work, the alarm goes off, a context that started
\* goes on, and of infinitely many requests to leave power save the modem
\* answers some.
Fairness ==
    /\ WF_vars(Work) /\ WF_vars(AlarmFire)
    /\ \A c \in Contexts : WF_vars(Restart(c))
    /\ SF_vars(LeaveMode(TRUE))

FairSpec == Spec /\ Fairness

-----------------------------------------------------------------------------
(* Properties.                                                              *)

\* What will run check_stats again: the queued work, the alarm, a context on
\* its way to queue it, or check_stats itself before it gives the duty up.
Carriers ==
    ({"context"} \X {c \in Contexts : cpc[c] \in {"restart", "queue"}})
    \cup (IF pending THEN {<<"work", "queued">>} ELSE {})
    \cup (IF alarm THEN {<<"alarm", "started">>} ELSE {})
    \cup (IF wpc \in WorkPc \ {"idle", "enable"} THEN {<<"work", "running">>}
          ELSE {})

\* The active bit is right: while it is set exactly one carrier will run
\* check_stats, and while it is clear none will, so that the packet that sets
\* it is the one that queues the work.  If a bit were left set without a
\* carrier, power save would never be left again.  The exception is a packet
\* that saw the old work inited after the grace period and slept through the
\* rest of work_exit and the next work_init: it queues the new work once more.
OneCarrier ==
    rpc = "up" /\ ~late => Cardinality(Carriers) = IF active THEN 1 ELSE 0

\* Grants are ignored only in power save, also while requests to the modem
\* fail.
IgnoreOnlyInPowerSave == ps_ignore_grant => ps_enabled

\* After work_exit freed the work nothing refers to it: no alarm, nothing
\* queued or running, no context that saw quit unset.
NothingAfterExit ==
    rpc = "none" =>
        /\ ~pending /\ ~alarm /\ wpc = "idle"
        /\ \A c \in Contexts : cpc[c] # "queue"

\* A bearer that is without a grant in power save while its TX link is on gets
\* going again: check_stats enables it, or leaves power save and so hears of new
\* grants ("Clear the bit before enabling flow so pending packets can trigger
\* the work again").  A bearer with TX off is skipped and waits for its TX link.
StalledFlowsRecover ==
    \A b \in Bearers :
        (rpc = "up" /\ ps_enabled /\ b \notin granted /\ b \notin tx_off)
        ~> (b \in granted \/ b \in tx_off \/ ~ps_enabled \/ rpc # "up")

\* Through entering, leaving and teardown at any point: grants are not ignored
\* outside power save, and the freed work is not referred to.
WorkSound == TypeOK /\ IgnoreOnlyInPowerSave /\ NothingAfterExit

=============================================================================
