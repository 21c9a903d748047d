----------------------------- MODULE QmiClients -----------------------------
(***************************************************************************)
(* The clients of a port (qmi_rmnet.c, dfc_qmi.c, wda_qmi.c, dfc_qmap.c):  *)
(* struct qmi_info with its two DFC clients and its WDA client, set up and *)
(* deleted by netlink requests under rtnl, and used by the power save work *)
(* without any lock.  A client over QMI is brought up by a work item that  *)
(* needs rtnl itself.  A DFC client over QMAP registers with rmnet_ctl     *)
(* (rmnet_ctl_client.c), whose receive path finds it under rcu_read_lock.  *)
(*                                                                         *)
(* A client slot holds at most one struct at a time.  The netlink thread   *)
(* is a small program (variable rt); it holds rtnl unless it is idle.      *)
(* What the power save work does between two uses of a client is module    *)
(* PowerSave.                                                              *)
(***************************************************************************)
EXTENDS Naturals

CONSTANTS
    Setups   \* what user space may do: sets of NLMSG_CLIENT_SETUP requests
             \* <<index, power save flag, qmap flag>>

Indices == {0, 1}
Dfc == {"dfc0", "dfc1"}
Slots == Dfc \cup {"wda"}
DfcSlot(i) == IF i = 0 THEN "dfc0" ELSE "dfc1"

ASSUME SetupAssumption ==
    Setups \subseteq SUBSET (Indices \X BOOLEAN \X BOOLEAN)

VARIABLES
    user,    \* the requests that user space makes
    qmi,     \* port->qmi_info is there
    ptr,     \* where qmi_info holds the client: pending, client or nowhere
    client,  \* the struct of each slot and its work item svc_arrive
    exiting, \* dfc_client_exiting
    ps_up,   \* the power save work is set up
    ps,      \* the power save work: where it is, the client it uses
    rt,      \* the thread that holds rtnl: program counter and what it deletes
    dfc_qmap, \* the global flag, of the last setup request
    qmap,    \* qmap_dfc_data, and the client of rmnet_ctl
    rx,      \* a QMAP command on its way in
    switched, \* history: the transport changed while there was a DFC client
    mixed    \* a client was handled as one of the other transport

qmapVars == <<dfc_qmap, qmap, rx, switched, user>>
vars == <<qmi, ptr, client, exiting, ps_up, ps, rt, qmapVars, mixed>>

\* alloc: not freed; handle: the qmi handle is registered, so that the modem's
\* service may arrive; restart: restart_state; queued, wpc: svc_arrive; via:
\* the transport it was created for.
NoClient == [alloc |-> FALSE, handle |-> FALSE, restart |-> FALSE,
             queued |-> FALSE, wpc |-> "idle", via |-> "qmi"]
QmiClient == [NoClient EXCEPT !.alloc = TRUE, !.handle = TRUE]
QmapClient == [NoClient EXCEPT !.alloc = TRUE, !.via = "qmap"]

\* pc: "idle", or what comes next; todo: the DFC indices still to be deleted;
\* all: qmi_rmnet_qmi_exit, not the deletion of one client.
IdleRt == [pc |-> "idle", todo |-> {}, all |-> FALSE]
RtPc == {"idle", "psexit", "wda", "wdadrain", "wdaclear", "flush", "dfc",
         "drain", "ctlwait", "qmapwait", "clear", "last"}

\* ctl is "gone" from when rmnet_ctl forgets its client until that is freed.
NoQmap == [data |-> "none", ctl |-> "none"]
IdleRx == [pc |-> "idle", uses |-> {}]

TypeOK ==
    /\ qmi \in BOOLEAN /\ ps_up \in BOOLEAN
    /\ ptr \in [Slots -> {"none", "pending", "client"}]
    /\ client \in [Slots -> [alloc : BOOLEAN, handle : BOOLEAN,
                             restart : BOOLEAN, queued : BOOLEAN,
                             wpc : {"idle", "marker", "init", "lock"},
                             via : {"qmi", "qmap"}]]
    /\ exiting \in [Indices -> BOOLEAN]
    /\ ps \in [pc : {"idle", "mode", "query0", "query1"}, uses : SUBSET Slots]
    /\ rt \in [pc : RtPc, todo : SUBSET Indices, all : BOOLEAN]
    /\ rt.pc \in {"flush", "dfc", "drain", "clear"} => rt.todo # {}
    /\ dfc_qmap \in BOOLEAN /\ switched \in BOOLEAN /\ mixed \in BOOLEAN
    /\ qmap \in [data : Dfc \cup {"none"}, ctl : {"none", "set", "gone"}]
    /\ rx \in [pc : {"idle", "hook", "cmd"}, uses : SUBSET Dfc]

Init ==
    /\ user \in Setups
    /\ qmi = FALSE /\ ps_up = FALSE
    /\ ptr = [s \in Slots |-> "none"]
    /\ client = [s \in Slots |-> NoClient]
    /\ exiting = [i \in Indices |-> FALSE]
    /\ ps = [pc |-> "idle", uses |-> {}]
    /\ rt = IdleRt
    /\ dfc_qmap = FALSE /\ qmap = NoQmap /\ rx = IdleRx
    /\ switched = FALSE /\ mixed = FALSE

NoRef(p) == \A s \in Slots : p[s] = "none"

-----------------------------------------------------------------------------
(* NLMSG_CLIENT_SETUP                                                       *)

\* The slots for which qmi_rmnet_setup_client creates a client
Tried(i, save) ==
    {s \in {DfcSlot(i)} \cup (IF save /\ i = 0 THEN {"wda"} ELSE {}) :
        ptr[s] = "none"}

\* The slots for which that may succeed: there is one client over QMAP
Possible(tried, q) ==
    IF q /\ qmap.data # "none" THEN tried \ Dfc ELSE tried

\* dfc_qmi_client_init and wda_qmi_client_init leave a client pending,
\* dfc_qmap_client_init installs it and registers with rmnet_ctl, which may
\* fail (reg) without an error
Create(made, q, reg) ==
    LET Over(s) == q /\ s \in Dfc
    IN  /\ ptr' = [s \in Slots |-> IF s \notin made THEN ptr[s]
                                  ELSE IF Over(s) THEN "client" ELSE "pending"]
        /\ client' = [s \in Slots |-> IF s \notin made THEN client[s]
                                     ELSE IF Over(s) THEN QmapClient
                                     ELSE QmiClient]
        /\ qmap' = IF q /\ made \cap Dfc # {}
                   THEN [data |-> CHOOSE s \in made : s \in Dfc,
                         ctl |-> IF reg THEN "set" ELSE "none"]
                   ELSE qmap
        /\ dfc_qmap' = q
        /\ switched' = ((switched \/ q # dfc_qmap)
                          /\ \E s \in Dfc : client[s].alloc)

\* Mutant: the new DFC client is left marked as exiting
SetupClientStillExiting(i, save, q, made, reg) ==
    LET tried == Tried(i, save)
        last == IF "wda" \in tried THEN "wda" ELSE DfcSlot(i)
        err == last \in tried \ made
    IN  /\ rt = IdleRt
        /\ made \subseteq Possible(tried, q)
        /\ Create(made, q, reg)
        /\ qmi' = ~(err /\ NoRef(ptr'))
        /\ ps_up' = (ps_up \/ (save /\ ~err))
        /\ UNCHANGED <<exiting, ps, rt, rx, user, mixed>>

\* qmi_rmnet_setup_client: qmi_info is allocated, zeroed, if there is none; the
\* error of the last client that was tried counts.
\* Without an error the power save work is started; with one, a qmi_info
\* without clients is freed.
SetupClient(i, save, q, made, reg) ==
    LET tried == Tried(i, save)
        last == IF "wda" \in tried THEN "wda" ELSE DfcSlot(i)
        err == last \in tried \ made
    IN  /\ rt = IdleRt
        /\ made \subseteq Possible(tried, q)
        /\ Create(made, q, reg)
        /\ exiting' = [j \in Indices |->
                         qmi /\ exiting[j] /\ ~(j = i /\ DfcSlot(i) \in tried)]
        /\ qmi' = ~(err /\ NoRef(ptr'))
        /\ ps_up' = (ps_up \/ (save /\ ~err))
        /\ UNCHANGED <<ps, rt, rx, user, mixed>>

-----------------------------------------------------------------------------
(* svc_arrive: dfc_svc_init and wda_svc_config                              *)

\* The service is there, for the first time or again: dfc_svc_arrive,
\* wda_svc_arrive.
SvcArrive(s) ==
    /\ client[s].handle
    /\ client' = [client EXCEPT ![s].queued = TRUE]
    /\ UNCHANGED <<qmi, ptr, exiting, ps_up, ps, rt, qmapVars, mixed>>

SvcStart(s) ==
    /\ client[s].queued
    /\ client[s].wpc = "idle"
    /\ client' = [client EXCEPT ![s].queued = FALSE,
                     ![s].wpc = IF s = "wda" THEN "marker"
                                ELSE IF client[s].restart THEN "idle" ELSE "init"]
    /\ UNCHANGED <<qmi, ptr, exiting, ps_up, ps, rt, qmapVars, mixed>>

\* The loop around rtnl_trylock ends when the client is being deleted.
SvcGivesUp(s) ==
    /\ client[s].wpc \in {"marker", "lock"}
    /\ rt # IdleRt
    /\ client[s].restart
    /\ client' = [client EXCEPT ![s].wpc = "idle"]
    /\ UNCHANGED <<qmi, ptr, exiting, ps_up, ps, rt, qmapVars, mixed>>

\* wda_svc_config reads the DL marker flag under rtnl.
SvcMarker ==
    /\ client["wda"].wpc = "marker"
    /\ rt = IdleRt
    /\ client' = [client EXCEPT !["wda"].wpc =
                     IF client["wda"].restart THEN "idle" ELSE "init"]
    /\ UNCHANGED <<qmi, ptr, exiting, ps_up, ps, rt, qmapVars, mixed>>

\* The requests to the modem (dfc_init_service, wda_set_powersave_config_req)
\* are over.
SvcInit(s, ok) ==
    /\ client[s].wpc = "init"
    /\ client' = [client EXCEPT ![s].wpc =
                     IF ~ok \/ client[s].restart THEN "idle" ELSE "lock"]
    /\ UNCHANGED <<qmi, ptr, exiting, ps_up, ps, rt, qmapVars, mixed>>

\* rtnl is free: the pending client becomes the client.
SvcEstablished(s) ==
    /\ client[s].wpc = "lock"
    /\ rt = IdleRt
    /\ ptr' = IF qmi THEN [ptr EXCEPT ![s] = "client"] ELSE ptr
    /\ client' = [client EXCEPT ![s].wpc = "idle"]
    /\ UNCHANGED <<qmi, exiting, ps_up, ps, rt, qmapVars, mixed>>

-----------------------------------------------------------------------------
(* The power save work                                                      *)

\* check_stats reads qmi_info, which must then stay.
PsStart ==
    /\ ps_up /\ qmi
    /\ ps.pc = "idle"
    /\ ps' = [ps EXCEPT !.pc = "mode"]
    /\ UNCHANGED <<qmi, ptr, client, exiting, ps_up, rt, qmapVars, mixed>>

\* It uses the WDA client, if there is one, in qmi_rmnet_set_powersave_mode;
\* this sleeps.
PsUseWda ==
    /\ ps.pc = "mode" /\ ps.uses = {}
    /\ ptr["wda"] = "client"
    /\ ps' = [ps EXCEPT !.uses = {"wda"}]
    /\ UNCHANGED <<qmi, ptr, client, exiting, ps_up, rt, qmapVars, mixed>>

\* Mutant: dfc_client_exiting is not looked at
PsQueryExiting(i) ==
    /\ ps.pc = (IF i = 0 THEN "query0" ELSE "query1") /\ ps.uses = {}
    /\ ptr[DfcSlot(i)] = "client" /\ ~dfc_qmap
    /\ ps' = [ps EXCEPT !.uses = {DfcSlot(i)}]
    /\ UNCHANGED <<qmi, ptr, client, exiting, ps_up, rt, qmapVars, mixed>>

\* qmi_rmnet_query_flows: so does dfc_qmi_query_flow with each DFC client.
PsQuery(i) ==
    /\ ps.pc = (IF i = 0 THEN "query0" ELSE "query1") /\ ps.uses = {}
    /\ ptr[DfcSlot(i)] = "client" /\ ~dfc_qmap /\ ~exiting[i]
    /\ ps' = [ps EXCEPT !.uses = {DfcSlot(i)}]
    /\ mixed' = (client[DfcSlot(i)].via = "qmap")
    /\ UNCHANGED <<qmi, ptr, client, exiting, ps_up, rt, qmapVars>>

\* On to the next client: after a use, or without one.  The query is made
\* after the request to leave power save succeeded.
PsNext(more) ==
    /\ ps.pc # "idle"
    /\ ps' = [pc |-> CASE ps.pc = "mode" -> IF more THEN "query0" ELSE "idle"
                       [] ps.pc = "query0" -> "query1"
                       [] ps.pc = "query1" -> "idle",
              uses |-> {}]
    /\ UNCHANGED <<qmi, ptr, client, exiting, ps_up, rt, qmapVars, mixed>>

-----------------------------------------------------------------------------
(* NLMSG_CLIENT_DELETE and qmi_rmnet_qmi_exit                               *)

\* For instance 0, and when the port goes away, the WDA handle is released and
\* the power save work is stopped first.
DeleteClient(i) ==
    /\ rt = IdleRt
    /\ qmi
    /\ rt' = [pc |-> IF i = 0 THEN "psexit" ELSE "wda", todo |-> {i},
              all |-> FALSE]
    /\ client' = [client EXCEPT !["wda"].handle = @ /\ i # 0]
    /\ UNCHANGED <<qmi, ptr, exiting, ps_up, ps, qmapVars, mixed>>

QmiExit ==
    /\ rt = IdleRt
    /\ qmi
    /\ rt' = [pc |-> "psexit", todo |-> Indices, all |-> TRUE]
    /\ client' = [client EXCEPT !["wda"].handle = FALSE]
    /\ UNCHANGED <<qmi, ptr, exiting, ps_up, ps, qmapVars, mixed>>

\* qmi_rmnet_work_exit returns when check_stats is over.
PsExit ==
    /\ rt.pc = "psexit"
    /\ ps.pc = "idle"
    /\ ps_up' = FALSE
    /\ rt' = [rt EXCEPT !.pc = "wda"]
    /\ UNCHANGED <<qmi, ptr, client, exiting, ps, qmapVars, mixed>>

\* The WDA client is deleted with instance 0.  Otherwise the power save work
\* is told that the DFC client goes, and flushed.
DeleteWda ==
    LET mine == (rt.all \/ rt.todo = {0}) /\ ptr["wda"] # "none"
    IN  /\ rt.pc = "wda"
        /\ client' = [client EXCEPT !["wda"].restart = @ \/ mine]
        /\ exiting' = [i \in Indices |->
                         exiting[i] \/ (~mine /\ ~rt.all /\ i \in rt.todo)]
        /\ rt' = [rt EXCEPT !.pc = IF mine THEN "wdadrain"
                                   ELSE IF rt.all THEN "dfc" ELSE "flush"]
        /\ UNCHANGED <<qmi, ptr, ps_up, ps, qmapVars, mixed>>

\* wda_qmi_client_exit: destroy_workqueue waits for the work, kfree; then the
\* pointers are cleared.
WdaDrained ==
    /\ rt.pc = "wdadrain"
    /\ client["wda"].wpc = "idle" /\ ~client["wda"].queued
    /\ client' = [client EXCEPT !["wda"] = NoClient]
    /\ rt' = [rt EXCEPT !.pc = "wdaclear"]
    /\ UNCHANGED <<qmi, ptr, exiting, ps_up, ps, qmapVars, mixed>>

WdaCleared ==
    /\ rt.pc = "wdaclear"
    /\ ptr' = [ptr EXCEPT !["wda"] = "none"]
    /\ rt' = [rt EXCEPT !.pc = "dfc"]
    /\ UNCHANGED <<qmi, client, exiting, ps_up, ps, qmapVars, mixed>>

\* qmi_rmnet_flush_ps_wq
FlushPsWq ==
    /\ rt.pc = "flush"
    /\ ps.pc = "idle"
    /\ rt' = [rt EXCEPT !.pc = "dfc"]
    /\ UNCHANGED <<qmi, ptr, client, exiting, ps_up, ps, qmapVars, mixed>>

\* The index __qmi_rmnet_delete_client is at
Now == IF 0 \in rt.todo THEN 0 ELSE 1

\* Mutant: restart_state is not set
DeleteDfcNoRestart ==
    /\ rt.pc = "dfc"
    /\ client' = [client EXCEPT ![DfcSlot(Now)].handle = FALSE]
    /\ rt' = [rt EXCEPT !.pc = IF ptr[DfcSlot(Now)] = "none" THEN "last"
                                                             ELSE "drain"]
    /\ UNCHANGED <<qmi, ptr, exiting, ps_up, ps, qmapVars, mixed>>

\* __qmi_rmnet_delete_client, by the transport of the last setup request.
\* dfc_qmi_client_exit: no more arrivals; dfc_qmap_client_exit: rmnet_ctl
\* forgets its client ...
DeleteDfc ==
    LET s == DfcSlot(Now)
    IN  /\ rt.pc = "dfc"
        /\ \/ /\ ptr[s] = "none"
              /\ rt' = [rt EXCEPT !.pc = "last"]
              /\ UNCHANGED <<client, qmap, mixed>>
           \/ /\ ptr[s] # "none" /\ dfc_qmap # (client[s].via = "qmap")
              /\ mixed' = TRUE
              /\ UNCHANGED <<rt, client, qmap>>
           \/ /\ ptr[s] # "none" /\ ~dfc_qmap /\ client[s].via = "qmi"
              /\ rt' = [rt EXCEPT !.pc = "drain"]
              /\ client' = [client EXCEPT ![s].restart = TRUE,
                                          ![s].handle = FALSE]
              /\ UNCHANGED <<qmap, mixed>>
           \/ /\ ptr[s] # "none" /\ dfc_qmap /\ client[s].via = "qmap"
              /\ rt' = [rt EXCEPT !.pc = "ctlwait"]
              /\ qmap' = [qmap EXCEPT !.ctl = "gone"]
              /\ UNCHANGED <<client, mixed>>
        /\ UNCHANGED <<qmi, ptr, exiting, ps_up, ps, dfc_qmap, rx, switched, user>>

\* Readers at the time of a synchronize_rcu are over; none of the later ones
\* finds what was taken away
GracePeriod == rx.pc = "idle"

\* rmnet_ctl_unregister_client frees its client; then qmap_dfc_data goes ...
CtlFreed ==
    /\ rt.pc = "ctlwait" /\ GracePeriod
    /\ qmap' = NoQmap
    /\ client' = [client EXCEPT ![DfcSlot(Now)].restart = TRUE]
    /\ rt' = [rt EXCEPT !.pc = "qmapwait"]
    /\ UNCHANGED <<qmi, ptr, exiting, ps_up, ps, dfc_qmap, rx, switched, user,
                   mixed>>

\* ... and the client, after another grace period
QmapFreed ==
    /\ rt.pc = "qmapwait" /\ GracePeriod
    /\ client' = [client EXCEPT ![DfcSlot(Now)] = NoClient]
    /\ rt' = [rt EXCEPT !.pc = "clear"]
    /\ UNCHANGED <<qmi, ptr, exiting, ps_up, ps, qmapVars, mixed>>

\* ... drain_workqueue waits for the work, kfree ...
DfcDrained ==
    LET s == DfcSlot(Now)
    IN  /\ rt.pc = "drain"
        /\ client[s].wpc = "idle" /\ ~client[s].queued
        /\ client' = [client EXCEPT ![s] = NoClient]
        /\ rt' = [rt EXCEPT !.pc = "clear"]
        /\ UNCHANGED <<qmi, ptr, exiting, ps_up, ps, qmapVars, mixed>>

\* ... and the pointers are cleared.
DfcCleared ==
    /\ rt.pc = "clear"
    /\ ptr' = [ptr EXCEPT ![DfcSlot(Now)] = "none"]
    /\ rt' = [rt EXCEPT !.pc = "last"]
    /\ UNCHANGED <<qmi, client, exiting, ps_up, ps, qmapVars, mixed>>

\* qmi_info is freed with its last client; qmi_exit goes on until then.
Last ==
    /\ rt.pc = "last"
    /\ qmi' = ~NoRef(ptr)
    /\ rt' = IF qmi' /\ rt.todo \ {Now} # {}
             THEN [rt EXCEPT !.pc = "dfc", !.todo = @ \ {Now}] ELSE IdleRt
    /\ UNCHANGED <<ptr, client, exiting, ps_up, ps, qmapVars, mixed>>

-----------------------------------------------------------------------------

(* QMAP commands                                                            *)

\* rmnet_ctl_endpoint_post finds the client of rmnet_ctl and calls its hook
EndpointPost ==
    /\ rx.pc = "idle" /\ qmap.ctl = "set"
    /\ rx' = [rx EXCEPT !.pc = "hook"]
    /\ UNCHANGED <<qmi, ptr, client, exiting, ps_up, ps, rt, dfc_qmap, qmap,
                   switched, user, mixed>>

\* dfc_qmap_cmd_handler finds the DFC client
CmdHandler ==
    /\ rx.pc = "hook"
    /\ rx' = IF qmap.data = "none" THEN IdleRx
             ELSE IF client[qmap.data].restart THEN IdleRx
             ELSE [pc |-> "cmd", uses |-> {qmap.data}]
    /\ UNCHANGED <<qmi, ptr, client, exiting, ps_up, ps, rt, dfc_qmap, qmap,
                   switched, user, mixed>>

\* and returns, with rcu_read_unlock
CmdDone ==
    /\ rx.pc = "cmd"
    /\ rx' = IdleRx
    /\ UNCHANGED <<qmi, ptr, client, exiting, ps_up, ps, rt, dfc_qmap, qmap,
                   switched, user, mixed>>

-----------------------------------------------------------------------------

Svc(s) == \/ SvcStart(s) \/ SvcGivesUp(s) \/ SvcEstablished(s)
          \/ \E ok \in BOOLEAN : SvcInit(s, ok)

PsWork == \/ PsUseWda \/ (\E i \in Indices : PsQuery(i))
          \/ \E more \in BOOLEAN : PsNext(more)

Deleting == \/ PsExit \/ DeleteWda \/ WdaDrained \/ WdaCleared \/ FlushPsWq
            \/ DeleteDfc \/ DfcDrained \/ CtlFreed \/ QmapFreed \/ DfcCleared
            \/ Last

\* What follows on a client of the other transport is undefined
Over == mixed /\ UNCHANGED vars

Going ==
    \/ \E r \in user, made \in SUBSET Slots, reg \in BOOLEAN :
          SetupClient(r[1], r[2], r[3], made, reg)
    \/ \E i \in Indices : DeleteClient(i)
    \/ QmiExit
    \/ Deleting
    \/ \E s \in Slots : SvcArrive(s) \/ Svc(s)
    \/ SvcMarker
    \/ PsStart \/ PsWork
    \/ EndpointPost \/ CmdHandler \/ CmdDone

Next == (~mixed /\ Going) \/ Over

Spec == Init /\ [][Next]_vars

\* Work that was queued runs, its requests end (each has a timeout), and the
\* netlink thread goes on.  To cancel or to flush the power save work is to wait
\* for a run that was there when the wait began, so that a work that is queued
\* again and again does not hold it up (strong fairness).  A work item that
\* loops on rtnl_trylock while rtnl is free again and again need not get it.
\* A context under rcu_read_lock goes on.
Fairness ==
    /\ \A s \in Slots : /\ WF_vars(~mixed /\ SvcStart(s))
                        /\ WF_vars(~mixed /\ SvcGivesUp(s))
                        /\ WF_vars(~mixed /\ \E ok \in BOOLEAN : SvcInit(s, ok))
    /\ WF_vars(~mixed /\ \E more \in BOOLEAN : PsNext(more))
    /\ WF_vars(~mixed /\ (CmdHandler \/ CmdDone))
    /\ WF_vars(~mixed /\ Deleting)
    /\ SF_vars(~mixed /\ PsExit) /\ SF_vars(~mixed /\ FlushPsWq)

FairSpec == Spec /\ Fairness

-----------------------------------------------------------------------------
(* Properties.                                                              *)

\* No client is used after it was freed: neither by its own svc_arrive work,
\* which may be anywhere when the client is deleted, nor by the power save
\* work, which reads the pointers without a lock and sleeps while it uses the
\* client, nor by a QMAP command that found it before it was taken away.
ClientLive ==
    \A s \in Slots : ~client[s].alloc =>
        /\ client[s].wpc = "idle" /\ ~client[s].queued
        /\ s \notin ps.uses \cup rx.uses

\* qmi_info and qmap_dfc_data refer to exactly the clients there are: none is
\* leaked, and a dangling pointer is there only between the kfree and the
\* assignment after it, while the power save work cannot take it.  rmnet_ctl
\* has a client only while there is a DFC client for it, and a command that
\* found it keeps it.
PointersLive ==
    /\ \A s \in Slots :
        \/ (ptr[s] # "none") = client[s].alloc
        \/ s = "wda" /\ rt.pc = "wdaclear" /\ ps.pc = "idle"
        \/ s \in Dfc /\ rt.pc = "clear"
    /\ \A s \in Dfc : client[s].alloc /\ client[s].via = "qmap" =>
          qmap.data = s \/ rt.pc = "qmapwait"
    /\ qmap.data = "none" => qmap.ctl = "none"
    /\ rx.pc # "idle" => qmap.ctl # "none"

\* qmi_info is not freed under the power save work or with a client left.
QmiLive == ~qmi => ps.pc = "idle" /\ NoRef(ptr)

\* A DFC client that is in place and is not being deleted takes part in the
\* query that ends power save.
QueriedWhenUp ==
    \A i \in Indices : (exiting[i] /\ ptr[DfcSlot(i)] # "none") =>
        rt # IdleRt /\ i \in rt.todo

\* Deleting clients ends: the thread that holds rtnl and drains the work queue
\* does not wait for ever for a work item that wants rtnl, nor for commands
\* that keep coming in.
DeleteReturns == rt # IdleRt ~> rt = IdleRt \/ mixed

\* Nothing is used after it was freed and nothing is leaked: clients, their
\* pointers and qmi_info, with deletion at any point of the service arrival
\* work, of the power save work and of a QMAP command.  A client is queried and
\* deleted by the code of the transport it was created for, although that is
\* chosen by a global flag that each setup request sets, if no request names
\* the other transport while there is a DFC client.
ClientsSound ==
    /\ TypeOK /\ ClientLive /\ PointersLive /\ QmiLive
    /\ mixed => switched
=============================================================================
