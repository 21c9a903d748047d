-------------------------------- MODULE Port --------------------------------
(***************************************************************************)
(* The life of ports, endpoints and rmnet devices (rmnet_config.c,         *)
(* rmnet_vnd.c), of the QoS state that hangs off a device (the exits of    *)
(* qmi_rmnet.c) and of the clients of downlink markers                     *)
(* (rmnet_map_command.c).                                                  *)
(*                                                                         *)
(* Configuration runs under rtnl_lock: one operation at a time, taken      *)
(* apart here into the steps between which readers can see the             *)
(* difference.  Readers, the receive and transmit paths and the workers of *)
(* flow control, hold rcu_read_lock only.  synchronize_rcu waits for the   *)
(* readers that are in when it starts.                                     *)
(*                                                                         *)
(* Where the code would follow a null or dangling pointer, crash says      *)
(* which, and the behaviour ends.                                          *)
(***************************************************************************)
EXTENDS Integers, Sequences, FiniteSets, SequencesExt

CONSTANTS
    Reals,     \* physical devices
    Vnds,      \* rmnet devices
    MaxMux,    \* RMNET_MAX_LOGICAL_EP - 1; mux ids from 1 on are used
    Eps,       \* endpoint objects that memory has room for
    Readers,   \* contexts that hold rcu_read_lock
    Clients,   \* modules that may register for downlink markers
    Priority,  \* of each client
    Envs,      \* records [readers, clients, bridge]: who takes part
    NULL

ASSUME PortAssumption ==
    /\ Priority \in [Clients -> Nat]
    /\ \A v \in Envs : v.readers \subseteq Readers /\ v.clients \subseteq Clients
    /\ MaxMux \in Nat
    /\ IsFiniteSet(Eps) /\ IsFiniteSet(Vnds)
    /\ Cardinality(Eps) >= Cardinality(Vnds)

Muxes == 1 .. MaxMux

\* NULL is no object and no name of a pointer
ASSUME NullAssumption ==
    /\ NULL \notin Reals \cup Vnds \cup Eps
    /\ NULL \notin Muxes
    /\ NULL \notin {"half", "port", "egress", "timer"}

VARIABLES
    env,     \* an element of Envs
    port,    \* the port of each physical device
    vnd,     \* the rmnet devices and their private data
    ep,      \* struct rmnet_endpoint objects
    rt,      \* the holder of rtnl_lock
    wait,    \* the readers its grace period waits for
    rd,      \* the readers
    misled,  \* history: changelink named another port or a taken mux id
    mixed,   \* history: a port of a bridge got a link or a second bridge
    nomem,   \* history: rmnet_descriptor_init ran out of memory
    crash    \* the pointer that was followed and should not have been

hist == <<misled, mixed, nomem>>
vars == <<env, port, vnd, ep, rt, wait, rd, hist, crash>>

\* A port: st is "live" while rx_handler_data points to it and "dying" from
\* then until it is freed.  eps is muxed_ep, built whether its descriptor
\* pool, aggregation and command lists were set up, qmi whether a flow
\* control client has the port and dl the list of marker clients.
NoPort == [st |-> "none", mode |-> "none", bridge_ep |-> NULL, nr |-> 0,
           eps |-> [m \in Muxes |-> <<>>], built |-> FALSE, qmi |-> FALSE,
           dl |-> <<>>]

\* A device: st is "reg", "closed" (no more packets are sent through it),
\* "uninit" or "none".  qos is "cleanup" from qmi_rmnet_qos_exit_pre on,
\* timer whether a watchdog of one of its bearers is armed.
NoVnd == [st |-> "none", real |-> NULL, mux |-> NULL, qos |-> "none",
          timer |-> FALSE]

NoEp == [st |-> "none", real |-> NULL, mux |-> NULL, egress_dev |-> NULL]

Away == [kind |-> "none", pc |-> "idle", real |-> NULL, ep |-> NULL,
         dev |-> NULL]

\* The holder of rtnl_lock: its step pc, and grace while that waits in
\* synchronize_rcu; the operation op, the port it works on, the devices vs and
\* the endpoints es it deletes, the endpoint ep it took its device from last,
\* and the mux id of a new link.  gone is the device whose port
\* rmnet_unregister_real_device gives up, back the step it returns to.
NoWork == [op |-> "none", pc |-> "idle", grace |-> FALSE, real |-> NULL,
           vs |-> {}, es |-> {}, ep |-> NULL, mux |-> NULL,
           gone |-> NULL, back |-> "idle"]

Init ==
    /\ env \in Envs
    /\ port = [r \in Reals |-> NoPort]
    /\ vnd = [v \in Vnds |-> NoVnd]
    /\ ep = [e \in Eps |-> NoEp]
    /\ rt = NoWork /\ wait = {}
    /\ rd = [k \in Readers |-> Away]
    /\ misled = FALSE /\ mixed = FALSE /\ nomem = FALSE
    /\ crash = NULL

Steps == {"idle", "newlink", "qmi_exit", "bridge", "detach", "unlist", "free",
          "qmi_last", "close", "uninit", "exit_post", "freedev",
          "unreal", "dying", "freeport"}

TypeOK ==
    /\ env \in Envs
    /\ port \in [Reals ->
           [st : {"none", "live", "dying"}, mode : {"none", "vnd", "bridge"},
            bridge_ep : Reals \cup {NULL}, nr : Nat,
            eps : [Muxes -> Seq(Eps)], built : BOOLEAN, qmi : BOOLEAN,
            dl : Seq(Clients)]]
    /\ vnd \in [Vnds ->
           [st : {"none", "reg", "closed", "uninit"},
            real : Reals \cup {NULL}, mux : Muxes \cup {NULL},
            qos : {"none", "live", "cleanup"}, timer : BOOLEAN]]
    /\ ep \in [Eps ->
           [st : {"none", "listed", "dead"}, real : Reals \cup {NULL},
            mux : Muxes \cup {NULL}, egress_dev : Vnds \cup {NULL}]]
    /\ rt \in [op : {"none", "dellink", "force"}, pc : Steps, grace : BOOLEAN,
              real : Reals \cup {NULL}, vs : SUBSET Vnds, es : SUBSET Eps,
              ep : Eps \cup {NULL}, mux : Muxes \cup {NULL},
              gone : Reals \cup {NULL}, back : Steps]
    /\ wait \subseteq Readers
    /\ rd \in [Readers ->
           [kind : {"none", "rx", "qos", "tx"},
            pc : {"idle", "port", "sent", "ep", "dev", "qos"},
            real : Reals \cup {NULL}, ep : Eps \cup {NULL},
            dev : Vnds \cup {NULL}]]
    /\ {misled, mixed, nomem} \subseteq BOOLEAN
    /\ crash \in {NULL, "half", "port", "egress", "timer"}

-----------------------------------------------------------------------------
(* The lists.                                                              *)

\* rmnet_get_endpoint
GetEndpoint(r, m) ==
    IF port[r].eps[m] = <<>> THEN NULL ELSE Head(port[r].eps[m])

\* hlist_del_init_rcu of an endpoint and hlist_add_head_rcu of it
Places(list, x) == {i \in 1 .. Len(list) : list[i] = x}
Unlisted(eps, e) ==
    [m \in Muxes |-> IF Places(eps[m], e) = {} THEN eps[m]
                     ELSE RemoveAt(eps[m], CHOOSE i \in Places(eps[m], e) : TRUE)]
Listed(eps, e, m) == [eps EXCEPT ![m] = <<e>> \o @]

EpsOf(r) == {e \in Eps : \E m \in Muxes : Places(port[r].eps[m], e) # {}}

-----------------------------------------------------------------------------
(* The steps of the holder of rtnl_lock.                                   *)

Idle == rt = NoWork
At(step) == rt.pc = step /\ ~rt.grace
Goto(step) == rt' = IF step = "idle" THEN NoWork ELSE [rt EXCEPT !.pc = step]

\* synchronize_rcu, or synchronize_net inside the kernel, comes when every
\* endpoint is off its device, every device is closed or has been through
\* ndo_uninit, or rx_handler_data of a port is null
Synchronize ==
    /\ \/ At("detach") /\ \A e \in rt.es : ep[e].st = "dead"
       \/ At("close") /\ \A v \in rt.vs : vnd[v].st = "closed"
       \/ At("uninit") /\ \A v \in rt.vs : vnd[v].st = "uninit"
       \/ At("dying")
    /\ wait' = {k \in Readers : rd[k].pc # "idle"}
    /\ rt' = [rt EXCEPT !.grace = TRUE]
    /\ UNCHANGED <<env, port, vnd, ep, rd, hist, crash>>

AfterGrace == [detach |-> "free", close |-> "uninit", uninit |-> "exit_post",
               dying |-> "freeport"]

GracePeriod ==
    /\ rt.grace /\ wait = {}
    /\ rt' = [rt EXCEPT !.grace = FALSE, !.pc = AfterGrace[rt.pc]]
    /\ UNCHANGED <<env, port, vnd, ep, wait, rd, hist, crash>>

\* A call of rmnet_unregister_real_device
Unreal(work, r, back) ==
    [work EXCEPT !.pc = "unreal", !.gone = r, !.back = back]

\* rmnet_unregister_real_device
UnregisterRealDevice ==
    /\ At("unreal")
    /\ IF port[rt.gone].nr # 0
       THEN Goto(rt.back) /\ UNCHANGED port
       ELSE /\ port' = [port EXCEPT ![rt.gone].st = "dying"]
            /\ Goto("dying")
    /\ UNCHANGED <<env, vnd, ep, wait, rd, hist, crash>>

\* The rest of it, after netdev_rx_handler_unregister: rmnet_map_cmd_exit
\* empties the list of marker clients, rmnet_descriptor_deinit frees the pool
\* a second time if rmnet_register_real_device already had
FreePort ==
    /\ At("freeport")
    /\ port' = [port EXCEPT ![rt.gone] = NoPort]
    /\ crash' = IF port[rt.gone].built THEN crash ELSE "half"
    /\ Goto(rt.back)
    /\ UNCHANGED <<env, vnd, ep, wait, rd, hist>>

\* rmnet_register_real_device of a device without a port.  When the pool
\* cannot be allocated rmnet_descriptor_deinit follows its null pointer; when
\* a descriptor cannot, the port stays where rx_handler_data points to it.
RegisterRealDevice(r, got) ==
    /\ port[r].st = "none"
    /\ port' = [port EXCEPT ![r] =
           [NoPort EXCEPT !.st = "live", !.built = (got = "all")]]
    /\ crash' = IF got = "nopool" THEN "half" ELSE crash
    /\ nomem' = (nomem \/ got # "all")

-----------------------------------------------------------------------------
(* rtnl operations.                                                        *)

InBridge(r) ==
    \/ port[r].mode = "bridge"
    \/ \E q \in Reals : port[q].bridge_ep = r

\* rmnet_newlink, up to where the port is registered
Newlink(r, v, m, got) ==
    /\ Idle /\ vnd[v].st = "none"
    /\ \/ /\ port[r].st = "live" /\ got = "all"
          /\ UNCHANGED <<port, nomem, crash>>
       \/ RegisterRealDevice(r, got)
    /\ mixed' = (mixed \/ InBridge(r))
    /\ rt' = IF got # "all" THEN rt
             ELSE [NoWork EXCEPT !.pc = "newlink", !.real = r, !.vs = {v},
                                 !.mux = m]
    /\ UNCHANGED <<env, vnd, ep, wait, rd, misled>>

\* The rest of rmnet_newlink.  rmnet_vnd_newlink refuses a mux id that is
\* taken, and register_netdevice may fail; the port then goes unless it has
\* other devices.  The aggregation parameters it may copy into the port at the
\* end are action NewlinkAggParams of AggPages.
NewlinkRest(ok) ==
    LET r == rt.real
        m == rt.mux
    IN  /\ At("newlink")
        /\ IF GetEndpoint(r, m) # NULL \/ ~ok
           THEN rt' = Unreal(NoWork, r, "idle") /\ UNCHANGED <<port, vnd, ep>>
           ELSE \E v \in rt.vs, e \in {e \in Eps : ep[e].st = "none"} :
                /\ ep' = [ep EXCEPT ![e] = [st |-> "listed", real |-> r,
                                            mux |-> m, egress_dev |-> v]]
                /\ vnd' = [vnd EXCEPT ![v] =
                       [NoVnd EXCEPT !.st = "reg", !.real = r, !.mux = m,
                                     !.qos = "live"]]
                /\ port' = [port EXCEPT ![r] =
                       [@ EXCEPT !.nr = port[r].nr + 1, !.mode = "vnd",
                                 !.eps = Listed(port[r].eps, e, m)]]
                /\ Goto("idle")
        /\ UNCHANGED <<env, wait, rd, hist, crash>>

\* rmnet_dellink
Dellink(v) ==
    LET r == vnd[v].real
        e == GetEndpoint(r, vnd[v].mux)
        work == [NoWork EXCEPT !.op = "dellink", !.real = r, !.vs = {v}]
    IN  /\ Idle /\ vnd[v].st = "reg" /\ port[r].st = "live"
        /\ IF e = NULL
           THEN rt' = [work EXCEPT !.pc = "qmi_last"] /\ UNCHANGED port
           ELSE /\ port' = [port EXCEPT ![r].eps = Unlisted(@, e)]
                /\ rt' = [work EXCEPT !.pc = "bridge", !.es = {e}]
        /\ UNCHANGED <<env, vnd, ep, wait, rd, hist, crash>>

\* NETDEV_UNREGISTER of a physical device: rmnet_force_unassociate_device
ForceUnassociate(r) ==
    /\ Idle /\ port[r].st = "live"
    /\ rt' = [NoWork EXCEPT !.op = "force", !.pc = "qmi_exit", !.real = r,
                            !.es = EpsOf(r),
                            !.vs = {ep[e].egress_dev : e \in EpsOf(r)}]
    /\ UNCHANGED <<env, port, vnd, ep, wait, rd, hist, crash>>

\* rmnet_changelink with a mux id; the port is the one of the device that the
\* request names
Changelink(v, r, m) ==
    LET e == GetEndpoint(r, vnd[v].mux)
    IN  /\ Idle /\ vnd[v].st = "reg" /\ port[r].st = "live"
        /\ e # NULL
        /\ port' = [port EXCEPT ![r].eps = Listed(Unlisted(@, e), e, m)]
        /\ ep' = [ep EXCEPT ![e].mux = m]
        /\ vnd' = [vnd EXCEPT ![v].mux = m]
        /\ misled' = (misled \/ r # vnd[v].real
                             \/ GetEndpoint(r, m) \notin {e, NULL})
        /\ UNCHANGED <<env, rt, wait, rd, mixed, nomem, crash>>

\* rmnet_changelink with a request that starts flow control on the port
ClientSetup(v) ==
    LET r == vnd[v].real
    IN  /\ Idle /\ vnd[v].st = "reg" /\ port[r].st = "live"
        /\ port' = [port EXCEPT ![r].qmi = TRUE]
        /\ UNCHANGED <<env, vnd, ep, rt, wait, rd, hist, crash>>

\* rmnet_add_bridge
AddBridge(v, s, got) ==
    LET r == vnd[v].real
        slave == [NoPort EXCEPT !.st = "live", !.built = TRUE,
                                !.mode = "bridge", !.bridge_ep = r]
    IN  /\ env.bridge
        /\ Idle /\ vnd[v].st = "reg" /\ port[r].st = "live"
        /\ port[r].nr <= 1 /\ port[s].st = "none"
        /\ IF got = "all"
           THEN /\ port' = [port EXCEPT ![s] = slave, ![r].mode = "bridge",
                                        ![r].bridge_ep = s]
                /\ UNCHANGED <<nomem, crash>>
           ELSE RegisterRealDevice(s, got)
        /\ mixed' = (mixed \/ InBridge(r) \/ InBridge(s))
        /\ UNCHANGED <<env, vnd, ep, rt, wait, rd, misled>>

\* rmnet_del_bridge, which the kernel calls for a slave of the device
DelBridge(v, s) ==
    LET r == vnd[v].real
    IN  /\ Idle /\ vnd[v].st = "reg" /\ port[r].st = "live"
        /\ port[r].mode = "bridge" /\ port[r].bridge_ep = s
        /\ IF port[s].st # "live"
           THEN crash' = "port" /\ UNCHANGED <<port, rt>>
           ELSE /\ port' = [port EXCEPT ![r].mode = "vnd",
                                        ![r].bridge_ep = NULL]
                /\ rt' = Unreal(NoWork, s, "idle")
                /\ UNCHANGED crash
        /\ UNCHANGED <<env, vnd, ep, wait, rd, hist>>

-----------------------------------------------------------------------------
(* The steps of deleting.                                                  *)

\* Mutant: a port whose slave goes keeps its mode
UnregisterBridgeKeeps ==
    LET r == rt.real
        b == port[r].bridge_ep
    IN  /\ At("bridge")
        /\ IF port[r].mode = "bridge" /\ port[r].nr # 0
           THEN rt' = Unreal(rt, b, "detach") ELSE Goto("detach")
        /\ UNCHANGED <<env, port, vnd, ep, wait, rd, hist, crash>>

\* rmnet_unregister_bridge
UnregisterBridge ==
    LET r == rt.real
        b == port[r].bridge_ep
    IN  /\ At("bridge")
        /\ IF port[r].mode # "bridge"
           THEN Goto("detach") /\ UNCHANGED <<port, crash>>
           ELSE IF port[b].st # "live"
           THEN crash' = "port" /\ UNCHANGED <<port, rt>>
           ELSE /\ IF port[r].nr = 0
                   THEN /\ port' = [port EXCEPT ![b].bridge_ep = NULL,
                                                ![b].mode = "vnd"]
                        /\ Goto("detach")
                   ELSE rt' = Unreal(rt, b, "detach") /\ UNCHANGED port
                /\ UNCHANGED crash
        /\ UNCHANGED <<env, vnd, ep, wait, rd, hist>>

\* Mutants: the device is not taken off the port's count; the endpoint is
\* freed without a grace period
VndDellinkNoCount ==
    /\ At("detach")
    /\ \E e \in {e \in rt.es : ep[e].st = "listed"} :
           /\ ep' = [ep EXCEPT ![e].egress_dev = NULL, ![e].st = "dead"]
           /\ rt' = IF rt.op = "dellink" THEN rt
                    ELSE [rt EXCEPT !.pc = "unlist", !.ep = e]
    /\ UNCHANGED <<env, port, vnd, wait, rd, hist, crash>>

VndDellinkNoSync ==
    /\ At("detach")
    /\ \E e \in {e \in rt.es : ep[e].st = "listed"} :
           /\ ep' = [ep EXCEPT ![e].egress_dev = NULL, ![e].st = "dead"]
           /\ port' = [port EXCEPT ![ep[e].real].nr = @ - 1]
           /\ rt' = IF rt.op = "dellink" THEN [rt EXCEPT !.pc = "free"]
                    ELSE [rt EXCEPT !.pc = "unlist", !.ep = e]
    /\ UNCHANGED <<env, vnd, wait, rd, hist, crash>>

\* rmnet_vnd_dellink of one of the endpoints.  rmnet_dellink has taken it off
\* the list, rmnet_force_unassociate_device does so next.
VndDellink ==
    /\ At("detach")
    /\ \E e \in {e \in rt.es : ep[e].st = "listed"} :
           /\ ep' = [ep EXCEPT ![e].egress_dev = NULL, ![e].st = "dead"]
           /\ port' = IF ep[e].egress_dev = NULL THEN port
                      ELSE [port EXCEPT ![ep[e].real].nr = @ - 1]
           /\ rt' = IF rt.op = "dellink" THEN rt
                    ELSE [rt EXCEPT !.pc = "unlist", !.ep = e]
    /\ UNCHANGED <<env, vnd, wait, rd, hist, crash>>

\* hlist_del_init_rcu of rmnet_force_unassociate_device
Unlist ==
    /\ At("unlist")
    /\ port' = [port EXCEPT ![rt.real].eps = Unlisted(@, rt.ep)]
    /\ Goto("detach")
    /\ UNCHANGED <<env, vnd, ep, wait, rd, hist, crash>>

\* kfree of each endpoint
FreeEndpoint ==
    /\ At("free")
    /\ \/ \E e \in rt.es :
             /\ ep' = [ep EXCEPT ![e] = NoEp]
             /\ rt' = [rt EXCEPT !.es = @ \ {e}]
       \/ /\ rt.es = {} /\ UNCHANGED ep
          /\ Goto(IF rt.op = "dellink" THEN "qmi_last" ELSE "close")
    /\ UNCHANGED <<env, port, vnd, wait, rd, hist, crash>>

\* qmi_rmnet_qmi_exit, from rmnet_dellink only when no device is left.  It
\* waits for the workers of flow control.
QmiExit ==
    LET r == rt.real
        exit == At("qmi_exit") \/ port[r].nr = 0
    IN  /\ At("qmi_exit") \/ At("qmi_last")
        /\ exit /\ port[r].qmi =>
               \A k \in Readers : rd[k].kind = "qos" => rd[k].real # r
        /\ port' = IF exit THEN [port EXCEPT ![r].qmi = FALSE] ELSE port
        /\ Goto(IF At("qmi_exit") THEN "bridge" ELSE "close")
        /\ UNCHANGED <<env, vnd, ep, wait, rd, hist, crash>>

\* unregister_netdevice stops transmission
CloseDevice ==
    /\ At("close")
    /\ \E v \in {v \in rt.vs : vnd[v].st = "reg"} :
           vnd' = [vnd EXCEPT ![v].st = "closed"]
    /\ UNCHANGED <<env, port, ep, rt, wait, rd, hist, crash>>

\* Mutant: the watchdogs are left running
VndUninitTimers ==
    /\ At("uninit")
    /\ \E v \in {v \in rt.vs : vnd[v].st = "closed"} :
           vnd' = [vnd EXCEPT ![v] =
               [@ EXCEPT !.st = "uninit", !.qos = "cleanup"]]
    /\ UNCHANGED <<env, port, ep, rt, wait, rd, hist, crash>>

\* rmnet_vnd_uninit, which takes the QoS state off the device and, in
\* qmi_rmnet_qos_exit_pre, stops the watchdogs
VndUninit ==
    /\ At("uninit")
    /\ \E v \in {v \in rt.vs : vnd[v].st = "closed"} :
           vnd' = [vnd EXCEPT ![v] =
               [@ EXCEPT !.st = "uninit", !.qos = "cleanup", !.timer = FALSE]]
    /\ UNCHANGED <<env, port, ep, rt, wait, rd, hist, crash>>

\* qmi_rmnet_qos_exit_post after its grace period: the bearers are freed,
\* with the timers that are part of them
QosExitPost ==
    LET gone == {v \in Vnds : vnd[v].qos = "cleanup"}
    IN  /\ At("exit_post")
        /\ vnd' = [v \in Vnds |-> IF v \in gone
                                  THEN [vnd[v] EXCEPT !.qos = "none"]
                                  ELSE vnd[v]]
        /\ crash' = IF \E v \in gone : vnd[v].timer THEN "timer" ELSE crash
        /\ rt' = Unreal(rt, rt.real, "freedev")
        /\ UNCHANGED <<env, port, ep, wait, rd, hist>>

\* The kernel frees the devices when rtnl_lock is released
FreeDevice ==
    /\ At("freedev")
    /\ \/ \E v \in rt.vs :
             /\ vnd' = [vnd EXCEPT ![v] = NoVnd]
             /\ rt' = [rt EXCEPT !.vs = @ \ {v}]
       \/ rt.vs = {} /\ Goto("idle") /\ UNCHANGED vnd
    /\ UNCHANGED <<env, port, ep, wait, rd, hist, crash>>

-----------------------------------------------------------------------------
(* Readers.                                                                *)

Reads(k, new) ==
    /\ rd' = [rd EXCEPT ![k] = new]
    /\ UNCHANGED <<env, port, vnd, ep, rt, hist>>

\* rcu_read_unlock
Leave(k) ==
    /\ rd[k].pc # "idle"
    /\ wait' = wait \ {k}
    /\ Reads(k, Away)
    /\ UNCHANGED crash

\* rmnet_rx_handler finds the port, or a worker of flow control that has it
\* takes rcu_read_lock
Enter(k, kind, r) ==
    /\ k \in env.readers /\ rd[k].pc = "idle" /\ port[r].st = "live"
    /\ kind = "qos" => port[r].qmi
    /\ Reads(k, [Away EXCEPT !.kind = kind, !.pc = "port", !.real = r])
    /\ UNCHANGED <<wait, crash>>

\* rmnet_egress_handler finds the port of the device that a packet is sent on
EnterEgress(k, v) ==
    /\ k \in env.readers /\ rd[k].pc = "idle" /\ vnd[v].st = "reg"
    /\ port[vnd[v].real].st = "live"
    /\ Reads(k, [Away EXCEPT !.kind = "tx", !.pc = "sent",
                             !.real = vnd[v].real, !.dev = v])
    /\ UNCHANGED <<wait, crash>>

\* rmnet_get_endpoint of the mux id in the packet or the indication; a port
\* that does not do VND has no use for it on receive
Lookup(k, m) ==
    LET r == rd[k].real
        e == GetEndpoint(r, m)
    IN  /\ rd[k].pc = "port" /\ e # NULL
        /\ rd[k].kind = "rx" => port[r].mode = "vnd"
        /\ Reads(k, [rd[k] EXCEPT !.pc = "ep", !.ep = e])
        /\ UNCHANGED <<wait, crash>>

\* ep->egress_dev is read.  The receive path uses it as it is, flow control
\* asks whether it is null.
ReadEgressDev(k) ==
    LET v == ep[rd[k].ep].egress_dev
    IN  /\ rd[k].pc = "ep"
        /\ rd[k].kind = "qos" => v # NULL
        /\ Reads(k, [rd[k] EXCEPT !.pc = "dev", !.dev = v])
        /\ crash' = IF v = NULL THEN "egress" ELSE crash
        /\ UNCHANGED wait

\* rmnet_get_qos_pt
GetQosPt(k) ==
    /\ rd[k].pc = "dev" /\ rd[k].kind = "qos"
    /\ vnd[rd[k].dev].qos = "live"
    /\ Reads(k, [rd[k] EXCEPT !.pc = "qos"])
    /\ UNCHANGED <<wait, crash>>

\* qmi_rmnet_watchdog_add on a bearer of the device
WatchdogAdd(k) ==
    /\ rd[k].pc = "qos"
    /\ vnd' = [vnd EXCEPT ![rd[k].dev].timer = TRUE]
    /\ UNCHANGED <<env, port, ep, rt, wait, rd, hist, crash>>

\* The watchdog fires
WatchdogFn(v) ==
    /\ vnd[v].timer
    /\ vnd' = [vnd EXCEPT ![v].timer = FALSE]
    /\ UNCHANGED <<env, port, ep, rt, wait, rd, hist, crash>>

-----------------------------------------------------------------------------
(* Clients of downlink markers.                                            *)

Sorted(dl) ==
    \A i, j \in 1 .. Len(dl) : i < j => Priority[dl[i]] <= Priority[dl[j]]

\* Mutant: a client is added behind the first one with a lower priority
DlPlacesFirst(dl, c) ==
    IF dl = <<>> THEN {1}
    ELSE {IF Priority[dl[1]] < Priority[c] THEN 2 ELSE 1}

\* Where rmnet_map_dl_ind_register puts a client: before the first one that
\* does not have a lower priority.  Behind the last one it takes the list
\* head for a client and compares with whatever is in that place of the port,
\* so that a client with the highest priority may not be added at all (0).
DlPlaces(dl, c) ==
    LET higher == {i \in 1 .. Len(dl) : Priority[dl[i]] >= Priority[c]}
    IN  IF dl = <<>> THEN {1}
        ELSE IF higher = {} THEN {0, Len(dl) + 1}
        ELSE {i \in higher : \A j \in higher : i <= j}

\* rmnet_map_dl_ind_register; the list of a port that is half set up has a
\* null head
DlIndRegister(r, c) ==
    /\ c \in env.clients /\ port[r].st = "live"
    /\ \A q \in Reals : Places(port[q].dl, c) = {}
    /\ crash' = IF port[r].built THEN crash ELSE "half"
    /\ \E at \in DlPlaces(port[r].dl, c) :
           port' = IF at = 0 \/ ~port[r].built THEN port
                   ELSE [port EXCEPT ![r].dl = InsertAt(@, at, c)]
    /\ UNCHANGED <<env, vnd, ep, rt, wait, rd, hist>>

\* rmnet_map_dl_ind_deregister
DlIndDeregister(r, c) ==
    /\ port[r].st = "live"
    /\ \E i \in Places(port[r].dl, c) :
           port' = [port EXCEPT ![r].dl = RemoveAt(@, i)]
    /\ UNCHANGED <<env, vnd, ep, rt, wait, rd, hist, crash>>

-----------------------------------------------------------------------------

Outcomes == {"all", "some", "nopool"}

Rtnl ==
    \/ \E r \in Reals, v \in Vnds, m \in Muxes, got \in Outcomes :
          Newlink(r, v, m, got)
    \/ \E v \in Vnds : Dellink(v) \/ ClientSetup(v)
    \/ \E r \in Reals : ForceUnassociate(r)
    \/ \E v \in Vnds, r \in Reals, m \in Muxes : Changelink(v, r, m)
    \/ \E v \in Vnds, s \in Reals, got \in Outcomes : AddBridge(v, s, got)
    \/ \E v \in Vnds, s \in Reals : DelBridge(v, s)

Working ==
    \/ \E ok \in BOOLEAN : NewlinkRest(ok)
    \/ Synchronize \/ GracePeriod \/ UnregisterRealDevice \/ FreePort
    \/ UnregisterBridge \/ VndDellink \/ Unlist \/ FreeEndpoint \/ QmiExit
    \/ CloseDevice \/ VndUninit \/ QosExitPost \/ FreeDevice

Reading(k) ==
    \/ \E kind \in {"rx", "qos"}, r \in Reals : Enter(k, kind, r)
    \/ \E v \in Vnds : EnterEgress(k, v)
    \/ \E m \in Muxes : Lookup(k, m)
    \/ ReadEgressDev(k) \/ GetQosPt(k) \/ WatchdogAdd(k) \/ Leave(k)

DlMarkers ==
    \E r \in Reals, c \in Clients : DlIndRegister(r, c) \/ DlIndDeregister(r, c)

\* Nothing is said of what comes after a bad pointer was followed, or after
\* changelink made a device and an endpoint of another one belong together
Over == (crash # NULL \/ misled) /\ UNCHANGED vars

Going == crash = NULL /\ ~misled

Next ==
    \/ Going /\ Rtnl
    \/ Going /\ Working
    \/ Going /\ \E k \in Readers : Reading(k)
    \/ Going /\ \E v \in Vnds : WatchdogFn(v)
    \/ Going /\ DlMarkers
    \/ Over

Spec == Init /\ [][Next]_vars

-----------------------------------------------------------------------------
(* Properties.                                                             *)

\* Under rcu_read_lock nothing a reader has found is freed under it: the
\* port, the endpoint, the device it leads to and the QoS state of the device
\* outlive the reader, as the comment on the locking scheme claims.  What it
\* does not cover is the content of the endpoint: egress_dev is set to null
\* before the grace period, so a packet on its way in may find it null, but
\* only while the endpoint is being deleted.
ReadersSafe ==
    ~misled =>
        /\ \A k \in Readers :
               /\ rd[k].real # NULL => port[rd[k].real].st # "none"
               /\ rd[k].ep # NULL => ep[rd[k].ep].st # "none"
               /\ rd[k].dev # NULL => vnd[rd[k].dev].st # "none"
               /\ rd[k].pc = "qos" => vnd[rd[k].dev].qos # "none"
        /\ crash = "egress" =>
               \E k \in Readers : rd[k].ep # NULL /\ ep[rd[k].ep].st = "dead"

\* Between operations nr_rmnet_devs is the number of devices that lead to the
\* port, each of them is what the endpoint of its mux id leads to, no
\* endpoint is left of a deleted device, and a port without devices is a
\* bridge's slave or one that rmnet_register_real_device gave up on.  At all
\* times the count and the pointers keep their types.
LinksSound ==
    /\ TypeOK
    /\ Idle /\ crash = NULL /\ ~misled =>
           /\ \A r \in Reals :
                  /\ port[r].nr = Cardinality({v \in Vnds : vnd[v].real = r})
                  /\ Cardinality(EpsOf(r)) = port[r].nr
                  /\ port[r].st = "live" /\ port[r].nr = 0 =>
                         nomem \/ mixed \/ port[r].mode = "bridge"
           /\ \A v \in Vnds :
                  vnd[v].st = "reg" =>
                      /\ port[vnd[v].real].st = "live"
                      /\ LET e == GetEndpoint(vnd[v].real, vnd[v].mux)
                         IN  e # NULL /\ ep[e].egress_dev = v
           /\ \A e \in Eps : ep[e].st # "dead"

\* The two ports of a bridge go together: deleting the device, the master or
\* the slave never leaves one in bridge mode whose other end is gone, so that
\* rmnet_unregister_bridge never follows a null port.  The code relies on no
\* link being added to a port of a bridge and on no second bridge.
BridgePaired ==
    ~mixed /\ ~nomem /\ ~misled =>
        /\ crash # "port"
        /\ Idle => \A r \in Reals :
               port[r].mode = "bridge" =>
                   LET b == port[r].bridge_ep
                   IN  port[b].mode = "bridge" /\ port[b].bridge_ep = r

\* No bearer is freed with its watchdog armed: qmi_rmnet_qos_exit_pre stops
\* the watchdogs and flow control could start one again before
\* qmi_rmnet_qos_exit_post frees the bearers, but by then no reader can find
\* the device any more.
TimersStopped == ~misled => crash # "timer"

\* Clients are notified of downlink markers in the order of their priority,
\* however they come and go.
MarkersSorted == \A r \in Reals : Sorted(port[r].dl)
=============================================================================
