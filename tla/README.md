# TLA+ models of the datarmnet driver

`src/core` builds two kernel modules. `rmnet_core.ko` puts virtual network
devices on top of a modem's data pipe, multiplexes and aggregates their packets
(the MAP protocol), and applies the modem's per-bearer flow control.
`rmnet_ctl.ko` carries control commands to the modem. Packets, timers, work
items, modem indications and netlink requests run concurrently, and most of the
driver's difficulty is there. This directory models that concurrency and the
bookkeeping behind it, checks it with TLC, and proves the central invariants
with TLAPS.

## 1. Inventory

| Component | State | Operations | Interacts with | What makes it correct |
|---|---|---|---|---|
| QoS flows, bearers, queues (`qmi_rmnet.c`) | flow list, bearer list with reference counts, `mq[]`, queue on/off, watchdog timers | add, move, delete a flow; bearer get, put, clean; watchdog | netlink under rtnl; indications, packets and timers under `qos_lock` | counts and tables agree; no timer outlives its bearer; a granted flow is not stopped |
| DFC: grants (`dfc_qmi.c`, `dfc_qmap.c`) | grant, threshold, bytes in flight, seq, ack duty | flow status and TX link indications, query response, end marker, packet | bearers; modem by QMI or QMAP | no stall without a query or a watchdog; stops are acknowledged; TX off means no grant |
| Power save (`qmi_rmnet.c`, `rmnet_config.c`) | ps flags, active bit, work item, alarm | check_stats, alarm, maybe_restart, init, exit | packets, WDA, DFC queries, rtnl | exactly one party will run the work while the bit is set; power save is left again |
| DFC and WDA clients (`qmi_rmnet.c`, `dfc_qmi.c`, `wda_qmi.c`, `dfc_qmap.c`) | `qmi_info`, client structs, service arrival work | setup, delete, exit, service arrival | rtnl, power save work, QMI | no use after free, no deadlock with rtnl |
| Uplink aggregation (`rmnet_map_data.c`, `rmnet_handlers.c`) | aggregate, count, timer, flush work | aggregate, priority send, command, flush, config, init, exit | packets on several processors, device | each packet leaves exactly once; an aggregate does not wait for ever |
| Aggregation pages (`rmnet_map_data.c`) | list of pages, references, head | take, allocate, configure, free | the device frees buffers | no page carries two aggregates; buffers fit |
| Port and devices (`rmnet_config.c`) | ports, endpoint tables, device count, bridge | register, newlink, changelink, dellink, notifier, bridge | everything above; readers under rcu | what a reader found outlives it; tables and count agree |
| Virtual device (`rmnet_vnd.c`) | net_device, statistics | start_xmit, select_queue, flow control, uninit | QoS, power save | queue 0 and the MAP flow command; QoS state goes after its readers |
| Handlers (`rmnet_handlers.c`) | none | ingress, egress | MAP data, aggregation, descriptors | what is delivered is what was received |
| MAP commands (`rmnet_map_command.c`) | ordered list of downlink marker clients | register, deregister, dispatch | ingress | order of clients |
| MAP data: checksum, deaggregation, coalescing (`rmnet_map_data.c`) | none | functions on packets | ingress | segments partition the frame; the two implementations agree |
| Descriptors (`rmnet_descriptor.c`) | pool of fragment descriptors, page references | get, recycle, pull, trim, segment, deliver | ingress, several processors | none in use twice, references balance |
| rmnet_ctl (`rmnet_ctl_*.c`) | client and endpoint pointers | register, deregister, send, receive | QMAP flow control, IPA, MHI | no call into a client that left |
| Per-process statistics (`rmnet_genl.c`) | hash table of counters | update, read, clear | netlink | counts not lost |
| Headers and trace points | layouts | - | - | - |

`PROJECT.json` lists the same components with their state of modelling, and
under `hazards` each place that is hard to test, at its line.

The repository has no tests and no design document; the reference is the code
and its comments. Only `DFC_MODE_SA` is a supported flow control mode.

## 2. Modules

`QosFlows` is the centre of flow control: `DfcGrant` refines it, `PowerSave`,
`QmiClients` and `Port` surround it. `TxAggregation` and `AggPages` are the uplink,
`FragData`, `Coalesce`, `Segmentation` and `Ingress` the downlink.

| Module | Models | Granularity |
|---|---|---|
| `QosFlows` | `struct qos_info` of one device | a critical section of `qos_lock` is a step; the netlink thread, which passes through several of them under rtnl, is a program (`rt`) |
| `DfcGrant` | the byte counts, sequence numbers and acknowledgements of one bearer | one handler is a step; refines `QosFlows` (`AbstractStep`) |
| `PowerSave` | the power save work of a port | a step ends where another context can see a difference: a sleep, an atomic bit operation, an rcu section |
| `QmiClients` | `struct qmi_info`, its QMI and QMAP clients, their work, the client of `rmnet_ctl` | a step ends where the code sleeps, takes rtnl or leaves an rcu section |
| `TxAggregation` | the aggregate of a port | a critical section of `agg_lock` is a step; cancelling the timer and handing over to the device come after it |
| `AggPages` | the memory of aggregates | a critical section of `agg_lock` is a step; the device frees at any time |
| `FragData` | fragments of pages and what is done to them: pull, trim, copy, add | operators |
| `Coalesce` | header checks and segmentation of coalesced frames, by `rmnet_descriptor.c` and by `rmnet_map_data.c`; extends `FragData` | operators |
| `Segmentation` | one frame taken through both; the reference it is compared with | a whole frame is a step |
| `Ingress` | the downlink path of a port: pool, pages, descriptors, delivery; extends `Coalesce` | a packet of a context is a step |
| `Port` | ports, endpoints, devices, bridges, teardown of QoS state, marker clients | a step ends where a reader can see a difference |
| `QosFlowsProofs`, `DfcGrantProofs`, `PowerSaveProofs`, `QmiClientsProofs`, `TxAggregationProofs`, `AggPagesProofs`, `PortProofs` | theorems about the module of that name | |
| `DownlinkProofs` | theorems about `Segmentation` and `Ingress`, and the lemmas about the operators of `FragData` and `Coalesce` they rest on | |
| `MC...` | values for TLC | |

### QosFlows

`flow`, `bearer`, `mq` and `removed` are `flow_head`, the bearers (with `st`
saying whether one is on `bearer_head`, in `removed_bearer` or free), `mq[]`
and `removed_bearer`; `queue` is the state of the device's transmit queues. A
grant is a Boolean here. Bearer objects have addresses (`Objs`) of their own,
because a bearer id may be on the list again while the object that had it
before is still being taken down, with its timer function perhaps running.

The netlink program: a request to add a flow creates it (`CreateFlow`, or
`CreateFlowFails` without memory), rebinds it to another bearer (`RebindFlow`) or
does nothing (`KeepFlow`); when the flow exists on another queue the code deletes
it (`DelForAgain`) and goes to `again`, which are two critical sections with
everything else allowed in between. `Deactivate` deletes a flow. A rebind that
finds no memory for the new bearer has already put the old one; the history
variable `nomem` says that this has happened. `bearer_clean` runs at the end without `qos_lock`: it sets
`watchdog_quit`, waits for the timer (`BearerCleanFree` is enabled when the
timer is neither pending nor running) and frees.

Indications (`FlowStatus` for one bearer, `AllBearerFlowCtl` for 0xFF,
`TxLinkStatus`), packets (`BurstCheck`), power save (`EnableAllFlows`), MAP flow
commands (`VndFlowControl`) and the two halves of the watchdog, expiry and the
part under the lock, are single steps.

### DfcGrant

One listed bearer that owns a data queue and an ack queue; `dfc_qmap` is chosen
initially, so that one run covers both transports.
All quantities are integers; `Minus` keeps the code's guards against underflow
and `TypeOK` says that no count becomes negative. Acks, queries and end marker
confirmations are allocated without waiting and are dropped without a word when
there is no memory (`dfc_qmi.c:890`, `dfc_qmap.c:142`, `416`, `444`): of the commands a
step issues, `Send` puts any part into `lost` and the rest into `out`, what the step
handed to the transport. The history variable `query` says what became of the
threshold ack or query of the present grant: due, sent, lost, or never to come
because the scale factor was 1 when the threshold was set. `AbstractStep` maps the byte counts
to "has a grant" and says that each step is then a step of `QosFlows` or leaves
the bearer alone, which is what makes the Boolean grant there an honest
abstraction.

### PowerSave, QmiClients

`PowerSave` follows `qmi_rmnet_check_stats` through its sleeps, with the alarm
callback, packet contexts in `work_maybe_restart`, indications, `work_init` and
`work_exit` beside it. Of a bearer it keeps whether it has a grant, its TX link is
off and a RAT switch is under way: enabling all flows skips bearers with TX off
(`qmi_rmnet.c:831`), while `rmnet_all_flows_enabled` counts them. A packet calls
`work_maybe_restart` in the handler, if the data format asks for it, and when it is
transmitted once more at the end; it is counted, and the burst check made, in
between. `QmiClients` has the
clients instead: a client is a struct with its qmi handle and its work item; the
thread that holds rtnl sets up or deletes; the power save work of this module
only takes pointers and uses them for a while. A DFC client is created over QMI
or over QMAP as the request says, and treated later as the global `dfc_qmap`
says: `via` remembers the first, `switched` that a request changed the second
while a client was in place, and `mixed` that a client was then handled by the
wrong code. A QMAP command passes through two rcu sections, the one of
`rmnet_ctl` (`EndpointPost`) and the one of its handler (`CmdHandler`), against
`dfc_qmap_client_exit`, which unregisters from `rmnet_ctl`, waits, and frees.

### TxAggregation, AggPages

Every packet or command is an element `<<context, number>>`, so that losing or
doubling one shows. Lengths and times are left out: they only decide between
appending and shipping, and both are allowed. `AggPages` keeps the lengths that
matter to memory: page orders, `agg_size` with its 16-bit width, and the room an
aggregate believes it has. `agg_size` has two writers: changelink computes it
with the order and the pool (`UpdateUlAggConfig`), newlink copies what user
space sent over it (`NewlinkAggParams`); the history variable `raw` says which
was last. The end of the search for a free page reads the list head as if it
were an entry; the model keeps it (`ListHead`), with the outcome a 64-bit build
has (a reference count that is not 1, so that the entry is passed over).

### FragData, Coalesce, Segmentation, Ingress

A packet's contents are the fields that decide something: lengths, flags,
checksum marks. Bytes are positions `<<page, offset>>`, so a packet that is put
together from the wrong place shows. `FragData` and `Coalesce` are the functions
of the code as operators on these; a segment is a record of where it starts, how
long it is and what its headers say (sequence number, IP id, FIN, checksum
state). Both implementations of segmentation keep the code's mutable state
(`data_offset`, `gso_segs`, `pkt_id`) as `Meta` and the order in which it is
changed, because a failed allocation leaves it behind. `fails` numbers the
allocations that fail.

The loops of the code over a list of fragments (`Pull`, `Chop`, `Ranges`,
`SkipExtHdr`) are written by where they stop: `PullTo` is the fragment at which
`rmnet_frag_pull` leaves its loop, found among the sums `Ends` of the lengths. The
two loops of segmentation, whose state goes from packet to packet and from NLO to
NLO, are recursive functions (`FragNlo` and `FragSegmentLoop`, `SkbNlo` and
`SkbSegmentNlos`) over one step each (`FragPacket`, `SkbPacket`). The error mask is
shifted once per packet and so is read by the true number of packets, while
`total_pkt`, a `u8`, only reaches the IP id. `data_offset` is a `u16` on both paths and
wraps.

`Segmentation` takes each frame of a family through both and compares with
`PacketList`, the packets its header describes. `Ingress` has several receive
contexts, each with a chain of buffers, and the shared pool: `Receive`,
`DeaggregateOne` for each packet, one `Handle...` action per kind of packet, then
`Deliver...` for each descriptor that came out of it, and `Consume`. Linear
buffers take the actions `Linear...`. Which bytes a packet should have is
computed from the layout of the hardware (`Want`), not from the code. A packet of
the stack keeps both the bytes it shows (`frags`) and the pages it holds
references to (`held`): a linear buffer that is passed on whole holds all of it.
`PageHolders` are the fragments of buffers, descriptors and delivered packets in a
page, and `PagesBalanced` compares their number with the count that every
`get_page` and `put_page` of the code changes. What a chain of buffers can be is
`IsChain`: buffers in pages need v5 headers, a packet list that names what is at
each MAP header, header fields within their width.

### Port

The holder of rtnl (`rt`) goes through steps (`pc`), because deleting consists of
parts between which readers run: unlisting, `rmnet_vnd_dellink`, the grace period,
freeing the endpoint, closing, `rmnet_vnd_uninit` with `qos_exit_pre`, another
grace period, `qos_exit_post`, freeing the port and the device. Where the code
goes over several endpoints or devices of a port, the model takes them in any
order. `rmnet_unregister_real_device` is called from four places; `gone` and `back`
are its argument and where it returns to. Readers hold a
port, then an endpoint, then its device, then the QoS state. `synchronize_rcu`
waits for the readers that were in when it started. Following a null or dangling
pointer sets `crash` and ends the behaviour; the history variables `misled`,
`mixed` and `nomem` say which unusual request came before, so that a property
can name exactly the circumstances it does not cover.

## 3. Runs

All runs finish in well under five minutes on two workers.

| Run | Instance | Shows |
|---|---|---|
| `qos_flows` | 2 flows, 2 bearers, 3 objects, every queue choice, all-bearers grants and MAP flow commands, QMI | `RefCount`, `QueueOwner`, `UniqueBearer`, `StoppedIfNotGranted`: the three tables stay in step under any sequence of requests, and a bearer without grant keeps its queue stopped |
| `qos_watchdog` | 1 flow, 2 bearers, 2 objects, QMAP, TX link changes, rebinds may run out of memory, fair | the watchdog against removal and rebinding: `AwakeIfGranted`, `BearerLifetime`, `WatchdogRecovers`, `NetlinkReturns`; and `OnlyStaleWatchdogOverGrants` pins down the one way a queue is woken without a grant |
| `qos_tx_off_watchdog` | 1 flow, 1 bearer, QMAP | a violation of `TxOffNoGrant`, see section 6 |
| `dfc_grant` | either transport; grants around the call grant, packets and reports above and below them, the sequence numbers of indications and of query responses, scale factors 1 and 5, tcp bidir, every command handed over or lost | `TypeOK` (no count becomes negative), `NoSilentStall`, `EndMarkerAnswered`, `AckSeqCurrent`, `StopIsAcked`, and the refinement of `QosFlows` (`AbstractStep`) |
| `power_save` | 2 packet contexts, 1 alarm callback, 1 bearer, fair | `OneCarrier`; `WorkSound` (grants are ignored in power save only, nothing refers to the freed work); `StalledFlowsRecover` |
| `qmi_clients` | both DFC clients and the WDA client, over QMI, over QMAP, or one over each; power save asked for with instance 0; fair | `ClientsSound` (`ClientLive`, `PointersLive`, `QmiLive`), `QueriedWhenUp`, `DeleteReturns`: no deadlock on rtnl |
| `tx_aggregation` | 2 senders with 2 packets each, 1 command, aggregate of 1 or 3, fair | `PacketsSound` (`ExactlyOnce`, `NothingAfterExit`), `NotOvertaken`, `OnlyStaleCancelUncovers`, `AggregateLeaves` |
| `agg_pages` | 4 blocks, pool of 2, 2 tries, sizes below, at and beyond two pages, computed or copied, a 16-unit "16-bit" range | `PoolSound` (`PageRefs`, `PageExclusive`, `HeadValid`), `RoomSound` (`BufferFits`, `SizeIsRoom`) |
| `segmentation` | four families: every mark on up to six packets in two NLOs; failing allocations; counts and lengths that do not fit the frame, a count that wraps; options, extension headers and protocols, in up to three pages | `FragInFrame`, `NoHole`, `PacketsRestored`, `PathsAgree` |
| `segmentation_errors` | the same | a violation of `ErrorsNotIncluded`, see section 6 |
| `ingress` | 2 contexts, 3 descriptors with a pool of 2, chains of up to 3 pages: packets over page boundaries, padding, two buffers, coalesced frames, commands, wrong mux ids, cut-off and empty packets; four data formats, paged and linear | `PagesBalanced`, `OneHolder`, `DeliveredRight` |
| `port` | 2 real devices, 2 rmnet devices, 2 mux ids, bridges and 1 reader; or 4 marker clients with 3 priorities | `ReadersSafe`, `LinksSound`, `BridgePaired`, `TimersStopped`, `MarkersSorted` |

Bounds. Two flows and two bearers are the least with which a bearer has two
users, a flow changes bearer, and two bearers compete for a queue; three objects
allow a removed bearer beside two listed ones. The watchdog run needs one flow
and two objects only, because a rebind of the flow already removes one bearer and
lists another; it is the run whose rebinds may run out of memory, and it asks for
the default queue with one bearer only (`OneDefault`).
`MaxMq` is 2 or 3 so that a queue, its ack queue and the default queue exist
(and two competing queues in `qos_flows`). tcp bidir is left to `DfcGrant` and to
the proofs. The grants of `DfcGrant`
are chosen around `DefaultCallGrant` and the 20% line, so that each branch of
the arithmetic is taken; `MaxInFlight` caps the one counter that grows, at a
value that lets a query leave a grant that is too small and not zero (10 of 11
bytes in flight). Scale factor 1 is the one for which a threshold is the whole
grant; all others behave as 5. In `power_save` two packet contexts are the least that
compete for the active bit, and bearers do not affect one another there. Two
senders and a command context are the least with which one context cancels the
timer another has just started. In `segmentation` and `ingress` the
lengths of headers are 1 or 2, an error mask has 3 bits for each NLO and a `u8` 16
values, so that every boundary is met with few bytes; the second context of
`ingress` takes two kinds of chains only, enough to meet the first in the pool at
every step. One reader in `port` is enough, since readers do not affect one
another except through watchdog timers, which one reader can arm and leave.
The constants that stand for user space or the
modem (`Activations`, `AllBearerGrants`, `Setups`, `Chains`, ...) narrow the environment
of a run, never the code. Symmetry is used for flows, bearers, objects,
pages, descriptors and devices, in runs without liveness. Deadlock is not checked
in `segmentation`, where a behaviour ends when both paths have run.

Each property has a mutant in `PROJECT.json`: an operator next to the definition
it replaces (comment `Mutant:`), which changes it the way a mistake in the code
would, and under which TLC finds the property violated.

### Fairness

- `QosFlows`: pending timers expire, a timer function gets `qos_lock`, a netlink
  request that began goes on. Nothing is assumed of the modem or of traffic.
- `PowerSave`: queued work runs, the alarm fires, contexts go on; of infinitely
  many requests to leave power save the modem answers some (strong fairness).
  `check_stats` retries for ever, so less than that cannot suffice.
- `QmiClients`: work runs, requests end (each has a timeout), the thread with
  rtnl goes on; cancelling or flushing the power save work waits for a run that
  was there already (strong fairness). A work item that loops on
  `rtnl_trylock` is *not* assumed to get rtnl.
- `TxAggregation`: the timer fires, the flush work runs, a context that took the
  aggregate delivers it, an exit ends.

## 4. Proofs

Every theorem holds for all values of the constants that satisfy the named
assumption of the module it is about; TLC evaluates these assumptions in every
run. They fix what the code fixes (`MAX_MQ_NUM` at least 2, `INVALID_MQ` beyond
every queue, page sizes that are a power of two below 2^16, scale factors that
are not 0) and types; NULL is no object. For the downlink they also say what a
buffer is: `FamiliesAssumption` only that lengths and counts of a frame are natural
numbers, with no word about whether they fit; `ChainsAssumption` that of `IsChain`
(section 2). A packet may be cut off, empty, all padding or longer than its buffer
there, but the model has to know what is at each place where the driver looks for
a MAP header, and in a linear buffer, where the driver counts on the header or
trailer of the format without looking for it, the hardware has put it there.
`IngressAssumption` has finitely many contexts and
descriptors, because the theorems count. Further hypotheses are part of the
theorem.

| Module | Theorem | States |
|---|---|---|
| `QosFlowsProofs` | `TypeCorrect` | `Spec => []TypeOK` |
| | `LifetimeSafe` | `Spec => []BearerLifetime` |
| | `QueueOwnerSafe` | `Spec => []QueueOwner` |
| | `UniqueSafe` | `Spec => []UniqueBearer` |
| | `RefCountSafe` | `Spec => []RefCount` |
| | `AwakeSafe` | `Spec => []AwakeIfGranted` |
| | `OnlyStaleSafe` | `Spec => OnlyStaleWatchdogOverGrants` |
| | `StoppedSafe` | `~DfcQmap => (Spec => []StoppedIfNotGranted)` |
| `DfcGrantProofs` | `GrantTypeSafe` | `Spec => []TypeOK`: no count becomes negative |
| | `AckSeqSafe` | `Spec => []AckSeqCurrent` |
| | `NoSilentStallSafe` | `Spec => []NoSilentStall` |
| | `StopIsAckedSafe`, `EndMarkerSafe` | `Spec => StopIsAcked`, `Spec => EndMarkerAnswered` |
| | `RefinesQosFlows` | `Spec => AbstractStep`: every step is one of `QosFlows` or none |
| `PowerSaveProofs` | `WorkSoundSafe`, `OneCarrierSafe` | `Spec => []WorkSound`, `Spec => []OneCarrier` |
| `QmiClientsProofs` | `ClientsSafe` | `SaveOnZero => (Spec => []ClientsSound)` |
| | `QueriedSafe` | `Spec => []QueriedWhenUp` |
| `TxAggregationProofs` | `PacketsSafe`, `NotOvertakenSafe` | `Spec => []PacketsSound`, `Spec => []NotOvertaken` |
| | `UncoverSafe` | `Spec => OnlyStaleCancelUncovers` |
| `AggPagesProofs` | `PoolSafe`, `RoomSafe` | `Spec => []PoolSound`, `Spec => []RoomSound` |
| `PortProofs` | `ReadersOutlived` | `Spec => []ReadersSafe` |
| | `TimersSafe`, `MarkersSafe` | `Spec => []TimersStopped`, `Spec => []MarkersSorted` |
| | `BridgeSafe`, `LinksSafe` | `Spec => []BridgePaired`, `Spec => []LinksSound` |
| `DownlinkProofs` | `SegmentsInFrame`, `SegmentsWithoutHole` | `SegSpec => []FragInFrame`, `SegSpec => []NoHole` |
| | `DescriptorsHaveOneHolder` | `Spec => []OneHolder` (`Spec` of `Ingress`) |
| | `PagesAlwaysBalanced` | `Spec => []PagesBalanced` |

The hypotheses beyond the constants are the ones the code needs. The watchdog,
which only QMAP starts, grants on its own, so `StoppedSafe` is about QMI.
`SaveOnZero` says that user space asks for power save with instance 0 only: the
work is stopped with that one. What the code does not guarantee in spite of all
hypotheses is part of the properties themselves, as an exception with a history
variable: a rebind that ran out of memory and left the counts wrong in `RefCount`,
`AwakeIfGranted`, `OnlyStaleWatchdogOverGrants` and `StoppedIfNotGranted` (`nomem`,
section 6), commands lost for want of memory and scale factor 1 in `NoSilentStall`,
`StopIsAcked` and `EndMarkerAnswered`, the packet that slept through a teardown in
`OneCarrier` (`late`), a copied `agg_size` in `RoomSound` (`raw`), offsets beyond 16
bits in `NoHole`.

None of the properties is inductive. The inductive invariants, each checked by
TLC on the runs of its module before it was proved:

`QosFlows`, a chain in which each link needs the one before, because an action
first undoes one table and then another:

- `StructInv` adds to `TypeOK` the state of the netlink program (`RtOK`: which
  request it remembers and when `removed` may be set), the lifetime of timers
  (`LifeOK`), of the removed bearer (`RemovedOK`), and the agreement of `mq[]`
  with the bearers (`OwnOK`). It holds also when allocations fail.
- `UniqueInv` adds that a bearer id is on the list once.
- `RefInv` adds to `StructInv` that flows point at listed bearers (`PointOK`) and
  that `flow_ref` is the cardinality of the set of a bearer's flows (`CountOK`).
- `AwakeInv` adds that granted bearers have awake queues (`AwakeOK`). Without
  `QueueOwner` one bearer's stop could hit another's queue, and without
  `RefCount` a put could free a bearer in use.
- `OverInv` adds to `RefInv` that a listed bearer with a queue has a flow and
  that ack queues lie beyond the data queues (`BoundOK`); from it each step is
  shown to wake no queue of a bearer without a grant, except the stale watchdog.
  `StopInv` adds that no watchdog is ever started (`NoWatch`), and that no bearer
  is over its grant.

From `RefInv` on each is claimed until a rebind runs out of memory (`RefHist`,
`AwakeHist`, `OverHist`, `StopHist`); no step takes that back (`NomemStays`).

The netlink requests are proved by their parts: the module states once what
get, put and bind do to each invariant (`GetOwn`, `PutOwn`, `BindOwn`, `PutRef`,
`GetAwake`, ...), and each request combines them. Handlers that leave the shape
of the tables alone go through `SameShapeKeeps`.

`DfcGrant`: `GrantInv` is the types, which sequence number a pending
acknowledgement may carry (`SeqOK`), and that a started watchdog is armed or
running (`WatchOK`). `NoSilentStall` needs also that a low grant nobody asked to
be renewed has a watchdog that was not told to quit, with TX on (`StallOK`).
`UpdateFcMap`, the handler with most
branches, is described once by `Ignored` or `Accepted`, and the first five theorems use
that description.

`RefinesQosFlows` has one lemma per handler (`UpdateSim`, `AllBearerSim`,
`TxLinkSim`, `BurstSim`, `ExpireSim`, `WatchdogSim`, `EnableSim`): the record `Abs` makes
of the bearer after the handler is the one that the handler of `QosFlows`, for the
transport in use, makes of the record before it, and the queues agree
(`AbsQueues`). What `dfc_adjust_grant` takes off a query response becomes the choice
`Adjusted` of `QosFlows`; a packet that does not use up the grant, an end marker and
a scale factor are no step of it. Beyond the types it needs `AbsAssumption`:
`NULL` is neither the one bearer nor the one flow of the mapping.

`PowerSave`: `PsInv` says what `work_exit` has waited for at each of its steps
(`LifeOK`), where `check_stats` may ignore grants (`GrantsOK`), and that there is
one carrier exactly while the active bit is set (`CarriersOK`: `OneCarrier`
without counting).

`QmiClients`: `ClientInv` follows the thread that deletes (`RtOK`), what the power
save work can hold meanwhile (`PsOK`), that nothing refers to a freed client
(`DeadOK`, `PtrOK`, `QmapOK`), and that the wrong transport's code runs only after a
change of transport (`SwitchOK`). `PowerOK`, that `qmi_info` stays while power
save is up, is where `SaveOnZero` is used.

`TxAggregation`: `AggInv` says what each context may have in its hands at each place
(`HandsOK`), what teardown has waited for (`LifeOK`), that every item that arrived is
in exactly one place (`PlacesOK`), and that the items older than a context's own are
gone from the aggregate once it is committed to sending (`OrderOK`).

`AggPages`: `PoolInv` joins the conjuncts of both properties with the link between
them, `ListedOrder`: the blocks of the pool have the order that new aggregates are
given the room of. The search for a free page is a recursive function; its range
is shown by the least index at which it could go wrong.

`Port`: `PortInv` divides a deletion into what comes before the grace period of
the endpoints, between it and the one of the devices, and after that (`Early`,
`Mid`, `Late`), and says for each what the holder of rtnl carries (`RtOK`), which
endpoints and devices are how far (`EsOK`, `VndOK`), and who may give up a port
(`PortOK`). Lists, endpoints and devices point at each other (`ListOK`, `EpOK`),
and `nr_rmnet_devs` is the cardinality of the set of endpoints that lead to a
device (`NrOK`): without it a port could be given up under a device, and its
readers. `ReaderOK` then says, for each thing a reader holds, that it is live or
that the grace period in progress waits for this reader. `CrashOK` needs `VndOK`:
only a device with live QoS state has a watchdog. `MarkersSafe` needs only the
types.

`LinkInv` comes on top of `PortInv`: dead endpoints belong to the operation in
progress (`DeadOK`), and, unless the history says that a port of a bridge was put
to another use or ran out of memory, `BridgeOK` says of every port whether both ends
of its bridge are there or it is on its way out (`Ends`), and what that way allows
at each stage of the operation (`Work`): a port without devices that is no slave
will be given up by the operation, and a bridge that an operation takes apart has
no endpoint beyond the ones it deletes. The last is where `nr_rmnet_devs <= 1` in
`rmnet_add_bridge` is needed. `LinksSafe` gets the count of devices from `NrOK` by the
bijection between endpoints that lead to a port and devices of it.

`Segmentation`: every behaviour has at most two steps, and all of the argument is in
what the loops compute. `FragMetas` and `SkbMetas` are the invariants of the two loops:
the segments so far follow each other (`Follows`), `data_offset` is the end of the last
one, and, for the fragment path, each lies within the frame (`Within`). One segment
keeps them whether or not its allocation succeeds; that the metadata is advanced only
together with the queue is what makes it so. Packet, NLO and frame follow by
induction (`FragPacketKeeps`, `FragNloKeeps`, `FragSegmentLoopKeeps`, and the same for the
socket buffer path). `NoHole` then needs that ends of
segments and sums of their lengths are the same thing modulo 2^16; on the fragment
path the length test keeps both below the length of the frame, so that for frames
below 64 KB they are equal.

`Ingress`: `IngressInv` has three parts.

- `SideInv` and `TypeInv` are the types.
- `CoreInv` adds where everything is. `OwnInv` says, until two contexts clash,
  that every descriptor is at exactly one of the places free list, lost, list of
  packets or list of segments of a context (`OwnOf`), once (`ListInv`), and what it
  holds there (`HoldInv`): nothing when free, as many bytes as its MAP header says when
  it waits to be handled, at least its headers when it waits to be delivered. `CtxInv`
  says of each context which buffer and packet it is at, how much of the buffer is
  left, what its lists may be at each `pc`, and that `runt` and `hollow` record every
  buffer that may cost or double a descriptor. `PoolInv` ties `pool_size`, `lost`, `clash`
  and `up` to them. `OneHolder` alone is not inductive: that `RecycleAgain` comes only
  after a packet without contents needs the lengths, and that no descriptor leaves
  the pool with pages needs `HoldInv`.
- `BalInv` adds `PagesBalanced` itself. The holders of a page are a disjoint union over
  contexts and descriptors (`Keys`); a step that changes the lists of some keys changes
  the number of holders by the difference (`PageSum`), which is what `GetPages` and
  `PutPages` add to the count. `HoldInv` is needed for descriptors that are taken from
  the pool, which must hold no page that would be forgotten.

Every move of descriptors is an instance of `MoveOwn` (a set of them goes from where
they are to where they go); `Moves` and `StepOK` say what a step of one context has to
show so that the rest of the invariant follows.

The proofs about the downlink need induction over lengths and recursive functions.
The library states both with an operator as a parameter, which the provers cannot
be given; `Least`, `Induction` and `Recursion` at the beginning of the module state them
for sets and functions instead, from the well-foundedness of the naturals: a set that
has 0 and is closed under the next index has all of them, and a function defined by
recursion over `0 .. n` exists.

Only model-checked:

- liveness (`WatchdogRecovers`, `NetlinkReturns`, `StalledFlowsRecover`,
  `DeleteReturns`, `AggregateLeaves`): the proof system does not do fairness;
- `PacketsRestored` and `PathsAgree` of `Segmentation`, and `DeliveredRight` of
  `Ingress`, which compare whole sequences of packets and of bytes with the ones the
  hardware sent. They would need induction over pairs of loops that run in step, and
  over the bytes of concatenated ranges.

## 5. Not modelled

See `components` in `PROJECT.json`. Left out for good: message encoding, trace
points, ethtool and statistics counters, the per-process statistics of
`rmnet_genl.c`, and the contents of packets as far as checksums go. The IPA and
MHI drivers, the QMI and netlink libraries, timers and work queues are external
and appear as the code uses them. In the parts that are modelled:

- `QosFlows`: `qmi_rmnet_get_queue`; the end of the whole `qos_info` is in `Port`;
- `DfcGrant`: several bearers in one indication (they are treated one by one by
  the code as well), transaction ids, decoding;
- `PowerSave`: the list of power save listeners, and the bearer watchdog, whose
  grants could only help `StalledFlowsRecover`;
- `QmiClients`: the list of received QMI indications, re-sending the DFC
  configuration, the sending side of `rmnet_ctl` and the probing and removal of
  its devices; the transmit path, which reads `qmi_info` (`qmi_rmnet_burst_fc_check`)
  in packet context;
- `TxAggregation`: the descriptor and UDP/QMAP header work before the lock; exit
  begins when no sender and no command is under way, which unregistering the
  last rmnet device guarantees;
- `Coalesce`: sums over bytes; a checksum that the code computes itself is a
  choice where the bytes are in several pages (`FragValidateCsum`), since the
  code sums contiguous memory from the first one on;
- `Ingress`: nonlinear buffers without v5 headers, the hooks of the perf and shs
  modules, and what the list pointers look like after two contexts recycled one
  descriptor (`clash` ends the behaviour there). When fewer bytes than a MAP header
  are left in a buffer that is not the last of its chain, the code reads the header on
  into the next buffer (`rmnet_descriptor.c:585`), where `DeaggregateEnd` stops; the packet
  is longer than what is left and is dropped in both, but the code takes a descriptor
  for it first and gives it back, or loses it if the chain ends after that header. With
  the run's header length of 1 the case does not arise. Nor do the run's chains have
  more fragments than a socket buffer holds, so that the clause of `DeliveredRight` on
  a packet that is attached short is not reached;
- `Port`: what follows a changelink that names another device's port or a mux id
  in use (`misled` ends the behaviour there), `rmnet_fill_info`, storing data
  formats; the aggregation parameters of a new link are in `AggPages`.

## 6. What the checks say about the code

The code disagrees with the comment "If TX is OFF but we received grant, ignore
it" (`dfc_qmi.c:1013`) in two places. The watchdog grants to a bearer whose TX
went off while it had no grant; this is kept as the run `qos_tx_off_watchdog`,
which ends in a violation. And an all-bearers indication
(`dfc_all_bearer_flow_ctl`) grants to bearers whose TX is off, without the test
that a single-bearer indication makes.

The comments "NLOs containing csum erros will not be included"
(`rmnet_map_data.c:895`, `rmnet_descriptor.c:1089`) do not describe the code either: both
implementations cut a packet the hardware marked off as a segment of its own and
pass it on, with a checksum made wrong on purpose so that the stack drops it. The
run `segmentation_errors` keeps this as a violation of `ErrorsNotIncluded`;
`PacketsRestored` describes what the code does.

Observations that no line of the repository contradicts, and that shape how the
properties are stated:

- The watchdog of a bearer that a rebind removed may still wake the queue its
  successor owns by then (`OnlyStaleWatchdogOverGrants`). It errs towards
  sending; the next packet or indication stops the queue.
- A rebind that runs out of memory leaves the flow pointing at the bearer it put
  and the count one short. From then on (`nomem`) `RefCount` and what rests on it
  are not claimed; `BearerLifetime`, `QueueOwner` and `UniqueBearer` still are.
- When user space binds one bearer to two queues, the bearer controls the later
  one only; when two bearers are bound to one queue, the later one controls it.
  `AwakeIfGranted` is therefore about the queue a bearer controls.
- An all-bearers indication and power save drop a held end marker without a
  confirmation, a confirmation or ack whose buffer cannot be allocated is not
  issued again (the queue is stopped all the same), and after power save or TX
  coming back the confirmation may carry sequence number 0 (`EndMarkerAnswered`,
  `AckSeqCurrent`).
- `qmi_rmnet_change_link` refuses a scale factor of 0 only. With 1 the threshold is
  the whole grant, and the test `start_grant > bearer->grant_thresh`
  (`dfc_qmi.c:1509`) is never true: the grant is used up without a query. So is a
  grant whose query could not be allocated. The bearer then waits for the modem to
  send a grant of its own accord. `NoSilentStall` has these two exceptions and, for all
  scale factors, no other.
- Power save skips a bearer whose TX is off and still counts it as a disabled flow:
  while there is one and no indication comes, `check_stats` polls and does not enter
  power save. `StalledFlowsRecover` is about bearers with TX on.
- `work_exit` clears `rmnet_work_inited` after its grace period. A packet that saw it
  set and has not begun its rcu section may sleep through the rest of `work_exit` and
  the next `work_init`, and then queues the new work although the active bit is set
  already: the work runs once too often (`late` in `OneCarrier`). It finds the new
  work, not the freed one (`WorkSound`).
- `rmnet_newlink` copies the aggregation parameters of user space into the port
  without order, overhead or pool. Until the next changelink `agg_size` may exceed the
  room of the blocks that `agg_size_order` allocates, and the first packet is tested
  against `agg_size` only (`raw` in `SizeIsRoom`). The room of a buffer itself is that of
  its block (`BufferFits`).
- `work_exit` leaves `ps_enabled` and `ps_ignore_grant` as they are.
- `hrtimer_cancel` after the unlock can cancel the timer of the next aggregate,
  which then waits for another packet (`OnlyStaleCancelUncovers`).
- An aggregate that one context has taken but not yet handed to the device can
  be overtaken by what another context sends (`NotOvertaken` is about what is
  still in the aggregate).
- The power save work is stopped with instance 0. If user space asked for power
  save with another instance only, deleting that one would free `qmi_info`
  under it; `QmiLive` is checked for requests that do not do that.
- `dfc_qmap` is one flag for all clients. A request that names the other
  transport while a DFC client is there makes deletion and queries run the wrong
  transport's code on it (`ClientsSound` says: only then). A second QMAP client
  is refused while one exists. The grace period of `dfc_qmap_client_exit` repeats
  the one `rmnet_ctl` already waited for.
- `rmnet_ctl_endpoint_post` frees a socket buffer with `kfree` when no client is
  there (`rmnet_ctl_client.c:90`).

Coalesced frames:

- `data_offset` has 16 bits (`rmnet_map_data.c:34`, `rmnet_descriptor.h:44`). On the socket
  buffer path, which has no test against the frame's length, NLOs that claim more than
  64 KB make it wrap, and the next segment is cut from the beginning again. On the
  fragment path the length test comes first, and a frame whose length fits 16 bits has
  no wrapped offset (`NoHole`).
- A segment that could not be allocated leaves `data_offset` and `gso_segs`
  behind. The data passed on then still has no hole (`NoHole`), but its
  segments are cut at other places than the packets were, and the packet that
  failed is tried once more at the end of its NLO, as a good one. The fragment
  path then never leaves the frame (`FragInFrame`); the socket buffer path has no
  such test.
- IP ids never decrease, but a flagged packet after good ones, or a new NLO, may
  repeat one; `PacketsRestored` says no more than that.
- The packet count is a `u8` and can wrap (a second NLO of 255), and the error
  mask is read as one field over all NLOs. `SegmentsInFrame` shows that the length
  test in `__rmnet_frag_segment_data` makes up for it, whatever the header says.
- A coalesced frame in a linear buffer takes the rest of the buffer with it.

Descriptors:

- A buffer that ends right after a MAP header loses a descriptor
  (`rmnet_descriptor.c:615`); a v5 packet that is all padding, or whose headers
  are longer than it is, has its descriptor recycled twice. The second recycling
  does no harm alone, but clashes with a context that has taken the
  descriptor in between. `OneHolder` says that these are the only two cases, and is
  proved. Page references stay right even then (`PagesBalanced`).
- With `RMNET_INGRESS_FORMAT_DL_MARKER` set the fragment path looks at markers
  only, while the socket buffer path goes on to flow commands; both are modelled
  as they are.

Configuration:

- `egress_dev` is cleared before the grace period, so a packet on its way in can
  find it null although the endpoint is still there; the locking scheme
  described in `rmnet_config.c` has rcu_read_lock suffice. `ReadersSafe` says that
  it happens only while the endpoint is being deleted.
- When `rmnet_descriptor_init` runs out of memory the receive handler stays
  registered with a half-built port, whose pool is freed a second time later, or
  was never there (`nomem`).
- A link on a port of a bridge, or a second bridge, leaves one end pointing at a
  port that is gone (`mixed`).
- `rmnet_changelink` takes the port from the request and does not ask whether the
  new mux id is free (`misled`).
- `rmnet_map_dl_ind_register` compares a client that belongs at the end with the
  list head as if it were an entry; the client may silently not be added.

## 7. Plan

All modules of the inventory that carry the driver's own logic are there. Next:

1. The queue of received QMI indications, and the sending side of `rmnet_ctl`
   against the removal of its device.
2. The list of power save listeners; `rmnet_genl.c`, if it ever matters to more
   than its own counters.
