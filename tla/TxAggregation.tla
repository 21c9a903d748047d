--------------------------- MODULE TxAggregation ---------------------------
(***************************************************************************)
(* Uplink aggregation of one rmnet port (rmnet_map_data.c): packets sent   *)
(* on several processors are gathered in one buffer under agg_lock; the    *)
(* buffer is shipped when it is full, too old, followed by a priority      *)
(* packet or by a QMAP command, or by a work item that a timer queues.     *)
(*                                                                         *)
(* What happens under agg_lock is one step.  Whoever takes the buffer out  *)
(* cancels the timer and hands the buffer to the device AFTER it dropped   *)
(* the lock, so that these are steps of their own.                         *)
(*                                                                         *)
(* Data abstraction: lengths and times are left out.  They only decide     *)
(* whether a packet is appended or the buffer is shipped first, and either *)
(* may happen; the buffer's memory is module AggPages.                     *)
(***************************************************************************)
EXTENDS Integers, Sequences, FiniteSets

CONSTANTS
    Senders,    \* processors in rmnet_map_tx_aggregate
    Commanders, \* processors in rmnet_map_tx_qmap_cmd
    Flusher,    \* the worker that runs agg_wq
    MaxItems,   \* bound on the packets or commands of each context
    Counts      \* egress_agg_params.agg_count values user space sets

Contexts == Senders \cup Commanders \cup {Flusher}
Items == UNION {{c} \X (1 .. MaxItems[c]) : c \in Senders \cup Commanders}

ASSUME AggAssumption ==
    /\ MaxItems \in [Senders \cup Commanders -> Nat]
    /\ Counts \subseteq 0 .. 255 /\ Counts # {}
    /\ Flusher \notin Senders \cup Commanders
    /\ Senders \cap Commanders = {}

VARIABLES
    port,   \* agg_skb (<<>> for NULL), agg_count, agg_state = -EINPROGRESS
    limit,  \* egress_agg_params.agg_count
    timer,  \* hrtimer pending
    work,   \* agg_wq queued
    ctx,    \* where each context is and what it has in its hands
    arrived,\* how many items each context was given so far
    sent,   \* items handed to the device (dev_queue_xmit)
    dropped,\* packets freed by rmnet_map_tx_aggregate_exit
    life    \* progress of registering and unregistering the real device

vars == <<port, limit, timer, work, ctx, arrived, sent, dropped, life>>

\* own: the item a context was called with; hold: the buffer it took out; next:
\* where it goes once that is sent; older (history): the packets that were in
\* the aggregate when the item came.
IdleCtx == [pc |-> "idle", own |-> {}, hold |-> <<>>, next |-> "idle",
            older |-> {}]

Empty == [skb |-> <<>>, agg_count |-> 0, in_progress |-> FALSE]

Aggregated == {port.skb[i] : i \in 1 .. Len(port.skb)}
Holds(c) == {ctx[c].hold[i] : i \in 1 .. Len(ctx[c].hold)}

TypeOK ==
    /\ port.skb \in Seq(Items) /\ port.agg_count = Len(port.skb)
    /\ \E n \in Counts \cup {1} : port.agg_count <= n
    /\ port.in_progress \in BOOLEAN
    /\ limit \in Counts
    /\ timer \in BOOLEAN /\ work \in BOOLEAN
    /\ \A c \in Contexts :
          /\ ctx[c].pc \in {"idle", "enter", "cancel", "xmit", "own", "skip"}
          /\ ctx[c].next \in {"idle", "enter", "own"}
          /\ ctx[c].own \subseteq Items /\ ctx[c].older \subseteq Items
    /\ \A c \in Senders \cup Commanders : arrived[c] \in 0 .. MaxItems[c]
    /\ sent \subseteq Items /\ dropped \subseteq Items
    /\ life \in {"up", "notimer", "nowork", "down"}

Init ==
    /\ port = Empty
    /\ limit \in Counts
    /\ timer = FALSE /\ work = FALSE
    /\ ctx = [c \in Contexts |-> IdleCtx]
    /\ arrived = [c \in Senders \cup Commanders |-> 0]
    /\ sent = {} /\ dropped = {}
    /\ life = "up"

-----------------------------------------------------------------------------
(* Pieces of the handlers                                                   *)

\* Mutant: agg_state is not reset when the buffer is taken out
TakenKeepsState(c, next) ==
    /\ port' = [port EXCEPT !.skb = <<>>, !.agg_count = 0]
    /\ ctx' = [ctx EXCEPT ![c].pc = "cancel", ![c].hold = port.skb,
                          ![c].next = next]

\* rmnet_map_send_agg_skb under the lock: the state is reset, the buffer is in
\* the hands of context c.
Taken(c, next) ==
    /\ port' = Empty
    /\ ctx' = [ctx EXCEPT ![c].pc = "cancel", ![c].hold = port.skb,
                          ![c].next = next]

\* Label "schedule": a first packet starts the timer.
Scheduled(skb) ==
    /\ port' = [skb |-> skb, agg_count |-> Len(skb), in_progress |-> TRUE]
    /\ timer' = (timer \/ ~port.in_progress)

-----------------------------------------------------------------------------
(* rmnet_map_tx_aggregate                                                   *)

\* A packet or a command is handed to a context.
Enter(c) ==
    /\ life = "up"
    /\ ctx[c].pc = "idle"
    /\ arrived[c] < MaxItems[c]   \* bound
    /\ arrived' = [arrived EXCEPT ![c] = @ + 1]
    /\ ctx' = [ctx EXCEPT ![c] = [IdleCtx EXCEPT
                  !.pc = "enter", !.own = {<<c, arrived[c] + 1>>},
                  !.older = Aggregated]]
    /\ UNCHANGED <<port, limit, timer, work, sent, dropped, life>>

\* rmnet_map_tx_agg_skip (ICMP), or the port does not aggregate: the packet is
\* sent without a look at the aggregate.
AggSkip(c) ==
    /\ ctx[c].pc = "enter"
    /\ ctx' = [ctx EXCEPT ![c].pc = "skip"]
    /\ UNCHANGED <<port, limit, timer, work, arrived, sent, dropped, life>>

\* A priority packet ships what is aggregated and then itself.
Priority(c) ==
    /\ ctx[c].pc = "enter"
    /\ IF port.skb = <<>>
       THEN ctx' = [ctx EXCEPT ![c].pc = "own"] /\ UNCHANGED port
       ELSE Taken(c, "own")
    /\ UNCHANGED <<limit, timer, work, arrived, sent, dropped, life>>

\* No aggregate and the traffic is sparse, the packet is too long, or there is
\* no memory for a buffer: the packet is sent alone.
SendAlone(c) ==
    /\ ctx[c].pc = "enter"
    /\ port.skb = <<>>
    /\ port' = [port EXCEPT !.agg_count = 0]
    /\ ctx' = [ctx EXCEPT ![c].pc = "own"]
    /\ UNCHANGED <<limit, timer, work, arrived, sent, dropped, life>>

\* The packet starts an aggregate, or is appended to one with room for it.
AppendPacket(c) ==
    /\ ctx[c].pc = "enter"
    /\ port.skb # <<>> => port.agg_count < limit
    /\ \E p \in ctx[c].own : Scheduled(Append(port.skb, p))
    /\ ctx' = [ctx EXCEPT ![c] = IdleCtx]
    /\ UNCHANGED <<limit, work, arrived, sent, dropped, life>>

\* Mutant: no "goto new_packet"
ShipForgetsPacket(c) ==
    /\ ctx[c].pc = "enter"
    /\ port.skb # <<>>
    /\ port' = Empty
    /\ ctx' = [ctx EXCEPT ![c] = [IdleCtx EXCEPT !.pc = "cancel",
                                                 !.hold = port.skb]]
    /\ UNCHANGED <<limit, timer, work, arrived, sent, dropped, life>>

\* No room, too many packets or too old: ship the aggregate and start over.
Ship(c) ==
    /\ ctx[c].pc = "enter"
    /\ port.skb # <<>>
    /\ Taken(c, "enter")
    /\ UNCHANGED <<limit, timer, work, arrived, sent, dropped, life>>

\* hrtimer_cancel, after the unlock
CancelTimer(c) ==
    /\ ctx[c].pc = "cancel"
    /\ timer' = FALSE
    /\ ctx' = [ctx EXCEPT ![c].pc = "xmit"]
    /\ UNCHANGED <<port, limit, work, arrived, sent, dropped, life>>

\* dev_queue_xmit of the aggregate
XmitAggregate(c) ==
    /\ ctx[c].pc = "xmit"
    /\ sent' = sent \cup Holds(c)
    /\ ctx' = [ctx EXCEPT ![c].pc = ctx[c].next, ![c].hold = <<>>,
                          ![c].next = "idle"]
    /\ UNCHANGED <<port, limit, timer, work, arrived, dropped, life>>

\* dev_queue_xmit of the item itself
XmitOwn(c) ==
    /\ ctx[c].pc \in {"own", "skip"}
    /\ sent' = sent \cup ctx[c].own
    /\ ctx' = [ctx EXCEPT ![c] = IdleCtx]
    /\ UNCHANGED <<port, limit, timer, work, arrived, dropped, life>>

\* Mutant: the command does not push the aggregate out
TxQmapCmdNoFlush(c) ==
    /\ ctx[c].pc = "enter"
    /\ ctx' = [ctx EXCEPT ![c].pc = "own"]
    /\ UNCHANGED <<port, limit, timer, work, arrived, sent, dropped, life>>

\* rmnet_map_tx_qmap_cmd ships the aggregate before the command.
TxQmapCmd(c) ==
    /\ ctx[c].pc = "enter"
    /\ IF port.skb = <<>>
       THEN ctx' = [ctx EXCEPT ![c].pc = "own"] /\ UNCHANGED port
       ELSE Taken(c, "own")
    /\ UNCHANGED <<limit, timer, work, arrived, sent, dropped, life>>

-----------------------------------------------------------------------------
(* The timer and its work item                                              *)

\* rmnet_map_flush_tx_packet_queue
FlushTxPacketQueue ==
    /\ timer
    /\ timer' = FALSE
    /\ work' = TRUE
    /\ UNCHANGED <<port, limit, ctx, arrived, sent, dropped, life>>

\* The workqueue takes the item and starts rmnet_map_flush_tx_packet_work ...
FlushWorkStart ==
    /\ work
    /\ ctx[Flusher].pc = "idle"
    /\ work' = FALSE
    /\ ctx' = [ctx EXCEPT ![Flusher].pc = "enter"]
    /\ UNCHANGED <<port, limit, timer, arrived, sent, dropped, life>>

\* Mutant: the work puts the aggregate off by another period
FlushWorkLater ==
    /\ ctx[Flusher].pc = "enter"
    /\ timer' = (timer \/ port.skb # <<>>)
    /\ ctx' = [ctx EXCEPT ![Flusher] = IdleCtx]
    /\ UNCHANGED <<port, limit, work, arrived, sent, dropped, life>>

\* ... which takes the aggregate out, whichever it is by now.
FlushWork ==
    /\ ctx[Flusher].pc = "enter"
    /\ IF port.in_progress
       THEN port' = Empty
       ELSE UNCHANGED port
    /\ ctx' = [ctx EXCEPT ![Flusher] =
                 IF port.in_progress /\ port.skb # <<>>
                 THEN [IdleCtx EXCEPT !.pc = "xmit", !.hold = port.skb]
                 ELSE IdleCtx]
    /\ UNCHANGED <<limit, timer, work, arrived, sent, dropped, life>>

-----------------------------------------------------------------------------
(* Configuration, unregistering and registering the real device             *)

\* rmnet_map_update_ul_agg_config
UpdateUlAggConfig(n) ==
    /\ life = "up"
    /\ limit' = n
    /\ UNCHANGED <<port, timer, work, ctx, arrived, sent, dropped, life>>

\* rmnet_map_tx_aggregate_exit.  The rmnet devices are gone (nr_rmnet_devs is
\* zero), so nobody sends; the timer and the work may still be about.
ExitTimer ==
    /\ life = "up"
    /\ \A c \in Senders \cup Commanders : ctx[c].pc = "idle"
    /\ timer' = FALSE
    /\ life' = "notimer"
    /\ UNCHANGED <<port, limit, work, ctx, arrived, sent, dropped>>

\* cancel_work_sync waits for the work that runs.
ExitWork ==
    /\ life = "notimer"
    /\ ctx[Flusher].pc = "idle"
    /\ work' = FALSE
    /\ life' = "nowork"
    /\ UNCHANGED <<port, limit, timer, ctx, arrived, sent, dropped>>

ExitFree ==
    /\ life = "nowork"
    /\ IF port.in_progress
       THEN port' = Empty /\ dropped' = dropped \cup Aggregated
       ELSE UNCHANGED <<port, dropped>>
    /\ life' = "down"
    /\ UNCHANGED <<limit, timer, work, ctx, arrived, sent>>

\* rmnet_map_tx_aggregate_init for a new port
AggregateInit(n) ==
    /\ life = "down"
    /\ port' = Empty
    /\ limit' = n
    /\ life' = "up"
    /\ UNCHANGED <<timer, work, ctx, arrived, sent, dropped>>

-----------------------------------------------------------------------------

Sender(c) == \/ Enter(c) \/ AggSkip(c) \/ Priority(c) \/ SendAlone(c)
             \/ AppendPacket(c) \/ Ship(c)

Commander(c) == Enter(c) \/ AggSkip(c) \/ TxQmapCmd(c)

Deliver(c) == CancelTimer(c) \/ XmitAggregate(c) \/ XmitOwn(c)

Exit == ExitTimer \/ ExitWork \/ ExitFree

Next ==
    \/ \E c \in Senders : Sender(c)
    \/ \E c \in Commanders : Commander(c)
    \/ \E c \in Contexts : Deliver(c)
    \/ FlushTxPacketQueue \/ FlushWorkStart \/ FlushWork
    \/ \E n \in Counts : UpdateUlAggConfig(n) \/ AggregateInit(n)
    \/ Exit

Spec == Init /\ [][Next]_vars

\* A pending timer goes off, queued work runs, a context that took the
\* aggregate delivers it, and an exit that began ends.  Nothing makes a new
\* packet come.
Fairness ==
    /\ WF_vars(FlushTxPacketQueue) /\ WF_vars(FlushWorkStart)
    /\ WF_vars(FlushWork) /\ WF_vars(ExitWork) /\ WF_vars(ExitFree)
    /\ \A c \in Contexts : WF_vars(Deliver(c))

FairSpec == Spec /\ Fairness

-----------------------------------------------------------------------------
(* Properties.                                                              *)

\* Where an item is: in the aggregate, in one context's hands, as part of the
\* buffer it took out or as the item it was called with, sent, or freed by exit.
Places(p) ==
    ({"buffer"} \X {d \in Contexts : p \in Holds(d)})
    \cup ({"item"} \X {d \in Contexts : p \in ctx[d].own})
    \cup (IF p \in Aggregated THEN {<<"port", "aggregate">>} ELSE {})
    \cup (IF p \in sent THEN {<<"device", "sent">>} ELSE {})
    \cup (IF p \in dropped THEN {<<"exit", "dropped">>} ELSE {})

\* Nothing is lost or doubled: whichever contexts take the buffer out between
\* each other's locks, every item handed in is in exactly one place.
ExactlyOnce ==
    \A c \in Senders \cup Commanders : \A n \in 1 .. MaxItems[c] :
        Cardinality(Places(<<c, n>>)) = IF n <= arrived[c] THEN 1 ELSE 0

\* A packet or a command that is sent on its own does not overtake what was in
\* the aggregate when it came ("Send out any aggregated SKBs we have", and the
\* flush in rmnet_map_tx_qmap_cmd, on which the order of data and flow control
\* acks rests): by then the aggregate has been taken out.
NotOvertaken ==
    \A c \in Contexts : ctx[c].pc = "own" => ctx[c].older \cap Aggregated = {}

\* Somebody will ship the aggregate although no packet follows: its timer, the
\* queued work, or the work that is about to take the lock.
Covered == port.skb # <<>> => timer \/ work \/ ctx[Flusher].pc = "enter"

\* With several contexts there is one way to lose that cover: a context that
\* shipped an earlier aggregate cancels, after its unlock, the timer that was
\* meanwhile started for the present one.
OnlyStaleCancelUncovers ==
    [][(Covered /\ ~Covered' /\ life' = "up") =>
          \E c \in Senders \cup Commanders :
              ctx[c].pc = "cancel" /\ ctx'[c].pc = "xmit" /\ timer]_vars

\* After exit nothing is left behind: no timer, no work, no buffer that
\* belongs to the freed port, and no worker that will touch it.
NothingAfterExit ==
    life = "down" =>
        /\ ~timer /\ ~work /\ ctx[Flusher].pc = "idle"
        /\ port.skb = <<>>

\* An aggregate leaves although nothing follows it, unless its cover is lost.
AggregateLeaves == port.skb # <<>> ~> (port.skb = <<>> \/ ~Covered)

\* Packets and the port survive every interleaving: each item is in exactly one
\* place, and exit leaves neither timer, work nor buffer behind.
PacketsSound == TypeOK /\ ExactlyOnce /\ NothingAfterExit

=============================================================================
