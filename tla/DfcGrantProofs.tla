--------------------------- MODULE DfcGrantProofs ---------------------------
(***************************************************************************)
(* Proofs about DfcGrant for any grants, lengths, received byte counts,    *)
(* sequence numbers, scale factors and bound on the bytes in flight, any   *)
(* command being lost: which grants can run out unasked, the sequence      *)
(* number an ack carries, the two rules on what must be acknowledged in    *)
(* the step that stops a bearer, and that every step is a step of          *)
(* QosFlows.                                                               *)
(***************************************************************************)
EXTENDS DfcGrant, TLAPS

Bearer == [grant_size : Nat, grant_thresh : Nat, seq : Seq16, last_seq : Seq16,
           ack_req : BOOLEAN, bytes_in_flight : Nat, tcp_bidir : BOOLEAN,
           rat_switch : BOOLEAN, tx_off : BOOLEAN,
           wd_started : BOOLEAN, wd_quit : BOOLEAN,
           wd_armed : BOOLEAN, wd_running : BOOLEAN]

\* The sequence number of the last grant, or none since it was replaced,
\* whether or not an ack is owed
SeqOK == b.seq \in {b.last_seq, 0}

\* A started watchdog is armed or running
WatchOK == b.wd_started => b.wd_armed \/ b.wd_running

\* A grant at or below its threshold whose query is still due is watched by a
\* watchdog that was not told to quit, and the TX link is on: the watchdog will
\* renew the grant, and nobody removes it before the grant is replaced
StallOK ==
    b.grant_size # 0 =>
        \/ b.grant_size > b.grant_thresh
        \/ query # "due"
        \/ ~b.wd_quit /\ ~b.tx_off /\ (b.wd_armed \/ b.wd_running)

\* What the step issued, whether or not it could be handed over
Issued == out \cup lost

-----------------------------------------------------------------------------
(* The operators.                                                          *)

LEMMA SendIssues ==
    ASSUME NEW cmds, cmds \subseteq Commands, Send(cmds)
    PROVE  Issued' = cmds /\ out' \subseteq Commands /\ lost' \subseteq Commands
BY DEF Send, Issued

LEMMA SendNothing ==
    ASSUME Send({})
    PROVE  Issued' = {} /\ out' \subseteq Commands /\ lost' \subseteq Commands
BY SendIssues

LEMMA DivNat ==
    ASSUME NEW g \in Nat, NEW s \in Nat \ {0}
    PROVE  g \div s \in Nat
OBVIOUS

\* A threshold is below its grant unless the scale factor is 1
LEMMA DivLess ==
    ASSUME NEW g \in Nat, NEW s \in Nat \ {0, 1}
    PROVE  g # 0 => g \div s < g
OBVIOUS

LEMMA MinusNat ==
    ASSUME NEW x \in Nat, NEW y \in Nat
    PROVE  Minus(x, y) \in Nat /\ Minus(x, y) <= x
BY DEF Minus

\* d differs from c at most in what the watchdog keeps
SameButWatchdog(c, d) ==
    /\ d.grant_size = c.grant_size /\ d.grant_thresh = c.grant_thresh
    /\ d.seq = c.seq /\ d.last_seq = c.last_seq /\ d.ack_req = c.ack_req
    /\ d.bytes_in_flight = c.bytes_in_flight /\ d.tcp_bidir = c.tcp_bidir
    /\ d.rat_switch = c.rat_switch /\ d.tx_off = c.tx_off
    /\ d.wd_running = c.wd_running

LEMMA WatchdogAddShape ==
    ASSUME NEW c \in Bearer
    PROVE  /\ WatchdogAdd(c) \in Bearer
           /\ SameButWatchdog(c, WatchdogAdd(c))
           /\ ~WatchdogAdd(c).wd_quit
           /\ WatchdogAdd(c).wd_armed \/ (c.wd_started /\ ~c.wd_armed)
BY DEF WatchdogAdd, Bearer, SameButWatchdog

LEMMA WatchdogRemoveShape ==
    ASSUME NEW c \in Bearer
    PROVE  /\ WatchdogRemove(c) \in Bearer
           /\ SameButWatchdog(c, WatchdogRemove(c))
           /\ WatchdogRemove(c).wd_quit
           /\ ~WatchdogRemove(c).wd_started
BY DEF WatchdogRemove, Bearer, SameButWatchdog

LEMMA FlowCtlShape ==
    ASSUME TypeOK, NEW c \in Bearer
    PROVE  /\ FlowCtlQueue(c) \in [data : BOOLEAN, ack : BOOLEAN]
           /\ FlowCtlQueue(c).data = (c.grant_size # 0)
           /\ FlowCtlAck(c) \subseteq Commands
           /\ "disable" \in FlowCtlAck(c) <=> c.grant_size = 0 /\ c.ack_req
BY DEF TypeOK, FlowCtlQueue, FlowCtlAck, Bearer, Commands

LEMMA FlowCtlSends ==
    ASSUME TypeOK, NEW c \in Bearer, NEW p \in BOOLEAN,
           Send(IF p THEN FlowCtlAck(c) ELSE {})
    PROVE  /\ out' \subseteq Commands /\ lost' \subseteq Commands
           /\ p => ("disable" \in Issued' <=> c.grant_size = 0 /\ c.ack_req)
<1>1. (IF p THEN FlowCtlAck(c) ELSE {}) \subseteq Commands
  BY FlowCtlShape
<1>2. /\ out' \subseteq Commands /\ lost' \subseteq Commands
      /\ Issued' = IF p THEN FlowCtlAck(c) ELSE {}
  BY <1>1, SendIssues
<1> QED
  BY <1>2, FlowCtlShape

LEMMA FlowCtlSent ==
    ASSUME TypeOK, NEW c \in Bearer, Send(FlowCtlAck(c))
    PROVE  /\ out' \subseteq Commands /\ lost' \subseteq Commands
           /\ "disable" \in Issued' <=> c.grant_size = 0 /\ c.ack_req
BY FlowCtlSends

-----------------------------------------------------------------------------
(* dfc_update_fc_map                                                       *)


\* An ignored update changes rat_switch only; an accepted one leaves the grant
\* above its threshold, or watched.
Ignored ==
    /\ \E r \in BOOLEAN : b' = [b EXCEPT !.rat_switch = r]
    /\ Send({}) /\ queue' = queue /\ query' = query

Accepted(sn, req) ==
    /\ b' \in Bearer /\ query' \in {"due", QueryOfGrant}
    /\ b'.seq = sn /\ b'.last_seq = sn /\ b'.ack_req = req
    /\ b'.tx_off = b.tx_off
    /\ \/ /\ b'.grant_thresh = GrantPer(b'.grant_size)
          /\ query' = QueryOfGrant
       \/ ~b'.wd_quit /\ ~b.tx_off
    /\ ~b'.wd_quit => b'.wd_armed \/ (b.wd_started /\ ~b.wd_armed)
    /\ b'.wd_running = b.wd_running
    /\ b'.wd_started => ~b'.wd_quit
    /\ \/ queue' = FlowCtlQueue(b')
       \/ queue' = queue /\ (b.grant_size = 0 <=> b'.grant_size = 0)
    /\ out' \subseteq Commands /\ lost' \subseteq Commands
    /\ (dfc_qmap /\ Held /\ ~req) => "disable" \in Issued'
    /\ (queue' # queue /\ b'.grant_size = 0 /\ req) => "disable" \in Issued'

LEMMA UpdateShape ==
    ASSUME TypeOK, NEW num \in Nat, NEW sn \in Seq16, NEW req \in BOOLEAN,
           NEW rat \in BOOLEAN, NEW bidir \in BOOLEAN, NEW is_query \in BOOLEAN,
           NEW rx \in Nat \cup {-1},
           UpdateFcMap(num, sn, req, rat, bidir, is_query, rx)
    PROVE  Ignored \/ Accepted(sn, req)
<1> DEFINE c == IF rat THEN [b EXCEPT !.rat_switch = (num = 0)] ELSE b
           ignored == (~rat /\ b.rat_switch) \/ (b.tx_off /\ num > 0)
           adjust == dfc_qmap /\ is_query
           grant == IF adjust THEN AdjustGrant(num, rx) ELSE num
           low == adjust /\ grant < num \div 5
           flight == IF adjust THEN InFlightLeft(rx) ELSE 0
           thresh == IF low THEN grant ELSE GrantPer(grant)
           d == [c EXCEPT !.bytes_in_flight = flight, !.grant_size = grant,
                          !.grant_thresh = thresh, !.seq = sn, !.last_seq = sn,
                          !.ack_req = req, !.tcp_bidir = bidir]
           action == (b.grant_size = 0) # (grant = 0)
           superseded == dfc_qmap /\ b.ack_req /\ ~req /\ b.grant_size # 0
<1>0. b \in Bearer /\ scale \in Nat \ {0}
  BY GrantAssumption DEF TypeOK, Bearer
<1>1. flight \in Nat /\ grant \in Nat
  BY <1>0, MinusNat DEF AdjustGrant, InFlightLeft, Bearer
<1>2. thresh \in Nat
  BY <1>0, <1>1, DivNat DEF GrantPer
<1>3. \E r \in BOOLEAN : c = [b EXCEPT !.rat_switch = r]
  BY <1>0 DEF Bearer
<1>4. low => num > 0
  BY <1>1
<1>5. PICK r \in BOOLEAN : c = [b EXCEPT !.rat_switch = r]
  BY <1>3
<1>6. /\ d \in Bearer
      /\ d.grant_size = grant /\ d.grant_thresh = thresh
      /\ d.seq = sn /\ d.last_seq = sn /\ d.ack_req = req
      /\ d.tx_off = b.tx_off /\ d.wd_quit = b.wd_quit
      /\ d.wd_started = b.wd_started /\ d.wd_armed = b.wd_armed
      /\ d.wd_running = b.wd_running
  <2>1. /\ c \in Bearer /\ c.tx_off = b.tx_off /\ c.wd_quit = b.wd_quit
        /\ c.wd_started = b.wd_started /\ c.wd_armed = b.wd_armed
        /\ c.wd_running = b.wd_running
    <3> HIDE DEF c
    <3> QED
      BY <1>0, <1>5 DEF Bearer
  <2> HIDE DEF c, flight, grant, thresh
  <2> QED
    BY <1>1, <1>2, <2>1 DEF Bearer
<1>7. IF ignored
      THEN b' = c /\ Send({}) /\ UNCHANGED <<queue, query>>
      ELSE /\ b' = IF low THEN WatchdogAdd(d) ELSE WatchdogRemove(d)
           /\ queue' = IF action THEN FlowCtlQueue(d) ELSE queue
           /\ Send((IF superseded THEN {"disable"} ELSE {})
                     \cup (IF action THEN FlowCtlAck(d) ELSE {}))
           /\ query' = IF low THEN "due" ELSE QueryOfGrant
  BY DEF UpdateFcMap
<1>8. CASE ignored
  BY <1>3, <1>7, <1>8 DEF Ignored
<1>9. CASE ~ignored
  <2>1. thresh = grant \/ thresh = GrantPer(grant)
    OBVIOUS
  <2>2. low => ~b.tx_off
    BY <1>0, <1>4, <1>9 DEF Bearer
  <2>3. ~low => thresh = GrantPer(grant)
    OBVIOUS
  <2> HIDE DEF c, ignored, flight, grant, low, thresh, d, action
  <2>4. /\ b' \in Bearer
        /\ b'.grant_size = grant /\ b'.grant_thresh = thresh
        /\ b'.seq = sn /\ b'.last_seq = sn /\ b'.ack_req = req
        /\ b'.tx_off = b.tx_off /\ b'.tcp_bidir = d.tcp_bidir
        /\ b'.wd_running = b.wd_running
        /\ IF low
           THEN ~b'.wd_quit /\ (b'.wd_armed \/ (b.wd_started /\ ~b.wd_armed))
           ELSE b'.wd_quit /\ ~b'.wd_started
    <3>1. CASE low
      BY <1>6, <1>7, <1>9, <3>1, WatchdogAddShape DEF SameButWatchdog
    <3>2. CASE ~low
      BY <1>6, <1>7, <1>9, <3>2, WatchdogRemoveShape DEF SameButWatchdog
    <3> QED
      BY <3>1, <3>2
  <2>5. FlowCtlQueue(b') = FlowCtlQueue(d)
    BY <1>6, <2>4 DEF FlowCtlQueue
  <2>6. /\ queue' = (IF action THEN FlowCtlQueue(b') ELSE queue)
        /\ action <=> (b.grant_size = 0) # (grant = 0)
    BY <1>7, <1>9, <2>5 DEF action
  <2>7. /\ out' \subseteq Commands /\ lost' \subseteq Commands
        /\ superseded => "disable" \in Issued'
        /\ action /\ grant = 0 /\ req => "disable" \in Issued'
    <3> DEFINE cmds == (IF superseded THEN {"disable"} ELSE {})
                        \cup (IF action THEN FlowCtlAck(d) ELSE {})
    <3>1. cmds \subseteq Commands
      BY <1>6, FlowCtlShape DEF Commands
    <3>2. Send(cmds)
      BY <1>7, <1>9
    <3>3. Issued' = cmds /\ out' \subseteq Commands /\ lost' \subseteq Commands
      <4> HIDE DEF cmds
      <4> QED
        BY <3>1, <3>2, SendIssues
    <3>4. superseded => "disable" \in cmds
      OBVIOUS
    <3>5. action /\ grant = 0 /\ req => "disable" \in cmds
      BY <1>6, FlowCtlShape
    <3> QED
      BY <3>3, <3>4, <3>5
  <2>8. (dfc_qmap /\ Held /\ ~req) => "disable" \in Issued'
    BY <1>0, <2>7 DEF Held
  <2>9. \/ queue' = FlowCtlQueue(b')
        \/ queue' = queue /\ (b.grant_size = 0 <=> b'.grant_size = 0)
    BY <2>4, <2>6
  <2> QED
    BY <1>7, <1>9, <2>2, <2>3, <2>4, <2>6, <2>7, <2>8, <2>9 DEF Accepted
<1> QED
  BY <1>8, <1>9

-----------------------------------------------------------------------------
(* What every step keeps.                                                  *)

GrantInv == TypeOK /\ SeqOK /\ WatchOK

\* The two action properties, for one step
AnswerStep == dfc_qmap /\ Held /\ ~Held' => "disable" \in Issued'
StopStep == queue.data /\ ~queue'.data /\ b'.ack_req => "disable" \in Issued'

Kept == /\ GrantInv' /\ StopStep
        /\ StallOK => StallOK'

LEMMA GrantTypes ==
    ASSUME TypeOK
    PROVE  /\ b \in Bearer /\ scale \in Nat \ {0}
           /\ scale \in Nat \ {0, 1} \/ QueryOfGrant = "never"
           /\ QueryOfGrant \in {"due", "never"}
           /\ queue \in [data : BOOLEAN, ack : BOOLEAN]
           /\ \A g \in Nat : GrantPer(g) \in Nat
           /\ QueryOfGrant = "due" => \A g \in Nat : g # 0 => GrantPer(g) < g
<1>1. /\ b \in Bearer /\ scale \in Nat \ {0}
      /\ scale \in Nat \ {0, 1} \/ QueryOfGrant = "never"
      /\ QueryOfGrant \in {"due", "never"}
      /\ queue \in [data : BOOLEAN, ack : BOOLEAN]
  BY GrantAssumption DEF TypeOK, Bearer, QueryOfGrant
<1>2. \A g \in Nat : GrantPer(g) \in Nat
  BY <1>1, DivNat DEF GrantPer
<1>3. QueryOfGrant = "due" => \A g \in Nat : g # 0 => GrantPer(g) < g
  BY <1>1, DivLess DEF GrantPer
<1> QED
  BY <1>1, <1>2, <1>3

LEMMA UpdateKept ==
    ASSUME GrantInv, NEW num \in Nat, NEW sn \in Seq16, NEW req \in BOOLEAN,
           NEW rat \in BOOLEAN, NEW bidir \in BOOLEAN, NEW is_query \in BOOLEAN,
           NEW rx \in Nat \cup {-1}, ~dfc_qmap \/ req = FALSE,
           UpdateFcMap(num, sn, req, rat, bidir, is_query, rx),
           UNCHANGED <<dfc_qmap, scale>>
    PROVE  Kept /\ AnswerStep
<1>0. /\ TypeOK /\ SeqOK /\ WatchOK
      /\ b \in Bearer /\ queue \in [data : BOOLEAN, ack : BOOLEAN]
  BY GrantTypes DEF GrantInv
<1>1. CASE Ignored
  <2>1. /\ b' \in Bearer /\ b'.grant_size = b.grant_size
        /\ b'.grant_thresh = b.grant_thresh /\ b'.ack_req = b.ack_req
        /\ b'.seq = b.seq /\ b'.last_seq = b.last_seq
        /\ b'.tx_off = b.tx_off /\ b'.wd_quit = b.wd_quit
        /\ b'.wd_started = b.wd_started /\ b'.wd_armed = b.wd_armed
        /\ b'.wd_running = b.wd_running
    BY <1>0, <1>1 DEF Bearer, Ignored
  <2>2. GrantInv'
    BY <1>0, <1>1, <2>1, SendNothing
       DEF Ignored, GrantInv, TypeOK, SeqOK, WatchOK, Bearer
  <2> QED
    BY <1>0, <1>1, <2>1, <2>2
       DEF Ignored, Kept, StopStep, AnswerStep, Held, StallOK
<1>2. CASE Accepted(sn, req)
  <2>1. /\ b' \in Bearer /\ query' \in {"due", QueryOfGrant}
        /\ b'.seq = sn /\ b'.last_seq = sn /\ b'.ack_req = req
        /\ b'.tx_off = b.tx_off
        /\ \/ /\ b'.grant_thresh = GrantPer(b'.grant_size)
              /\ query' = QueryOfGrant
           \/ ~b'.wd_quit /\ ~b.tx_off
        /\ ~b'.wd_quit => b'.wd_armed \/ (b.wd_started /\ ~b.wd_armed)
        /\ b'.wd_running = b.wd_running
        /\ b'.wd_started => ~b'.wd_quit
        /\ \/ queue' = FlowCtlQueue(b')
           \/ queue' = queue /\ (b.grant_size = 0 <=> b'.grant_size = 0)
        /\ out' \subseteq Commands /\ lost' \subseteq Commands
        /\ (dfc_qmap /\ Held /\ ~req) => "disable" \in Issued'
        /\ (queue' # queue /\ b'.grant_size = 0 /\ req) => "disable" \in Issued'
    BY <1>2 DEF Accepted
  <2>2. queue' \in [data : BOOLEAN, ack : BOOLEAN]
    BY <1>0, <2>1, FlowCtlShape
  <2>3. GrantInv'
    <3>1. query' \in QueryStates
      BY <1>0, <2>1, GrantTypes DEF QueryStates
    <3> QED
      BY <1>0, <2>1, <2>2, <3>1 DEF GrantInv, TypeOK, SeqOK, WatchOK, Bearer
  <2>4. StopStep
    <3> SUFFICES ASSUME queue.data, ~queue'.data, b'.ack_req
                 PROVE  "disable" \in Issued'
      BY DEF StopStep
    <3>1. queue' = FlowCtlQueue(b')
      BY <2>1
    <3>2. b'.grant_size = 0
      BY <1>0, <2>1, <3>1, FlowCtlShape
    <3> QED
      BY <2>1, <3>2
  <2>5. StallOK'
    <3> SUFFICES ASSUME b'.grant_size # 0, query' = "due"
                 PROVE  \/ b'.grant_size > b'.grant_thresh
                        \/ /\ ~b'.wd_quit /\ ~b'.tx_off
                           /\ b'.wd_armed \/ b'.wd_running
      BY DEF StallOK
    <3>1. CASE b'.grant_thresh = GrantPer(b'.grant_size) /\ query' = QueryOfGrant
      <4>1. b'.grant_size \in Nat
        BY <2>1 DEF Bearer
      <4> QED
        BY <1>0, <3>1, <4>1, GrantTypes
    <3>2. CASE ~b'.wd_quit /\ ~b.tx_off
      <4>1. b'.wd_armed \/ (b.wd_started /\ ~b.wd_armed)
        BY <2>1, <3>2
      <4>2. b'.wd_armed \/ b'.wd_running
        BY <1>0, <2>1, <4>1 DEF WatchOK
      <4> QED
        BY <2>1, <3>2, <4>2
    <3> QED
      BY <2>1, <3>1, <3>2
  <2> QED
    BY <2>1, <2>3, <2>4, <2>5 DEF Kept, AnswerStep
<1> QED
  BY <1>0, <1>1, <1>2, UpdateShape

LEMMA AllBearerKept ==
    ASSUME GrantInv, NEW num \in Nat, NEW sn \in Seq16, NEW req \in BOOLEAN,
           NEW bidir \in BOOLEAN, AllBearerFlowCtl(num, sn, req, bidir)
    PROVE  Kept
<1> DEFINE c == [b EXCEPT !.grant_size = num, !.grant_thresh = GrantPer(num),
                          !.seq = sn, !.last_seq = sn,
                          !.ack_req = req, !.tcp_bidir = bidir]
<1>0. /\ TypeOK /\ SeqOK /\ WatchOK
      /\ b \in Bearer /\ queue \in [data : BOOLEAN, ack : BOOLEAN]
      /\ GrantPer(num) \in Nat
      /\ QueryOfGrant = "due" /\ num # 0 => GrantPer(num) < num
      /\ QueryOfGrant \in {"due", "never"}
  BY GrantTypes DEF GrantInv
<1>1. /\ c \in Bearer /\ b' = c /\ queue' = FlowCtlQueue(c)
      /\ Send(FlowCtlAck(c)) /\ query' = QueryOfGrant
      /\ UNCHANGED <<dfc_qmap, scale>>
  BY <1>0 DEF AllBearerFlowCtl, Bearer
<1>2. /\ c.grant_size = num /\ c.grant_thresh = GrantPer(num)
      /\ c.seq = sn /\ c.last_seq = sn /\ c.wd_started = b.wd_started
      /\ c.wd_armed = b.wd_armed /\ c.wd_running = b.wd_running
  BY <1>0 DEF Bearer
<1> HIDE DEF c
<1>3. /\ out' \subseteq Commands /\ lost' \subseteq Commands
      /\ "disable" \in Issued' <=> c.grant_size = 0 /\ c.ack_req
      /\ query' \in QueryStates
  BY <1>0, <1>1, FlowCtlSent DEF QueryStates
<1>4. /\ queue' \in [data : BOOLEAN, ack : BOOLEAN]
      /\ queue'.data = (c.grant_size # 0)
  BY <1>0, <1>1, FlowCtlShape
<1>5. GrantInv'
  BY <1>0, <1>1, <1>2, <1>3, <1>4 DEF GrantInv, TypeOK, SeqOK, WatchOK, Bearer
<1>6. StopStep
  BY <1>1, <1>3, <1>4 DEF StopStep
<1>7. StallOK'
  BY <1>0, <1>1, <1>2 DEF StallOK
<1> QED
  BY <1>5, <1>6, <1>7 DEF Kept

LEMMA TxLinkKept ==
    ASSUME GrantInv, NEW on \in BOOLEAN, TxLinkStatus(on)
    PROVE  Kept /\ AnswerStep
<1> DEFINE off == [b EXCEPT !.tx_off = ~on]
           mute == [off EXCEPT !.grant_size = 0, !.tcp_bidir = FALSE,
                               !.bytes_in_flight = 0]
           start == [off EXCEPT !.grant_size = DefaultGrant, !.seq = 0,
                                !.grant_thresh = GrantPer(DefaultGrant),
                                !.ack_req = FALSE]
<1>0. /\ TypeOK /\ SeqOK /\ WatchOK
      /\ b \in Bearer /\ queue \in [data : BOOLEAN, ack : BOOLEAN]
      /\ GrantPer(1) \in Nat
      /\ QueryOfGrant = "due" => GrantPer(1) < 1
      /\ QueryOfGrant \in {"due", "never"}
  BY GrantTypes DEF GrantInv
<1>1. off \in Bearer /\ mute \in Bearer /\ start \in Bearer
  BY <1>0 DEF Bearer, DefaultGrant, Seq16
<1>2. UNCHANGED <<dfc_qmap, scale>>
  BY DEF TxLinkStatus
<1>3. CASE /\ b.grant_size # 0 /\ ~on
           /\ b' = WatchdogRemove(mute) /\ queue' = FlowCtlQueue(WatchdogRemove(mute))
           /\ Send(FlowCtlAck(WatchdogRemove(mute))) /\ UNCHANGED query
  <2>1. /\ mute.grant_size = 0 /\ mute.seq = b.seq /\ mute.last_seq = b.last_seq
        /\ mute.ack_req = b.ack_req
    BY <1>0 DEF Bearer
  <2> HIDE DEF mute
  <2>2. /\ b' \in Bearer /\ b'.grant_size = 0 /\ b'.seq = b.seq
        /\ b'.last_seq = b.last_seq /\ b'.ack_req = b.ack_req /\ ~b'.wd_started
    BY <1>1, <1>3, <2>1, WatchdogRemoveShape DEF SameButWatchdog
  <2>3. /\ queue' \in [data : BOOLEAN, ack : BOOLEAN]
        /\ out' \subseteq Commands /\ lost' \subseteq Commands
        /\ "disable" \in Issued' <=> b'.ack_req
    BY <1>0, <1>3, <2>2, FlowCtlShape, FlowCtlSent
  <2>4. GrantInv'
    BY <1>0, <1>2, <1>3, <2>2, <2>3 DEF GrantInv, TypeOK, SeqOK, WatchOK, Bearer
  <2> QED
    BY <2>2, <2>3, <2>4 DEF Kept, StopStep, AnswerStep, Held, StallOK
<1>4. CASE /\ b.grant_size = 0 /\ on /\ ~b.rat_switch
           /\ b' = start /\ queue' = FlowCtlQueue(start)
           /\ Send(FlowCtlAck(start)) /\ query' = QueryOfGrant
  <2>1. /\ b'.grant_size = 1 /\ b'.grant_thresh = GrantPer(1) /\ b'.seq = 0
        /\ b'.last_seq = b.last_seq /\ b'.wd_started = b.wd_started
        /\ b'.wd_armed = b.wd_armed /\ b'.wd_running = b.wd_running
    BY <1>0, <1>4 DEF Bearer, DefaultGrant
  <2> HIDE DEF start
  <2>2. /\ out' \subseteq Commands /\ lost' \subseteq Commands
        /\ query' \in QueryStates
        /\ queue' \in [data : BOOLEAN, ack : BOOLEAN] /\ queue'.data
    BY <1>0, <1>1, <1>4, <2>1, FlowCtlShape, FlowCtlSent DEF QueryStates
  <2>3. GrantInv'
    BY <1>0, <1>1, <1>2, <1>4, <2>1, <2>2
       DEF GrantInv, TypeOK, SeqOK, WatchOK, Bearer
  <2>4. StallOK'
    BY <1>0, <1>4, <2>1 DEF StallOK
  <2> QED
    BY <1>4, <2>2, <2>3, <2>4 DEF Kept, StopStep, AnswerStep, Held
<1>5. CASE /\ (b.grant_size # 0) = on \/ (on /\ b.rat_switch)
           /\ b' = off /\ Send({}) /\ UNCHANGED <<queue, query>>
  <2>1. /\ b'.grant_size = b.grant_size /\ b'.grant_thresh = b.grant_thresh
        /\ b'.seq = b.seq /\ b'.last_seq = b.last_seq /\ b'.ack_req = b.ack_req
        /\ b'.wd_started = b.wd_started /\ b'.wd_armed = b.wd_armed
        /\ b'.wd_running = b.wd_running /\ b'.wd_quit = b.wd_quit
        /\ b'.tx_off <=> ~on
    BY <1>0, <1>5 DEF Bearer
  <2> HIDE DEF off
  <2>2. GrantInv'
    BY <1>0, <1>1, <1>2, <1>5, <2>1, SendNothing
       DEF GrantInv, TypeOK, SeqOK, WatchOK, Bearer
  <2>3. b.grant_size # 0 => on
    BY <1>5
  <2> QED
    BY <1>0, <1>1, <1>5, <2>1, <2>2, <2>3
       DEF Kept, StopStep, AnswerStep, Held, StallOK
<1> QED
  BY <1>3, <1>4, <1>5 DEF TxLinkStatus

LEMMA BurstKept ==
    ASSUME GrantInv, NEW len \in Nat, BurstCheck(len)
    PROVE  Kept /\ AnswerStep
<1> DEFINE left == Minus(b.grant_size, len)
           flight == b.bytes_in_flight + len
           c == [b EXCEPT !.bytes_in_flight = flight, !.grant_size = left]
           cross == b.grant_size > b.grant_thresh /\ left <= b.grant_thresh
<1>0. /\ TypeOK /\ SeqOK /\ WatchOK
      /\ b \in Bearer /\ queue \in [data : BOOLEAN, ack : BOOLEAN]
  BY GrantTypes DEF GrantInv
<1>1. /\ left \in Nat /\ flight \in Nat
      /\ b.grant_size \in Nat /\ b.grant_thresh \in Nat
      /\ left <= b.grant_size
  <2>1. /\ b.grant_size \in Nat /\ b.grant_thresh \in Nat
        /\ b.bytes_in_flight \in Nat
    BY <1>0 DEF Bearer
  <2> QED
    BY <2>1 DEF Minus
<1>2. /\ b' = c
      /\ IF b.grant_size = 0
         THEN Send({}) /\ UNCHANGED <<queue, query>>
         ELSE /\ Send((IF cross THEN {"threshold"} ELSE {}) \cup FlowCtlAck(c))
              /\ queue' = IF left = 0 THEN FlowCtlQueue(c) ELSE queue
              /\ query' = IF ~cross THEN query
                          ELSE IF "threshold" \in out' THEN "sent" ELSE "lost"
      /\ UNCHANGED <<dfc_qmap, scale>>
  BY DEF BurstCheck
<1> HIDE DEF left, flight
<1>3. /\ c \in Bearer /\ c.grant_size = left /\ c.grant_thresh = b.grant_thresh
      /\ c.seq = b.seq /\ c.last_seq = b.last_seq /\ c.ack_req = b.ack_req
      /\ c.wd_started = b.wd_started /\ c.wd_armed = b.wd_armed
      /\ c.wd_running = b.wd_running /\ c.wd_quit = b.wd_quit
      /\ c.tx_off = b.tx_off
  BY <1>0, <1>1 DEF Bearer
<1> HIDE DEF c, cross
<1>8. /\ out' \subseteq Commands /\ lost' \subseteq Commands
      /\ b.grant_size # 0 =>
           ("disable" \in Issued' <=> c.grant_size = 0 /\ c.ack_req)
  <2> DEFINE cmds == (IF cross THEN {"threshold"} ELSE {}) \cup FlowCtlAck(c)
  <2>1. /\ cmds \subseteq Commands
        /\ "disable" \in cmds <=> c.grant_size = 0 /\ c.ack_req
    BY <1>0, <1>3, FlowCtlShape DEF Commands
  <2>2. IF b.grant_size = 0 THEN Send({}) ELSE Send(cmds)
    BY <1>2
  <2> HIDE DEF cmds
  <2> QED
    BY <2>1, <2>2, SendIssues, SendNothing
<1>4. GrantInv'
  <2>1. SeqOK' /\ WatchOK'
    BY <1>0, <1>2, <1>3 DEF SeqOK, WatchOK
  <2>2. /\ out' \subseteq Commands /\ lost' \subseteq Commands
        /\ queue' \in [data : BOOLEAN, ack : BOOLEAN]
    BY <1>0, <1>2, <1>3, <1>8, FlowCtlShape
  <2>3. query' \in QueryStates
    BY <1>0, <1>2 DEF TypeOK, QueryStates
  <2> QED
    BY <1>0, <1>2, <1>3, <2>1, <2>2, <2>3 DEF GrantInv, TypeOK, Bearer
<1>5. b.grant_size = 0 => left = 0
  BY <1>1
<1>6. CASE b.grant_size = 0
  BY <1>0, <1>2, <1>3, <1>4, <1>5, <1>6
     DEF Kept, AnswerStep, StopStep, StallOK, Held
<1>7. CASE b.grant_size # 0
  <2>1. "disable" \in Issued' <=> left = 0 /\ b.ack_req
    BY <1>3, <1>7, <1>8
  <2>2. AnswerStep
    BY <1>0, <1>2, <1>3, <2>1 DEF AnswerStep, Held
  <2>3. StopStep
    BY <1>0, <1>2, <1>3, <1>7, <2>1, FlowCtlShape DEF StopStep
  <2>4. StallOK => StallOK'
    <3> SUFFICES ASSUME StallOK, b'.grant_size # 0, query' = "due"
                 PROVE  \/ b'.grant_size > b'.grant_thresh
                        \/ /\ ~b'.wd_quit /\ ~b'.tx_off
                           /\ b'.wd_armed \/ b'.wd_running
      BY DEF StallOK
    <3>1. query = "due" /\ ~cross
      BY <1>2, <1>7
    <3>2. CASE b.grant_size > b.grant_thresh
      BY <1>1, <1>2, <1>3, <3>1, <3>2 DEF cross
    <3>3. CASE ~b.wd_quit /\ ~b.tx_off /\ (b.wd_armed \/ b.wd_running)
      BY <1>2, <1>3, <3>3
    <3> QED
      BY <1>7, <3>1, <3>2, <3>3 DEF StallOK
  <2> QED
    BY <1>4, <2>2, <2>3, <2>4 DEF Kept
<1> QED
  BY <1>6, <1>7

LEMMA EndMarkerKept ==
    ASSUME GrantInv, NEW sn \in Seq16, EndMarker(sn)
    PROVE  Kept /\ AnswerStep
<1>0. /\ TypeOK /\ SeqOK /\ WatchOK
      /\ b \in Bearer /\ queue \in [data : BOOLEAN, ack : BOOLEAN]
  BY GrantTypes DEF GrantInv
<1>1. /\ b' \in Bearer /\ b'.grant_size = b.grant_size
      /\ b'.grant_thresh = b.grant_thresh /\ (b.ack_req => b'.ack_req)
      /\ b'.seq = b.seq /\ b'.last_seq = b.last_seq
      /\ b'.tx_off = b.tx_off /\ b'.wd_quit = b.wd_quit
      /\ b'.wd_started = b.wd_started /\ b'.wd_armed = b.wd_armed
      /\ b'.wd_running = b.wd_running
      /\ Send({}) \/ Send({"disable"})
      /\ UNCHANGED <<dfc_qmap, queue, scale, query>>
  BY <1>0 DEF EndMarker, Bearer
<1>2. out' \subseteq Commands /\ lost' \subseteq Commands
  BY <1>1, SendIssues DEF Commands
<1>3. GrantInv'
  BY <1>0, <1>1, <1>2 DEF GrantInv, TypeOK, SeqOK, WatchOK, Bearer
<1> QED
  BY <1>0, <1>1, <1>3 DEF Kept, StopStep, AnswerStep, Held, StallOK

LEMMA WatchdogKept ==
    ASSUME GrantInv, WatchdogExpire \/ WatchdogFn
    PROVE  Kept /\ AnswerStep
<1> DEFINE grant == IF b.grant_size = 0 THEN DefaultCallGrant ELSE b.grant_size
           thresh == GrantPer(grant)
           done == [b EXCEPT !.wd_started = FALSE, !.wd_running = FALSE]
           retry == [done EXCEPT !.bytes_in_flight = 0, !.grant_size = grant,
                                 !.grant_thresh = thresh]
<1>0. /\ TypeOK /\ SeqOK /\ WatchOK
      /\ b \in Bearer /\ queue \in [data : BOOLEAN, ack : BOOLEAN]
  BY GrantTypes DEF GrantInv
<1>1. CASE WatchdogExpire
  <2>1. /\ b' \in Bearer /\ b'.grant_size = b.grant_size
        /\ b'.grant_thresh = b.grant_thresh /\ b'.ack_req = b.ack_req
        /\ b'.seq = b.seq /\ b'.last_seq = b.last_seq
        /\ b'.tx_off = b.tx_off /\ b'.wd_quit = b.wd_quit
        /\ b'.wd_running
        /\ Send({})
        /\ UNCHANGED <<dfc_qmap, queue, scale, query>>
    BY <1>0, <1>1 DEF WatchdogExpire, Bearer
  <2>2. GrantInv'
    BY <1>0, <2>1, SendNothing DEF GrantInv, TypeOK, SeqOK, WatchOK, Bearer
  <2> QED
    BY <1>0, <2>1, <2>2 DEF Kept, StopStep, AnswerStep, Held, StallOK
<1>2. CASE WatchdogFn /\ b.wd_quit
  <2>1. /\ b' \in Bearer /\ b'.grant_size = b.grant_size
        /\ b'.grant_thresh = b.grant_thresh /\ b'.ack_req = b.ack_req
        /\ b'.seq = b.seq /\ b'.last_seq = b.last_seq /\ ~b'.wd_started
        /\ Send({})
        /\ UNCHANGED <<dfc_qmap, queue, scale, query>>
    BY <1>0, <1>2 DEF WatchdogFn, Bearer
  <2>2. GrantInv'
    BY <1>0, <2>1, SendNothing DEF GrantInv, TypeOK, SeqOK, WatchOK, Bearer
  <2> QED
    BY <1>0, <1>2, <2>1, <2>2 DEF Kept, StopStep, AnswerStep, Held, StallOK
<1>3. CASE WatchdogFn /\ ~b.wd_quit
  <2>1. /\ grant \in Nat /\ grant # 0 /\ thresh \in Nat
        /\ QueryOfGrant = "due" => thresh < grant
        /\ QueryOfGrant \in {"due", "never"}
    BY <1>0, GrantTypes, GrantAssumption DEF Bearer
  <2>2. /\ b' = retry
        /\ queue' = IF b.grant_size = 0 THEN FlowCtlQueue(retry) ELSE queue
        /\ Send(IF b.grant_size = 0 THEN FlowCtlAck(retry) ELSE {})
        /\ query' = QueryOfGrant
        /\ UNCHANGED <<dfc_qmap, scale>>
    BY <1>3 DEF WatchdogFn
  <2> HIDE DEF grant, thresh
  <2>3. /\ retry \in Bearer /\ retry.grant_size = grant
        /\ retry.grant_thresh = thresh /\ retry.ack_req = b.ack_req
        /\ retry.seq = b.seq /\ retry.last_seq = b.last_seq
        /\ ~retry.wd_started
    BY <1>0, <2>1 DEF Bearer
  <2> HIDE DEF retry
  <2>4. /\ queue' \in [data : BOOLEAN, ack : BOOLEAN]
        /\ out' \subseteq Commands /\ lost' \subseteq Commands
        /\ queue.data => queue'.data
    BY <1>0, <2>1, <2>2, <2>3, FlowCtlShape, FlowCtlSends
  <2>5. GrantInv'
    BY <1>0, <2>1, <2>2, <2>3, <2>4
       DEF GrantInv, TypeOK, SeqOK, WatchOK, Bearer, QueryStates
  <2> QED
    BY <1>0, <2>1, <2>2, <2>3, <2>4, <2>5
       DEF Kept, StopStep, AnswerStep, Held, StallOK
<1> QED
  BY <1>1, <1>2, <1>3

LEMMA EnableAllKept ==
    ASSUME GrantInv, EnableAllFlows
    PROVE  Kept
<1> DEFINE clear == [b EXCEPT !.seq = 0, !.ack_req = FALSE, !.bytes_in_flight = 0,
                              !.tcp_bidir = FALSE, !.rat_switch = FALSE]
           reset == WatchdogRemove(clear)
           thresh == GrantPer(DefaultGrant)
           c == [reset EXCEPT !.grant_size = DefaultGrant, !.grant_thresh = thresh]
<1>0. /\ TypeOK /\ SeqOK /\ WatchOK
      /\ b \in Bearer /\ queue \in [data : BOOLEAN, ack : BOOLEAN]
      /\ thresh \in Nat
      /\ QueryOfGrant = "due" => thresh < 1
      /\ QueryOfGrant \in {"due", "never"}
  BY GrantTypes DEF GrantInv, DefaultGrant
<1>1. IF b.tx_off
      THEN b' = reset /\ Send({}) /\ UNCHANGED <<queue, query>>
      ELSE /\ b' = c
           /\ queue' = IF b.grant_size = 0 THEN FlowCtlQueue(c) ELSE queue
           /\ Send(IF b.grant_size = 0 THEN FlowCtlAck(c) ELSE {})
           /\ query' = QueryOfGrant
  BY DEF EnableAllFlows
<1>2. UNCHANGED <<dfc_qmap, scale>>
  BY DEF EnableAllFlows
<1>3. /\ clear \in Bearer /\ clear.seq = 0 /\ ~clear.ack_req
      /\ clear.grant_size = b.grant_size /\ clear.grant_thresh = b.grant_thresh
      /\ clear.last_seq = b.last_seq
  BY <1>0 DEF Bearer, Seq16
<1> HIDE DEF clear, thresh
<1>4. /\ reset \in Bearer /\ reset.seq = 0 /\ ~reset.ack_req
      /\ reset.grant_size = b.grant_size /\ reset.grant_thresh = b.grant_thresh
      /\ reset.last_seq = b.last_seq /\ ~reset.wd_started
  BY <1>3, WatchdogRemoveShape DEF SameButWatchdog
<1> HIDE DEF reset
<1>5. /\ c \in Bearer /\ c.seq = 0 /\ ~c.ack_req
      /\ c.grant_size = 1 /\ c.grant_thresh = thresh
      /\ c.last_seq = b.last_seq /\ ~c.wd_started
  BY <1>0, <1>4 DEF Bearer, DefaultGrant
<1> HIDE DEF c
<1>6. CASE b.tx_off
  <2>1. GrantInv'
    BY <1>0, <1>1, <1>2, <1>4, <1>6, SendNothing
       DEF GrantInv, TypeOK, SeqOK, WatchOK, Bearer
  <2> QED
    BY <1>0, <1>1, <1>4, <1>6, <2>1 DEF Kept, StopStep, StallOK
<1>7. CASE ~b.tx_off
  <2>1. /\ queue' \in [data : BOOLEAN, ack : BOOLEAN]
        /\ out' \subseteq Commands /\ lost' \subseteq Commands
        /\ queue.data => queue'.data
    <3>1. /\ Send(IF b.grant_size = 0 THEN FlowCtlAck(c) ELSE {})
          /\ queue' = IF b.grant_size = 0 THEN FlowCtlQueue(c) ELSE queue
      BY <1>1, <1>7
    <3>2. out' \subseteq Commands /\ lost' \subseteq Commands
      BY <1>0, <1>5, <3>1, FlowCtlSends
    <3> QED
      BY <1>0, <1>5, <3>1, <3>2, FlowCtlShape
  <2>2. GrantInv'
    BY <1>0, <1>1, <1>2, <1>5, <1>7, <2>1
       DEF GrantInv, TypeOK, SeqOK, WatchOK, Bearer, QueryStates
  <2> QED
    BY <1>0, <1>1, <1>5, <1>7, <2>1, <2>2 DEF Kept, StopStep, StallOK
<1> QED
  BY <1>0, <1>6, <1>7

-----------------------------------------------------------------------------
(* The theorems.                                                           *)

\* The two actions that may forget a held end marker request
Forgets ==
    \/ EnableAllFlows
    \/ \E num \in AllGrants, sn \in Seqs, req, bidir \in BOOLEAN :
          AllBearerFlowCtl(num, sn, req, bidir)

LEMMA NextKept ==
    GrantInv /\ [Next]_vars => Kept /\ (AnswerStep \/ Forgets)
<1> SUFFICES ASSUME GrantInv, [Next]_vars
             PROVE  Kept /\ (AnswerStep \/ Forgets)
  OBVIOUS
<1> USE GrantAssumption
<1>1. ASSUME NEW num \in Grants, NEW sn \in Seqs, NEW req \in BOOLEAN,
             NEW rat \in BOOLEAN, NEW bidir \in Flags,
             Indication(num, sn, req, rat, bidir)
      PROVE  Kept /\ AnswerStep
  <2>1. /\ num \in Nat /\ sn \in Seq16 /\ bidir \in BOOLEAN
        /\ FALSE \in BOOLEAN
    BY DEF Seq16
  <2>2. /\ ~dfc_qmap \/ req = FALSE
        /\ UpdateFcMap(num, sn, req, rat, bidir, FALSE, -1)
        /\ UNCHANGED <<dfc_qmap, scale>>
    BY <1>1 DEF Indication
  <2>3. TRUE \in BOOLEAN /\ -1 \in Nat \cup {-1}
    OBVIOUS
  <2>4. CASE req = TRUE /\ rat = TRUE
    BY <2>1, <2>2, <2>3, <2>4, UpdateKept
  <2>5. CASE req = TRUE /\ rat = FALSE
    BY <2>1, <2>2, <2>3, <2>5, UpdateKept
  <2>6. CASE req = FALSE /\ rat = TRUE
    BY <2>1, <2>2, <2>3, <2>6, UpdateKept
  <2>7. CASE req = FALSE /\ rat = FALSE
    BY <2>1, <2>2, <2>3, <2>7, UpdateKept
  <2> QED
    BY <2>4, <2>5, <2>6, <2>7
<1>2. ASSUME NEW num \in Grants, NEW rx \in RxBytes \cup {-1},
             NEW bidir \in Flags, QueryResponse(num, rx, bidir)
      PROVE  Kept /\ AnswerStep
  <2>1. /\ num \in Nat /\ QuerySeq \in Seq16 /\ bidir \in BOOLEAN
        /\ FALSE \in BOOLEAN /\ TRUE \in BOOLEAN /\ rx \in Nat \cup {-1}
    BY DEF Seq16
  <2>2. /\ UpdateFcMap(num, QuerySeq, FALSE, FALSE, bidir, TRUE, rx)
        /\ UNCHANGED <<dfc_qmap, scale>>
    BY <1>2 DEF QueryResponse
  <2> QED
    BY <2>1, <2>2, UpdateKept
<1>3. ASSUME NEW num \in AllGrants, NEW sn \in Seqs, NEW req \in BOOLEAN,
             NEW bidir \in Flags, AllBearerFlowCtl(num, sn, req, bidir)
      PROVE  Kept /\ Forgets
  BY <1>3, AllBearerKept DEF Forgets, Seq16
<1>4. ASSUME NEW on \in BOOLEAN, TxLinkStatus(on) PROVE Kept /\ AnswerStep
  BY <1>4, TxLinkKept
<1>5. ASSUME NEW len \in Lens, BurstCheck(len) PROVE Kept /\ AnswerStep
  BY <1>5, BurstKept
<1>6. ASSUME NEW sn \in Seq16, EndMarker(sn) PROVE Kept /\ AnswerStep
  BY <1>6, EndMarkerKept
<1>7. CASE WatchdogExpire \/ WatchdogFn
  BY <1>7, WatchdogKept
<1>8. CASE EnableAllFlows
  BY <1>8, EnableAllKept DEF Forgets
<1>9. ASSUME NEW k \in ScaleFactors, SetScaleFactor(k) PROVE Kept /\ AnswerStep
  BY <1>9, SendNothing DEF SetScaleFactor, Kept, AnswerStep, StopStep, StallOK, GrantInv,
     TypeOK, SeqOK, WatchOK, Held
<1>10. CASE UNCHANGED vars
  BY <1>10 DEF vars, Kept, AnswerStep, StopStep, StallOK, GrantInv, TypeOK,
     SeqOK, WatchOK, Held
<1> QED
  BY <1>1, <1>2, <1>3, <1>4, <1>5, <1>6, <1>7, <1>8, <1>9, <1>10 DEF Next

LEMMA GrantInit == Init => GrantInv /\ StallOK
<1> SUFFICES ASSUME Init PROVE GrantInv /\ StallOK
  OBVIOUS
<1>1. /\ scale \in Nat \ {0} /\ GrantPer(DefaultCallGrant) \in Nat
      /\ QueryOfGrant = "due" => GrantPer(DefaultCallGrant) < DefaultCallGrant
      /\ QueryOfGrant \in {"due", "never"}
  BY GrantAssumption, DivNat, DivLess DEF Init, GrantPer, QueryOfGrant
<1> QED
  BY <1>1, GrantAssumption
     DEF Init, GrantInv, TypeOK, SeqOK, WatchOK, StallOK, Seq16, QueryStates

LEMMA GrantInvHolds == Spec => []GrantInv
<1>1. GrantInv /\ [Next]_vars => GrantInv'
  BY NextKept DEF Kept
<1>2. Init => GrantInv
  BY GrantInit
<1> QED
  BY <1>1, <1>2, PTL DEF Spec

\* Whatever the modem grants and reports as received: grants, thresholds and
\* the bytes in flight stay natural numbers, the guarded subtractions of
\* dfc_adjust_grant and dfc_qmi_burst_check included.
THEOREM GrantTypeSafe == Spec => []TypeOK
<1>1. GrantInv => TypeOK
  BY DEF GrantInv
<1> QED
  BY <1>1, GrantInvHolds, PTL

\* For any sequence numbers: while an ack is owed, bearer->seq is the sequence
\* number of the grant the ack is about, or 0 once power save or TX coming back
\* replaced it.
THEOREM AckSeqSafe == Spec => []AckSeqCurrent
<1>1. GrantInv => AckSeqCurrent
  BY DEF GrantInv, SeqOK, AckSeqCurrent
<1> QED
  BY <1>1, GrantInvHolds, PTL

\* For any grants, packet lengths, received byte counts and scale factors the
\* code accepts, 1 included: a bearer whose grant is down to its threshold has
\* asked for more or is being watched, unless the query was lost for want of
\* memory or the grant came under scale factor 1 (dfc_qmi_burst_check then never
\* crosses the threshold).  There is no other way to run out unasked.
THEOREM NoSilentStallSafe == Spec => []NoSilentStall
<1> DEFINE I == GrantInv /\ StallOK
<1>1. Init => I
  BY GrantInit
<1>2. I /\ [Next]_vars => I'
  BY NextKept DEF Kept
<1>3. I => NoSilentStall
  BY DEF StallOK, NoSilentStall, GrantInv, TypeOK, QueryStates
<1> HIDE DEF I
<1> QED
  BY <1>1, <1>2, <1>3, PTL DEF Spec

\* For any constants, the step that stops the data queue of a bearer that owes
\* an ack issues the DISABLE ack (dfc_bearer_flow_ctl): it is handed to the
\* transport, or lost because it could not be allocated.
THEOREM StopIsAckedSafe == Spec => StopIsAcked
<1>1. GrantInv /\ [Next]_vars =>
        [queue.data /\ ~queue'.data /\ b'.ack_req
           => "disable" \in out' \cup lost']_vars
  BY NextKept DEF Kept, StopStep, Issued
<1> QED
  BY <1>1, GrantInvHolds, PTL DEF Spec, StopIsAcked

\* For any constants, over QMAP the confirmation of a held end marker request is
\* issued in the step that ends it, and reaches the transport or is lost for want
\* of memory; only entering power save and an all-bearers indication issue none.
THEOREM EndMarkerSafe == Spec => EndMarkerAnswered
<1>1. GrantInv /\ [Next]_vars =>
        [dfc_qmap /\ Held /\ ~Held' =>
           \/ "disable" \in out'
           \/ "disable" \in lost'
           \/ EnableAllFlows
           \/ \E num \in AllGrants, sn \in Seqs, req, bidir \in BOOLEAN :
                 AllBearerFlowCtl(num, sn, req, bidir)]_vars
  BY NextKept DEF AnswerStep, Forgets, Issued
<1> QED
  BY <1>1, GrantInvHolds, PTL DEF Spec, EndMarkerAnswered

-----------------------------------------------------------------------------
(* The refinement of QosFlows.                                             *)

\* The bearers of QosFlows that Abs maps to
AbsBearer ==
    [st : {"listed"}, bearer_id : {"b"}, flow_ref : {1}, granted : BOOLEAN,
     tcp_bidir : BOOLEAN, rat_switch : BOOLEAN, tx_off : BOOLEAN,
     mq_idx : {1}, ack_mq_idx : {2}, wd_started : BOOLEAN, wd_quit : BOOLEAN,
     wd_armed : BOOLEAN, wd_running : BOOLEAN]

\* What Abs keeps of a bearer
LEMMA AbsShape ==
    ASSUME NEW c \in Bearer
    PROVE  /\ Abs(c) \in AbsBearer
           /\ Abs(c).granted = (c.grant_size # 0)
           /\ Abs(c).tcp_bidir = c.tcp_bidir
           /\ Abs(c).rat_switch = c.rat_switch /\ Abs(c).tx_off = c.tx_off
           /\ Abs(c).wd_started = c.wd_started /\ Abs(c).wd_quit = c.wd_quit
           /\ Abs(c).wd_armed = c.wd_armed /\ Abs(c).wd_running = c.wd_running
BY DEF Abs, Bearer, AbsBearer

\* Two such records that agree on what is not constant are equal
LEMMA AbsEqual ==
    ASSUME NEW x \in AbsBearer, NEW y \in AbsBearer,
           x.granted = y.granted, x.tcp_bidir = y.tcp_bidir,
           x.rat_switch = y.rat_switch, x.tx_off = y.tx_off,
           x.wd_started = y.wd_started, x.wd_quit = y.wd_quit,
           x.wd_armed = y.wd_armed, x.wd_running = y.wd_running
    PROVE  x = y
BY DEF AbsBearer

\* The mapped state, and who QosFlows finds in it
LEMMA AbsParts ==
    ASSUME NEW qm
    PROVE  /\ absBearer = [o \in {"o"} |-> Abs(b)] /\ absBearer["o"] = Abs(b)
           /\ absBearer' = [o \in {"o"} |-> Abs(b')]
           /\ \A X : [absBearer EXCEPT !["o"] = X] = [o \in {"o"} |-> X]
           /\ absFlow' = absFlow /\ absMq' = absMq
           /\ Qos(qm)!Lookup(absBearer, "b") = {"o"}
           /\ Qos(qm)!GetChoices(absBearer, "b") = {"o"}
           /\ Qos(qm)!Listed = {"o"}
           /\ Qos(qm)!Queues = 0 .. 2
<1>1. absBearer = [o \in {"o"} |-> Abs(b)] /\ absBearer["o"] = Abs(b)
  BY DEF absBearer
<1>2. absBearer' = [o \in {"o"} |-> Abs(b')]
  BY DEF absBearer, Abs
<1>3. \A X : [absBearer EXCEPT !["o"] = X] = [o \in {"o"} |-> X]
  BY <1>1
<1>4. absFlow' = absFlow /\ absMq' = absMq
  BY DEF absFlow, absMq
<1>5. Abs(b).st = "listed" /\ Abs(b).bearer_id = "b"
  BY DEF Abs
<1>6. Qos(qm)!Lookup(absBearer, "b") = {"o"}
  BY <1>1, <1>5 DEF Qos!Lookup
<1>7. Qos(qm)!GetChoices(absBearer, "b") = {"o"}
  BY <1>6 DEF Qos!GetChoices
<1>8. Qos(qm)!Listed = {"o"}
  BY <1>1, <1>5 DEF Qos!Listed
<1>9. Qos(qm)!Queues = 0 .. 2
  BY DEF Qos!Queues, Qos!AckMqOffset
<1> QED
  BY <1>1, <1>2, <1>3, <1>4, <1>6, <1>7, <1>8, <1>9

\* dfc_bearer_flow_ctl on a bearer with queue 1 and ack queue 2
LEMMA FlowCtlOn ==
    ASSUME NEW qm, NEW qs, NEW c, c.mq_idx = 1, c.ack_mq_idx = 2
    PROVE  Qos(qm)!BearerFlowCtl(qs, c) =
             IF c.granted \/ ~c.tcp_bidir
             THEN [[qs EXCEPT ![1] = c.granted] EXCEPT ![2] = c.granted]
             ELSE [qs EXCEPT ![1] = c.granted]
<1>1. \A ns, i, e : Qos(qm)!FlowControl(ns, i, e) =
           IF i \in 0 .. 2 THEN [ns EXCEPT ![i] = e] ELSE ns
  BY AbsParts DEF Qos!FlowControl
<1>2. 2 # 255 /\ 1 \in 0 .. 2 /\ 2 \in 0 .. 2
  OBVIOUS
<1> DEFINE g == c.granted
           data == [qs EXCEPT ![1] = g]
<1> HIDE DEF g, data
<1>3. Qos(qm)!FlowControl(qs, 1, g) = [qs EXCEPT ![1] = g]
  BY <1>1, <1>2
<1>4. Qos(qm)!FlowControl(data, 2, g) = [data EXCEPT ![2] = g]
  BY <1>1, <1>2
<1>5. Qos(qm)!BearerFlowCtl(qs, c) =
        IF c.granted \/ ~c.tcp_bidir
        THEN Qos(qm)!FlowControl(Qos(qm)!FlowControl(qs, 1, g), 2, g)
        ELSE Qos(qm)!FlowControl(qs, 1, g)
  BY <1>2, Zenon DEF Qos!BearerFlowCtl, g
<1>6. Qos(qm)!FlowControl(qs, 1, g) = data
  BY <1>3 DEF data
<1>7. Qos(qm)!BearerFlowCtl(qs, c) =
        IF c.granted \/ ~c.tcp_bidir THEN [data EXCEPT ![2] = g] ELSE data
  BY <1>4, <1>5, <1>6, Zenon
<1> QED
  BY <1>7, Zenon DEF data, g

\* It does to the mapped queues what FlowCtlQueue does
LEMMA AbsQueues ==
    ASSUME TypeOK, NEW qm, NEW d \in Bearer, queue' = FlowCtlQueue(d)
    PROVE  absQueue' = Qos(qm)!BearerFlowCtl(absQueue, Abs(d))
<1> DEFINE c == Abs(d)
           g == c.granted
           t == TRUE
<1>1. /\ c.mq_idx = 1 /\ c.ack_mq_idx = 2
      /\ g = (d.grant_size # 0) /\ g \in BOOLEAN
      /\ c.tcp_bidir = d.tcp_bidir /\ d.tcp_bidir \in BOOLEAN
  BY DEF Abs, Bearer
<1>2. /\ queue'.data = g
      /\ queue'.ack = IF g \/ ~d.tcp_bidir THEN g ELSE queue.ack
  BY <1>1 DEF FlowCtlQueue
<1>3. absQueue' = [q \in 0 .. 2 |-> IF q = 0 THEN t
                              ELSE IF q = 1 THEN queue'.data ELSE queue'.ack]
  BY DEF absQueue
<1>0. absQueue = [q \in 0 .. 2 |-> IF q = 0 THEN t
                              ELSE IF q = 1 THEN queue.data ELSE queue.ack]
  BY DEF absQueue
<1> HIDE DEF c, t
<1>4. Qos(qm)!BearerFlowCtl(absQueue, c) =
        IF g \/ ~c.tcp_bidir
        THEN [[absQueue EXCEPT ![1] = g] EXCEPT ![2] = g]
        ELSE [absQueue EXCEPT ![1] = g]
  BY <1>1, FlowCtlOn
<1> HIDE DEF g
<1>5. [absQueue EXCEPT ![1] = g] =
        [q \in 0 .. 2 |-> IF q = 0 THEN t ELSE IF q = 1 THEN g ELSE queue.ack]
  BY <1>0
<1>9. [[absQueue EXCEPT ![1] = g] EXCEPT ![2] = g] =
        [q \in 0 .. 2 |-> IF q = 0 THEN t ELSE IF q = 1 THEN g ELSE g]
  BY <1>0
<1>6. CASE g \/ ~d.tcp_bidir
  <2>1. queue'.data = g /\ queue'.ack = g
    BY <1>2, <1>6, Zenon
  <2>2. absQueue' = [q \in 0 .. 2 |-> IF q = 0 THEN t
                                      ELSE IF q = 1 THEN g ELSE g]
    BY <1>3, <2>1
  <2>3. Qos(qm)!BearerFlowCtl(absQueue, c) =
          [[absQueue EXCEPT ![1] = g] EXCEPT ![2] = g]
    BY <1>1, <1>4, <1>6, Zenon
  <2> QED
    BY <1>9, <2>2, <2>3 DEF c
<1>7. CASE ~(g \/ ~d.tcp_bidir)
  <2>1. queue'.data = g /\ queue'.ack = queue.ack
    BY <1>2, <1>7, Zenon
  <2>2. absQueue' = [q \in 0 .. 2 |-> IF q = 0 THEN t
                                      ELSE IF q = 1 THEN g ELSE queue.ack]
    BY <1>3, <2>1
  <2>3. Qos(qm)!BearerFlowCtl(absQueue, c) = [absQueue EXCEPT ![1] = g]
    BY <1>1, <1>4, <1>7, Zenon
  <2> QED
    BY <1>5, <2>2, <2>3 DEF c
<1> QED
  BY <1>6, <1>7, Zenon

\* A step that changes neither what Abs keeps nor the queues is none of QosFlows
LEMMA AbsStutter ==
    ASSUME Abs(b') = Abs(b), queue' = queue
    PROVE  UNCHANGED Qos(TRUE)!vars
<1>1. absBearer' = absBearer /\ absQueue' = absQueue
  BY AbsParts DEF absQueue
<1> QED
  BY <1>1, AbsParts DEF Qos!vars

\* The watchdog is started and stopped in the same way in both modules
LEMMA AbsWatch ==
    ASSUME NEW qm, NEW d \in Bearer
    PROVE  /\ Abs(WatchdogAdd(d)) = Qos(qm)!WatchdogAdd(Abs(d))
           /\ Abs(WatchdogRemove(d)) = Qos(qm)!WatchdogRemove(Abs(d))
<1> DEFINE x == Abs(d)
<1>0. /\ x \in AbsBearer /\ x.granted = (d.grant_size # 0)
      /\ x.tcp_bidir = d.tcp_bidir
      /\ x.rat_switch = d.rat_switch /\ x.tx_off = d.tx_off
      /\ x.wd_started = d.wd_started /\ x.wd_quit = d.wd_quit
      /\ x.wd_armed = d.wd_armed /\ x.wd_running = d.wd_running
  BY AbsShape
<1> HIDE DEF x
<1>1. Abs(WatchdogAdd(d)) = Qos(qm)!WatchdogAdd(x)
  <2> DEFINE y == Qos(qm)!WatchdogAdd(x)
             e == WatchdogAdd(d)
  <2>1. /\ y \in AbsBearer /\ y.granted = x.granted /\ y.tcp_bidir = x.tcp_bidir
        /\ y.rat_switch = x.rat_switch /\ y.tx_off = x.tx_off
        /\ y.wd_running = x.wd_running
        /\ y.wd_started = TRUE /\ y.wd_quit = FALSE
        /\ y.wd_armed = (x.wd_armed \/ ~x.wd_started)
    BY <1>0 DEF Qos!WatchdogAdd, AbsBearer
  <2>2. /\ e \in Bearer /\ e.grant_size = d.grant_size /\ e.tcp_bidir = d.tcp_bidir
        /\ e.rat_switch = d.rat_switch /\ e.tx_off = d.tx_off
        /\ e.wd_running = d.wd_running
        /\ e.wd_started = TRUE /\ e.wd_quit = FALSE
        /\ e.wd_armed = (d.wd_armed \/ ~d.wd_started)
    BY DEF WatchdogAdd, Bearer
  <2> HIDE DEF y, e
  <2>3. /\ Abs(e) \in AbsBearer /\ Abs(e).granted = x.granted
        /\ Abs(e).tcp_bidir = x.tcp_bidir
        /\ Abs(e).rat_switch = x.rat_switch /\ Abs(e).tx_off = x.tx_off
        /\ Abs(e).wd_running = x.wd_running
        /\ Abs(e).wd_started = e.wd_started /\ Abs(e).wd_quit = e.wd_quit
        /\ Abs(e).wd_armed = e.wd_armed
    BY <1>0, <2>2, AbsShape
  <2>4. /\ e.wd_started = y.wd_started /\ e.wd_quit = y.wd_quit
        /\ e.wd_armed = y.wd_armed
    BY <1>0, <2>1, <2>2
  <2>5. Abs(e) = y
    BY <2>1, <2>3, <2>4, AbsEqual
  <2> QED
    BY <2>5 DEF y, e
<1>2. Abs(WatchdogRemove(d)) = Qos(qm)!WatchdogRemove(x)
  <2> DEFINE y == Qos(qm)!WatchdogRemove(x)
             e == WatchdogRemove(d)
  <2>1. /\ y \in AbsBearer /\ y.granted = x.granted /\ y.tcp_bidir = x.tcp_bidir
        /\ y.rat_switch = x.rat_switch /\ y.tx_off = x.tx_off
        /\ y.wd_running = x.wd_running
        /\ y.wd_started = FALSE /\ y.wd_quit = TRUE
        /\ y.wd_armed = (x.wd_armed /\ ~x.wd_started)
    BY <1>0 DEF Qos!WatchdogRemove, AbsBearer
  <2>2. /\ e \in Bearer /\ e.grant_size = d.grant_size /\ e.tcp_bidir = d.tcp_bidir
        /\ e.rat_switch = d.rat_switch /\ e.tx_off = d.tx_off
        /\ e.wd_running = d.wd_running
        /\ e.wd_started = FALSE /\ e.wd_quit = TRUE
        /\ e.wd_armed = (d.wd_armed /\ ~d.wd_started)
    BY DEF WatchdogRemove, Bearer
  <2> HIDE DEF y, e
  <2>3. /\ Abs(e) \in AbsBearer /\ Abs(e).granted = x.granted
        /\ Abs(e).tcp_bidir = x.tcp_bidir
        /\ Abs(e).rat_switch = x.rat_switch /\ Abs(e).tx_off = x.tx_off
        /\ Abs(e).wd_running = x.wd_running
        /\ Abs(e).wd_started = e.wd_started /\ Abs(e).wd_quit = e.wd_quit
        /\ Abs(e).wd_armed = e.wd_armed
    BY <1>0, <2>2, AbsShape
  <2>4. /\ e.wd_started = y.wd_started /\ e.wd_quit = y.wd_quit
        /\ e.wd_armed = y.wd_armed
    BY <1>0, <2>1, <2>2
  <2>5. Abs(e) = y
    BY <2>1, <2>3, <2>4, AbsEqual
  <2> QED
    BY <2>5 DEF y, e
<1> QED
  BY <1>1, <1>2 DEF x

\* dfc_update_fc_map: an indication or the answer to a query is a FlowStatus
LEMMA UpdateSim ==
    ASSUME TypeOK, NEW qm \in BOOLEAN, qm = dfc_qmap, NEW num \in Nat,
           NEW sn \in Seq16, NEW req \in BOOLEAN,
           NEW rat \in BOOLEAN, NEW bidir \in BOOLEAN, NEW is_query \in BOOLEAN,
           NEW rx \in Nat \cup {-1}, qm => ~rat,
           UpdateFcMap(num, sn, req, rat, bidir, is_query, rx)
    PROVE  \E g \in BOOLEAN : Qos(qm)!FlowStatus("b", g, rat, bidir)
<1> DEFINE ignored == (~rat /\ b.rat_switch) \/ (b.tx_off /\ num > 0)
           adjust == dfc_qmap /\ is_query
           grant == IF adjust THEN AdjustGrant(num, rx) ELSE num
           low == adjust /\ grant < num \div 5
           flight == IF adjust THEN InFlightLeft(rx) ELSE 0
           thresh == IF low THEN grant ELSE GrantPer(grant)
           c == IF rat THEN [b EXCEPT !.rat_switch = (num = 0)] ELSE b
           d == [c EXCEPT !.bytes_in_flight = flight, !.grant_size = grant,
                          !.grant_thresh = thresh, !.seq = sn, !.last_seq = sn,
                          !.ack_req = req, !.tcp_bidir = bidir]
           action == (b.grant_size = 0) # (grant = 0)
           adj == IF ignored THEN <<num # 0, FALSE>> ELSE <<grant # 0, low>>
           x == Abs(b)
           x1 == IF rat THEN [x EXCEPT !.rat_switch = ~(num # 0)] ELSE x
           x2 == [x1 EXCEPT !.granted = adj[1], !.tcp_bidir = bidir]
<1>0. b \in Bearer /\ scale \in Nat \ {0}
  BY GrantAssumption DEF TypeOK, Bearer
<1>1. flight \in Nat /\ grant \in Nat /\ grant <= num
  BY <1>0, MinusNat DEF AdjustGrant, InFlightLeft, Bearer
<1>2. thresh \in Nat
  BY <1>0, <1>1, DivNat DEF GrantPer
<1>3. /\ low \in BOOLEAN /\ ignored \in BOOLEAN
      /\ ~qm => ~low /\ grant = num
      /\ num = 0 => ~low /\ grant = 0
  BY <1>1
<1>4. IF ignored THEN b' = c /\ queue' = queue
      ELSE /\ b' = IF low THEN WatchdogAdd(d) ELSE WatchdogRemove(d)
           /\ queue' = IF action THEN FlowCtlQueue(d) ELSE queue
  BY DEF UpdateFcMap
<1>5. ignored <=> Qos(qm)!Ignored(x, num # 0, rat)
  BY <1>0 DEF Qos!Ignored, Abs, Bearer
<1> HIDE DEF grant, low, flight, thresh
<1>6. c \in Bearer
  BY <1>0 DEF Bearer
<1>7. Abs(c) = x1
  BY <1>0 DEF Abs, Bearer
<1> HIDE DEF c
<1>8. d \in Bearer
  BY <1>1, <1>2, <1>6 DEF Bearer
<1>9. /\ d.grant_size = grant /\ d.tcp_bidir = bidir
      /\ d.rat_switch = c.rat_switch /\ d.tx_off = c.tx_off
      /\ d.wd_started = c.wd_started /\ d.wd_quit = c.wd_quit
      /\ d.wd_armed = c.wd_armed /\ d.wd_running = c.wd_running
      /\ c.grant_size = b.grant_size
  BY <1>0, <1>6 DEF Bearer, c
<1> HIDE DEF d
<1>10. adj \in Qos(qm)!Adjusted(num # 0)
  <2>1. CASE qm /\ num # 0
    BY <1>3, <2>1, Zenon DEF Qos!Adjusted
  <2>2. CASE ~(qm /\ num # 0)
    <3>1. adj = <<num # 0, FALSE>>
      BY <1>1, <1>3, <2>2
    <3> QED
      BY <2>2, <3>1, Zenon DEF Qos!Adjusted
  <2> QED
    BY <2>1, <2>2
<1> HIDE DEF ignored
<1>11. Qos(qm)!UpdateFcMap(x, num # 0, rat, bidir, adj) =
         IF ignored THEN x1
         ELSE IF adj[2] THEN Qos(qm)!WatchdogAdd(x2) ELSE Qos(qm)!WatchdogRemove(x2)
  BY <1>5, Zenon DEF Qos!UpdateFcMap
<1>12. x \in AbsBearer /\ Abs(c) \in AbsBearer /\ x.granted = (b.grant_size # 0)
  BY <1>0, <1>6, AbsShape
<1>13. /\ Abs(b') = Qos(qm)!UpdateFcMap(x, num # 0, rat, bidir, adj)
       /\ absQueue' = IF Abs(b').granted = x.granted THEN absQueue
                      ELSE Qos(qm)!BearerFlowCtl(absQueue, Abs(b'))
  <2>1. CASE ignored
    <3>1. Abs(b') = Qos(qm)!UpdateFcMap(x, num # 0, rat, bidir, adj)
      BY <1>4, <1>7, <1>11, <2>1
    <3>2. Abs(b').granted = x.granted
      BY <1>0, <1>4, <1>6, <1>9, <2>1, AbsShape
    <3>3. absQueue' = absQueue
      BY <1>4, <2>1 DEF absQueue
    <3> QED
      BY <3>1, <3>2, <3>3
  <2>2. CASE ~ignored
    <3>1. adj[1] = (grant # 0) /\ adj[2] = low
      BY <2>2
    <3>2. Abs(d) = x2
      <4>1. /\ x2 \in AbsBearer
            /\ x2.granted = (grant # 0) /\ x2.tcp_bidir = bidir
            /\ x2.rat_switch = x1.rat_switch /\ x2.tx_off = x1.tx_off
            /\ x2.wd_started = x1.wd_started /\ x2.wd_quit = x1.wd_quit
            /\ x2.wd_armed = x1.wd_armed /\ x2.wd_running = x1.wd_running
        <5> HIDE DEF x1, adj
        <5> QED
          BY <1>7, <1>12, <3>1 DEF AbsBearer
      <4>2. /\ Abs(d) \in AbsBearer
            /\ Abs(d).granted = (grant # 0) /\ Abs(d).tcp_bidir = bidir
            /\ Abs(d).rat_switch = Abs(c).rat_switch
            /\ Abs(d).tx_off = Abs(c).tx_off
            /\ Abs(d).wd_started = Abs(c).wd_started
            /\ Abs(d).wd_quit = Abs(c).wd_quit
            /\ Abs(d).wd_armed = Abs(c).wd_armed
            /\ Abs(d).wd_running = Abs(c).wd_running
        BY <1>6, <1>8, <1>9, AbsShape
      <4> HIDE DEF x1, x2
      <4> QED
        BY <1>7, <4>1, <4>2, AbsEqual
    <3>3. Abs(b') = Qos(qm)!UpdateFcMap(x, num # 0, rat, bidir, adj)
      <4> HIDE DEF x, x1, x2, adj
      <4> QED
        BY <1>4, <1>8, <1>11, <2>2, <3>1, <3>2, AbsWatch
    <3>4. /\ b' \in Bearer /\ b'.grant_size = grant /\ b'.tcp_bidir = bidir
      BY <1>4, <1>8, <1>9, <2>2, WatchdogAddShape, WatchdogRemoveShape
         DEF SameButWatchdog
    <3>5. Abs(b').granted = (grant # 0)
      BY <3>4, AbsShape
    <3>6. CASE action
      <4>1. FlowCtlQueue(b') = FlowCtlQueue(d)
        BY <1>9, <3>4 DEF FlowCtlQueue
      <4>2. absQueue' = Qos(qm)!BearerFlowCtl(absQueue, Abs(b'))
        BY <1>4, <2>2, <3>4, <3>6, <4>1, AbsQueues
      <4>3. Abs(b').granted # x.granted
        BY <1>12, <3>5, <3>6
      <4> QED
        BY <3>3, <4>2, <4>3, Zenon
    <3>7. CASE ~action
      <4>1. absQueue' = absQueue
        BY <1>4, <2>2, <3>7 DEF absQueue
      <4>2. Abs(b').granted = x.granted
        BY <1>12, <3>5, <3>7
      <4> QED
        BY <3>3, <4>1, <4>2, Zenon
    <3> QED
      BY <3>6, <3>7
  <2> QED
    BY <2>1, <2>2
<1> HIDE DEF adj
<1>14. "o" \in Qos(qm)!GetChoices(absBearer, "b")
  BY AbsParts
<1>15. absBearer["o"].st = "listed" /\ absBearer["o"] = x
  BY <1>12, AbsParts DEF AbsBearer
<1>16. absBearer' = [absBearer EXCEPT !["o"] = Abs(b')]
  BY AbsParts
<1>17. UNCHANGED <<absFlow, absMq>>
  BY AbsParts
<1>18. Qos(qm)!FlowStatus("b", num # 0, rat, bidir)
  BY <1>10, <1>13, <1>14, <1>15, <1>16, <1>17, Zenon DEF Qos!FlowStatus
<1>19. (num # 0) \in BOOLEAN
  OBVIOUS
<1> QED
  BY <1>18, <1>19, Zenon

\* The mapped state after a step
LEMMA AbsStep ==
    ASSUME NEW X, Abs(b') = X
    PROVE  /\ absBearer' = [absBearer EXCEPT !["o"] = X]
           /\ absBearer' = [o \in {"o"} |-> X]
           /\ UNCHANGED <<absFlow, absMq>>
BY AbsParts

\* dfc_all_bearer_flow_ctl
LEMMA AllBearerSim ==
    ASSUME TypeOK, NEW qm, NEW num \in Nat, NEW sn \in Seq16,
           NEW req \in BOOLEAN, NEW bidir \in BOOLEAN,
           AllBearerFlowCtl(num, sn, req, bidir)
    PROVE  \E g \in BOOLEAN : Qos(qm)!AllBearerFlowCtl(g, bidir)
<1> DEFINE x == Abs(b)
           y == [x EXCEPT !.granted = (num # 0), !.tcp_bidir = bidir]
<1>0. b \in Bearer /\ GrantPer(num) \in Nat
  BY GrantAssumption, DivNat DEF TypeOK, Bearer, GrantPer
<1>1. /\ b' \in Bearer /\ b'.grant_size = num /\ b'.tcp_bidir = bidir
      /\ b'.rat_switch = b.rat_switch /\ b'.tx_off = b.tx_off
      /\ b'.wd_started = b.wd_started /\ b'.wd_quit = b.wd_quit
      /\ b'.wd_armed = b.wd_armed /\ b'.wd_running = b.wd_running
  BY <1>0 DEF AllBearerFlowCtl, Bearer
<1>2. queue' = FlowCtlQueue(b')
  BY DEF AllBearerFlowCtl
<1>3. x \in AbsBearer
  BY <1>0, AbsShape
<1>4. /\ y \in AbsBearer
      /\ y.granted = (num # 0) /\ y.tcp_bidir = bidir
      /\ y.rat_switch = x.rat_switch /\ y.tx_off = x.tx_off
      /\ y.wd_started = x.wd_started /\ y.wd_quit = x.wd_quit
      /\ y.wd_armed = x.wd_armed /\ y.wd_running = x.wd_running
  <2> HIDE DEF x
  <2> QED
    BY <1>3 DEF AbsBearer
<1>5. /\ Abs(b') \in AbsBearer
      /\ Abs(b').granted = (num # 0) /\ Abs(b').tcp_bidir = bidir
      /\ Abs(b').rat_switch = x.rat_switch /\ Abs(b').tx_off = x.tx_off
      /\ Abs(b').wd_started = x.wd_started /\ Abs(b').wd_quit = x.wd_quit
      /\ Abs(b').wd_armed = x.wd_armed /\ Abs(b').wd_running = x.wd_running
  BY <1>0, <1>1, AbsShape
<1>6. Abs(b') = y
  <2> HIDE DEF x, y
  <2> QED
    BY <1>4, <1>5, AbsEqual
<1>7. absBearer' = [o \in {"o"} |->
            IF o \in Qos(qm)!Listed
            THEN [absBearer[o] EXCEPT !.granted = (num # 0), !.tcp_bidir = bidir]
            ELSE absBearer[o]]
  <2>1. absBearer["o"] = x /\ Qos(qm)!Listed = {"o"}
    BY AbsParts
  <2>2. absBearer' = [o \in {"o"} |-> y]
    BY <1>6, AbsStep
  <2>3. \A o \in {"o"} : y = IF o \in Qos(qm)!Listed
            THEN [absBearer[o] EXCEPT !.granted = (num # 0), !.tcp_bidir = bidir]
            ELSE absBearer[o]
    BY <2>1, Zenon
  <2> HIDE DEF y
  <2> QED
    BY <2>2, <2>3, Zenon
<1>8. absQueue' = [q \in Qos(qm)!Queues |->
           IF \E o \in Qos(qm)!Listed :
                 \/ q = absBearer[o].mq_idx
                 \/ q = absBearer[o].ack_mq_idx /\ (num # 0 \/ ~bidir)
           THEN num # 0 ELSE absQueue[q]]
  <2> DEFINE g == num # 0
             t == TRUE
  <2>1. absBearer["o"].mq_idx = 1 /\ absBearer["o"].ack_mq_idx = 2
    BY <1>3, AbsParts DEF AbsBearer
  <2>2. /\ queue'.data = g
        /\ queue'.ack = IF g \/ ~bidir THEN g ELSE queue.ack
    BY <1>1, <1>2 DEF FlowCtlQueue
  <2>3. absQueue' = [q \in 0 .. 2 |-> IF q = 0 THEN t
                         ELSE IF q = 1 THEN queue'.data ELSE queue'.ack]
    BY DEF absQueue
  <2>4. absQueue = [q \in 0 .. 2 |-> IF q = 0 THEN t
                         ELSE IF q = 1 THEN queue.data ELSE queue.ack]
    BY DEF absQueue
  <2>5. \A q : (\E o \in Qos(qm)!Listed :
                   \/ q = absBearer[o].mq_idx
                   \/ q = absBearer[o].ack_mq_idx /\ (num # 0 \/ ~bidir))
              <=> q = 1 \/ (q = 2 /\ (g \/ ~bidir))
    BY <2>1, AbsParts
  <2>6. absQueue' = [q \in 0 .. 2 |->
                       IF q = 1 \/ (q = 2 /\ (g \/ ~bidir)) THEN g
                       ELSE absQueue[q]]
    <3> HIDE DEF g, t
    <3>1. CASE g \/ ~bidir
      <4>1. queue'.ack = g
        BY <2>2, <3>1, Zenon
      <4>2. \A q \in 0 .. 2 : (q = 1 \/ (q = 2 /\ (g \/ ~bidir))) <=> (q = 1 \/ q = 2)
        BY <3>1, Zenon
      <4> QED
        BY <2>2, <2>3, <2>4, <4>1, <4>2
    <3>2. CASE ~(g \/ ~bidir)
      <4>1. queue'.ack = queue.ack
        BY <2>2, <3>2, Zenon
      <4>2. \A q \in 0 .. 2 : (q = 1 \/ (q = 2 /\ (g \/ ~bidir))) <=> q = 1
        BY <3>2, Zenon
      <4> QED
        BY <2>2, <2>3, <2>4, <4>1, <4>2
    <3> QED
      BY <3>1, <3>2, Zenon
  <2> QED
    BY <2>5, <2>6, AbsParts, Zenon
<1>9. Qos(qm)!AllBearerFlowCtl(num # 0, bidir)
  BY <1>7, <1>8, AbsParts, Zenon DEF Qos!AllBearerFlowCtl
<1>10. (num # 0) \in BOOLEAN
  OBVIOUS
<1> QED
  BY <1>9, <1>10, Zenon

\* A bearer maps to the record it agrees with
LEMMA AbsIs ==
    ASSUME NEW d \in Bearer, NEW y \in AbsBearer,
           y.granted = (d.grant_size # 0), y.tcp_bidir = d.tcp_bidir,
           y.rat_switch = d.rat_switch, y.tx_off = d.tx_off,
           y.wd_started = d.wd_started, y.wd_quit = d.wd_quit,
           y.wd_armed = d.wd_armed, y.wd_running = d.wd_running
    PROVE  Abs(d) = y
<1>1. /\ Abs(d) \in AbsBearer /\ Abs(d).granted = y.granted
      /\ Abs(d).tcp_bidir = y.tcp_bidir
      /\ Abs(d).rat_switch = y.rat_switch /\ Abs(d).tx_off = y.tx_off
      /\ Abs(d).wd_started = y.wd_started /\ Abs(d).wd_quit = y.wd_quit
      /\ Abs(d).wd_armed = y.wd_armed /\ Abs(d).wd_running = y.wd_running
  BY AbsShape
<1> QED
  BY <1>1, AbsEqual

\* dfc_update_tx_link_status
LEMMA TxLinkSim ==
    ASSUME TypeOK, NEW qm, NEW on \in BOOLEAN, TxLinkStatus(on)
    PROVE  Qos(qm)!TxLinkStatus("b", on)
<1> DEFINE x == Abs(b)
           xoff == [x EXCEPT !.tx_off = ~on]
           xzero == [xoff EXCEPT !.granted = FALSE, !.tcp_bidir = FALSE]
           xstop == Qos(qm)!WatchdogRemove(xzero)
           xstart == [xoff EXCEPT !.granted = TRUE]
           off == [b EXCEPT !.tx_off = ~on]
           zero == [off EXCEPT !.grant_size = 0, !.tcp_bidir = FALSE,
                               !.bytes_in_flight = 0]
           stop == WatchdogRemove(zero)
           start == [off EXCEPT !.grant_size = DefaultGrant, !.seq = 0,
                                !.grant_thresh = GrantPer(DefaultGrant),
                                !.ack_req = FALSE]
<1>0. b \in Bearer /\ GrantPer(DefaultGrant) \in Nat /\ 0 \in Seq16
  BY GrantAssumption, DivNat DEF TypeOK, Bearer, GrantPer, DefaultGrant, Seq16
<1>1. /\ x \in AbsBearer /\ x.granted = (b.grant_size # 0)
      /\ x.tcp_bidir = b.tcp_bidir
      /\ x.rat_switch = b.rat_switch /\ x.tx_off = b.tx_off
      /\ x.wd_started = b.wd_started /\ x.wd_quit = b.wd_quit
      /\ x.wd_armed = b.wd_armed /\ x.wd_running = b.wd_running
  BY <1>0, AbsShape
<1>2. /\ b.tx_off = on
      /\ \/ b.grant_size # 0 /\ ~on /\ b' = stop /\ queue' = FlowCtlQueue(stop)
         \/ /\ b.grant_size = 0 /\ on /\ ~b.rat_switch
            /\ b' = start /\ queue' = FlowCtlQueue(start)
         \/ /\ (b.grant_size # 0) = on \/ (on /\ b.rat_switch)
            /\ b' = off /\ queue' = queue
  BY DEF TxLinkStatus
<1> HIDE DEF x
<1>3. off \in Bearer /\ Abs(off) = xoff
  <2>1. off \in Bearer /\ xoff \in AbsBearer
    BY <1>0, <1>1 DEF Bearer, AbsBearer
  <2> QED
    BY <1>0, <1>1, <2>1, AbsIs DEF Bearer, AbsBearer
<1>4. zero \in Bearer /\ Abs(zero) = xzero
  <2>1. zero \in Bearer /\ xzero \in AbsBearer
    BY <1>0, <1>1 DEF Bearer, AbsBearer
  <2>2. /\ xzero.granted = FALSE /\ xzero.tcp_bidir = FALSE
        /\ xzero.rat_switch = b.rat_switch /\ xzero.tx_off = ~on
        /\ xzero.wd_started = b.wd_started /\ xzero.wd_quit = b.wd_quit
        /\ xzero.wd_armed = b.wd_armed /\ xzero.wd_running = b.wd_running
    BY <1>1 DEF AbsBearer
  <2>3. /\ zero.grant_size = 0 /\ zero.tcp_bidir = FALSE
        /\ zero.rat_switch = b.rat_switch /\ zero.tx_off = ~on
        /\ zero.wd_started = b.wd_started /\ zero.wd_quit = b.wd_quit
        /\ zero.wd_armed = b.wd_armed /\ zero.wd_running = b.wd_running
    BY <1>0 DEF Bearer, DefaultGrant
  <2> HIDE DEF zero, xzero
  <2>4. xzero.granted = (zero.grant_size # 0)
    BY <2>2, <2>3
  <2> QED
    BY <2>1, <2>2, <2>3, <2>4, AbsIs
<1>5. start \in Bearer /\ Abs(start) = xstart
  <2>1. start \in Bearer /\ xstart \in AbsBearer
    BY <1>0, <1>1 DEF Bearer, AbsBearer, DefaultGrant
  <2>2. /\ xstart.granted = TRUE /\ xstart.tcp_bidir = b.tcp_bidir
        /\ xstart.rat_switch = b.rat_switch /\ xstart.tx_off = ~on
        /\ xstart.wd_started = b.wd_started /\ xstart.wd_quit = b.wd_quit
        /\ xstart.wd_armed = b.wd_armed /\ xstart.wd_running = b.wd_running
    BY <1>1 DEF AbsBearer
  <2>3. /\ start.grant_size = 1 /\ start.tcp_bidir = b.tcp_bidir
        /\ start.rat_switch = b.rat_switch /\ start.tx_off = ~on
        /\ start.wd_started = b.wd_started /\ start.wd_quit = b.wd_quit
        /\ start.wd_armed = b.wd_armed /\ start.wd_running = b.wd_running
    BY <1>0 DEF Bearer, DefaultGrant
  <2> HIDE DEF start, xstart
  <2>5. start.grant_size # 0
    BY <2>3
  <2>4. xstart.granted = (start.grant_size # 0)
    BY <2>2, <2>5, Zenon
  <2> QED
    BY <2>1, <2>2, <2>3, <2>4, AbsIs
<1> HIDE DEF off, zero, start, xoff, xzero, xstart
<1>6. stop \in Bearer /\ Abs(stop) = xstop
  BY <1>4, WatchdogRemoveShape, AbsWatch
<1> HIDE DEF stop, xstop
<1>7. absBearer["o"] = x /\ "o" \in Qos(qm)!Lookup(absBearer, "b")
  BY AbsParts DEF x
<1>8. IF x.granted /\ ~on
      THEN /\ absBearer' = [absBearer EXCEPT !["o"] = xstop]
           /\ absQueue' = Qos(qm)!BearerFlowCtl(absQueue, xstop)
      ELSE IF ~x.granted /\ on /\ ~x.rat_switch
      THEN /\ absBearer' = [absBearer EXCEPT !["o"] = xstart]
           /\ absQueue' = Qos(qm)!BearerFlowCtl(absQueue, xstart)
      ELSE /\ absBearer' = [absBearer EXCEPT !["o"] = xoff]
           /\ absQueue' = absQueue
  <2>1. CASE b.grant_size # 0 /\ ~on /\ b' = stop /\ queue' = FlowCtlQueue(stop)
    <3>1. Abs(b') = xstop /\ absQueue' = Qos(qm)!BearerFlowCtl(absQueue, Abs(stop))
      BY <1>6, <2>1, AbsQueues
    <3>2. x.granted /\ ~on
      BY <1>1, <2>1
    <3> QED
      BY <1>6, <3>1, <3>2, AbsStep, Zenon
  <2>2. CASE /\ b.grant_size = 0 /\ on /\ ~b.rat_switch
             /\ b' = start /\ queue' = FlowCtlQueue(start)
    <3>1. Abs(b') = xstart /\ absQueue' = Qos(qm)!BearerFlowCtl(absQueue, Abs(start))
      BY <1>5, <2>2, AbsQueues
    <3>2. ~x.granted /\ on /\ ~x.rat_switch
      BY <1>1, <2>2
    <3> QED
      BY <1>5, <3>1, <3>2, AbsStep, Zenon
  <2>3. CASE /\ (b.grant_size # 0) = on \/ (on /\ b.rat_switch)
             /\ b' = off /\ queue' = queue
    <3>1. Abs(b') = xoff
      BY <1>3, <2>3
    <3>2. absQueue' = absQueue
      BY <2>3 DEF absQueue
    <3>3. ~(x.granted /\ ~on) /\ ~(~x.granted /\ on /\ ~x.rat_switch)
      BY <1>1, <2>3
    <3> QED
      BY <3>1, <3>2, <3>3, AbsStep, Zenon
  <2> QED
    BY <1>2, <2>1, <2>2, <2>3
<1>9. x.tx_off = on
  BY <1>1, <1>2
<1> QED
  BY <1>7, <1>8, <1>9, AbsParts, Zenon
     DEF Qos!TxLinkStatus, xstop, xzero, xstart, xoff

\* dfc_qmi_burst_check: only using up the grant is a step of QosFlows
LEMMA BurstSim ==
    ASSUME TypeOK, NEW qm, NEW len \in Nat, BurstCheck(len)
    PROVE  Qos(qm)!BurstCheck("f") \/ UNCHANGED Qos(TRUE)!vars
<1> DEFINE x == Abs(b)
           y == [x EXCEPT !.granted = FALSE]
           left == Minus(b.grant_size, len)
<1>0. b \in Bearer
  BY DEF TypeOK, Bearer
<1>1. /\ x \in AbsBearer /\ x.granted = (b.grant_size # 0)
      /\ x.tcp_bidir = b.tcp_bidir
      /\ x.rat_switch = b.rat_switch /\ x.tx_off = b.tx_off
      /\ x.wd_started = b.wd_started /\ x.wd_quit = b.wd_quit
      /\ x.wd_armed = b.wd_armed /\ x.wd_running = b.wd_running
  BY <1>0, AbsShape
<1> HIDE DEF x
<1>2. left \in Nat /\ (b.grant_size = 0 => left = 0)
  BY <1>0 DEF Minus, Bearer
<1> HIDE DEF left
<1>3. /\ b' \in Bearer /\ b'.grant_size = left
      /\ b'.tcp_bidir = b.tcp_bidir
      /\ b'.rat_switch = b.rat_switch /\ b'.tx_off = b.tx_off
      /\ b'.wd_started = b.wd_started /\ b'.wd_quit = b.wd_quit
      /\ b'.wd_armed = b.wd_armed /\ b'.wd_running = b.wd_running
  <2>1. /\ b' = [b EXCEPT !.bytes_in_flight = b.bytes_in_flight + len,
                          !.grant_size = left]
        /\ b.bytes_in_flight + len \in Nat
    BY <1>0 DEF BurstCheck, left, Bearer
  <2> QED
    BY <1>0, <1>2, <2>1 DEF Bearer
<1>4. /\ b.grant_size = 0 \/ left # 0 => queue' = queue
      /\ b.grant_size # 0 /\ left = 0 => queue' = FlowCtlQueue(b')
  BY <1>2 DEF BurstCheck, left
<1>5. CASE b.grant_size = 0 \/ left # 0
  <2>1. Abs(b') = x
    BY <1>1, <1>2, <1>3, <1>5, AbsIs
  <2> QED
    BY <1>4, <1>5, <2>1, AbsStutter DEF x
<1>6. CASE b.grant_size # 0 /\ left = 0
  <2>1. /\ y \in AbsBearer
        /\ y.granted = FALSE /\ y.tcp_bidir = x.tcp_bidir
        /\ y.rat_switch = x.rat_switch /\ y.tx_off = x.tx_off
        /\ y.wd_started = x.wd_started /\ y.wd_quit = x.wd_quit
        /\ y.wd_armed = x.wd_armed /\ y.wd_running = x.wd_running
    BY <1>1 DEF AbsBearer
  <2> HIDE DEF y
  <2>2. Abs(b') = y
    BY <1>1, <1>3, <1>6, <2>1, AbsIs
  <2>3. absQueue' = Qos(qm)!BearerFlowCtl(absQueue, y)
    BY <1>3, <1>4, <1>6, <2>2, AbsQueues
  <2>4. absFlow["f"] # NULL /\ absFlow["f"].bearer # NULL /\ absFlow["f"].bearer = "o"
    BY AbsAssumption DEF absFlow
  <2>5. absBearer["o"] = x /\ x.granted
    BY <1>1, <1>6, AbsParts DEF x
  <2> QED
    BY <2>2, <2>3, <2>4, <2>5, AbsStep, AbsParts, Zenon DEF Qos!BurstCheck, y
<1> QED
  BY <1>5, <1>6

\* The watchdog timer expires
LEMMA ExpireSim ==
    ASSUME TypeOK, NEW qm, WatchdogExpire
    PROVE  Qos(qm)!WatchdogExpire("o")
<1> DEFINE x == Abs(b)
           y == [x EXCEPT !.wd_armed = FALSE, !.wd_running = TRUE]
<1>0. b \in Bearer
  BY DEF TypeOK, Bearer
<1>1. /\ x \in AbsBearer /\ x.granted = (b.grant_size # 0)
      /\ x.tcp_bidir = b.tcp_bidir
      /\ x.rat_switch = b.rat_switch /\ x.tx_off = b.tx_off
      /\ x.wd_started = b.wd_started /\ x.wd_quit = b.wd_quit
      /\ x.wd_armed = b.wd_armed /\ x.wd_running = b.wd_running
  BY <1>0, AbsShape
<1>2. /\ b.wd_armed /\ ~b.wd_running /\ queue' = queue
      /\ b' \in Bearer /\ b'.grant_size = b.grant_size
      /\ b'.tcp_bidir = b.tcp_bidir
      /\ b'.rat_switch = b.rat_switch /\ b'.tx_off = b.tx_off
      /\ b'.wd_started = b.wd_started /\ b'.wd_quit = b.wd_quit
      /\ b'.wd_armed = FALSE /\ b'.wd_running = TRUE
  BY <1>0 DEF WatchdogExpire, Bearer
<1> HIDE DEF x
<1>3. /\ y \in AbsBearer
      /\ y.granted = x.granted /\ y.tcp_bidir = x.tcp_bidir
      /\ y.rat_switch = x.rat_switch /\ y.tx_off = x.tx_off
      /\ y.wd_started = x.wd_started /\ y.wd_quit = x.wd_quit
      /\ y.wd_armed = FALSE /\ y.wd_running = TRUE
  BY <1>1 DEF AbsBearer
<1> HIDE DEF y
<1>4. Abs(b') = y
  BY <1>1, <1>2, <1>3, AbsIs
<1>5. absQueue' = absQueue
  BY <1>2 DEF absQueue
<1>6. absBearer["o"] = x /\ x.wd_armed /\ ~x.wd_running
  BY <1>1, <1>2, AbsParts DEF x
<1> QED
  BY <1>4, <1>5, <1>6, AbsStep, AbsParts, Zenon DEF Qos!WatchdogExpire, y

\* qmi_rmnet_watchdog_fn
LEMMA WatchdogSim ==
    ASSUME TypeOK, NEW qm, WatchdogFn
    PROVE  Qos(qm)!WatchdogFn("o")
<1> DEFINE x == Abs(b)
           y == [x EXCEPT !.wd_started = FALSE, !.wd_running = FALSE]
           z == [y EXCEPT !.granted = TRUE]
           grant == IF b.grant_size = 0 THEN DefaultCallGrant ELSE b.grant_size
<1>0. b \in Bearer /\ GrantPer(grant) \in Nat /\ grant \in Nat \ {0}
  BY GrantAssumption, DivNat DEF TypeOK, Bearer, GrantPer
<1>1. /\ x \in AbsBearer /\ x.granted = (b.grant_size # 0)
      /\ x.tcp_bidir = b.tcp_bidir
      /\ x.rat_switch = b.rat_switch /\ x.tx_off = b.tx_off
      /\ x.wd_started = b.wd_started /\ x.wd_quit = b.wd_quit
      /\ x.wd_armed = b.wd_armed /\ x.wd_running = b.wd_running
  BY <1>0, AbsShape
<1>2. /\ b' \in Bearer
      /\ b'.tcp_bidir = b.tcp_bidir
      /\ b'.rat_switch = b.rat_switch /\ b'.tx_off = b.tx_off
      /\ b'.wd_started = FALSE /\ b'.wd_quit = b.wd_quit
      /\ b'.wd_armed = b.wd_armed /\ b'.wd_running = FALSE
      /\ IF b.wd_quit THEN b'.grant_size = b.grant_size ELSE b'.grant_size = grant
  <2>1. /\ b.wd_quit => b' = [b EXCEPT !.wd_started = FALSE, !.wd_running = FALSE]
        /\ ~b.wd_quit =>
             b' = [b EXCEPT !.wd_started = FALSE, !.wd_running = FALSE,
                            !.bytes_in_flight = 0, !.grant_size = grant,
                            !.grant_thresh = GrantPer(grant)]
    BY DEF WatchdogFn
  <2> HIDE DEF grant
  <2>2. CASE b.wd_quit
    BY <1>0, <2>1, <2>2 DEF Bearer
  <2>3. CASE ~b.wd_quit
    <3> DEFINE done == [b EXCEPT !.wd_started = FALSE, !.wd_running = FALSE]
    <3>1. /\ done \in Bearer /\ done.tcp_bidir = b.tcp_bidir
          /\ done.rat_switch = b.rat_switch /\ done.tx_off = b.tx_off
          /\ done.wd_started = FALSE /\ done.wd_quit = b.wd_quit
          /\ done.wd_armed = b.wd_armed /\ done.wd_running = FALSE
      BY <1>0 DEF Bearer
    <3>2. b' = [done EXCEPT !.bytes_in_flight = 0, !.grant_size = grant,
                            !.grant_thresh = GrantPer(grant)]
      BY <2>1, <2>3
    <3> HIDE DEF done
    <3> QED
      BY <1>0, <2>3, <3>1, <3>2 DEF Bearer
  <2> QED
    BY <2>2, <2>3
<1>3. /\ b.wd_running
      /\ b.wd_quit \/ b.grant_size # 0 => queue' = queue
      /\ ~b.wd_quit /\ b.grant_size = 0 => queue' = FlowCtlQueue(b')
  BY DEF WatchdogFn
<1> HIDE DEF x
<1>4. /\ y \in AbsBearer
      /\ y.granted = x.granted /\ y.tcp_bidir = x.tcp_bidir
      /\ y.rat_switch = x.rat_switch /\ y.tx_off = x.tx_off
      /\ y.wd_started = FALSE /\ y.wd_quit = x.wd_quit
      /\ y.wd_armed = x.wd_armed /\ y.wd_running = FALSE
  BY <1>1 DEF AbsBearer
<1> HIDE DEF y
<1>5. /\ z \in AbsBearer
      /\ z.granted = TRUE /\ z.tcp_bidir = y.tcp_bidir
      /\ z.rat_switch = y.rat_switch /\ z.tx_off = y.tx_off
      /\ z.wd_started = y.wd_started /\ z.wd_quit = y.wd_quit
      /\ z.wd_armed = y.wd_armed /\ z.wd_running = y.wd_running
  BY <1>4 DEF AbsBearer
<1> HIDE DEF z
<1>6. absBearer["o"] = x /\ x.wd_running
  BY <1>1, <1>3, AbsParts DEF x
<1>7. CASE b.wd_quit \/ b.grant_size # 0
  <2>1. (b.grant_size # 0) = (b'.grant_size # 0)
    BY <1>0, <1>2, <1>7
  <2>2. Abs(b') = y
    BY <1>1, <1>2, <1>4, <2>1, AbsIs
  <2>3. absQueue' = absQueue
    BY <1>3, <1>7 DEF absQueue
  <2>4. x.wd_quit \/ x.granted
    BY <1>1, <1>7
  <2> QED
    BY <1>6, <2>2, <2>3, <2>4, AbsStep, AbsParts, Zenon DEF Qos!WatchdogFn, y
<1>8. CASE ~b.wd_quit /\ b.grant_size = 0
  <2>4. b'.grant_size # 0
    BY <1>0, <1>2, <1>8
  <2>5. z.granted = (b'.grant_size # 0)
    BY <1>5, <2>4, Zenon
  <2>6. /\ z.tcp_bidir = b'.tcp_bidir
        /\ z.rat_switch = b'.rat_switch /\ z.tx_off = b'.tx_off
        /\ z.wd_started = b'.wd_started /\ z.wd_quit = b'.wd_quit
        /\ z.wd_armed = b'.wd_armed /\ z.wd_running = b'.wd_running
    BY <1>1, <1>2, <1>4, <1>5
  <2>1. Abs(b') = z
    BY <1>2, <1>5, <2>5, <2>6, AbsIs
  <2>2. absQueue' = Qos(qm)!BearerFlowCtl(absQueue, z)
    BY <1>2, <1>3, <1>8, <2>1, AbsQueues
  <2>3. ~(x.wd_quit \/ x.granted)
    BY <1>1, <1>8
  <2> QED
    BY <1>6, <2>1, <2>2, <2>3, AbsStep, AbsParts, Zenon DEF Qos!WatchdogFn, y, z
<1> QED
  BY <1>0, <1>7, <1>8 DEF Bearer

\* qmi_rmnet_enable_all_flows
LEMMA EnableSim ==
    ASSUME TypeOK, NEW qm, EnableAllFlows
    PROVE  Qos(qm)!EnableAllFlows
<1> DEFINE x == Abs(b)
           y == [x EXCEPT !.tcp_bidir = FALSE, !.rat_switch = FALSE]
           zero == [b EXCEPT !.seq = 0, !.ack_req = FALSE,
                             !.bytes_in_flight = 0, !.tcp_bidir = FALSE,
                             !.rat_switch = FALSE]
           reset == WatchdogRemove(zero)
           xreset == Qos(qm)!WatchdogRemove(y)
           c == [reset EXCEPT !.grant_size = DefaultGrant,
                              !.grant_thresh = GrantPer(DefaultGrant)]
           z == [xreset EXCEPT !.granted = TRUE]
<1>0. b \in Bearer /\ GrantPer(DefaultGrant) \in Nat /\ 0 \in Seq16
  BY GrantAssumption, DivNat DEF TypeOK, Bearer, GrantPer, DefaultGrant, Seq16
<1>1. /\ x \in AbsBearer /\ x.granted = (b.grant_size # 0)
      /\ x.tcp_bidir = b.tcp_bidir
      /\ x.rat_switch = b.rat_switch /\ x.tx_off = b.tx_off
      /\ x.wd_started = b.wd_started /\ x.wd_quit = b.wd_quit
      /\ x.wd_armed = b.wd_armed /\ x.wd_running = b.wd_running
  BY <1>0, AbsShape
<1>2. /\ b.tx_off => b' = reset /\ queue' = queue
      /\ ~b.tx_off => /\ b' = c
                      /\ queue' = IF b.grant_size = 0 THEN FlowCtlQueue(c)
                                                      ELSE queue
  BY DEF EnableAllFlows
<1>3. /\ zero \in Bearer /\ zero.grant_size = b.grant_size
      /\ zero.tcp_bidir = FALSE
      /\ zero.rat_switch = FALSE /\ zero.tx_off = b.tx_off
      /\ zero.wd_started = b.wd_started /\ zero.wd_quit = b.wd_quit
      /\ zero.wd_armed = b.wd_armed /\ zero.wd_running = b.wd_running
  BY <1>0 DEF Bearer
<1> HIDE DEF x, zero
<1>4. /\ y \in AbsBearer
      /\ y.granted = x.granted /\ y.tcp_bidir = FALSE
      /\ y.rat_switch = FALSE /\ y.tx_off = x.tx_off
      /\ y.wd_started = x.wd_started /\ y.wd_quit = x.wd_quit
      /\ y.wd_armed = x.wd_armed /\ y.wd_running = x.wd_running
  BY <1>1 DEF AbsBearer
<1> HIDE DEF y
<1>5. Abs(zero) = y
  BY <1>1, <1>3, <1>4, AbsIs
<1>6. reset \in Bearer /\ Abs(reset) = xreset
  BY <1>3, <1>5, WatchdogRemoveShape, AbsWatch
<1> HIDE DEF reset, xreset
<1>7. /\ xreset \in AbsBearer
      /\ xreset.tcp_bidir = reset.tcp_bidir
      /\ xreset.rat_switch = reset.rat_switch /\ xreset.tx_off = reset.tx_off
      /\ xreset.wd_started = reset.wd_started /\ xreset.wd_quit = reset.wd_quit
      /\ xreset.wd_armed = reset.wd_armed /\ xreset.wd_running = reset.wd_running
  BY <1>6, AbsShape
<1>8. c \in Bearer /\ c.grant_size = 1 /\ Abs(c) = z
  <2>1. /\ c \in Bearer /\ c.grant_size = 1 /\ c.tcp_bidir = reset.tcp_bidir
        /\ c.rat_switch = reset.rat_switch /\ c.tx_off = reset.tx_off
        /\ c.wd_started = reset.wd_started /\ c.wd_quit = reset.wd_quit
        /\ c.wd_armed = reset.wd_armed /\ c.wd_running = reset.wd_running
    BY <1>0, <1>6 DEF Bearer, DefaultGrant
  <2>2. /\ z \in AbsBearer
        /\ z.granted = TRUE /\ z.tcp_bidir = xreset.tcp_bidir
        /\ z.rat_switch = xreset.rat_switch /\ z.tx_off = xreset.tx_off
        /\ z.wd_started = xreset.wd_started /\ z.wd_quit = xreset.wd_quit
        /\ z.wd_armed = xreset.wd_armed /\ z.wd_running = xreset.wd_running
    BY <1>7 DEF AbsBearer
  <2> HIDE DEF c, z
  <2>3. c.grant_size # 0
    BY <2>1
  <2>4. z.granted = (c.grant_size # 0)
    BY <2>2, <2>3, Zenon
  <2> QED
    BY <1>7, <2>1, <2>2, <2>4, AbsIs
<1> HIDE DEF c, z
<1>9. Qos(qm)!EnabledBearer(x) = IF x.tx_off THEN xreset ELSE z
  BY Zenon DEF Qos!EnabledBearer, z, xreset, y
<1>10. Abs(b') = Qos(qm)!EnabledBearer(x)
  BY <1>1, <1>2, <1>6, <1>8, <1>9
<1>11. absBearer' = [o \in {"o"} |->
            IF o \in Qos(qm)!Listed THEN Qos(qm)!EnabledBearer(absBearer[o])
                                    ELSE absBearer[o]]
  <2>1. absBearer["o"] = x /\ Qos(qm)!Listed = {"o"}
    BY AbsParts DEF x
  <2>2. absBearer' = [o \in {"o"} |-> Qos(qm)!EnabledBearer(x)]
    BY <1>10, AbsStep
  <2>3. \A o \in {"o"} : Qos(qm)!EnabledBearer(x) =
            IF o \in Qos(qm)!Listed THEN Qos(qm)!EnabledBearer(absBearer[o])
                                    ELSE absBearer[o]
    BY <2>1, Zenon
  <2> QED
    BY <2>2, <2>3, Zenon
<1>12. absQueue' = [q \in Qos(qm)!Queues |->
            absQueue[q] \/ \E o \in Qos(qm)!Listed :
               /\ ~absBearer[o].tx_off /\ ~absBearer[o].granted
               /\ q \in {absBearer[o].mq_idx, absBearer[o].ack_mq_idx}]
  <2> DEFINE wakes == ~b.tx_off /\ b.grant_size = 0
             Woken(q) == \E o \in Qos(qm)!Listed :
               /\ ~absBearer[o].tx_off /\ ~absBearer[o].granted
               /\ q \in {absBearer[o].mq_idx, absBearer[o].ack_mq_idx}
  <2>1. absBearer["o"] = x /\ x.mq_idx = 1 /\ x.ack_mq_idx = 2
    BY <1>1, AbsParts DEF AbsBearer, x
  <2>2. \A q : Woken(q) <=> wakes /\ q \in {1, 2}
    BY <1>1, <2>1, AbsParts
  <2> DEFINE data == queue.data
             ack == queue.ack
             t == TRUE
  <2>3. /\ data \in BOOLEAN /\ ack \in BOOLEAN
        /\ wakes => queue'.data = TRUE /\ queue'.ack = TRUE
        /\ ~wakes => queue' = queue
    <3>1. data \in BOOLEAN /\ ack \in BOOLEAN
      BY DEF TypeOK
    <3>2. ASSUME wakes PROVE queue'.data = TRUE /\ queue'.ack = TRUE
      <4>1. queue' = FlowCtlQueue(c)
        BY <1>2, <3>2, Zenon
      <4>2. c.grant_size # 0
        BY <1>8
      <4> QED
        BY <4>1, <4>2, Zenon DEF FlowCtlQueue
    <3>3. ASSUME ~wakes PROVE queue' = queue
      <4>1. CASE b.tx_off
        BY <1>2, <4>1
      <4>2. CASE ~b.tx_off
        BY <1>2, <3>3, <4>2, Zenon
      <4> QED
        BY <4>1, <4>2
    <3> QED
      BY <3>1, <3>2, <3>3
  <2>4. absQueue = [q \in 0 .. 2 |-> IF q = 0 THEN t
                         ELSE IF q = 1 THEN data ELSE ack]
    BY DEF absQueue
  <2>5. absQueue' = [q \in 0 .. 2 |-> IF q = 0 THEN TRUE
                         ELSE IF q = 1 THEN queue'.data ELSE queue'.ack]
    BY DEF absQueue
  <2>9. (~wakes => queue'.data = data /\ queue'.ack = ack) /\ t = TRUE
    BY <2>3
  <2> HIDE DEF wakes, Woken, data, ack, t
  <2>6. \A q \in 0 .. 2 : (IF q = 0 THEN TRUE
                         ELSE IF q = 1 THEN queue'.data ELSE queue'.ack)
                        = (absQueue[q] \/ Woken(q))
    <3> TAKE q \in 0 .. 2
    <3>1. q = 0 \/ q = 1 \/ q = 2
      OBVIOUS
    <3>2. /\ q = 0 => absQueue[q] = t
          /\ q = 1 => absQueue[q] = data
          /\ q = 2 => absQueue[q] = ack
      BY <2>4
    <3>3. (q = 0 => ~Woken(q)) /\ (q # 0 => (Woken(q) <=> wakes))
      BY <2>2, <3>1
    <3>4. CASE wakes
      BY <2>3, <2>9, <3>1, <3>2, <3>3, <3>4, Zenon
    <3>5. CASE ~wakes
      BY <2>3, <2>9, <3>1, <3>2, <3>3, <3>5, Zenon
    <3> QED
      BY <3>4, <3>5
  <2>7. absQueue' = [q \in 0 .. 2 |-> absQueue[q] \/ Woken(q)]
    BY <2>5, <2>6, Zenon
  <2>8. Qos(qm)!Queues = 0 .. 2
    BY AbsParts
  <2> QED
    BY <2>7, <2>8, Zenon DEF Woken
<1> QED
  BY <1>11, <1>12, AbsParts, Zenon DEF Qos!EnableAllFlows

\* Every step is one of QosFlows, with the transport in use, or none
LEMMA NextSim ==
    ASSUME GrantInv, [Next]_vars
    PROVE  [IF dfc_qmap THEN Qos(TRUE)!Next ELSE Qos(FALSE)!Next]_(Qos(TRUE)!vars)
<1> SUFFICES ASSUME NEW qm \in BOOLEAN, qm = dfc_qmap
             PROVE  Qos(qm)!Next \/ UNCHANGED Qos(TRUE)!vars
  <2>1. CASE dfc_qmap = TRUE
    BY <2>1, Zenon
  <2>2. CASE dfc_qmap = FALSE
    BY <2>2, Zenon
  <2> QED
    BY <2>1, <2>2 DEF GrantInv, TypeOK
<1> DEFINE Sim == Qos(qm)!Next \/ UNCHANGED Qos(TRUE)!vars
<1>0. TypeOK /\ b \in Bearer
  BY DEF GrantInv, TypeOK, Bearer
<1> USE GrantAssumption
<1>1. ASSUME NEW num \in Grants, NEW sn \in Seqs, NEW req \in BOOLEAN,
             NEW rat \in BOOLEAN, NEW bidir \in Flags,
             Indication(num, sn, req, rat, bidir)
      PROVE  Sim
  <2>1. \E g \in BOOLEAN : Qos(qm)!FlowStatus("b", g, rat, bidir)
    <3>1. /\ UpdateFcMap(num, sn, req, rat, bidir, FALSE, -1)
          /\ qm => ~rat
      BY <1>1 DEF Indication
    <3>2. /\ num \in Nat /\ sn \in Seq16 /\ bidir \in BOOLEAN
          /\ FALSE \in BOOLEAN /\ -1 \in Nat \cup {-1}
      BY DEF Seq16
    <3>3. \A is_query \in BOOLEAN, rx \in Nat \cup {-1} :
            UpdateFcMap(num, sn, req, rat, bidir, is_query, rx) =>
              \E g \in BOOLEAN : Qos(qm)!FlowStatus("b", g, rat, bidir)
      BY <1>0, <3>1, <3>2, UpdateSim
    <3> QED
      BY <3>1, <3>2, <3>3, Zenon
  <2>2. bidir \in BOOLEAN
    OBVIOUS
  <2> QED
    BY <2>1, <2>2, Zenon DEF Qos!Next, Qos!Modem
<1>2. ASSUME NEW num \in Grants, NEW rx \in RxBytes \cup {-1},
             NEW bidir \in Flags, QueryResponse(num, rx, bidir)
      PROVE  Sim
  <2>1. \E g \in BOOLEAN : Qos(qm)!FlowStatus("b", g, FALSE, bidir)
    <3>1. UpdateFcMap(num, QuerySeq, FALSE, FALSE, bidir, TRUE, rx)
      BY <1>2 DEF QueryResponse
    <3>2. /\ num \in Nat /\ QuerySeq \in Seq16 /\ bidir \in BOOLEAN
          /\ FALSE \in BOOLEAN /\ TRUE \in BOOLEAN /\ rx \in Nat \cup {-1}
      BY DEF Seq16
    <3>3. \A req, rat, is_query \in BOOLEAN :
            /\ qm => ~rat
            /\ UpdateFcMap(num, QuerySeq, req, rat, bidir, is_query, rx)
            => \E g \in BOOLEAN : Qos(qm)!FlowStatus("b", g, rat, bidir)
      BY <1>0, <3>2, UpdateSim
    <3> QED
      BY <3>1, <3>2, <3>3, Zenon
  <2>2. bidir \in BOOLEAN /\ FALSE \in BOOLEAN
    OBVIOUS
  <2> QED
    BY <2>1, <2>2, Zenon DEF Qos!Next, Qos!Modem
<1>3. ASSUME NEW num \in AllGrants, NEW sn \in Seqs, NEW req \in BOOLEAN,
             NEW bidir \in Flags, AllBearerFlowCtl(num, sn, req, bidir)
      PROVE  Sim
  <2>1. \E g \in BOOLEAN : Qos(qm)!AllBearerFlowCtl(g, bidir)
    <3>1. num \in Nat /\ sn \in Seq16 /\ bidir \in BOOLEAN
      BY DEF Seq16
    <3> QED
      BY <1>0, <1>3, <3>1, AllBearerSim
  <2>2. bidir \in BOOLEAN
    OBVIOUS
  <2> QED
    BY <2>1, <2>2, Zenon DEF Qos!Next, Qos!Modem
<1>4. ASSUME NEW on \in BOOLEAN, TxLinkStatus(on)
      PROVE  Sim
  <2>1. Qos(qm)!TxLinkStatus("b", on)
    BY <1>0, <1>4, TxLinkSim
  <2> QED
    BY <2>1, Zenon DEF Qos!Next, Qos!Modem
<1>5. ASSUME NEW len \in Lens, BurstCheck(len)
      PROVE  Sim
  <2>1. Qos(qm)!BurstCheck("f") \/ UNCHANGED Qos(TRUE)!vars
    BY <1>0, <1>5, BurstSim
  <2> QED
    BY <2>1, Zenon DEF Qos!Next
<1>6. ASSUME NEW sn \in Seq16, EndMarker(sn)
      PROVE  Sim
  <2>1. Abs(b') = Abs(b) /\ queue' = queue
    BY <1>0, <1>6 DEF EndMarker, Abs, Bearer
  <2> QED
    BY <2>1, AbsStutter
<1>7. CASE WatchdogExpire \/ WatchdogFn
  <2>1. CASE WatchdogExpire
    <3>1. Qos(qm)!WatchdogExpire("o")
      BY <1>0, <2>1, ExpireSim
    <3> QED
      BY <3>1, Zenon DEF Qos!Next, Qos!Watchdog
  <2>2. CASE WatchdogFn
    <3>1. Qos(qm)!WatchdogFn("o")
      BY <1>0, <2>2, WatchdogSim
    <3> QED
      BY <3>1, Zenon DEF Qos!Next, Qos!Watchdog
  <2> QED
    BY <1>7, <2>1, <2>2
<1>8. CASE EnableAllFlows
  BY <1>0, <1>8, EnableSim, Zenon DEF Qos!Next
<1>9. CASE \E k \in ScaleFactors : SetScaleFactor(k)
  BY <1>9, AbsStutter DEF SetScaleFactor
<1>10. CASE UNCHANGED vars
  BY <1>10, AbsStutter DEF vars
<1> QED
  <2>1. CASE \E num \in Grants, sn \in Seqs, req, rat \in BOOLEAN, bidir \in Flags :
               Indication(num, sn, req, rat, bidir)
    BY <1>1, <2>1, Zenon
  <2>2. CASE \E num \in Grants, rx \in RxBytes \cup {-1}, bidir \in Flags :
               QueryResponse(num, rx, bidir)
    BY <1>2, <2>2, Zenon
  <2>3. CASE \E num \in AllGrants, sn \in Seqs, req \in BOOLEAN, bidir \in Flags :
               AllBearerFlowCtl(num, sn, req, bidir)
    BY <1>3, <2>3, Zenon
  <2>4. CASE \E on \in BOOLEAN : TxLinkStatus(on)
    BY <1>4, <2>4, Zenon
  <2>5. CASE \E len \in Lens : BurstCheck(len)
    BY <1>5, <2>5, Zenon
  <2>6. CASE \E sn \in Seq16 : EndMarker(sn)
    BY <1>6, <2>6, Zenon
  <2> QED
    BY <1>7, <1>8, <1>9, <1>10, <2>1, <2>2, <2>3, <2>4, <2>5, <2>6 DEF Next

\* For any constants, every step of the byte counts, thresholds and sequence
\* numbers is a step of QosFlows on the bearer with its counts left out, with
\* the transport in use, or leaves that bearer alone: what QosFlows promises of
\* grants and queues holds of the arithmetic of dfc_qmi.c.
THEOREM RefinesQosFlows == Spec => AbstractStep
<1>1. GrantInv /\ [Next]_vars =>
        [IF dfc_qmap THEN Qos(TRUE)!Next ELSE Qos(FALSE)!Next]_(Qos(TRUE)!vars)
  BY NextSim
<1> QED
  BY <1>1, GrantInvHolds, PTL DEF Spec, AbstractStep

=============================================================================
