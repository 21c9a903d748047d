-------------------------- MODULE PowerSaveProofs --------------------------
(***************************************************************************)
(* Proofs about PowerSave for any packet contexts and bearers: the active  *)
(* bit is set exactly while one carrier will run check_stats (OneCarrier), *)
(* and grants are ignored in power save only and the freed work is not     *)
(* referred to (WorkSound).                                                *)
(*                                                                         *)
(* The inductive invariant has the types, what the teardown has already    *)
(* waited for at each of its steps (LifeOK), where check_stats may ignore  *)
(* grants (GrantsOK) and the carriers (CarriersOK).                        *)
(***************************************************************************)
EXTENDS PowerSave, FiniteSetTheorems, TLAPS

\* The steps of work_exit, each with what cannot happen any more after it
LifeOK ==
    /\ rpc = "up" => ~quit
    /\ rpc \in {"quit", "waited", "synced", "cancelled"} => quit
    /\ rpc = "none" => quit \/ \A c \in Contexts : cpc[c] # "restart"
    /\ rpc \in {"waited", "synced", "cancelled", "none"} =>
          /\ wpc \notin {"arm", "queue"}
          /\ \A c \in Contexts : cpc[c] # "queue"
    /\ rpc \in {"synced", "cancelled", "none"} => ~inited
    /\ rpc \in {"cancelled", "none"} => ~alarm /\ cpc[AlarmCb] = "idle"
    /\ rpc = "none" => ~pending /\ wpc = "idle" /\ ~active

\* check_stats has cleared ps_ignore_grant, or found it clear, where a request
\* to the modem may end power save
GrantsOK ==
    /\ IgnoreOnlyInPowerSave
    /\ wpc \in {"decide", "mode1", "mode0", "query"} => ~ps_ignore_grant
    /\ wpc = "ignore" => ps_enabled

\* OneCarrier without counting
CarriersOK ==
    rpc = "up" /\ ~late =>
        /\ active => \E x \in Carriers : Carriers = {x}
        /\ ~active => Carriers = {}

PsInv == TypeOK /\ LifeOK /\ GrantsOK /\ CarriersOK

-----------------------------------------------------------------------------
(* Types.                                                                  *)

LEMMA PsInitType == Init => TypeOK
BY DEF Init, TypeOK, WorkPc, ContextPc, Contexts

LEMMA PsNextType == TypeOK /\ [Next]_vars => TypeOK'
<1> SUFFICES ASSUME TypeOK, [Next]_vars PROVE TypeOK'
  OBVIOUS
<1> USE ContextAssumption DEF TypeOK, WorkPc, ContextPc, Contexts, qmi, sched,
        ctx, life, flows
<1>1. CASE Work
  <2>1. CASE CheckStats \/ Decide \/ IgnoreGrants \/ ClearActive
    BY <2>1 DEF CheckStats, Decide, IgnoreGrants, ClearActive
  <2>2. CASE EnableAllFlows
    BY <2>2 DEF EnableAllFlows
  <2>3. CASE \E ok \in BOOLEAN : EnterMode(ok) \/ LeaveMode(ok)
    BY <2>3 DEF EnterMode, LeaveMode
  <2>4. CASE \E gain, lose \in SUBSET Bearers : QueryFlows(gain, lose)
    BY <2>4 DEF QueryFlows
  <2>5. CASE EndLock \/ EndArm
    BY <2>5 DEF EndLock, EndArm
  <2> QED
    BY <1>1, <2>1, <2>2, <2>3, <2>4, <2>5 DEF Work
<1>2. CASE AlarmFire
  BY <1>2 DEF AlarmFire
<1>3. CASE \E c \in Packets, format \in BOOLEAN : Packet(c, format)
  BY <1>3 DEF Packet
<1>4. ASSUME NEW c \in Contexts, Restart(c) PROVE TypeOK'
  <2>1. After(c) \in {"idle", "count"} /\ After(AlarmCb) = "idle"
    BY DEF After
  <2>2. CASE MaybeRestart(c)
    BY <2>1, <2>2 DEF MaybeRestart
  <2>3. CASE RestartLock(c)
    BY <2>1, <2>3 DEF RestartLock
  <2>4. CASE RestartQueue(c)
    BY <2>1, <2>4 DEF RestartQueue
  <2>5. CASE Receive(c)
    BY <2>5 DEF Receive
  <2>6. CASE \E used : Transmit(c, used)
    BY <2>6 DEF Transmit
  <2> QED
    BY <1>4, <2>2, <2>3, <2>4, <2>5, <2>6 DEF Restart
<1>5. CASE Modem
  <2>1. CASE \E e \in BOOLEAN : AllBearers(e)
    BY <2>1 DEF AllBearers
  <2>2. CASE \E b \in Bearers, on \in BOOLEAN : TxLinkStatus(b, on)
    BY <2>2 DEF TxLinkStatus
  <2>3. ASSUME NEW b \in Bearers, NEW e \in BOOLEAN, NEW rat \in BOOLEAN,
               NEW dl \in BOOLEAN, Indication(b, e, rat, dl)
        PROVE  TypeOK'
    <3>1. Granted(b, e, rat) \subseteq Bearers
      BY DEF Granted
    <3>2. RatSwitch(b, e, rat) \subseteq Bearers
      BY DEF RatSwitch
    <3> QED
      BY <2>3, <3>1, <3>2 DEF Indication
  <2> QED
    BY <1>5, <2>1, <2>2, <2>3 DEF Modem
<1>6. CASE WorkInit \/ WorkExitQuit \/ WorkExitSync \/ WorkExitInited
           \/ WorkExitAlarm \/ WorkExitFree
  BY <1>6 DEF WorkInit, WorkExitQuit, WorkExitSync, WorkExitInited,
     WorkExitAlarm, WorkExitFree
<1>7. CASE UNCHANGED vars
  BY <1>7 DEF vars
<1> QED
  BY <1>1, <1>2, <1>3, <1>4, <1>5, <1>6, <1>7 DEF Next

-----------------------------------------------------------------------------
(* The teardown.                                                           *)

LEMMA PsNextLife == TypeOK /\ LifeOK /\ [Next]_vars => LifeOK'
<1> SUFFICES ASSUME TypeOK, LifeOK, [Next]_vars PROVE LifeOK'
  OBVIOUS
<1> USE ContextAssumption DEF TypeOK, LifeOK, Contexts, qmi, sched, ctx, life, flows
<1>1. CASE Work
  BY <1>1 DEF Work, CheckStats, Decide, IgnoreGrants, ClearActive,
     EnableAllFlows, EnterMode, LeaveMode, QueryFlows, EndLock, EndArm
<1>2. CASE AlarmFire
  BY <1>2 DEF AlarmFire
<1>3. CASE \E c \in Packets, format \in BOOLEAN : Packet(c, format)
  BY <1>3 DEF Packet
<1>4. CASE \E c \in Contexts : Restart(c)
  BY <1>4 DEF Restart, MaybeRestart, RestartLock, RestartQueue,
     Receive, Transmit, After
<1>5. CASE Modem
  BY <1>5 DEF Modem, Indication, AllBearers, TxLinkStatus, Granted, RatSwitch
<1>6. CASE WorkInit \/ WorkExitQuit
  BY <1>6 DEF WorkInit, WorkExitQuit
<1>7. CASE WorkExitSync \/ WorkExitInited \/ WorkExitAlarm \/ WorkExitFree
  BY <1>7 DEF WorkExitSync, WorkExitInited, WorkExitAlarm, WorkExitFree
<1>8. CASE UNCHANGED vars
  BY <1>8 DEF vars
<1> QED
  BY <1>1, <1>2, <1>3, <1>4, <1>5, <1>6, <1>7, <1>8 DEF Next

-----------------------------------------------------------------------------
(* Grants are ignored in power save only.                                  *)

LEMMA PsNextGrants == TypeOK /\ GrantsOK /\ [Next]_vars => GrantsOK'
<1> SUFFICES ASSUME TypeOK, GrantsOK, [Next]_vars PROVE GrantsOK'
  OBVIOUS
<1> USE DEF TypeOK, GrantsOK, IgnoreOnlyInPowerSave, qmi, sched, ctx, life, flows
<1>1. CASE Work
  BY <1>1 DEF Work, CheckStats, Decide, IgnoreGrants, ClearActive,
     EnableAllFlows, EnterMode, LeaveMode, QueryFlows, EndLock, EndArm
<1>2. CASE UNCHANGED <<ps_enabled, ps_ignore_grant, wpc>>
  BY <1>2
<1> QED
  BY <1>1, <1>2 DEF Next, Modem, AlarmFire, Packet, Restart, MaybeRestart,
     RestartLock, RestartQueue, Receive, Transmit, Indication, AllBearers,
     TxLinkStatus, WorkInit, WorkExitQuit, WorkExitSync, WorkExitInited,
     WorkExitAlarm, WorkExitFree, vars

-----------------------------------------------------------------------------
(* The carriers.  Every step leaves them alone, hands the duty from one to *)
(* another, or is one of the three that start and end it: a packet that    *)
(* finds the bit clear, work_init, and check_stats clearing the bit.       *)

Running == wpc \in WorkPc \ {"idle", "enable"}

LEMMA CarriersDef ==
    \A x : x \in Carriers <=>
        \/ \E c \in Contexts : cpc[c] \in {"restart", "queue"}
                               /\ x = <<"context", c>>
        \/ pending /\ x = <<"work", "queued">>
        \/ alarm /\ x = <<"alarm", "started">>
        \/ Running /\ x = <<"work", "running">>
BY DEF Carriers, Running

\* At most one carrier, in terms of the state
Alone ==
    /\ \A c, d \in Contexts :
          cpc[c] \in {"restart", "queue"} /\ cpc[d] \in {"restart", "queue"} => c = d
    /\ \A c \in Contexts :
          cpc[c] \in {"restart", "queue"} => ~pending /\ ~alarm /\ ~Running
    /\ ~(pending /\ alarm) /\ ~(pending /\ Running) /\ ~(alarm /\ Running)

Some ==
    \/ pending \/ alarm \/ Running
    \/ \E c \in Contexts : cpc[c] \in {"restart", "queue"}

LEMMA CarriersSingle == (\E x \in Carriers : Carriers = {x}) <=> Alone /\ Some
<1>1. ASSUME Alone, Some PROVE \E x \in Carriers : Carriers = {x}
  <2>1. PICK x : x \in Carriers
    BY <1>1, CarriersDef DEF Some
  <2>2. \A y \in Carriers : y = x
    BY <1>1, <2>1, CarriersDef DEF Alone
  <2> QED
    BY <2>1, <2>2
<1>2. ASSUME NEW x \in Carriers, Carriers = {x} PROVE Alone /\ Some
  <2>1. \A y, z \in Carriers : y = z
    BY <1>2
  <2>2. Some
    BY CarriersDef DEF Some
  <2>3. \A c \in Contexts : cpc[c] \in {"restart", "queue"} =>
            <<"context", c>> \in Carriers
    BY CarriersDef
  <2>4. /\ pending => <<"work", "queued">> \in Carriers
        /\ alarm => <<"alarm", "started">> \in Carriers
        /\ Running => <<"work", "running">> \in Carriers
    BY CarriersDef
  <2>5. \A c, d \in Contexts : <<"context", c>> = <<"context", d>> => c = d
    OBVIOUS
  <2>6. \A c \in Contexts : /\ <<"context", c>> # <<"work", "queued">>
                            /\ <<"context", c>> # <<"alarm", "started">>
                            /\ <<"context", c>> # <<"work", "running">>
    OBVIOUS
  <2>7. Alone
    BY <2>1, <2>3, <2>4, <2>5, <2>6 DEF Alone
  <2> QED
    BY <2>2, <2>7
<1> QED
  BY <1>1, <1>2

LEMMA CarriersNone == Carriers = {} <=> ~Some
BY CarriersDef DEF Some

\* CarriersOK in those terms
Duty == rpc = "up" /\ ~late => (active => Alone /\ Some) /\ (~active => ~Some)

LEMMA CarriersDuty == CarriersOK <=> Duty
BY CarriersSingle, CarriersNone DEF CarriersOK, Duty

LEMMA PsNextDuty == TypeOK /\ LifeOK /\ Duty /\ [Next]_vars => Duty'
<1> SUFFICES ASSUME TypeOK, LifeOK, Duty, [Next]_vars PROVE Duty'
  OBVIOUS
<1> USE ContextAssumption DEF TypeOK, Contexts, qmi, sched, ctx, life,
        flows, Running, WorkPc
<1>1. CASE Work
  <2> USE DEF Duty, Alone, Some, LifeOK
  <2>1. CASE CheckStats
    BY <2>1 DEF CheckStats
  <2>2. CASE Decide \/ IgnoreGrants
    BY <2>2 DEF Decide, IgnoreGrants
  <2>3. CASE ClearActive
    BY <2>3 DEF ClearActive
  <2>4. CASE EnableAllFlows
    BY <2>4 DEF EnableAllFlows
  <2>5. CASE \E ok \in BOOLEAN : EnterMode(ok) \/ LeaveMode(ok)
    BY <2>5 DEF EnterMode, LeaveMode
  <2>6. CASE \E gain, lose \in SUBSET Bearers : QueryFlows(gain, lose)
    BY <2>6 DEF QueryFlows
  <2>7. CASE EndLock
    BY <2>7 DEF EndLock
  <2>8. CASE EndArm
    BY <2>8 DEF EndArm
  <2> QED
    BY <1>1, <2>1, <2>2, <2>3, <2>4, <2>5, <2>6, <2>7, <2>8 DEF Work
<1>2. CASE AlarmFire
  BY <1>2 DEF AlarmFire, Duty, Alone, Some
<1>3. CASE \E c \in Packets, format \in BOOLEAN : Packet(c, format)
  BY <1>3 DEF Packet, Duty, Alone, Some
<1>4. ASSUME NEW c \in Contexts, Restart(c) PROVE Duty'
  <2> USE DEF Duty, Alone, Some, LifeOK
  <2>1. CASE MaybeRestart(c)
    BY <2>1 DEF MaybeRestart, After
  <2>2. CASE RestartLock(c)
    BY <2>2 DEF RestartLock, After
  <2>3. CASE RestartQueue(c)
    BY <2>3 DEF RestartQueue, After
  <2>4. CASE Receive(c) \/ \E used : Transmit(c, used)
    BY <2>4 DEF Receive, Transmit
  <2> QED
    BY <1>4, <2>1, <2>2, <2>3, <2>4 DEF Restart
<1>5. CASE Modem
  BY <1>5 DEF Modem, Indication, AllBearers, TxLinkStatus, Duty, Alone, Some
<1>6. CASE WorkInit
  BY <1>6 DEF WorkInit, Duty, Alone, Some, LifeOK
<1>7. CASE WorkExitQuit \/ WorkExitSync \/ WorkExitInited \/ WorkExitAlarm \/ WorkExitFree
  BY <1>7 DEF WorkExitQuit, WorkExitSync, WorkExitInited, WorkExitAlarm, WorkExitFree, Duty
<1>8. CASE UNCHANGED vars
  BY <1>8 DEF vars, Duty, Alone, Some
<1> QED
  BY <1>1, <1>2, <1>3, <1>4, <1>5, <1>6, <1>7, <1>8 DEF Next

-----------------------------------------------------------------------------
(* The theorems.                                                           *)

LEMMA PsInductive ==
    /\ Init => PsInv
    /\ PsInv /\ [Next]_vars => PsInv'
<1>1. Init => PsInv
  BY PsInitType DEF Init, PsInv, LifeOK, GrantsOK, CarriersOK,
     IgnoreOnlyInPowerSave, Contexts
<1>2. ASSUME PsInv, [Next]_vars PROVE PsInv'
  <2>1. Duty
    BY <1>2, CarriersDuty DEF PsInv
  <2>2. Duty'
    BY <1>2, <2>1, PsNextDuty DEF PsInv
  <2>3. CarriersOK'
    BY <2>2, CarriersDuty, PTL
  <2> QED
    BY <1>2, <2>3, PsNextType, PsNextLife, PsNextGrants DEF PsInv
<1> QED
  BY <1>1, <1>2

LEMMA PsInvHolds == Spec => []PsInv
BY PsInductive, PTL DEF Spec

\* For any number of packet contexts, through entering and leaving power save
\* and a teardown at any point: grants are not ignored outside power save, also
\* while requests to the modem fail, and after qmi_rmnet_work_exit freed the
\* work no alarm, queued work or context refers to it.
THEOREM WorkSoundSafe == Spec => []WorkSound
<1>1. PsInv => WorkSound
  BY DEF PsInv, WorkSound, LifeOK, GrantsOK, NothingAfterExit
<1> QED
  BY <1>1, PsInvHolds, PTL

\* For any number of packet contexts and bearers, while the work is set up and
\* no packet slept from the old work's teardown into it, PS_WORK_ACTIVE_BIT is
\* right: set, exactly one carrier will run check_stats; clear, none will, so
\* that the next packet's test_and_set_bit queues it.
THEOREM OneCarrierSafe == Spec => []OneCarrier
<1>1. PsInv => OneCarrier
  BY FS_EmptySet, FS_Singleton DEF PsInv, CarriersOK, OneCarrier, TypeOK
<1> QED
  BY <1>1, PsInvHolds, PTL

=============================================================================
