------------------------ MODULE TxAggregationProofs ------------------------
(***************************************************************************)
(* Proofs about TxAggregation for any number of senders, commanders and    *)
(* items: every item is in exactly one place (PacketsSound), what is sent  *)
(* on its own does not overtake the aggregate (NotOvertaken), and only the *)
(* stale hrtimer_cancel leaves an aggregate without cover.                 *)
(***************************************************************************)
EXTENDS TxAggregation, FiniteSetTheorems, TLAPS

Callers == Senders \cup Commanders

CtxRec == [pc : {"idle", "enter", "cancel", "xmit", "own", "skip"},
           own : SUBSET Items, hold : Seq(Items),
           next : {"idle", "enter", "own"}, older : SUBSET Items]

\* The types, with the shape of the records
Types ==
    /\ port \in [skb : Seq(Items), agg_count : Nat, in_progress : BOOLEAN]
    /\ port.agg_count = Len(port.skb)
    /\ \E n \in Counts \cup {1} : port.agg_count <= n
    /\ limit \in Counts
    /\ timer \in BOOLEAN /\ work \in BOOLEAN
    /\ ctx \in [Contexts -> CtxRec]
    /\ arrived \in [Callers -> Nat]
    /\ \A c \in Callers : arrived[c] <= MaxItems[c]
    /\ sent \subseteq Items /\ dropped \subseteq Items
    /\ life \in {"up", "notimer", "nowork", "down"}

\* What context c may have in its hands at each place of its handler: a caller
\* has its item until it is appended or sent; the work has none.
RecOK(c, r) ==
    /\ r \in CtxRec
    /\ r.hold # <<>> => r.pc \in {"cancel", "xmit"}
    /\ r.pc = "idle" => r.own = {}
    /\ c \in Callers =>
          /\ r.pc # "idle" => \E p \in Items : r.own = {p}
          /\ r.pc \in {"cancel", "xmit"} => r.next \in {"enter", "own"}
    /\ c = Flusher =>
          r.pc \in {"idle", "enter", "xmit"} /\ r.own = {} /\ r.next = "idle"

HandsOK == \A c \in Contexts : RecOK(c, ctx[c])

\* agg_state says whether there is an aggregate, and what the teardown has
\* already waited for at each of its steps
LifeOK ==
    /\ port.in_progress <=> port.skb # <<>>
    /\ life # "up" => ~timer /\ \A c \in Callers : ctx[c].pc = "idle"
    /\ life \in {"nowork", "down"} => ~work /\ ctx[Flusher].pc = "idle"
    /\ life = "down" => port.skb = <<>>

Arrived == {p \in Items : p[2] <= arrived[p[1]]}

\* ExactlyOnce without counting: an item that arrived is somewhere, no other
\* one is anywhere, and no two places have an item in common
Somewhere(p) ==
    \/ p \in Aggregated \/ p \in sent \/ p \in dropped
    \/ \E d \in Contexts : p \in Holds(d) \/ p \in ctx[d].own

OnePlace(p) ==
    /\ ~(p \in Aggregated /\ p \in sent) /\ ~(p \in Aggregated /\ p \in dropped)
    /\ ~(p \in sent /\ p \in dropped)
    /\ \A d \in Contexts :
          /\ p \in Holds(d) \/ p \in ctx[d].own =>
                p \notin Aggregated /\ p \notin sent /\ p \notin dropped
          /\ \A e \in Contexts :
                /\ ~(p \in Holds(d) /\ p \in ctx[e].own)
                /\ d # e => /\ ~(p \in Holds(d) /\ p \in Holds(e))
                            /\ ~(p \in ctx[d].own /\ p \in ctx[e].own)

PlacesOK == \A p \in Items : OnePlace(p) /\ (Somewhere(p) <=> p \in Arrived)

\* A context past the lock that will send its own item: the items that were in
\* the aggregate when it came are not there any more, and, being older, they
\* are nobody's own item
Committed(c) == \/ ctx[c].pc = "own"
                \/ ctx[c].pc \in {"cancel", "xmit"} /\ ctx[c].next = "own"

OrderOK ==
    \A c \in Contexts :
        /\ ctx[c].older \subseteq Arrived
        /\ \A d \in Contexts : ctx[c].older \cap ctx[d].own = {}
        /\ Committed(c) => ctx[c].older \cap Aggregated = {}

AggInv == Types /\ HandsOK /\ LifeOK /\ PlacesOK /\ OrderOK

-----------------------------------------------------------------------------
(* Items and buffers.                                                      *)

LEMMA ItemShape ==
    /\ \A c \in Callers : \A n \in 1 .. MaxItems[c] :
          <<c, n>> \in Items /\ <<c, n>>[1] = c /\ <<c, n>>[2] = n
    /\ \A p \in Items : /\ p[1] \in Callers /\ p[2] \in 1 .. MaxItems[p[1]]
                        /\ p = <<p[1], p[2]>>
BY DEF Items, Callers

LEMMA ContextShape ==
    /\ Contexts = Callers \cup {Flusher} /\ Flusher \notin Callers
    /\ \A c \in Callers : MaxItems[c] \in Nat
BY AggAssumption DEF Contexts, Callers

\* The items of a buffer
Content(s) == {s[i] : i \in 1 .. Len(s)}

LEMMA ContentEmpty == Content(<<>>) = {}
BY DEF Content

LEMMA ContentSome ==
    ASSUME NEW s \in Seq(Items)
    PROVE  Content(s) \subseteq Items /\ (s # <<>> => Content(s) # {})
BY DEF Content

LEMMA ContentAppend ==
    ASSUME NEW s \in Seq(Items), NEW p \in Items
    PROVE  /\ Content(Append(s, p)) = Content(s) \cup {p}
           /\ Append(s, p) \in Seq(Items) /\ Append(s, p) # <<>>
           /\ Len(Append(s, p)) = Len(s) + 1
BY DEF Content

LEMMA HandsContent ==
    /\ Aggregated = Content(port.skb)
    /\ \A c \in Contexts : Holds(c) = Content(ctx[c].hold)
BY DEF Aggregated, Holds, Content

-----------------------------------------------------------------------------
(* Types, hands and the teardown.                                          *)

Base == Types /\ HandsOK /\ LifeOK

LEMMA CountSmall ==
    ASSUME NEW k \in {0, 1}
    PROVE  \E n \in Counts \cup {1} : k <= n
<1>1. 1 \in Counts \cup {1} /\ k <= 1
  OBVIOUS
<1> QED
  BY <1>1

LEMMA EmptyShape ==
    /\ Empty \in [skb : Seq(Items), agg_count : Nat, in_progress : BOOLEAN]
    /\ Empty.agg_count = Len(Empty.skb)
    /\ \E n \in Counts \cup {1} : Empty.agg_count <= n
    /\ Empty.skb = <<>> /\ Empty.in_progress = FALSE
BY CountSmall DEF Empty

LEMMA IdleShape ==
    /\ IdleCtx \in CtxRec /\ IdleCtx.pc = "idle" /\ IdleCtx.own = {}
    /\ IdleCtx.hold = <<>> /\ IdleCtx.next = "idle" /\ IdleCtx.older = {}
    /\ \A c : RecOK(c, IdleCtx)
BY DEF IdleCtx, CtxRec, RecOK

LEMMA BaseInit == Init => Base
<1> SUFFICES ASSUME Init PROVE Base
  OBVIOUS
<1>1. Types
  <2>1. /\ port \in [skb : Seq(Items), agg_count : Nat, in_progress : BOOLEAN]
        /\ port.agg_count = Len(port.skb) /\ port.agg_count = 0
    BY DEF Init, Empty
  <2>2. \E n \in Counts \cup {1} : port.agg_count <= n
    BY <2>1, CountSmall
  <2>3. ctx \in [Contexts -> CtxRec]
    BY IdleShape DEF Init
  <2>4. arrived \in [Callers -> Nat] /\ \A c \in Callers : arrived[c] <= MaxItems[c]
    BY ContextShape DEF Init, Callers
  <2> QED
    BY <2>1, <2>2, <2>3, <2>4 DEF Init, Types
<1>2. HandsOK
  BY IdleShape DEF Init, HandsOK
<1>3. LifeOK
  BY ContextShape DEF Init, LifeOK, Empty
<1> QED
  BY <1>1, <1>2, <1>3 DEF Base

\* The record of context c is replaced by r, the others stay.
Becomes(c, r) ==
    /\ ctx' \in [Contexts -> CtxRec] /\ ctx'[c] = r
    /\ \A d \in Contexts : d # c => ctx'[d] = ctx[d]

LEMMA CtxUpdate ==
    ASSUME Types, NEW c \in Contexts
    PROVE  /\ \A r \in CtxRec : ctx' = [ctx EXCEPT ![c] = r] => Becomes(c, r)
           /\ \A pc \in {"enter", "xmit", "own", "skip"} :
                 ctx' = [ctx EXCEPT ![c].pc = pc] =>
                 Becomes(c, [ctx[c] EXCEPT !.pc = pc])
           /\ \A pc \in {"idle", "enter", "cancel", "own"} : \A s \in Seq(Items) :
              \A next \in {"idle", "enter", "own"} :
                 ctx' = [ctx EXCEPT ![c].pc = pc, ![c].hold = s, ![c].next = next] =>
                 Becomes(c, [ctx[c] EXCEPT !.pc = pc, !.hold = s, !.next = next])
<1>0. ctx \in [Contexts -> CtxRec] /\ ctx[c] \in CtxRec
  BY DEF Types
<1>1. \A r \in CtxRec : ctx' = [ctx EXCEPT ![c] = r] => Becomes(c, r)
  BY <1>0 DEF Becomes
<1>2. ASSUME NEW pc \in {"enter", "xmit", "own", "skip"},
             ctx' = [ctx EXCEPT ![c].pc = pc]
      PROVE  Becomes(c, [ctx[c] EXCEPT !.pc = pc])
  BY <1>0, <1>2 DEF Becomes, CtxRec
<1>3. ASSUME NEW pc \in {"idle", "enter", "cancel", "own"}, NEW s \in Seq(Items),
             NEW next \in {"idle", "enter", "own"},
             ctx' = [ctx EXCEPT ![c].pc = pc, ![c].hold = s, ![c].next = next]
      PROVE  Becomes(c, [ctx[c] EXCEPT !.pc = pc, !.hold = s, !.next = next])
  BY <1>0, <1>3 DEF Becomes, CtxRec
<1> QED
  BY <1>1, <1>2, <1>3

LEMMA HandsKept ==
    ASSUME HandsOK, NEW c \in Contexts, NEW r, RecOK(c, r), Becomes(c, r)
    PROVE  HandsOK'
BY DEF HandsOK, Becomes

\* The steps of a caller, by what they do to its record and to the port
LEMMA EnterBase ==
    ASSUME Base, NEW c \in Callers, Enter(c)
    PROVE  /\ Base'
           /\ \E r : /\ Becomes(c, r) /\ r.pc = "enter" /\ r.hold = <<>>
                     /\ r.own = {<<c, arrived[c] + 1>>} /\ r.older = Aggregated
<1> DEFINE p == <<c, arrived[c] + 1>>
           r == [IdleCtx EXCEPT !.pc = "enter", !.own = {p}, !.older = Aggregated]
<1>0. Types /\ HandsOK /\ LifeOK /\ c \in Contexts /\ c # Flusher
  BY ContextShape DEF Base
<1>1. /\ arrived[c] + 1 \in 1 .. MaxItems[c] /\ p \in Items
      /\ arrived' = [arrived EXCEPT ![c] = arrived[c] + 1]
      /\ ctx' = [ctx EXCEPT ![c] = r] /\ life = "up"
      /\ UNCHANGED <<port, limit, timer, work, sent, dropped, life>>
  <2>1. arrived[c] \in Nat /\ MaxItems[c] \in Nat /\ arrived[c] < MaxItems[c]
    BY <1>0, ContextShape DEF Enter, Types
  <2>2. arrived[c] + 1 \in 1 .. MaxItems[c]
    BY <2>1
  <2>3. p \in Items
    BY <2>2, ItemShape
  <2> QED
    BY <2>2, <2>3 DEF Enter
<1>2. Aggregated \subseteq Items
  BY <1>0, HandsContent, ContentSome DEF Types
<1>3. /\ r \in CtxRec /\ r.pc = "enter" /\ r.hold = <<>> /\ r.own = {p}
      /\ r.older = Aggregated
  <2> HIDE DEF p
  <2>1. {p} \in SUBSET Items
    BY <1>1
  <2> QED
    BY <1>2, <2>1, IdleShape DEF CtxRec
<1> HIDE DEF r, p
<1>4. Becomes(c, r)
  BY <1>0, <1>1, <1>3, CtxUpdate
<1>5. RecOK(c, r)
  BY <1>0, <1>1, <1>3 DEF RecOK
<1>6. HandsOK'
  BY <1>0, <1>4, <1>5, HandsKept
<1>7. Types'
  BY <1>0, <1>1, <1>4, ContextShape DEF Types, Becomes
<1>8. LifeOK'
  BY <1>0, <1>1, <1>4 DEF LifeOK, Becomes
<1> QED
  BY <1>3, <1>4, <1>6, <1>7, <1>8 DEF Base, p

\* AggSkip, SendAlone, and Priority and TxQmapCmd without an aggregate
LEMMA PassBase ==
    ASSUME Base, NEW c \in Callers, NEW pc \in {"own", "skip"},
           ctx[c].pc = "enter", ctx' = [ctx EXCEPT ![c].pc = pc],
           pc = "own" => port.skb = <<>>,
           UNCHANGED <<port, limit, timer, work, arrived, sent, dropped, life>>
    PROVE  Base' /\ Becomes(c, [ctx[c] EXCEPT !.pc = pc])
<1> DEFINE r == [ctx[c] EXCEPT !.pc = pc]
<1>0. Types /\ HandsOK /\ LifeOK /\ c \in Contexts /\ c # Flusher
  BY ContextShape DEF Base
<1>1. Becomes(c, r)
  BY <1>0, CtxUpdate
<1>2. ctx[c] \in CtxRec /\ RecOK(c, ctx[c])
  BY <1>0 DEF Types, HandsOK
<1>3. /\ r \in CtxRec /\ r.pc = pc /\ r.own = ctx[c].own /\ r.hold = ctx[c].hold
      /\ r.next = ctx[c].next
  BY <1>2 DEF CtxRec
<1> HIDE DEF r
<1>4. RecOK(c, r)
  BY <1>0, <1>2, <1>3 DEF RecOK
<1>5. HandsOK'
  BY <1>0, <1>1, <1>4, HandsKept
<1>6. Types'
  BY <1>0, <1>1 DEF Types, Becomes
<1>7. LifeOK'
  BY <1>0, <1>1 DEF LifeOK, Becomes
<1> QED
  BY <1>1, <1>5, <1>6, <1>7 DEF Base, r

LEMMA TakenBase ==
    ASSUME Base, NEW c \in Callers, NEW next \in {"enter", "own"},
           ctx[c].pc = "enter", Taken(c, next),
           UNCHANGED <<limit, timer, work, arrived, sent, dropped, life>>
    PROVE  /\ Base' /\ port' = Empty
           /\ Becomes(c, [ctx[c] EXCEPT !.pc = "cancel", !.hold = port.skb,
                                        !.next = next])
<1> DEFINE r == [ctx[c] EXCEPT !.pc = "cancel", !.hold = port.skb, !.next = next]
<1>0. Types /\ HandsOK /\ LifeOK /\ c \in Contexts /\ c # Flusher
  BY ContextShape DEF Base
<1>1. port' = Empty /\ Becomes(c, r)
  BY <1>0, CtxUpdate DEF Types, Taken
<1>2. ctx[c] \in CtxRec /\ RecOK(c, ctx[c])
  BY <1>0 DEF Types, HandsOK
<1>3. /\ r \in CtxRec /\ r.pc = "cancel" /\ r.own = ctx[c].own
      /\ r.hold = port.skb /\ r.next = next
  BY <1>0, <1>2 DEF CtxRec, Types
<1> HIDE DEF r
<1>4. RecOK(c, r)
  BY <1>0, <1>2, <1>3 DEF RecOK
<1>5. HandsOK'
  BY <1>0, <1>1, <1>4, HandsKept
<1>6. Types'
  BY <1>0, <1>1, EmptyShape DEF Types, Becomes
<1>7. LifeOK'
  BY <1>0, <1>1 DEF LifeOK, Becomes, Empty
<1> QED
  BY <1>1, <1>5, <1>6, <1>7 DEF Base, r

LEMMA AppendBase ==
    ASSUME Base, NEW c \in Callers, AppendPacket(c)
    PROVE  /\ Base' /\ Becomes(c, IdleCtx)
           /\ Aggregated' = Aggregated \cup ctx[c].own
           /\ timer' = (timer \/ port.skb = <<>>)
<1>0. Types /\ HandsOK /\ LifeOK /\ c \in Contexts /\ c # Flusher
  BY ContextShape DEF Base
<1>1. ctx[c] \in CtxRec /\ RecOK(c, ctx[c]) /\ ctx[c].pc = "enter"
  BY <1>0 DEF Types, HandsOK, AppendPacket
<1>2. PICK p \in Items : ctx[c].own = {p}
  BY <1>0, <1>1 DEF RecOK
<1> DEFINE s == Append(port.skb, p)
<1>3. /\ port' = [skb |-> s, agg_count |-> Len(s), in_progress |-> TRUE]
      /\ timer' = (timer \/ ~port.in_progress)
  BY <1>2 DEF AppendPacket, Scheduled
<1>4. Becomes(c, IdleCtx)
  BY <1>0, CtxUpdate, IdleShape DEF AppendPacket
<1>5. /\ s \in Seq(Items) /\ s # <<>> /\ Len(s) = Len(port.skb) + 1
      /\ Content(s) = Content(port.skb) \cup {p}
  BY <1>0, ContentAppend DEF Types
<1> HIDE DEF s
<1>6. Aggregated' = Aggregated \cup ctx[c].own
  <2>1. Aggregated' = Content(port'.skb)
    BY DEF Aggregated, Content
  <2> QED
    BY <1>2, <1>3, <1>5, <2>1, HandsContent
<1>7. HandsOK'
  BY <1>0, <1>4, IdleShape, HandsKept
<1>8. \E n \in Counts \cup {1} : Len(s) <= n
  <2>1. CASE port.skb = <<>>
    BY <1>5, <2>1, CountSmall
  <2>2. CASE port.skb # <<>>
    <3>1. Len(port.skb) < limit /\ limit \in Counts /\ limit \in Nat
      BY <1>0, <2>2, AggAssumption DEF AppendPacket, Types
    <3>2. Len(port.skb) \in Nat
      BY <1>0 DEF Types
    <3> QED
      BY <1>5, <3>1, <3>2
  <2> QED
    BY <2>1, <2>2
<1>9. Types'
  BY <1>0, <1>3, <1>4, <1>5, <1>8 DEF Types, Becomes, AppendPacket
<1>10. life = "up"
  BY <1>0, <1>1 DEF LifeOK
<1>11. LifeOK'
  BY <1>0, <1>3, <1>5, <1>10 DEF LifeOK, AppendPacket
<1> QED
  BY <1>0, <1>3, <1>4, <1>6, <1>7, <1>9, <1>11 DEF Base, LifeOK

\* hrtimer_cancel and the two transmissions
LEMMA CancelBase ==
    ASSUME Base, NEW c \in Contexts, CancelTimer(c)
    PROVE  /\ Base' /\ c \in Callers /\ ctx'[c].pc = "xmit"
           /\ Becomes(c, [ctx[c] EXCEPT !.pc = "xmit"])
<1> DEFINE r == [ctx[c] EXCEPT !.pc = "xmit"]
<1>0. Types /\ HandsOK /\ LifeOK
  BY DEF Base
<1>1. ctx[c] \in CtxRec /\ RecOK(c, ctx[c]) /\ ctx[c].pc = "cancel"
  BY <1>0 DEF Types, HandsOK, CancelTimer
<1>2. c \in Callers /\ c # Flusher
  BY <1>1, ContextShape DEF RecOK
<1>3. Becomes(c, r)
  BY <1>0, CtxUpdate DEF CancelTimer
<1>4. /\ r \in CtxRec /\ r.pc = "xmit" /\ r.own = ctx[c].own
      /\ r.hold = ctx[c].hold /\ r.next = ctx[c].next
  BY <1>1 DEF CtxRec
<1> HIDE DEF r
<1>5. RecOK(c, r)
  BY <1>1, <1>2, <1>4 DEF RecOK
<1>6. HandsOK'
  BY <1>0, <1>3, <1>5, HandsKept
<1>7. Types'
  BY <1>0, <1>3 DEF Types, Becomes, CancelTimer
<1>8. LifeOK'
  BY <1>0, <1>1, <1>2, <1>3, ContextShape DEF LifeOK, Becomes, CancelTimer
<1> QED
  BY <1>2, <1>3, <1>4, <1>6, <1>7, <1>8 DEF Base, Becomes, r

LEMMA XmitAggregateBase ==
    ASSUME Base, NEW c \in Contexts, XmitAggregate(c)
    PROVE  /\ Base'
           /\ Becomes(c, [ctx[c] EXCEPT !.pc = ctx[c].next, !.hold = <<>>,
                                        !.next = "idle"])
<1> DEFINE r == [ctx[c] EXCEPT !.pc = ctx[c].next, !.hold = <<>>, !.next = "idle"]
<1>0. Types /\ HandsOK /\ LifeOK
  BY DEF Base
<1>1. /\ ctx[c] \in CtxRec /\ RecOK(c, ctx[c]) /\ ctx[c].pc = "xmit"
      /\ Holds(c) \subseteq Items
  <2>1. ctx[c] \in CtxRec /\ RecOK(c, ctx[c]) /\ ctx[c].pc = "xmit"
    BY <1>0 DEF Types, HandsOK, XmitAggregate
  <2>2. ctx[c].hold \in Seq(Items)
    BY <2>1 DEF CtxRec
  <2> QED
    BY <2>1, <2>2, HandsContent, ContentSome
<1>2. Becomes(c, r)
  <2>1. ctx[c].next \in {"idle", "enter", "own"} /\ <<>> \in Seq(Items)
    BY <1>1 DEF CtxRec
  <2>2. ctx' = [ctx EXCEPT ![c].pc = ctx[c].next, ![c].hold = <<>>,
                           ![c].next = "idle"]
    BY DEF XmitAggregate
  <2> QED
    BY <1>0, <2>1, <2>2, CtxUpdate
<1>3. /\ r \in CtxRec /\ r.pc = ctx[c].next /\ r.own = ctx[c].own
      /\ r.hold = <<>> /\ r.next = "idle"
  <2>1. ctx[c].next \in {"idle", "enter", "own"}
    BY <1>1 DEF CtxRec
  <2>0. <<>> \in Seq(Items)
    OBVIOUS
  <2>2. PICK s \in Seq(Items) : s = <<>>
    BY <2>0, Zenon
  <2>3. PICK n \in {"idle", "enter", "own"} : n = ctx[c].next
    BY <2>1
  <2>4. r = [ctx[c] EXCEPT !.pc = n, !.hold = s, !.next = "idle"]
    BY <2>2, <2>3
  <2> HIDE DEF r
  <2>5. r \in CtxRec /\ r.pc = n /\ r.own = ctx[c].own /\ r.hold = s /\ r.next = "idle"
    BY <1>1, <2>4 DEF CtxRec
  <2> QED
    BY <2>2, <2>3, <2>5
<1> HIDE DEF r
<1>4. RecOK(c, r)
  BY <1>1, <1>3, ContextShape DEF RecOK
<1>5. HandsOK'
  BY <1>0, <1>2, <1>4, HandsKept
<1>6. Types'
  BY <1>0, <1>1, <1>2 DEF Types, Becomes, XmitAggregate
<1>7. life # "up" => c = Flusher
  BY <1>0, <1>1, ContextShape DEF LifeOK
<1>8. life \in {"nowork", "down"} => FALSE
  BY <1>0, <1>1, <1>7 DEF LifeOK
<1>9. LifeOK'
  BY <1>0, <1>2, <1>7, <1>8, ContextShape DEF LifeOK, Becomes, XmitAggregate
<1> QED
  BY <1>2, <1>5, <1>6, <1>9 DEF Base, r

LEMMA XmitOwnBase ==
    ASSUME Base, NEW c \in Contexts, XmitOwn(c)
    PROVE  Base' /\ Becomes(c, IdleCtx) /\ c \in Callers
<1>0. Types /\ HandsOK /\ LifeOK
  BY DEF Base
<1>1. /\ ctx[c] \in CtxRec /\ RecOK(c, ctx[c]) /\ ctx[c].pc \in {"own", "skip"}
      /\ ctx[c].own \subseteq Items
  BY <1>0 DEF Types, HandsOK, XmitOwn, CtxRec
<1>2. c \in Callers /\ c # Flusher
  BY <1>1, ContextShape DEF RecOK
<1>3. Becomes(c, IdleCtx)
  BY <1>0, CtxUpdate, IdleShape DEF XmitOwn
<1>4. HandsOK'
  BY <1>0, <1>3, IdleShape, HandsKept
<1>5. Types'
  BY <1>0, <1>1, <1>3 DEF Types, Becomes, XmitOwn
<1>6. LifeOK'
  BY <1>0, <1>2, <1>3, IdleShape, ContextShape DEF LifeOK, Becomes, XmitOwn
<1> QED
  BY <1>2, <1>3, <1>4, <1>5, <1>6 DEF Base

\* The work item: it is started, and takes what there is
LEMMA FlushStartBase ==
    ASSUME Base, FlushWorkStart
    PROVE  Base' /\ Becomes(Flusher, [ctx[Flusher] EXCEPT !.pc = "enter"])
<1> DEFINE r == [ctx[Flusher] EXCEPT !.pc = "enter"]
<1>0. Types /\ HandsOK /\ LifeOK /\ Flusher \in Contexts /\ Flusher \notin Callers
  BY ContextShape DEF Base
<1>1. /\ ctx[Flusher] \in CtxRec /\ RecOK(Flusher, ctx[Flusher])
      /\ ctx[Flusher].pc = "idle"
  BY <1>0 DEF Types, HandsOK, FlushWorkStart
<1>2. Becomes(Flusher, r)
  BY <1>0, CtxUpdate DEF FlushWorkStart
<1>3. /\ r \in CtxRec /\ r.pc = "enter" /\ r.own = ctx[Flusher].own
      /\ r.hold = ctx[Flusher].hold /\ r.next = ctx[Flusher].next
  BY <1>1 DEF CtxRec
<1> HIDE DEF r
<1>4. RecOK(Flusher, r)
  BY <1>0, <1>1, <1>3 DEF RecOK
<1>5. HandsOK'
  BY <1>0, <1>2, <1>4, HandsKept
<1>6. Types'
  BY <1>0, <1>2 DEF Types, Becomes, FlushWorkStart
<1>7. life \in {"nowork", "down"} => FALSE
  BY <1>0 DEF LifeOK, FlushWorkStart
<1>8. LifeOK'
  BY <1>0, <1>2, <1>7, ContextShape DEF LifeOK, Becomes, FlushWorkStart
<1> QED
  BY <1>2, <1>5, <1>6, <1>8 DEF Base, r

LEMMA FlushBase ==
    ASSUME Base, FlushWork
    PROVE  /\ Base'
           /\ \/ port' = port /\ port.skb = <<>> /\ Becomes(Flusher, IdleCtx)
              \/ /\ port' = Empty
                 /\ \E r : /\ Becomes(Flusher, r) /\ r.hold = port.skb
                           /\ r.own = {} /\ r.older = {}
                           /\ r.pc = "xmit" /\ r.next = "idle"
<1> DEFINE q == [IdleCtx EXCEPT !.pc = "xmit", !.hold = port.skb]
<1>0. Types /\ HandsOK /\ LifeOK /\ Flusher \in Contexts /\ Flusher \notin Callers
  BY ContextShape DEF Base
<1>1. ctx[Flusher].pc = "enter" /\ (port.in_progress <=> port.skb # <<>>)
  BY <1>0 DEF FlushWork, LifeOK
<1>2. life \in {"nowork", "down"} => FALSE
  BY <1>0, <1>1 DEF LifeOK
<1>3. CASE port.skb = <<>>
  <2>1. port' = port /\ Becomes(Flusher, IdleCtx)
    BY <1>0, <1>1, <1>3, CtxUpdate, IdleShape DEF FlushWork
  <2>2. HandsOK'
    BY <1>0, <2>1, IdleShape, HandsKept
  <2>3. Types'
    BY <1>0, <2>1 DEF Types, Becomes, FlushWork
  <2>4. LifeOK'
    BY <1>0, <1>2, <2>1, ContextShape DEF LifeOK, Becomes, FlushWork
  <2> QED
    BY <1>3, <2>1, <2>2, <2>3, <2>4 DEF Base
<1>4. CASE port.skb # <<>>
  <2>1. /\ q \in CtxRec /\ q.pc = "xmit" /\ q.hold = port.skb /\ q.own = {}
        /\ q.next = "idle" /\ q.older = {}
    BY <1>0, IdleShape DEF CtxRec, Types
  <2>2. ctx' = [ctx EXCEPT ![Flusher] = q] /\ port' = Empty
    BY <1>1, <1>4 DEF FlushWork
  <2> HIDE DEF q
  <2>3. Becomes(Flusher, q)
    BY <1>0, <2>1, <2>2, CtxUpdate
  <2>4. RecOK(Flusher, q)
    BY <1>0, <2>1 DEF RecOK
  <2>5. HandsOK'
    BY <1>0, <2>3, <2>4, HandsKept
  <2>6. Types'
    BY <1>0, <2>2, <2>3, EmptyShape DEF Types, Becomes, FlushWork
  <2>7. LifeOK'
    BY <1>0, <1>2, <2>2, <2>3, EmptyShape, ContextShape
       DEF LifeOK, Becomes, FlushWork
  <2> QED
    BY <2>1, <2>2, <2>3, <2>5, <2>6, <2>7 DEF Base
<1> QED
  BY <1>3, <1>4

\* Timer, configuration, and the steps of exit and init
LEMMA PortBase ==
    ASSUME Base,
           \/ FlushTxPacketQueue \/ Exit
           \/ \E n \in Counts : UpdateUlAggConfig(n) \/ AggregateInit(n)
    PROVE  Base' /\ ctx' = ctx
<1>0. Types /\ HandsOK /\ LifeOK /\ Aggregated \subseteq Items
  BY HandsContent, ContentSome DEF Base, Types
<1>1. ctx' = ctx
  BY DEF FlushTxPacketQueue, Exit, ExitTimer, ExitWork, ExitFree,
     UpdateUlAggConfig, AggregateInit
<1>2. HandsOK'
  BY <1>0, <1>1 DEF HandsOK
<1>3. Types'
  BY <1>0, EmptyShape DEF Types, FlushTxPacketQueue, Exit, ExitTimer, ExitWork,
     ExitFree, UpdateUlAggConfig, AggregateInit
<1>4. LifeOK'
  BY <1>0, EmptyShape, ContextShape DEF LifeOK, FlushTxPacketQueue, Exit, ExitTimer,
     ExitWork, ExitFree, UpdateUlAggConfig, AggregateInit, Callers
<1> QED
  BY <1>1, <1>2, <1>3, <1>4 DEF Base

-----------------------------------------------------------------------------
(* Where the items are.  A step leaves them where they are, or moves those *)
(* of one place to another.                                                *)

\* The hands of all contexts but c stay as they are
OthersKeep(c) ==
    \A d \in Contexts :
        d # c => Holds(d)' = Holds(d) /\ ctx'[d].own = ctx[d].own

LEMMA HandsStep ==
    ASSUME NEW c \in Contexts, NEW r, Becomes(c, r)
    PROVE  /\ OthersKeep(c)
           /\ Holds(c)' = Content(r.hold) /\ ctx'[c].own = r.own
           /\ ctx'[c].older = r.older
           /\ \A d \in Contexts : d # c => ctx'[d] = ctx[d]
<1>1. \A d \in Contexts : Holds(d)' = Content(ctx'[d].hold)
  BY DEF Holds, Content
<1>2. \A d \in Contexts : d # c => Holds(d)' = Holds(d)
  BY <1>1, HandsContent DEF Becomes
<1> QED
  BY <1>1, <1>2 DEF Becomes, OthersKeep

LEMMA PlacesStay ==
    ASSUME PlacesOK, NEW c \in Contexts, OthersKeep(c),
           Holds(c)' = Holds(c), ctx'[c].own = ctx[c].own,
           Aggregated' = Aggregated, UNCHANGED <<arrived, sent, dropped>>
    PROVE  PlacesOK'
<1>1. \A d \in Contexts : Holds(d)' = Holds(d) /\ ctx'[d].own = ctx[d].own
  BY DEF OthersKeep
<1> QED
  BY <1>1 DEF PlacesOK, OnePlace, Somewhere, Arrived

\* An item arrives
LEMMA PlacesEnter ==
    ASSUME Base, PlacesOK, NEW c \in Callers, OthersKeep(c), ctx[c].own = {},
           Holds(c)' = Holds(c), ctx'[c].own = {<<c, arrived[c] + 1>>},
           arrived[c] + 1 \in 1 .. MaxItems[c],
           arrived' = [arrived EXCEPT ![c] = arrived[c] + 1],
           Aggregated' = Aggregated, UNCHANGED <<sent, dropped>>
    PROVE  /\ PlacesOK'
           /\ Arrived' = Arrived \cup {<<c, arrived[c] + 1>>}
           /\ <<c, arrived[c] + 1>> \notin Arrived
<1> DEFINE q == <<c, arrived[c] + 1>>
<1>0. c \in Contexts /\ arrived \in [Callers -> Nat]
  BY ContextShape DEF Base, Types
<1>1. q \in Items /\ q[1] = c /\ q[2] = arrived[c] + 1
  BY ItemShape
<1>2. /\ q \notin Arrived
      /\ \A p \in Items : p \in Arrived' <=> p \in Arrived \/ p = q
  <2>1. \A p \in Items : /\ p[1] \in Callers /\ p[2] \in Nat /\ arrived[p[1]] \in Nat
                         /\ p = <<p[1], p[2]>>
    BY <1>0, ItemShape, ContextShape
  <2>2. q \notin Arrived
    BY <1>0, <1>1 DEF Arrived
  <2>3. ASSUME NEW p \in Items PROVE p \in Arrived' <=> p \in Arrived \/ p = q
    <3>1. CASE p[1] # c
      BY <1>0, <1>1, <2>1, <3>1 DEF Arrived
    <3>2. CASE p[1] = c
      <4>1. p = q <=> p[2] = arrived[c] + 1
        BY <1>1, <2>1, <3>2
      <4>2. arrived'[c] = arrived[c] + 1
        BY <1>0
      <4>3. p \in Arrived' <=> p[2] <= arrived[c] + 1
        BY <3>2, <4>2 DEF Arrived
      <4>4. p \in Arrived <=> p[2] <= arrived[c]
        BY <3>2 DEF Arrived
      <4> HIDE DEF q
      <4> QED
        BY <1>0, <2>1, <4>1, <4>3, <4>4
    <3> QED
      BY <3>1, <3>2
  <2> QED
    BY <2>2, <2>3
<1>3. \A d \in Contexts : Holds(d)' = Holds(d)
  BY DEF OthersKeep
<1>4. ctx'[c].own = {q} /\ \A d \in Contexts : d # c => ctx'[d].own = ctx[d].own
  BY DEF OthersKeep
<1> HIDE DEF q
<1>5. ASSUME NEW p \in Items
      PROVE  OnePlace(p)' /\ (Somewhere(p)' <=> p \in Arrived')
  <2>1. OnePlace(p) /\ (Somewhere(p) <=> p \in Arrived)
    BY DEF PlacesOK
  <2>2. CASE p = q
    <3>1. ~Somewhere(p)
      BY <1>2, <2>1, <2>2
    <3>2. \A d \in Contexts : p \notin Holds(d) /\ (d # c => p \notin ctx[d].own)
      BY <3>1 DEF Somewhere
    <3>3. p \notin Aggregated /\ p \notin sent /\ p \notin dropped
      BY <3>1 DEF Somewhere
    <3>4. OnePlace(p)'
      BY <1>0, <1>3, <1>4, <2>2, <3>2, <3>3 DEF OnePlace
    <3>5. Somewhere(p)'
      BY <1>0, <1>4, <2>2 DEF Somewhere
    <3> QED
      BY <1>2, <2>2, <3>4, <3>5
  <2>3. CASE p # q
    <3>1. \A d \in Contexts : p \in ctx'[d].own <=> p \in ctx[d].own
      BY <1>4, <2>3
    <3> QED
      BY <1>2, <1>3, <2>1, <2>3, <3>1 DEF OnePlace, Somewhere
  <2> QED
    BY <2>2, <2>3
<1>6. Arrived \subseteq Items /\ Arrived' \subseteq Items
  BY DEF Arrived
<1> QED
  BY <1>1, <1>2, <1>5, <1>6 DEF PlacesOK, q

\* The aggregate is taken out by context c
LEMMA PlacesTake ==
    ASSUME PlacesOK, NEW c \in Contexts, OthersKeep(c), Holds(c) = {},
           Holds(c)' = Aggregated, ctx'[c].own = ctx[c].own,
           Aggregated' = {}, UNCHANGED <<arrived, sent, dropped>>
    PROVE  PlacesOK'
<1>1. ASSUME NEW p \in Items
      PROVE  OnePlace(p)' /\ (Somewhere(p)' <=> p \in Arrived')
  <2>1. OnePlace(p) /\ (Somewhere(p) <=> p \in Arrived)
    BY DEF PlacesOK
  <2>2. \A d \in Contexts : ctx'[d].own = ctx[d].own
    BY DEF OthersKeep
  <2>3. \A d \in Contexts : p \in Holds(d)' <=> p \in Holds(d) \/ (d = c /\ p \in Aggregated)
    BY DEF OthersKeep
  <2>4. OnePlace(p)'
    BY <2>1, <2>2, <2>3 DEF OnePlace
  <2>5. Somewhere(p)' <=> Somewhere(p)
    BY <2>2, <2>3 DEF Somewhere
  <2> QED
    BY <2>1, <2>4, <2>5 DEF Arrived
<1> QED
  BY <1>1 DEF PlacesOK

\* The item of context c goes into the aggregate
LEMMA PlacesAppend ==
    ASSUME PlacesOK, NEW c \in Contexts, OthersKeep(c),
           Holds(c)' = Holds(c), ctx'[c].own = {},
           Aggregated' = Aggregated \cup ctx[c].own,
           UNCHANGED <<arrived, sent, dropped>>
    PROVE  PlacesOK'
<1>1. ASSUME NEW p \in Items
      PROVE  OnePlace(p)' /\ (Somewhere(p)' <=> p \in Arrived')
  <2>1. OnePlace(p) /\ (Somewhere(p) <=> p \in Arrived)
    BY DEF PlacesOK
  <2>2. \A d \in Contexts : Holds(d)' = Holds(d)
    BY DEF OthersKeep
  <2>3. \A d \in Contexts : p \in ctx'[d].own <=> d # c /\ p \in ctx[d].own
    BY DEF OthersKeep
  <2>4. OnePlace(p)'
    BY <2>1, <2>2, <2>3 DEF OnePlace
  <2>5. Somewhere(p)' <=> Somewhere(p)
    BY <2>2, <2>3 DEF Somewhere
  <2> QED
    BY <2>1, <2>4, <2>5 DEF Arrived
<1> QED
  BY <1>1 DEF PlacesOK

\* Context c sends the buffer, or its item
LEMMA PlacesXmit ==
    ASSUME PlacesOK, NEW c \in Contexts, OthersKeep(c),
           \/ /\ Holds(c)' = {} /\ ctx'[c].own = ctx[c].own
              /\ sent' = sent \cup Holds(c)
           \/ /\ Holds(c)' = Holds(c) /\ ctx'[c].own = {}
              /\ sent' = sent \cup ctx[c].own,
           Aggregated' = Aggregated, UNCHANGED <<arrived, dropped>>
    PROVE  PlacesOK'
<1>1. ASSUME NEW p \in Items
      PROVE  OnePlace(p)' /\ (Somewhere(p)' <=> p \in Arrived')
  <2>1. OnePlace(p) /\ (Somewhere(p) <=> p \in Arrived)
    BY DEF PlacesOK
  <2>2. OnePlace(p)' /\ (Somewhere(p)' <=> Somewhere(p))
    <3>1. CASE /\ Holds(c)' = {} /\ ctx'[c].own = ctx[c].own
               /\ sent' = sent \cup Holds(c)
      <4>1. \A d \in Contexts : ctx'[d].own = ctx[d].own
        BY <3>1 DEF OthersKeep
      <4>2. \A d \in Contexts : p \in Holds(d)' <=> d # c /\ p \in Holds(d)
        BY <3>1 DEF OthersKeep
      <4> QED
        BY <2>1, <3>1, <4>1, <4>2 DEF OnePlace, Somewhere
    <3>2. CASE /\ Holds(c)' = Holds(c) /\ ctx'[c].own = {}
               /\ sent' = sent \cup ctx[c].own
      <4>1. \A d \in Contexts : Holds(d)' = Holds(d)
        BY <3>2 DEF OthersKeep
      <4>2. \A d \in Contexts : p \in ctx'[d].own <=> d # c /\ p \in ctx[d].own
        BY <3>2 DEF OthersKeep
      <4> QED
        BY <2>1, <3>2, <4>1, <4>2 DEF OnePlace, Somewhere
    <3> QED
      BY <3>1, <3>2
  <2> QED
    BY <2>1, <2>2 DEF Arrived
<1> QED
  BY <1>1 DEF PlacesOK

\* Exit frees the aggregate
LEMMA PlacesFree ==
    ASSUME PlacesOK, ctx' = ctx, Aggregated' = {},
           dropped' = dropped \cup Aggregated, UNCHANGED <<arrived, sent>>
    PROVE  PlacesOK'
<1>1. \A d \in Contexts : Holds(d)' = Holds(d)
  BY DEF Holds
<1> QED
  BY <1>1 DEF PlacesOK, OnePlace, Somewhere, Arrived

-----------------------------------------------------------------------------
(* Order.                                                                  *)

CommittedRec(r) == r.pc = "own" \/ (r.pc \in {"cancel", "xmit"} /\ r.next = "own")

\* A step in which no context gets an item, and what comes into the aggregate
\* was somebody's item
LEMMA OrderStep ==
    ASSUME OrderOK, NEW c \in Contexts, NEW r, Becomes(c, r),
           arrived' = arrived, r.own \subseteq ctx[c].own,
           r.older \subseteq ctx[c].older,
           Aggregated' \subseteq Aggregated \cup ctx[c].own,
           CommittedRec(r) => Committed(c) \/ Aggregated' = {},
           CommittedRec(r) => Aggregated' \subseteq Aggregated
    PROVE  OrderOK'
<1>1. Arrived' = Arrived
  BY DEF Arrived
<1>2. ctx'[c] = r /\ \A d \in Contexts : d # c => ctx'[d] = ctx[d]
  BY DEF Becomes
<1>3. ASSUME NEW d \in Contexts
      PROVE  /\ ctx'[d].older \subseteq Arrived'
             /\ \A e \in Contexts : ctx'[d].older \cap ctx'[e].own = {}
             /\ Committed(d)' => ctx'[d].older \cap Aggregated' = {}
  <2>1. /\ ctx[d].older \subseteq Arrived
        /\ \A e \in Contexts : ctx[d].older \cap ctx[e].own = {}
        /\ Committed(d) => ctx[d].older \cap Aggregated = {}
    BY DEF OrderOK
  <2>2. ctx'[d].older \subseteq ctx[d].older
    BY <1>2
  <2>3. \A e \in Contexts : ctx'[e].own \subseteq ctx[e].own
    BY <1>2
  <2>4. CASE d = c
    <3>1. Committed(d)' <=> CommittedRec(r)
      BY <1>2, <2>4 DEF Committed, CommittedRec
    <3> QED
      BY <1>1, <2>1, <2>2, <2>3, <2>4, <3>1
  <2>5. CASE d # c
    <3>1. Committed(d)' <=> Committed(d)
      BY <1>2, <2>5 DEF Committed
    <3> QED
      BY <1>1, <2>1, <2>2, <2>3, <3>1
  <2> QED
    BY <2>4, <2>5
<1> QED
  BY <1>3 DEF OrderOK

LEMMA OrderEnter ==
    ASSUME OrderOK, PlacesOK, NEW c \in Contexts, NEW r, NEW q, Becomes(c, r),
           r.pc = "enter", r.own = {q}, r.older = Aggregated,
           Aggregated \subseteq Items, q \notin Arrived,
           Arrived' = Arrived \cup {q}, Aggregated' = Aggregated
    PROVE  OrderOK'
<1>1. ctx'[c] = r /\ \A d \in Contexts : d # c => ctx'[d] = ctx[d]
  BY DEF Becomes
<1>2. /\ Aggregated \subseteq Arrived
      /\ \A d \in Contexts : Aggregated \cap ctx[d].own = {}
  BY DEF PlacesOK, Somewhere, OnePlace
<1>3. ASSUME NEW d \in Contexts
      PROVE  /\ ctx'[d].older \subseteq Arrived'
             /\ \A e \in Contexts : ctx'[d].older \cap ctx'[e].own = {}
             /\ Committed(d)' => ctx'[d].older \cap Aggregated' = {}
  <2>1. /\ ctx[d].older \subseteq Arrived
        /\ \A e \in Contexts : ctx[d].older \cap ctx[e].own = {}
        /\ Committed(d) => ctx[d].older \cap Aggregated = {}
    BY DEF OrderOK
  <2>2. /\ ctx'[d].older \subseteq Arrived
        /\ \A e \in Contexts : ctx'[d].older \cap ctx[e].own = {}
    BY <1>1, <1>2, <2>1
  <2>3. \A e \in Contexts : ctx'[e].own \subseteq ctx[e].own \cup {q}
    BY <1>1
  <2>4. Committed(d)' => d # c /\ Committed(d)
    BY <1>1 DEF Committed
  <2> QED
    BY <1>1, <2>1, <2>2, <2>3, <2>4
<1> QED
  BY <1>3 DEF OrderOK

-----------------------------------------------------------------------------
(* Every step keeps the invariant.                                         *)

LEMMA AggregatedSkb ==
    /\ Aggregated' = Content(port'.skb)
    /\ port' = port => Aggregated' = Aggregated
    /\ port' = Empty => Aggregated' = {}
    /\ port.skb = <<>> => Aggregated = {}
    /\ Base => Aggregated \subseteq Items
<1>1. Aggregated' = Content(port'.skb)
  BY DEF Aggregated, Content
<1>2. port' = Empty => Aggregated' = {}
  BY <1>1, EmptyShape, ContentEmpty
<1>3. Base => Aggregated \subseteq Items
  BY HandsContent, ContentSome DEF Base, Types
<1> QED
  BY <1>1, <1>2, <1>3, HandsContent, ContentEmpty

LEMMA RecFacts ==
    ASSUME Base, NEW c \in Contexts
    PROVE  /\ ctx[c] \in CtxRec /\ RecOK(c, ctx[c])
           /\ ctx[c].pc \notin {"cancel", "xmit"} =>
                 ctx[c].hold = <<>> /\ Holds(c) = {}
BY HandsContent, ContentEmpty DEF Base, Types, HandsOK, RecOK

LEMMA EnterInv ==
    ASSUME AggInv, NEW c \in Callers, Enter(c)
    PROVE  AggInv'
<1> DEFINE q == <<c, arrived[c] + 1>>
<1>0. Base /\ PlacesOK /\ OrderOK /\ c \in Contexts
  BY ContextShape DEF AggInv, Base
<1>1. PICK r : /\ Becomes(c, r) /\ r.pc = "enter" /\ r.hold = <<>>
               /\ r.own = {q} /\ r.older = Aggregated
  BY <1>0, EnterBase
<1>2. Base'
  BY <1>0, EnterBase
<1>3. /\ ctx[c].own = {} /\ Holds(c) = {}
      /\ arrived[c] + 1 \in 1 .. MaxItems[c]
      /\ arrived' = [arrived EXCEPT ![c] = arrived[c] + 1]
      /\ Aggregated' = Aggregated /\ UNCHANGED <<sent, dropped>>
  <2>1. arrived[c] \in Nat /\ MaxItems[c] \in Nat /\ arrived[c] < MaxItems[c]
    BY <1>0, ContextShape DEF Enter, Base, Types
  <2>2. arrived[c] + 1 \in 1 .. MaxItems[c]
    BY <2>1
  <2> QED
    BY <1>0, <2>2, RecFacts, AggregatedSkb DEF Enter, RecOK
<1>4. /\ OthersKeep(c) /\ Holds(c)' = Content(<<>>) /\ ctx'[c].own = {q}
  BY <1>0, <1>1, HandsStep
<1>5. Holds(c)' = Holds(c)
  BY <1>3, <1>4, ContentEmpty
<1>6. PlacesOK' /\ Arrived' = Arrived \cup {q} /\ q \notin Arrived
  BY <1>0, <1>3, <1>4, <1>5, PlacesEnter
<1>7. OrderOK'
  <2> HIDE DEF q
  <2> QED
    BY <1>0, <1>1, <1>3, <1>6, AggregatedSkb, OrderEnter
<1> QED
  BY <1>2, <1>6, <1>7 DEF AggInv, Base

\* A step that changes neither hands nor the aggregate's items, but for the
\* place in the handler
LEMMA StayInv ==
    ASSUME AggInv, Base', NEW c \in Contexts,
           NEW pc \in {"enter", "xmit", "own", "skip"},
           Becomes(c, [ctx[c] EXCEPT !.pc = pc]),
           pc = "own" => port.skb = <<>>, pc = "xmit" => ctx[c].pc = "cancel",
           Aggregated' = Aggregated, UNCHANGED <<arrived, sent, dropped>>
    PROVE  AggInv'
<1> DEFINE r == [ctx[c] EXCEPT !.pc = pc]
<1>0. Base /\ PlacesOK /\ OrderOK
  BY DEF AggInv, Base
<1>1. /\ r.pc = pc /\ r.own = ctx[c].own /\ r.hold = ctx[c].hold
      /\ r.next = ctx[c].next /\ r.older = ctx[c].older
  BY <1>0, RecFacts DEF CtxRec
<1>2. Becomes(c, r)
  OBVIOUS
<1> HIDE DEF r
<1>3. OthersKeep(c) /\ Holds(c)' = Holds(c) /\ ctx'[c].own = ctx[c].own
  BY <1>1, <1>2, HandsStep, HandsContent
<1>4. PlacesOK'
  BY <1>0, <1>3, PlacesStay
<1>5. CommittedRec(r) => Committed(c) \/ Aggregated' = {}
  BY <1>1, AggregatedSkb DEF CommittedRec, Committed
<1>6. OrderOK'
  BY <1>0, <1>1, <1>2, <1>5, OrderStep
<1> QED
  BY <1>4, <1>6 DEF AggInv, Base

\* Context c takes the aggregate out
LEMMA TakeInv ==
    ASSUME AggInv, Base', NEW c \in Contexts, NEW r, Becomes(c, r),
           ctx[c].pc = "enter", r.hold = port.skb, r.own = ctx[c].own,
           r.older \subseteq ctx[c].older, port' = Empty,
           UNCHANGED <<arrived, sent, dropped>>
    PROVE  AggInv'
<1>0. Base /\ PlacesOK /\ OrderOK
  BY DEF AggInv, Base
<1>1. /\ OthersKeep(c) /\ Holds(c)' = Aggregated /\ ctx'[c].own = ctx[c].own
      /\ Holds(c) = {} /\ Aggregated' = {}
  BY <1>0, HandsStep, HandsContent, RecFacts, AggregatedSkb
<1>2. PlacesOK'
  BY <1>0, <1>1, PlacesTake
<1>3. OrderOK'
  BY <1>0, <1>1, OrderStep
<1> QED
  BY <1>2, <1>3 DEF AggInv, Base

LEMMA PassInv ==
    ASSUME AggInv, NEW c \in Callers, NEW pc \in {"own", "skip"},
           ctx[c].pc = "enter", ctx' = [ctx EXCEPT ![c].pc = pc],
           pc = "own" => port.skb = <<>>,
           UNCHANGED <<port, limit, timer, work, arrived, sent, dropped, life>>
    PROVE  AggInv'
<1>1. Base /\ c \in Contexts
  BY ContextShape DEF AggInv, Base
<1>2. Base' /\ Becomes(c, [ctx[c] EXCEPT !.pc = pc])
  BY <1>1, PassBase
<1> QED
  BY <1>1, <1>2, AggregatedSkb, StayInv

LEMMA TakenInv ==
    ASSUME AggInv, NEW c \in Callers, NEW next \in {"enter", "own"},
           ctx[c].pc = "enter", Taken(c, next),
           UNCHANGED <<limit, timer, work, arrived, sent, dropped, life>>
    PROVE  AggInv'
<1> DEFINE r == [ctx[c] EXCEPT !.pc = "cancel", !.hold = port.skb, !.next = next]
<1>1. Base /\ c \in Contexts
  BY ContextShape DEF AggInv, Base
<1>2. Base' /\ port' = Empty /\ Becomes(c, r)
  BY <1>1, TakenBase
<1>3. r.hold = port.skb /\ r.own = ctx[c].own /\ r.older = ctx[c].older
  BY <1>1, RecFacts DEF CtxRec
<1> HIDE DEF r
<1> QED
  BY <1>1, <1>2, <1>3, TakeInv

LEMMA CallerInv ==
    ASSUME AggInv, NEW c \in Callers,
           \/ AggSkip(c) \/ Priority(c) \/ SendAlone(c) \/ Ship(c) \/ TxQmapCmd(c)
    PROVE  AggInv'
<1>1. CASE AggSkip(c)
  BY <1>1, PassInv DEF AggSkip
<1>2. CASE Priority(c) \/ TxQmapCmd(c)
  <2>1. CASE port.skb = <<>>
    BY <1>2, <2>1, PassInv DEF Priority, TxQmapCmd
  <2>2. CASE port.skb # <<>>
    BY <1>2, <2>2, TakenInv DEF Priority, TxQmapCmd
  <2> QED
    BY <2>1, <2>2
<1>3. CASE SendAlone(c)
  <2>1. port \in [skb : Seq(Items), agg_count : Nat, in_progress : BOOLEAN]
        /\ port.agg_count = Len(port.skb)
    BY DEF AggInv, Types
  <2>2. port' = port
    BY <1>3, <2>1 DEF SendAlone
  <2> QED
    BY <1>3, <2>2, PassInv DEF SendAlone
<1>4. CASE Ship(c)
  BY <1>4, TakenInv DEF Ship
<1> QED
  BY <1>1, <1>2, <1>3, <1>4

LEMMA AppendInv ==
    ASSUME AggInv, NEW c \in Callers, AppendPacket(c)
    PROVE  AggInv'
<1>0. Base /\ PlacesOK /\ OrderOK /\ c \in Contexts
  BY ContextShape DEF AggInv, Base
<1>1. /\ Base' /\ Becomes(c, IdleCtx)
      /\ Aggregated' = Aggregated \cup ctx[c].own
  BY <1>0, AppendBase
<1>2. ctx[c].pc = "enter" /\ UNCHANGED <<arrived, sent, dropped>>
  BY DEF AppendPacket
<1>3. OthersKeep(c) /\ Holds(c)' = {} /\ Holds(c) = {} /\ ctx'[c].own = {}
  BY <1>0, <1>1, <1>2, HandsStep, IdleShape, ContentEmpty, RecFacts
<1>4. PlacesOK'
  BY <1>0, <1>1, <1>2, <1>3, PlacesAppend
<1>5. ~CommittedRec(IdleCtx)
  BY IdleShape DEF CommittedRec
<1>6. OrderOK'
  BY <1>0, <1>1, <1>2, <1>5, IdleShape, OrderStep
<1> QED
  BY <1>1, <1>4, <1>6 DEF AggInv, Base

LEMMA DeliverInv ==
    ASSUME AggInv, NEW c \in Contexts, Deliver(c)
    PROVE  AggInv'
<1>0. Base /\ PlacesOK /\ OrderOK
  BY DEF AggInv, Base
<1>1. CASE CancelTimer(c)
  <2>1. Base' /\ Becomes(c, [ctx[c] EXCEPT !.pc = "xmit"])
    BY <1>0, <1>1, CancelBase
  <2> QED
    BY <1>1, <2>1, AggregatedSkb, StayInv DEF CancelTimer
<1>2. CASE XmitAggregate(c)
  <2> DEFINE r == [ctx[c] EXCEPT !.pc = ctx[c].next, !.hold = <<>>,
                                 !.next = "idle"]
  <2>1. Base' /\ Becomes(c, r)
    BY <1>0, <1>2, XmitAggregateBase
  <2>2. /\ r.pc = ctx[c].next /\ r.own = ctx[c].own /\ r.hold = <<>>
        /\ r.older = ctx[c].older /\ r.next = "idle"
    BY <1>0, RecFacts DEF CtxRec
  <2> HIDE DEF r
  <2>3. /\ OthersKeep(c) /\ Holds(c)' = {} /\ ctx'[c].own = ctx[c].own
        /\ Aggregated' = Aggregated
    BY <1>2, <2>1, <2>2, HandsStep, ContentEmpty, AggregatedSkb DEF XmitAggregate
  <2>4. PlacesOK'
    BY <1>0, <1>2, <2>3, PlacesXmit DEF XmitAggregate
  <2>5. CommittedRec(r) => Committed(c)
    BY <1>2, <2>2 DEF CommittedRec, Committed, XmitAggregate
  <2>6. OrderOK'
    BY <1>0, <1>2, <2>1, <2>2, <2>3, <2>5, OrderStep DEF XmitAggregate
  <2> QED
    BY <2>1, <2>4, <2>6 DEF AggInv, Base
<1>3. CASE XmitOwn(c)
  <2>1. Base' /\ Becomes(c, IdleCtx)
    BY <1>0, <1>3, XmitOwnBase
  <2>2. /\ OthersKeep(c) /\ Holds(c)' = {} /\ Holds(c) = {} /\ ctx'[c].own = {}
        /\ Aggregated' = Aggregated
    BY <1>0, <1>3, <2>1, HandsStep, IdleShape, ContentEmpty, AggregatedSkb, RecFacts
       DEF XmitOwn
  <2>3. PlacesOK'
    BY <1>0, <1>3, <2>2, PlacesXmit DEF XmitOwn
  <2>4. ~CommittedRec(IdleCtx)
    BY IdleShape DEF CommittedRec
  <2>5. OrderOK'
    BY <1>0, <1>3, <2>1, <2>2, <2>4, IdleShape, OrderStep DEF XmitOwn
  <2> QED
    BY <2>1, <2>3, <2>5 DEF AggInv, Base
<1> QED
  BY <1>1, <1>2, <1>3 DEF Deliver

LEMMA FlushInv ==
    ASSUME AggInv, FlushWorkStart \/ FlushWork
    PROVE  AggInv'
<1>0. Base /\ PlacesOK /\ OrderOK /\ Flusher \in Contexts
  BY ContextShape DEF AggInv, Base
<1>1. CASE FlushWorkStart
  <2>1. Base' /\ Becomes(Flusher, [ctx[Flusher] EXCEPT !.pc = "enter"])
    BY <1>0, <1>1, FlushStartBase
  <2> QED
    BY <1>0, <1>1, <2>1, AggregatedSkb, StayInv DEF FlushWorkStart
<1>2. CASE FlushWork
  <2>0. /\ ctx[Flusher].pc = "enter" /\ ctx[Flusher].own = {}
        /\ Holds(Flusher) = {} /\ UNCHANGED <<arrived, sent, dropped>>
    BY <1>0, <1>2, RecFacts DEF FlushWork, RecOK
  <2>1. CASE port' = port /\ Becomes(Flusher, IdleCtx)
    <3>1. /\ OthersKeep(Flusher) /\ Holds(Flusher)' = {} /\ ctx'[Flusher].own = {}
          /\ Aggregated' = Aggregated
      BY <1>0, <2>1, HandsStep, IdleShape, ContentEmpty, AggregatedSkb
    <3>2. PlacesOK'
      BY <1>0, <2>0, <3>1, PlacesStay
    <3>3. ~CommittedRec(IdleCtx)
      BY IdleShape DEF CommittedRec
    <3>4. OrderOK'
      BY <1>0, <2>0, <2>1, <3>1, <3>3, IdleShape, OrderStep
    <3> QED
      BY <1>0, <1>2, <3>2, <3>4, FlushBase DEF AggInv, Base
  <2>2. ASSUME NEW r, Becomes(Flusher, r), r.hold = port.skb, r.own = {},
               r.older = {}, port' = Empty
        PROVE  AggInv'
    BY <1>0, <1>2, <2>0, <2>2, FlushBase, TakeInv
  <2> QED
    BY <1>0, <1>2, <2>1, <2>2, FlushBase
<1> QED
  BY <1>1, <1>2

LEMMA PortInv ==
    ASSUME AggInv,
           \/ FlushTxPacketQueue \/ Exit
           \/ \E n \in Counts : UpdateUlAggConfig(n) \/ AggregateInit(n)
    PROVE  AggInv'
<1>0. Base /\ PlacesOK /\ OrderOK /\ LifeOK /\ Flusher \in Contexts
  BY ContextShape DEF AggInv, Base
<1>1. Base' /\ ctx' = ctx /\ UNCHANGED <<arrived, sent>>
  BY <1>0, PortBase DEF FlushTxPacketQueue, Exit, ExitTimer, ExitWork, ExitFree,
     UpdateUlAggConfig, AggregateInit
<1>2. \/ Aggregated' = Aggregated /\ dropped' = dropped
      \/ Aggregated' = {} /\ dropped' = dropped \cup Aggregated
  BY <1>0, AggregatedSkb DEF LifeOK, FlushTxPacketQueue, Exit, ExitTimer,
     ExitWork, ExitFree, UpdateUlAggConfig, AggregateInit
<1>3. \A d \in Contexts : Holds(d)' = Holds(d)
  BY <1>1 DEF Holds
<1>4. PlacesOK'
  BY <1>0, <1>1, <1>2, <1>3, PlacesFree, PlacesStay DEF OthersKeep
<1>5. OrderOK'
  <2>1. Arrived' = Arrived /\ \A c \in Contexts : Committed(c)' <=> Committed(c)
    BY <1>1 DEF Arrived, Committed
  <2>2. Aggregated' \subseteq Aggregated
    BY <1>2
  <2> QED
    BY <1>0, <1>1, <2>1, <2>2 DEF OrderOK
<1> QED
  BY <1>1, <1>4, <1>5 DEF AggInv, Base

LEMMA NextInv == AggInv /\ [Next]_vars => AggInv'
<1> SUFFICES ASSUME AggInv, [Next]_vars PROVE AggInv'
  OBVIOUS
<1>1. ASSUME NEW c \in Senders, Sender(c) PROVE AggInv'
  BY <1>1, EnterInv, CallerInv, AppendInv DEF Sender, Callers
<1>2. ASSUME NEW c \in Commanders, Commander(c) PROVE AggInv'
  BY <1>2, EnterInv, CallerInv DEF Commander, Callers
<1>3. ASSUME NEW c \in Contexts, Deliver(c) PROVE AggInv'
  BY <1>3, DeliverInv
<1>4. CASE FlushWorkStart \/ FlushWork
  BY <1>4, FlushInv
<1>5. CASE \/ FlushTxPacketQueue \/ Exit
           \/ \E n \in Counts : UpdateUlAggConfig(n) \/ AggregateInit(n)
  BY <1>5, PortInv
<1>6. CASE UNCHANGED vars
  <2>1. /\ Aggregated' = Aggregated /\ Arrived' = Arrived
        /\ \A d \in Contexts : Holds(d)' = Holds(d)
    BY <1>6 DEF vars, Aggregated, Arrived, Holds
  <2>2. Types' /\ HandsOK' /\ LifeOK'
    BY <1>6 DEF AggInv, vars, Types, HandsOK, LifeOK
  <2>3. PlacesOK'
    BY <1>6, <2>1 DEF AggInv, vars, PlacesOK, OnePlace, Somewhere
  <2>4. OrderOK'
    BY <1>6, <2>1 DEF AggInv, vars, OrderOK, Committed
  <2> QED
    BY <2>2, <2>3, <2>4 DEF AggInv
<1> QED
  BY <1>1, <1>2, <1>3, <1>4, <1>5, <1>6 DEF Next

LEMMA InitInv == Init => AggInv
<1> SUFFICES ASSUME Init PROVE AggInv
  OBVIOUS
<1>1. Base
  BY BaseInit
<1>2. /\ Aggregated = {} /\ sent = {} /\ dropped = {}
      /\ \A d \in Contexts : Holds(d) = {} /\ ctx[d].own = {} /\ ctx[d].older = {}
  BY HandsContent, ContentEmpty, IdleShape, EmptyShape DEF Init
<1>3. Arrived = {}
  BY ItemShape, ContextShape DEF Init, Arrived, Callers
<1>4. PlacesOK
  BY <1>2, <1>3 DEF PlacesOK, OnePlace, Somewhere
<1>5. OrderOK
  BY <1>2 DEF OrderOK
<1> QED
  BY <1>1, <1>4, <1>5 DEF AggInv, Base

LEMMA AggInvHolds == Spec => []AggInv
BY InitInv, NextInv, PTL DEF Spec

-----------------------------------------------------------------------------
(* Counting the places.                                                    *)

LEMMA PlacesDef ==
    ASSUME NEW p
    PROVE  \A x : x \in Places(p) <=>
             \/ \E d \in Contexts : p \in Holds(d) /\ x = <<"buffer", d>>
             \/ \E d \in Contexts : p \in ctx[d].own /\ x = <<"item", d>>
             \/ p \in Aggregated /\ x = <<"port", "aggregate">>
             \/ p \in sent /\ x = <<"device", "sent">>
             \/ p \in dropped /\ x = <<"exit", "dropped">>
BY DEF Places

LEMMA PlacesCount ==
    ASSUME NEW p, OnePlace(p)
    PROVE  Cardinality(Places(p)) = IF Somewhere(p) THEN 1 ELSE 0
<1>1. CASE ~Somewhere(p)
  <2>1. Places(p) = {}
    BY <1>1, PlacesDef DEF Somewhere
  <2> QED
    BY <1>1, <2>1, FS_EmptySet
<1>2. CASE Somewhere(p)
  <2>1. PICK x : x \in Places(p)
    BY <1>2, PlacesDef DEF Somewhere
  <2>2. ASSUME NEW y \in Places(p), NEW z \in Places(p) PROVE y = z
    <3>0. /\ (p \in Aggregated => ~\E d \in Contexts : p \in Holds(d))
          /\ (p \in Aggregated => ~\E d \in Contexts : p \in ctx[d].own)
          /\ (p \in sent => ~\E d \in Contexts : p \in Holds(d))
          /\ (p \in sent => ~\E d \in Contexts : p \in ctx[d].own)
          /\ (p \in dropped => ~\E d \in Contexts : p \in Holds(d))
          /\ (p \in dropped => ~\E d \in Contexts : p \in ctx[d].own)
          /\ ~(p \in Aggregated /\ p \in sent) /\ ~(p \in sent /\ p \in dropped)
          /\ ~(p \in Aggregated /\ p \in dropped)
      BY DEF OnePlace
    <3>1. /\ \A d, e \in Contexts : ~(p \in Holds(d) /\ p \in ctx[e].own)
          /\ \A d, e \in Contexts : p \in Holds(d) /\ p \in Holds(e) => d = e
          /\ \A d, e \in Contexts : p \in ctx[d].own /\ p \in ctx[e].own => d = e
      BY DEF OnePlace
    <3>2. /\ \/ \E d \in Contexts : p \in Holds(d) /\ y = <<"buffer", d>>
             \/ \E d \in Contexts : p \in ctx[d].own /\ y = <<"item", d>>
             \/ p \in Aggregated /\ y = <<"port", "aggregate">>
             \/ p \in sent /\ y = <<"device", "sent">>
             \/ p \in dropped /\ y = <<"exit", "dropped">>
          /\ \/ \E d \in Contexts : p \in Holds(d) /\ z = <<"buffer", d>>
             \/ \E d \in Contexts : p \in ctx[d].own /\ z = <<"item", d>>
             \/ p \in Aggregated /\ z = <<"port", "aggregate">>
             \/ p \in sent /\ z = <<"device", "sent">>
             \/ p \in dropped /\ z = <<"exit", "dropped">>
      BY <2>2, PlacesDef
    <3> QED
      BY <3>0, <3>1, <3>2
  <2>3. Places(p) = {x}
    BY <2>1, <2>2
  <2> QED
    BY <1>2, <2>3, FS_Singleton
<1> QED
  BY <1>1, <1>2

LEMMA PlacesOnce == AggInv => ExactlyOnce
<1> SUFFICES ASSUME AggInv, NEW c \in Callers, NEW n \in 1 .. MaxItems[c]
             PROVE  Cardinality(Places(<<c, n>>)) = IF n <= arrived[c] THEN 1 ELSE 0
  BY DEF ExactlyOnce, Callers
<1>1. <<c, n>> \in Items /\ (<<c, n>> \in Arrived <=> n <= arrived[c])
  BY ItemShape DEF Arrived
<1>2. OnePlace(<<c, n>>) /\ (Somewhere(<<c, n>>) <=> n <= arrived[c])
  BY <1>1 DEF AggInv, PlacesOK
<1> QED
  BY <1>2, PlacesCount

LEMMA TypesImply == AggInv => TypeOK
<1> SUFFICES ASSUME AggInv PROVE TypeOK
  OBVIOUS
<1>1. Types
  BY DEF AggInv
<1>2. \A c \in Callers : arrived[c] \in 0 .. MaxItems[c]
  BY <1>1, ContextShape DEF Types
<1>3. \A c \in Contexts : ctx[c] \in CtxRec
  BY <1>1 DEF Types
<1>4. \A c \in Contexts :
          /\ ctx[c].pc \in {"idle", "enter", "cancel", "xmit", "own", "skip"}
          /\ ctx[c].next \in {"idle", "enter", "own"}
          /\ ctx[c].own \subseteq Items /\ ctx[c].older \subseteq Items
  BY <1>3 DEF CtxRec
<1> QED
  BY <1>1, <1>2, <1>4 DEF Types, TypeOK, Callers

-----------------------------------------------------------------------------
(* The theorems.                                                           *)

\* For any number of processors, packets and commands, and whichever of them
\* take the buffer out between each other's locks: every item handed to
\* rmnet_map_tx_aggregate or rmnet_map_tx_qmap_cmd is in exactly one place, and
\* rmnet_map_tx_aggregate_exit leaves neither timer, work nor buffer behind.
THEOREM PacketsSafe == Spec => []PacketsSound
<1>1. AggInv => NothingAfterExit
  BY DEF AggInv, LifeOK, NothingAfterExit
<1>2. AggInv => PacketsSound
  BY <1>1, PlacesOnce, TypesImply DEF PacketsSound
<1> QED
  BY <1>2, AggInvHolds, PTL

\* For any number of processors: a packet or a command sent on its own does not
\* overtake what was in the aggregate when it came.
THEOREM NotOvertakenSafe == Spec => []NotOvertaken
<1>1. AggInv => NotOvertaken
  BY DEF AggInv, OrderOK, Committed, NotOvertaken
<1> QED
  BY <1>1, AggInvHolds, PTL

\* The step that loses the cover of an aggregate is a stale hrtimer_cancel
LEMMA UncoverStep ==
    ASSUME AggInv, [Next]_vars, Covered, ~Covered', life' = "up"
    PROVE  \E c \in Senders \cup Commanders :
              ctx[c].pc = "cancel" /\ ctx'[c].pc = "xmit" /\ timer
<1>0. /\ Base /\ LifeOK /\ Flusher \in Contexts /\ Flusher \notin Callers
      /\ timer \in BOOLEAN
  BY ContextShape DEF AggInv, Base, Types
<1>1. port'.skb # <<>> /\ ~timer' /\ ~work' /\ ctx'[Flusher].pc # "enter"
  BY DEF Covered
<1>2. ASSUME NEW c \in Callers, Enter(c) \/ AggSkip(c) PROVE FALSE
  BY <1>0, <1>1, <1>2, EnterBase
     DEF Enter, AggSkip, Covered, Base, Types
<1>3. ASSUME NEW c \in Callers, Priority(c) \/ TxQmapCmd(c) \/ Ship(c) \/ SendAlone(c)
      PROVE  FALSE
  BY <1>0, <1>1, <1>3, EmptyShape
     DEF Priority, TxQmapCmd, Ship, SendAlone, Taken, Base, Types
<1>4. ASSUME NEW c \in Callers, AppendPacket(c) PROVE FALSE
  <2>1. timer' = (timer \/ port.skb = <<>>) /\ Becomes(c, IdleCtx)
    BY <1>0, <1>4, AppendBase
  <2>2. work' = work /\ ctx'[Flusher] = ctx[Flusher]
    BY <1>0, <1>4, <2>1 DEF AppendPacket, Becomes
  <2> QED
    BY <1>1, <2>1, <2>2 DEF Covered
<1>5. ASSUME NEW c \in Contexts, CancelTimer(c)
      PROVE  c \in Callers /\ ctx[c].pc = "cancel" /\ ctx'[c].pc = "xmit" /\ timer
  <2>1. /\ c \in Callers /\ ctx'[c].pc = "xmit"
        /\ Becomes(c, [ctx[c] EXCEPT !.pc = "xmit"])
    BY <1>0, <1>5, CancelBase
  <2>2. ctx'[Flusher] = ctx[Flusher] /\ port' = port /\ work' = work
    BY <1>0, <1>5, <2>1 DEF CancelTimer, Becomes
  <2> QED
    BY <1>1, <1>5, <2>1, <2>2 DEF Covered, CancelTimer
<1>6. ASSUME NEW c \in Contexts, XmitAggregate(c) \/ XmitOwn(c) PROVE FALSE
  <2>1. c # Flusher => ctx'[Flusher] = ctx[Flusher]
    BY <1>0, <1>6, XmitAggregateBase, XmitOwnBase DEF Becomes
  <2>2. c = Flusher => ctx[Flusher].pc # "enter"
    BY <1>6 DEF XmitAggregate, XmitOwn
  <2> QED
    BY <1>1, <1>6, <2>1, <2>2 DEF Covered, XmitAggregate, XmitOwn
<1>7. CASE FlushTxPacketQueue \/ FlushWorkStart
  <2>1. FlushWorkStart => ctx'[Flusher].pc = "enter"
    <3>1. FlushWorkStart => ctx'[Flusher] = [ctx[Flusher] EXCEPT !.pc = "enter"]
      BY <1>0, FlushStartBase DEF Becomes
    <3> QED
      BY <1>0, <3>1, RecFacts DEF CtxRec
  <2> QED
    BY <1>1, <1>7, <2>1 DEF FlushTxPacketQueue
<1>8. CASE FlushWork
  BY <1>0, <1>1, <1>8, EmptyShape, FlushBase
<1>9. CASE \/ Exit \/ \E n \in Counts : UpdateUlAggConfig(n) \/ AggregateInit(n)
  BY <1>1, <1>9, EmptyShape
     DEF Covered, Exit, ExitTimer, ExitWork, ExitFree, UpdateUlAggConfig,
         AggregateInit
<1>10. CASE UNCHANGED vars
  BY <1>1, <1>10 DEF Covered, vars
<1> QED
  BY <1>2, <1>3, <1>4, <1>5, <1>6, <1>7, <1>8, <1>9, <1>10
     DEF Next, Sender, Commander, Deliver, Callers

\* For any number of processors: an aggregate loses its timer, its queued work
\* and the running work only by the hrtimer_cancel that rmnet_map_send_agg_skb
\* calls after the unlock.
THEOREM UncoverSafe == Spec => OnlyStaleCancelUncovers
<1>1. AggInv /\ [Next]_vars =>
        [(Covered /\ ~Covered' /\ life' = "up") =>
            \E c \in Senders \cup Commanders :
                ctx[c].pc = "cancel" /\ ctx'[c].pc = "xmit" /\ timer]_vars
  BY UncoverStep
<1> QED
  BY <1>1, AggInvHolds, PTL DEF Spec, OnlyStaleCancelUncovers

=============================================================================
