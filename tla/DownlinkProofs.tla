--------------------------- MODULE DownlinkProofs ---------------------------
(* Proofs about the downlink path.  In this order: induction and recursion  *)
(* over 0 .. n, stated for sets and functions; what the operators of        *)
(* FragData return; the loops of both implementations of segmentation and   *)
(* the two theorems of Segmentation; then Ingress: where descriptors are    *)
(* and what they hold (CoreInv), one lemma ...Core for each action; how     *)
(* many fragments are in a page (BalInv), one lemma ...Bal for each action; *)
(* and the two theorems of Ingress.                                         *)
EXTENDS Ingress, Segmentation, FiniteSetTheorems, SequenceTheorems, TLAPS

-----------------------------------------------------------------------------
(* Induction and recursion over 0 .. n.                                     *)

LEMMA Least ==
    ASSUME NEW S, S \subseteq Nat, S # {}
    PROVE  \E m \in S : \A j \in S : m <= j
<1>1. PICK m \in S : \A j \in S : <<j, m>> \notin OpToRel(<, Nat)
  BY WFMin, NatLessThanWellFounded
<1>2. \A j \in S : ~(j < m)
  BY <1>1 DEF OpToRel
<1> QED
  BY <1>2

LEMMA Induction ==
    ASSUME NEW n \in Nat, NEW S, 0 \in S,
           \A i \in 1 .. n : i - 1 \in S => i \in S
    PROVE  0 .. n \subseteq S
<1>1. SUFFICES ASSUME (0 .. n) \ S # {} PROVE FALSE
  OBVIOUS
<1>2. PICK m \in (0 .. n) \ S : \A j \in (0 .. n) \ S : m <= j
  <2>1. (0 .. n) \ S \subseteq Nat
    OBVIOUS
  <2> QED
    BY <1>1, <2>1, Least
<1>3. m - 1 \in 0 .. n /\ m - 1 \notin S
  BY <1>2
<1> QED
  BY <1>2, <1>3

\* The functions over 0 .. n that start with v and go on as F says
Runs(n, V, v, F) ==
    {g \in [0 .. n -> V] :
        g[0] = v /\ \A i \in 1 .. n : g[i] = F[<<i, g[i - 1]>>]}

\* There is one
LEMMA Recursion ==
    ASSUME NEW n \in Nat, NEW V, NEW v \in V, NEW F \in [(1 .. n) \X V -> V]
    PROVE  Runs(n, V, v, F) # {}
<1> DEFINE P(k) == \E g \in [0 .. k -> V] :
               g[0] = v /\ \A i \in 1 .. k : g[i] = F[<<i, g[i - 1]>>]
           S == {k \in 0 .. n : P(k)}
<1>1. 0 \in S
  <2>1. [i \in 0 .. 0 |-> v] \in [0 .. 0 -> V]
    OBVIOUS
  <2>2. [i \in 0 .. 0 |-> v][0] = v /\ 1 .. 0 = {}
    OBVIOUS
  <2>3. P(0)
    BY <2>1, <2>2
  <2> QED
    BY <2>3
<1>2. ASSUME NEW k \in 1 .. n, k - 1 \in S PROVE k \in S
  <2>1. PICK g \in [0 .. k - 1 -> V] :
            g[0] = v /\ \A i \in 1 .. k - 1 : g[i] = F[<<i, g[i - 1]>>]
    BY <1>2
  <2> DEFINE h == [i \in 0 .. k |-> IF i = k THEN F[<<k, g[k - 1]>>] ELSE g[i]]
  <2>2. g[k - 1] \in V /\ <<k, g[k - 1]>> \in (1 .. n) \X V
    OBVIOUS
  <2>3. F[<<k, g[k - 1]>>] \in V
    BY <2>2
  <2>4. h \in [0 .. k -> V]
    BY <2>3
  <2>5. h[0] = v
    BY <2>1
  <2>6. ASSUME NEW i \in 1 .. k PROVE h[i] = F[<<i, h[i - 1]>>]
    <3>1. CASE i = k
      <4>1. i \in 0 .. k /\ i - 1 \in 0 .. k /\ i - 1 # k
        BY <3>1
      <4>2. h[i] = F[<<k, g[k - 1]>>] /\ h[i - 1] = g[i - 1]
        BY <3>1, <4>1
      <4> QED
        BY <3>1, <4>2
    <3>2. CASE i # k
      <4>1. i \in 1 .. k - 1 /\ i - 1 \in 0 .. k - 1 /\ i - 1 # k /\ i - 1 \in 0 .. k
        BY <3>2
      <4>2. h[i] = g[i] /\ h[i - 1] = g[i - 1]
        BY <3>2, <4>1
      <4> QED
        BY <2>1, <4>1, <4>2
    <3> QED
      BY <3>1, <3>2
  <2>7. P(k)
    <3> HIDE DEF h
    <3> QED
    BY <2>4, <2>5, <2>6
  <2> QED
    BY <2>7
<1>3. n \in S
  <2> HIDE DEF S
  <2>1. 0 .. n \subseteq S
    BY <1>1, <1>2, Induction
  <2> QED
    BY <2>1
<1> QED
  BY <1>3 DEF Runs


LEMMA MinIs ==
    ASSUME NEW S, S \subseteq Nat, S # {}
    PROVE  Min(S) \in S /\ \A j \in S : Min(S) <= j
<1>1. \E m \in S : \A j \in S : m <= j
  BY Least
<1> QED
  BY <1>1 DEF Min

LEMMA MaxIs ==
    ASSUME NEW n \in Nat, NEW S, S \subseteq 0 .. n, S # {}
    PROVE  Max(S) \in S /\ \A j \in S : j <= Max(S)
<1> DEFINE T == {n - x : x \in S}
<1>1. T \subseteq Nat /\ T # {}
  <2>1. ASSUME NEW x \in S PROVE n - x \in Nat
    BY x \in 0 .. n
  <2>2. T # {}
    OBVIOUS
  <2> QED
    BY <2>1, <2>2
<1>2. PICK t \in T : \A j \in T : t <= j
  BY <1>1, Least
<1>3. PICK m \in S : t = n - m
  BY <1>2
<1>4. \A j \in S : m >= j
  <2> TAKE j \in S
  <2>1. n - j \in T /\ j \in Nat /\ m \in Nat
    OBVIOUS
  <2> QED
    BY <1>2, <1>3, <2>1
<1>5. \E x \in S : \A j \in S : x >= j
  BY <1>4
<1>6. Max(S) \in S /\ \A j \in S : Max(S) >= j
  BY <1>5 DEF Max
<1> QED
  BY <1>6

-----------------------------------------------------------------------------
(* Lists of fragments.                                                      *)

LEMMA EndsDef ==
    ASSUME NEW frags, Len(frags) \in Nat, \A i \in 1 .. Len(frags) : frags[i].size \in Nat
    PROVE  /\ Ends(frags) \in [0 .. Len(frags) -> Nat]
           /\ Ends(frags)[0] = 0
           /\ \A i \in 1 .. Len(frags) : Ends(frags)[i] = Ends(frags)[i - 1] + frags[i].size
<1> DEFINE n == Len(frags)
           Is(e) == e = [i \in 0 .. n |-> IF i = 0 THEN 0 ELSE e[i - 1] + frags[i].size]
           F == [x \in (1 .. n) \X Nat |-> x[2] + frags[x[1]].size]
<1>1. Ends(frags) = CHOOSE e : Is(e)
  BY DEF Ends
<1>2. \A x \in (1 .. n) \X Nat : x[2] + frags[x[1]].size \in Nat
  OBVIOUS
<1>3. F \in [(1 .. n) \X Nat -> Nat]
  BY <1>2
<1>4. PICK g \in Runs(n, Nat, 0, F) : TRUE
  <2> HIDE DEF F, n
  <2>1. n \in Nat /\ 0 \in Nat
    BY DEF n
  <2>2. Runs(n, Nat, 0, F) # {}
    BY <1>3, <2>1, Recursion
  <2> QED
    BY <2>2
<1>5. /\ g \in [0 .. n -> Nat] /\ g[0] = 0
      /\ \A i \in 1 .. n : g[i] = g[i - 1] + frags[i].size
  <2>1. g \in [0 .. n -> Nat] /\ g[0] = 0
    BY DEF Runs
  <2>2. ASSUME NEW i \in 1 .. n PROVE g[i] = g[i - 1] + frags[i].size
    <3>1. g[i] = F[<<i, g[i - 1]>>]
      BY DEF Runs
    <3>2. g[i - 1] \in Nat
      BY <2>1
    <3>3. <<i, g[i - 1]>> \in (1 .. n) \X Nat
      BY <3>2
    <3> QED
      BY <3>1, <3>3
  <2> QED
    BY <2>1, <2>2
<1>6. Is(g)
  <2>1. \A i \in 0 .. n : g[i] = IF i = 0 THEN 0 ELSE g[i - 1] + frags[i].size
    BY <1>5
  <2> QED
    BY <1>5, <2>1
<1>7. Is(Ends(frags))
  <2> HIDE DEF Is
  <2> QED
    BY <1>1, <1>6
<1>8. PICK e : e = Ends(frags)
  OBVIOUS
<1>9. /\ DOMAIN e = 0 .. n /\ e[0] = 0
      /\ \A i \in 1 .. n : e[i] = e[i - 1] + frags[i].size
  <2>1. e = [i \in 0 .. n |-> IF i = 0 THEN 0 ELSE e[i - 1] + frags[i].size]
    BY <1>7, <1>8
  <2>2. DOMAIN e = 0 .. n
    BY <2>1
  <2>3. \A i \in 0 .. n : e[i] = IF i = 0 THEN 0 ELSE e[i - 1] + frags[i].size
    BY <2>1
  <2>4. ASSUME NEW i \in 1 .. n PROVE e[i] = e[i - 1] + frags[i].size
    <3>1. i \in 0 .. n /\ i # 0
      OBVIOUS
    <3> QED
      BY <2>3, <3>1
  <2>5. e[0] = 0
    BY <2>3
  <2> QED
    BY <2>2, <2>4, <2>5
<1>11. e = [i \in 0 .. n |-> e[i]]
  <2>1. e = [i \in 0 .. n |-> IF i = 0 THEN 0 ELSE e[i - 1] + frags[i].size]
    BY <1>7, <1>8
  <2> QED
    BY <2>1
<1> DEFINE S == {i \in 0 .. n : e[i] \in Nat}
<1>10. 0 .. n \subseteq S
  <2>1. 0 \in S
    BY <1>9
  <2>2. ASSUME NEW i \in 1 .. n, i - 1 \in S PROVE i \in S
    <3>1. e[i - 1] \in Nat /\ frags[i].size \in Nat
      BY <2>2
    <3>2. e[i] = e[i - 1] + frags[i].size /\ i \in 0 .. n
      BY <1>9
    <3> QED
      BY <3>1, <3>2
  <2> HIDE DEF S
  <2> QED
    BY <2>1, <2>2, Induction
<1> HIDE DEF Is
<1> QED
  BY <1>8, <1>9, <1>10, <1>11

LEMMA EndsUnique ==
    ASSUME NEW frags, Len(frags) \in Nat, \A i \in 1 .. Len(frags) : frags[i].size \in Nat,
           NEW e, e[0] = 0,
           \A i \in 1 .. Len(frags) : e[i] = e[i - 1] + frags[i].size
    PROVE  \A i \in 0 .. Len(frags) : Ends(frags)[i] = e[i]
<1> DEFINE n == Len(frags)
           S == {i \in 0 .. n : Ends(frags)[i] = e[i]}
<1>1. 0 \in S
  BY EndsDef
<1>2. ASSUME NEW i \in 1 .. n, i - 1 \in S PROVE i \in S
  BY <1>2, EndsDef
<1>3. 0 .. n \subseteq S
  <2> HIDE DEF S
  <2> QED
    BY <1>1, <1>2, Induction
<1> QED
  BY <1>3

LEMMA FragsLenIs ==
    ASSUME NEW frags, Len(frags) \in Nat, \A i \in 1 .. Len(frags) : frags[i].size \in Nat,
           NEW e, e[0] = 0,
           \A i \in 1 .. Len(frags) : e[i] = e[i - 1] + frags[i].size
    PROVE  FragsLen(frags) = e[Len(frags)]
BY EndsUnique DEF FragsLen

LEMMA EndsOrder ==
    ASSUME NEW frags, Len(frags) \in Nat, \A i \in 1 .. Len(frags) : frags[i].size \in Nat,
           NEW j \in 0 .. Len(frags), NEW i \in 0 .. j
    PROVE  Ends(frags)[i] <= Ends(frags)[j]
<1> DEFINE n == Len(frags)
           S == {k \in 0 .. n : i <= k => Ends(frags)[i] <= Ends(frags)[k]}
<1>0. Ends(frags) \in [0 .. n -> Nat]
  BY EndsDef
<1>1. 0 \in S
  BY <1>0
<1>2. ASSUME NEW k \in 1 .. n, k - 1 \in S PROVE k \in S
  <2>1. Ends(frags)[k] = Ends(frags)[k - 1] + frags[k].size /\ frags[k].size \in Nat
    BY EndsDef
  <2>2. Ends(frags)[k - 1] \in Nat /\ Ends(frags)[k] \in Nat /\ Ends(frags)[i] \in Nat
    BY <1>0, SMTT(40)
  <2>3. CASE i <= k - 1
    BY <1>2, <2>1, <2>2, <2>3
  <2>4. CASE i = k
    BY <2>2, <2>4
  <2>5. CASE i > k
    BY <2>5
  <2> QED
    BY <2>3, <2>4, <2>5
<1>3. 0 .. n \subseteq S
  <2> HIDE DEF S
  <2> QED
    BY <1>1, <1>2, Induction
<1> QED
  BY <1>3

LEMMA FragsFacts ==
    ASSUME NEW P, NEW frags \in Seq(Fragments(P))
    PROVE  /\ Len(frags) \in Nat
           /\ \A i \in 1 .. Len(frags) :
                 /\ frags[i] \in Fragments(P) /\ frags[i].size \in Nat
                 /\ frags[i].off \in Nat /\ frags[i].page \in P
           /\ FragsLen(frags) \in Nat
<1>1. /\ Len(frags) \in Nat
      /\ \A i \in 1 .. Len(frags) :
                 /\ frags[i] \in Fragments(P) /\ frags[i].size \in Nat
                 /\ frags[i].off \in Nat /\ frags[i].page \in P
  <2>1. Len(frags) \in Nat
    OBVIOUS
  <2>2. ASSUME NEW i \in 1 .. Len(frags)
        PROVE  frags[i] \in Fragments(P)
    BY ElementOfSeq
  <2>3. ASSUME NEW x \in Fragments(P)
        PROVE  x.size \in Nat /\ x.off \in Nat /\ x.page \in P
    BY DEF Fragments
  <2> QED
    BY <2>1, <2>2, <2>3
<1>2. Ends(frags) \in [0 .. Len(frags) -> Nat]
  BY <1>1, EndsDef
<1> QED
  BY <1>1, <1>2 DEF FragsLen

LEMMA EmptyLen == FragsLen(<<>>) = 0
<1>1. Len(<<>>) = 0 /\ 1 .. 0 = {}
  OBVIOUS
<1>2. Ends(<<>>)[0] = 0
  BY <1>1, EndsDef
<1> QED
  BY <1>1, <1>2 DEF FragsLen

LEMMA CatLen ==
    ASSUME NEW P, NEW a \in Seq(Fragments(P)), NEW b \in Seq(Fragments(P))
    PROVE  a \o b \in Seq(Fragments(P)) /\ FragsLen(a \o b) = FragsLen(a) + FragsLen(b)
<1> DEFINE m == Len(a)
           n == Len(b)
           ab == a \o b
           e == [i \in 0 .. m + n |-> IF i <= m THEN Ends(a)[i]
                                      ELSE FragsLen(a) + Ends(b)[i - m]]
<1>1. /\ ab \in Seq(Fragments(P)) /\ Len(ab) = m + n /\ m \in Nat /\ n \in Nat
      /\ \A i \in 1 .. m + n : ab[i] = IF i <= m THEN a[i] ELSE b[i - m]
  BY ConcatProperties
<1>2. /\ Ends(a) \in [0 .. m -> Nat] /\ Ends(a)[0] = 0
      /\ \A i \in 1 .. m : Ends(a)[i] = Ends(a)[i - 1] + a[i].size
      /\ Ends(b) \in [0 .. n -> Nat] /\ Ends(b)[0] = 0
      /\ \A i \in 1 .. n : Ends(b)[i] = Ends(b)[i - 1] + b[i].size
  BY FragsFacts, EndsDef
<1>3. e[0] = 0
  BY <1>1, <1>2
<1>4. ASSUME NEW i \in 1 .. m + n PROVE e[i] = e[i - 1] + ab[i].size
  <2>1. CASE i <= m
    <3>1. i \in 1 .. m /\ i - 1 <= m /\ i \in 0 .. m + n /\ i - 1 \in 0 .. m + n
      BY <1>1, <2>1
    <3>2. ab[i] = a[i] /\ e[i] = Ends(a)[i] /\ e[i - 1] = Ends(a)[i - 1]
      BY <1>1, <3>1
    <3> QED
      BY <1>2, <3>1, <3>2
  <2>2. CASE i = m + 1
    <3>1. /\ 1 \in 1 .. n /\ ~(i <= m) /\ i - 1 = m /\ i \in 0 .. m + n
          /\ i - 1 \in 0 .. m + n /\ i - m = 1 /\ m \in 0 .. m
      BY <1>1, <2>2
    <3>2. ab[i] = b[1] /\ e[i] = FragsLen(a) + Ends(b)[1] /\ e[i - 1] = Ends(a)[m]
      BY <1>1, <3>1
    <3>3. Ends(b)[1] = b[1].size /\ FragsLen(a) = Ends(a)[m] /\ b[1].size \in Nat
      <4>1. Ends(b)[1] = Ends(b)[1 - 1] + b[1].size /\ 1 - 1 = 0
        BY <1>2, <3>1
      <4>2. b[1].size \in Nat
        BY FragsFacts, <3>1
      <4> QED
        BY <1>2, <4>1, <4>2 DEF FragsLen
    <3> QED
      BY <3>2, <3>3
  <2>3. CASE i > m + 1
    <3>1. /\ i - m \in 1 .. n /\ ~(i <= m) /\ ~(i - 1 <= m) /\ i \in 0 .. m + n
          /\ i - 1 \in 0 .. m + n /\ (i - 1) - m = (i - m) - 1 /\ (i - m) - 1 \in 0 .. n
      BY <1>1, <2>3
    <3>2. /\ ab[i] = b[i - m] /\ e[i] = FragsLen(a) + Ends(b)[i - m]
          /\ e[i - 1] = FragsLen(a) + Ends(b)[(i - m) - 1]
      BY <1>1, <3>1
    <3>3. /\ Ends(b)[i - m] = Ends(b)[(i - m) - 1] + b[i - m].size
          /\ Ends(b)[(i - m) - 1] \in Nat /\ b[i - m].size \in Nat /\ FragsLen(a) \in Nat
      BY <1>2, <3>1, FragsFacts
    <3> QED
      BY <3>2, <3>3
  <2> QED
    BY <1>1, <2>1, <2>2, <2>3
<1>5. FragsLen(ab) = e[Len(ab)]
  <2>1. \A i \in 1 .. Len(ab) : ab[i].size \in Nat
    BY <1>1, FragsFacts
  <2>2. \A i \in 1 .. Len(ab) : e[i] = e[i - 1] + ab[i].size
    BY <1>1, <1>4
  <2> HIDE DEF e, ab, m, n
  <2>3. Len(ab) \in Nat
    BY <1>1
  <2> QED
    BY <1>3, <2>1, <2>2, <2>3, FragsLenIs
<1>6. e[m + n] = FragsLen(a) + FragsLen(b)
  <2>1. CASE n = 0
    <3>1. e[m + n] = Ends(a)[m] /\ Ends(b)[n] = 0
      BY <1>1, <1>2, <2>1
    <3> QED
      BY <1>2, <3>1, SMTT(40) DEF FragsLen
  <2>2. CASE n > 0
    <3>1. m + n \in 0 .. m + n /\ ~(m + n <= m) /\ (m + n) - m = n
      BY <1>1, <2>2
    <3>2. e[m + n] = FragsLen(a) + Ends(b)[n]
      BY <3>1
    <3> QED
      BY <3>2 DEF FragsLen
  <2> QED
    BY <1>1, <2>1, <2>2
<1> QED
  BY <1>1, <1>5, <1>6

\* Where Pull stops
LEMMA PullToIs ==
    ASSUME NEW P, NEW frags \in Seq(Fragments(P)), NEW s \in Nat
    PROVE  /\ PullTo(frags, s) \in 1 .. Len(frags) + 1
           /\ Ends(frags)[PullTo(frags, s) - 1] <= s
           /\ PullTo(frags, s) <= Len(frags) =>
                  \/ s = Ends(frags)[PullTo(frags, s) - 1]
                  \/ s < Ends(frags)[PullTo(frags, s)]
<1> DEFINE n == Len(frags)
           E == Ends(frags)
           left == [i \in 1 .. n |-> s - E[i - 1]]
           K == {i \in 1 .. n : left[i] = 0 \/ left[i] < frags[i].size} \cup {n + 1}
<1>1. PICK k : k = PullTo(frags, s)
  OBVIOUS
<1>2. k = Min(K)
  BY <1>1 DEF PullTo
<1>3. n \in Nat /\ \A i \in 1 .. n : frags[i].size \in Nat
  BY FragsFacts
<1>4. E \in [0 .. n -> Nat] /\ E[0] = 0 /\ \A i \in 1 .. n : E[i] = E[i - 1] + frags[i].size
  BY <1>3, EndsDef
<1>5. K \subseteq Nat /\ K # {} /\ K \subseteq 1 .. n + 1
  BY <1>3
<1>6. k \in K /\ \A j \in K : k <= j
  <2> HIDE DEF K
  <2> QED
    BY <1>2, <1>5, MinIs
<1>7. k \in 1 .. n + 1
  BY <1>5, <1>6
<1>8. E[k - 1] <= s
  <2>1. CASE k = 1
    BY <1>4, <2>1
  <2>2. CASE k # 1
    <3>1. k - 1 \in 1 .. n /\ k - 1 \notin K
      <4> HIDE DEF K
      <4>1. k - 1 \in 1 .. n /\ ~(k <= k - 1)
        BY <1>3, <1>7, <2>2
      <4> QED
        BY <1>6, <4>1
    <3>2. ~(left[k - 1] < frags[k - 1].size) /\ left[k - 1] = s - E[(k - 1) - 1]
      BY <3>1
    <3>3. E[k - 1] = E[(k - 1) - 1] + frags[k - 1].size /\ (k - 1) - 1 \in 0 .. n
      BY <1>4, <3>1
    <3>4. E[(k - 1) - 1] \in Nat /\ frags[k - 1].size \in Nat
      BY <1>3, <1>4, <3>1, <3>3
    <3> HIDE DEF E, left
    <3> QED
      BY <3>2, <3>3, <3>4
  <2> QED
    BY <2>1, <2>2
<1>9. ASSUME k <= n PROVE s = E[k - 1] \/ s < E[k]
  <2>1. k \in 1 .. n /\ k # n + 1
    BY <1>3, <1>7, <1>9
  <2>2. left[k] = 0 \/ left[k] < frags[k].size
    BY <1>6, <2>1
  <2>3. left[k] = s - E[k - 1] /\ E[k] = E[k - 1] + frags[k].size
    BY <1>4, <2>1
  <2>4. E[k - 1] \in Nat /\ frags[k].size \in Nat
    BY <1>3, <1>4, <2>1
  <2> HIDE DEF E, left
  <2> QED
    BY <2>2, <2>3, <2>4
<1> QED
  BY <1>1, <1>7, <1>8, <1>9

LEMMA PullLen ==
    ASSUME NEW P, NEW frags \in Seq(Fragments(P)), NEW s \in Nat
    PROVE  /\ Pull(frags, s) \in Seq(Fragments(P))
           /\ s <= FragsLen(frags) => FragsLen(Pull(frags, s)) = FragsLen(frags) - s
<1> DEFINE n == Len(frags)
           E == Ends(frags)
<1>1. PICK k : k = PullTo(frags, s)
  OBVIOUS
<1>2. /\ k \in 1 .. n + 1 /\ E[k - 1] <= s
      /\ k <= n => s = E[k - 1] \/ s < E[k]
  BY <1>1, PullToIs
<1>3. n \in Nat /\ \A i \in 1 .. n : frags[i].size \in Nat
  BY FragsFacts
<1>4. E \in [0 .. n -> Nat] /\ E[0] = 0 /\ \A i \in 1 .. n : E[i] = E[i - 1] + frags[i].size
  BY <1>3, EndsDef
<1>5. FragsLen(frags) = E[n] /\ E[n] \in Nat
  BY <1>3, <1>4 DEF FragsLen
<1>6. CASE k > n
  <2>1. Pull(frags, s) = <<>>
    BY <1>1, <1>6 DEF Pull
  <2>2. k - 1 = n
    BY <1>2, <1>3, <1>6
  <2>3. s <= FragsLen(frags) => 0 = FragsLen(frags) - s
    BY <1>2, <1>5, <2>2
  <2>4. <<>> \in Seq(Fragments(P))
    OBVIOUS
  <2> QED
    BY <2>1, <2>3, <2>4, EmptyLen
<1>7. CASE k <= n
  <2>0. k \in 1 .. n /\ k \in 0 .. n /\ k - 1 \in 0 .. n
    BY <1>2, <1>3, <1>7
  <2> DEFINE left == s - E[k - 1]
             x == Frag(frags[k].page, frags[k].off + left, frags[k].size - left)
             rest == SubSeq(frags, k + 1, n)
             r == <<x>> \o rest
             e == [j \in 0 .. n - k + 1 |-> IF j = 0 THEN 0 ELSE E[k + j - 1] - s]
  <2>1. Pull(frags, s) = r
    <3>1. ~(k > Len(frags))
      BY <2>0
    <3> QED
      BY <1>1, <3>1 DEF Pull
  <2>2. /\ E[k - 1] \in Nat /\ E[k] \in Nat /\ E[k] = E[k - 1] + frags[k].size
        /\ frags[k].size \in Nat /\ frags[k].off \in Nat /\ frags[k].page \in P
    BY <1>3, <1>4, <2>0, FragsFacts
  <2>3. left \in Nat /\ frags[k].size - left \in Nat
    <3> HIDE DEF E
    <3>1. E[k - 1] <= s /\ (s = E[k - 1] \/ s < E[k])
      BY <1>2, <1>7
    <3> QED
      BY <2>2, <3>1
  <2>4. x \in Fragments(P) /\ x.size = frags[k].size - left
    <3> HIDE DEF left
    <3>1. frags[k].off + left \in Nat
      BY <2>2, <2>3, SMTT(40)
    <3> QED
      BY <2>2, <2>3, <3>1 DEF Frag, Fragments
  <2>5. <<x>> \in Seq(Fragments(P)) /\ Len(<<x>>) = 1 /\ <<x>>[1] = x
    <3> HIDE DEF x
    <3> QED
      BY <2>4
  <2>6. /\ rest \in Seq(Fragments(P)) /\ Len(rest) = n - k
        /\ \A i \in 1 .. n - k : rest[i] = frags[k + i]
    <3>1. \A i \in k + 1 .. n : frags[i] \in Fragments(P)
      <4> TAKE i \in k + 1 .. n
      <4>1. i \in 1 .. Len(frags)
        BY <1>3, <2>0
      <4> QED
        BY <4>1, ElementOfSeq
    <3>2. k + 1 \in Int /\ n \in Int
      BY <1>3, <2>0
    <3>3. /\ rest \in Seq(Fragments(P)) /\ Len(rest) = IF k + 1 <= n THEN n - (k + 1) + 1 ELSE 0
          /\ \A i \in 1 .. n - (k + 1) + 1 : rest[i] = frags[(k + 1) + i - 1]
      BY <3>1, <3>2, SubSeqProperties
    <3>4. Len(rest) = n - k
      BY <1>3, <2>0, <3>3
    <3>5. ASSUME NEW i \in 1 .. n - k PROVE rest[i] = frags[k + i]
      <4>1. i \in 1 .. n - (k + 1) + 1 /\ (k + 1) + i - 1 = k + i
        BY <1>3, <2>0
      <4> QED
        BY <3>3, <4>1
    <3> QED
      BY <3>3, <3>4, <3>5
  <2>7. /\ r \in Seq(Fragments(P)) /\ Len(r) = n - k + 1
        /\ r[1] = x /\ \A i \in 2 .. n - k + 1 : r[i] = frags[k + i - 1]
    <3> HIDE DEF x, rest
    <3>1. /\ r \in Seq(Fragments(P)) /\ Len(r) = Len(<<x>>) + Len(rest)
          /\ \A i \in 1 .. Len(<<x>>) + Len(rest) :
                r[i] = IF i <= Len(<<x>>) THEN <<x>>[i] ELSE rest[i - Len(<<x>>)]
      BY <2>5, <2>6, ConcatProperties
    <3>2. ASSUME NEW i \in 1 .. 1 + (n - k) PROVE r[i] = IF i <= 1 THEN <<x>>[i] ELSE rest[i - 1]
      BY <2>5, <2>6, <3>1
    <3>3. r[1] = x
      <4>1. 1 \in 1 .. 1 + (n - k) /\ 1 <= 1
        BY <1>3, <2>0
      <4> QED
        BY <2>5, <3>2, <4>1
    <3>4. ASSUME NEW i \in 2 .. n - k + 1 PROVE r[i] = frags[k + i - 1]
      <4>1. i \in 1 .. 1 + (n - k) /\ ~(i <= 1) /\ i - 1 \in 1 .. n - k /\ k + (i - 1) = k + i - 1
        BY <1>3, <2>0
      <4> QED
        BY <2>6, <3>2, <4>1
    <3>5. Len(r) = n - k + 1
      BY <1>3, <2>0, <2>5, <2>6, <3>1
    <3> QED
      BY <3>1, <3>3, <3>4, <3>5
  <2>8. e[0] = 0
    BY <1>3, <2>0
  <2>9. ASSUME NEW i \in 1 .. n - k + 1 PROVE e[i] = e[i - 1] + r[i].size
    <3>1. i \in 0 .. n - k + 1 /\ i # 0 /\ i - 1 \in 0 .. n - k + 1 /\ k + i - 1 \in 0 .. n
      BY <1>3, <2>0
    <3>2. e[i] = E[k + i - 1] - s
      BY <3>1
    <3>3. CASE i = 1
      <4>1. e[i - 1] = 0
        BY <2>8, <3>3
      <4>2. k + i - 1 = k
        BY <2>0, <3>3
      <4>3. r[i].size = frags[k].size - left
        <5> HIDE DEF x, r
        <5> QED
          BY <2>4, <2>7, <3>3
      <4> HIDE DEF E, e, r
      <4>4. e[i] = E[k] - s
        BY <3>2, <4>2
      <4> QED
        BY <2>2, <4>1, <4>3, <4>4
    <3>4. CASE i # 1
      <4>1. i \in 2 .. n - k + 1 /\ i - 1 # 0 /\ k + i - 1 \in 1 .. n
            /\ k + (i - 1) - 1 = (k + i - 1) - 1 /\ (k + i - 1) - 1 \in 0 .. n
        BY <1>3, <2>0, <3>4
      <4>2. e[i - 1] = E[(k + i - 1) - 1] - s
        BY <3>1, <4>1
      <4>3. r[i] = frags[k + i - 1]
        BY <2>7, <4>1
      <4>4. /\ E[k + i - 1] = E[(k + i - 1) - 1] + frags[k + i - 1].size
            /\ E[k + i - 1] \in Nat /\ E[(k + i - 1) - 1] \in Nat
            /\ frags[k + i - 1].size \in Nat
        BY <1>3, <1>4, <4>1
      <4> HIDE DEF E, e, r
      <4> QED
        BY <3>2, <4>2, <4>3, <4>4
    <3> QED
      BY <3>3, <3>4
  <2>10. FragsLen(r) = e[Len(r)]
    <3> HIDE DEF e, r
    <3>1. Len(r) \in Nat /\ \A i \in 1 .. Len(r) : r[i].size \in Nat
      BY <2>7, FragsFacts
    <3>2. \A i \in 1 .. Len(r) : e[i] = e[i - 1] + r[i].size
      BY <2>7, <2>9
    <3> QED
      BY <2>8, <3>1, <3>2, FragsLenIs
  <2>11. e[n - k + 1] = E[n] - s
    <3>1. n - k + 1 \in 0 .. n - k + 1 /\ n - k + 1 # 0 /\ k + (n - k + 1) - 1 = n
      BY <1>3, <2>0
    <3> QED
      BY <3>1
  <2> HIDE DEF e, r, E
  <2> QED
    BY <1>5, <2>1, <2>7, <2>10, <2>11
<1> QED
  BY <1>2, <1>3, <1>6, <1>7

-----------------------------------------------------------------------------
(* Arithmetic of 16-bit offsets.                                           *)

LEMMA U16Nat == U16 \in Nat /\ 0 < U16
BY CoalesceAssumption

LEMMA ModSmall ==
    ASSUME NEW x \in Nat, x < U16
    PROVE  x % U16 = x
BY U16Nat

LEMMA DivMod ==
    ASSUME NEW x \in Int
    PROVE  /\ x \div U16 \in Int /\ x % U16 \in 0 .. U16 - 1
           /\ x = U16 * (x \div U16) + (x % U16)
BY U16Nat

LEMMA RestUnique ==
    ASSUME NEW q \in Int, NEW s \in 0 .. U16 - 1, NEW p \in Int,
           NEW r \in 0 .. U16 - 1, U16 * q + s = U16 * p + r
    PROVE  s = r
<1>1. q = p \/ q >= p + 1 \/ p >= q + 1
  OBVIOUS
<1>2. CASE q = p
  BY U16Nat, <1>2
<1>3. CASE q >= p + 1
  <2>1. U16 * q = U16 * p + U16 * (q - p)
    BY U16Nat
  <2>2. U16 * (q - p) >= U16
    BY U16Nat, <1>3
  <2> QED
    BY U16Nat, <2>1, <2>2
<1>4. CASE p >= q + 1
  <2>1. U16 * p = U16 * q + U16 * (p - q)
    BY U16Nat
  <2>2. U16 * (p - q) >= U16
    BY U16Nat, <1>4
  <2> QED
    BY U16Nat, <2>1, <2>2
<1> QED
  BY <1>1, <1>2, <1>3, <1>4

LEMMA Distribute ==
    ASSUME NEW p \in Int, NEW q \in Int
    PROVE  U16 * (p + q) = U16 * p + U16 * q /\ U16 * p \in Int /\ U16 * q \in Int
BY U16Nat

LEMMA ModAdd ==
    ASSUME NEW a \in Nat, NEW b \in Nat
    PROVE  ((a % U16) + b) % U16 = (a + b) % U16
<1>1. PICK p, r : p = a \div U16 /\ r = a % U16
  OBVIOUS
<1>2. p \in Int /\ r \in 0 .. U16 - 1 /\ a = U16 * p + r
  BY <1>1, DivMod
<1>3. PICK x, y : x = r + b /\ y = a + b
  OBVIOUS
<1>4. x \in Int /\ y \in Int
  BY <1>2, <1>3, U16Nat
<1>5. PICK q, v : q = x \div U16 /\ v = x % U16
  OBVIOUS
<1>6. q \in Int /\ v \in 0 .. U16 - 1 /\ x = U16 * q + v
  BY <1>4, <1>5, DivMod
<1>7. PICK w, z : w = y \div U16 /\ z = y % U16
  OBVIOUS
<1>8. w \in Int /\ z \in 0 .. U16 - 1 /\ y = U16 * w + z
  BY <1>4, <1>7, DivMod
<1>9. PICK t : t = p + q
  OBVIOUS
<1>10. t \in Int /\ U16 * t = U16 * p + U16 * q /\ U16 * p \in Int /\ U16 * q \in Int
  BY <1>2, <1>6, <1>9, Distribute
<1>11. U16 * t + v = y
  BY <1>2, <1>3, <1>4, <1>6, <1>10
<1>12. v = z
  BY <1>6, <1>8, <1>10, <1>11, RestUnique
<1> QED
  BY <1>1, <1>3, <1>5, <1>7, <1>12

-----------------------------------------------------------------------------
(* The loops of the segmentation.                                           *)

SegT == [off : Nat, dlen : Nat, size : Nat, segs : Nat, seq : Nat, id : Nat,
         fin : BOOLEAN, valid : BOOLEAN]
MetaT == [off : Nat, id : Nat, n : Nat, size : Nat, calls : Nat, out : Seq(SegT)]

\* The end of the first k segments, in 16 bits
EndOf(out, k) == IF k = 0 THEN 0 ELSE (out[k].off + out[k].dlen) % U16

\* Every segment starts where the one before it ended
Follows(ip, out) ==
    \A k \in 1 .. Len(out) :
        /\ out[k].off = EndOf(out, k - 1)
        /\ out[k].seq = IF ip.proto = "tcp" THEN out[k].off ELSE 0

Within(job, out) ==
    \A k \in 1 .. Len(out) : job.hlen + out[k].off + out[k].dlen <= job.len

SkbMetas(job) == {m \in MetaT : Follows(job.p.ip, m.out) /\ m.off = EndOf(m.out, Len(m.out))}
FragMetas(job) == {m \in SkbMetas(job) : Within(job, m.out)}

\* What the loops are given
Job(job) ==
    /\ job.hlen \in Int /\ job.len \in Nat
    /\ IsIp(job.p.ip) /\ IsCoal(job.p.coal) /\ job.p.coal.num_nlos <= MaxNlos

LEMMA ModU8 == ASSUME NEW x \in Nat PROVE (x + 1) % U8 \in Nat
BY CoalesceAssumption

LEMMA ModU16 == ASSUME NEW x \in Int PROVE x % U16 \in Nat /\ x % U16 < U16
BY CoalesceAssumption

LEMMA SegmentType ==
    ASSUME NEW ip, IsIp(ip), NEW m \in MetaT, NEW end, NEW len, NEW valid \in BOOLEAN
    PROVE  /\ Segment(ip, m, end, len, valid) \in SegT
           /\ Segment(ip, m, end, len, valid).off = m.off
           /\ Segment(ip, m, end, len, valid).dlen = m.size * m.n
           /\ Segment(ip, m, end, len, valid).seq = IF ip.proto = "tcp" THEN m.off ELSE 0
<1>1. m.off \in Nat /\ m.size \in Nat /\ m.n \in Nat /\ m.id \in Nat
  BY DEF MetaT
<1>2. m.size * m.n \in Nat
  BY <1>1
<1>3. ip.fin \in BOOLEAN
  BY DEF IsIp
<1>4. (ip.fin /\ ~(end < len)) \in BOOLEAN /\ (valid \/ ZeroCsum(ip)) \in BOOLEAN
  OBVIOUS
<1> QED
  BY <1>1, <1>2, <1>4 DEF Segment, SegT

\* A queued segment
LEMMA Queued ==
    ASSUME NEW job, Job(job), NEW m \in SkbMetas(job), NEW s \in SegT, NEW r,
           r \in MetaT, r.out = Append(m.out, s), r.off = (m.off + s.dlen) % U16,
           s.off = m.off, s.seq = IF job.p.ip.proto = "tcp" THEN s.off ELSE 0
    PROVE  /\ r \in SkbMetas(job)
           /\ m \in FragMetas(job) /\ job.hlen + s.off + s.dlen <= job.len
                  => r \in FragMetas(job)
<1> DEFINE n == Len(m.out)
<1>1. m \in MetaT /\ m.out \in Seq(SegT) /\ m.off \in Nat
  BY DEF SkbMetas, MetaT
<1>2. n \in Nat /\ Len(r.out) = n + 1 /\ r.out[n + 1] = s
      /\ \A k \in 1 .. n : r.out[k] = m.out[k]
  BY <1>1, AppendProperties
<1>3. Follows(job.p.ip, m.out) /\ m.off = EndOf(m.out, n)
  BY DEF SkbMetas
<1>4. EndOf(r.out, n) = EndOf(m.out, n)
  BY <1>2 DEF EndOf
<1>5. ASSUME NEW k \in 1 .. n + 1
      PROVE  /\ r.out[k].off = EndOf(r.out, k - 1)
             /\ r.out[k].seq = IF job.p.ip.proto = "tcp" THEN r.out[k].off ELSE 0
  <2>1. CASE k = n + 1
    <3>1. k - 1 = n
      BY <1>2, <2>1
    <3> QED
      BY <1>2, <1>3, <1>4, <2>1, <3>1
  <2>2. CASE k # n + 1
    <3>1. k \in 1 .. n /\ (k - 1 = 0 \/ k - 1 \in 1 .. n)
      BY <1>2, <2>2
    <3>2. EndOf(r.out, k - 1) = EndOf(m.out, k - 1)
      BY <1>2, <3>1 DEF EndOf
    <3> QED
      BY <1>2, <1>3, <3>1, <3>2 DEF Follows
  <2> QED
    BY <2>1, <2>2
<1>6. Follows(job.p.ip, r.out)
  BY <1>2, <1>5 DEF Follows
<1>7. r.off = EndOf(r.out, Len(r.out))
  BY <1>2 DEF EndOf
<1>8. ASSUME m \in FragMetas(job), job.hlen + s.off + s.dlen <= job.len
      PROVE  Within(job, r.out)
  <2>1. ASSUME NEW k \in 1 .. n + 1
        PROVE  job.hlen + r.out[k].off + r.out[k].dlen <= job.len
    <3>1. CASE k = n + 1
      BY <1>2, <1>8, <3>1
    <3>2. CASE k # n + 1
      <4>1. k \in 1 .. n
        BY <1>2, <3>2
      <4> QED
        BY <1>2, <1>8, <4>1 DEF FragMetas, Within
    <3> QED
      BY <3>1, <3>2
  <2> QED
    BY <1>2, <2>1 DEF Within
<1> QED
  BY <1>6, <1>7, <1>8 DEF SkbMetas, FragMetas

\* The metadata with other counts
LEMMA MetaChange ==
    ASSUME NEW job, NEW m \in SkbMetas(job), NEW r \in MetaT, r.out = m.out, r.off = m.off
    PROVE  r \in SkbMetas(job) /\ (m \in FragMetas(job) => r \in FragMetas(job))
BY DEF SkbMetas, FragMetas

LEMMA FragSegmentDataKeeps ==
    ASSUME NEW job, Job(job), NEW m \in FragMetas(job), NEW id \in Nat, NEW valid \in BOOLEAN
    PROVE  FragSegmentData(job, m, id, valid) \in FragMetas(job)
<1> DEFINE dlen == m.size * m.n
           end == job.hlen + m.off + dlen
           call == [m EXCEPT !.calls = @ + 1]
           s == Segment(job.p.ip, m, end, job.len, valid)
           r == [call EXCEPT !.off = (@ + dlen) % U16, !.id = (id + 1) % U8, !.n = 0,
                             !.out = Append(@, s)]
<1>1. m \in SkbMetas(job) /\ m \in MetaT
  BY DEF FragMetas, SkbMetas
<1>2. /\ m.off \in Nat /\ m.size \in Nat /\ m.n \in Nat /\ m.calls \in Nat /\ m.id \in Nat
      /\ m.out \in Seq(SegT)
  BY <1>1 DEF MetaT
<1>3. call \in MetaT /\ call.out = m.out /\ call.off = m.off
  BY <1>1, <1>2 DEF MetaT
<1>4. call \in FragMetas(job)
  <2> HIDE DEF call
  <2> QED
    BY <1>1, <1>3, MetaChange
<1>5. dlen \in Nat
  BY <1>2
<1>6. s \in SegT /\ s.off = m.off /\ s.dlen = dlen
      /\ s.seq = IF job.p.ip.proto = "tcp" THEN m.off ELSE 0
  BY <1>1, SegmentType DEF Job
<1>7. r \in MetaT /\ r.out = Append(m.out, s) /\ r.off = (m.off + dlen) % U16
  <2> HIDE DEF s, dlen
  <2>1. (id + 1) % U8 \in Nat /\ (m.off + dlen) % U16 \in Nat
    <3>1. m.off + dlen \in Int
      BY <1>2, <1>5
    <3> QED
      BY <3>1, ModU8, ModU16
  <2>2. Append(m.out, s) \in Seq(SegT)
    BY <1>2, <1>6, AppendProperties
  <2>3. PICK o, i, w : o = Append(m.out, s) /\ i = (id + 1) % U8 /\ w = (m.off + dlen) % U16
    OBVIOUS
  <2>4. r = [call EXCEPT !.off = w, !.id = i, !.n = 0, !.out = o]
    BY <1>3, <2>3
  <2> HIDE DEF call
  <2>5. o \in Seq(SegT) /\ i \in Nat /\ w \in Nat
    BY <2>1, <2>2, <2>3
  <2>6. r \in MetaT /\ r.out = o /\ r.off = w
    BY <1>3, <2>4, <2>5 DEF MetaT
  <2> QED
    BY <2>3, <2>6
<1>8. CASE ~(call.calls \in job.fails \/ job.hlen > job.len \/ end > job.len)
  <2>1. FragSegmentData(job, m, id, valid) = r
    BY <1>8 DEF FragSegmentData
  <2>2. end <= job.len
    <3>1. end \in Int /\ job.len \in Int
      <4> HIDE DEF dlen
      <4>1. job.hlen \in Int /\ job.len \in Nat
        BY DEF Job
      <4>2. PICK h, o, d : h = job.hlen /\ o = m.off /\ d = dlen
        OBVIOUS
      <4>3. h \in Int /\ o \in Nat /\ d \in Nat
        BY <1>2, <1>5, <4>1, <4>2
      <4>4. h + o + d \in Int
        BY <4>3
      <4> QED
        BY <4>1, <4>2, <4>4
    <3> HIDE DEF end
    <3> QED
      BY <1>8, <3>1
  <2>3. job.hlen + s.off + s.dlen <= job.len
    <3> HIDE DEF s, dlen
    <3> QED
      BY <1>6, <2>2
  <2> HIDE DEF s, r, dlen
  <2> QED
    BY <1>1, <1>6, <1>7, <2>1, <2>3, Queued
<1>9. CASE call.calls \in job.fails \/ job.hlen > job.len \/ end > job.len
  <2>1. FragSegmentData(job, m, id, valid) = call
    BY <1>9 DEF FragSegmentData
  <2> QED
    BY <1>4, <2>1
<1> QED
  BY <1>8, <1>9

FragStates(job) == [m : FragMetas(job), total : Nat]

LEMMA FragFlushKeeps ==
    ASSUME NEW job, Job(job), NEW s \in FragStates(job)
    PROVE  FragFlush(job, s) \in FragMetas(job)
<1>1. s.m \in FragMetas(job) /\ s.total \in Nat
  BY DEF FragStates
<1>2. FragSegmentData(job, s.m, s.total, TRUE) \in FragMetas(job)
  BY <1>1, FragSegmentDataKeeps
<1> QED
  BY <1>1, <1>2 DEF FragFlush

LEMMA CountKeeps ==
    ASSUME NEW job, NEW m \in SkbMetas(job), NEW k \in Nat
    PROVE  /\ [m EXCEPT !.n = k] \in SkbMetas(job)
           /\ m \in FragMetas(job) => [m EXCEPT !.n = k] \in FragMetas(job)
           /\ [m EXCEPT !.size = k] \in SkbMetas(job)
           /\ m \in FragMetas(job) => [m EXCEPT !.size = k] \in FragMetas(job)
<1>1. m \in MetaT
  BY DEF SkbMetas
<1>2. ASSUME NEW r, r = [m EXCEPT !.n = k] \/ r = [m EXCEPT !.size = k]
      PROVE  r \in SkbMetas(job) /\ (m \in FragMetas(job) => r \in FragMetas(job))
  <2>1. r \in MetaT /\ r.out = m.out /\ r.off = m.off
    BY <1>1, <1>2 DEF MetaT
  <2> QED
    BY <2>1, MetaChange
<1> QED
  BY <1>2

LEMMA FragPacketKeeps ==
    ASSUME NEW job, Job(job), NEW s \in FragStates(job)
    PROVE  FragPacket(job, s) \in FragStates(job)
<1>1. s.m \in FragMetas(job) /\ s.total \in Nat /\ s.m \in SkbMetas(job)
  BY DEF FragStates, FragMetas
<1>2. FragFlush(job, s) \in FragMetas(job) /\ FragFlush(job, s) \in SkbMetas(job)
  BY FragFlushKeeps DEF FragMetas
<1>3. s.m.n \in Nat
  BY <1>1 DEF SkbMetas, MetaT
<1>4. [s.m EXCEPT !.n = 1] \in FragMetas(job) /\ [s.m EXCEPT !.n = s.m.n + 1] \in FragMetas(job)
  <2>1. PICK k : k = s.m.n + 1
    OBVIOUS
  <2>2. k \in Nat /\ 1 \in Nat
    BY <1>3, <2>1
  <2>3. [s.m EXCEPT !.n = k] \in FragMetas(job)
    BY <1>1, <2>2, CountKeeps
  <2>4. [s.m EXCEPT !.n = 1] \in FragMetas(job)
    BY <1>1, <2>2, CountKeeps
  <2> QED
    BY <2>1, <2>3, <2>4
<1>5. [FragFlush(job, s) EXCEPT !.n = 1] \in FragMetas(job)
  BY <1>2, CountKeeps
<1> DEFINE err == s.total \in ErrMask(job.p.coal)
<1>6. FragSegmentData(job, [s.m EXCEPT !.n = 1], s.total, ~err) \in FragMetas(job)
  <2> HIDE DEF err
  <2>1. (~err) \in BOOLEAN
    OBVIOUS
  <2> QED
    BY <1>1, <1>4, <2>1, FragSegmentDataKeeps
<1>7. FragSegmentData(job, [FragFlush(job, s) EXCEPT !.n = 1], s.total, FALSE) \in FragMetas(job)
  BY <1>1, <1>5, FragSegmentDataKeeps
<1>8. PICK m : m = FragPacket(job, s).m
  OBVIOUS
<1>9. m \in FragMetas(job)
  <2>1. CASE ~job.gro
    BY <1>6, <1>8, <2>1 DEF FragPacket
  <2>2. CASE job.gro /\ err
    BY <1>7, <1>8, <2>2 DEF FragPacket
  <2>3. CASE job.gro /\ ~err
    BY <1>4, <1>8, <2>3 DEF FragPacket
  <2> QED
    BY <2>1, <2>2, <2>3
<1>10. FragPacket(job, s) = [m |-> m, total |-> s.total + 1]
  BY <1>8 DEF FragPacket
<1> QED
  BY <1>1, <1>9, <1>10 DEF FragStates

\* A function that is made step by step stays where the steps do
LEMMA Stays ==
    ASSUME NEW n \in Nat, NEW V, NEW e, e[0] \in V,
           \A i \in 1 .. n : e[i - 1] \in V => e[i] \in V
    PROVE  \A i \in 0 .. n : e[i] \in V
<1> DEFINE S == {i \in 0 .. n : e[i] \in V}
<1>1. 0 \in S
  OBVIOUS
<1>2. \A i \in 1 .. n : i - 1 \in S => i \in S
  OBVIOUS
<1>3. 0 .. n \subseteq S
  <2> HIDE DEF S
  <2> QED
    BY <1>1, <1>2, Induction
<1> QED
  BY <1>3

LEMMA FragNloKeeps ==
    ASSUME NEW job, Job(job), NEW s0 \in FragStates(job), NEW nlo \in 1 .. MaxNlos
    PROVE  FragNlo(job, nlo, s0) \in FragStates(job)
<1> DEFINE nl == job.p.coal.nl[nlo]
           n == nl.num
           V == FragStates(job)
           v == [s0 EXCEPT !.m.size = (nl.len - job.hlen) % U16]
           Is(e) == e = [i \in 0 .. n |-> IF i = 0 THEN v ELSE FragPacket(job, e[i - 1])]
           F == [x \in (1 .. n) \X V |-> FragPacket(job, x[2])]
<1>1. n \in Nat /\ nl.len \in Nat
  <2>1. nlo \in 1 .. Len(job.p.coal.nl)
    BY CoalesceAssumption DEF Job, IsCoal
  <2> QED
    BY <2>1 DEF Job, IsCoal
<1>2. v \in V
  <2>1. s0.m \in FragMetas(job) /\ s0.total \in Nat /\ s0.m \in SkbMetas(job)
    BY DEF FragStates, FragMetas
  <2>2. PICK k : k = (nl.len - job.hlen) % U16
    OBVIOUS
  <2>3. k \in Nat
    BY <1>1, <2>2, ModU16 DEF Job
  <2>4. [s0.m EXCEPT !.size = k] \in FragMetas(job)
    BY <2>1, <2>3, CountKeeps
  <2>5. v = [m |-> [s0.m EXCEPT !.size = k], total |-> s0.total]
    BY <2>2 DEF FragStates
  <2> QED
    BY <2>1, <2>4, <2>5 DEF FragStates
<1>3. F \in [(1 .. n) \X V -> V]
  <2> HIDE DEF V, n
  <2>1. ASSUME NEW x \in (1 .. n) \X V PROVE FragPacket(job, x[2]) \in V
    BY FragPacketKeeps DEF V
  <2> QED
    BY <2>1
<1>4. PICK g \in Runs(n, V, v, F) : TRUE
  <2> HIDE DEF V, F, n, v
  <2>1. Runs(n, V, v, F) # {}
    BY <1>1, <1>2, <1>3, Recursion
  <2> QED
    BY <2>1
<1>5. Is(g)
  <2> HIDE DEF V, v, n
  <2>1. g \in [0 .. n -> V] /\ g[0] = v
    BY DEF Runs
  <2>2. ASSUME NEW i \in 1 .. n PROVE g[i] = FragPacket(job, g[i - 1])
    <3>1. g[i] = F[<<i, g[i - 1]>>]
      BY DEF Runs
    <3>2. i - 1 \in 0 .. n
      BY <1>1
    <3>3. <<i, g[i - 1]>> \in (1 .. n) \X V
      BY <2>1, <3>2
    <3> QED
      BY <3>1, <3>3
  <2>3. \A i \in 0 .. n : g[i] = IF i = 0 THEN v ELSE FragPacket(job, g[i - 1])
    <3> TAKE i \in 0 .. n
    <3>1. i = 0 \/ i \in 1 .. n
      BY <1>1
    <3> QED
      BY <2>1, <2>2, <3>1
  <2> QED
    BY <2>1, <2>3
<1>6. PICK e : e = CHOOSE h : Is(h)
  OBVIOUS
<1>7. Is(e)
  <2> HIDE DEF Is
  <2> QED
    BY <1>5, <1>6
<1>8. e[n] \in V
  <2> HIDE DEF V, v, n
  <2>1. e[0] = v /\ \A i \in 1 .. n : e[i] = FragPacket(job, e[i - 1])
    BY <1>1, <1>7
  <2>2. \A i \in 1 .. n : e[i - 1] \in V => e[i] \in V
    BY <2>1, FragPacketKeeps DEF V
  <2>3. e[0] \in V
    BY <1>2, <2>1
  <2>4. \A i \in 0 .. n : e[i] \in V
    BY <1>1, <2>2, <2>3, Stays
  <2> QED
    BY <1>1, <2>4
<1>9. FragNlo(job, nlo, s0) = [e[n] EXCEPT !.m = FragFlush(job, e[n])]
  BY <1>6 DEF FragNlo
<1>10. PICK x : x = e[n]
  OBVIOUS
<1> HIDE DEF v, n, nl
<1>11. FragFlush(job, x) \in FragMetas(job) /\ x \in FragStates(job)
  BY <1>8, <1>10, FragFlushKeeps
<1>12. FragNlo(job, nlo, s0) = [x EXCEPT !.m = FragFlush(job, x)]
  BY <1>9, <1>10
<1> QED
  BY <1>11, <1>12 DEF FragStates

LEMMA FragSegmentLoopKeeps ==
    ASSUME NEW job, Job(job)
    PROVE  FragSegmentLoop(job) \in FragMetas(job)
<1> DEFINE n == job.p.coal.num_nlos
           V == FragStates(job)
           Is(e) == e = [i \in 0 .. n |-> IF i = 0 THEN LoopStart ELSE FragNlo(job, i, e[i - 1])]
           F == [x \in (1 .. n) \X V |-> FragNlo(job, x[1], x[2])]
<1>1. n \in Nat /\ \A i \in 1 .. n : i \in 1 .. MaxNlos
  BY CoalesceAssumption DEF Job, IsCoal
<1>2. LoopStart \in V
  <2>1. Meta \in MetaT /\ Meta.out = <<>> /\ Meta.off = 0
    BY DEF Meta, MetaT
  <2>2. Len(<<>>) = 0 /\ 1 .. 0 = {}
    OBVIOUS
  <2>3. Meta \in FragMetas(job)
    BY <2>1, <2>2 DEF FragMetas, SkbMetas, Follows, Within, EndOf
  <2> QED
    BY <2>3 DEF LoopStart, FragStates
<1>3. F \in [(1 .. n) \X V -> V]
  <2> HIDE DEF V, n
  <2>1. ASSUME NEW x \in (1 .. n) \X V PROVE FragNlo(job, x[1], x[2]) \in V
    BY <1>1, FragNloKeeps DEF V
  <2> QED
    BY <2>1
<1>4. PICK g \in Runs(n, V, LoopStart, F) : TRUE
  <2> HIDE DEF V, F, n
  <2>1. Runs(n, V, LoopStart, F) # {}
    BY <1>1, <1>2, <1>3, Recursion
  <2> QED
    BY <2>1
<1>5. Is(g)
  <2> HIDE DEF V, n
  <2>1. g \in [0 .. n -> V] /\ g[0] = LoopStart
    BY DEF Runs
  <2>2. ASSUME NEW i \in 1 .. n PROVE g[i] = FragNlo(job, i, g[i - 1])
    <3>1. g[i] = F[<<i, g[i - 1]>>]
      BY DEF Runs
    <3>2. i - 1 \in 0 .. n
      BY <1>1
    <3>3. <<i, g[i - 1]>> \in (1 .. n) \X V
      BY <2>1, <3>2
    <3> QED
      BY <3>1, <3>3
  <2>3. \A i \in 0 .. n : g[i] = IF i = 0 THEN LoopStart ELSE FragNlo(job, i, g[i - 1])
    <3> TAKE i \in 0 .. n
    <3>1. i = 0 \/ i \in 1 .. n
      BY <1>1
    <3> QED
      BY <2>1, <2>2, <3>1
  <2> QED
    BY <2>1, <2>3
<1>6. PICK e : e = CHOOSE h : Is(h)
  OBVIOUS
<1>7. Is(e)
  <2> HIDE DEF Is
  <2> QED
    BY <1>5, <1>6
<1>8. e[n] \in V
  <2> HIDE DEF V, n
  <2>1. e[0] = LoopStart /\ \A i \in 1 .. n : e[i] = FragNlo(job, i, e[i - 1])
    BY <1>1, <1>7
  <2>2. \A i \in 1 .. n : e[i - 1] \in V => e[i] \in V
    BY <1>1, <2>1, FragNloKeeps DEF V
  <2>3. e[0] \in V
    BY <1>2, <2>1
  <2>4. \A i \in 0 .. n : e[i] \in V
    BY <1>1, <2>2, <2>3, Stays
  <2> QED
    BY <1>1, <2>4
<1>9. FragSegmentLoop(job) = e[n].m
  BY <1>6 DEF FragSegmentLoop
<1> HIDE DEF n
<1> QED
  BY <1>8, <1>9 DEF FragStates

-----------------------------------------------------------------------------
(* The same over socket buffers.                                            *)

SkbStates(job) == [m : SkbMetas(job), total : Nat]

LEMMA SkbSegmentDataKeeps ==
    ASSUME NEW job, Job(job), NEW m \in SkbMetas(job), NEW id \in Nat, NEW valid \in BOOLEAN
    PROVE  SkbSegmentData(job, m, id, valid) \in SkbMetas(job)
<1> DEFINE dlen == m.size * m.n
           end == job.hlen + m.off + dlen
           call == [m EXCEPT !.calls = @ + 1]
           s == Segment(job.p.ip, m, end, job.len, valid)
           r == [call EXCEPT !.off = (@ + dlen) % U16, !.id = (id + 1) % U8, !.n = 0,
                             !.out = Append(@, s)]
<1>1. m \in SkbMetas(job) /\ m \in MetaT
  BY DEF SkbMetas
<1>2. /\ m.off \in Nat /\ m.size \in Nat /\ m.n \in Nat /\ m.calls \in Nat /\ m.id \in Nat
      /\ m.out \in Seq(SegT)
  BY <1>1 DEF MetaT
<1>3. call \in MetaT /\ call.out = m.out /\ call.off = m.off
  BY <1>1, <1>2 DEF MetaT
<1>4. call \in SkbMetas(job)
  <2> HIDE DEF call
  <2> QED
    BY <1>1, <1>3, MetaChange
<1>5. dlen \in Nat
  BY <1>2
<1>6. s \in SegT /\ s.off = m.off /\ s.dlen = dlen
      /\ s.seq = IF job.p.ip.proto = "tcp" THEN m.off ELSE 0
  BY <1>1, SegmentType DEF Job
<1>7. r \in MetaT /\ r.out = Append(m.out, s) /\ r.off = (m.off + dlen) % U16
  <2> HIDE DEF s, dlen
  <2>1. (id + 1) % U8 \in Nat /\ (m.off + dlen) % U16 \in Nat
    <3>1. m.off + dlen \in Int
      BY <1>2, <1>5
    <3> QED
      BY <3>1, ModU8, ModU16
  <2>2. Append(m.out, s) \in Seq(SegT)
    BY <1>2, <1>6, AppendProperties
  <2>3. PICK o, i, w : o = Append(m.out, s) /\ i = (id + 1) % U8 /\ w = (m.off + dlen) % U16
    OBVIOUS
  <2>4. r = [call EXCEPT !.off = w, !.id = i, !.n = 0, !.out = o]
    BY <1>3, <2>3
  <2> HIDE DEF call
  <2>5. o \in Seq(SegT) /\ i \in Nat /\ w \in Nat
    BY <2>1, <2>2, <2>3
  <2>6. r \in MetaT /\ r.out = o /\ r.off = w
    BY <1>3, <2>4, <2>5 DEF MetaT
  <2> QED
    BY <2>3, <2>6
<1>8. CASE call.calls \notin job.fails
  <2>1. SkbSegmentData(job, m, id, valid) = r
    BY <1>8 DEF SkbSegmentData
  <2> HIDE DEF s, r, dlen
  <2> QED
    BY <1>1, <1>6, <1>7, <2>1, Queued
<1>9. CASE call.calls \in job.fails
  <2>1. SkbSegmentData(job, m, id, valid) = call
    BY <1>9 DEF SkbSegmentData
  <2> QED
    BY <1>4, <2>1
<1> QED
  BY <1>8, <1>9

LEMMA SkbFlushKeeps ==
    ASSUME NEW job, Job(job), NEW s \in SkbStates(job)
    PROVE  SkbFlush(job, s) \in SkbMetas(job)
<1>1. s.m \in SkbMetas(job) /\ s.total \in Nat
  BY DEF SkbStates
<1>2. SkbSegmentData(job, s.m, s.total, TRUE) \in SkbMetas(job)
  BY <1>1, SkbSegmentDataKeeps
<1> QED
  BY <1>1, <1>2 DEF SkbFlush

LEMMA SkbPacketKeeps ==
    ASSUME NEW job, Job(job), NEW s \in SkbStates(job)
    PROVE  SkbPacket(job, s) \in SkbStates(job)
<1>1. s.m \in SkbMetas(job) /\ s.total \in Nat /\ s.m \in SkbMetas(job)
  BY DEF SkbStates
<1>2. SkbFlush(job, s) \in SkbMetas(job) /\ SkbFlush(job, s) \in SkbMetas(job)
  BY SkbFlushKeeps DEF SkbMetas
<1>3. s.m.n \in Nat
  BY <1>1 DEF SkbMetas, MetaT
<1>4. [s.m EXCEPT !.n = 1] \in SkbMetas(job) /\ [s.m EXCEPT !.n = s.m.n + 1] \in SkbMetas(job)
  <2>1. PICK k : k = s.m.n + 1
    OBVIOUS
  <2>2. k \in Nat /\ 1 \in Nat
    BY <1>3, <2>1
  <2>3. [s.m EXCEPT !.n = k] \in SkbMetas(job)
    BY <1>1, <2>2, CountKeeps
  <2>4. [s.m EXCEPT !.n = 1] \in SkbMetas(job)
    BY <1>1, <2>2, CountKeeps
  <2> QED
    BY <2>1, <2>3, <2>4
<1>5. [SkbFlush(job, s) EXCEPT !.n = 1] \in SkbMetas(job)
  BY <1>2, CountKeeps
<1> DEFINE err == s.total \in ErrMask(job.p.coal)
<1>6. SkbSegmentData(job, [s.m EXCEPT !.n = 1], s.total, ~err) \in SkbMetas(job)
  <2> HIDE DEF err
  <2>1. (~err) \in BOOLEAN
    OBVIOUS
  <2> QED
    BY <1>1, <1>4, <2>1, SkbSegmentDataKeeps
<1>7. SkbSegmentData(job, [SkbFlush(job, s) EXCEPT !.n = 1], s.total, FALSE) \in SkbMetas(job)
  BY <1>1, <1>5, SkbSegmentDataKeeps
<1>8. PICK m : m = SkbPacket(job, s).m
  OBVIOUS
<1>9. m \in SkbMetas(job)
  <2>1. CASE ~job.gro
    BY <1>6, <1>8, <2>1 DEF SkbPacket
  <2>2. CASE job.gro /\ err
    BY <1>7, <1>8, <2>2 DEF SkbPacket
  <2>3. CASE job.gro /\ ~err
    BY <1>4, <1>8, <2>3 DEF SkbPacket
  <2> QED
    BY <2>1, <2>2, <2>3
<1>10. SkbPacket(job, s) = [m |-> m, total |-> s.total + 1]
  BY <1>8 DEF SkbPacket
<1> QED
  BY <1>1, <1>9, <1>10 DEF SkbStates

LEMMA SkbNloKeeps ==
    ASSUME NEW job, Job(job), NEW s0 \in SkbStates(job), NEW nlo \in 1 .. MaxNlos
    PROVE  SkbNlo(job, nlo, s0) \in SkbStates(job)
<1> DEFINE nl == job.p.coal.nl[nlo]
           n == nl.num
           V == SkbStates(job)
           v == [s0 EXCEPT !.m.size = (nl.len - job.hlen) % U16]
           Is(e) == e = [i \in 0 .. n |-> IF i = 0 THEN v ELSE SkbPacket(job, e[i - 1])]
           F == [x \in (1 .. n) \X V |-> SkbPacket(job, x[2])]
<1>1. n \in Nat /\ nl.len \in Nat
  <2>1. nlo \in 1 .. Len(job.p.coal.nl)
    BY CoalesceAssumption DEF Job, IsCoal
  <2> QED
    BY <2>1 DEF Job, IsCoal
<1>2. v \in V
  <2>1. s0.m \in SkbMetas(job) /\ s0.total \in Nat /\ s0.m \in SkbMetas(job)
    BY DEF SkbStates
  <2>2. PICK k : k = (nl.len - job.hlen) % U16
    OBVIOUS
  <2>3. k \in Nat
    BY <1>1, <2>2, ModU16 DEF Job
  <2>4. [s0.m EXCEPT !.size = k] \in SkbMetas(job)
    BY <2>1, <2>3, CountKeeps
  <2>5. v = [m |-> [s0.m EXCEPT !.size = k], total |-> s0.total]
    BY <2>2 DEF SkbStates
  <2> QED
    BY <2>1, <2>4, <2>5 DEF SkbStates
<1>3. F \in [(1 .. n) \X V -> V]
  <2> HIDE DEF V, n
  <2>1. ASSUME NEW x \in (1 .. n) \X V PROVE SkbPacket(job, x[2]) \in V
    BY SkbPacketKeeps DEF V
  <2> QED
    BY <2>1
<1>4. PICK g \in Runs(n, V, v, F) : TRUE
  <2> HIDE DEF V, F, n, v
  <2>1. Runs(n, V, v, F) # {}
    BY <1>1, <1>2, <1>3, Recursion
  <2> QED
    BY <2>1
<1>5. Is(g)
  <2> HIDE DEF V, v, n
  <2>1. g \in [0 .. n -> V] /\ g[0] = v
    BY DEF Runs
  <2>2. ASSUME NEW i \in 1 .. n PROVE g[i] = SkbPacket(job, g[i - 1])
    <3>1. g[i] = F[<<i, g[i - 1]>>]
      BY DEF Runs
    <3>2. i - 1 \in 0 .. n
      BY <1>1
    <3>3. <<i, g[i - 1]>> \in (1 .. n) \X V
      BY <2>1, <3>2
    <3> QED
      BY <3>1, <3>3
  <2>3. \A i \in 0 .. n : g[i] = IF i = 0 THEN v ELSE SkbPacket(job, g[i - 1])
    <3> TAKE i \in 0 .. n
    <3>1. i = 0 \/ i \in 1 .. n
      BY <1>1
    <3> QED
      BY <2>1, <2>2, <3>1
  <2> QED
    BY <2>1, <2>3
<1>6. PICK e : e = CHOOSE h : Is(h)
  OBVIOUS
<1>7. Is(e)
  <2> HIDE DEF Is
  <2> QED
    BY <1>5, <1>6
<1>8. e[n] \in V
  <2> HIDE DEF V, v, n
  <2>1. e[0] = v /\ \A i \in 1 .. n : e[i] = SkbPacket(job, e[i - 1])
    BY <1>1, <1>7
  <2>2. \A i \in 1 .. n : e[i - 1] \in V => e[i] \in V
    BY <2>1, SkbPacketKeeps DEF V
  <2>3. e[0] \in V
    BY <1>2, <2>1
  <2>4. \A i \in 0 .. n : e[i] \in V
    BY <1>1, <2>2, <2>3, Stays
  <2> QED
    BY <1>1, <2>4
<1>9. SkbNlo(job, nlo, s0) = [e[n] EXCEPT !.m = SkbFlush(job, e[n])]
  BY <1>6 DEF SkbNlo
<1>10. PICK x : x = e[n]
  OBVIOUS
<1> HIDE DEF v, n, nl
<1>11. SkbFlush(job, x) \in SkbMetas(job) /\ x \in SkbStates(job)
  BY <1>8, <1>10, SkbFlushKeeps
<1>12. SkbNlo(job, nlo, s0) = [x EXCEPT !.m = SkbFlush(job, x)]
  BY <1>9, <1>10
<1> QED
  BY <1>11, <1>12 DEF SkbStates

LEMMA SkbSegmentNlosKeeps ==
    ASSUME NEW job, Job(job)
    PROVE  SkbSegmentNlos(job) \in SkbMetas(job)
<1> DEFINE n == job.p.coal.num_nlos
           V == SkbStates(job)
           Is(e) == e = [i \in 0 .. n |-> IF i = 0 THEN LoopStart ELSE SkbNlo(job, i, e[i - 1])]
           F == [x \in (1 .. n) \X V |-> SkbNlo(job, x[1], x[2])]
<1>1. n \in Nat /\ \A i \in 1 .. n : i \in 1 .. MaxNlos
  BY CoalesceAssumption DEF Job, IsCoal
<1>2. LoopStart \in V
  <2>1. Meta \in MetaT /\ Meta.out = <<>> /\ Meta.off = 0
    BY DEF Meta, MetaT
  <2>2. Len(<<>>) = 0 /\ 1 .. 0 = {}
    OBVIOUS
  <2>3. Meta \in SkbMetas(job)
    BY <2>1, <2>2 DEF SkbMetas, Follows, Within, EndOf
  <2> QED
    BY <2>3 DEF LoopStart, SkbStates
<1>3. F \in [(1 .. n) \X V -> V]
  <2> HIDE DEF V, n
  <2>1. ASSUME NEW x \in (1 .. n) \X V PROVE SkbNlo(job, x[1], x[2]) \in V
    BY <1>1, SkbNloKeeps DEF V
  <2> QED
    BY <2>1
<1>4. PICK g \in Runs(n, V, LoopStart, F) : TRUE
  <2> HIDE DEF V, F, n
  <2>1. Runs(n, V, LoopStart, F) # {}
    BY <1>1, <1>2, <1>3, Recursion
  <2> QED
    BY <2>1
<1>5. Is(g)
  <2> HIDE DEF V, n
  <2>1. g \in [0 .. n -> V] /\ g[0] = LoopStart
    BY DEF Runs
  <2>2. ASSUME NEW i \in 1 .. n PROVE g[i] = SkbNlo(job, i, g[i - 1])
    <3>1. g[i] = F[<<i, g[i - 1]>>]
      BY DEF Runs
    <3>2. i - 1 \in 0 .. n
      BY <1>1
    <3>3. <<i, g[i - 1]>> \in (1 .. n) \X V
      BY <2>1, <3>2
    <3> QED
      BY <3>1, <3>3
  <2>3. \A i \in 0 .. n : g[i] = IF i = 0 THEN LoopStart ELSE SkbNlo(job, i, g[i - 1])
    <3> TAKE i \in 0 .. n
    <3>1. i = 0 \/ i \in 1 .. n
      BY <1>1
    <3> QED
      BY <2>1, <2>2, <3>1
  <2> QED
    BY <2>1, <2>3
<1>6. PICK e : e = CHOOSE h : Is(h)
  OBVIOUS
<1>7. Is(e)
  <2> HIDE DEF Is
  <2> QED
    BY <1>5, <1>6
<1>8. e[n] \in V
  <2> HIDE DEF V, n
  <2>1. e[0] = LoopStart /\ \A i \in 1 .. n : e[i] = SkbNlo(job, i, e[i - 1])
    BY <1>1, <1>7
  <2>2. \A i \in 1 .. n : e[i - 1] \in V => e[i] \in V
    BY <1>1, <2>1, SkbNloKeeps DEF V
  <2>3. e[0] \in V
    BY <1>2, <2>1
  <2>4. \A i \in 0 .. n : e[i] \in V
    BY <1>1, <2>2, <2>3, Stays
  <2> QED
    BY <1>1, <2>4
<1>9. SkbSegmentNlos(job) = e[n].m
  BY <1>6 DEF SkbSegmentNlos
<1> HIDE DEF n
<1> QED
  BY <1>8, <1>9 DEF SkbStates

-----------------------------------------------------------------------------
(* What the two implementations return.                                     *)

LEMMA SkipExtHdrIs ==
    ASSUME NEW frags, NEW start \in Nat, NEW exts \in Seq(ExtHdrs)
    PROVE  /\ SkipExtHdr(frags, start, exts).len \in Int
           /\ SkipExtHdr(frags, start, exts).len >= 0 /\ ~SkipExtHdr(frags, start, exts).fragp
                  => SkipExtHdr(frags, start, exts).len = start + ExtLen * Len(exts)
<1> DEFINE at(i) == start + ExtLen * (i - 1)
           n == Len(exts)
           K == {i \in 1 .. n :
                     \/ exts[i] \in {"none", "frag"}
                     \/ ~HeaderPtr(frags, at(i), ExtLen)} \cup {n + 1}
           marks(k) == {i \in 1 .. k - 1 : exts[i] \in {"more", "atomic"}}
           fragp(k) == marks(k) # {} /\ exts[Max(marks(k))] = "more"
<1>1. n \in Nat
  OBVIOUS
<1>2. PICK k : k = Min(K)
  OBVIOUS
<1>3. k \in 1 .. n + 1
  <2>1. K \subseteq Nat /\ K # {} /\ K \subseteq 1 .. n + 1
    BY <1>1
  <2>2. Min(K) \in K
    <3> HIDE DEF K
    <3> QED
      BY <2>1, MinIs
  <2> QED
    BY <1>2, <2>1, <2>2
<1>4. at(k) \in Int
  BY <1>3 DEF ExtLen
<1>5. SkipExtHdr(frags, start, exts) =
          IF k > n THEN [len |-> at(k), fragp |-> fragp(k)]
          ELSE IF exts[k] = "frag" /\ HeaderPtr(frags, at(k), ExtLen)
          THEN [len |-> at(k), fragp |-> TRUE]
          ELSE [len |-> -1, fragp |-> fragp(k)]
  BY <1>2 DEF SkipExtHdr
<1>6. PICK r : r = SkipExtHdr(frags, start, exts)
  OBVIOUS
<1> HIDE DEF fragp
<1>7. CASE k > n
  <2>1. r.len = at(k) /\ k - 1 = n
    BY <1>1, <1>3, <1>5, <1>6, <1>7
  <2> QED
    BY <1>4, <1>6, <2>1
<1>8. CASE ~(k > n)
  <2>1. (r.len = at(k) /\ r.fragp) \/ r.len = -1
    BY <1>5, <1>6, <1>8
  <2> QED
    BY <1>4, <1>6, <2>1
<1> QED
  BY <1>7, <1>8

LEMMA FragIpIs ==
    ASSUME NEW ip, IsIp(ip), NEW frags
    PROVE  /\ FragIp(ip, frags).len \in Int
           /\ FragIp(ip, frags).len >= 0 =>
                 FragIp(ip, frags).len =
                    IF ip.version = 4 THEN ip.len ELSE IpMin + ExtLen * Len(ip.exts)
<1> DEFINE v6 == SkipExtHdr(frags, IpMin, ip.exts)
<1>1. IpMin \in Nat /\ ip.exts \in Seq(ExtHdrs) /\ ip.len \in Nat
  BY CoalesceAssumption DEF IsIp
<1>2. v6.len \in Int /\ (v6.len >= 0 /\ ~v6.fragp => v6.len = IpMin + ExtLen * Len(ip.exts))
  BY <1>1, SkipExtHdrIs
<1>3. PICK r : r = FragIp(ip, frags)
  OBVIOUS
<1>4. CASE ip.version = 4 /\ HeaderPtr(frags, 0, IpMin)
  <2>1. r.len = ip.len
    <3> HIDE DEF v6
    <3> QED
      BY <1>3, <1>4 DEF FragIp
  <2> QED
    BY <1>1, <1>3, <1>4, <2>1
<1>5. CASE ip.version = 6 /\ HeaderPtr(frags, 0, IpMin) /\ v6.len >= 0 /\ ~v6.fragp
  <2>1. r.len = v6.len /\ ip.version # 4
    BY <1>3, <1>5 DEF FragIp
  <2> HIDE DEF v6
  <2> QED
    BY <1>2, <1>3, <1>5, <2>1
<1>6. CASE /\ ~(ip.version = 4 /\ HeaderPtr(frags, 0, IpMin))
           /\ ~(ip.version = 6 /\ HeaderPtr(frags, 0, IpMin) /\ v6.len >= 0 /\ ~v6.fragp)
  <2>1. r.len = -1
    BY <1>3, <1>6 DEF FragIp
  <2> QED
    BY <1>3, <2>1
<1> QED
  BY <1>4, <1>5, <1>6

LEMMA FragTransIs ==
    ASSUME NEW ip, IsIp(ip), NEW ipLen, NEW frags
    PROVE  /\ FragTrans(ip, ipLen, frags) \in Int
           /\ FragTrans(ip, ipLen, frags) >= 0 =>
                 FragTrans(ip, ipLen, frags) = IF ip.proto = "tcp" THEN ip.tlen ELSE TransMin
<1>1. ip.tlen \in Nat /\ TransMin \in Nat
  BY CoalesceAssumption DEF IsIp
<1>2. "udp" # "tcp"
  OBVIOUS
<1>3. CASE ip.proto = "tcp" /\ HeaderPtr(frags, ipLen, TransMin)
  BY <1>1, <1>3 DEF FragTrans
<1>4. CASE ip.proto = "udp" /\ HeaderPtr(frags, ipLen, TransMin)
  BY <1>1, <1>4 DEF FragTrans
<1>5. CASE /\ ~(ip.proto = "tcp" /\ HeaderPtr(frags, ipLen, TransMin))
           /\ ~(ip.proto = "udp" /\ HeaderPtr(frags, ipLen, TransMin))
  BY <1>1, <1>5 DEF FragTrans
<1> QED
  BY <1>3, <1>4, <1>5

\* The result of either implementation
Result(r, ip, len) ==
    /\ r.hlen \in Nat /\ Len(r.out) \in Nat
    /\ r.reuse \in BOOLEAN /\ r.calls \in Nat
    /\ r.reuse =>
          /\ r.hlen = HdrLen(ip)
          /\ Len(r.out) = 1 /\ r.out[1].off = 0 /\ r.out[1].dlen = len - r.hlen
          /\ r.out[1].seq = 0 /\ r.out[1].valid \in BOOLEAN
    /\ ~r.reuse => r.out \in Seq(SegT) /\ Follows(ip, r.out)

LEMMA FragSegmentsIs ==
    ASSUME NEW p, IsIp(p.ip), IsCoal(p.coal), FragCheckCoalHeader(p.coal),
           NEW frags, FragsLen(frags) \in Nat, NEW features, NEW sums \in BOOLEAN, NEW fails
    PROVE  LET r == FragSegments(p, frags, features, sums, fails)
           IN  /\ Result(r, p.ip, FragsLen(frags))
               /\ ~r.reuse => \A k \in 1 .. Len(r.out) :
                     r.hlen + r.out[k].off + r.out[k].dlen <= FragsLen(frags)
<1> DEFINE h == p.coal
           len == FragsLen(frags)
           ip == FragIp(p.ip, frags)
           tlen == FragTrans(p.ip, ip.len, frags)
           hlen == ip.len + tlen
           gro == features.gro /\ ip.gro
           job == [p |-> p, hlen |-> hlen, len |-> len, gro |-> gro, fails |-> fails]
           cut == FragSegmentLoop(job)
           AsOne(valid) == [reuse |-> TRUE, hlen |-> hlen, calls |-> 0,
                            out |-> <<WholeFrame(p, hlen, len, valid)>>]
           Cut == [reuse |-> FALSE, hlen |-> hlen, calls |-> cut.calls, out |-> cut.out]
<1>1. PICK r : r = FragSegments(p, frags, features, sums, fails)
  OBVIOUS
<1> DEFINE Goal == /\ Result(r, p.ip, len)
                   /\ ~r.reuse => \A k \in 1 .. Len(r.out) :
                         r.hlen + r.out[k].off + r.out[k].dlen <= len
<1>0. SUFFICES Goal
  BY <1>1
<1>2. ip.len \in Int /\ tlen \in Int
  BY FragIpIs, FragTransIs
<1>3. CASE ip.len < 0 \/ tlen < 0
  <2>1. r = NoSegments
    BY <1>1, <1>3 DEF FragSegments
  <2>2. Len(<<>>) = 0 /\ <<>> \in Seq(SegT) /\ 1 .. 0 = {}
    OBVIOUS
  <2>3. r.hlen = 0 /\ r.out = <<>> /\ r.reuse = FALSE /\ r.calls = 0
    BY <2>1 DEF NoSegments
  <2>4. Result(r, p.ip, len)
    <3>1. r.reuse \in BOOLEAN /\ ~r.reuse
      BY <2>3
    <3>2. r.out \in Seq(SegT) /\ Follows(p.ip, r.out)
      BY <2>2, <2>3 DEF Follows
    <3>3. r.hlen \in Nat /\ Len(r.out) \in Nat /\ r.calls \in Nat
      BY <2>2, <2>3
    <3> QED
      BY <3>1, <3>2, <3>3 DEF Result
  <2> HIDE DEF len
  <2> QED
    BY <2>2, <2>3, <2>4
<1>4. CASE ~(ip.len < 0 \/ tlen < 0)
  <2>1. ip.len >= 0 /\ tlen >= 0
    <3> HIDE DEF ip, tlen
    <3> QED
      BY <1>2, <1>4
  <2>2. hlen \in Nat
    <3> HIDE DEF ip, tlen
    <3> QED
      BY <1>2, <2>1
  <2>3. hlen = HdrLen(p.ip)
    BY <2>1, FragIpIs, FragTransIs DEF HdrLen
  <2>4. ASSUME NEW valid \in BOOLEAN, r = AsOne(valid)
        PROVE  Result(r, p.ip, len) /\ r.reuse
    <3> HIDE DEF hlen, len
    <3>1. PICK w : w = WholeFrame(p, hlen, len, valid)
      OBVIOUS
    <3>2. w.off = 0 /\ w.dlen = len - hlen /\ w.seq = 0 /\ w.valid = valid
      BY <3>1 DEF WholeFrame
    <3>3. /\ r.reuse = TRUE /\ r.hlen = hlen /\ r.calls = 0 /\ r.out = <<w>>
      BY <2>4, <3>1
    <3>4. Len(r.out) = 1 /\ r.out[1] = w
      BY <3>3
    <3>5. /\ r.out[1].off = 0 /\ r.out[1].dlen = len - r.hlen /\ r.out[1].seq = 0
          /\ r.out[1].valid = valid
      BY <3>2, <3>3, <3>4
    <3>6. r.hlen \in Nat /\ r.hlen = HdrLen(p.ip) /\ r.calls \in Nat /\ Len(r.out) \in Nat
      BY <2>2, <2>3, <3>3, <3>4
    <3>7. r.reuse \in BOOLEAN /\ r.reuse /\ r.out[1].valid \in BOOLEAN
      BY <3>3, <3>5
    <3> QED
      BY <3>4, <3>5, <3>6, <3>7 DEF Result
  <2>5. ASSUME r = Cut
        PROVE  /\ Result(r, p.ip, len) /\ ~r.reuse
               /\ \A k \in 1 .. Len(r.out) : r.hlen + r.out[k].off + r.out[k].dlen <= len
    <3> HIDE DEF hlen, len, gro
    <3>1. job.hlen = hlen /\ job.len = len /\ job.p = p
      OBVIOUS
    <3>2. Job(job)
      <4> HIDE DEF job
      <4>1. len \in Nat
        BY DEF len
      <4>2. p.coal.num_nlos <= MaxNlos
        BY CoalesceAssumption DEF FragCheckCoalHeader
      <4> QED
        BY <2>2, <3>1, <4>1, <4>2 DEF Job
    <3>3. cut \in FragMetas(job)
      <4> HIDE DEF job
      <4> QED
        BY <3>2, FragSegmentLoopKeeps
    <3>4. r.reuse = FALSE /\ r.hlen = hlen /\ r.calls = cut.calls /\ r.out = cut.out
      BY <2>5
    <3> HIDE DEF job, cut
    <3>5. cut \in MetaT /\ Follows(p.ip, cut.out) /\ Within(job, cut.out)
      BY <3>1, <3>3 DEF FragMetas, SkbMetas
    <3>6. cut.out \in Seq(SegT) /\ cut.calls \in Nat
      BY <3>5 DEF MetaT
    <3>7. Len(cut.out) \in Nat
      BY <3>6
    <3> QED
      BY <2>2, <3>1, <3>4, <3>5, <3>6, <3>7 DEF Result, Within
  <2>6. r = AsOne(sums) \/ r = AsOne(TRUE) \/ r = Cut
    BY <1>1, <1>4 DEF FragSegments
  <2> QED
    <3> HIDE DEF AsOne, Cut, len
    <3>1. CASE r = AsOne(sums)
      BY <2>4, <3>1
    <3>2. CASE r = AsOne(TRUE)
      BY <2>4, <3>2
    <3>3. CASE r = Cut
      BY <2>5, <3>3
    <3> QED
      BY <2>6, <3>1, <3>2, <3>3
<1> QED
  BY <1>3, <1>4

LEMMA SkbIpIs ==
    ASSUME NEW ip, IsIp(ip), NEW len
    PROVE  /\ SkbIp(ip, len).len \in Int
           /\ SkbIp(ip, len).len >= 0 =>
                 SkbIp(ip, len).len =
                    IF ip.version = 4 THEN ip.len ELSE IpMin + ExtLen * Len(ip.exts)
<1> DEFINE v6 == SkipExtHdr(<<Frag(0, 0, len)>>, IpMin, ip.exts)
<1>1. IpMin \in Nat /\ ip.exts \in Seq(ExtHdrs) /\ ip.len \in Nat
  BY CoalesceAssumption DEF IsIp
<1>2. v6.len \in Int /\ (v6.len >= 0 /\ ~v6.fragp => v6.len = IpMin + ExtLen * Len(ip.exts))
  BY <1>1, SkipExtHdrIs
<1>3. PICK r : r = SkbIp(ip, len)
  OBVIOUS
<1>4. CASE ip.version = 4
  <2>1. r.len = ip.len
    <3> HIDE DEF v6
    <3> QED
      BY <1>3, <1>4 DEF SkbIp
  <2> QED
    BY <1>1, <1>3, <1>4, <2>1
<1>5. CASE ip.version = 6 /\ v6.len >= 0 /\ ~v6.fragp
  <2>1. r.len = v6.len /\ ip.version # 4
    BY <1>3, <1>5 DEF SkbIp
  <2> HIDE DEF v6
  <2> QED
    BY <1>2, <1>3, <1>5, <2>1
<1>6. CASE ip.version # 4 /\ ~(ip.version = 6 /\ v6.len >= 0 /\ ~v6.fragp)
  <2>1. r.len = -1
    BY <1>3, <1>6 DEF SkbIp
  <2> QED
    BY <1>3, <2>1
<1> QED
  BY <1>4, <1>5, <1>6

LEMMA SkbTransIs ==
    ASSUME NEW ip, IsIp(ip)
    PROVE  /\ SkbTrans(ip) \in Int
           /\ SkbTrans(ip) >= 0 => SkbTrans(ip) = IF ip.proto = "tcp" THEN ip.tlen ELSE TransMin
<1>1. ip.tlen \in Nat /\ TransMin \in Nat
  BY CoalesceAssumption DEF IsIp
<1> QED
  BY <1>1 DEF SkbTrans

LEMMA SkbSegmentsIs ==
    ASSUME NEW p, IsIp(p.ip), IsCoal(p.coal), SkbCheckCoalHeader(p.coal),
           NEW len \in Nat, NEW features, NEW fails
    PROVE  Result(SkbSegments(p, len, features, fails), p.ip, len)
<1> DEFINE h == p.coal
           ip == SkbIp(p.ip, len)
           tlen == SkbTrans(p.ip)
           hlen == ip.len + tlen
           gro == features.gro /\ ip.gro
           job == [p |-> p, hlen |-> hlen, len |-> len, gro |-> gro, fails |-> fails]
           cut == SkbSegmentNlos(job)
           AsOne(valid) == [reuse |-> TRUE, hlen |-> hlen, calls |-> 0,
                            out |-> <<WholeFrame(p, hlen, len, valid)>>]
           Cut == [reuse |-> FALSE, hlen |-> hlen, calls |-> cut.calls, out |-> cut.out]
<1>1. PICK r : r = SkbSegments(p, len, features, fails)
  OBVIOUS
<1>0. SUFFICES Result(r, p.ip, len)
  BY <1>1
<1>2. ip.len \in Int /\ tlen \in Int
  BY SkbIpIs, SkbTransIs
<1>3. CASE ip.len < 0 \/ tlen < 0
  <2>1. r = NoSegments
    BY <1>1, <1>3 DEF SkbSegments
  <2>2. Len(<<>>) = 0 /\ <<>> \in Seq(SegT) /\ 1 .. 0 = {}
    OBVIOUS
  <2>3. r.hlen = 0 /\ r.out = <<>> /\ r.reuse = FALSE /\ r.calls = 0
    BY <2>1 DEF NoSegments
  <2>4. Result(r, p.ip, len)
    <3>1. r.reuse \in BOOLEAN /\ ~r.reuse
      BY <2>3
    <3>2. r.out \in Seq(SegT) /\ Follows(p.ip, r.out)
      BY <2>2, <2>3 DEF Follows
    <3>3. r.hlen \in Nat /\ Len(r.out) \in Nat /\ r.calls \in Nat
      BY <2>2, <2>3
    <3> QED
      BY <3>1, <3>2, <3>3 DEF Result
  <2> QED
    BY <2>4
<1>4. CASE ~(ip.len < 0 \/ tlen < 0)
  <2>1. ip.len >= 0 /\ tlen >= 0
    <3> HIDE DEF ip, tlen
    <3> QED
      BY <1>2, <1>4
  <2>2. hlen \in Nat
    <3> HIDE DEF ip, tlen
    <3> QED
      BY <1>2, <2>1
  <2>3. hlen = HdrLen(p.ip)
    BY <2>1, SkbIpIs, SkbTransIs DEF HdrLen
  <2>4. ASSUME NEW valid \in BOOLEAN, r = AsOne(valid)
        PROVE  Result(r, p.ip, len) /\ r.reuse
    <3> HIDE DEF hlen
    <3>1. PICK w : w = WholeFrame(p, hlen, len, valid)
      OBVIOUS
    <3>2. w.off = 0 /\ w.dlen = len - hlen /\ w.seq = 0 /\ w.valid = valid
      BY <3>1 DEF WholeFrame
    <3>3. /\ r.reuse = TRUE /\ r.hlen = hlen /\ r.calls = 0 /\ r.out = <<w>>
      BY <2>4, <3>1
    <3>4. Len(r.out) = 1 /\ r.out[1] = w
      BY <3>3
    <3>5. /\ r.out[1].off = 0 /\ r.out[1].dlen = len - r.hlen /\ r.out[1].seq = 0
          /\ r.out[1].valid = valid
      BY <3>2, <3>3, <3>4
    <3>6. r.hlen \in Nat /\ r.hlen = HdrLen(p.ip) /\ r.calls \in Nat /\ Len(r.out) \in Nat
      BY <2>2, <2>3, <3>3, <3>4
    <3>7. r.reuse \in BOOLEAN /\ r.reuse /\ r.out[1].valid \in BOOLEAN
      BY <3>3, <3>5
    <3> QED
      BY <3>4, <3>5, <3>6, <3>7 DEF Result
  <2>5. ASSUME r = Cut
        PROVE  Result(r, p.ip, len)
    <3> HIDE DEF hlen, gro
    <3>1. job.hlen = hlen /\ job.len = len /\ job.p = p
      OBVIOUS
    <3>2. Job(job)
      <4> HIDE DEF job
      <4>2. p.coal.num_nlos <= MaxNlos
        BY CoalesceAssumption DEF SkbCheckCoalHeader
      <4> QED
        BY <2>2, <3>1, <4>2 DEF Job
    <3>3. cut \in SkbMetas(job)
      <4> HIDE DEF job
      <4> QED
        BY <3>2, SkbSegmentNlosKeeps
    <3>4. r.reuse = FALSE /\ r.hlen = hlen /\ r.calls = cut.calls /\ r.out = cut.out
      BY <2>5
    <3> HIDE DEF job, cut
    <3>5. cut \in MetaT /\ Follows(p.ip, cut.out)
      BY <3>1, <3>3 DEF SkbMetas
    <3>6. cut.out \in Seq(SegT) /\ cut.calls \in Nat
      BY <3>5 DEF MetaT
    <3>7. Len(cut.out) \in Nat
      BY <3>6
    <3> QED
      BY <2>2, <3>1, <3>4, <3>5, <3>6, <3>7 DEF Result
  <2>6. r = AsOne(p.ip.good) \/ r = AsOne(TRUE) \/ r = Cut
    BY <1>1, <1>4 DEF SkbSegments
  <2> QED
    <3> HIDE DEF AsOne, Cut
    <3>1. CASE r = AsOne(p.ip.good)
      <4>1. p.ip.good \in BOOLEAN
        BY DEF IsIp
      <4> QED
        BY <2>4, <3>1, <4>1
    <3>2. CASE r = AsOne(TRUE)
      BY <2>4, <3>2
    <3>3. CASE r = Cut
      BY <2>5, <3>3
    <3> QED
      BY <2>6, <3>1, <3>2, <3>3
<1> QED
  BY <1>3, <1>4


LEMMA SegBytesIs ==
    ASSUME NEW out, NEW k \in Nat, \A i \in 1 .. k : out[i].dlen \in Int,
           NEW e, e[0] = 0, \A i \in 1 .. k : e[i] = e[i - 1] + out[i].dlen
    PROVE  SegBytes(out, k) = e[k]
<1> DEFINE Is(g) == g = [i \in 0 .. k |-> IF i = 0 THEN 0 ELSE g[i - 1] + out[i].dlen]
           F == [x \in (1 .. k) \X Int |-> x[2] + out[x[1]].dlen]
<1>1. F \in [(1 .. k) \X Int -> Int]
  <2>1. \A x \in (1 .. k) \X Int : x[2] + out[x[1]].dlen \in Int
    OBVIOUS
  <2> QED
    BY <2>1
<1>2. PICK g \in Runs(k, Int, 0, F) : TRUE
  <2> HIDE DEF F
  <2>1. Runs(k, Int, 0, F) # {}
    <3>1. 0 \in Int
      OBVIOUS
    <3> QED
      BY <1>1, <3>1, Recursion
  <2> QED
    BY <2>1
<1>3. Is(g)
  <2>1. g \in [0 .. k -> Int] /\ g[0] = 0
    BY DEF Runs
  <2>2. ASSUME NEW i \in 1 .. k PROVE g[i] = g[i - 1] + out[i].dlen
    <3>1. g[i] = F[<<i, g[i - 1]>>]
      BY DEF Runs
    <3>2. i - 1 \in 0 .. k
      OBVIOUS
    <3>3. <<i, g[i - 1]>> \in (1 .. k) \X Int
      BY <2>1, <3>2
    <3> QED
      BY <3>1, <3>3
  <2>3. \A i \in 0 .. k : g[i] = IF i = 0 THEN 0 ELSE g[i - 1] + out[i].dlen
    BY <2>1, <2>2
  <2> QED
    BY <2>1, <2>3
<1>4. PICK s : s = CHOOSE h : Is(h)
  OBVIOUS
<1>5. Is(s)
  <2> HIDE DEF Is
  <2> QED
    BY <1>3, <1>4
<1>6. s[0] = 0 /\ \A i \in 1 .. k : s[i] = s[i - 1] + out[i].dlen
  <2>1. \A i \in 0 .. k : s[i] = IF i = 0 THEN 0 ELSE s[i - 1] + out[i].dlen
    BY <1>5
  <2>2. s[0] = 0
    BY <2>1
  <2>3. ASSUME NEW i \in 1 .. k PROVE s[i] = s[i - 1] + out[i].dlen
    <3>1. i \in 0 .. k /\ i # 0
      OBVIOUS
    <3> QED
      BY <2>1, <3>1
  <2> QED
    BY <2>2, <2>3
<1>7. SegBytes(out, k) = s[k]
  BY <1>4 DEF SegBytes
<1> DEFINE S == {i \in 0 .. k : s[i] = e[i]}
<1> HIDE DEF Is
<1>8. 0 .. k \subseteq S
  <2>1. 0 \in S
    BY <1>6
  <2>2. \A i \in 1 .. k : i - 1 \in S => i \in S
    BY <1>6
  <2> HIDE DEF S
  <2> QED
    BY <2>1, <2>2, Induction
<1> QED
  BY <1>7, <1>8

\* The sums that SegBytes is the last of
LEMMA SegBytesRun ==
    ASSUME NEW out, NEW k \in Nat, \A i \in 1 .. k : out[i].dlen \in Nat
    PROVE  \E e \in [0 .. k -> Nat] :
               /\ e[0] = 0 /\ \A i \in 1 .. k : e[i] = e[i - 1] + out[i].dlen
               /\ SegBytes(out, k) = e[k]
<1> DEFINE F == [x \in (1 .. k) \X Nat |-> x[2] + out[x[1]].dlen]
<1>1. F \in [(1 .. k) \X Nat -> Nat]
  <2>1. \A x \in (1 .. k) \X Nat : x[2] + out[x[1]].dlen \in Nat
    OBVIOUS
  <2> QED
    BY <2>1
<1>2. PICK g \in Runs(k, Nat, 0, F) : TRUE
  <2> HIDE DEF F
  <2>1. Runs(k, Nat, 0, F) # {}
    <3>1. 0 \in Nat
      OBVIOUS
    <3> QED
      BY <1>1, <3>1, Recursion
  <2> QED
    BY <2>1
<1>3. g \in [0 .. k -> Nat] /\ g[0] = 0
  BY DEF Runs
<1>4. ASSUME NEW i \in 1 .. k PROVE g[i] = g[i - 1] + out[i].dlen
  <2>1. g[i] = F[<<i, g[i - 1]>>]
    BY DEF Runs
  <2>2. i - 1 \in 0 .. k
    OBVIOUS
  <2>3. <<i, g[i - 1]>> \in (1 .. k) \X Nat
    BY <1>3, <2>2
  <2> QED
    BY <2>1, <2>3
<1>5. \A i \in 1 .. k : out[i].dlen \in Int
  OBVIOUS
<1>6. SegBytes(out, k) = g[k]
  <2>1. \A i \in 1 .. k : g[i] = g[i - 1] + out[i].dlen
    BY <1>4
  <2>2. g[0] = 0
    BY <1>3
  <2> QED
    BY ONLY <1>5, <2>1, <2>2, k \in Nat, SegBytesIs, SMTT(40)
<1> QED
  BY <1>3, <1>4, <1>6

\* A segment that follows the others starts at their bytes, in 16 bits; where
\* none of them reaches the end of 16 bits, exactly there
LEMMA FollowsSum ==
    ASSUME NEW ip, NEW out \in Seq(SegT), Follows(ip, out), NEW k \in 1 .. Len(out)
    PROVE  /\ out[k].off = SegBytes(out, k - 1) % U16
           /\ (\A i \in 1 .. Len(out) : out[i].off + out[i].dlen < U16)
                  => out[k].off = SegBytes(out, k - 1)
<1>1. PICK j : j = k - 1
  OBVIOUS
<1>2. j \in Nat /\ j + 1 = k /\ Len(out) \in Nat
  BY <1>1
<1>3. ASSUME NEW i \in 1 .. Len(out)
      PROVE  out[i].off \in Nat /\ out[i].dlen \in Nat /\ out[i].off = EndOf(out, i - 1)
  <2>1. out[i] \in SegT
    BY ElementOfSeq
  <2> QED
    BY <2>1 DEF SegT, Follows
<1>4. \A i \in 1 .. j : i \in 1 .. Len(out)
  BY <1>1, <1>2
<1>5. PICK e \in [0 .. j -> Nat] :
        /\ e[0] = 0 /\ \A i \in 1 .. j : e[i] = e[i - 1] + out[i].dlen
        /\ SegBytes(out, j) = e[j]
  <2>1. \A i \in 1 .. j : out[i].dlen \in Nat
    BY <1>3, <1>4
  <2> QED
    BY <1>2, <2>1, SegBytesRun
<1>6. ASSUME NEW i \in 1 .. j
      PROVE  /\ i - 1 \in 0 .. j /\ e[i - 1] \in Nat /\ out[i].dlen \in Nat
             /\ EndOf(out, i) = (EndOf(out, i - 1) + out[i].dlen) % U16
             /\ e[i] = e[i - 1] + out[i].dlen
             /\ EndOf(out, i - 1) + out[i].dlen = out[i].off + out[i].dlen
             /\ out[i].off + out[i].dlen \in Nat
  <2>1. i \in 1 .. Len(out) /\ i # 0 /\ i - 1 \in 0 .. j
    BY <1>2, <1>4
  <2>2. EndOf(out, i) = (out[i].off + out[i].dlen) % U16
    BY <2>1 DEF EndOf
  <2> QED
    BY <1>3, <1>5, <2>1, <2>2
<1>7. EndOf(out, 0) = 0 /\ 0 \in 0 .. j /\ j \in 0 .. j
  BY <1>2 DEF EndOf
<1>8. EndOf(out, j) = e[j] % U16
  <2> DEFINE S == {i \in 0 .. j : EndOf(out, i) = e[i] % U16}
  <2>1. 0 \in S
    <3>1. 0 % U16 = 0
      BY U16Nat, ModSmall
    <3> QED
      BY <1>5, <1>7, <3>1
  <2>2. ASSUME NEW i \in 1 .. j, i - 1 \in S PROVE i \in S
    <3>1. EndOf(out, i) = ((e[i - 1] % U16) + out[i].dlen) % U16
      BY <1>6, <2>2
    <3>2. ((e[i - 1] % U16) + out[i].dlen) % U16 = (e[i - 1] + out[i].dlen) % U16
      BY <1>6, ModAdd
    <3>3. i \in 0 .. j
      OBVIOUS
    <3> QED
      BY <1>6, <3>1, <3>2, <3>3
  <2>3. 0 .. j \subseteq S
    <3> HIDE DEF S
    <3> QED
      BY <1>2, <2>1, <2>2, Induction
  <2> QED
    BY <1>7, <2>3
<1>9. ASSUME \A i \in 1 .. Len(out) : out[i].off + out[i].dlen < U16
      PROVE  EndOf(out, j) = e[j]
  <2> DEFINE S == {i \in 0 .. j : EndOf(out, i) = e[i]}
  <2>1. 0 \in S
    BY <1>5, <1>7
  <2>2. ASSUME NEW i \in 1 .. j, i - 1 \in S PROVE i \in S
    <3>1. out[i].off + out[i].dlen < U16
      BY <1>4, <1>9
    <3>2. (out[i].off + out[i].dlen) % U16 = out[i].off + out[i].dlen
      BY <1>6, <3>1, ModSmall
    <3>3. i \in 0 .. j
      OBVIOUS
    <3> QED
      BY <1>6, <2>2, <3>2, <3>3
  <2>3. 0 .. j \subseteq S
    <3> HIDE DEF S
    <3> QED
      BY <1>2, <2>1, <2>2, Induction
  <2> QED
    BY <1>7, <2>3
<1>10. out[k].off = EndOf(out, j)
  BY <1>1, <1>3
<1> QED
  BY <1>1, <1>5, <1>8, <1>9, <1>10

LEMMA FollowsNoHole ==
    ASSUME NEW r, NEW ip, NEW len \in Nat, Result(r, ip, len), NEW k \in 1 .. Len(r.out)
    PROVE  /\ r.out[k].off = SegBytes(r.out, k - 1) % U16
           /\ r.out[k].seq = IF ip.proto = "tcp" THEN r.out[k].off ELSE 0
           /\ r.reuse \/ (\A i \in 1 .. Len(r.out) :
                             r.out[i].off + r.out[i].dlen < U16)
                  => r.out[k].off = SegBytes(r.out, k - 1)
<1>1. PICK out : out = r.out
  OBVIOUS
<1>2. k \in Nat /\ k - 1 \in Nat /\ Len(out) \in Nat
  BY <1>1 DEF Result
<1>3. CASE r.reuse
  <2>1. Len(out) = 1 /\ out[1].off = 0 /\ out[1].seq = 0
    BY <1>1, <1>3 DEF Result
  <2>2. k = 1 /\ k - 1 = 0
    BY <1>1, <2>1
  <2> DEFINE e == [i \in 0 .. 0 |-> 0]
  <2>3. e[0] = 0 /\ 1 .. 0 = {}
    OBVIOUS
  <2>4. SegBytes(out, 0) = e[0]
    <3> HIDE DEF e
    <3> QED
      BY <2>3, SegBytesIs
  <2>5. 0 % U16 = 0
    BY U16Nat, ModSmall
  <2> QED
    BY <1>1, <2>1, <2>2, <2>3, <2>4, <2>5
<1>4. CASE ~r.reuse
  <2>1. out \in Seq(SegT) /\ Follows(ip, out) /\ k \in 1 .. Len(out)
    BY <1>1, <1>4 DEF Result
  <2>2. out[k].seq = IF ip.proto = "tcp" THEN out[k].off ELSE 0
    BY <2>1 DEF Follows
  <2> QED
    BY <1>1, <1>4, <2>1, <2>2, FollowsSum
<1> QED
  BY <1>3, <1>4

-----------------------------------------------------------------------------
(* The theorems about segmentation.                                         *)

\* What the paths have returned for the frame
SegInv ==
    /\ IsIp(frame.p.ip) /\ IsCoal(frame.p.coal)
    /\ FragsLen(frame.frags) \in Nat
    /\ Result(frag, frame.p.ip, FragsLen(frame.frags))
    /\ Result(skb, frame.p.ip, FragsLen(frame.frags))
    /\ ~frag.reuse => \A k \in 1 .. Len(frag.out) :
           frag.hlen + frag.out[k].off + frag.out[k].dlen <= FragsLen(frame.frags)

LEMMA NoResult ==
    ASSUME NEW ip, NEW len
    PROVE  Result(NoSegments, ip, len) /\ NoSegments.out = <<>> /\ ~NoSegments.reuse
<1>1. Len(<<>>) = 0 /\ <<>> \in Seq(SegT) /\ 1 .. 0 = {}
  OBVIOUS
<1>2. PICK r : r = NoSegments
  OBVIOUS
<1>3. r.hlen = 0 /\ r.out = <<>> /\ r.reuse = FALSE /\ r.calls = 0
  BY <1>2 DEF NoSegments
<1>4. r.reuse \in BOOLEAN /\ ~r.reuse
  BY <1>3
<1>5. r.out \in Seq(SegT) /\ Follows(ip, r.out)
  BY <1>1, <1>3 DEF Follows
<1>6. r.hlen \in Nat /\ Len(r.out) \in Nat /\ r.calls \in Nat
  BY <1>1, <1>3
<1> QED
  BY <1>2, <1>3, <1>4, <1>5, <1>6 DEF Result

LEMMA SegInitInv == SegInit => SegInv
<1> SUFFICES ASSUME SegInit PROVE SegInv
  OBVIOUS
<1>1. PICK frames \in Families : frame \in frames
  BY DEF SegInit
<1>2. /\ IsIp(frame.p.ip) /\ IsCoal(frame.p.coal) /\ Len(frame.frags) \in Nat
      /\ \A i \in 1 .. Len(frame.frags) : frame.frags[i].size \in Nat
  BY <1>1, FamiliesAssumption
<1>3. FragsLen(frame.frags) \in Nat
  <2>1. Ends(frame.frags) \in [0 .. Len(frame.frags) -> Nat]
    BY <1>2, EndsDef
  <2> QED
    BY <1>2, <2>1 DEF FragsLen
<1>4. frag = NoSegments /\ skb = NoSegments
  BY DEF SegInit
<1>5. Len(<<>>) = 0 /\ 1 .. 0 = {}
  OBVIOUS
<1>6. Result(frag, frame.p.ip, FragsLen(frame.frags)) /\ Result(skb, frame.p.ip, FragsLen(frame.frags))
  BY <1>4, NoResult
<1>7. frag.out = <<>>
  BY <1>4, NoResult
<1> QED
  BY <1>2, <1>3, <1>5, <1>6, <1>7 DEF SegInv

LEMMA SegNextInv == SegInv /\ [SegNext]_segVars => SegInv'
<1> SUFFICES ASSUME SegInv, [SegNext]_segVars PROVE SegInv'
  OBVIOUS
<1> DEFINE f == frame
           len == FragsLen(frame.frags)
<1>1. CASE SegmentFrags
  <2>1. PICK sums \in FragValidateCsum(f.p.ip, f.frags) :
            frag' = IF FragCheckCoalHeader(f.p.coal)
                    THEN FragSegments(f.p, f.frags, f.features, sums, f.fails)
                    ELSE NoSegments
    BY <1>1 DEF SegmentFrags
  <2>2. frame' = frame /\ skb' = skb
    BY <1>1 DEF SegmentFrags
  <2>3. PICK r : r = frag'
    OBVIOUS
  <2>4. /\ Result(r, f.p.ip, len)
        /\ ~r.reuse => \A k \in 1 .. Len(r.out) : r.hlen + r.out[k].off + r.out[k].dlen <= len
    <3>1. CASE FragCheckCoalHeader(f.p.coal)
      <4>1. sums \in BOOLEAN
        BY DEF FragValidateCsum, SegInv, IsIp
      <4>2. r = FragSegments(f.p, f.frags, f.features, sums, f.fails)
        BY <2>1, <2>3, <3>1
      <4> QED
        BY <3>1, <4>1, <4>2, FragSegmentsIs DEF SegInv
    <3>2. CASE ~FragCheckCoalHeader(f.p.coal)
      <4>1. r = NoSegments
        BY <2>1, <2>3, <3>2
      <4>2. Result(r, f.p.ip, len) /\ r.out = <<>>
        BY <4>1, NoResult
      <4>3. Len(<<>>) = 0 /\ 1 .. 0 = {}
        OBVIOUS
      <4> QED
        BY <4>2, <4>3
    <3> QED
      BY <3>1, <3>2
  <2> QED
    BY <2>2, <2>3, <2>4 DEF SegInv
<1>2. CASE SegmentSkb
  <2>1. frame' = frame /\ frag' = frag
    BY <1>2 DEF SegmentSkb
  <2>2. Result(skb', f.p.ip, len)
    <3>1. CASE SkbCheckCoalHeader(f.p.coal)
      <4>1. skb' = SkbSegments(f.p, len, f.features, f.fails)
        BY <1>2, <3>1 DEF SegmentSkb
      <4> QED
        BY <3>1, <4>1, SkbSegmentsIs DEF SegInv
    <3>2. CASE ~SkbCheckCoalHeader(f.p.coal)
      <4>1. skb' = NoSegments
        BY <1>2, <3>2 DEF SegmentSkb
      <4> QED
        BY <4>1, NoResult
    <3> QED
      BY <3>1, <3>2
  <2> QED
    BY <2>1, <2>2 DEF SegInv
<1>3. CASE UNCHANGED segVars
  BY <1>3 DEF SegInv, segVars
<1> QED
  BY <1>1, <1>2, <1>3 DEF SegNext

LEMMA SegSafe == SegInv => FragInFrame /\ NoHole
<1> SUFFICES ASSUME SegInv PROVE FragInFrame /\ NoHole
  OBVIOUS
<1>1. FragInFrame
  <2> SUFFICES ASSUME NEW k \in 1 .. Len(frag.out), ~frag.reuse
               PROVE  /\ frag.out[k].dlen >= 0
                      /\ frag.hlen + frag.out[k].off + frag.out[k].dlen <= FragsLen(frame.frags)
    BY DEF FragInFrame
  <2>1. frag.out \in Seq(SegT)
    BY DEF SegInv, Result
  <2>2. frag.out[k] \in SegT
    BY <2>1, ElementOfSeq
  <2>3. frag.out[k].dlen \in Nat
    BY <2>2 DEF SegT
  <2> QED
    BY <2>3 DEF SegInv
<1>2. ASSUME NEW r, r = frag \/ r = skb, NEW k \in 1 .. Len(r.out)
      PROVE  /\ r.out[k].off = SegBytes(r.out, k - 1) % U16
             /\ r.out[k].seq = IF frame.p.ip.proto = "tcp" THEN r.out[k].off ELSE 0
  <2>1. Result(r, frame.p.ip, FragsLen(frame.frags)) /\ FragsLen(frame.frags) \in Nat
    BY <1>2 DEF SegInv
  <2> QED
    BY <2>1, FollowsNoHole
<1>3. ASSUME FragsLen(frame.frags) < U16, NEW k \in 1 .. Len(frag.out)
      PROVE  frag.out[k].off = SegBytes(frag.out, k - 1)
  <2>1. Result(frag, frame.p.ip, FragsLen(frame.frags)) /\ FragsLen(frame.frags) \in Nat
    BY DEF SegInv
  <2>2. ASSUME ~frag.reuse, NEW i \in 1 .. Len(frag.out)
        PROVE  frag.out[i].off + frag.out[i].dlen < U16
    <3>1. frag.out \in Seq(SegT) /\ frag.hlen \in Nat
      BY <2>1, <2>2 DEF Result
    <3>2. frag.out[i] \in SegT
      BY <3>1, ElementOfSeq
    <3>3. frag.out[i].off \in Nat /\ frag.out[i].dlen \in Nat
      BY <3>2 DEF SegT
    <3>4. frag.hlen + frag.out[i].off + frag.out[i].dlen <= FragsLen(frame.frags)
      BY <2>2 DEF SegInv
    <3>5. PICK h, o, d, l :
            /\ h = frag.hlen /\ o = frag.out[i].off /\ d = frag.out[i].dlen
            /\ l = FragsLen(frame.frags)
      OBVIOUS
    <3>6. h \in Nat /\ o \in Nat /\ d \in Nat /\ l \in Nat /\ h + o + d <= l /\ l < U16
      BY <1>3, <2>1, <3>1, <3>3, <3>4, <3>5
    <3>7. o + d < U16
      BY <3>6, U16Nat
    <3> QED
      BY <3>5, <3>7
  <2> QED
    BY <2>1, <2>2, FollowsNoHole
<1>4. NoHole
  BY <1>2, <1>3 DEF NoHole
<1> QED
  BY <1>1, <1>4

LEMMA SegAlways == SegSpec => []SegInv
BY SegInitInv, SegNextInv, PTL DEF SegSpec

\* No segment that __rmnet_frag_segment_data cuts out of a coalesced frame reaches past
\* the end of the frame.
THEOREM SegmentsInFrame == SegSpec => []FragInFrame
BY SegAlways, SegSafe, PTL

\* Both implementations pass on a prefix of the frame without a hole, for any headers and
\* any pattern of failing allocations: a segment starts where the one before it ended, in
\* the 16 bits of data_offset (__rmnet_frag_segment_data, __rmnet_map_segment_coal_skb), and
\* on the fragment path exactly there for every frame below 64 KB.
THEOREM SegmentsWithoutHole == SegSpec => []NoHole
BY SegAlways, SegSafe, PTL

-----------------------------------------------------------------------------
(* Lists of descriptors.                                                    *)

Ran(s) == {s[i] : i \in 1 .. Len(s)}
Inj(s) == \A i, j \in 1 .. Len(s) : s[i] = s[j] => i = j

LEMMA RanIn ==
    ASSUME NEW S, NEW s \in Seq(S)
    PROVE  Ran(s) \subseteq S /\ Len(s) \in Nat /\ \A i \in 1 .. Len(s) : s[i] \in Ran(s)
<1>1. ASSUME NEW i \in 1 .. Len(s) PROVE s[i] \in S
  BY ElementOfSeq
<1> QED
  BY <1>1 DEF Ran

LEMMA RanSeq ==
    ASSUME NEW S, NEW T, NEW s \in Seq(S), Ran(s) \subseteq T
    PROVE  s \in Seq(T)
<1>1. \A i \in 1 .. Len(s) : s[i] \in T
  BY DEF Ran
<1>2. Len(s) \in Nat /\ s \in [1 .. Len(s) -> S]
  BY LenProperties
<1>3. s \in [1 .. Len(s) -> T]
  BY <1>1, <1>2
<1> QED
  BY <1>2, <1>3, IsASeq

LEMMA EmptyRan == Ran(<<>>) = {} /\ Inj(<<>>) /\ Len(<<>>) = 0
<1>1. Len(<<>>) = 0 /\ 1 .. 0 = {}
  OBVIOUS
<1> QED
  BY <1>1 DEF Ran, Inj

LEMMA TailRan ==
    ASSUME NEW S, NEW s \in Seq(S), s # <<>>
    PROVE  /\ Head(s) \in Ran(s) /\ Tail(s) \in Seq(S) /\ Len(Tail(s)) = Len(s) - 1
           /\ Ran(Tail(s)) \subseteq Ran(s)
           /\ Inj(s) => Inj(Tail(s)) /\ Ran(Tail(s)) = Ran(s) \ {Head(s)}
<1> DEFINE n == Len(s)
           t == Tail(s)
<1>1. n \in Nat \ {0} /\ Head(s) = s[1]
  <2>1. n \in Nat \ {0}
    BY EmptySeq
  <2>2. Head(s) = s[1]
    OBVIOUS
  <2> QED
    BY <2>1, <2>2
<1>2. t \in Seq(S) /\ Len(t) = n - 1 /\ \A i \in 1 .. n - 1 : t[i] = s[i + 1]
  BY HeadTailProperties
<1> HIDE DEF t
<1>3. Head(s) \in Ran(s)
  BY <1>1 DEF Ran
<1>4. Ran(t) = {s[i] : i \in 2 .. n}
  <2>1. ASSUME NEW x \in Ran(t) PROVE x \in {s[i] : i \in 2 .. n}
    <3>1. PICK i \in 1 .. n - 1 : x = t[i]
      BY <1>1, <1>2 DEF Ran
    <3>2. i + 1 \in 2 .. n /\ x = s[i + 1]
      BY <1>1, <1>2, <3>1
    <3> QED
      BY <3>2
  <2>2. ASSUME NEW i \in 2 .. n PROVE s[i] \in Ran(t)
    <3>1. i - 1 \in 1 .. n - 1 /\ (i - 1) + 1 = i
      BY <1>1
    <3>2. t[i - 1] = s[i]
      BY <1>2, <3>1
    <3> QED
      BY <1>2, <3>1, <3>2 DEF Ran
  <2> QED
    BY <2>1, <2>2
<1>5. Ran(t) \subseteq Ran(s)
  <2>1. \A i \in 2 .. n : i \in 1 .. n
    BY <1>1
  <2> QED
    BY <1>4, <2>1 DEF Ran
<1>6. ASSUME Inj(s) PROVE Inj(t) /\ Ran(t) = Ran(s) \ {Head(s)}
  <2>1. Inj(t)
    <3>1. ASSUME NEW i \in 1 .. n - 1, NEW j \in 1 .. n - 1, t[i] = t[j] PROVE i = j
      <4>1. s[i + 1] = s[j + 1] /\ i + 1 \in 1 .. n /\ j + 1 \in 1 .. n
        BY <1>1, <1>2, <3>1
      <4>2. i + 1 = j + 1
        BY <1>6, <4>1 DEF Inj
      <4> QED
        BY <4>2
    <3> QED
      BY <1>2, <3>1 DEF Inj
  <2>2. ASSUME NEW i \in 2 .. n PROVE s[i] \in Ran(s) \ {Head(s)}
    <3>1. i \in 1 .. n /\ 1 \in 1 .. n /\ i # 1
      BY <1>1
    <3> QED
      BY <1>1, <1>6, <3>1 DEF Ran, Inj
  <2>3. ASSUME NEW x \in Ran(s) \ {Head(s)} PROVE x \in {s[i] : i \in 2 .. n}
    <3>1. PICK i \in 1 .. n : x = s[i]
      BY DEF Ran
    <3>2. i # 1
      BY <1>1, <3>1
    <3>3. i \in 2 .. n
      BY <1>1, <3>2
    <3> QED
      BY <3>1, <3>3
  <2> QED
    BY <1>4, <2>1, <2>2, <2>3
<1> QED
  BY <1>2, <1>3, <1>5, <1>6 DEF t

LEMMA CatRan ==
    ASSUME NEW S, NEW a \in Seq(S), NEW b \in Seq(S)
    PROVE  /\ a \o b \in Seq(S) /\ Ran(a \o b) = Ran(a) \cup Ran(b)
           /\ Len(a \o b) = Len(a) + Len(b)
           /\ Inj(a) /\ Inj(b) /\ Ran(a) \cap Ran(b) = {} => Inj(a \o b)
<1> DEFINE m == Len(a)
           n == Len(b)
           ab == a \o b
<1>1. m \in Nat /\ n \in Nat
  OBVIOUS
<1>2. /\ ab \in Seq(S) /\ Len(ab) = m + n
      /\ \A i \in 1 .. m + n : ab[i] = IF i <= m THEN a[i] ELSE b[i - m]
  BY ConcatProperties
<1> HIDE DEF ab
<1>3. ASSUME NEW i \in 1 .. m + n
      PROVE  (i \in 1 .. m /\ ab[i] = a[i]) \/ (i - m \in 1 .. n /\ ab[i] = b[i - m])
  BY <1>1, <1>2
<1>4. ASSUME NEW i \in 1 .. m PROVE i \in 1 .. m + n /\ ab[i] = a[i]
  BY <1>1, <1>2
<1>5. ASSUME NEW i \in 1 .. n PROVE i + m \in 1 .. m + n /\ ab[i + m] = b[i]
  <2>1. i + m \in 1 .. m + n /\ ~(i + m <= m) /\ (i + m) - m = i
    BY <1>1
  <2> QED
    BY <1>2, <2>1
<1>6. Ran(ab) = Ran(a) \cup Ran(b)
  <2>1. ASSUME NEW x \in Ran(ab) PROVE x \in Ran(a) \cup Ran(b)
    <3>1. PICK i \in 1 .. m + n : x = ab[i]
      BY <1>2 DEF Ran
    <3> QED
      BY <1>3, <3>1 DEF Ran
  <2>2. ASSUME NEW x \in Ran(a) PROVE x \in Ran(ab)
    BY <1>2, <1>4 DEF Ran
  <2>3. ASSUME NEW x \in Ran(b) PROVE x \in Ran(ab)
    <3>1. PICK i \in 1 .. n : x = b[i]
      BY DEF Ran
    <3>2. i + m \in 1 .. m + n /\ ab[i + m] = x
      BY <1>5, <3>1
    <3> QED
      BY <1>2, <3>2 DEF Ran
  <2> QED
    BY <2>1, <2>2, <2>3
<1>7. ASSUME Inj(a), Inj(b), Ran(a) \cap Ran(b) = {} PROVE Inj(ab)
  <2>1. ASSUME NEW i \in 1 .. m + n, NEW j \in 1 .. m + n, ab[i] = ab[j] PROVE i = j
    <3>1. CASE i \in 1 .. m /\ j \in 1 .. m
      BY <1>4, <1>7, <2>1, <3>1 DEF Inj
    <3>2. CASE i - m \in 1 .. n /\ ab[i] = b[i - m] /\ j - m \in 1 .. n /\ ab[j] = b[j - m]
      <4>1. i - m = j - m
        BY <1>7, <2>1, <3>2 DEF Inj
      <4> QED
        BY <1>1, <4>1
    <3>3. CASE i \in 1 .. m /\ j - m \in 1 .. n /\ ab[j] = b[j - m]
      <4>1. ab[i] \in Ran(a) /\ ab[i] \in Ran(b)
        BY <1>4, <2>1, <3>3 DEF Ran
      <4> QED
        BY <1>7, <4>1
    <3>4. CASE j \in 1 .. m /\ i - m \in 1 .. n /\ ab[i] = b[i - m]
      <4>1. ab[j] \in Ran(a) /\ ab[j] \in Ran(b)
        BY <1>4, <2>1, <3>4 DEF Ran
      <4> QED
        BY <1>7, <4>1
    <3> QED
      BY <1>3, <3>1, <3>2, <3>3, <3>4
  <2> QED
    BY <1>2, <2>1 DEF Inj
<1> QED
  BY <1>2, <1>6, <1>7 DEF ab

LEMMA OneRan ==
    ASSUME NEW d
    PROVE  <<d>> \in Seq({d}) /\ Len(<<d>>) = 1 /\ <<d>>[1] = d /\ Ran(<<d>>) = {d} /\ Inj(<<d>>)
           /\ <<d>> # <<>>
<1>1. Len(<<d>>) = 1 /\ 1 .. 1 = {1} /\ <<d>>[1] = d /\ <<d>> \in Seq({d}) /\ <<d>> # <<>>
  OBVIOUS
<1>2. Ran(<<d>>) = {d}
  <2>1. PICK s : s = <<d>>
    OBVIOUS
  <2>2. Len(s) = 1 /\ s[1] = d
    BY <1>1, <2>1
  <2>3. Ran(s) = {d}
    BY <1>1, <2>2 DEF Ran
  <2> QED
    BY <2>1, <2>3
<1>3. Inj(<<d>>)
  BY <1>1 DEF Inj
<1> QED
  BY <1>1, <1>2, <1>3

LEMMA AppendRan ==
    ASSUME NEW S, NEW s \in Seq(S), NEW d \in S
    PROVE  /\ Append(s, d) \in Seq(S) /\ Ran(Append(s, d)) = Ran(s) \cup {d}
           /\ Inj(s) /\ d \notin Ran(s) => Inj(Append(s, d))
           /\ Append(s, d) # <<>>
<1>1. Append(s, d) = s \o <<d>> /\ Append(s, d) # <<>>
  BY AppendIsConcat, AppendProperties
<1>2. <<d>> \in Seq(S) /\ Ran(<<d>>) = {d} /\ Inj(<<d>>)
  <2>1. {d} \subseteq S
    OBVIOUS
  <2> QED
    BY <2>1, OneRan, RanSeq
<1>3. PICK t : t = <<d>>
  OBVIOUS
<1>4. s \o t \in Seq(S) /\ Ran(s \o t) = Ran(s) \cup Ran(t)
      /\ (Inj(s) /\ Inj(t) /\ Ran(s) \cap Ran(t) = {} => Inj(s \o t))
  BY <1>2, <1>3, CatRan, ZenonT(60)
<1>5. d \notin Ran(s) => Ran(s) \cap Ran(t) = {}
  BY <1>2, <1>3
<1> QED
  BY <1>1, <1>2, <1>3, <1>4, <1>5

LEMMA SubRan ==
    ASSUME NEW S, NEW s \in Seq(S), NEW a \in Nat \ {0}, NEW b \in 0 .. Len(s)
    PROVE  /\ SubSeq(s, a, b) \in Seq(S) /\ Ran(SubSeq(s, a, b)) = {s[i] : i \in a .. b}
           /\ Len(SubSeq(s, a, b)) = IF a <= b THEN b - a + 1 ELSE 0
           /\ \A i \in 1 .. b - a + 1 : SubSeq(s, a, b)[i] = s[a + i - 1]
           /\ Inj(s) => Inj(SubSeq(s, a, b))
<1> DEFINE t == SubSeq(s, a, b)
           n == Len(s)
<1>1. n \in Nat /\ \A i \in a .. b : i \in 1 .. n
  OBVIOUS
<1>2. /\ t \in Seq(S) /\ Len(t) = IF a <= b THEN b - a + 1 ELSE 0
      /\ \A i \in 1 .. b - a + 1 : t[i] = s[a + i - 1]
  <2>1. \A i \in a .. b : s[i] \in S
    BY <1>1, ElementOfSeq
  <2>2. a \in Int /\ b \in Int
    OBVIOUS
  <2> QED
    BY <2>1, <2>2, SubSeqProperties
<1> HIDE DEF t
<1>3. 1 .. Len(t) = 1 .. b - a + 1
  BY <1>2
<1>4. Ran(t) = {s[i] : i \in a .. b}
  <2>1. ASSUME NEW i \in 1 .. b - a + 1 PROVE t[i] \in {s[k] : k \in a .. b}
    <3>1. a + i - 1 \in a .. b
      OBVIOUS
    <3> QED
      BY <1>2, <3>1
  <2>2. ASSUME NEW k \in a .. b PROVE s[k] \in Ran(t)
    <3>1. k - a + 1 \in 1 .. b - a + 1 /\ a + (k - a + 1) - 1 = k
      OBVIOUS
    <3>2. t[k - a + 1] = s[k]
      BY <1>2, <3>1
    <3> QED
      BY <1>3, <3>1, <3>2 DEF Ran
  <2> QED
    BY <1>3, <2>1, <2>2 DEF Ran
<1>5. ASSUME Inj(s) PROVE Inj(t)
  <2>1. ASSUME NEW i \in 1 .. b - a + 1, NEW j \in 1 .. b - a + 1, t[i] = t[j] PROVE i = j
    <3>1. a + i - 1 \in 1 .. n /\ a + j - 1 \in 1 .. n /\ s[a + i - 1] = s[a + j - 1]
      BY <1>1, <1>2, <2>1
    <3>2. a + i - 1 = a + j - 1
      BY <1>5, <3>1 DEF Inj
    <3> QED
      BY <3>2
  <2> QED
    BY <1>3, <2>1 DEF Inj
<1> QED
  BY <1>2, <1>4, <1>5 DEF t

LEMMA ToTailRan ==
    ASSUME NEW S, NEW s \in Seq(S), NEW d \in S
    PROVE  /\ ToTail(s, d) \in Seq(S)
           /\ Ran(ToTail(s, d)) \subseteq Ran(s) \cup {d}
           /\ Inj(s) => Inj(ToTail(s, d)) /\ Ran(ToTail(s, d)) = Ran(s) \cup {d}
<1> DEFINE n == Len(s)
<1>0. n \in Nat
  OBVIOUS
<1>1. CASE \E i \in 1 .. Len(s) : s[i] = d
  <2>1. PICK i : i = CHOOSE k \in 1 .. n : s[k] = d
    OBVIOUS
  <2>2. i \in 1 .. n /\ s[i] = d
    BY <1>1, <2>1
  <2> DEFINE a == SubSeq(s, 1, i - 1)
             b == SubSeq(s, i + 1, n)
             ab == a \o b
  <2>3. ToTail(s, d) = ab \o <<d>>
    BY <1>1, <2>1 DEF ToTail
  <2>4. /\ a \in Seq(S) /\ Ran(a) = {s[k] : k \in 1 .. i - 1} /\ (Inj(s) => Inj(a))
    <3>1. PICK j : j = i - 1
      OBVIOUS
    <3>2. 1 \in Nat \ {0} /\ j \in 0 .. Len(s)
      BY <2>2, <3>1
    <3>3. PICK t : t = SubSeq(s, 1, j)
      OBVIOUS
    <3>4. t \in Seq(S) /\ Ran(t) = {s[k] : k \in 1 .. j} /\ (Inj(s) => Inj(t))
      BY <3>2, <3>3, SubRan
    <3> QED
      BY <3>1, <3>3, <3>4
  <2>5. /\ b \in Seq(S) /\ Ran(b) = {s[k] : k \in i + 1 .. n} /\ (Inj(s) => Inj(b))
    <3>1. PICK j : j = i + 1
      OBVIOUS
    <3>2. j \in Nat \ {0} /\ n \in 0 .. Len(s)
      BY <2>2, <3>1
    <3>3. PICK t : t = SubSeq(s, j, n)
      OBVIOUS
    <3>4. t \in Seq(S) /\ Ran(t) = {s[k] : k \in j .. n} /\ (Inj(s) => Inj(t))
      BY <3>2, <3>3, SubRan
    <3> QED
      BY <3>1, <3>3, <3>4
  <2> HIDE DEF a, b
  <2>6. /\ ab \in Seq(S) /\ Ran(ab) = Ran(a) \cup Ran(b)
        /\ Inj(a) /\ Inj(b) /\ Ran(a) \cap Ran(b) = {} => Inj(ab)
    BY <2>4, <2>5, CatRan, ZenonT(60)
  <2> HIDE DEF ab
  <2>7. PICK t : t = <<d>>
    OBVIOUS
  <2>8. t \in Seq(S) /\ Ran(t) = {d} /\ Inj(t)
    <3>1. {d} \subseteq S
      OBVIOUS
    <3> QED
      BY <2>7, <3>1, OneRan, RanSeq
  <2>9. /\ ab \o t \in Seq(S) /\ Ran(ab \o t) = Ran(ab) \cup Ran(t)
        /\ Inj(ab) /\ Inj(t) /\ Ran(ab) \cap Ran(t) = {} => Inj(ab \o t)
    BY <2>6, <2>8, CatRan
  <2>10. Ran(ab) \subseteq Ran(s)
    <3>1. \A k \in 1 .. i - 1 : k \in 1 .. n
      BY <2>2
    <3>2. \A k \in i + 1 .. n : k \in 1 .. n
      BY <2>2
    <3> QED
      BY <2>4, <2>5, <2>6, <3>1, <3>2 DEF Ran
  <2>11. ASSUME Inj(s) PROVE Inj(ab \o t) /\ Ran(ab \o t) = Ran(s) \cup {d}
    <3>1. ASSUME NEW x \in Ran(a), x \in Ran(b) PROVE FALSE
      <4>1. PICK k \in 1 .. i - 1 : x = s[k]
        BY <2>4
      <4>2. PICK j \in i + 1 .. n : x = s[j]
        BY <2>5, <3>1
      <4>3. k \in 1 .. n /\ j \in 1 .. n /\ k # j
        BY <2>2
      <4> QED
        BY <2>11, <4>1, <4>2, <4>3 DEF Inj
    <3>2. d \notin Ran(a) /\ d \notin Ran(b)
      <4>1. ASSUME NEW k \in 1 .. i - 1 PROVE s[k] # d
        <5>1. k \in 1 .. n /\ k # i
          BY <2>2
        <5> QED
          BY <2>2, <2>11, <5>1 DEF Inj
      <4>2. ASSUME NEW k \in i + 1 .. n PROVE s[k] # d
        <5>1. k \in 1 .. n /\ k # i
          BY <2>2
        <5> QED
          BY <2>2, <2>11, <5>1 DEF Inj
      <4> QED
        BY <2>4, <2>5, <4>1, <4>2
    <3>3. Inj(ab \o t)
      <4>1. Ran(a) \cap Ran(b) = {}
        BY <3>1
      <4>2. Ran(ab) \cap Ran(t) = {}
        BY <2>6, <2>8, <3>2
      <4> QED
        BY <2>4, <2>5, <2>6, <2>8, <2>9, <2>11, <4>1, <4>2
    <3>4. Ran(s) \subseteq Ran(ab) \cup {d}
      <4>1. ASSUME NEW k \in 1 .. n PROVE s[k] \in Ran(ab) \cup {d}
        <5>1. k \in 1 .. i - 1 \/ k = i \/ k \in i + 1 .. n
          BY <2>2
        <5> QED
          BY <2>2, <2>4, <2>5, <2>6, <5>1
      <4> QED
        BY <4>1 DEF Ran
    <3> QED
      BY <2>8, <2>9, <2>10, <3>3, <3>4
  <2> QED
    BY <2>3, <2>7, <2>8, <2>9, <2>10, <2>11
<1>2. CASE ~\E i \in 1 .. Len(s) : s[i] = d
  <2>1. ToTail(s, d) = Append(s, d)
    BY <1>2 DEF ToTail
  <2>2. d \notin Ran(s)
    BY <1>2 DEF Ran
  <2> QED
    BY <2>1, <2>2, AppendRan
<1> QED
  BY <1>1, <1>2

LEMMA CardRan ==
    ASSUME NEW S, NEW s \in Seq(S), Inj(s)
    PROVE  IsFiniteSet(Ran(s)) /\ Cardinality(Ran(s)) = Len(s)
<1> DEFINE n == Len(s)
<1>1. n \in Nat /\ s \in [1 .. n -> S]
  BY LenProperties
<1>2. s \in [1 .. n -> Ran(s)]
  BY <1>1 DEF Ran
<1>3. s \in Bijection(1 .. n, Ran(s))
  BY <1>2 DEF Bijection, Injection, Surjection, IsInjective, Inj, Ran
<1>4. ExistsBijection(1 .. n, Ran(s))
  BY <1>3 DEF ExistsBijection
<1>5. IsFiniteSet(1 .. n) /\ Cardinality(1 .. n) = n
  <2>1. 1 \in Int /\ n \in Int
    BY <1>1
  <2>2. IsFiniteSet(1 .. n) /\ Cardinality(1 .. n) = IF 1 > n THEN 0 ELSE n - 1 + 1
    BY <2>1, FS_Interval
  <2> QED
    BY <1>1, <2>2
<1> QED
  BY <1>4, <1>5, FS_Bijection

LEMMA OrderIs ==
    ASSUME NEW D, IsFiniteSet(D), NEW q \in Orders(D)
    PROVE  q \in Seq(D) /\ Inj(q) /\ Ran(q) = D
<1> DEFINE n == Cardinality(D)
<1>1. n \in Nat /\ q \in [1 .. n -> D] /\ \A d \in D : \E i \in DOMAIN q : q[i] = d
  BY FS_CardinalityType DEF Orders
<1>2. q \in Seq(D) /\ Len(q) = n
  BY <1>1
<1>3. q \in Surjection(1 .. n, D)
  BY <1>1 DEF Surjection
<1>4. IsFiniteSet(1 .. n) /\ Cardinality(1 .. n) = n
  <2>1. 1 \in Int /\ n \in Int
    BY <1>1
  <2>2. IsFiniteSet(1 .. n) /\ Cardinality(1 .. n) = IF 1 > n THEN 0 ELSE n - 1 + 1
    BY <2>1, FS_Interval
  <2> QED
    BY <1>1, <2>2
<1>5. q \in Injection(1 .. n, D)
  BY <1>3, <1>4, FS_Surjection
<1> QED
  BY <1>1, <1>2, <1>5 DEF Injection, IsInjective, Inj, Ran
-----------------------------------------------------------------------------
(* What is cut out of lists of fragments.                                   *)

LEMMA RangesLen ==
    ASSUME NEW P, NEW from \in Seq(Fragments(P)), NEW off \in Nat, NEW len \in Nat,
           off + len <= FragsLen(from)
    PROVE  /\ Ranges(from, off, len) \in Seq(Fragments(P))
           /\ FragsLen(Ranges(from, off, len)) = len
<1> DEFINE n == Len(from)
           E == Ends(from)
           F == {i \in 1 .. n : off < E[i]} \cup {n + 1}
           L == {i \in 1 .. n : off + len <= E[i]} \cup {n}
<1>1. PICK first, last : first = Min(F) /\ last = (IF len = 0 THEN 0 ELSE Min(L))
  OBVIOUS
<1> DEFINE lo(i) == IF i = first THEN off - E[i - 1] ELSE 0
           hi(i) == IF off + len < E[i] THEN off + len - E[i - 1] ELSE from[i].size
           El(i) == Frag(from[i].page, from[i].off + lo(i), hi(i) - lo(i))
           r == [j \in 1 .. last - first + 1 |-> El(first + j - 1)]
<1>2. Ranges(from, off, len) = r
  BY <1>1 DEF Ranges
<1>3. n \in Nat /\ \A i \in 1 .. n : from[i].size \in Nat /\ from[i].off \in Nat /\ from[i].page \in P
  BY FragsFacts
<1>4. E \in [0 .. n -> Nat] /\ E[0] = 0 /\ \A i \in 1 .. n : E[i] = E[i - 1] + from[i].size
  BY <1>3, EndsDef
<1>5. off + len <= E[n] /\ E[n] \in Nat
  BY <1>3, <1>4 DEF FragsLen
<1>6. first \in F /\ \A j \in F : first <= j
  <2>1. F \subseteq Nat /\ F # {}
    BY <1>3
  <2> HIDE DEF F
  <2> QED
    BY <1>1, <2>1, MinIs
<1>7. first \in 1 .. n + 1
  BY <1>3, <1>6
<1>8. CASE len = 0
  <2>1. last = 0
    BY <1>1, <1>8
  <2>2. 1 .. last - first + 1 = {}
    BY <1>7, <2>1
  <2>3. r = <<>>
    <3> HIDE DEF El
    <3> QED
      BY <2>2
  <2>4. <<>> \in Seq(Fragments(P))
    OBVIOUS
  <2> HIDE DEF r
  <2> QED
    BY <1>2, <1>8, <2>3, <2>4, EmptyLen
<1>9. CASE len # 0
  <2>1. last \in L /\ \A j \in L : last <= j
    <3>0. n # 0
      BY <1>4, <1>5, <1>9
    <3>1. L \subseteq Nat /\ L # {}
      BY <1>3
    <3>2. last = Min(L)
      BY <1>1, <1>9
    <3> HIDE DEF L
    <3> QED
      BY <3>1, <3>2, MinIs
  <2>2. n \in 1 .. n /\ off < E[n]
    BY <1>3, <1>4, <1>5, <1>9
  <2>3. last \in 1 .. n /\ off + len <= E[last]
    BY <1>5, <2>1, <2>2
  <2>4. last \in F
    <3>1. E[last] \in Nat
      BY <1>4, <2>3
    <3> QED
      BY <1>9, <2>3, <3>1
  <2>5. first <= last /\ first \in 1 .. n /\ off < E[first]
    BY <1>3, <1>6, <1>7, <2>3, <2>4
  <2>6. E[first - 1] <= off /\ E[first - 1] \in Nat
    <3>1. CASE first = 1
      BY <1>4, <3>1
    <3>2. CASE first # 1
      <4>1. first - 1 \in 1 .. n /\ ~(first <= first - 1)
        BY <2>5, <3>2
      <4>2. first - 1 \notin F
        <5> HIDE DEF F
        <5> QED
          BY <1>6, <4>1
      <4>3. ~(off < E[first - 1]) /\ E[first - 1] \in Nat
        BY <1>4, <4>1, <4>2
      <4> HIDE DEF E
      <4> QED
        BY <4>3
    <3> QED
      BY <3>1, <3>2
  <2>7. ASSUME NEW i \in 1 .. last - 1 PROVE E[i] < off + len /\ E[i] \in Nat
    <3>1. i \in 1 .. n /\ ~(last <= i)
      BY <2>3
    <3>2. i \notin L
      <4> HIDE DEF L
      <4> QED
        BY <2>1, <3>1
    <3>3. ~(off + len <= E[i]) /\ E[i] \in Nat
      BY <1>4, <3>1, <3>2, SMTT(40)
    <3> HIDE DEF E
    <3> QED
      BY <3>3
  <2>8. ASSUME NEW i \in first .. last
        PROVE  /\ lo(i) \in Nat /\ hi(i) - lo(i) \in Nat
               /\ hi(i) - lo(i) = (IF i = last THEN off + len ELSE E[i])
                                  - (IF i = first THEN off ELSE E[i - 1])
    <3>1. i \in 1 .. n /\ i \in 0 .. n /\ i - 1 \in 0 .. n
      BY <2>3, <2>5
    <3>2. E[i] = E[i - 1] + from[i].size /\ from[i].size \in Nat /\ E[i] \in Nat /\ E[i - 1] \in Nat
      BY <1>3, <1>4, <3>1
    <3>3. i # last => E[i] < off + len
      BY <2>3, <2>5, <2>7
    <3>4. i = last => off + len <= E[i]
      BY <2>3
    <3>5. i = first => E[i - 1] <= off /\ off < E[i]
      BY <2>5, <2>6
    <3>6. i # first => E[i - 1] < off + len
      <4>1. ASSUME i # first PROVE i - 1 \in 1 .. last - 1
        BY <2>3, <2>5, <4>1
      <4> QED
        BY <2>7, <4>1
    <3> HIDE DEF E
    <3>7. hi(i) = (IF i = last THEN off + len ELSE E[i]) - E[i - 1]
      BY <3>2, <3>3, <3>4, SMTT(40)
    <3>8. lo(i) \in Nat
      BY <3>2, <3>5
    <3> QED
      BY <3>2, <3>5, <3>6, <3>7, <3>8, SMTT(40)
  <2> HIDE DEF lo, hi
  <2> DEFINE m == last - first + 1
             e == [j \in 0 .. m |-> IF j = 0 THEN 0
                                    ELSE IF j = m THEN len ELSE E[first + j - 1] - off]
  <2>9. m \in Nat \ {0} /\ \A j \in 1 .. m : first + j - 1 \in first .. last
    BY <2>3, <2>5
  <2>10. ASSUME NEW i \in first .. last
         PROVE  El(i) \in Fragments(P) /\ El(i).size = hi(i) - lo(i)
    <3>1. i \in 1 .. n
      BY <2>3, <2>5
    <3>2. /\ from[i].page \in P /\ from[i].off \in Nat /\ lo(i) \in Nat /\ hi(i) - lo(i) \in Nat
          /\ from[i].off + lo(i) \in Nat
      BY <1>3, <2>8, <3>1
    <3>3. PICK a, b : a = from[i].off + lo(i) /\ b = hi(i) - lo(i)
      OBVIOUS
    <3>4. El(i) = [page |-> from[i].page, off |-> a, size |-> b]
      BY <3>3 DEF Frag
    <3> HIDE DEF El
    <3> QED
      BY <3>2, <3>3, <3>4 DEF Fragments
  <2> HIDE DEF El
  <2>11. /\ r \in Seq(Fragments(P)) /\ Len(r) = m
         /\ \A j \in 1 .. m : r[j] = El(first + j - 1)
    <3> HIDE DEF m
    <3>1. r = [j \in 1 .. m |-> El(first + j - 1)]
      BY DEF m
    <3>2. \A j \in 1 .. m : El(first + j - 1) \in Fragments(P)
      BY <2>9, <2>10
    <3>3. r \in [1 .. m -> Fragments(P)] /\ DOMAIN r = 1 .. m
      BY <3>1, <3>2
    <3>4. m \in Nat
      BY <2>9
    <3> HIDE DEF r
    <3>5. r \in Seq(Fragments(P))
      BY <3>3, <3>4, IsASeq
    <3>6. Len(r) = m
      BY <3>3, <3>4, <3>5, LenProperties
    <3> QED
      BY <3>1, <3>5, <3>6
  <2>12. e[0] = 0
    BY <2>9
  <2>13. ASSUME NEW j \in 1 .. m PROVE e[j] = e[j - 1] + r[j].size
    <3>1. PICK i : i = first + j - 1
      OBVIOUS
    <3>2. /\ i \in first .. last /\ i - 1 = first + (j - 1) - 1 /\ i \in 1 .. n /\ i - 1 \in 0 .. n
          /\ (i = first <=> j = 1) /\ (i = last <=> j = m) /\ j - 1 # m
          /\ j \in 0 .. m /\ j - 1 \in 0 .. m /\ j # 0 /\ (j - 1 = 0 <=> j = 1)
      BY <2>3, <2>5, <2>9, <3>1
    <3>3. r[j].size = (IF i = last THEN off + len ELSE E[i]) - (IF i = first THEN off ELSE E[i - 1])
      <4> HIDE DEF r, E
      <4>1. r[j] = El(i)
        BY <2>11, <3>1
      <4> QED
        BY <2>8, <2>10, <3>2, <4>1
    <3>4. E[i] \in Nat /\ E[i - 1] \in Nat
      BY <1>4, <3>2
    <3>5. e[j] = IF j = m THEN len ELSE E[i] - off
      BY <3>1, <3>2
    <3>6. e[j - 1] = IF j = 1 THEN 0 ELSE E[i - 1] - off
      BY <3>1, <3>2
    <3> HIDE DEF e, r, E, m
    <3> QED
      BY <3>2, <3>3, <3>4, <3>5, <3>6, SMTT(40)
  <2>14. FragsLen(r) = e[Len(r)]
    <3> HIDE DEF e, r, m
    <3>1. Len(r) \in Nat /\ \A i \in 1 .. Len(r) : r[i].size \in Nat
      BY <2>11, FragsFacts
    <3>2. \A i \in 1 .. Len(r) : e[i] = e[i - 1] + r[i].size
      BY <2>11, <2>13
    <3> QED
      BY <2>12, <3>1, <3>2, FragsLenIs
  <2>15. e[m] = len
    BY <2>9
  <2> HIDE DEF e, r, m
  <2> QED
    BY <1>2, <2>11, <2>14, <2>15
<1> QED
  BY <1>8, <1>9

LEMMA TrimType ==
    ASSUME NEW P, NEW frags \in Seq(Fragments(P)), NEW size \in Nat
    PROVE  Trim(frags, size) \in Seq(Fragments(P))
<1> DEFINE n == Len(frags)
<1>1. n \in Nat /\ \A i \in 1 .. n : frags[i].size \in Nat /\ frags[i] \in Fragments(P)
  BY FragsFacts
<1>2. Ends(frags) \in [0 .. n -> Nat] /\ FragsLen(frags) \in Nat
  BY <1>1, EndsDef, FragsFacts
<1>3. ASSUME NEW eat \in Int PROVE Chop(frags, eat) \in Seq(Fragments(P))
  <2> DEFINE left == [i \in 1 .. n |-> eat - (FragsLen(frags) - Ends(frags)[i])]
             K == {i \in 1 .. n : left[i] = 0 \/ left[i] < frags[i].size} \cup {0}
  <2>1. PICK k : k = Max(K)
    OBVIOUS
  <2>2. k \in K
    <3>1. K \subseteq 0 .. n /\ K # {}
      BY <1>1
    <3> HIDE DEF K
    <3> QED
      BY <1>1, <2>1, <3>1, MaxIs
  <2>3. CASE k = 0
    <3>1. Chop(frags, eat) = <<>>
      BY <2>1, <2>3 DEF Chop
    <3> QED
      BY <3>1
  <2>4. CASE k # 0
    <3>1. k \in 1 .. n /\ (left[k] = 0 \/ left[k] < frags[k].size) /\ left[k] \in Int
      BY <1>1, <1>2, <2>2, <2>4, SMTT(40)
    <3>2. Chop(frags, eat) = Append(SubSeq(frags, 1, k - 1), [frags[k] EXCEPT !.size = @ - left[k]])
      BY <2>1, <2>4 DEF Chop
    <3>3. frags[k].size - left[k] \in Nat
      <4> HIDE DEF left
      <4>1. frags[k].size \in Nat
        BY <1>1, <3>1
      <4> QED
        BY <3>1, <4>1
    <3>4. [frags[k] EXCEPT !.size = @ - left[k]] \in Fragments(P)
      <4> HIDE DEF left
      <4>1. PICK x, z : x = frags[k] /\ z = frags[k].size - left[k]
        OBVIOUS
      <4>2. x \in Fragments(P) /\ z \in Nat
        BY <1>1, <3>1, <3>3, <4>1
      <4>3. [x EXCEPT !.size = z] \in Fragments(P)
        BY <4>2 DEF Fragments
      <4> QED
        BY <4>1, <4>3
    <3>5. SubSeq(frags, 1, k - 1) \in Seq(Fragments(P))
      <4>1. PICK j : j = k - 1
        OBVIOUS
      <4>2. j \in 0 .. Len(frags) /\ 1 \in Nat \ {0}
        BY <3>1, <4>1
      <4>3. SubSeq(frags, 1, j) \in Seq(Fragments(P))
        BY <4>2, SubRan
      <4> QED
        BY <4>1, <4>3
    <3> HIDE DEF left
    <3> QED
      BY <3>2, <3>4, <3>5, AppendProperties
  <2> QED
    BY <2>3, <2>4
<1>4. FragsLen(frags) - size \in Int
  BY <1>2
<1> QED
  BY <1>3, <1>4 DEF Trim
-----------------------------------------------------------------------------
(* The chains of buffers.                                                   *)

LEMMA HwLenNat ==
    ASSUME NEW f, NEW p, IsPacket(p)
    PROVE  HwLen(f, p) \in Nat
<1>1. p.len \in Nat /\ MapLen \in Nat /\ CsumLen \in Nat /\ CoalLen \in Nat /\ TrailerLen \in Nat
  BY CoalesceAssumption, IngressAssumption DEF IsPacket
<1>2. HwHdr(f, p) \in Nat
  <2>1. CASE p.cd
    BY <1>1, <2>1 DEF HwHdr
  <2>2. CASE ~p.cd /\ p.type = "csum"
    BY <1>1, <2>2 DEF HwHdr
  <2>3. CASE ~p.cd /\ p.type = "coal"
    BY <1>1, <2>3 DEF HwHdr
  <2>4. CASE ~p.cd /\ p.type # "csum" /\ p.type # "coal"
    BY <1>1, <2>4 DEF HwHdr
  <2> QED
    BY <2>1, <2>2, <2>3, <2>4
<1> QED
  BY <1>1, <1>2 DEF HwLen

LEMMA StartIs ==
    ASSUME NEW f, NEW pkts, Len(pkts) \in Nat, \A k \in 1 .. Len(pkts) : IsPacket(pkts[k])
    PROVE  /\ \A k \in 1 .. Len(pkts) + 1 : Start(f, pkts, k) \in Nat
           /\ Start(f, pkts, 1) = 0
           /\ \A k \in 1 .. Len(pkts) :
                 Start(f, pkts, k + 1) = Start(f, pkts, k) + HwLen(f, pkts[k])
<1> DEFINE n == Len(pkts)
           Is(g) == g = [i \in 1 .. n + 1 |-> IF i = 1 THEN 0 ELSE g[i - 1] + HwLen(f, pkts[i - 1])]
           F == [x \in (1 .. n) \X Nat |-> x[2] + HwLen(f, pkts[x[1]])]
<1>1. n \in Nat /\ \A i \in 1 .. n : HwLen(f, pkts[i]) \in Nat
  BY HwLenNat
<1>2. F \in [(1 .. n) \X Nat -> Nat]
  <2>1. \A x \in (1 .. n) \X Nat : x[2] + HwLen(f, pkts[x[1]]) \in Nat
    BY <1>1
  <2> QED
    BY <2>1
<1>3. PICK g \in Runs(n, Nat, 0, F) : TRUE
  <2> HIDE DEF F, n
  <2>1. 0 \in Nat
    OBVIOUS
  <2>2. Runs(n, Nat, 0, F) # {}
    BY <1>1, <1>2, <2>1, Recursion
  <2> QED
    BY <2>2
<1> DEFINE h == [i \in 1 .. n + 1 |-> g[i - 1]]
<1>4. g \in [0 .. n -> Nat] /\ g[0] = 0
  BY DEF Runs
<1>5. ASSUME NEW i \in 1 .. n PROVE g[i] = g[i - 1] + HwLen(f, pkts[i])
  <2>1. g[i] = F[<<i, g[i - 1]>>]
    BY DEF Runs
  <2>2. g[i - 1] \in Nat
    <3>1. i - 1 \in 0 .. n
      BY <1>1
    <3> HIDE DEF n
    <3> QED
      BY <1>4, <3>1
  <2>3. <<i, g[i - 1]>> \in (1 .. n) \X Nat
    BY <2>2
  <2> QED
    BY <2>1, <2>3
<1>6. Is(h)
  <2>1. ASSUME NEW i \in 1 .. n + 1
        PROVE  h[i] = IF i = 1 THEN 0 ELSE h[i - 1] + HwLen(f, pkts[i - 1])
    <3>1. CASE i = 1
      BY <1>4, <3>1
    <3>2. CASE i # 1
      <4>1. i - 1 \in 1 .. n /\ i - 1 \in 1 .. n + 1
        BY <1>1, <3>2
      <4>2. h[i] = g[i - 1] /\ h[i - 1] = g[(i - 1) - 1]
        BY <4>1
      <4>3. g[i - 1] = g[(i - 1) - 1] + HwLen(f, pkts[i - 1])
        BY <1>5, <4>1
      <4> QED
        BY <3>2, <4>2, <4>3
    <3> QED
      BY <3>1, <3>2
  <2>2. DOMAIN h = 1 .. n + 1 /\ h = [i \in 1 .. n + 1 |-> h[i]]
    OBVIOUS
  <2> HIDE DEF h
  <2> QED
    BY <2>1, <2>2
<1>7. PICK s : s = CHOOSE x : Is(x)
  OBVIOUS
<1>8. Is(s)
  <2> HIDE DEF Is
  <2> QED
    BY <1>6, <1>7
<1>9. ASSUME NEW k PROVE Start(f, pkts, k) = s[k]
  BY <1>7 DEF Start
<1>10. /\ s[1] = 0
       /\ \A i \in 2 .. n + 1 : s[i] = s[i - 1] + HwLen(f, pkts[i - 1])
  <2>1. \A i \in 1 .. n + 1 : s[i] = IF i = 1 THEN 0 ELSE s[i - 1] + HwLen(f, pkts[i - 1])
    BY <1>8
  <2>2. s[1] = 0
    BY <1>1, <2>1
  <2>3. ASSUME NEW i \in 2 .. n + 1 PROVE s[i] = s[i - 1] + HwLen(f, pkts[i - 1])
    <3>1. i \in 1 .. n + 1 /\ i # 1
      BY <1>1
    <3> QED
      BY <2>1, <3>1
  <2> QED
    BY <2>2, <2>3
<1> HIDE DEF Is
<1>11. ASSUME NEW k \in 1 .. n PROVE s[k + 1] = s[k] + HwLen(f, pkts[k])
  <2>1. k + 1 \in 2 .. n + 1 /\ (k + 1) - 1 = k
    BY <1>1
  <2> QED
    BY <1>10, <2>1
<1> DEFINE S == {i \in 0 .. n : s[i + 1] \in Nat}
<1>12. 0 .. n \subseteq S
  <2>1. 0 \in S
    <3>1. s[0 + 1] = 0
      BY <1>10
    <3> QED
      BY <1>1, <3>1
  <2>2. ASSUME NEW i \in 1 .. n, i - 1 \in S PROVE i \in S
    <3>1. s[i] \in Nat
      <4>1. (i - 1) + 1 = i
        OBVIOUS
      <4> QED
        BY <2>2, <4>1
    <3>2. s[i + 1] \in Nat
      BY <1>1, <1>11, <3>1
    <3> QED
      BY <1>1, <3>2
  <2> HIDE DEF S
  <2> QED
    BY <1>1, <2>1, <2>2, Induction
<1>13. ASSUME NEW k \in 1 .. n + 1 PROVE s[k] \in Nat
  <2>1. k - 1 \in 0 .. n /\ (k - 1) + 1 = k
    BY <1>1
  <2>2. k - 1 \in S
    BY <1>12, <2>1
  <2> QED
    BY <2>1, <2>2
<1> QED
  BY <1>9, <1>10, <1>11, <1>13
-----------------------------------------------------------------------------
(* The invariant of Ingress.                                                *)

Places == ({"free", "lost"} \X {0}) \cup ({"list", "segs"} \X Ctx)

\* The descriptors at every place
PlacesOf(fr, lo, cx) ==
    [x \in Places |-> IF x[1] = "free" THEN Ran(fr)
                      ELSE IF x[1] = "lost" THEN lo
                      ELSE IF x[1] = "list" THEN Ran(cx[x[2]].list)
                      ELSE Ran(cx[x[2]].segs)]

\* Every descriptor of A is at one place
OwnOf(P, A) ==
    /\ \A x \in Places : P[x] \subseteq A
    /\ \A d \in A : \E x \in Places : \A y \in Places : d \in P[y] <=> y = x

ChainAt(c, x, F) == Received[c][F.name][x.chain]
BufferAt(c, x, F) == ChainAt(c, x, F)[x.buf]
PagedAt(c, x, F) == V5(F) /\ ~ChainAt(c, x, F)[1].linear

\* A context that works on a buffer
AtWork(c, x, F, h, r) ==
    /\ x.chain \in 1 .. Len(Received[c][F.name])
    /\ x.buf \in 1 .. Len(ChainAt(c, x, F))
    /\ x.nth \in 0 .. Len(BufferAt(c, x, F).pkts)
    /\ x.pc # "linear" <=> PagedAt(c, x, F)
    /\ x.pc \in {"deaggregate", "linear"} =>
          FragsLen(x.rest) = FragsLen(BufferAt(c, x, F).frags)
                             - Start(F, BufferAt(c, x, F).pkts, x.nth + 1)
    /\ Runt(F, ChainAt(c, x, F)) => r
    /\ \A i \in 1 .. Len(ChainAt(c, x, F)) :
          \A k \in 1 .. Len(ChainAt(c, x, F)[i].pkts) :
             Hollow(F, ChainAt(c, x, F)[i].pkts[k]) => h

\* The lists a context has while it is at pc
ListsByPc(x, A, h) ==
    /\ x.pc \in {"idle", "linear"} => x.list = <<>>
    /\ x.pc \notin {"deliver", "again"} => x.segs = <<>>
    /\ x.pc = "deliver" => x.segs # <<>>
    /\ x.pc = "again" => x.again \in A /\ h
    /\ x.pc # "again" => x.again = NULL

CtxGood(c, x, F, A, h, r) ==
    /\ x.pc # "idle" => AtWork(c, x, F, h, r)
    /\ ListsByPc(x, A, h)

\* What a descriptor holds on the list of packets, and on that of segments
InList(F, pkts, y) ==
    /\ y.nth \in 1 .. Len(pkts) /\ y.hdr = 0
    /\ FragsLen(y.frags) = WireLen(F, pkts[y.nth])
InSegs(y, h) == y.hdr <= FragsLen(y.frags) \/ h

Holds(x, y, cx, F, h) ==
    IF x[1] \in {"free", "lost"} THEN y.frags = <<>>
    ELSE IF x[1] = "list" THEN InList(F, BufferAt(x[2], cx[x[2]], F).pkts, y)
    ELSE InSegs(y, h)

PoolInv ==
    /\ pool_size = Cardinality(alive)
    /\ ~runt => lost = {}
    /\ clash => hollow
    /\ ~up => free = <<>> /\ alive = lost /\ \A c \in Ctx : ctx[c].pc = "idle"

CtxInv == \A c \in Ctx : CtxGood(c, ctx[c], format.flags, alive, hollow, runt)

ListInv == Inj(free) /\ \A c \in Ctx : Inj(ctx[c].list) /\ Inj(ctx[c].segs)

HoldInv ==
    /\ \A d \in Desc \ alive : desc[d].frags = <<>>
    /\ \A x \in Places : \A d \in PlacesOf(free, lost, ctx)[x] :
           Holds(x, desc[d], ctx, format.flags, hollow)

OwnInv ==
    ~clash =>
      /\ OwnOf(PlacesOf(free, lost, ctx), alive)
      /\ ListInv
      /\ HoldInv

Pcs == {"idle", "deaggregate", "handle", "deliver", "again", "linear"}
CtxRec(A) ==
    [pc : Pcs, chain : Nat, buf : Nat, rest : Seq(Fragments(Pages)),
     nth : Nat, list : Seq(A), segs : Seq(A), again : A \cup {NULL}]
DescRec ==
    [frags : Seq(Fragments(Pages)), nth : Nat, hdr : Nat,
     valid : BOOLEAN, seg : {NULL} \cup (Nat \X Int)]

\* TypeOK in parts
SideInv ==
    /\ format.flags \in Formats /\ format.features \in Features
    /\ stopped \subseteq Muxes /\ mark \in {NULL, "start", "end"}
    /\ up \in BOOLEAN /\ runt \in BOOLEAN /\ hollow \in BOOLEAN /\ clash \in BOOLEAN
TypeInv ==
    /\ free \in Seq(alive) /\ alive \subseteq Desc /\ lost \subseteq alive
    /\ desc \in [Desc -> DescRec]
    /\ ctx \in [Ctx -> CtxRec(alive)]

\* A sequence of whatever it holds
IsSeq(s) == Len(s) \in Nat /\ s \in Seq(Ran(s))

StackInv ==
    /\ DOMAIN stack = Ctx
    /\ \A c \in Ctx : IsSeq(stack[c])

RefsInv == refs \in [Pages -> Int]

-----------------------------------------------------------------------------

LEMMA ChainFacts ==
    ASSUME NEW c \in Ctx, NEW F \in Formats, NEW k \in 1 .. Len(Received[c][F.name])
    PROVE  IsChain(F, Received[c][F.name][k])
BY ChainsAssumption DEF Received

LEMMA V5Facts ==
    ASSUME NEW F \in Formats, V5(F)
    PROVE  ~F.v4
BY IngressAssumption DEF V5

LEMMA BufferFacts ==
    ASSUME NEW c \in Ctx, NEW F \in Formats, NEW x, NEW h, NEW r, AtWork(c, x, F, h, r)
    PROVE  /\ IsChain(F, ChainAt(c, x, F)) /\ Len(ChainAt(c, x, F)) \in Nat \ {0}
           /\ \A i \in 1 .. Len(ChainAt(c, x, F)) :
                 IsBuffer(F, PagedAt(c, x, F), ChainAt(c, x, F)[i])
           /\ IsBuffer(F, PagedAt(c, x, F), BufferAt(c, x, F))
           /\ BufferAt(c, x, F).frags \in Seq(Fragments(Pages))
           /\ Len(BufferAt(c, x, F).pkts) \in Nat
           /\ \A k \in 1 .. Len(BufferAt(c, x, F).pkts) : IsPacket(BufferAt(c, x, F).pkts[k])
<1>1. PICK chain : chain = ChainAt(c, x, F)
  OBVIOUS
<1>2. IsChain(F, chain)
  BY <1>1, ChainFacts DEF AtWork, ChainAt
<1>3. Len(chain) \in Nat \ {0} /\ \A i \in 1 .. Len(chain) : IsBuffer(F, V5(F) /\ ~chain[1].linear, chain[i])
  BY <1>2 DEF IsChain
<1>4. PICK b : b = BufferAt(c, x, F)
  OBVIOUS
<1>5. IsBuffer(F, PagedAt(c, x, F), b)
  BY <1>1, <1>3, <1>4 DEF AtWork, BufferAt, PagedAt
<1>6. b.frags \in Seq(Fragments(Pages)) /\ Len(b.pkts) \in Nat
      /\ \A k \in 1 .. Len(b.pkts) : IsPacket(b.pkts[k])
  BY <1>5 DEF IsBuffer
<1> QED
  BY <1>1, <1>2, <1>3, <1>4, <1>5, <1>6 DEF PagedAt

LEMMA AtWorkSame ==
    ASSUME NEW c, NEW x, NEW y, NEW F, NEW h, NEW r, NEW g, NEW s, AtWork(c, x, F, h, r),
           h => g, r => s, y.chain = x.chain, y.buf = x.buf, y.nth = x.nth,
           \/ y.pc = x.pc /\ y.rest = x.rest
           \/ x.pc # "linear" /\ y.pc \in {"handle", "deliver", "again"}
    PROVE  AtWork(c, y, F, g, s)
<1>1. ChainAt(c, y, F) = ChainAt(c, x, F) /\ BufferAt(c, y, F) = BufferAt(c, x, F)
      /\ PagedAt(c, y, F) = PagedAt(c, x, F)
  BY DEF ChainAt, BufferAt, PagedAt
<1> QED
  BY <1>1 DEF AtWork

LEMMA CtxGoodMono ==
    ASSUME NEW c, NEW x, NEW F, NEW A, NEW B, NEW h, NEW r, NEW g, NEW s,
           CtxGood(c, x, F, A, h, r), A \subseteq B, h => g, r => s
    PROVE  CtxGood(c, x, F, B, g, s)
<1>1. x.pc # "idle" => AtWork(c, x, F, g, s)
  <2> SUFFICES ASSUME x.pc # "idle" PROVE AtWork(c, x, F, g, s)
    OBVIOUS
  <2>1. AtWork(c, x, F, h, r)
    BY DEF CtxGood
  <2> QED
    BY <2>1 DEF AtWork
<1> QED
  BY <1>1 DEF CtxGood, ListsByPc

Arrive(M, T, p) == {d \in M : T[d] = p}

LEMMA MoveOwn ==
    ASSUME NEW P, NEW A, OwnOf(P, A), NEW M, NEW T, \A d \in M : T[d] \in Places, NEW Q,
           \A p \in Places : Q[p] = (P[p] \ M) \cup Arrive(M, T, p)
    PROVE  OwnOf(Q, A \cup M)
<1>1. ASSUME NEW p \in Places PROVE Q[p] \subseteq A \cup M
  BY DEF OwnOf, Arrive
<1>2. ASSUME NEW d \in A \cup M
      PROVE  \E x \in Places : \A y \in Places : d \in Q[y] <=> y = x
  <2>1. CASE d \in M
    <3>1. \A y \in Places : d \in Q[y] <=> y = T[d]
      BY <2>1 DEF Arrive
    <3>2. T[d] \in Places
      BY <2>1
    <3> QED
      BY <3>1, <3>2
  <2>2. CASE d \notin M
    <3>1. PICK x \in Places : \A y \in Places : d \in P[y] <=> y = x
      BY <2>2 DEF OwnOf
    <3>2. \A y \in Places : d \in Q[y] <=> d \in P[y]
      BY <2>2 DEF Arrive
    <3> QED
      BY <3>1, <3>2
  <2> QED
    BY <2>1, <2>2
<1> QED
  BY <1>1, <1>2 DEF OwnOf

LEMMA Elsewhere ==
    ASSUME NEW P, NEW A, OwnOf(P, A), NEW p \in Places, NEW q \in Places, p # q,
           NEW d \in P[p]
    PROVE  d \notin P[q] /\ d \in A
BY DEF OwnOf

LEMMA Nowhere ==
    ASSUME NEW P, NEW A, OwnOf(P, A), NEW q \in Places, NEW d, d \notin A
    PROVE  d \notin P[q]
BY DEF OwnOf

LEMMA PlaceNames ==
    /\ <<"free", 0>> \in Places /\ <<"lost", 0>> \in Places
    /\ \A c \in Ctx : <<"list", c>> \in Places /\ <<"segs", c>> \in Places
    /\ \A p \in Places : \/ p = <<"free", 0>> \/ p = <<"lost", 0>>
                         \/ \E c \in Ctx : p = <<"list", c>> \/ p = <<"segs", c>>
BY DEF Places

LEMMA PlacesAre ==
    ASSUME NEW fr, NEW lo, NEW cx
    PROVE  /\ PlacesOf(fr, lo, cx)[<<"free", 0>>] = Ran(fr)
           /\ PlacesOf(fr, lo, cx)[<<"lost", 0>>] = lo
           /\ \A c \in Ctx : /\ PlacesOf(fr, lo, cx)[<<"list", c>>] = Ran(cx[c].list)
                             /\ PlacesOf(fr, lo, cx)[<<"segs", c>>] = Ran(cx[c].segs)
<1>1. <<"free", 0>>[1] = "free" /\ <<"lost", 0>>[1] = "lost"
  OBVIOUS
<1>2. PlacesOf(fr, lo, cx)[<<"free", 0>>] = Ran(fr) /\ PlacesOf(fr, lo, cx)[<<"lost", 0>>] = lo
  BY <1>1, PlaceNames DEF PlacesOf
<1>3. ASSUME NEW c \in Ctx
      PROVE  /\ PlacesOf(fr, lo, cx)[<<"list", c>>] = Ran(cx[c].list)
             /\ PlacesOf(fr, lo, cx)[<<"segs", c>>] = Ran(cx[c].segs)
  <2>1. /\ <<"list", c>>[1] = "list" /\ <<"list", c>>[2] = c
        /\ <<"segs", c>>[1] = "segs" /\ <<"segs", c>>[2] = c
        /\ <<"list", c>> \in Places /\ <<"segs", c>> \in Places
    BY PlaceNames
  <2> QED
    BY <2>1 DEF PlacesOf
<1> QED
  BY <1>2, <1>3

-----------------------------------------------------------------------------
(* A step of one context.                                                   *)

LEMMA CtxStep ==
    ASSUME TypeInv, CtxInv, NEW c \in Ctx, NEW y, ctx' = [ctx EXCEPT ![c] = y],
           y \in CtxRec(alive'), CtxGood(c, y, format.flags, alive', hollow', runt'),
           format' = format, hollow => hollow', runt => runt', alive \subseteq alive'
    PROVE  /\ CtxInv' /\ ctx' \in [Ctx -> CtxRec(alive')]
           /\ ctx'[c] = y /\ \A e \in Ctx \ {c} : ctx'[e] = ctx[e]
<1>1. ctx \in [Ctx -> CtxRec(alive)]
  BY DEF TypeInv
<1>2. ctx'[c] = y /\ \A e \in Ctx \ {c} : ctx'[e] = ctx[e]
  BY <1>1
<1>3. PICK A, B : A = alive /\ B = alive'
  OBVIOUS
<1>4. ASSUME NEW x \in CtxRec(A) PROVE x \in CtxRec(B)
  <2>1. Seq(A) \subseteq Seq(B)
    BY <1>3, SeqMonotonic
  <2>2. A \subseteq B
    BY <1>3
  <2> QED
    BY <2>1, <2>2 DEF CtxRec
<1>5. ctx' \in [Ctx -> CtxRec(alive')]
  BY <1>1, <1>3, <1>4
<1>6. ASSUME NEW e \in Ctx PROVE CtxGood(e, ctx'[e], format'.flags, alive', hollow', runt')
  <2>1. CASE e = c
    BY <1>2, <2>1
  <2>2. CASE e # c
    <3>1. CtxGood(e, ctx[e], format.flags, alive, hollow, runt)
      BY DEF CtxInv
    <3>2. CtxGood(e, ctx[e], format.flags, alive', hollow', runt')
      BY <3>1, CtxGoodMono
    <3> QED
      BY <1>2, <2>2, <3>2
  <2> QED
    BY <2>1, <2>2
<1> QED
  BY <1>2, <1>5, <1>6 DEF CtxInv

\* M is the set of descriptors that a step of context c moves, T says where to
Moves(c, M, T) ==
    /\ M \subseteq Desc
    /\ \A d \in M : d \notin alive \/ d \in Ran(free) \/ d \in Ran(ctx[c].list) \/ d \in Ran(ctx[c].segs)
    /\ \A d \in M : T[d] \in {<<"free", 0>>, <<"lost", 0>>, <<"list", c>>, <<"segs", c>>}

LEMMA OwnStep ==
    ASSUME TypeInv, OwnInv, ~clash, NEW c \in Ctx, NEW y, ctx' = [ctx EXCEPT ![c] = y],
           format' = format, hollow => hollow', NEW M, NEW T, Moves(c, M, T),
           Ran(free') = (Ran(free) \ M) \cup Arrive(M, T, <<"free", 0>>),
           lost' = lost \cup Arrive(M, T, <<"lost", 0>>),
           Ran(y.list) = (Ran(ctx[c].list) \ M) \cup Arrive(M, T, <<"list", c>>),
           Ran(y.segs) = (Ran(ctx[c].segs) \ M) \cup Arrive(M, T, <<"segs", c>>),
           Inj(free'), Inj(y.list), Inj(y.segs),
           alive' = alive \cup M,
           \A d \in Desc \ M : desc'[d] = desc[d],
           \A d \in M : Holds(T[d], desc'[d], ctx', format.flags, hollow'),
           y.list = <<>> \/ (y.chain = ctx[c].chain /\ y.buf = ctx[c].buf)
    PROVE  OwnInv'
<1> DEFINE P == PlacesOf(free, lost, ctx)
           Q == PlacesOf(free', lost', ctx')
<1>1. OwnOf(P, alive) /\ ListInv /\ HoldInv
  BY DEF OwnInv
<1>2. ctx'[c] = y /\ \A e \in Ctx \ {c} : ctx'[e] = ctx[e]
  BY DEF TypeInv
<1>3. /\ P[<<"free", 0>>] = Ran(free) /\ P[<<"lost", 0>>] = lost
      /\ \A e \in Ctx : P[<<"list", e>>] = Ran(ctx[e].list) /\ P[<<"segs", e>>] = Ran(ctx[e].segs)
  BY PlacesAre
<1>31. /\ Q[<<"free", 0>>] = Ran(free') /\ Q[<<"lost", 0>>] = lost'
      /\ \A e \in Ctx : Q[<<"list", e>>] = Ran(ctx'[e].list) /\ Q[<<"segs", e>>] = Ran(ctx'[e].segs)
  <2>1. PICK fr, lo, cx : fr = free' /\ lo = lost' /\ cx = ctx'
    OBVIOUS
  <2>2. Q = PlacesOf(fr, lo, cx)
    BY <2>1
  <2> HIDE DEF Q
  <2>3. /\ Q[<<"free", 0>>] = Ran(fr) /\ Q[<<"lost", 0>>] = lo
        /\ \A e \in Ctx : Q[<<"list", e>>] = Ran(cx[e].list) /\ Q[<<"segs", e>>] = Ran(cx[e].segs)
    BY <2>2, PlacesAre
  <2> QED
    BY <2>1, <2>3
<1> HIDE DEF P, Q
<1>4. \A d \in M : T[d] \in Places
  BY PlaceNames DEF Moves
<1>5. ASSUME NEW d \in M, NEW p \in Places,
             p \notin {<<"free", 0>>, <<"list", c>>, <<"segs", c>>}
      PROVE  d \notin P[p]
  <2>1. CASE d \notin alive
    BY <1>1, <2>1, Nowhere
  <2>2. CASE d \in Ran(free)
    BY <1>1, <1>3, <1>5, <2>2, Elsewhere, PlaceNames
  <2>3. CASE d \in Ran(ctx[c].list)
    BY <1>1, <1>3, <1>5, <2>3, Elsewhere, PlaceNames
  <2>4. CASE d \in Ran(ctx[c].segs)
    BY <1>1, <1>3, <1>5, <2>4, Elsewhere, PlaceNames
  <2> QED
    BY <2>1, <2>2, <2>3, <2>4 DEF Moves
<1>6. ASSUME NEW p \in Places PROVE Q[p] = (P[p] \ M) \cup Arrive(M, T, p)
  <2>1. CASE p = <<"free", 0>>
    BY <1>3, <1>31, <2>1
  <2>2. CASE p = <<"lost", 0>>
    <3>1. \A d \in M : d \notin P[p]
      BY <1>5, <2>2
    <3> QED
      BY <1>3, <1>31, <2>2, <3>1
  <2>3. CASE p = <<"list", c>>
    BY <1>2, <1>3, <1>31, <2>3
  <2>4. CASE p = <<"segs", c>>
    BY <1>2, <1>3, <1>31, <2>4
  <2>5. ASSUME NEW e \in Ctx \ {c}, p = <<"list", e>> \/ p = <<"segs", e>>
        PROVE  Q[p] = (P[p] \ M) \cup Arrive(M, T, p)
    <3>1. p \notin {<<"free", 0>>, <<"lost", 0>>, <<"list", c>>, <<"segs", c>>}
      BY <2>5
    <3>2. Arrive(M, T, p) = {}
      BY <3>1 DEF Arrive, Moves
    <3>3. \A d \in M : d \notin P[p]
      BY <1>5, <3>1
    <3>4. Q[p] = P[p]
      <4>1. CASE p = <<"list", e>>
        BY <1>2, <1>3, <1>31, <4>1, ZenonT(60)
      <4>2. CASE p = <<"segs", e>>
        BY <1>2, <1>3, <1>31, <4>2, ZenonT(60)
      <4> QED
        BY <2>5, <4>1, <4>2
    <3> QED
      BY <3>2, <3>3, <3>4
  <2>6. CASE p # <<"free", 0>> /\ p # <<"lost", 0>>
    <3>1. PICK e \in Ctx : p = <<"list", e>> \/ p = <<"segs", e>>
      BY <2>6, PlaceNames
    <3>2. CASE e = c
      BY <2>3, <2>4, <3>1, <3>2
    <3>3. CASE e # c
      BY <2>5, <3>1, <3>3
    <3> QED
      BY <3>2, <3>3
  <2> QED
    BY <2>1, <2>2, <2>6
<1>7. OwnOf(Q, alive')
  <2>1. OwnOf(Q, alive \cup M)
    <3>2. PICK A, P0, Q0 : A = alive /\ P0 = P /\ Q0 = Q
      OBVIOUS
    <3>3. OwnOf(P0, A)
      BY <1>1, <3>2
    <3>31. \A p \in Places : Q0[p] = (P0[p] \ M) \cup Arrive(M, T, p)
      BY <1>6, <3>2
    <3>4. OwnOf(Q0, A \cup M)
      BY ONLY <1>4, <3>3, <3>31, MoveOwn, Zenon
    <3> QED
      BY <3>2, <3>4
  <2> QED
    BY <2>1
<1>8. ListInv'
  <2>1. \A e \in Ctx : Inj(ctx'[e].list) /\ Inj(ctx'[e].segs)
    BY <1>1, <1>2 DEF ListInv
  <2> QED
    BY <2>1 DEF ListInv, Inj
<1>9. ASSUME NEW d \in Desc \ alive' PROVE desc'[d].frags = <<>>
  <2>1. d \notin alive /\ d \notin M
    BY <1>9
  <2> QED
    BY <1>1, <2>1 DEF HoldInv
<1>10. ASSUME NEW p \in Places, NEW d \in Q[p]
       PROVE  Holds(p, desc'[d], ctx', format.flags, hollow')
  <2>1. CASE d \in M
    <3>1. T[d] = p
      <4>1. d \in Arrive(M, T, p)
        BY <1>6, <2>1
      <4> QED
        BY <4>1 DEF Arrive
    <3> QED
      BY <2>1, <3>1
  <2>2. CASE d \notin M
    <3>1. d \in P[p]
      BY <1>6, <2>2 DEF Arrive
    <3>2. d \in Desc /\ desc'[d] = desc[d]
      <4>1. d \in alive
        BY <1>1, <3>1 DEF OwnOf
      <4> QED
        BY <2>2, <4>1 DEF TypeInv
    <3>3. Holds(p, desc[d], ctx, format.flags, hollow)
      BY <1>1, <3>1 DEF HoldInv, P
    <3>4. CASE p = <<"free", 0>> \/ p = <<"lost", 0>>
      <4>1. p[1] \in {"free", "lost"}
        BY <3>4
      <4> QED
        BY <3>2, <3>3, <4>1 DEF Holds
    <3>5. ASSUME NEW e \in Ctx, p = <<"segs", e>>
          PROVE  Holds(p, desc'[d], ctx', format.flags, hollow')
      <4>1. p[1] = "segs"
        BY <3>5
      <4>2. InSegs(desc[d], hollow)
        BY <3>3, <4>1 DEF Holds
      <4>3. InSegs(desc'[d], hollow')
        BY <3>2, <4>2 DEF InSegs
      <4> QED
        BY <4>1, <4>3 DEF Holds
    <3>6. ASSUME NEW e \in Ctx, p = <<"list", e>>
          PROVE  Holds(p, desc'[d], ctx', format.flags, hollow')
      <4>1. p[1] = "list" /\ p[2] = e
        BY <3>6
      <4>2. InList(format.flags, BufferAt(e, ctx[e], format.flags).pkts, desc[d])
        BY <3>3, <4>1 DEF Holds
      <4>3. BufferAt(e, ctx'[e], format.flags) = BufferAt(e, ctx[e], format.flags)
        <5>1. CASE e # c
          BY <1>2, <5>1
        <5>2. CASE e = c
          <6>1. d \in Ran(y.list)
            BY <1>2, <1>31, <1>10, <3>6, <5>2
          <6>2. y.list # <<>>
            BY <6>1, EmptyRan
          <6>3. y.chain = ctx[c].chain /\ y.buf = ctx[c].buf
            BY <6>2
          <6> QED
            BY <1>2, <5>2, <6>3 DEF BufferAt, ChainAt
        <5> QED
          BY <5>1, <5>2
      <4>4. InList(format.flags, BufferAt(e, ctx'[e], format.flags).pkts, desc'[d])
        BY <3>2, <4>2, <4>3
      <4> QED
        BY <4>1, <4>4 DEF Holds
    <3> QED
      BY <3>4, <3>5, <3>6, PlaceNames
  <2> QED
    BY <2>1, <2>2
<1>11. HoldInv'
  BY <1>9, <1>10 DEF HoldInv, Q
<1> QED
  BY <1>7, <1>8, <1>11 DEF OwnInv, Q

-----------------------------------------------------------------------------

\* A step of context c that leaves it in y and moves the descriptors of M
StepOK(c, y, M, T) ==
    /\ ctx' = [ctx EXCEPT ![c] = y] /\ y \in CtxRec(alive')
    /\ CtxGood(c, y, format.flags, alive', hollow', runt')
    /\ format' = format /\ up' = up /\ clash' = clash
    /\ (hollow => hollow') /\ (runt => runt')
    /\ Moves(c, M, T)
    /\ free' \in Seq(alive')
    /\ Ran(free') = (Ran(free) \ M) \cup Arrive(M, T, <<"free", 0>>)
    /\ lost' = lost \cup Arrive(M, T, <<"lost", 0>>)
    /\ runt' \/ lost' = lost
    /\ Ran(y.list) = (Ran(ctx[c].list) \ M) \cup Arrive(M, T, <<"list", c>>)
    /\ Ran(y.segs) = (Ran(ctx[c].segs) \ M) \cup Arrive(M, T, <<"segs", c>>)
    /\ Inj(free') /\ Inj(y.list) /\ Inj(y.segs)
    /\ alive' = alive \cup M /\ pool_size' = pool_size + Cardinality(M \ alive)
    /\ desc' \in [Desc -> DescRec]
    /\ \A d \in Desc \ M : desc'[d] = desc[d]
    /\ \A d \in M : Holds(T[d], desc'[d], ctx', format.flags, hollow')
    /\ y.list = <<>> \/ (y.chain = ctx[c].chain /\ y.buf = ctx[c].buf)

LEMMA StepInv ==
    ASSUME TypeInv, PoolInv, CtxInv, OwnInv, ~clash, up, NEW c \in Ctx,
           NEW y, NEW M, NEW T, StepOK(c, y, M, T)
    PROVE  TypeInv' /\ PoolInv' /\ CtxInv' /\ OwnInv'
<1>1. CtxInv' /\ ctx' \in [Ctx -> CtxRec(alive')]
  <2>1. /\ ctx' = [ctx EXCEPT ![c] = y] /\ y \in CtxRec(alive')
        /\ CtxGood(c, y, format.flags, alive', hollow', runt')
        /\ format' = format /\ (hollow => hollow') /\ (runt => runt')
    BY DEF StepOK
  <2>2. alive \subseteq alive'
    BY DEF StepOK
  <2> QED
    BY <2>1, <2>2, CtxStep
<1>2. OwnInv'
  BY OwnStep DEF StepOK
<1>3. TypeInv'
  <2>1. alive' \subseteq Desc /\ lost' \subseteq alive'
    BY DEF StepOK, Moves, TypeInv, Arrive
  <2> QED
    BY <1>1, <2>1 DEF StepOK, TypeInv
<1>4. PoolInv'
  <2>1. pool_size' = Cardinality(alive')
    <3>1. PICK A, N : A = alive /\ N = M \ alive
      OBVIOUS
    <3>2. A \subseteq Desc /\ N \subseteq Desc /\ IsFiniteSet(Desc)
      BY <3>1, IngressAssumption DEF TypeInv, StepOK, Moves
    <3>3. IsFiniteSet(A) /\ IsFiniteSet(N)
      BY <3>2, FS_Subset
    <3>4. A \cap N = {}
      BY <3>1
    <3>5. Cardinality(A \cup N) = Cardinality(A) + Cardinality(N)
      <4>1. Cardinality(A) \in Nat /\ Cardinality(N) \in Nat
        BY <3>3, FS_CardinalityType
      <4>2. Cardinality(A \cup N) = Cardinality(A) + Cardinality(N) - Cardinality(A \cap N)
        BY <3>3, FS_Union
      <4>3. Cardinality(A \cap N) = 0
        BY <3>4, FS_EmptySet
      <4> QED
        BY <4>1, <4>2, <4>3
    <3>6. A \cup N = alive'
      BY <3>1 DEF StepOK
    <3>7. pool_size = Cardinality(A) /\ pool_size' = pool_size + Cardinality(N)
      BY <3>1 DEF StepOK, PoolInv
    <3> QED
      BY <3>5, <3>6, <3>7
  <2>2. ~runt' => lost' = {}
    BY DEF StepOK, PoolInv
  <2>3. up' /\ ~clash'
    BY DEF StepOK
  <2> QED
    BY <2>1, <2>2, <2>3 DEF PoolInv
<1> QED
  BY <1>1, <1>2, <1>3, <1>4

\* A step that moves nothing
LEMMA QuietStep ==
    ASSUME TypeInv, PoolInv, CtxInv, OwnInv, ~clash, up, NEW c \in Ctx,
           NEW y, ctx' = [ctx EXCEPT ![c] = y], y \in CtxRec(alive),
           CtxGood(c, y, format.flags, alive, hollow', runt'),
           y.list = ctx[c].list, y.segs = ctx[c].segs,
           y.list = <<>> \/ (y.chain = ctx[c].chain /\ y.buf = ctx[c].buf),
           UNCHANGED <<format, poolVars, desc, lost, clash>>,
           hollow => hollow', runt => runt'
    PROVE  TypeInv' /\ PoolInv' /\ CtxInv' /\ OwnInv'
<1> DEFINE T == [d \in {} |-> <<"free", 0>>]
<1>1. \A p : Arrive({}, T, p) = {}
  BY DEF Arrive
<1>2. Moves(c, {}, T)
  BY DEF Moves
<1> HIDE DEF T
<1>3. Inj(free) /\ Inj(ctx[c].list) /\ Inj(ctx[c].segs)
  BY DEF OwnInv, ListInv
<1>4. /\ free' = free /\ pool_size' = pool_size /\ up' = up /\ alive' = alive /\ format' = format
      /\ desc' = desc /\ lost' = lost /\ clash' = clash
  BY DEF poolVars
<1>5. pool_size \in Nat /\ Cardinality({} \ alive) = 0
  <2>1. IsFiniteSet(alive) /\ {} \ alive = {}
    BY IngressAssumption, FS_Subset DEF TypeInv
  <2> QED
    BY <2>1, FS_CardinalityType, FS_EmptySet DEF PoolInv
<1>6. free \in Seq(alive) /\ desc \in [Desc -> DescRec]
  BY DEF TypeInv
<1>7. StepOK(c, y, {}, T)
  BY <1>1, <1>2, <1>3, <1>4, <1>5, <1>6 DEF StepOK
<1> QED
  BY <1>7, StepInv

\* A step of context c that moves descriptor d to p, where it holds z
MoveOK(c, y, d, p, z) ==
    /\ ctx' = [ctx EXCEPT ![c] = y] /\ y \in CtxRec(alive')
    /\ CtxGood(c, y, format.flags, alive', hollow, runt)
    /\ UNCHANGED <<format, up, hollow, runt, clash>>
    /\ d \in Desc
    /\ d \notin alive \/ d \in Ran(free) \/ d \in Ran(ctx[c].list) \/ d \in Ran(ctx[c].segs)
    /\ p \in {<<"free", 0>>, <<"lost", 0>>, <<"list", c>>, <<"segs", c>>}
    /\ free' \in Seq(alive') /\ Inj(free') /\ Inj(y.list) /\ Inj(y.segs)
    /\ Ran(free') = (Ran(free) \ {d}) \cup (IF p = <<"free", 0>> THEN {d} ELSE {})
    /\ lost' = lost \cup (IF p = <<"lost", 0>> THEN {d} ELSE {})
    /\ p = <<"lost", 0>> => runt
    /\ Ran(y.list) = (Ran(ctx[c].list) \ {d}) \cup (IF p = <<"list", c>> THEN {d} ELSE {})
    /\ Ran(y.segs) = (Ran(ctx[c].segs) \ {d}) \cup (IF p = <<"segs", c>> THEN {d} ELSE {})
    /\ alive' = alive \cup {d} /\ pool_size' = IF d \in alive THEN pool_size ELSE pool_size + 1
    /\ z \in DescRec /\ desc' = [desc EXCEPT ![d] = z]
    /\ Holds(p, z, ctx', format.flags, hollow)
    /\ y.list = <<>> \/ (y.chain = ctx[c].chain /\ y.buf = ctx[c].buf)

LEMMA MoveStep ==
    ASSUME TypeInv, PoolInv, CtxInv, OwnInv, ~clash, up, NEW c \in Ctx,
           NEW y, NEW d, NEW p, NEW z, MoveOK(c, y, d, p, z)
    PROVE  TypeInv' /\ PoolInv' /\ CtxInv' /\ OwnInv'
<1> USE DEF MoveOK
<1> DEFINE T == [e \in {d} |-> p]
<1>1. \A x : Arrive({d}, T, x) = IF p = x THEN {d} ELSE {}
  BY DEF Arrive
<1>2. Moves(c, {d}, T)
  BY DEF Moves
<1>21. T[d] = p
  OBVIOUS
<1> HIDE DEF T
<1>3. pool_size' = pool_size + Cardinality({d} \ alive)
  <2>1. pool_size \in Nat
    BY IngressAssumption, FS_Subset, FS_CardinalityType DEF TypeInv, PoolInv
  <2>2. CASE d \in alive
    <3>1. {d} \ alive = {}
      BY <2>2
    <3>2. Cardinality({d} \ alive) = 0
      BY <3>1, FS_EmptySet
    <3> QED
      BY <2>1, <2>2, <3>2
  <2>3. CASE d \notin alive
    <3>1. {d} \ alive = {d}
      BY <2>3
    <3>2. Cardinality({d} \ alive) = 1
      BY <3>1, FS_Singleton
    <3> QED
      BY <2>1, <2>3, <3>2
  <2> QED
    BY <2>2, <2>3
<1>4. desc' \in [Desc -> DescRec] /\ desc'[d] = z /\ \A e \in Desc \ {d} : desc'[e] = desc[e]
  BY DEF TypeInv
<1>5. \A e \in {d} : Holds(T[e], desc'[e], ctx', format.flags, hollow')
  BY <1>21, <1>4
<1>6. runt' \/ lost' = lost
  OBVIOUS
<1>7. StepOK(c, y, {d}, T)
  BY <1>1, <1>2, <1>3, <1>4, <1>5, <1>6 DEF StepOK
<1> QED
  BY <1>7, StepInv

-----------------------------------------------------------------------------
(* What a context works on.                                                 *)

LEMMA Here ==
    ASSUME SideInv, TypeInv, CtxInv, NEW c \in Ctx
    PROVE  /\ ctx[c] \in CtxRec(alive) /\ format.flags \in Formats
           /\ CtxGood(c, ctx[c], format.flags, alive, hollow, runt)
           /\ ctx[c].chain \in Nat /\ ctx[c].buf \in Nat /\ ctx[c].nth \in Nat
           /\ ctx[c].rest \in Seq(Fragments(Pages)) /\ FragsLen(ctx[c].rest) \in Nat
           /\ ctx[c].list \in Seq(alive) /\ ctx[c].segs \in Seq(alive)
           /\ ctx[c].pc \in Pcs
           /\ ChainOf(c) = ChainAt(c, ctx[c], format.flags)
           /\ Buffer(c) = BufferAt(c, ctx[c], format.flags)
<1>1. ctx[c] \in CtxRec(alive) /\ CtxGood(c, ctx[c], format.flags, alive, hollow, runt)
  BY DEF TypeInv, CtxInv
<1>2. format.flags \in Formats
  BY DEF SideInv
<1>3. PICK x : x = ctx[c]
  OBVIOUS
<1>4. /\ x.chain \in Nat /\ x.buf \in Nat /\ x.nth \in Nat
      /\ x.rest \in Seq(Fragments(Pages))
      /\ x.list \in Seq(alive) /\ x.segs \in Seq(alive) /\ x.pc \in Pcs
  BY <1>1, <1>3 DEF CtxRec
<1>5. FragsLen(x.rest) \in Nat
  BY <1>4, FragsFacts
<1>6. ChainOf(c) = ChainAt(c, x, format.flags) /\ Buffer(c) = BufferAt(c, x, format.flags)
  BY <1>3 DEF ChainOf, ChainAt, Buffer, BufferAt
<1> QED
  BY <1>1, <1>2, <1>3, <1>4, <1>5, <1>6

\* The lengths do not depend on what else the context does
LEMMA NextPkt ==
    ASSUME NEW c \in Ctx, NEW F \in Formats, NEW x, NEW h, NEW r, AtWork(c, x, F, h, r),
           x.nth \in Nat, FragsLen(x.rest) \in Nat,
           \/ x.pc = "deaggregate" /\ FragsLen(x.rest) >= MapLen
           \/ x.pc = "linear" /\ FragsLen(x.rest) > 0,
           NEW k, k = x.nth + 1
    PROVE  /\ k \in 1 .. Len(BufferAt(c, x, F).pkts)
           /\ IsPacket(BufferAt(c, x, F).pkts[k])
           /\ Start(F, BufferAt(c, x, F).pkts, k) \in Nat
           /\ FragsLen(BufferAt(c, x, F).frags) = Start(F, BufferAt(c, x, F).pkts, k) + FragsLen(x.rest)
           /\ Start(F, BufferAt(c, x, F).pkts, k + 1) =
                 Start(F, BufferAt(c, x, F).pkts, k) + HwLen(F, BufferAt(c, x, F).pkts[k])
           /\ HwLen(F, BufferAt(c, x, F).pkts[k]) \in Nat
<1>1. PICK b : b = BufferAt(c, x, F)
  OBVIOUS
<1>2. /\ IsBuffer(F, PagedAt(c, x, F), b) /\ b.frags \in Seq(Fragments(Pages))
      /\ Len(b.pkts) \in Nat /\ \A i \in 1 .. Len(b.pkts) : IsPacket(b.pkts[i])
  BY <1>1, BufferFacts
<1>3. PICK n : n = Len(b.pkts)
  OBVIOUS
<1>4. n \in Nat /\ x.nth \in 0 .. n
  BY <1>1, <1>2, <1>3 DEF AtWork
<1>5. /\ \A i \in 1 .. n + 1 : Start(F, b.pkts, i) \in Nat
      /\ \A i \in 1 .. n : Start(F, b.pkts, i + 1) = Start(F, b.pkts, i) + HwLen(F, b.pkts[i])
  BY <1>2, <1>3, StartIs
<1>6. k \in 1 .. n + 1 /\ Start(F, b.pkts, k) \in Nat
  BY <1>4, <1>5
<1>7. FragsLen(b.frags) \in Nat
  BY <1>2, FragsFacts
<1>8. FragsLen(x.rest) = FragsLen(b.frags) - Start(F, b.pkts, k)
  BY <1>1 DEF AtWork
<1>9. k # n + 1
  <2> SUFFICES ASSUME k = n + 1 PROVE FALSE
    OBVIOUS
  <2>1. PICK e : e = Start(F, b.pkts, n + 1)
    OBVIOUS
  <2>2. e \in Nat /\ FragsLen(x.rest) = FragsLen(b.frags) - e
    BY <1>6, <1>8, <2>1
  <2>3. CASE x.pc = "deaggregate"
    <3>1. PagedAt(c, x, F)
      BY <2>3 DEF AtWork
    <3>2. FragsLen(b.frags) < e + MapLen
      BY <1>2, <1>3, <2>1, <3>1 DEF IsBuffer
    <3> QED
      BY <1>7, <2>2, <2>3, <3>2, CoalesceAssumption
  <2>4. CASE x.pc = "linear"
    <3>1. ~PagedAt(c, x, F)
      BY <2>4 DEF AtWork
    <3>2. FragsLen(b.frags) <= e
      BY <1>2, <1>3, <2>1, <3>1 DEF IsBuffer
    <3> QED
      BY <1>7, <2>2, <2>4, <3>2
  <2> QED
    BY <2>3, <2>4
<1>10. k \in 1 .. n
  BY <1>4, <1>6, <1>9
<1>11. IsPacket(b.pkts[k]) /\ HwLen(F, b.pkts[k]) \in Nat
  BY <1>2, <1>3, <1>10, HwLenNat
<1> QED
  BY <1>1, <1>3, <1>5, <1>6, <1>7, <1>8, <1>10, <1>11, SMTT(40)

LEMMA NextBufferIs ==
    ASSUME SideInv, TypeInv, CtxInv, NEW c \in Ctx, ctx[c].pc # "idle",
           NEW pc \in {"linear", "deaggregate"}, pc = "linear" <=> ctx[c].pc = "linear"
    PROVE  /\ NextBuffer(c, pc) \in CtxRec(alive)
           /\ CtxGood(c, NextBuffer(c, pc), format.flags, alive, hollow, runt)
           /\ NextBuffer(c, pc).list = <<>> /\ NextBuffer(c, pc).segs = <<>>
<1>1. /\ ctx[c] \in CtxRec(alive) /\ format.flags \in Formats
      /\ AtWork(c, ctx[c], format.flags, hollow, runt)
      /\ ctx[c].chain \in Nat /\ ctx[c].buf \in Nat
      /\ ChainOf(c) = ChainAt(c, ctx[c], format.flags)
  BY Here DEF CtxGood
<1>2. PICK x, F, h, r, ch : x = ctx[c] /\ F = format.flags /\ h = hollow /\ r = runt /\ ch = ChainOf(c)
  OBVIOUS
<1>3. Idle \in CtxRec(alive) /\ CtxGood(c, Idle, F, alive, h, r) /\ Idle.list = <<>> /\ Idle.segs = <<>>
  BY EmptySeq DEF Idle, CtxRec, Pcs, CtxGood, ListsByPc
<1>4. /\ AtWork(c, x, F, h, r) /\ F \in Formats /\ x.buf \in Nat /\ ch = ChainAt(c, x, F)
      /\ x.chain \in Nat
  BY <1>1, <1>2
<1>5. /\ Len(ch) \in Nat /\ \A i \in 1 .. Len(ch) : IsBuffer(F, PagedAt(c, x, F), ch[i])
  BY <1>4, BufferFacts
<1>6. PICK k : k = x.buf + 1
  OBVIOUS
<1> DEFINE y == [Idle EXCEPT !.pc = pc, !.chain = x.chain, !.buf = k, !.rest = ch[k].frags]
<1>7. NextBuffer(c, pc) = IF k > Len(ch) THEN Idle ELSE y
  BY <1>2, <1>6 DEF NextBuffer
<1>8. ASSUME k <= Len(ch)
      PROVE  y \in CtxRec(alive) /\ CtxGood(c, y, F, alive, h, r) /\ y.list = <<>> /\ y.segs = <<>>
  <2>1. k \in 1 .. Len(ch) /\ k \in Nat
    BY <1>4, <1>5, <1>6, <1>8
  <2>2. /\ ch[k].frags \in Seq(Fragments(Pages)) /\ Len(ch[k].pkts) \in Nat
        /\ \A i \in 1 .. Len(ch[k].pkts) : IsPacket(ch[k].pkts[i])
    BY <1>5, <2>1 DEF IsBuffer
  <2>3. /\ y.pc = pc /\ y.chain = x.chain /\ y.buf = k /\ y.rest = ch[k].frags /\ y.nth = 0
        /\ y.list = <<>> /\ y.segs = <<>> /\ y.again = NULL
    BY DEF Idle
  <2>4. y \in CtxRec(alive)
    BY <1>4, <2>1, <2>2, EmptySeq DEF Idle, CtxRec, Pcs
  <2> HIDE DEF y
  <2>5. /\ ChainAt(c, y, F) = ch /\ BufferAt(c, y, F) = ch[k]
        /\ PagedAt(c, y, F) = PagedAt(c, x, F)
    BY <1>4, <2>3 DEF ChainAt, BufferAt, PagedAt
  <2>6. Start(F, ch[k].pkts, 1) = 0 /\ FragsLen(ch[k].frags) \in Nat
    BY <2>2, StartIs, FragsFacts
  <2>7. /\ y.chain \in 1 .. Len(Received[c][F.name])
        /\ x.pc # "linear" <=> PagedAt(c, x, F)
        /\ Runt(F, ch) => r
        /\ \A i \in 1 .. Len(ch) : \A j \in 1 .. Len(ch[i].pkts) : Hollow(F, ch[i].pkts[j]) => h
    BY <1>4, <2>3 DEF AtWork
  <2>8. y.nth \in 0 .. Len(ch[k].pkts)
    BY <2>2, <2>3
  <2>9. FragsLen(y.rest) = FragsLen(ch[k].frags) - Start(F, ch[k].pkts, y.nth + 1)
    BY <2>3, <2>6
  <2>10. y.pc # "linear" <=> PagedAt(c, y, F)
    BY <1>2, <2>3, <2>5, <2>7
  <2>11. AtWork(c, y, F, h, r)
    BY <2>1, <2>3, <2>5, <2>7, <2>8, <2>9, <2>10 DEF AtWork
  <2>12. ListsByPc(y, alive, h)
    BY <2>3 DEF ListsByPc
  <2> QED
    BY <2>3, <2>4, <2>11, <2>12 DEF CtxGood
<1> HIDE DEF y
<1> QED
  BY <1>2, <1>3, <1>4, <1>5, <1>6, <1>7, <1>8

-----------------------------------------------------------------------------
(* Steps that move no descriptor.                                           *)

CoreInv == TypeInv /\ PoolInv /\ CtxInv /\ OwnInv

LEMMA WorkUp ==
    ASSUME PoolInv, NEW c \in Ctx, ctx[c].pc # "idle", SideInv
    PROVE  up
BY DEF PoolInv, SideInv

LEMMA ReceiveCore ==
    ASSUME SideInv, CoreInv, ~clash, NEW c \in Ctx,
           NEW n \in 1 .. Len(Received[c][format.flags.name]), Receive(c, n)
    PROVE  CoreInv'
<1> USE DEF CoreInv
<1>1. PICK F, ch, h, r : /\ F = format.flags /\ ch = Received[c][F.name][n]
                         /\ h = hollow' /\ r = runt'
  OBVIOUS
<1>2. F \in Formats /\ IsChain(F, ch)
  BY <1>1, ChainFacts DEF SideInv
<1>3. PICK paged : paged = (V5(F) /\ ~ch[1].linear)
  OBVIOUS
<1>4. Len(ch) \in Nat \ {0} /\ \A i \in 1 .. Len(ch) : IsBuffer(F, paged, ch[i])
  BY <1>2, <1>3 DEF IsChain
<1>5. 1 \in 1 .. Len(ch)
  BY <1>4
<1>6. /\ ch[1].frags \in Seq(Fragments(Pages)) /\ Len(ch[1].pkts) \in Nat
      /\ \A i \in 1 .. Len(ch[1].pkts) : IsPacket(ch[1].pkts[i])
  BY <1>4, <1>5 DEF IsBuffer
<1>7. n \in Nat
  BY <1>1, <1>2, ChainsAssumption DEF Received
<1> DEFINE y == [Idle EXCEPT !.pc = IF paged THEN "deaggregate" ELSE "linear",
                             !.chain = n, !.buf = 1, !.rest = ch[1].frags]
<1>8. /\ up /\ ctx[c].pc = "idle" /\ ctx' = [ctx EXCEPT ![c] = y]
      /\ runt' = (runt \/ Runt(F, ch))
      /\ hollow' = (hollow \/ \E i \in 1 .. Len(ch) : \E k \in 1 .. Len(ch[i].pkts) : Hollow(F, ch[i].pkts[k]))
      /\ UNCHANGED <<format, poolVars, desc, lost, clash>>
  BY <1>1, <1>3 DEF Receive
<1>9. /\ y.pc = IF paged THEN "deaggregate" ELSE "linear"
      /\ y.chain = n /\ y.buf = 1 /\ y.rest = ch[1].frags /\ y.nth = 0
      /\ y.list = <<>> /\ y.segs = <<>> /\ y.again = NULL
  BY DEF Idle
<1>10. y \in CtxRec(alive)
  BY <1>6, <1>7, EmptySeq DEF Idle, CtxRec, Pcs
<1> HIDE DEF y
<1>11. ChainAt(c, y, F) = ch /\ BufferAt(c, y, F) = ch[1] /\ PagedAt(c, y, F) = paged
  BY <1>1, <1>3, <1>9 DEF ChainAt, BufferAt, PagedAt
<1>12. FragsLen(y.rest) = FragsLen(ch[1].frags) - Start(F, ch[1].pkts, y.nth + 1)
  <2>1. Start(F, ch[1].pkts, 1) = 0 /\ FragsLen(ch[1].frags) \in Nat
    BY <1>6, StartIs, FragsFacts
  <2> QED
    BY <1>9, <2>1
<1>13. y.pc # "linear" <=> PagedAt(c, y, F)
  BY <1>3, <1>9, <1>11
<1>14. /\ Runt(F, ch) => r
       /\ \A i \in 1 .. Len(ch) : \A j \in 1 .. Len(ch[i].pkts) : Hollow(F, ch[i].pkts[j]) => h
  BY <1>1, <1>8
<1>15. y.nth \in 0 .. Len(ch[1].pkts) /\ y.chain \in 1 .. Len(Received[c][F.name])
  <2>1. y.nth = 0 /\ y.chain = n
    BY ONLY <1>9
  <2>2. Len(ch[1].pkts) \in Nat
    BY ONLY <1>6
  <2>3. y.nth \in 0 .. Len(ch[1].pkts)
    BY ONLY <2>1, <2>2
  <2>4. n \in 1 .. Len(Received[c][F.name])
    BY <1>1
  <2> QED
    BY ONLY <2>1, <2>3, <2>4
<1>16. AtWork(c, y, F, h, r)
  BY <1>5, <1>9, <1>11, <1>12, <1>13, <1>14, <1>15 DEF AtWork
<1>17. ListsByPc(y, alive, h)
  BY <1>9 DEF ListsByPc
<1>18. CtxGood(c, y, format.flags, alive, hollow', runt')
  BY <1>1, <1>16, <1>17 DEF CtxGood
<1>19. ctx[c].list = <<>> /\ ctx[c].segs = <<>>
  BY <1>8 DEF CtxInv, CtxGood, ListsByPc
<1>20. (hollow => hollow') /\ (runt => runt')
  BY <1>8
<1> QED
  BY <1>8, <1>9, <1>10, <1>18, <1>19, <1>20, QuietStep

LEMMA DeaggregateEndCore ==
    ASSUME SideInv, CoreInv, ~clash, NEW c \in Ctx, DeaggregateEnd(c)
    PROVE  CoreInv'
<1> USE DEF CoreInv
<1>1. PICK x, F, h, r : x = ctx[c] /\ F = format.flags /\ h = hollow /\ r = runt
  OBVIOUS
<1> DEFINE y == [x EXCEPT !.pc = "handle"]
<1>2. /\ x.pc = "deaggregate" /\ ctx' = [ctx EXCEPT ![c].pc = "handle"]
      /\ UNCHANGED <<format, poolVars, desc, lost, clash, hollow, runt>>
  BY <1>1 DEF DeaggregateEnd, StopDeaggregation, ghosts
<1>3. /\ x \in CtxRec(alive) /\ CtxGood(c, x, F, alive, h, r)
  BY <1>1, Here
<1>4. ctx' = [ctx EXCEPT ![c] = y]
  BY <1>1, <1>2
<1>5. /\ y.pc = "handle" /\ y.chain = x.chain /\ y.buf = x.buf /\ y.nth = x.nth
      /\ y.list = x.list /\ y.segs = x.segs /\ y.again = x.again
      /\ y \in CtxRec(alive)
  BY <1>3 DEF CtxRec, Pcs
<1> HIDE DEF y
<1>6. AtWork(c, x, F, h, r)
  BY <1>2, <1>3 DEF CtxGood
<1>7. AtWork(c, y, F, h, r)
  BY <1>2, <1>5, <1>6, AtWorkSame
<1>8. CtxGood(c, y, F, alive, h, r)
  BY <1>2, <1>3, <1>5, <1>7 DEF CtxGood, ListsByPc
<1>9. CtxGood(c, y, format.flags, alive, hollow', runt')
  BY <1>1, <1>2, <1>8
<1>10. up
  BY <1>1, <1>2, WorkUp
<1> QED
  BY <1>1, <1>2, <1>4, <1>5, <1>9, <1>10, QuietStep

LEMMA ConsumeCore ==
    ASSUME SideInv, CoreInv, ~clash, NEW c \in Ctx, Consume(c)
    PROVE  CoreInv'
<1> USE DEF CoreInv
<1>1. PICK y : y = NextBuffer(c, "deaggregate")
  OBVIOUS
<1>2. /\ ctx[c].pc = "handle" /\ ctx[c].list = <<>> /\ ctx' = [ctx EXCEPT ![c] = y]
      /\ UNCHANGED <<format, poolVars, desc, lost, clash, hollow, runt>>
  BY <1>1 DEF Consume, ghosts
<1>3. /\ y \in CtxRec(alive) /\ CtxGood(c, y, format.flags, alive, hollow, runt)
      /\ y.list = <<>> /\ y.segs = <<>>
  BY <1>1, <1>2, NextBufferIs
<1>4. ctx[c].segs = <<>>
  BY <1>2 DEF CtxInv, CtxGood, ListsByPc
<1>5. CtxGood(c, y, format.flags, alive, hollow', runt')
  BY <1>2, <1>3
<1>6. up
  BY <1>2, WorkUp
<1> QED
  BY <1>2, <1>3, <1>4, <1>5, <1>6, QuietStep

LEMMA LinearEndCore ==
    ASSUME SideInv, CoreInv, ~clash, NEW c \in Ctx, LinearEnd(c)
    PROVE  CoreInv'
<1> USE DEF CoreInv
<1>1. PICK y : y = NextBuffer(c, "linear")
  OBVIOUS
<1>2. /\ ctx[c].pc = "linear" /\ ctx' = [ctx EXCEPT ![c] = y]
      /\ UNCHANGED <<format, poolVars, desc, lost, clash, hollow, runt>>
  BY <1>1 DEF LinearEnd, ghosts
<1>3. /\ y \in CtxRec(alive) /\ CtxGood(c, y, format.flags, alive, hollow, runt)
      /\ y.list = <<>> /\ y.segs = <<>>
  <2>1. ctx[c].pc # "idle" /\ ("linear" = "linear" <=> ctx[c].pc = "linear")
    BY <1>2
  <2> QED
    BY <1>1, <2>1, NextBufferIs
<1>4. ctx[c].segs = <<>> /\ ctx[c].list = <<>>
  BY <1>2 DEF CtxInv, CtxGood, ListsByPc
<1>5. CtxGood(c, y, format.flags, alive, hollow', runt')
  BY <1>2, <1>3
<1>6. up
  BY <1>2, WorkUp
<1> QED
  BY <1>2, <1>3, <1>4, <1>5, <1>6, QuietStep

\* The packet that __rmnet_map_ingress_handler has
LEMMA LinearPktIs ==
    ASSUME SideInv, CoreInv, NEW c \in Ctx, LinearReady(c)
    PROVE  /\ ctx[c].pc = "linear" /\ ctx[c].rest \in Seq(Fragments(Pages))
           /\ AtWork(c, ctx[c], format.flags, hollow, runt)
           /\ IsPacket(LinearPkt(c)) /\ Avail(c) \in Nat /\ Avail(c) <= FragsLen(ctx[c].rest)
           /\ ctx[c].nth + 1 \in 1 .. Len(Buffer(c).pkts)
           /\ ~Whole(c) => Avail(c) = HwLen(format.flags, LinearPkt(c))
<1> USE DEF CoreInv
<1>1. PICK x, F, h, r, k : /\ x = ctx[c] /\ F = format.flags /\ h = hollow /\ r = runt
                           /\ k = x.nth + 1
  OBVIOUS
<1>2. /\ F \in Formats /\ CtxGood(c, x, F, alive, h, r) /\ x.nth \in Nat
      /\ x.rest \in Seq(Fragments(Pages)) /\ FragsLen(x.rest) \in Nat
      /\ Buffer(c) = BufferAt(c, x, F)
  BY <1>1, Here
<1>3. x.pc = "linear" /\ FragsLen(x.rest) > 0
  BY <1>1 DEF LinearReady
<1>4. AtWork(c, x, F, h, r)
  BY <1>2, <1>3 DEF CtxGood
<1>5. PICK b : b = BufferAt(c, x, F)
  OBVIOUS
<1>6. /\ k \in 1 .. Len(b.pkts) /\ IsPacket(b.pkts[k]) /\ HwLen(F, b.pkts[k]) \in Nat
  BY <1>1, <1>2, <1>3, <1>4, <1>5, NextPkt
<1>7. LinearPkt(c) = b.pkts[k]
  BY <1>1, <1>2, <1>5 DEF LinearPkt
<1>8. ~PagedAt(c, x, F) /\ IsBuffer(F, PagedAt(c, x, F), b)
  BY <1>2, <1>3, <1>4, <1>5, BufferFacts DEF AtWork
<1>9. PassedWhole(F, b.pkts[k]) \/ SkbLen(F, b.pkts[k]) = HwLen(F, b.pkts[k])
  BY <1>6, <1>8 DEF IsBuffer
<1>10. CASE Whole(c)
  <2>1. Avail(c) = FragsLen(x.rest)
    BY <1>1, <1>10 DEF Avail
  <2> QED
    BY <1>1, <1>2, <1>3, <1>4, <1>5, <1>6, <1>7, <1>10, <2>1
<1>11. CASE ~Whole(c)
  <2>1. ~PassedWhole(F, b.pkts[k])
    BY <1>1, <1>7, <1>11 DEF Whole
  <2>2. Avail(c) = SkbLen(F, b.pkts[k]) /\ F.deagg
    BY <1>1, <1>7, <1>11, <2>1 DEF Avail, PassedWhole
  <2>3. SkbLen(F, b.pkts[k]) <= FragsLen(x.rest)
    BY <1>1, <1>7, <2>2 DEF LinearReady
  <2> QED
    BY <1>1, <1>2, <1>3, <1>4, <1>5, <1>6, <1>7, <1>9, <1>11, <2>1, <2>2, <2>3
<1> QED
  BY <1>10, <1>11

LEMMA LinearDoneCore ==
    ASSUME SideInv, CoreInv, ~clash, NEW c \in Ctx, NEW kept, LinearReady(c), LinearDone(c, kept)
    PROVE  CoreInv'
<1> USE DEF CoreInv
<1>1. PICK x, F, h, r, k, a : /\ x = ctx[c] /\ F = format.flags /\ h = hollow /\ r = runt
                              /\ k = x.nth + 1 /\ a = Avail(c)
  OBVIOUS
<1>2. /\ F \in Formats /\ x \in CtxRec(alive) /\ x.nth \in Nat
      /\ x.rest \in Seq(Fragments(Pages)) /\ FragsLen(x.rest) \in Nat
      /\ Buffer(c) = BufferAt(c, x, F) /\ CtxGood(c, x, F, alive, h, r)
  BY <1>1, Here
<1>3. /\ x.pc = "linear" /\ AtWork(c, x, F, h, r) /\ a \in Nat /\ a <= FragsLen(x.rest)
      /\ ~Whole(c) => a = HwLen(F, LinearPkt(c))
  BY <1>1, LinearPktIs
<1>4. FragsLen(x.rest) > 0
  BY <1>1 DEF LinearReady
<1>5. x.list = <<>> /\ x.segs = <<>> /\ x.again = NULL
  BY <1>2, <1>3 DEF CtxGood, ListsByPc
<1>6. up
  BY <1>1, <1>3, WorkUp
<1>7. UNCHANGED <<format, poolVars, desc, lost, clash, hollow, runt>>
  BY DEF LinearDone, ghosts
<1>8. CASE Whole(c)
  <2>1. PICK y : y = NextBuffer(c, "linear")
    OBVIOUS
  <2>2. ctx' = [ctx EXCEPT ![c] = y]
    BY <1>8, <2>1 DEF LinearDone
  <2>3. /\ y \in CtxRec(alive) /\ CtxGood(c, y, format.flags, alive, hollow, runt)
        /\ y.list = <<>> /\ y.segs = <<>>
    <3>1. ctx[c].pc # "idle" /\ ("linear" = "linear" <=> ctx[c].pc = "linear")
      BY <1>1, <1>3
    <3> QED
      BY <2>1, <3>1, NextBufferIs
  <2>4. CtxGood(c, y, format.flags, alive, hollow', runt')
    BY <1>7, <2>3
  <2> QED
    BY <1>1, <1>5, <1>6, <1>7, <2>2, <2>3, <2>4, QuietStep
<1>9. CASE ~Whole(c)
  <2> DEFINE y == [x EXCEPT !.rest = Pull(x.rest, a), !.nth = k]
  <2>1. ctx' = [ctx EXCEPT ![c] = y]
    <3>1. ctx' = [ctx EXCEPT ![c] = PastPacket(x, a)]
      BY <1>1, <1>9 DEF LinearDone
    <3>2. PastPacket(x, a) = y
      BY <1>1, <1>2 DEF CtxRec, PastPacket
    <3> QED
      BY <3>1, <3>2
  <2>2. /\ Pull(x.rest, a) \in Seq(Fragments(Pages))
        /\ FragsLen(Pull(x.rest, a)) = FragsLen(x.rest) - a
    BY <1>2, <1>3, PullLen
  <2>3. k \in Nat
    BY <1>1, <1>2
  <2>4. /\ y.pc = "linear" /\ y.chain = x.chain /\ y.buf = x.buf /\ y.nth = k
        /\ y.rest = Pull(x.rest, a) /\ y.list = x.list /\ y.segs = x.segs /\ y.again = x.again
        /\ y \in CtxRec(alive)
    BY <1>2, <1>3, <2>2, <2>3 DEF CtxRec
  <2> HIDE DEF y
  <2>5. PICK b : b = BufferAt(c, x, F)
    OBVIOUS
  <2>6. /\ k \in 1 .. Len(b.pkts) /\ Start(F, b.pkts, k) \in Nat
        /\ FragsLen(b.frags) = Start(F, b.pkts, k) + FragsLen(x.rest)
        /\ Start(F, b.pkts, k + 1) = Start(F, b.pkts, k) + HwLen(F, b.pkts[k])
        /\ HwLen(F, b.pkts[k]) \in Nat
    <3>1. x.pc = "linear" /\ FragsLen(x.rest) > 0 /\ k = x.nth + 1
      BY <1>1, <1>3, <1>4
    <3> QED
      BY ONLY c \in Ctx, <1>2, <1>3, <2>5, <3>1, NextPkt, SMTT(40)
  <2>7. a = HwLen(F, b.pkts[k])
    BY <1>1, <1>2, <1>3, <1>9, <2>5 DEF LinearPkt
  <2>8. FragsLen(y.rest) = FragsLen(b.frags) - Start(F, b.pkts, y.nth + 1)
    <3>1. FragsLen(y.rest) = FragsLen(x.rest) - a
      BY <2>2, <2>4
    <3>2. Start(F, b.pkts, y.nth + 1) = Start(F, b.pkts, k) + a
      BY <2>4, <2>6, <2>7
    <3> QED
      BY <1>2, <1>3, <2>6, <3>1, <3>2
  <2>9. /\ ChainAt(c, y, F) = ChainAt(c, x, F) /\ BufferAt(c, y, F) = b
        /\ PagedAt(c, y, F) = PagedAt(c, x, F)
    BY <2>4, <2>5 DEF ChainAt, BufferAt, PagedAt
  <2>10. Len(b.pkts) \in Nat
    BY <1>2, <1>3, <2>5, BufferFacts
  <2>11. y.nth \in 0 .. Len(b.pkts)
    BY <2>4, <2>6, <2>10
  <2>12. AtWork(c, y, F, h, r)
    BY <1>3, <2>4, <2>8, <2>9, <2>11 DEF AtWork
  <2>13. CtxGood(c, y, F, alive, h, r)
    BY <1>5, <2>4, <2>12 DEF CtxGood, ListsByPc
  <2>14. CtxGood(c, y, format.flags, alive, hollow', runt')
    BY <1>1, <1>7, <2>13
  <2> QED
    BY <1>1, <1>5, <1>6, <1>7, <2>1, <2>4, <2>14, QuietStep
<1> QED
  BY <1>8, <1>9

LEMMA LinearCore ==
    ASSUME SideInv, CoreInv, ~clash, NEW c \in Ctx,
           LinearCommand(c) \/ LinearDrop(c) \/ LinearPacket(c) \/ LinearCoal(c)
    PROVE  CoreInv'
<1>1. LinearReady(c) /\ \E kept : LinearDone(c, kept)
  <2>1. CASE LinearCommand(c)
    BY <2>1 DEF LinearCommand
  <2>2. CASE LinearDrop(c)
    BY <2>2 DEF LinearDrop
  <2>3. CASE LinearPacket(c)
    BY <2>3 DEF LinearPacket
  <2>4. CASE LinearCoal(c)
    BY <2>4 DEF LinearCoal
  <2> QED
    BY <2>1, <2>2, <2>3, <2>4
<1> QED
  BY <1>1, LinearDoneCore

-----------------------------------------------------------------------------
(* Where descriptors are, and what they hold there.                         *)

LEMMA AtPlace ==
    ASSUME NEW c \in Ctx
    PROVE  /\ PlacesOf(free, lost, ctx)[<<"free", 0>>] = Ran(free)
           /\ PlacesOf(free, lost, ctx)[<<"list", c>>] = Ran(ctx[c].list)
           /\ PlacesOf(free, lost, ctx)[<<"segs", c>>] = Ran(ctx[c].segs)
BY PlacesAre

LEMMA FreeBlank ==
    ASSUME CoreInv, ~clash, NEW d \in Desc, d \notin alive \/ d \in Ran(free)
    PROVE  desc[d].frags = <<>>
<1>1. HoldInv
  BY DEF CoreInv, OwnInv
<1>2. CASE d \notin alive
  BY <1>1, <1>2 DEF HoldInv
<1>3. CASE d \in Ran(free)
  <2>1. d \in PlacesOf(free, lost, ctx)[<<"free", 0>>] /\ <<"free", 0>> \in Places
    BY <1>3, PlacesAre, PlaceNames
  <2>2. Holds(<<"free", 0>>, desc[d], ctx, format.flags, hollow)
    BY <1>1, <2>1 DEF HoldInv
  <2>3. <<"free", 0>>[1] \in {"free", "lost"}
    OBVIOUS
  <2> QED
    BY <2>2, <2>3 DEF Holds
<1> QED
  BY <1>2, <1>3

LEMMA Apart ==
    ASSUME CoreInv, ~clash, NEW c \in Ctx
    PROVE  /\ Ran(free) \cap Ran(ctx[c].list) = {} /\ Ran(free) \cap Ran(ctx[c].segs) = {}
           /\ Ran(ctx[c].list) \cap Ran(ctx[c].segs) = {}
           /\ Ran(free) \subseteq alive /\ Ran(ctx[c].list) \subseteq alive
           /\ Ran(ctx[c].segs) \subseteq alive
           /\ Inj(free) /\ Inj(ctx[c].list) /\ Inj(ctx[c].segs)
<1> DEFINE P == PlacesOf(free, lost, ctx)
<1>1. /\ P[<<"free", 0>>] = Ran(free) /\ P[<<"list", c>>] = Ran(ctx[c].list)
      /\ P[<<"segs", c>>] = Ran(ctx[c].segs)
  BY PlacesAre
<1>2. OwnOf(P, alive) /\ ListInv
  BY DEF CoreInv, OwnInv
<1> HIDE DEF P
<1>3. <<"free", 0>> \in Places /\ <<"list", c>> \in Places /\ <<"segs", c>> \in Places
  BY PlaceNames
<1>4. <<"free", 0>> # <<"list", c>> /\ <<"free", 0>> # <<"segs", c>> /\ <<"list", c>> # <<"segs", c>>
  OBVIOUS
<1>5. Ran(free) \cap Ran(ctx[c].list) = {} /\ Ran(free) \cap Ran(ctx[c].segs) = {}
  BY <1>1, <1>2, <1>3, <1>4, Elsewhere
<1>6. Ran(ctx[c].list) \cap Ran(ctx[c].segs) = {}
  BY <1>1, <1>2, <1>3, <1>4, Elsewhere
<1>7. Ran(free) \subseteq alive /\ Ran(ctx[c].list) \subseteq alive /\ Ran(ctx[c].segs) \subseteq alive
  BY <1>1, <1>2, <1>3 DEF OwnOf
<1> QED
  BY <1>2, <1>5, <1>6, <1>7 DEF ListInv

LEMMA OnList ==
    ASSUME SideInv, CoreInv, ~clash, NEW c \in Ctx, ctx[c].pc # "idle", NEW d \in Ran(ctx[c].list)
    PROVE  /\ d \in alive /\ d \in Desc /\ desc[d] \in DescRec
           /\ InList(format.flags, Buffer(c).pkts, desc[d])
           /\ IsPacket(PktOf(c, d))
           /\ FragsLen(desc[d].frags) = WireLen(format.flags, PktOf(c, d))
           /\ Hollow(format.flags, PktOf(c, d)) => hollow
           /\ ctx[c].pc # "linear" => V5(format.flags) /\ ~format.flags.v4
<1> USE DEF CoreInv
<1>1. d \in alive /\ d \in Desc /\ desc[d] \in DescRec
  BY Apart DEF TypeInv
<1>2. PICK x, F, h, r : x = ctx[c] /\ F = format.flags /\ h = hollow /\ r = runt
  OBVIOUS
<1>3. F \in Formats /\ AtWork(c, x, F, h, r) /\ Buffer(c) = BufferAt(c, x, F)
      /\ ChainOf(c) = ChainAt(c, x, F)
  BY <1>2, Here DEF CtxGood
<1>4. InList(F, BufferAt(c, x, F).pkts, desc[d])
  <2>1. d \in PlacesOf(free, lost, ctx)[<<"list", c>>] /\ <<"list", c>> \in Places
    <3>1. PlacesOf(free, lost, ctx)[<<"list", c>>] = Ran(ctx[c].list)
      BY AtPlace
    <3> QED
      BY <3>1, PlaceNames
  <2>2. Holds(<<"list", c>>, desc[d], ctx, F, hollow)
    BY <1>2, <2>1 DEF OwnInv, HoldInv
  <2>3. <<"list", c>>[1] = "list" /\ <<"list", c>>[2] = c
    OBVIOUS
  <2> QED
    BY <1>2, <2>2, <2>3 DEF Holds
<1>5. PICK b, k : b = BufferAt(c, x, F) /\ k = desc[d].nth
  OBVIOUS
<1>6. k \in 1 .. Len(b.pkts) /\ FragsLen(desc[d].frags) = WireLen(F, b.pkts[k])
  BY <1>4, <1>5 DEF InList
<1>7. PktOf(c, d) = b.pkts[k]
  BY <1>3, <1>5 DEF PktOf
<1>8. IsPacket(b.pkts[k])
  BY <1>3, <1>5, <1>6, BufferFacts
<1>9. Hollow(F, b.pkts[k]) => h
  <2>1. x.buf \in 1 .. Len(ChainAt(c, x, F)) /\ b = ChainAt(c, x, F)[x.buf]
    BY <1>3, <1>5 DEF AtWork, BufferAt
  <2> QED
    BY <1>3, <1>6, <2>1 DEF AtWork
<1>10. x.pc # "linear" => V5(F) /\ ~F.v4
  BY <1>3, V5Facts DEF AtWork, PagedAt
<1> QED
  BY <1>1, <1>2, <1>3, <1>4, <1>6, <1>7, <1>8, <1>9, <1>10

LEMMA OnSegs ==
    ASSUME SideInv, CoreInv, ~clash, NEW c \in Ctx, NEW d \in Ran(ctx[c].segs)
    PROVE  d \in alive /\ d \in Desc /\ desc[d] \in DescRec /\ InSegs(desc[d], hollow)
<1> USE DEF CoreInv
<1>1. d \in alive /\ d \in Desc /\ desc[d] \in DescRec
  BY Apart DEF TypeInv
<1>2. d \in PlacesOf(free, lost, ctx)[<<"segs", c>>] /\ <<"segs", c>> \in Places
  <2>1. PlacesOf(free, lost, ctx)[<<"segs", c>>] = Ran(ctx[c].segs)
    BY AtPlace
  <2> QED
    BY <2>1, PlaceNames
<1>3. Holds(<<"segs", c>>, desc[d], ctx, format.flags, hollow)
  BY <1>2 DEF OwnInv, HoldInv
<1>4. <<"segs", c>>[1] = "segs"
  OBVIOUS
<1> QED
  BY <1>1, <1>3, <1>4 DEF Holds

LEMMA BlankRec == Blank \in DescRec /\ Blank.frags = <<>>
BY EmptySeq DEF Blank, DescRec

\* A step that puts a descriptor of context c back into the pool
LEMMA RecycleStep ==
    ASSUME CoreInv, ~clash, up, NEW c \in Ctx,
           NEW y, ctx' = [ctx EXCEPT ![c] = y], y \in CtxRec(alive),
           CtxGood(c, y, format.flags, alive, hollow, runt),
           UNCHANGED <<format, hollow, runt, clash, lost>>,
           NEW d, d \in Ran(free) \/ d \in Ran(ctx[c].list) \/ d \in Ran(ctx[c].segs),
           free' = ToTail(free, d), desc' = [desc EXCEPT ![d] = Blank],
           UNCHANGED <<pool_size, up, alive>>,
           Inj(y.list), Inj(y.segs),
           Ran(y.list) = Ran(ctx[c].list) \ {d}, Ran(y.segs) = Ran(ctx[c].segs) \ {d},
           y.list = <<>> \/ (y.chain = ctx[c].chain /\ y.buf = ctx[c].buf)
    PROVE  CoreInv'
<1>1. /\ Ran(free) \subseteq alive /\ Ran(ctx[c].list) \subseteq alive
      /\ Ran(ctx[c].segs) \subseteq alive /\ Inj(free)
  BY Apart
<1>2. d \in alive /\ d \in Desc
  BY <1>1 DEF CoreInv, TypeInv
<1>3. /\ free \in Seq(alive) /\ free' \in Seq(alive) /\ Inj(free') /\ Ran(free') = Ran(free) \cup {d}
  <2>1. PICK fr, A : fr = free /\ A = alive
    OBVIOUS
  <2>2. fr \in Seq(A) /\ d \in A /\ Inj(fr)
    BY <1>1, <1>2, <2>1 DEF CoreInv, TypeInv
  <2>3. ToTail(fr, d) \in Seq(A) /\ Inj(ToTail(fr, d)) /\ Ran(ToTail(fr, d)) = Ran(fr) \cup {d}
    BY <2>2, ToTailRan
  <2> QED
    BY <2>1, <2>2, <2>3
<1>4. PICK p : p = <<"free", 0>>
  OBVIOUS
<1>5. p # <<"lost", 0>> /\ p # <<"list", c>> /\ p # <<"segs", c>> /\ p[1] = "free"
  BY <1>4
<1>6. Holds(p, Blank, ctx', format.flags, hollow)
  BY <1>5, BlankRec DEF Holds
<1>7. /\ Ran(free') = (Ran(free) \ {d}) \cup (IF p = <<"free", 0>> THEN {d} ELSE {})
      /\ lost' = lost \cup (IF p = <<"lost", 0>> THEN {d} ELSE {})
      /\ Ran(y.list) = (Ran(ctx[c].list) \ {d}) \cup (IF p = <<"list", c>> THEN {d} ELSE {})
      /\ Ran(y.segs) = (Ran(ctx[c].segs) \ {d}) \cup (IF p = <<"segs", c>> THEN {d} ELSE {})
  BY <1>3, <1>4, <1>5
<1>8. alive' = alive \cup {d} /\ alive' = alive /\ pool_size' = IF d \in alive THEN pool_size ELSE pool_size + 1
  BY <1>2
<1>9. TypeInv /\ PoolInv /\ CtxInv /\ OwnInv
  BY DEF CoreInv
<1>10. MoveOK(c, y, d, p, Blank)
  BY <1>2, <1>3, <1>4, <1>5, <1>6, <1>7, <1>8, BlankRec DEF MoveOK
<1>11. TypeInv' /\ PoolInv' /\ CtxInv' /\ OwnInv'
  BY <1>9, <1>10, MoveStep
<1> QED
  BY <1>11 DEF CoreInv

-----------------------------------------------------------------------------
(* The handlers of the list.                                                *)

LEMMA HandlingIs ==
    ASSUME SideInv, CoreInv, ~clash, NEW c \in Ctx, Handling(c)
    PROVE  /\ up /\ ctx[c].pc = "handle" /\ ctx[c].segs = <<>> /\ ctx[c].again = NULL
           /\ AtWork(c, ctx[c], format.flags, hollow, runt)
           /\ ctx[c] \in CtxRec(alive) /\ format.flags \in Formats
           /\ Current(c) \in Ran(ctx[c].list) /\ Tail(ctx[c].list) \in Seq(alive)
           /\ Inj(Tail(ctx[c].list)) /\ Ran(Tail(ctx[c].list)) = Ran(ctx[c].list) \ {Current(c)}
           /\ ctx \in [Ctx -> CtxRec(alive)]
<1>1. ctx[c].pc = "handle" /\ ctx[c].list # <<>>
  BY DEF Handling
<1>2. /\ ctx[c] \in CtxRec(alive) /\ format.flags \in Formats
      /\ CtxGood(c, ctx[c], format.flags, alive, hollow, runt)
      /\ ctx[c].list \in Seq(alive)
  BY Here DEF CoreInv
<1>3. /\ ctx[c].segs = <<>> /\ ctx[c].again = NULL
      /\ AtWork(c, ctx[c], format.flags, hollow, runt)
  BY <1>1, <1>2 DEF CtxGood, ListsByPc
<1>4. Inj(ctx[c].list)
  BY Apart
<1>5. PICK l, A : l = ctx[c].list /\ A = alive
  OBVIOUS
<1>6. l \in Seq(A) /\ l # <<>> /\ Inj(l)
  BY <1>1, <1>2, <1>4, <1>5
<1>7. /\ Head(l) \in Ran(l) /\ Tail(l) \in Seq(A) /\ Inj(Tail(l))
      /\ Ran(Tail(l)) = Ran(l) \ {Head(l)}
  BY <1>6, TailRan
<1>8. up
  BY <1>1, WorkUp DEF CoreInv
<1>9. ctx \in [Ctx -> CtxRec(alive)]
  BY DEF CoreInv, TypeInv
<1> QED
  BY <1>1, <1>2, <1>3, <1>5, <1>7, <1>8, <1>9 DEF Current

LEMMA SkipCore ==
    ASSUME SideInv, CoreInv, ~clash, NEW c \in Ctx, Handling(c), Recycle(Current(c)),
           NextPacket(c), UNCHANGED <<format, ghosts, clash>>
    PROVE  CoreInv'
<1>1. PICK x, F, d, h, r : x = ctx[c] /\ F = format.flags /\ d = Current(c) /\ h = hollow /\ r = runt
  OBVIOUS
<1>2. /\ up /\ x.pc = "handle" /\ x.segs = <<>> /\ x.again = NULL
      /\ AtWork(c, x, F, h, r) /\ x \in CtxRec(alive)
      /\ d \in Ran(x.list) /\ Tail(x.list) \in Seq(alive)
      /\ Inj(Tail(x.list)) /\ Ran(Tail(x.list)) = Ran(x.list) \ {d}
      /\ ctx \in [Ctx -> CtxRec(alive)]
  BY <1>1, HandlingIs
<1> DEFINE y == [x EXCEPT !.list = Tail(x.list)]
<1>3. ctx' = [ctx EXCEPT ![c] = y]
  BY <1>1, <1>2 DEF NextPacket
<1>4. /\ y.pc = x.pc /\ y.chain = x.chain /\ y.buf = x.buf /\ y.nth = x.nth /\ y.rest = x.rest
      /\ y.list = Tail(x.list) /\ y.segs = x.segs /\ y.again = x.again
      /\ y \in CtxRec(alive)
  BY <1>2 DEF CtxRec
<1> HIDE DEF y
<1>5. AtWork(c, y, F, h, r)
  BY <1>2, <1>4, AtWorkSame
<1>6. CtxGood(c, y, F, alive, h, r)
  BY <1>2, <1>4, <1>5 DEF CtxGood, ListsByPc
<1>7. Ran(y.segs) = Ran(x.segs) \ {d} /\ Inj(y.segs)
  BY <1>2, <1>4, EmptyRan
<1>8. /\ free' = ToTail(free, d) /\ desc' = [desc EXCEPT ![d] = Blank]
      /\ UNCHANGED <<pool_size, up, alive>> /\ UNCHANGED <<format, hollow, runt, clash, lost>>
  BY <1>1 DEF Recycle, ghosts
<1>9. CtxGood(c, y, format.flags, alive, hollow, runt)
  BY <1>1, <1>6
<1>10. d \in Ran(ctx[c].list) /\ Inj(y.list) /\ Ran(y.list) = Ran(ctx[c].list) \ {d}
       /\ Ran(y.segs) = Ran(ctx[c].segs) \ {d} /\ y.chain = ctx[c].chain /\ y.buf = ctx[c].buf
  BY <1>1, <1>2, <1>4, <1>7
<1> QED
  BY <1>2, <1>3, <1>4, <1>7, <1>8, <1>9, <1>10, RecycleStep

LEMMA HandleCommandCore ==
    ASSUME SideInv, CoreInv, ~clash, NEW c \in Ctx, HandleCommand(c)
    PROVE  CoreInv'
BY SkipCore DEF HandleCommand

LEMMA HandleDropCore ==
    ASSUME SideInv, CoreInv, ~clash, NEW c \in Ctx, HandleDrop(c)
    PROVE  CoreInv'
BY SkipCore DEF HandleDrop

\* The caller will recycle the descriptor again
LEMMA TwiceCore ==
    ASSUME SideInv, CoreInv, ~clash, NEW c \in Ctx, Handling(c), Recycle(Current(c)),
           TwiceRecycled(c, Current(c)), hollow, UNCHANGED <<format, ghosts, clash>>
    PROVE  CoreInv'
<1>1. PICK x, F, d, h, r : x = ctx[c] /\ F = format.flags /\ d = Current(c) /\ h = hollow /\ r = runt
  OBVIOUS
<1>2. /\ up /\ x.pc = "handle" /\ x.segs = <<>> /\ x.again = NULL
      /\ AtWork(c, x, F, h, r) /\ x \in CtxRec(alive)
      /\ d \in Ran(x.list) /\ Tail(x.list) \in Seq(alive)
      /\ Inj(Tail(x.list)) /\ Ran(Tail(x.list)) = Ran(x.list) \ {d}
      /\ ctx \in [Ctx -> CtxRec(alive)]
  BY <1>1, HandlingIs
<1>21. d \in alive
  BY <1>1, <1>2, Apart
<1> DEFINE y == [x EXCEPT !.list = Tail(x.list), !.again = d, !.pc = "again"]
<1>3. ctx' = [ctx EXCEPT ![c] = y]
  BY <1>1, <1>2 DEF TwiceRecycled, CtxRec
<1>4. /\ y.pc = "again" /\ y.chain = x.chain /\ y.buf = x.buf /\ y.nth = x.nth /\ y.rest = x.rest
      /\ y.list = Tail(x.list) /\ y.segs = x.segs /\ y.again = d
      /\ y \in CtxRec(alive)
  BY <1>2, <1>21 DEF CtxRec, Pcs
<1> HIDE DEF y
<1>5. AtWork(c, y, F, h, r)
  BY <1>2, <1>4, AtWorkSame
<1>6. CtxGood(c, y, F, alive, h, r)
  BY <1>1, <1>2, <1>21, <1>4, <1>5 DEF CtxGood, ListsByPc
<1>7. Ran(y.segs) = Ran(x.segs) \ {d} /\ Inj(y.segs)
  BY <1>2, <1>4, EmptyRan
<1>8. /\ free' = ToTail(free, d) /\ desc' = [desc EXCEPT ![d] = Blank]
      /\ UNCHANGED <<pool_size, up, alive>> /\ UNCHANGED <<format, hollow, runt, clash, lost>>
  BY <1>1 DEF Recycle, ghosts
<1>9. CtxGood(c, y, format.flags, alive, hollow, runt)
  BY <1>1, <1>6
<1>10. d \in Ran(ctx[c].list) /\ Inj(y.list) /\ Ran(y.list) = Ran(ctx[c].list) \ {d}
       /\ Ran(y.segs) = Ran(ctx[c].segs) \ {d} /\ y.chain = ctx[c].chain /\ y.buf = ctx[c].buf
  BY <1>1, <1>2, <1>4, <1>7
<1> QED
  BY <1>2, <1>3, <1>4, <1>7, <1>8, <1>9, <1>10, RecycleStep

\* The packet itself is the one segment to deliver
LEMMA PassOnCore ==
    ASSUME SideInv, CoreInv, ~clash, NEW c \in Ctx, Handling(c),
           DeliverNext(c, <<Current(c)>>), UNCHANGED poolVars, UNCHANGED <<format, ghosts, clash>>,
           NEW z \in DescRec, desc' = [desc EXCEPT ![Current(c)] = z], InSegs(z, hollow)
    PROVE  CoreInv'
<1>1. PICK x, F, d, h, r : x = ctx[c] /\ F = format.flags /\ d = Current(c) /\ h = hollow /\ r = runt
  OBVIOUS
<1>2. /\ up /\ x.pc = "handle" /\ x.segs = <<>> /\ x.again = NULL
      /\ AtWork(c, x, F, h, r) /\ x \in CtxRec(alive)
      /\ d \in Ran(x.list) /\ Tail(x.list) \in Seq(alive)
      /\ Inj(Tail(x.list)) /\ Ran(Tail(x.list)) = Ran(x.list) \ {d}
      /\ ctx \in [Ctx -> CtxRec(alive)]
  BY <1>1, HandlingIs
<1>21. d \in alive /\ d \in Desc /\ d \notin Ran(free) /\ Inj(free) /\ free \in Seq(alive)
  <2>1. d \in alive /\ d \notin Ran(free) /\ Inj(free)
    BY <1>1, <1>2, Apart
  <2> QED
    BY <2>1 DEF CoreInv, TypeInv
<1>22. PICK s : s = <<d>>
  OBVIOUS
<1>23. s # <<>> /\ Ran(s) = {d} /\ Inj(s) /\ s \in Seq(alive)
  <2>1. <<d>> \in Seq({d}) /\ Ran(<<d>>) = {d} /\ Inj(<<d>>) /\ <<d>> # <<>>
    BY OneRan
  <2>2. {d} \subseteq alive
    BY <1>21
  <2> QED
    BY <1>22, <2>1, <2>2, RanSeq
<1> DEFINE y == [x EXCEPT !.list = Tail(x.list), !.segs = s, !.pc = "deliver"]
<1>3. ctx' = [ctx EXCEPT ![c] = y]
  BY <1>1, <1>2, <1>22, <1>23 DEF DeliverNext, CtxRec
<1>4. /\ y.pc = "deliver" /\ y.chain = x.chain /\ y.buf = x.buf /\ y.nth = x.nth /\ y.rest = x.rest
      /\ y.list = Tail(x.list) /\ y.segs = s /\ y.again = x.again
      /\ y \in CtxRec(alive)
  BY <1>2, <1>23 DEF CtxRec, Pcs
<1> HIDE DEF y
<1>5. AtWork(c, y, F, h, r)
  BY <1>2, <1>4, AtWorkSame
<1>6. CtxGood(c, y, F, alive, h, r)
  BY <1>2, <1>23, <1>4, <1>5 DEF CtxGood, ListsByPc
<1>7. /\ free' = free /\ pool_size' = pool_size /\ up' = up /\ alive' = alive
      /\ UNCHANGED <<format, up, hollow, runt, clash>> /\ lost' = lost
  BY DEF poolVars, ghosts
<1>8. PICK p : p = <<"segs", c>>
  OBVIOUS
<1>9. p # <<"lost", 0>> /\ p # <<"list", c>> /\ p # <<"free", 0>> /\ p[1] = "segs"
  BY <1>8
<1>10. Holds(p, z, ctx', format.flags, hollow)
  BY <1>9 DEF Holds
<1>11. /\ Ran(free') = (Ran(free) \ {d}) \cup (IF p = <<"free", 0>> THEN {d} ELSE {})
       /\ lost' = lost \cup (IF p = <<"lost", 0>> THEN {d} ELSE {})
       /\ Ran(y.list) = (Ran(ctx[c].list) \ {d}) \cup (IF p = <<"list", c>> THEN {d} ELSE {})
       /\ Ran(y.segs) = (Ran(ctx[c].segs) \ {d}) \cup (IF p = <<"segs", c>> THEN {d} ELSE {})
  BY <1>1, <1>2, <1>21, <1>23, <1>4, <1>7, <1>8, <1>9, EmptyRan
<1>12. alive' = alive \cup {d} /\ pool_size' = IF d \in alive THEN pool_size ELSE pool_size + 1
  BY <1>21, <1>7
<1>13. TypeInv /\ PoolInv /\ CtxInv /\ OwnInv
  BY DEF CoreInv
<1>14. CtxGood(c, y, format.flags, alive', hollow, runt) /\ y \in CtxRec(alive') /\ free' \in Seq(alive')
       /\ Inj(free') /\ Inj(y.list) /\ Inj(y.segs)
  BY <1>1, <1>2, <1>21, <1>23, <1>4, <1>6, <1>7
<1>15. d \in Ran(ctx[c].list) /\ y.chain = ctx[c].chain /\ y.buf = ctx[c].buf
       /\ desc' = [desc EXCEPT ![d] = z]
  BY <1>1, <1>2, <1>4
<1>16. p \in {<<"free", 0>>, <<"lost", 0>>, <<"list", c>>, <<"segs", c>>}
  BY <1>8
<1>17. MoveOK(c, y, d, p, z)
  BY <1>21, <1>3, <1>7, <1>9, <1>10, <1>11, <1>12, <1>14, <1>15, <1>16 DEF MoveOK
<1>18. TypeInv' /\ PoolInv' /\ CtxInv' /\ OwnInv'
  BY <1>2, <1>13, <1>17, MoveStep
<1> QED
  BY <1>18 DEF CoreInv

LEMMA ToPacketCore ==
    ASSUME SideInv, CoreInv, ~clash, NEW c \in Ctx, Handling(c),
           NEW hdrs \in Nat, NEW len \in Nat, NEW valid \in BOOLEAN,
           ToPacket(Current(c), hdrs, len, valid), DeliverNext(c, <<Current(c)>>),
           UNCHANGED <<format, ghosts, clash>>
    PROVE  CoreInv'
<1>1. PICK d : d = Current(c)
  OBVIOUS
<1>2. d \in Ran(ctx[c].list) /\ ctx[c].pc = "handle"
  BY <1>1, HandlingIs
<1>3. d \in Desc /\ desc[d] \in DescRec /\ InList(format.flags, Buffer(c).pkts, desc[d])
  BY <1>2, OnList
<1>4. PICK v, kept : v = desc[d] /\ kept = Trim(Stripped(d, hdrs), len)
  OBVIOUS
<1>5. v \in DescRec /\ v.hdr = 0 /\ v.frags \in Seq(Fragments(Pages))
  BY <1>3, <1>4 DEF InList, DescRec
<1>6. Pull(v.frags, hdrs) \in Seq(Fragments(Pages))
  BY <1>5, PullLen
<1>7. kept \in Seq(Fragments(Pages)) /\ FragsLen(kept) \in Nat
  BY <1>4, <1>6, TrimType, FragsFacts DEF Stripped
<1> DEFINE z == [v EXCEPT !.frags = kept, !.valid = valid]
<1>8. z \in DescRec /\ z.hdr = 0 /\ z.frags = kept
  BY <1>5, <1>7 DEF DescRec
<1>9. desc' = [desc EXCEPT ![d] = z]
  BY <1>1, <1>3, <1>4, <1>5 DEF ToPacket, DescRec, CoreInv, TypeInv
<1> HIDE DEF z
<1>10. InSegs(z, hollow)
  BY <1>7, <1>8 DEF InSegs
<1>11. UNCHANGED poolVars
  BY DEF ToPacket
<1> QED
  BY <1>1, <1>8, <1>9, <1>10, <1>11, PassOnCore

LEMMA DataLenIs ==
    ASSUME NEW p, IsPacket(p)
    PROVE  DataLen(p) \in Nat /\ (DataLen(p) = 0 => p.pad = p.len)
<1>1. PICK a, b, m : a = p.len /\ b = p.pad /\ m = U16
  OBVIOUS
<1>2. m \in Nat /\ m > 0 /\ a \in 0 .. m - 1 /\ b \in 0 .. m - 1
  BY <1>1, CoalesceAssumption DEF IsPacket
<1>3. (a - b) % m \in 0 .. m - 1 /\ (a >= b => (a - b) % m = a - b)
      /\ (a < b => (a - b) % m = a - b + m)
  BY <1>2
<1>4. (a - b) % m = 0 => a = b
  BY <1>2, <1>3
<1> QED
  BY <1>1, <1>2, <1>3, <1>4 DEF DataLen

LEMMA HandlePlainCore ==
    ASSUME SideInv, CoreInv, ~clash, NEW c \in Ctx, HandlePlain(c)
    PROVE  CoreInv'
<1>1. PICK d, p : d = Current(c) /\ p = PktOf(c, d)
  OBVIOUS
<1>2. Handling(c) /\ UNCHANGED <<format, ghosts, clash>>
  BY DEF HandlePlain
<1>3. IsPacket(p)
  <2>1. d \in Ran(ctx[c].list) /\ ctx[c].pc = "handle"
    BY <1>1, <1>2, HandlingIs
  <2> QED
    BY <1>1, <2>1, OnList
<1>4. CASE Recycle(d) /\ NextPacket(c)
  BY <1>1, <1>2, <1>4, SkipCore
<1>5. CASE ToPacket(d, MapLen, DataLen(p), FALSE) /\ DeliverNext(c, <<d>>)
  <2>1. DataLen(p) \in Nat /\ MapLen \in Nat
    BY <1>3, DataLenIs, CoalesceAssumption
  <2> QED
    BY <1>1, <1>2, <1>5, <2>1, ToPacketCore
<1> QED
  BY <1>1, <1>4, <1>5 DEF HandlePlain

LEMMA HandleCsumCore ==
    ASSUME SideInv, CoreInv, ~clash, NEW c \in Ctx, HandleCsum(c)
    PROVE  CoreInv'
<1>1. PICK d, p : d = Current(c) /\ p = PktOf(c, d)
  OBVIOUS
<1>2. Handling(c) /\ UNCHANGED <<format, ghosts, clash>>
  BY DEF HandleCsum
<1>3. IsPacket(p) /\ (Hollow(format.flags, p) => hollow)
  <2>1. d \in Ran(ctx[c].list) /\ ctx[c].pc = "handle"
    BY <1>1, <1>2, HandlingIs
  <2> QED
    BY <1>1, <2>1, OnList
<1>4. ForUs(p) /\ HasNextHdr(p) /\ p.type = "csum"
  BY <1>1 DEF HandleCsum
<1>5. CASE DataLen(p) = 0 /\ Recycle(d) /\ TwiceRecycled(c, d)
  <2>1. p.pad = p.len
    BY <1>3, <1>5, DataLenIs
  <2>2. Hollow(format.flags, p)
    BY <1>4, <2>1 DEF Hollow, ForUs, HasNextHdr
  <2> QED
    BY <1>1, <1>2, <1>3, <1>5, <2>2, TwiceCore
<1>6. CASE ToPacket(d, MapLen + CsumLen, DataLen(p), format.features.rxcsum /\ p.csum)
           /\ DeliverNext(c, <<d>>)
  <2>1. DataLen(p) \in Nat /\ MapLen + CsumLen \in Nat
    BY <1>3, DataLenIs, CoalesceAssumption, IngressAssumption
  <2>2. PICK valid, hdrs : valid = (format.features.rxcsum /\ p.csum) /\ hdrs = MapLen + CsumLen
    OBVIOUS
  <2>3. valid \in BOOLEAN /\ hdrs \in Nat
    BY <2>1, <2>2
  <2>4. ToPacket(Current(c), hdrs, DataLen(p), valid)
    BY <1>1, <1>6, <2>2
  <2> QED
    BY <1>1, <1>2, <1>6, <2>1, <2>3, <2>4, ToPacketCore
<1> QED
  BY <1>1, <1>5, <1>6 DEF HandleCsum

-----------------------------------------------------------------------------
(* Coalesced frames.                                                        *)

LEMMA TakenIs ==
    ASSUME CoreInv, ~clash, NEW m \in Nat, NEW q \in Taken(m)
    PROVE  /\ q \in Seq(Desc) /\ Len(q) = m /\ Inj(q) /\ Ran(q) \subseteq Desc
           /\ \A e \in Ran(q) : e \notin alive \/ e \in Ran(free)
           /\ SubSeq(free, m + 1, Len(free)) \in Seq(alive)
           /\ Inj(SubSeq(free, m + 1, Len(free)))
           /\ Ran(SubSeq(free, m + 1, Len(free))) = Ran(free) \ Ran(q)
<1>1. PICK fr, A, n, a : fr = free /\ A = alive /\ n = Len(free) /\ a = m + 1
  OBVIOUS
<1>2. fr \in Seq(A) /\ Inj(fr) /\ n = Len(fr) /\ n \in Nat /\ A \subseteq Desc
  <2>1. Inj(free) /\ free \in Seq(alive)
    BY DEF CoreInv, TypeInv, OwnInv, ListInv
  <2> QED
    BY <1>1, <2>1 DEF CoreInv, TypeInv
<1>3. /\ q \in [1 .. m -> Desc] /\ \A i, j \in 1 .. m : q[i] = q[j] => i = j
      /\ \A i \in 1 .. m : IF i <= n THEN q[i] = fr[i] ELSE q[i] \in Desc \ A
  BY <1>1 DEF Taken
<1>4. q \in Seq(Desc) /\ Len(q) = m
  BY <1>3
<1>5. Inj(q) /\ Ran(q) \subseteq Desc
  BY <1>3, <1>4 DEF Inj, Ran
<1>6. ASSUME NEW e \in Ran(q) PROVE e \notin A \/ e \in Ran(fr)
  <2>1. PICK i \in 1 .. m : e = q[i]
    BY <1>4 DEF Ran
  <2>2. CASE i <= n
    <3>1. i \in 1 .. n /\ e = fr[i]
      BY <1>2, <1>3, <2>1, <2>2
    <3> QED
      BY <1>2, <3>1 DEF Ran
  <2>3. CASE ~(i <= n)
    BY <1>3, <2>1, <2>3
  <2> QED
    BY <2>2, <2>3
<1>7. PICK s : s = SubSeq(fr, a, n)
  OBVIOUS
<1>8. s \in Seq(A) /\ Ran(s) = {fr[i] : i \in a .. n} /\ Inj(s)
  <2>1. a \in Nat \ {0} /\ n \in 0 .. Len(fr)
    BY <1>1, <1>2
  <2> QED
    BY <1>2, <1>7, <2>1, SubRan
<1>9. ASSUME NEW i \in a .. n PROVE fr[i] \in Ran(fr) \ Ran(q)
  <2>1. i \in 1 .. n /\ i > m
    BY <1>1, <1>2
  <2>2. fr[i] \in Ran(fr) /\ fr[i] \in A
    BY <1>2, <2>1, ElementOfSeq DEF Ran
  <2>3. ASSUME NEW j \in 1 .. m, q[j] = fr[i] PROVE FALSE
    <3>1. CASE j <= n
      <4>1. fr[j] = fr[i] /\ j \in 1 .. n
        BY <1>2, <1>3, <2>3, <3>1
      <4>2. j = i
        BY <1>2, <2>1, <4>1 DEF Inj
      <4> QED
        BY <2>1, <4>2
    <3>2. CASE ~(j <= n)
      BY <1>3, <2>2, <2>3, <3>2
    <3> QED
      BY <3>1, <3>2
  <2> QED
    BY <1>4, <2>2, <2>3 DEF Ran
<1>10. ASSUME NEW e \in Ran(fr) \ Ran(q) PROVE e \in {fr[i] : i \in a .. n}
  <2>1. PICK i \in 1 .. n : e = fr[i]
    BY <1>2 DEF Ran
  <2>2. ~(i <= m)
    <3> SUFFICES ASSUME i <= m PROVE FALSE
      OBVIOUS
    <3>1. i \in 1 .. m /\ q[i] = fr[i]
      BY <1>2, <1>3
    <3>2. e \in Ran(q)
      BY <1>4, <2>1, <3>1 DEF Ran
    <3> QED
      BY <3>2
  <2>3. i \in a .. n
    BY <1>1, <1>2, <2>2
  <2> QED
    BY <2>1, <2>3
<1>11. Ran(s) = Ran(fr) \ Ran(q)
  BY <1>8, <1>9, <1>10
<1> QED
  BY <1>1, <1>4, <1>5, <1>6, <1>7, <1>8, <1>11

LEMMA FilledIs ==
    ASSUME NEW all \in [Desc -> DescRec], NEW q, Ran(q) \subseteq Desc, NEW contents,
           \A i \in 1 .. Len(q) : contents[i] \in DescRec
    PROVE  /\ Filled(all, q, contents) \in [Desc -> DescRec]
           /\ \A e \in Desc \ Ran(q) : Filled(all, q, contents)[e] = all[e]
           /\ \A e \in Ran(q) : \E i \in 1 .. Len(q) :
                 q[i] = e /\ Filled(all, q, contents)[e] = contents[i]
<1> DEFINE new == Filled(all, q, contents)
           at(e) == CHOOSE i \in 1 .. Len(q) : q[i] = e
<1>1. new = [e \in Desc |-> IF \E i \in 1 .. Len(q) : q[i] = e THEN contents[at(e)] ELSE all[e]]
  BY DEF Filled
<1>2. ASSUME NEW e \in Ran(q)
      PROVE  (\E i \in 1 .. Len(q) : q[i] = e) /\ at(e) \in 1 .. Len(q) /\ q[at(e)] = e
  BY DEF Ran
<1> HIDE DEF at, new
<1>3. ASSUME NEW e \in Ran(q) PROVE at(e) \in 1 .. Len(q) /\ q[at(e)] = e /\ new[e] = contents[at(e)]
  BY <1>1, <1>2
<1>4. ASSUME NEW e \in Desc \ Ran(q) PROVE new[e] = all[e]
  BY <1>1 DEF Ran
<1>5. \A e \in Desc : new[e] \in DescRec
  BY <1>3, <1>4
<1>6. new \in [Desc -> DescRec]
  BY <1>1, <1>5
<1> QED
  BY <1>3, <1>4, <1>6 DEF new

\* The frame that HandleCoal cuts up
LEMMA CoalIs ==
    ASSUME SideInv, CoreInv, ~clash, NEW c \in Ctx, HandleCoal(c), NEW d, d = Current(c),
           NEW p, p = PktOf(c, d), NEW fr, fr = Stripped(d, MapLen + CoalLen)
    PROVE  /\ Handling(c) /\ fr \in Seq(Fragments(Pages)) /\ FragsLen(fr) = p.len
           /\ p.len \in Nat
           /\ HdrLen(p.ip) > p.len => hollow
           /\ d \in Ran(ctx[c].list) /\ d \in alive /\ d \in Desc /\ desc[d] \in DescRec
           /\ \A sums \in FragValidateCsum(p.ip, fr), fails \in Failing :
                 LET r == FragSegments(p, fr, format.features, sums, fails)
                 IN  /\ Result(r, p.ip, p.len)
                     /\ ~r.reuse => \A k \in 1 .. Len(r.out) :
                           r.hlen + r.out[k].off + r.out[k].dlen <= p.len
<1>1. /\ Handling(c) /\ ForUs(p) /\ HasNextHdr(p) /\ p.type = "coal"
      /\ FragCheckCoalHeader(p.coal)
  BY DEF HandleCoal
<1>2. d \in Ran(ctx[c].list) /\ ctx[c].pc = "handle"
  BY <1>1, HandlingIs
<1>3. /\ d \in alive /\ d \in Desc /\ desc[d] \in DescRec /\ IsPacket(p)
      /\ FragsLen(desc[d].frags) = WireLen(format.flags, p)
      /\ Hollow(format.flags, p) => hollow
      /\ V5(format.flags) /\ ~format.flags.v4
  BY <1>2, OnList
<1>4. IsIp(p.ip) /\ IsCoal(p.coal) /\ p.len \in Nat
  BY <1>1, <1>3, CoalesceAssumption DEF IsPacket
<1>5. PICK fs, len : fs = desc[d].frags /\ len = MapLen + CoalLen
  OBVIOUS
<1>6. fs \in Seq(Fragments(Pages)) /\ len \in Nat
  BY <1>3, <1>5, CoalesceAssumption DEF DescRec
<1>7. FragsLen(fs) = p.len + len
  <2>1. ~p.cd /\ p.type = "coal"
    BY <1>1 DEF ForUs
  <2>2. WireLen(format.flags, p) = MapLen + p.len + CoalLen
    BY <1>3, <2>1 DEF WireLen
  <2> QED
    BY <1>3, <1>4, <1>5, <2>2, CoalesceAssumption
<1>8. fr \in Seq(Fragments(Pages)) /\ FragsLen(fr) = p.len
  <2>1. fr = Pull(fs, len)
    BY <1>5 DEF Stripped
  <2>2. len <= FragsLen(fs)
    BY <1>4, <1>6, <1>7
  <2>3. fr \in Seq(Fragments(Pages)) /\ FragsLen(fr) = FragsLen(fs) - len
    BY <1>6, <2>1, <2>2, PullLen
  <2> QED
    BY <1>4, <1>6, <1>7, <2>3
<1>9. HdrLen(p.ip) > p.len => hollow
  BY <1>1, <1>3 DEF Hollow, ForUs, HasNextHdr
<1>10. ASSUME NEW sums \in FragValidateCsum(p.ip, fr), NEW fails \in Failing,
              NEW r, r = FragSegments(p, fr, format.features, sums, fails)
       PROVE  /\ Result(r, p.ip, p.len)
              /\ ~r.reuse => \A k \in 1 .. Len(r.out) :
                    r.hlen + r.out[k].off + r.out[k].dlen <= p.len
  <2>1. sums \in BOOLEAN
    BY <1>4 DEF FragValidateCsum, IsIp
  <2>2. PICK ft : ft = format.features
    OBVIOUS
  <2>3. r = FragSegments(p, fr, ft, sums, fails) /\ FragsLen(fr) \in Nat
    BY <1>4, <1>8, <1>10, <2>2
  <2> QED
    BY <1>1, <1>4, <1>8, <2>1, <2>3, FragSegmentsIs
<1> QED
  BY <1>1, <1>2, <1>3, <1>4, <1>8, <1>9, <1>10

LEMMA CoalWholeCore ==
    ASSUME SideInv, CoreInv, ~clash, NEW c \in Ctx, Handling(c), NEW d, d = Current(c), d \in Desc,
           desc[d] \in DescRec, NEW ip, NEW len \in Nat,
           NEW fr \in Seq(Fragments(Pages)), FragsLen(fr) = len, HdrLen(ip) > len => hollow,
           NEW r, Result(r, ip, len), CoalWhole(c, d, fr, r), UNCHANGED <<format, ghosts, clash>>
    PROVE  CoreInv'
<1>1. r.reuse /\ DeliverNext(c, <<d>>) /\ UNCHANGED poolVars
  BY DEF CoalWhole
<1>2. r.hlen \in Nat /\ r.hlen = HdrLen(ip) /\ r.out[1].dlen = len - r.hlen /\ r.out[1].valid \in BOOLEAN
  BY <1>1 DEF Result
<1>3. PICK v, o : v = desc[d] /\ o = r.out[1]
  OBVIOUS
<1> DEFINE z == [v EXCEPT !.frags = fr, !.hdr = r.hlen, !.valid = o.valid, !.seg = <<0, o.dlen>>]
<1>4. desc' = [desc EXCEPT ![d] = z]
  BY <1>3 DEF CoalWhole
<1>5. o.dlen \in Int /\ <<0, o.dlen>> \in Nat \X Int
  BY <1>2, <1>3
<1>6. z \in DescRec /\ z.hdr = r.hlen /\ z.frags = fr
  BY <1>2, <1>3, <1>5 DEF DescRec
<1> HIDE DEF z
<1>7. InSegs(z, hollow)
  BY <1>2, <1>6 DEF InSegs
<1> QED
  BY <1>1, <1>4, <1>6, <1>7, PassOnCore

\* What the segments hold
LEMMA CoalSegmentsAre ==
    ASSUME NEW d, desc[d] \in DescRec, NEW ip, NEW len \in Nat,
           NEW fr \in Seq(Fragments(Pages)), FragsLen(fr) = len,
           NEW r, Result(r, ip, len), ~r.reuse,
           \A k \in 1 .. Len(r.out) : r.hlen + r.out[k].off + r.out[k].dlen <= len,
           NEW i \in 1 .. Len(r.out)
    PROVE  /\ CoalSegments(d, fr, r)[i] \in DescRec
           /\ CoalSegments(d, fr, r)[i].hdr <= FragsLen(CoalSegments(d, fr, r)[i].frags)
<1>1. r.hlen \in Nat /\ r.out \in Seq(SegT)
  BY DEF Result
<1>2. PICK v, o, h : v = desc[d] /\ o = r.out[i] /\ h = r.hlen
  OBVIOUS
<1>3. o \in SegT /\ h \in Nat
  BY <1>1, <1>2, ElementOfSeq
<1>4. o.off \in Nat /\ o.dlen \in Nat /\ o.valid \in BOOLEAN
  BY <1>3 DEF SegT
<1>5. h + o.off + o.dlen <= len
  BY <1>2
<1>6. PICK a, b, off : a = Ranges(fr, 0, h) /\ off = h + o.off /\ b = Ranges(fr, off, o.dlen)
  OBVIOUS
<1>7. a \in Seq(Fragments(Pages)) /\ FragsLen(a) = h
  <2>1. 0 + h <= FragsLen(fr) /\ 0 \in Nat
    BY <1>3, <1>4, <1>5
  <2> QED
    BY <1>3, <1>6, <2>1, RangesLen
<1>8. b \in Seq(Fragments(Pages)) /\ FragsLen(b) = o.dlen
  <2>1. off + o.dlen <= FragsLen(fr) /\ off \in Nat
    BY <1>3, <1>4, <1>5, <1>6
  <2> QED
    BY <1>4, <1>6, <2>1, RangesLen
<1>9. a \o b \in Seq(Fragments(Pages)) /\ FragsLen(a \o b) = h + o.dlen
  BY <1>7, <1>8, CatLen
<1>10. PICK ab : ab = a \o b
  OBVIOUS
<1> DEFINE z == [v EXCEPT !.frags = ab, !.hdr = h, !.valid = o.valid, !.seg = <<o.off, o.dlen>>]
<1>11. CoalSegments(d, fr, r)[i] = z
  BY <1>2, <1>6, <1>10 DEF CoalSegments, AddFragsFrom
<1>12. <<o.off, o.dlen>> \in Nat \X Int
  BY <1>4
<1>13. z \in DescRec /\ z.hdr = h /\ z.frags = ab
  BY <1>2, <1>3, <1>4, <1>9, <1>10, <1>12 DEF DescRec
<1> HIDE DEF z
<1>14. z.hdr <= FragsLen(z.frags)
  BY <1>3, <1>4, <1>9, <1>10, <1>13
<1> QED
  BY <1>11, <1>13, <1>14

LEMMA CoalCutCore ==
    ASSUME SideInv, CoreInv, ~clash, NEW c \in Ctx, Handling(c), NEW d, d = Current(c),
           d \in Ran(ctx[c].list), d \in alive, d \in Desc,
           desc[d] \in DescRec, NEW ip, NEW len \in Nat,
           NEW fr \in Seq(Fragments(Pages)), FragsLen(fr) = len,
           NEW r, Result(r, ip, len),
           ~r.reuse => \A i \in 1 .. Len(r.out) : r.hlen + r.out[i].off + r.out[i].dlen <= len,
           NEW k \in Nat, CoalCut(c, d, fr, r, k), UNCHANGED <<format, ghosts, clash>>
    PROVE  CoreInv'
<1> DEFINE n == Len(r.out)
           new == CoalSegments(d, fr, r)
<1>1. ~r.reuse /\ n \in Nat /\ up' = up
  BY DEF CoalCut, Result
<1>2. ASSUME NEW i \in 1 .. n PROVE new[i] \in DescRec /\ new[i].hdr <= FragsLen(new[i].frags)
  BY <1>1, CoalSegmentsAre
<1>3. PICK m : m = n + k
  OBVIOUS
<1>4. PICK q \in Taken(m) :
          /\ free' = SubSeq(free, m + 1, Len(free)) \o SubSeq(q, n + 1, m) \o <<d>>
          /\ alive' = alive \cup ({q[i] : i \in 1 .. m} \ alive)
          /\ pool_size' = pool_size + Cardinality({q[i] : i \in 1 .. m} \ alive)
          /\ desc' = Filled([desc EXCEPT ![d] = Blank], SubSeq(q, 1, n), new)
          /\ DeliverNext(c, SubSeq(q, 1, n))
  BY <1>3 DEF CoalCut
<1>5. PICK fs, n1, qs, qf : /\ fs = SubSeq(free, m + 1, Len(free)) /\ n1 = n + 1
                            /\ qs = SubSeq(q, 1, n) /\ qf = SubSeq(q, n1, m)
  OBVIOUS
<1>6. /\ q \in Seq(Desc) /\ Len(q) = m /\ Inj(q) /\ Ran(q) \subseteq Desc /\ m \in Nat
      /\ \A e \in Ran(q) : e \notin alive \/ e \in Ran(free)
      /\ fs \in Seq(alive) /\ Inj(fs) /\ Ran(fs) = Ran(free) \ Ran(q)
  <2>1. m \in Nat
    BY <1>1, <1>3
  <2> QED
    BY <1>5, <2>1, TakenIs
<1> HIDE DEF n, new
<1>7. /\ qs \in Seq(Desc) /\ Ran(qs) = {q[i] : i \in 1 .. n} /\ Len(qs) = n
      /\ \A i \in 1 .. n : qs[i] = q[i]
      /\ Inj(qs)
  <2>1. 1 \in Nat \ {0} /\ n \in 0 .. Len(q)
    BY <1>1, <1>3, <1>6
  <2>2. /\ qs \in Seq(Desc) /\ Ran(qs) = {q[i] : i \in 1 .. n} /\ Inj(qs)
        /\ Len(qs) = (IF 1 <= n THEN n - 1 + 1 ELSE 0)
        /\ \A i \in 1 .. n - 1 + 1 : qs[i] = q[1 + i - 1]
    BY <1>5, <1>6, <2>1, SubRan
  <2> QED
    BY <1>1, <2>2
<1>8. qf \in Seq(Desc) /\ Ran(qf) = {q[i] : i \in n1 .. m} /\ Inj(qf)
  <2>1. n1 \in Nat \ {0} /\ m \in 0 .. Len(q)
    BY <1>1, <1>5, <1>6, SMTT(40)
  <2> QED
    BY <1>5, <1>6, <2>1, SubRan, SMTT(40)
<1>9. Ran(q) = Ran(qs) \cup Ran(qf) /\ Ran(qs) \cap Ran(qf) = {}
  <2>1. Ran(q) = {q[i] : i \in 1 .. m}
    BY <1>6 DEF Ran
  <2>2. \A i \in 1 .. m : i \in 1 .. n \/ i \in n1 .. m
    BY <1>1, <1>5, <1>6
  <2>3. (\A i \in 1 .. n : i \in 1 .. m) /\ (\A i \in n1 .. m : i \in 1 .. m)
    BY <1>1, <1>3, <1>5, <1>6
  <2>4. \A i \in 1 .. n, j \in n1 .. m : i # j
    BY <1>1, <1>5, <1>6
  <2>5. \A i \in 1 .. n, j \in n1 .. m : q[i] # q[j]
    BY <1>6, <2>3, <2>4 DEF Inj
  <2> QED
    BY <1>7, <1>8, <2>1, <2>2, <2>3, <2>5
<1>10. /\ Ran(free) \cap Ran(ctx[c].list) = {} /\ Ran(free) \subseteq alive /\ Ran(ctx[c].list) \subseteq alive
  BY Apart
<1>11. d \notin Ran(q) /\ d \notin Ran(free)
  BY <1>6, <1>10
<1>12. PICK B : B = alive'
  OBVIOUS
<1>13. B = alive \cup Ran(q) /\ pool_size' = pool_size + Cardinality(Ran(q) \ alive)
  <2>1. Ran(q) = {q[i] : i \in 1 .. m}
    BY <1>6 DEF Ran
  <2> QED
    BY <1>4, <1>12, <2>1
<1>14. qs \in Seq(B) /\ qf \in Seq(B) /\ fs \in Seq(B) /\ <<d>> \in Seq(B)
       /\ Ran(<<d>>) = {d} /\ Inj(<<d>>)
  <2>1. Ran(qs) \subseteq B /\ Ran(qf) \subseteq B
    BY <1>9, <1>13
  <2>2. Ran(fs) \subseteq B
    BY <1>6, <1>10, <1>13
  <2>3. <<d>> \in Seq({d}) /\ Ran(<<d>>) = {d} /\ Inj(<<d>>)
    BY OneRan
  <2>4. <<d>> \in Seq(B)
    <3>1. {d} \subseteq B
      BY <1>13
    <3> QED
      BY <2>3, <3>1, RanSeq
  <2>5. qs \in Seq(B) /\ qf \in Seq(B)
    BY <1>7, <1>8, <2>1, RanSeq
  <2>6. fs \in Seq(B)
    BY <1>6, <2>2, RanSeq
  <2> QED
    BY <2>3, <2>4, <2>5, <2>6
<1>15. PICK one, ff : one = <<d>> /\ ff = fs \o qf
  OBVIOUS
<1>16. ff \in Seq(B) /\ Ran(ff) = Ran(fs) \cup Ran(qf) /\ Inj(ff)
  <2>1. Ran(fs) \cap Ran(qf) = {}
    BY <1>6, <1>9
  <2>2. fs \in Seq(B) /\ qf \in Seq(B) /\ Inj(fs) /\ Inj(qf)
    BY <1>6, <1>8, <1>14
  <2>3. fs \o qf \in Seq(B) /\ Ran(fs \o qf) = Ran(fs) \cup Ran(qf) /\ Inj(fs \o qf)
    BY ONLY <2>1, <2>2, CatRan
  <2> QED
    BY <1>15, <2>3
<1>17. free' = ff \o one
  BY <1>4, <1>5, <1>15
<1>18. free' \in Seq(B) /\ Ran(free') = Ran(ff) \cup {d} /\ Inj(free')
  <2>1. one \in Seq(B) /\ Ran(one) = {d} /\ Inj(one)
    BY <1>14, <1>15
  <2>2. Ran(ff) \cap Ran(one) = {}
    BY <1>6, <1>9, <1>11, <1>16, <2>1
  <2>3. ff \o one \in Seq(B) /\ Ran(ff \o one) = Ran(ff) \cup Ran(one) /\ Inj(ff \o one)
    BY <1>16, <2>1, <2>2, CatRan
  <2> QED
    BY <1>17, <2>1, <2>3
<1> DEFINE M == Ran(q) \cup {d}
           T == [e \in M |-> IF e \in Ran(qs) THEN <<"segs", c>> ELSE <<"free", 0>>]
<1>19. /\ \A e \in Ran(qs) : T[e] = <<"segs", c>>
       /\ \A e \in Ran(qf) \cup {d} : T[e] = <<"free", 0>>
  BY <1>9, <1>11
<1>20. /\ M \subseteq Desc
       /\ \A e \in M : T[e] \in {<<"free", 0>>, <<"segs", c>>}
       /\ M \ alive = Ran(q) \ alive /\ alive \cup M = B
       /\ M = Ran(qs) \cup Ran(qf) \cup {d}
  BY <1>6, <1>9, <1>13
<1> HIDE DEF M, T
<1>21. Moves(c, M, T)
  <2>1. ASSUME NEW e \in M PROVE e \notin alive \/ e \in Ran(free) \/ e \in Ran(ctx[c].list)
    BY <1>6, <1>9, <1>20
  <2> QED
    BY <1>20, <2>1 DEF Moves
<1>22. /\ Arrive(M, T, <<"free", 0>>) = Ran(qf) \cup {d} /\ Arrive(M, T, <<"segs", c>>) = Ran(qs)
       /\ Arrive(M, T, <<"lost", 0>>) = {} /\ Arrive(M, T, <<"list", c>>) = {}
  <2>1. /\ <<"free", 0>> # <<"segs", c>> /\ <<"free", 0>> # <<"lost", 0>> /\ <<"free", 0>> # <<"list", c>>
        /\ <<"segs", c>> # <<"lost", 0>> /\ <<"segs", c>> # <<"list", c>>
    OBVIOUS
  <2> QED
    BY <1>9, <1>11, <1>19, <1>20, <2>1 DEF Arrive
<1>23. PICK x, F, h, rt : x = ctx[c] /\ F = format.flags /\ h = hollow /\ rt = runt
  OBVIOUS
<1>24. /\ up /\ x.pc = "handle" /\ x.segs = <<>> /\ x.again = NULL
       /\ AtWork(c, x, F, h, rt) /\ x \in CtxRec(alive)
       /\ Tail(x.list) \in Seq(alive)
       /\ Inj(Tail(x.list)) /\ Ran(Tail(x.list)) = Ran(x.list) \ {d}
       /\ ctx \in [Ctx -> CtxRec(alive)]
  BY <1>23, HandlingIs
<1> DEFINE y == [x EXCEPT !.list = Tail(x.list), !.segs = qs,
                          !.pc = IF qs = <<>> THEN "handle" ELSE "deliver"]
<1>25. ctx' = [ctx EXCEPT ![c] = y]
  BY <1>4, <1>5, <1>23, <1>24 DEF DeliverNext, CtxRec
<1>26. Tail(x.list) \in Seq(B) /\ x.again \in B \cup {NULL}
  <2>1. Ran(Tail(x.list)) \subseteq B
    BY <1>10, <1>13, <1>23, <1>24
  <2> QED
    BY <1>24, <2>1, RanSeq
<1>27. /\ y.pc = (IF qs = <<>> THEN "handle" ELSE "deliver") /\ y.chain = x.chain /\ y.buf = x.buf
       /\ y.nth = x.nth /\ y.rest = x.rest
       /\ y.list = Tail(x.list) /\ y.segs = qs /\ y.again = x.again
       /\ y \in CtxRec(B)
  BY <1>14, <1>24, <1>26 DEF CtxRec, Pcs
<1> HIDE DEF y
<1>28. AtWork(c, y, F, h, rt)
  <2>1. x.pc # "linear" /\ y.pc \in {"handle", "deliver", "again"}
    BY <1>24, <1>27
  <2> QED
    BY <1>24, <1>27, <2>1, AtWorkSame
<1>29. CtxGood(c, y, F, B, h, rt)
  BY <1>24, <1>27, <1>28 DEF CtxGood, ListsByPc
<1>30. PICK all : all = [desc EXCEPT ![d] = Blank]
  OBVIOUS
<1>31. all \in [Desc -> DescRec] /\ all[d] = Blank /\ \A e \in Desc \ {d} : all[e] = desc[e]
  BY <1>30, BlankRec DEF CoreInv, TypeInv
<1>32. PICK cont : cont = new
  OBVIOUS
<1>33. Ran(qs) \subseteq Desc /\ \A i \in 1 .. Len(qs) : cont[i] \in DescRec /\ cont[i].hdr <= FragsLen(cont[i].frags)
  BY <1>2, <1>6, <1>7, <1>9, <1>32
<1>34. PICK D : D = Filled(all, qs, cont)
  OBVIOUS
<1>35. desc' = D
  BY <1>4, <1>5, <1>30, <1>32, <1>34
<1>36. /\ D \in [Desc -> DescRec] /\ \A e \in Desc \ Ran(qs) : D[e] = all[e]
       /\ \A e \in Ran(qs) : \E i \in 1 .. Len(qs) : qs[i] = e /\ D[e] = cont[i]
  BY <1>31, <1>33, <1>34, FilledIs
<1>37. ASSUME NEW e \in M PROVE Holds(T[e], D[e], ctx', format.flags, hollow)
  <2>1. CASE e \in Ran(qs)
    <3>1. PICK i \in 1 .. Len(qs) : D[e] = cont[i]
      BY <1>36, <2>1
    <3>2. InSegs(D[e], hollow)
      BY <1>33, <3>1 DEF InSegs
    <3>3. T[e][1] = "segs"
      BY <1>19, <2>1
    <3> QED
      BY <3>2, <3>3 DEF Holds
  <2>2. CASE e \notin Ran(qs)
    <3>1. e \in Desc /\ D[e] = all[e] /\ e \in Ran(qf) \cup {d}
      BY <1>20, <1>36, <2>2
    <3>2. D[e].frags = <<>>
      <4>1. CASE e = d
        BY <1>31, <3>1, <4>1, BlankRec
      <4>2. CASE e # d
        <5>1. e \in Ran(q) /\ D[e] = desc[e]
          BY <1>9, <1>31, <3>1, <4>2
        <5>2. e \notin alive \/ e \in Ran(free)
          BY <1>6, <5>1
        <5> QED
          BY <3>1, <5>1, <5>2, FreeBlank
      <4> QED
        BY <4>1, <4>2
    <3>3. T[e] = <<"free", 0>>
      BY <1>19, <3>1
    <3>4. T[e][1] = "free"
      BY <3>3
    <3> QED
      BY <3>2, <3>4 DEF Holds
  <2> QED
    BY <2>1, <2>2
<1>38. ASSUME NEW e \in Desc \ M PROVE D[e] = desc[e]
  BY <1>20, <1>31, <1>36
<1>39. /\ UNCHANGED <<format, clash, hollow, runt, lost>>
  BY DEF ghosts
<1>40. /\ Ran(free') = (Ran(free) \ M) \cup Arrive(M, T, <<"free", 0>>)
       /\ lost' = lost \cup Arrive(M, T, <<"lost", 0>>)
       /\ Ran(y.list) = (Ran(ctx[c].list) \ M) \cup Arrive(M, T, <<"list", c>>)
       /\ Ran(y.segs) = (Ran(ctx[c].segs) \ M) \cup Arrive(M, T, <<"segs", c>>)
  <2>1. Ran(free') = (Ran(free) \ M) \cup Arrive(M, T, <<"free", 0>>)
    BY <1>6, <1>9, <1>11, <1>16, <1>18, <1>20, <1>22
  <2>2. lost' = lost \cup Arrive(M, T, <<"lost", 0>>)
    BY <1>22, <1>39
  <2>3. ASSUME NEW e \in Ran(ctx[c].list) PROVE e \in M => e = d
    <3>1. e \notin Ran(q)
      BY <1>6, <1>10
    <3> QED
      BY <1>9, <1>20, <3>1
  <2>4. d \in M
    BY <1>20
  <2>5. Ran(y.list) = (Ran(ctx[c].list) \ M) \cup Arrive(M, T, <<"list", c>>)
    BY <1>22, <1>23, <1>24, <1>27, <2>3, <2>4
  <2>6. Ran(y.segs) = (Ran(ctx[c].segs) \ M) \cup Arrive(M, T, <<"segs", c>>)
    BY <1>22, <1>23, <1>24, <1>27, EmptyRan
  <2> QED
    BY <2>1, <2>2, <2>5, <2>6
<1>41. StepOK(c, y, M, T)
  <2>1. ctx' = [ctx EXCEPT ![c] = y] /\ y \in CtxRec(alive')
        /\ CtxGood(c, y, format.flags, alive', hollow', runt')
    BY <1>12, <1>23, <1>25, <1>27, <1>29, <1>39
  <2>2. free' \in Seq(alive') /\ Inj(free') /\ Inj(y.list) /\ Inj(y.segs)
    BY <1>7, <1>12, <1>18, <1>24, <1>27
  <2>3. alive' = alive \cup M /\ pool_size' = pool_size + Cardinality(M \ alive)
    BY <1>12, <1>13, <1>20
  <2>4. desc' \in [Desc -> DescRec] /\ (\A e \in Desc \ M : desc'[e] = desc[e])
        /\ \A e \in M : Holds(T[e], desc'[e], ctx', format.flags, hollow')
    BY <1>35, <1>36, <1>37, <1>38, <1>39
  <2>5. y.chain = ctx[c].chain /\ y.buf = ctx[c].buf
    BY <1>23, <1>27
  <2> QED
    BY <1>1, <1>21, <1>39, <1>40, <2>1, <2>2, <2>3, <2>4, <2>5 DEF StepOK
<1>42. TypeInv /\ PoolInv /\ CtxInv /\ OwnInv
  BY DEF CoreInv
<1>43. TypeInv' /\ PoolInv' /\ CtxInv' /\ OwnInv'
  BY <1>24, <1>41, <1>42, StepInv
<1> QED
  BY <1>43 DEF CoreInv

LEMMA HandleCoalCore ==
    ASSUME SideInv, CoreInv, ~clash, NEW c \in Ctx, HandleCoal(c)
    PROVE  CoreInv'
<1>1. PICK d, p, fr : d = Current(c) /\ p = PktOf(c, d) /\ fr = Stripped(d, MapLen + CoalLen)
  OBVIOUS
<1>2. PICK sums \in FragValidateCsum(p.ip, fr), fails \in Failing :
          LET r == FragSegments(p, fr, format.features, sums, fails)
          IN  CoalWhole(c, d, fr, r) \/ \E k \in 0 .. r.calls - Len(r.out) : CoalCut(c, d, fr, r, k)
  BY <1>1 DEF HandleCoal
<1>3. PICK r : r = FragSegments(p, fr, format.features, sums, fails)
  OBVIOUS
<1>4. /\ Handling(c) /\ fr \in Seq(Fragments(Pages)) /\ FragsLen(fr) = p.len
      /\ p.len \in Nat
      /\ HdrLen(p.ip) > p.len => hollow
      /\ d \in Ran(ctx[c].list) /\ d \in alive /\ d \in Desc /\ desc[d] \in DescRec
  BY <1>1, CoalIs
<1>5. Result(r, p.ip, p.len) /\ (~r.reuse => \A k \in 1 .. Len(r.out) :
                           r.hlen + r.out[k].off + r.out[k].dlen <= p.len)
  BY <1>1, <1>3, CoalIs
<1>6. UNCHANGED <<format, ghosts, clash>>
  BY DEF HandleCoal
<1>7. CASE CoalWhole(c, d, fr, r)
  BY <1>1, <1>4, <1>5, <1>6, <1>7, CoalWholeCore
<1>8. CASE \E k \in 0 .. r.calls - Len(r.out) : CoalCut(c, d, fr, r, k)
  <2>1. PICK k \in 0 .. r.calls - Len(r.out) : CoalCut(c, d, fr, r, k)
    BY <1>8
  <2>2. k \in Nat
    OBVIOUS
  <2> QED
    BY <1>1, <1>4, <1>5, <1>6, <2>1, <2>2, CoalCutCore
<1> QED
  BY <1>2, <1>3, <1>7, <1>8

-----------------------------------------------------------------------------
(* Deaggregation.                                                           *)

LEMMA TakeOne ==
    ASSUME CoreInv, ~clash, NEW d, <<d>> \in Taken(1)
    PROVE  /\ d \in Desc /\ (d \notin alive \/ d \in Ran(free)) /\ desc[d].frags = <<>>
           /\ SubSeq(free, 2, Len(free)) \in Seq(alive)
           /\ Inj(SubSeq(free, 2, Len(free)))
           /\ Ran(SubSeq(free, 2, Len(free))) = Ran(free) \ {d}
           /\ GotDescriptors(<<d>>) =>
                 /\ free' = SubSeq(free, 2, Len(free)) /\ alive' = alive \cup {d}
                 /\ pool_size' = (IF d \in alive THEN pool_size ELSE pool_size + 1) /\ up' = up
<1>1. PICK q, one : q = <<d>> /\ one = 1
  OBVIOUS
<1>2. q \in Taken(one) /\ one \in Nat /\ Ran(q) = {d} /\ Len(q) = 1 /\ q[1] = d
  BY <1>1, OneRan
<1>3. one + 1 = 2
  BY <1>1
<1>4. /\ Ran(q) \subseteq Desc
      /\ \A e \in Ran(q) : e \notin alive \/ e \in Ran(free)
      /\ SubSeq(free, one + 1, Len(free)) \in Seq(alive)
      /\ Inj(SubSeq(free, one + 1, Len(free)))
      /\ Ran(SubSeq(free, one + 1, Len(free))) = Ran(free) \ Ran(q)
  BY <1>2, TakenIs
<1>5. d \in Desc /\ (d \notin alive \/ d \in Ran(free))
  BY <1>2, <1>4
<1>6. desc[d].frags = <<>>
  BY <1>5, FreeBlank
<1>7. ASSUME GotDescriptors(q)
      PROVE  /\ free' = SubSeq(free, 2, Len(free)) /\ alive' = alive \cup {d}
             /\ pool_size' = (IF d \in alive THEN pool_size ELSE pool_size + 1) /\ up' = up
  <2>1. {q[i] : i \in 1 .. Len(q)} = {d}
    BY <1>2 DEF Ran
  <2>2. free' = SubSeq(free, 2, Len(free)) /\ up' = up
    BY <1>2, <1>7 DEF GotDescriptors
  <2>3. alive' = alive \cup ({d} \ alive) /\ pool_size' = pool_size + Cardinality({d} \ alive)
    BY <1>7, <2>1 DEF GotDescriptors
  <2>4. pool_size \in Nat
    BY IngressAssumption, FS_Subset, FS_CardinalityType DEF CoreInv, TypeInv, PoolInv
  <2>5. CASE d \in alive
    <3>1. {d} \ alive = {}
      BY <2>5
    <3>2. Cardinality({d} \ alive) = 0
      BY <3>1, FS_EmptySet
    <3>3. pool_size' = pool_size
      BY <2>3, <2>4, <3>2
    <3> QED
      BY <2>2, <2>3, <2>5, <3>1, <3>3
  <2>6. CASE d \notin alive
    <3>1. {d} \ alive = {d} /\ Cardinality({d}) = 1
      BY <2>6, FS_Singleton
    <3> QED
      BY <2>2, <2>3, <2>4, <2>6, <3>1
  <2> QED
    BY <2>5, <2>6
<1> QED
  BY <1>1, <1>2, <1>3, <1>4, <1>5, <1>6, <1>7

\* The context stops, d goes to p and holds nothing
LEMMA StopCore ==
    ASSUME SideInv, CoreInv, ~clash, NEW c \in Ctx, ctx[c].pc = "deaggregate",
           NEW d \in Desc, d \notin alive \/ d \in Ran(free), desc[d].frags = <<>>,
           StopDeaggregation(c), UNCHANGED <<format, runt, hollow, clash, up, desc>>,
           alive' = alive \cup {d}, pool_size' = IF d \in alive THEN pool_size ELSE pool_size + 1,
           NEW p \in {<<"free", 0>>, <<"lost", 0>>},
           free' \in Seq(alive'), Inj(free'),
           Ran(free') = (Ran(free) \ {d}) \cup (IF p = <<"free", 0>> THEN {d} ELSE {}),
           lost' = lost \cup (IF p = <<"lost", 0>> THEN {d} ELSE {}),
           p = <<"lost", 0>> => runt
    PROVE  CoreInv'
<1>1. PICK x, F, h, r, A : x = ctx[c] /\ F = format.flags /\ h = hollow /\ r = runt /\ A = alive
  OBVIOUS
<1>2. /\ x.pc = "deaggregate" /\ x \in CtxRec(A) /\ CtxGood(c, x, F, A, h, r)
      /\ ctx \in [Ctx -> CtxRec(A)]
  BY <1>1, Here DEF CoreInv, TypeInv
<1> DEFINE y == [x EXCEPT !.pc = "handle"]
<1>3. ctx' = [ctx EXCEPT ![c] = y]
  BY <1>1, <1>2 DEF StopDeaggregation
<1>4. /\ y.pc = "handle" /\ y.chain = x.chain /\ y.buf = x.buf /\ y.nth = x.nth
      /\ y.list = x.list /\ y.segs = x.segs /\ y.again = x.again
      /\ y \in CtxRec(A)
  BY <1>2 DEF CtxRec, Pcs
<1> HIDE DEF y
<1>5. AtWork(c, x, F, h, r)
  BY <1>2 DEF CtxGood
<1>6. AtWork(c, y, F, h, r)
  BY <1>2, <1>4, <1>5, AtWorkSame
<1>7. CtxGood(c, y, F, A, h, r)
  BY <1>2, <1>4, <1>6 DEF CtxGood, ListsByPc
<1>8. PICK B : B = alive'
  OBVIOUS
<1>9. A \subseteq B /\ Seq(A) \subseteq Seq(B)
  <2>1. A \subseteq B
    BY <1>1, <1>8
  <2> QED
    BY <2>1, SeqMonotonic
<1>10. y \in CtxRec(B)
  BY <1>4, <1>9 DEF CtxRec
<1>11. CtxGood(c, y, F, B, h, r)
  BY <1>7, <1>9, CtxGoodMono
<1>12. up
  BY <1>1, <1>2, WorkUp DEF CoreInv
<1>13. PICK z : z = desc[d]
  OBVIOUS
<1>14. z \in DescRec /\ desc' = [desc EXCEPT ![d] = z]
  BY <1>13 DEF CoreInv, TypeInv
<1>15. Holds(p, z, ctx', format.flags, hollow)
  <2>1. p[1] \in {"free", "lost"}
    OBVIOUS
  <2> QED
    BY <1>13, <2>1 DEF Holds
<1>16. p # <<"list", c>> /\ p # <<"segs", c>>
  OBVIOUS
<1>17. d \notin Ran(ctx[c].list) /\ d \notin Ran(ctx[c].segs) /\ Inj(ctx[c].list) /\ Inj(ctx[c].segs)
  BY Apart
<1>18. /\ Ran(y.list) = (Ran(ctx[c].list) \ {d}) \cup (IF p = <<"list", c>> THEN {d} ELSE {})
       /\ Ran(y.segs) = (Ran(ctx[c].segs) \ {d}) \cup (IF p = <<"segs", c>> THEN {d} ELSE {})
       /\ Inj(y.list) /\ Inj(y.segs)
  BY <1>1, <1>4, <1>16, <1>17
<1>19. MoveOK(c, y, d, p, z)
  <2>1. y \in CtxRec(alive') /\ CtxGood(c, y, format.flags, alive', hollow, runt)
    BY <1>1, <1>8, <1>10, <1>11
  <2>2. p \in {<<"free", 0>>, <<"lost", 0>>, <<"list", c>>, <<"segs", c>>}
    OBVIOUS
  <2>3. y.chain = ctx[c].chain /\ y.buf = ctx[c].buf
    BY <1>1, <1>4
  <2> QED
    BY <1>3, <1>14, <1>15, <1>18, <2>1, <2>2, <2>3 DEF MoveOK
<1>20. TypeInv /\ PoolInv /\ CtxInv /\ OwnInv
  BY DEF CoreInv
<1>21. TypeInv' /\ PoolInv' /\ CtxInv' /\ OwnInv'
  BY <1>12, <1>19, <1>20, MoveStep
<1> QED
  BY <1>21 DEF CoreInv

\* rmnet_frag_deaggregate_one reads the lengths that the hardware wrote
LEMMA WireIsHw ==
    ASSUME NEW f, NEW p, IsPacket(p), V5(f), ~f.v4
    PROVE  WireLen(f, p) = HwLen(f, p)
<1>1. p.len \in Nat /\ MapLen \in Nat /\ CsumLen \in Nat /\ CoalLen \in Nat
  BY CoalesceAssumption, IngressAssumption DEF IsPacket
<1>2. CASE p.cd
  BY <1>1, <1>2 DEF WireLen, HwLen, HwHdr
<1>3. CASE ~p.cd /\ p.type = "csum"
  BY <1>1, <1>3 DEF WireLen, HwLen, HwHdr
<1>4. CASE ~p.cd /\ p.type = "coal"
  BY <1>1, <1>4 DEF WireLen, HwLen, HwHdr
<1>5. CASE ~p.cd /\ p.type # "csum" /\ p.type # "coal"
  BY <1>1, <1>5 DEF WireLen, HwLen, HwHdr
<1> QED
  BY <1>2, <1>3, <1>4, <1>5

\* d takes the next packet
LEMMA TakeCore ==
    ASSUME SideInv, CoreInv, ~clash, NEW c \in Ctx, ctx[c].pc = "deaggregate",
           NEW d, <<d>> \in Taken(1), NEW want,
           FragsLen(ctx[c].rest) >= MapLen,
           want = WireLen(format.flags, Buffer(c).pkts[ctx[c].nth + 1]), want <= FragsLen(ctx[c].rest),
           GotDescriptors(<<d>>),
           desc' = [desc EXCEPT ![d] = [Blank EXCEPT !.frags = Ranges(ctx[c].rest, 0, want),
                                                     !.nth = ctx[c].nth + 1]],
           ctx' = [ctx EXCEPT ![c].rest = Pull(@, want), ![c].nth = @ + 1,
                              ![c].list = Append(@, d)],
           UNCHANGED <<lost, format, runt, hollow, clash>>
    PROVE  CoreInv'
<1>1. PICK x, F, h, r, A, k : /\ x = ctx[c] /\ F = format.flags /\ h = hollow /\ r = runt /\ A = alive
                              /\ k = x.nth + 1
  OBVIOUS
<1>2. /\ x.pc = "deaggregate" /\ x \in CtxRec(A) /\ CtxGood(c, x, F, A, h, r) /\ F \in Formats
      /\ ctx \in [Ctx -> CtxRec(A)] /\ x.nth \in Nat /\ x.rest \in Seq(Fragments(Pages))
      /\ FragsLen(x.rest) \in Nat /\ Buffer(c) = BufferAt(c, x, F)
  BY <1>1, Here DEF CoreInv, TypeInv
<1>3. AtWork(c, x, F, h, r)
  BY <1>2 DEF CtxGood
<1>4. PICK b : b = BufferAt(c, x, F)
  OBVIOUS
<1>5. /\ k \in 1 .. Len(b.pkts) /\ IsPacket(b.pkts[k]) /\ Start(F, b.pkts, k) \in Nat
      /\ FragsLen(b.frags) = Start(F, b.pkts, k) + FragsLen(x.rest)
      /\ Start(F, b.pkts, k + 1) = Start(F, b.pkts, k) + HwLen(F, b.pkts[k])
      /\ HwLen(F, b.pkts[k]) \in Nat
  <2>1. x.pc = "deaggregate" /\ FragsLen(x.rest) >= MapLen /\ k = x.nth + 1
    BY <1>1, <1>2
  <2> QED
    BY ONLY c \in Ctx, <1>2, <1>3, <1>4, <2>1, NextPkt, SMTT(40)
<1>6. V5(F) /\ ~F.v4
  BY <1>2, <1>3, V5Facts DEF AtWork, PagedAt
<1>7. want = HwLen(F, b.pkts[k]) /\ want \in Nat /\ want = WireLen(F, b.pkts[k])
  BY <1>1, <1>2, <1>4, <1>5, <1>6, WireIsHw
<1>8. want <= FragsLen(x.rest)
  BY <1>1
<1>9. PICK got, rest : got = Ranges(x.rest, 0, want) /\ rest = Pull(x.rest, want)
  OBVIOUS
<1>10. got \in Seq(Fragments(Pages)) /\ FragsLen(got) = want
  <2>1. PICK s, zero : s = x.rest /\ zero = 0
    OBVIOUS
  <2>2. zero + want <= FragsLen(s) /\ zero \in Nat /\ s \in Seq(Fragments(Pages))
    BY <1>2, <1>7, <1>8, <2>1
  <2>3. Ranges(s, zero, want) \in Seq(Fragments(Pages)) /\ FragsLen(Ranges(s, zero, want)) = want
    BY ONLY <1>7, <2>2, RangesLen
  <2> QED
    BY <1>9, <2>1, <2>3
<1>11. rest \in Seq(Fragments(Pages)) /\ FragsLen(rest) = FragsLen(x.rest) - want
  BY <1>2, <1>7, <1>8, <1>9, PullLen
<1>12. /\ d \in Desc /\ (d \notin alive \/ d \in Ran(free))
       /\ free' \in Seq(A) /\ Inj(free') /\ Ran(free') = Ran(free) \ {d}
       /\ alive' = A \cup {d}
       /\ pool_size' = (IF d \in alive THEN pool_size ELSE pool_size + 1) /\ up' = up
  BY <1>1, TakeOne
<1>13. PICK B : B = alive'
  OBVIOUS
<1>14. A \subseteq B /\ Seq(A) \subseteq Seq(B) /\ d \in B
  <2>1. A \subseteq B /\ d \in B
    BY <1>12, <1>13
  <2> QED
    BY <2>1, SeqMonotonic
<1>15. d \notin Ran(x.list) /\ d \notin Ran(x.segs) /\ Inj(x.list) /\ Inj(x.segs)
  BY <1>1, <1>12, Apart
<1>16. x.list \in Seq(B) /\ k \in Nat /\ x.segs = <<>> /\ x.again = NULL
  BY <1>1, <1>2, <1>14 DEF CtxRec, CtxGood, ListsByPc
<1>17. PICK l : l = Append(x.list, d)
  OBVIOUS
<1>18. l \in Seq(B) /\ Ran(l) = Ran(x.list) \cup {d} /\ Inj(l)
  BY <1>14, <1>15, <1>16, <1>17, AppendRan
<1> DEFINE y == [x EXCEPT !.rest = rest, !.nth = k, !.list = l]
<1>19. ctx' = [ctx EXCEPT ![c] = y]
  BY <1>1, <1>2, <1>9, <1>17 DEF CtxRec
<1>20. /\ y.pc = "deaggregate" /\ y.chain = x.chain /\ y.buf = x.buf /\ y.nth = k /\ y.rest = rest
       /\ y.list = l /\ y.segs = x.segs /\ y.again = x.again
  BY <1>2 DEF CtxRec
<1>21. y \in CtxRec(B)
  BY <1>2, <1>11, <1>14, <1>16, <1>18 DEF CtxRec
<1> HIDE DEF y
<1>22. /\ ChainAt(c, y, F) = ChainAt(c, x, F) /\ BufferAt(c, y, F) = b
       /\ PagedAt(c, y, F) = PagedAt(c, x, F)
  BY <1>4, <1>20 DEF ChainAt, BufferAt, PagedAt
<1>23. FragsLen(y.rest) = FragsLen(b.frags) - Start(F, b.pkts, y.nth + 1)
  <2>1. Start(F, b.pkts, y.nth + 1) = Start(F, b.pkts, k) + want
    BY <1>5, <1>7, <1>20
  <2>2. FragsLen(y.rest) = FragsLen(x.rest) - want
    BY <1>11, <1>20
  <2> QED
    BY <1>2, <1>5, <1>7, <2>1, <2>2
<1>24. Len(b.pkts) \in Nat
  BY <1>2, <1>3, <1>4, BufferFacts
<1>25. y.nth \in 0 .. Len(b.pkts)
  BY <1>5, <1>20, <1>24
<1>26. AtWork(c, y, F, h, r)
  BY <1>2, <1>3, <1>20, <1>22, <1>23, <1>25 DEF AtWork
<1>27. CtxGood(c, y, F, B, h, r)
  BY <1>16, <1>20, <1>26 DEF CtxGood, ListsByPc
<1> DEFINE z == [Blank EXCEPT !.frags = got, !.nth = k]
<1>28. desc' = [desc EXCEPT ![d] = z]
  BY <1>1, <1>9
<1>29. z \in DescRec /\ z.hdr = 0 /\ z.nth = k /\ z.frags = got
  BY <1>10, <1>16 DEF Blank, DescRec
<1> HIDE DEF z
<1>30. InList(F, b.pkts, z)
  BY <1>5, <1>7, <1>10, <1>29 DEF InList
<1>31. PICK p : p = <<"list", c>>
  OBVIOUS
<1>32. p # <<"lost", 0>> /\ p # <<"segs", c>> /\ p # <<"free", 0>> /\ p[1] = "list" /\ p[2] = c
  BY <1>31
<1>33. Holds(p, z, ctx', format.flags, hollow)
  <2>1. ctx'[c] = y
    BY <1>2, <1>19
  <2> QED
    BY <1>1, <1>22, <1>30, <1>32, <2>1 DEF Holds
<1>34. MoveOK(c, y, d, p, z)
  <2>1. y \in CtxRec(alive') /\ CtxGood(c, y, format.flags, alive', hollow, runt)
    BY <1>1, <1>13, <1>21, <1>27
  <2>2. /\ Ran(y.list) = (Ran(ctx[c].list) \ {d}) \cup (IF p = <<"list", c>> THEN {d} ELSE {})
        /\ Ran(y.segs) = (Ran(ctx[c].segs) \ {d}) \cup (IF p = <<"segs", c>> THEN {d} ELSE {})
        /\ Inj(y.list) /\ Inj(y.segs)
    BY <1>1, <1>15, <1>18, <1>20, <1>31, <1>32
  <2>3. /\ Ran(free') = (Ran(free) \ {d}) \cup (IF p = <<"free", 0>> THEN {d} ELSE {})
        /\ lost' = lost \cup (IF p = <<"lost", 0>> THEN {d} ELSE {})
    BY <1>12, <1>32
  <2>4. p \in {<<"free", 0>>, <<"lost", 0>>, <<"list", c>>, <<"segs", c>>}
    BY <1>31
  <2>5. y.chain = ctx[c].chain /\ y.buf = ctx[c].buf
    BY <1>1, <1>20
  <2>6. free' \in Seq(alive')
    BY <1>12, <1>13, <1>14
  <2>7. alive' = alive \cup {d}
    BY <1>1, <1>12
  <2> QED
    BY <1>12, <1>19, <1>28, <1>29, <1>32, <1>33, <2>1, <2>2, <2>3, <2>4, <2>5, <2>6, <2>7 DEF MoveOK
<1>35. up /\ TypeInv /\ PoolInv /\ CtxInv /\ OwnInv
  BY <1>1, <1>2, WorkUp DEF CoreInv
<1>36. TypeInv' /\ PoolInv' /\ CtxInv' /\ OwnInv'
  BY <1>34, <1>35, MoveStep
<1> QED
  BY <1>36 DEF CoreInv

LEMMA DeaggregateOneCore ==
    ASSUME SideInv, CoreInv, ~clash, NEW c \in Ctx, NEW d, DeaggregateOne(c, d)
    PROVE  CoreInv'
<1>1. PICK p, F, left, want : /\ p = Buffer(c).pkts[ctx[c].nth + 1] /\ F = format.flags
                              /\ left = FragsLen(ctx[c].rest) /\ want = WireLen(F, p)
  OBVIOUS
<1> DEFINE noType == /\ ~F.v4 /\ V5(F) /\ ~p.cd /\ left < MapLen + 1
                     /\ ctx[c].buf = Len(ChainOf(c))
<1>2. /\ ctx[c].pc = "deaggregate" /\ left >= MapLen /\ <<d>> \in Taken(1)
      /\ UNCHANGED <<format, runt, hollow, clash>>
  BY <1>1 DEF DeaggregateOne
<1>3. \/ /\ noType /\ GotDescriptors(<<d>>) /\ lost' = lost \cup {d}
         /\ StopDeaggregation(c) /\ UNCHANGED desc
      \/ /\ free' = ToTail(free, d) /\ alive' = alive \cup {d}
         /\ pool_size' = (IF d \in alive THEN pool_size ELSE pool_size + 1)
         /\ StopDeaggregation(c) /\ UNCHANGED <<up, desc, lost>>
      \/ /\ want <= left /\ GotDescriptors(<<d>>)
         /\ desc' = [desc EXCEPT ![d] = [Blank EXCEPT !.frags = Ranges(ctx[c].rest, 0, want),
                                                      !.nth = ctx[c].nth + 1]]
         /\ ctx' = [ctx EXCEPT ![c].rest = Pull(@, want), ![c].nth = @ + 1,
                               ![c].list = Append(@, d)]
         /\ UNCHANGED lost
  BY <1>1 DEF DeaggregateOne
<1>4. /\ d \in Desc /\ (d \notin alive \/ d \in Ran(free)) /\ desc[d].frags = <<>>
      /\ SubSeq(free, 2, Len(free)) \in Seq(alive)
      /\ Inj(SubSeq(free, 2, Len(free)))
      /\ Ran(SubSeq(free, 2, Len(free))) = Ran(free) \ {d}
      /\ GotDescriptors(<<d>>) =>
            /\ free' = SubSeq(free, 2, Len(free)) /\ alive' = alive \cup {d}
            /\ pool_size' = (IF d \in alive THEN pool_size ELSE pool_size + 1) /\ up' = up
  BY <1>2, TakeOne
<1>5. PICK A, B : A = alive /\ B = alive \cup {d}
  OBVIOUS
<1>6. A \subseteq B /\ Seq(A) \subseteq Seq(B) /\ d \in B
  <2>1. A \subseteq B /\ d \in B
    BY <1>5
  <2> QED
    BY <2>1, SeqMonotonic
<1>7. CASE /\ noType /\ GotDescriptors(<<d>>) /\ lost' = lost \cup {d}
           /\ StopDeaggregation(c) /\ UNCHANGED desc
  <2>1. runt
    <3>1. PICK x, h, r, k : x = ctx[c] /\ h = hollow /\ r = runt /\ k = x.nth + 1
      OBVIOUS
    <3>2. /\ CtxGood(c, x, F, alive, h, r) /\ F \in Formats
          /\ x.nth \in Nat /\ x.rest \in Seq(Fragments(Pages))
          /\ FragsLen(x.rest) \in Nat /\ Buffer(c) = BufferAt(c, x, F)
          /\ ChainOf(c) = ChainAt(c, x, F)
      BY <1>1, <3>1, Here DEF CoreInv
    <3>3. x.pc = "deaggregate" /\ FragsLen(x.rest) >= MapLen /\ k = x.nth + 1
      BY <1>1, <1>2, <3>1
    <3>4. AtWork(c, x, F, h, r)
      BY <3>2, <3>3 DEF CtxGood
    <3>5. PICK b, ch : b = BufferAt(c, x, F) /\ ch = ChainAt(c, x, F)
      OBVIOUS
    <3>6. /\ k \in 1 .. Len(b.pkts) /\ Start(F, b.pkts, k) \in Nat
          /\ FragsLen(b.frags) = Start(F, b.pkts, k) + FragsLen(x.rest)
      BY ONLY c \in Ctx, <3>2, <3>3, <3>4, <3>5, NextPkt, SMTT(40)
    <3>7. FragsLen(x.rest) = MapLen
      BY <1>1, <1>7, <3>1, <3>2, <3>3, CoalesceAssumption
    <3>8. b = ch[Len(ch)] /\ ~b.pkts[k].cd
      BY <1>1, <1>7, <3>1, <3>2, <3>5 DEF BufferAt
    <3>9. V5(F) /\ ~ch[1].linear
      BY <3>3, <3>4, <3>5 DEF AtWork, PagedAt
    <3>10. FragsLen(b.frags) = Start(F, b.pkts, k) + MapLen
      BY <3>6, <3>7
    <3>11. Runt(F, ch)
      BY <3>6, <3>8, <3>9, <3>10 DEF Runt
    <3>12. r
      BY <3>4, <3>5, <3>11 DEF AtWork
    <3> QED
      BY <3>1, <3>12
  <2>2. PICK q : q = <<"lost", 0>>
    OBVIOUS
  <2>3. q # <<"free", 0>> /\ q \in {<<"free", 0>>, <<"lost", 0>>}
    BY <2>2
  <2>4. free' \in Seq(alive') /\ Inj(free') /\ Ran(free') = Ran(free) \ {d}
    BY <1>4, <1>5, <1>6, <1>7
  <2>5. /\ Ran(free') = (Ran(free) \ {d}) \cup (IF q = <<"free", 0>> THEN {d} ELSE {})
        /\ lost' = lost \cup (IF q = <<"lost", 0>> THEN {d} ELSE {})
    BY <1>7, <2>2, <2>3, <2>4
  <2>6. UNCHANGED <<format, runt, hollow, clash, up, desc>> /\ alive' = alive \cup {d}
        /\ pool_size' = IF d \in alive THEN pool_size ELSE pool_size + 1
    BY <1>2, <1>4, <1>7
  <2> QED
    BY <1>2, <1>4, <1>7, <2>1, <2>3, <2>4, <2>5, <2>6, StopCore
<1>8. CASE /\ free' = ToTail(free, d) /\ alive' = alive \cup {d}
           /\ pool_size' = (IF d \in alive THEN pool_size ELSE pool_size + 1)
           /\ StopDeaggregation(c) /\ UNCHANGED <<up, desc, lost>>
  <2>1. PICK fr : fr = free
    OBVIOUS
  <2>2. fr \in Seq(B) /\ Inj(fr)
    BY <1>5, <1>6, <2>1 DEF CoreInv, TypeInv, OwnInv, ListInv
  <2>3. ToTail(fr, d) \in Seq(B) /\ Inj(ToTail(fr, d)) /\ Ran(ToTail(fr, d)) = Ran(fr) \cup {d}
    BY <1>6, <2>2, ToTailRan
  <2>4. PICK q : q = <<"free", 0>>
    OBVIOUS
  <2>5. q # <<"lost", 0>> /\ q \in {<<"free", 0>>, <<"lost", 0>>}
    BY <2>4
  <2>6. free' \in Seq(alive') /\ Inj(free')
    BY <1>5, <1>8, <2>1, <2>3
  <2>7. /\ Ran(free') = (Ran(free) \ {d}) \cup (IF q = <<"free", 0>> THEN {d} ELSE {})
        /\ lost' = lost \cup (IF q = <<"lost", 0>> THEN {d} ELSE {})
    BY <1>8, <2>1, <2>3, <2>4, <2>5
  <2>8. UNCHANGED <<format, runt, hollow, clash, up, desc>>
    BY <1>2, <1>8
  <2> QED
    BY <1>2, <1>4, <1>8, <2>5, <2>6, <2>7, <2>8, StopCore
<1>9. CASE /\ want <= left /\ GotDescriptors(<<d>>)
           /\ desc' = [desc EXCEPT ![d] = [Blank EXCEPT !.frags = Ranges(ctx[c].rest, 0, want),
                                                        !.nth = ctx[c].nth + 1]]
           /\ ctx' = [ctx EXCEPT ![c].rest = Pull(@, want), ![c].nth = @ + 1,
                                 ![c].list = Append(@, d)]
           /\ UNCHANGED lost
  BY <1>1, <1>2, <1>9, TakeCore
<1> QED
  BY <1>3, <1>7, <1>8, <1>9

-----------------------------------------------------------------------------
(* Delivery.                                                                *)

LEMMA DeliveringIs ==
    ASSUME SideInv, CoreInv, ~clash, NEW c \in Ctx, Delivering(c)
    PROVE  /\ up /\ ctx[c].pc = "deliver" /\ ctx[c].segs # <<>> /\ ctx[c].again = NULL
           /\ AtWork(c, ctx[c], format.flags, hollow, runt)
           /\ ctx[c] \in CtxRec(alive) /\ format.flags \in Formats
           /\ Head(ctx[c].segs) \in Ran(ctx[c].segs) /\ Tail(ctx[c].segs) \in Seq(alive)
           /\ Inj(Tail(ctx[c].segs))
           /\ Ran(Tail(ctx[c].segs)) = Ran(ctx[c].segs) \ {Head(ctx[c].segs)}
           /\ Len(ctx[c].segs) = 1 <=> Tail(ctx[c].segs) = <<>>
           /\ ctx \in [Ctx -> CtxRec(alive)]
<1>1. ctx[c].pc = "deliver"
  BY DEF Delivering
<1>2. /\ ctx[c] \in CtxRec(alive) /\ format.flags \in Formats
      /\ CtxGood(c, ctx[c], format.flags, alive, hollow, runt)
      /\ ctx[c].segs \in Seq(alive)
  BY Here DEF CoreInv
<1>3. /\ ctx[c].segs # <<>> /\ ctx[c].again = NULL
      /\ AtWork(c, ctx[c], format.flags, hollow, runt)
  BY <1>1, <1>2 DEF CtxGood, ListsByPc
<1>4. Inj(ctx[c].segs)
  BY Apart
<1>5. PICK l, A : l = ctx[c].segs /\ A = alive
  OBVIOUS
<1>6. l \in Seq(A) /\ l # <<>> /\ Inj(l)
  BY <1>2, <1>3, <1>4, <1>5
<1>7. /\ Head(l) \in Ran(l) /\ Tail(l) \in Seq(A) /\ Inj(Tail(l)) /\ Len(Tail(l)) = Len(l) - 1
      /\ Ran(Tail(l)) = Ran(l) \ {Head(l)}
  BY <1>6, TailRan
<1>8. Len(l) \in Nat /\ (Len(Tail(l)) = 0 <=> Tail(l) = <<>>)
  BY <1>6, <1>7, EmptySeq
<1>9. Len(l) = 1 <=> Tail(l) = <<>>
  BY <1>7, <1>8
<1>10. up
  BY <1>1, WorkUp DEF CoreInv
<1>11. ctx \in [Ctx -> CtxRec(alive)]
  BY DEF CoreInv, TypeInv
<1> QED
  BY <1>1, <1>2, <1>3, <1>5, <1>7, <1>9, <1>10, <1>11

\* The segment is gone; again is left at a, the descriptor only if the packet was short
LEMMA SegmentCore ==
    ASSUME SideInv, CoreInv, ~clash, NEW c \in Ctx, Delivering(c), NEW d, d = Head(ctx[c].segs),
           free' = ToTail(free, d), desc' = [desc EXCEPT ![d] = Blank],
           UNCHANGED <<pool_size, up, alive>>, UNCHANGED <<format, ghosts, clash>>,
           \/ ctx' = [ctx EXCEPT ![c] = AfterSegment(@)]
           \/ ctx' = [ctx EXCEPT ![c] = [AfterSegment(@) EXCEPT !.again = d, !.pc = "again"]] /\ hollow
    PROVE  CoreInv'
<1>1. PICK x, F, h, r : x = ctx[c] /\ F = format.flags /\ h = hollow /\ r = runt
  OBVIOUS
<1>2. /\ up /\ x.pc = "deliver" /\ x.segs # <<>> /\ x.again = NULL
      /\ AtWork(c, x, F, h, r) /\ x \in CtxRec(alive)
      /\ d \in Ran(x.segs) /\ Tail(x.segs) \in Seq(alive)
      /\ Inj(Tail(x.segs)) /\ Ran(Tail(x.segs)) = Ran(x.segs) \ {d}
      /\ Len(x.segs) = 1 <=> Tail(x.segs) = <<>>
      /\ ctx \in [Ctx -> CtxRec(alive)]
  BY <1>1, DeliveringIs
<1>3. /\ d \in alive /\ Ran(x.list) \cap Ran(x.segs) = {} /\ Inj(x.list)
  BY <1>1, <1>2, Apart
<1>4. PICK y : /\ ctx' = [ctx EXCEPT ![c] = y]
               /\ \/ y = AfterSegment(x)
                  \/ y = [AfterSegment(x) EXCEPT !.again = d, !.pc = "again"] /\ h
  BY <1>1
<1>5. /\ y.chain = x.chain /\ y.buf = x.buf /\ y.nth = x.nth /\ y.rest = x.rest
      /\ y.list = x.list /\ y.segs = Tail(x.segs)
      /\ \/ y.pc = (IF Len(x.segs) = 1 THEN "handle" ELSE "deliver") /\ y.again = x.again
         \/ y.pc = "again" /\ y.again = d /\ h
      /\ y \in CtxRec(alive)
  <2>1. CASE y = AfterSegment(x)
    BY <1>2, <2>1 DEF AfterSegment, CtxRec, Pcs
  <2>2. CASE y = [AfterSegment(x) EXCEPT !.again = d, !.pc = "again"] /\ h
    BY <1>2, <1>3, <2>2 DEF AfterSegment, CtxRec, Pcs
  <2> QED
    BY <1>4, <2>1, <2>2
<1>6. AtWork(c, y, F, h, r)
  <2>1. x.pc # "linear" /\ y.pc \in {"handle", "deliver", "again"}
    BY <1>2, <1>5
  <2> QED
    BY <1>2, <1>5, <2>1, AtWorkSame
<1>7. ListsByPc(y, alive, h)
  BY <1>2, <1>3, <1>5 DEF ListsByPc
<1>8. CtxGood(c, y, format.flags, alive, hollow, runt)
  BY <1>1, <1>6, <1>7 DEF CtxGood
<1>9. UNCHANGED <<format, hollow, runt, clash, lost>>
  BY DEF ghosts
<1>10. /\ d \in Ran(ctx[c].segs) /\ Inj(y.list) /\ Inj(y.segs)
       /\ Ran(y.list) = Ran(ctx[c].list) \ {d} /\ Ran(y.segs) = Ran(ctx[c].segs) \ {d}
       /\ y.chain = ctx[c].chain /\ y.buf = ctx[c].buf
  BY <1>1, <1>2, <1>3, <1>5
<1> QED
  BY <1>2, <1>4, <1>5, <1>8, <1>9, <1>10, RecycleStep

LEMMA DeliverCore ==
    ASSUME SideInv, CoreInv, ~clash, NEW c \in Ctx,
           DeliverNoMem(c) \/ DeliverShort(c) \/ Deliver(c)
    PROVE  CoreInv'
<1>1. PICK d : d = Head(ctx[c].segs)
  OBVIOUS
<1>2. CASE DeliverNoMem(c)
  BY <1>1, <1>2, SegmentCore DEF DeliverNoMem, Recycle
<1>3. CASE Deliver(c)
  <2>1. /\ Delivering(c) /\ free' = ToTail(free, d) /\ desc' = [desc EXCEPT ![d] = Blank]
        /\ ctx' = [ctx EXCEPT ![c] = AfterSegment(@)]
        /\ UNCHANGED <<pool_size, up, alive>> /\ UNCHANGED <<format, ghosts, clash>>
    BY <1>1, <1>3 DEF Deliver
  <2> QED
    BY <1>1, <2>1, SegmentCore
<1>4. CASE DeliverShort(c)
  <2>1. /\ Delivering(c) /\ free' = ToTail(free, d) /\ desc' = [desc EXCEPT ![d] = Blank]
        /\ ctx' = [ctx EXCEPT ![c] = [AfterSegment(@) EXCEPT !.again = d, !.pc = "again"]]
        /\ UNCHANGED <<pool_size, up, alive>> /\ UNCHANGED <<format, ghosts, clash>>
        /\ desc[d].hdr > FragsLen(desc[d].frags)
    BY <1>1, <1>4 DEF DeliverShort, Recycle
  <2>2. d \in Ran(ctx[c].segs)
    BY <1>1, <2>1, DeliveringIs
  <2>3. InSegs(desc[d], hollow) /\ desc[d] \in DescRec
    BY <2>2, OnSegs
  <2>4. desc[d].hdr \in Nat /\ FragsLen(desc[d].frags) \in Nat
    BY <2>3, FragsFacts DEF DescRec
  <2>5. hollow
    BY <2>1, <2>3, <2>4 DEF InSegs
  <2> QED
    BY <1>1, <2>1, <2>5, SegmentCore
<1> QED
  BY <1>2, <1>3, <1>4

-----------------------------------------------------------------------------
(* The second recycling, and the pool itself.                               *)

LEMMA RecycleAgainCore ==
    ASSUME SideInv, CoreInv, ~clash, NEW c \in Ctx, RecycleAgain(c)
    PROVE  CoreInv'
<1>1. PICK x, F, h, r, d, A : /\ x = ctx[c] /\ F = format.flags /\ h = hollow /\ r = runt
                              /\ d = ctx[c].again /\ A = alive
  OBVIOUS
<1>2. /\ x.pc = "again" /\ free' = ToTail(free, d) /\ desc' = [desc EXCEPT ![d] = Blank]
      /\ clash' = (\A i \in 1 .. Len(free) : free[i] # d)
      /\ ctx' = [ctx EXCEPT ![c].again = NULL,
                            ![c].pc = IF ctx[c].segs = <<>> THEN "handle" ELSE "deliver"]
      /\ UNCHANGED <<pool_size, up, alive>> /\ UNCHANGED <<format, hollow, runt, lost>>
  BY <1>1 DEF RecycleAgain, Recycle, ghosts
<1>3. /\ x \in CtxRec(A) /\ CtxGood(c, x, F, A, h, r) /\ ctx \in [Ctx -> CtxRec(A)]
  BY <1>1, Here DEF CoreInv, TypeInv
<1>4. AtWork(c, x, F, h, r) /\ d \in A /\ h
  BY <1>1, <1>2, <1>3 DEF CtxGood, ListsByPc
<1>5. up
  BY <1>1, <1>2, WorkUp DEF CoreInv
<1> DEFINE y == [x EXCEPT !.again = NULL, !.pc = IF x.segs = <<>> THEN "handle" ELSE "deliver"]
<1>6. ctx' = [ctx EXCEPT ![c] = y]
  BY <1>1, <1>2, <1>3 DEF CtxRec
<1>7. /\ y.chain = x.chain /\ y.buf = x.buf /\ y.nth = x.nth /\ y.rest = x.rest
      /\ y.list = x.list /\ y.segs = x.segs /\ y.again = NULL
      /\ y.pc = (IF x.segs = <<>> THEN "handle" ELSE "deliver")
      /\ y \in CtxRec(A)
  BY <1>3 DEF CtxRec, Pcs
<1> HIDE DEF y
<1>8. AtWork(c, y, F, h, r)
  <2>1. x.pc # "linear" /\ y.pc \in {"handle", "deliver", "again"}
    BY <1>2, <1>7
  <2> QED
    <3>1. y.chain = x.chain /\ y.buf = x.buf /\ y.nth = x.nth
      BY ONLY <1>7
    <3>2. AtWork(c, x, F, h, r)
      BY ONLY <1>4
    <3> QED
      BY ONLY <2>1, <3>1, <3>2, AtWorkSame
<1>9. CtxGood(c, y, format.flags, alive, hollow, runt)
  BY <1>1, <1>7, <1>8 DEF CtxGood, ListsByPc
<1>10. /\ Ran(free) \cap Ran(ctx[c].list) = {} /\ Ran(free) \cap Ran(ctx[c].segs) = {}
       /\ Inj(ctx[c].list) /\ Inj(ctx[c].segs) /\ Inj(free)
  BY Apart
<1>11. CASE d \in Ran(free)
  <2>1. clash' = FALSE /\ clash = FALSE
    BY <1>2, <1>11 DEF Ran, SideInv
  <2>2. /\ Inj(y.list) /\ Inj(y.segs)
        /\ Ran(y.list) = Ran(ctx[c].list) \ {d} /\ Ran(y.segs) = Ran(ctx[c].segs) \ {d}
        /\ y.chain = ctx[c].chain /\ y.buf = ctx[c].buf /\ y \in CtxRec(alive)
    BY <1>1, <1>7, <1>10, <1>11
  <2>3. UNCHANGED <<format, hollow, runt, clash, lost>>
    BY <1>2, <2>1
  <2> QED
    BY <1>2, <1>5, <1>6, <1>9, <1>11, <2>2, <2>3, RecycleStep
<1>12. CASE d \notin Ran(free)
  <2>1. clash'
    BY <1>2, <1>12 DEF Ran
  <2>2. CtxInv' /\ ctx' \in [Ctx -> CtxRec(alive')]
    <3>1. /\ TypeInv /\ CtxInv /\ y \in CtxRec(alive') /\ alive \subseteq alive'
          /\ CtxGood(c, y, format.flags, alive', hollow', runt')
          /\ format' = format /\ (hollow => hollow') /\ (runt => runt')
      BY <1>1, <1>2, <1>7, <1>9 DEF CoreInv
    <3> QED
      BY <1>6, <3>1, CtxStep
  <2>3. free' \in Seq(alive')
    <3>1. PICK fr : fr = free
      OBVIOUS
    <3>2. fr \in Seq(A) /\ d \in A
      BY <1>1, <1>4, <3>1 DEF CoreInv, TypeInv
    <3>3. ToTail(fr, d) \in Seq(A)
      BY <3>2, ToTailRan
    <3> QED
      BY <1>1, <1>2, <3>1, <3>3
  <2>4. desc' \in [Desc -> DescRec]
    BY <1>2, BlankRec DEF CoreInv, TypeInv
  <2>5. TypeInv'
    BY <1>2, <2>2, <2>3, <2>4 DEF CoreInv, TypeInv
  <2>6. PoolInv'
    BY <1>1, <1>2, <1>4, <1>5 DEF CoreInv, PoolInv
  <2>7. OwnInv'
    BY <2>1 DEF OwnInv
  <2> QED
    BY <2>2, <2>5, <2>6, <2>7 DEF CoreInv
<1> QED
  BY <1>11, <1>12

\* Contexts that are idle hold nothing
LEMMA IdleIs ==
    ASSUME CoreInv, \A c \in Ctx : ctx[c].pc = "idle"
    PROVE  /\ \A c \in Ctx : ctx[c].list = <<>> /\ ctx[c].segs = <<>>
           /\ \A B : ctx \in [Ctx -> CtxRec(B)]
           /\ \A F, B, h, r : \A c \in Ctx : CtxGood(c, ctx[c], F, B, h, r)
<1>1. ASSUME NEW c \in Ctx
      PROVE  ctx[c].list = <<>> /\ ctx[c].segs = <<>> /\ ctx[c].again = NULL
  <2>1. ctx[c].pc = "idle" /\ CtxGood(c, ctx[c], format.flags, alive, hollow, runt)
    BY DEF CoreInv, CtxInv
  <2> QED
    BY <2>1 DEF CtxGood, ListsByPc
<1>2. ASSUME NEW B PROVE ctx \in [Ctx -> CtxRec(B)]
  <2>1. ASSUME NEW c \in Ctx PROVE ctx[c] \in CtxRec(B)
    <3>1. ctx[c] \in CtxRec(alive)
      BY DEF CoreInv, TypeInv
    <3>2. <<>> \in Seq(B)
      OBVIOUS
    <3> QED
      BY <1>1, <3>1, <3>2 DEF CtxRec
  <2> QED
    BY <2>1 DEF CoreInv, TypeInv
<1>3. ASSUME NEW F, NEW B, NEW h, NEW r, NEW c \in Ctx PROVE CtxGood(c, ctx[c], F, B, h, r)
  <2>1. ctx[c].pc = "idle"
    OBVIOUS
  <2> QED
    BY <1>1, <2>1 DEF CtxGood, ListsByPc
<1> QED
  BY <1>1, <1>2, <1>3

\* With idle contexts a descriptor is on the free list or lost
LEMMA IdleOwn ==
    ASSUME NEW fr, NEW lo, NEW cx, \A c \in Ctx : cx[c].list = <<>> /\ cx[c].segs = <<>>, NEW A
    PROVE  OwnOf(PlacesOf(fr, lo, cx), A) <=>
              Ran(fr) \cup lo = A /\ Ran(fr) \cap lo = {}
<1> DEFINE P == PlacesOf(fr, lo, cx)
<1>1. P[<<"free", 0>>] = Ran(fr) /\ P[<<"lost", 0>>] = lo
  BY PlacesAre
<1>2. ASSUME NEW c \in Ctx PROVE P[<<"list", c>>] = {} /\ P[<<"segs", c>>] = {}
  BY PlacesAre, EmptyRan
<1> HIDE DEF P
<1>3. <<"free", 0>> # <<"lost", 0>> /\ <<"free", 0>> \in Places /\ <<"lost", 0>> \in Places
  BY PlaceNames
<1>4. \A p \in Places : p = <<"free", 0>> \/ p = <<"lost", 0>> \/ P[p] = {}
  BY <1>2, PlaceNames
<1>5. ASSUME OwnOf(P, A) PROVE Ran(fr) \cup lo = A /\ Ran(fr) \cap lo = {}
  <2>1. Ran(fr) \subseteq A /\ lo \subseteq A
    BY <1>1, <1>3, <1>5 DEF OwnOf
  <2>2. ASSUME NEW d \in A PROVE (d \in Ran(fr) \/ d \in lo) /\ ~(d \in Ran(fr) /\ d \in lo)
    <3>1. PICK x \in Places : \A y \in Places : d \in P[y] <=> y = x
      BY <1>5 DEF OwnOf
    <3>2. d \in P[x]
      BY <3>1
    <3>3. x = <<"free", 0>> \/ x = <<"lost", 0>>
      BY <1>4, <3>2
    <3> QED
      BY <1>1, <1>3, <3>1, <3>2, <3>3
  <2> QED
    BY <2>1, <2>2
<1>6. ASSUME Ran(fr) \cup lo = A, Ran(fr) \cap lo = {} PROVE OwnOf(P, A)
  <2>1. \A x \in Places : P[x] \subseteq A
    BY <1>1, <1>4, <1>6
  <2>2. ASSUME NEW d \in A PROVE \E x \in Places : \A y \in Places : d \in P[y] <=> y = x
    <3>1. CASE d \in Ran(fr)
      <4>1. \A y \in Places : d \in P[y] <=> y = <<"free", 0>>
        BY <1>1, <1>4, <1>6, <3>1
      <4> QED
        BY <1>3, <4>1
    <3>2. CASE d \in lo
      <4>1. \A y \in Places : d \in P[y] <=> y = <<"lost", 0>>
        BY <1>1, <1>4, <1>6, <3>2
      <4> QED
        BY <1>3, <4>1
    <3> QED
      BY <1>6, <3>1, <3>2
  <2> QED
    BY <2>1, <2>2 DEF OwnOf
<1> QED
  BY <1>5, <1>6 DEF P

\* The invariant when all descriptors are blank and the contexts idle
OwnGood(fr, lo, cx, ds, A, F, h) ==
    /\ OwnOf(PlacesOf(fr, lo, cx), A)
    /\ Inj(fr) /\ \A c \in Ctx : Inj(cx[c].list) /\ Inj(cx[c].segs)
    /\ \A d \in Desc \ A : ds[d].frags = <<>>
    /\ \A x \in Places : \A d \in PlacesOf(fr, lo, cx)[x] : Holds(x, ds[d], cx, F, h)

LEMMA IdleHolds ==
    ASSUME NEW fr, NEW lo, NEW cx, NEW ds, NEW A, NEW F, NEW h,
           \A c \in Ctx : cx[c].list = <<>> /\ cx[c].segs = <<>>,
           \A d \in Desc : ds[d].frags = <<>>, A \subseteq Desc, Inj(fr),
           Ran(fr) \cup lo = A, Ran(fr) \cap lo = {}
    PROVE  OwnGood(fr, lo, cx, ds, A, F, h)
<1>1. OwnOf(PlacesOf(fr, lo, cx), A)
  BY IdleOwn
<1>2. \A c \in Ctx : Inj(cx[c].list) /\ Inj(cx[c].segs)
  BY EmptyRan
<1>3. ASSUME NEW x \in Places, NEW d \in PlacesOf(fr, lo, cx)[x]
      PROVE  Holds(x, ds[d], cx, F, h)
  <2>1. d \in Desc
    BY <1>1 DEF OwnOf
  <2>2. x = <<"free", 0>> \/ x = <<"lost", 0>>
    <3>1. ASSUME NEW c \in Ctx, x = <<"list", c>> \/ x = <<"segs", c>> PROVE FALSE
      <4>1. PlacesOf(fr, lo, cx)[<<"list", c>>] = Ran(cx[c].list)
            /\ PlacesOf(fr, lo, cx)[<<"segs", c>>] = Ran(cx[c].segs)
        BY PlacesAre
      <4> QED
        BY <1>3, <3>1, <4>1, EmptyRan
    <3> QED
      BY <3>1, PlaceNames
  <2>3. x[1] \in {"free", "lost"}
    BY <2>2
  <2> QED
    BY <2>1, <2>3 DEF Holds
<1> QED
  BY <1>1, <1>2, <1>3 DEF OwnGood

-----------------------------------------------------------------------------
(* The pool is made and freed while all contexts are idle.                  *)

\* A step of the pool, which finds and leaves all contexts idle
LEMMA IdleStep ==
    ASSUME CoreInv, ~clash, \A c \in Ctx : ctx[c].pc = "idle",
           UNCHANGED <<format, desc, ctx, runt, hollow, clash>>,
           \A d \in Desc : desc[d].frags = <<>>,
           free' \in Seq(alive'), Inj(free'), alive' \subseteq Desc, lost' \subseteq alive',
           Ran(free') \cup lost' = alive', Ran(free') \cap lost' = {},
           pool_size' = Cardinality(alive'), lost' \subseteq lost,
           ~up' => free' = <<>>
    PROVE  CoreInv'
<1>1. /\ \A c \in Ctx : ctx[c].list = <<>> /\ ctx[c].segs = <<>>
      /\ \A B : ctx \in [Ctx -> CtxRec(B)]
      /\ \A F, B, h, r : \A c \in Ctx : CtxGood(c, ctx[c], F, B, h, r)
  BY IdleIs
<1>2. TypeInv'
  <2>1. ctx' \in [Ctx -> CtxRec(alive')]
    <3>1. PICK B : B = alive'
      OBVIOUS
    <3>2. ctx \in [Ctx -> CtxRec(B)]
      BY <1>1
    <3> QED
      BY <3>1, <3>2
  <2>2. desc' \in [Desc -> DescRec]
    BY DEF CoreInv, TypeInv
  <2> QED
    BY <2>1, <2>2 DEF TypeInv
<1>3. PoolInv'
  <2>1. ~runt' => lost' = {}
    BY DEF CoreInv, PoolInv
  <2>2. ~up' => alive' = lost'
    BY EmptyRan
  <2>3. \A c \in Ctx : ctx'[c].pc = "idle"
    OBVIOUS
  <2>4. ~clash'
    OBVIOUS
  <2> QED
    BY <2>1, <2>2, <2>3, <2>4 DEF PoolInv
<1>4. CtxInv'
  <2>1. PICK B, h, r, F : B = alive' /\ h = hollow' /\ r = runt' /\ F = format'.flags
    OBVIOUS
  <2>2. \A c \in Ctx : CtxGood(c, ctx[c], F, B, h, r)
    BY <1>1
  <2>3. \A c \in Ctx : CtxGood(c, ctx'[c], format'.flags, alive', hollow', runt')
    BY <2>1, <2>2
  <2> QED
    BY <2>3 DEF CtxInv
<1>5. OwnInv'
  <2>1. PICK fr, lo, cx, ds, A, F, h : /\ fr = free' /\ lo = lost' /\ cx = ctx' /\ ds = desc'
                                       /\ A = alive' /\ F = format'.flags /\ h = hollow'
    OBVIOUS
  <2>2. /\ \A c \in Ctx : cx[c].list = <<>> /\ cx[c].segs = <<>>
        /\ \A d \in Desc : ds[d].frags = <<>>
        /\ A \subseteq Desc /\ Inj(fr) /\ Ran(fr) \cup lo = A /\ Ran(fr) \cap lo = {}
    BY <1>1, <2>1
  <2>3. OwnGood(fr, lo, cx, ds, A, F, h)
    BY ONLY <2>2, IdleHolds
  <2> QED
    BY <2>1, <2>3 DEF OwnGood, OwnInv, ListInv, HoldInv
<1> QED
  BY <1>2, <1>3, <1>4, <1>5 DEF CoreInv

LEMMA IdleBlank ==
    ASSUME CoreInv, ~clash, \A c \in Ctx : ctx[c].pc = "idle"
    PROVE  /\ \A d \in Desc : desc[d].frags = <<>>
           /\ Ran(free) \cup lost = alive /\ Ran(free) \cap lost = {}
<1>1. PICK fr, lo, cx, A : fr = free /\ lo = lost /\ cx = ctx /\ A = alive
  OBVIOUS
<1>2. /\ \A c \in Ctx : cx[c].list = <<>> /\ cx[c].segs = <<>>
      /\ OwnOf(PlacesOf(fr, lo, cx), A)
  BY <1>1, IdleIs DEF CoreInv, OwnInv
<1>3. Ran(fr) \cup lo = A /\ Ran(fr) \cap lo = {}
  BY ONLY <1>2, IdleOwn
<1>4. ASSUME NEW d \in Desc PROVE desc[d].frags = <<>>
  <2>1. CASE d \notin alive \/ d \in Ran(free)
    BY <2>1, FreeBlank
  <2>2. CASE d \in lost
    <3>1. PlacesOf(free, lost, ctx)[<<"lost", 0>>] = lost /\ <<"lost", 0>> \in Places
      BY PlacesAre, PlaceNames
    <3>2. Holds(<<"lost", 0>>, desc[d], ctx, format.flags, hollow)
      BY <2>2, <3>1 DEF CoreInv, OwnInv, HoldInv
    <3>3. <<"lost", 0>>[1] \in {"free", "lost"}
      OBVIOUS
    <3> QED
      BY <3>2, <3>3 DEF Holds
  <2> QED
    BY <1>1, <1>3, <2>1, <2>2
<1> QED
  BY <1>1, <1>3, <1>4

LEMMA DescriptorDeinitCore ==
    ASSUME SideInv, CoreInv, ~clash, DescriptorDeinit
    PROVE  CoreInv'
<1>1. /\ \A c \in Ctx : ctx[c].pc = "idle"
      /\ alive' = alive \ Ran(free) /\ pool_size' = pool_size - Len(free) /\ free' = <<>>
      /\ UNCHANGED <<format, desc, ctx, lost, runt, hollow, clash>>
  BY DEF DescriptorDeinit, ghosts, Ran
<1>2. /\ \A d \in Desc : desc[d].frags = <<>>
      /\ Ran(free) \cup lost = alive /\ Ran(free) \cap lost = {}
  BY <1>1, IdleBlank
<1>3. alive' = lost /\ lost' = lost /\ alive' \subseteq Desc
  BY <1>1, <1>2 DEF CoreInv, TypeInv
<1>4. pool_size' = Cardinality(alive')
  <2>1. PICK fr, A : fr = free /\ A = alive
    OBVIOUS
  <2>2. fr \in Seq(A) /\ Inj(fr) /\ IsFiniteSet(A) /\ pool_size = Cardinality(A)
    <3>1. Inj(free) /\ free \in Seq(alive) /\ alive \subseteq Desc /\ pool_size = Cardinality(alive)
      BY DEF CoreInv, OwnInv, ListInv, TypeInv, PoolInv
    <3>2. IsFiniteSet(alive)
      BY <3>1, IngressAssumption, FS_Subset
    <3> QED
      BY <2>1, <3>1, <3>2
  <2>3. IsFiniteSet(Ran(fr)) /\ Cardinality(Ran(fr)) = Len(fr) /\ Ran(fr) \subseteq A
    BY <2>2, CardRan, RanIn
  <2>4. A \cap Ran(fr) = Ran(fr)
    BY <2>3
  <2>5. Cardinality(A \ Ran(fr)) = Cardinality(A) - Cardinality(A \cap Ran(fr))
    BY <2>2, FS_Difference
  <2> QED
    BY <1>1, <2>1, <2>2, <2>3, <2>4, <2>5
<1>5. /\ free' \in Seq(alive') /\ Inj(free') /\ Ran(free') = {}
  BY <1>1, EmptyRan
<1>6. /\ lost' \subseteq alive' /\ Ran(free') \cup lost' = alive' /\ Ran(free') \cap lost' = {}
      /\ lost' \subseteq lost /\ (~up' => free' = <<>>)
  BY <1>1, <1>3, <1>5
<1> QED
  BY <1>1, <1>2, <1>3, <1>4, <1>5, <1>6, IdleStep

LEMMA NewPool ==
    ASSUME NEW D, D \in {E \in SUBSET Desc : Cardinality(E) = PoolSize}, NEW q \in Orders(D)
    PROVE  /\ q \in Seq(D) /\ Inj(q) /\ Ran(q) = D /\ D \subseteq Desc /\ IsFiniteSet(D)
           /\ PoolSize = Cardinality(D)
<1>1. D \subseteq Desc /\ PoolSize = Cardinality(D)
  OBVIOUS
<1>2. IsFiniteSet(D)
  BY <1>1, IngressAssumption, FS_Subset
<1> QED
  BY <1>1, <1>2, OrderIs

LEMMA DescriptorInitCore ==
    ASSUME SideInv, CoreInv, ~clash, DescriptorInit
    PROVE  CoreInv'
<1>1. /\ ~up /\ up' /\ alive' \in {D \in SUBSET Desc : Cardinality(D) = PoolSize}
      /\ free' \in Orders(alive') /\ pool_size' = PoolSize /\ lost' = {}
      /\ UNCHANGED <<format, desc, ctx, runt, hollow, clash>>
  BY DEF DescriptorInit
<1>2. \A c \in Ctx : ctx[c].pc = "idle"
  BY <1>1 DEF CoreInv, PoolInv
<1>3. \A d \in Desc : desc[d].frags = <<>>
  BY <1>2, IdleBlank
<1>4. PICK D, q : D = alive' /\ q = free'
  OBVIOUS
<1>5. q \in Seq(D) /\ Inj(q) /\ Ran(q) = D /\ D \subseteq Desc /\ PoolSize = Cardinality(D)
  BY <1>1, <1>4, NewPool
<1>6. /\ free' \in Seq(alive') /\ Inj(free') /\ alive' \subseteq Desc /\ lost' \subseteq alive'
      /\ Ran(free') \cup lost' = alive' /\ Ran(free') \cap lost' = {}
      /\ pool_size' = Cardinality(alive') /\ lost' \subseteq lost /\ (~up' => free' = <<>>)
  BY <1>1, <1>4, <1>5
<1> QED
  BY <1>1, <1>2, <1>3, <1>6, IdleStep

LEMMA InitCore ==
    ASSUME Init
    PROVE  CoreInv /\ SideInv
<1>1. /\ alive \in {D \in SUBSET Desc : Cardinality(D) = PoolSize}
      /\ free \in Orders(alive) /\ pool_size = PoolSize /\ up = TRUE
      /\ desc = [d \in Desc |-> Blank] /\ ctx = [c \in Ctx |-> Idle]
      /\ stopped = {} /\ mark = NULL
      /\ lost = {} /\ runt = FALSE /\ hollow = FALSE /\ clash = FALSE
      /\ format \in [flags : Formats, features : Features]
  BY DEF Init
<1>2. PICK D, q : D = alive /\ q = free
  OBVIOUS
<1>3. q \in Seq(D) /\ Inj(q) /\ Ran(q) = D /\ D \subseteq Desc /\ PoolSize = Cardinality(D)
  BY <1>1, <1>2, NewPool
<1>4. \A B : Idle \in CtxRec(B)
  <2>1. \A B : <<>> \in Seq(B)
    OBVIOUS
  <2> QED
    BY <2>1 DEF Idle, CtxRec, Pcs
<1>5. /\ Idle.pc = "idle" /\ Idle.list = <<>> /\ Idle.segs = <<>> /\ Idle.again = NULL
  BY DEF Idle
<1>6. SideInv
  BY <1>1 DEF SideInv
<1>7. TypeInv
  <2>1. desc \in [Desc -> DescRec]
    BY <1>1, BlankRec
  <2>2. ctx \in [Ctx -> CtxRec(alive)]
    BY <1>1, <1>4
  <2> QED
    BY <1>1, <1>2, <1>3, <2>1, <2>2 DEF TypeInv
<1>8. PoolInv
  BY <1>1, <1>2, <1>3 DEF PoolInv
<1>9. CtxInv
  <2>1. \A c \in Ctx : ctx[c] = Idle
    BY <1>1
  <2> QED
    BY <1>5, <2>1 DEF CtxInv, CtxGood, ListsByPc
<1>10. OwnInv
  <2>1. PICK fr, lo, cx, ds, A, F, h : /\ fr = free /\ lo = lost /\ cx = ctx /\ ds = desc
                                       /\ A = alive /\ F = format.flags /\ h = hollow
    OBVIOUS
  <2>2. /\ \A c \in Ctx : cx[c].list = <<>> /\ cx[c].segs = <<>>
        /\ \A d \in Desc : ds[d].frags = <<>>
        /\ A \subseteq Desc /\ Inj(fr) /\ Ran(fr) \cup lo = A /\ Ran(fr) \cap lo = {}
    BY <1>1, <1>2, <1>3, <1>5, <2>1, BlankRec
  <2>3. OwnGood(fr, lo, cx, ds, A, F, h)
    BY ONLY <2>2, IdleHolds
  <2> QED
    BY <2>1, <2>3 DEF OwnGood, OwnInv, ListInv, HoldInv
<1> QED
  BY <1>6, <1>7, <1>8, <1>9, <1>10 DEF CoreInv

-----------------------------------------------------------------------------
(* The uses of pages.                                                       *)

Lists(lists) == Len(lists) \in Nat /\ \A i \in 1 .. Len(lists) : Len(lists[i]) \in Nat

\* The fragments of one list in a page
InPage(frags, g) == {k \in 1 .. Len(frags) : frags[k].page = g}

LEMMA UsesAre ==
    ASSUME NEW lists, NEW g
    PROVE  \A u : u \in PageUses(lists, g) <=>
              \E i \in 1 .. Len(lists) : \E j \in InPage(lists[i], g) : u = <<i, j>>
BY DEF PageUses, InPage

LEMMA NoneInPage ==
    ASSUME NEW g
    PROVE  InPage(<<>>, g) = {}
BY EmptyRan DEF InPage

\* x and every element of U, as a pair
Tag(x, U) == {<<x, u>> : u \in U}

LEMMA TagFinite ==
    ASSUME NEW x, NEW U, IsFiniteSet(U)
    PROVE  IsFiniteSet(Tag(x, U)) /\ Cardinality(Tag(x, U)) = Cardinality(U)
<1> DEFINE f == [u \in U |-> <<x, u>>]
<1>1. f \in Bijection(U, Tag(x, U))
  BY DEF Bijection, Injection, Surjection, IsInjective, Tag
<1>2. ExistsBijection(U, Tag(x, U))
  BY <1>1 DEF ExistsBijection
<1> QED
  BY <1>2, FS_Bijection

LEMMA InPageFinite ==
    ASSUME NEW frags, Len(frags) \in Nat, NEW g
    PROVE  IsFiniteSet(InPage(frags, g))
<1>1. InPage(frags, g) \subseteq 1 .. Len(frags)
  BY DEF InPage
<1>2. IsFiniteSet(1 .. Len(frags))
  <2>1. PICK n : n = Len(frags)
    OBVIOUS
  <2>2. 1 \in Int /\ n \in Int
    BY <2>1
  <2> QED
    BY <2>1, <2>2, FS_Interval
<1> QED
  BY <1>1, <1>2, FS_Subset

LEMMA UsesFinite ==
    ASSUME NEW lists, Lists(lists), NEW g
    PROVE  /\ IsFiniteSet(PageUses(lists, g)) /\ PageSum(lists, g) \in Nat
           /\ PageSum(lists, g) = Cardinality(PageUses(lists, g))
<1> DEFINE n == Len(lists)
           All == {Tag(i, InPage(lists[i], g)) : i \in 1 .. n}
<1>1. n \in Nat /\ \A i \in 1 .. n : Len(lists[i]) \in Nat
  BY DEF Lists
<1>2. IsFiniteSet(All)
  <2>1. IsFiniteSet(1 .. n)
    <3>1. 1 \in Int /\ n \in Int
      BY <1>1
    <3> QED
      BY <3>1, FS_Interval
  <2> DEFINE f == [i \in 1 .. n |-> Tag(i, InPage(lists[i], g))]
  <2>2. f \in Surjection(1 .. n, All)
    BY DEF Surjection
  <2> QED
    BY <2>1, <2>2, FS_Surjection
<1>3. \A T \in All : IsFiniteSet(T)
  BY <1>1, InPageFinite, TagFinite
<1>4. IsFiniteSet(UNION All)
  BY <1>2, <1>3, FS_UNION
<1>5. PageUses(lists, g) = UNION All
  BY DEF PageUses, Tag, InPage
<1> QED
  BY <1>4, <1>5, FS_CardinalityType DEF PageSum

\* One list
LEMMA OneUse ==
    ASSUME NEW frags, Len(frags) \in Nat, NEW g
    PROVE  /\ Lists(<<frags>>) /\ PageSum(<<frags>>, g) \in Nat
           /\ PageUses(<<frags>>, g) = Tag(1, InPage(frags, g))
           /\ PageSum(<<frags>>, g) = Cardinality(InPage(frags, g))
           /\ IsFiniteSet(InPage(frags, g))
<1>1. Len(<<frags>>) = 1 /\ <<frags>>[1] = frags
  OBVIOUS
<1>2. PICK l : l = <<frags>>
  OBVIOUS
<1>3. PageUses(l, g) = Tag(1, InPage(frags, g))
  BY <1>1, <1>2, UsesAre DEF Tag
<1>4. IsFiniteSet(InPage(frags, g))
  BY InPageFinite
<1>5. Lists(l)
  BY <1>1, <1>2 DEF Lists
<1>6. PageSum(l, g) \in Nat
  BY <1>5, UsesFinite
<1> QED
  BY <1>2, <1>3, <1>4, <1>5, <1>6, TagFinite DEF PageSum

LEMMA NoUse ==
    ASSUME NEW g
    PROVE  /\ Lists(<<>>) /\ PageUses(<<>>, g) = {} /\ PageSum(<<>>, g) = 0
           /\ PageSum(<< <<>> >>, g) = 0
<1>1. Len(<<>>) = 0
  OBVIOUS
<1>2. PICK l : l = <<>>
  OBVIOUS
<1>3. Lists(l) /\ PageUses(l, g) = {}
  BY <1>1, <1>2, UsesAre DEF Lists
<1>4. Len(l) \in Nat /\ InPage(l, g) = {}
  BY <1>1, <1>2, NoneInPage
<1>5. PageSum(<<l>>, g) = Cardinality(InPage(l, g))
  BY <1>4, OneUse
<1> QED
  BY <1>2, <1>3, <1>4, <1>5, FS_EmptySet DEF PageSum

LEMMA Disjoint ==
    ASSUME NEW A, NEW B, IsFiniteSet(A), IsFiniteSet(B), A \cap B = {}
    PROVE  /\ IsFiniteSet(A \cup B) /\ Cardinality(A \cup B) = Cardinality(A) + Cardinality(B)
           /\ Cardinality(A) \in Nat /\ Cardinality(B) \in Nat
<1>1. Cardinality(A) \in Nat /\ Cardinality(B) \in Nat
  BY FS_CardinalityType
<1>2. IsFiniteSet(A \cup B) /\ Cardinality(A \cup B) = Cardinality(A) + Cardinality(B) - Cardinality(A \cap B)
  BY FS_Union
<1>3. Cardinality(A \cap B) = 0
  BY FS_EmptySet
<1> QED
  BY <1>1, <1>2, <1>3

\* The lists of M are those of L, with frags in place k where L has none
LEMMA OneMore ==
    ASSUME NEW L, NEW M, Lists(M), NEW k \in 1 .. Len(M), NEW g,
           \A u : u \in PageUses(L, g) <=>
               \E i \in (1 .. Len(M)) \ {k} : \E j \in InPage(M[i], g) : u = <<i, j>>
    PROVE  /\ PageSum(M, g) = PageSum(L, g) + PageSum(<<M[k]>>, g)
           /\ PageSum(L, g) \in Nat
<1>1. IsFiniteSet(PageUses(M, g)) /\ Len(M[k]) \in Nat
  BY UsesFinite DEF Lists
<1>2. PageUses(M, g) = PageUses(L, g) \cup Tag(k, InPage(M[k], g))
  BY UsesAre DEF Tag
<1>3. PageUses(L, g) \cap Tag(k, InPage(M[k], g)) = {}
  BY DEF Tag
<1>4. IsFiniteSet(PageUses(L, g)) /\ IsFiniteSet(Tag(k, InPage(M[k], g)))
  BY <1>1, <1>2, FS_Subset
<1>5. Cardinality(Tag(k, InPage(M[k], g))) = PageSum(<<M[k]>>, g)
  BY <1>1, OneUse, TagFinite
<1> QED
  BY <1>2, <1>3, <1>4, <1>5, Disjoint DEF PageSum

\* What is left of a chain from buffer b on
From(chain, b) == [i \in 1 .. Len(chain) |-> IF i < b THEN <<>> ELSE chain[i].frags]

LEMMA FromFirst ==
    ASSUME NEW chain, Len(chain) \in Nat
    PROVE  From(chain, 1) = FragsOf(chain)
<1>1. \A i \in 1 .. Len(chain) : ~(i < 1)
  OBVIOUS
<1> QED
  BY <1>1 DEF From, FragsOf

LEMMA FromNext ==
    ASSUME NEW chain, Len(chain) \in Nat, \A i \in 1 .. Len(chain) : Len(chain[i].frags) \in Nat,
           NEW b \in 1 .. Len(chain), NEW d, d = b + 1, NEW g
    PROVE  /\ PageSum(From(chain, b), g) = PageSum(From(chain, d), g) + PageSum(<<chain[b].frags>>, g)
           /\ PageSum(From(chain, d), g) \in Nat
<1> DEFINE M == From(chain, b)
           L == From(chain, d)
           n == Len(chain)
<1>1. Len(M) = n /\ Len(L) = n
  BY DEF From
<1>2. \A i \in 1 .. n : /\ M[i] = IF i < b THEN <<>> ELSE chain[i].frags
                        /\ L[i] = IF i < d THEN <<>> ELSE chain[i].frags
  BY DEF From
<1> HIDE DEF M, L
<1>3. Lists(M)
  <2>1. Len(<<>>) = 0
    OBVIOUS
  <2> QED
    BY <1>1, <1>2, <2>1 DEF Lists
<1>4. M[b] = chain[b].frags /\ L[b] = <<>> /\ \A i \in (1 .. n) \ {b} : L[i] = M[i]
  BY <1>2
<1>5. \A u : u \in PageUses(L, g) <=>
               \E i \in (1 .. Len(M)) \ {b} : \E j \in InPage(M[i], g) : u = <<i, j>>
  BY <1>1, <1>4, UsesAre, NoneInPage
<1>6. b \in 1 .. Len(M)
  BY <1>1
<1>7. PageSum(M, g) = PageSum(L, g) + PageSum(<<M[b]>>, g) /\ PageSum(L, g) \in Nat
  BY <1>3, <1>5, <1>6, OneMore
<1> QED
  BY <1>4, <1>7 DEF M, L

LEMMA FromEnd ==
    ASSUME NEW chain, Len(chain) \in Nat, NEW b \in Nat, b > Len(chain), NEW g
    PROVE  PageSum(From(chain, b), g) = 0
<1>1. \A i \in 1 .. Len(chain) : From(chain, b)[i] = <<>>
  BY DEF From
<1>2. Len(From(chain, b)) = Len(chain)
  BY DEF From
<1>3. PageUses(From(chain, b), g) = {}
  BY <1>1, <1>2, UsesAre, NoneInPage
<1> QED
  BY <1>3, FS_EmptySet DEF PageSum

\* The list of the stack, with one more packet
LEMMA HeldAppend ==
    ASSUME NEW s, IsSeq(s), NEW e, Len(e.held) \in Nat, Lists(HeldBy(s)), NEW g
    PROVE  /\ IsSeq(Append(s, e)) /\ Lists(HeldBy(Append(s, e)))
           /\ PageSum(HeldBy(Append(s, e)), g) = PageSum(HeldBy(s), g) + PageSum(<<e.held>>, g)
           /\ PageSum(HeldBy(s), g) \in Nat
<1> DEFINE n == Len(s)
           t == Append(s, e)
           M == HeldBy(t)
           L == HeldBy(s)
<1>1. n \in Nat /\ s \in Seq(Ran(s) \cup {e})
  BY RanSeq DEF IsSeq
<1>2. /\ Len(t) = n + 1 /\ t[n + 1] = e /\ \A i \in 1 .. n : t[i] = s[i]
      /\ t \in Seq(Ran(s) \cup {e})
  BY <1>1, AppendProperties
<1> HIDE DEF t
<1>3. IsSeq(t)
  <2>1. Ran(t) \subseteq Ran(t) /\ Len(t) \in Nat
    BY <1>1, <1>2
  <2> QED
    BY <1>2, <2>1, RanSeq DEF IsSeq
<1>4. /\ Len(M) = n + 1 /\ Len(L) = n
      /\ \A i \in 1 .. n + 1 : M[i] = t[i].held
      /\ \A i \in 1 .. n : L[i] = s[i].held
  BY <1>1, <1>2 DEF HeldBy
<1> HIDE DEF M, L
<1>5. PICK k : k = n + 1
  OBVIOUS
<1>6. M[k] = e.held /\ k \in 1 .. Len(M) /\ \A i \in (1 .. Len(M)) \ {k} : i \in 1 .. n /\ M[i] = L[i]
  BY <1>1, <1>2, <1>4, <1>5
<1>7. Lists(M)
  BY <1>1, <1>4, <1>5, <1>6 DEF Lists, L
<1>8. \A u : u \in PageUses(L, g) <=>
               \E i \in (1 .. Len(M)) \ {k} : \E j \in InPage(M[i], g) : u = <<i, j>>
  <2>1. (1 .. Len(M)) \ {k} = 1 .. Len(L)
    BY <1>1, <1>4, <1>5
  <2> QED
    BY <1>6, <2>1, UsesAre
<1>9. k \in 1 .. Len(M)
  BY <1>6
<1>10. PageSum(M, g) = PageSum(L, g) + PageSum(<<M[k]>>, g) /\ PageSum(L, g) \in Nat
  BY ONLY <1>7, <1>8, <1>9, OneMore
<1> QED
  BY <1>3, <1>6, <1>7, <1>10 DEF M, L, t

\* Packets that hold no page
LEMMA HeldNone ==
    ASSUME NEW s, IsSeq(s), NEW t, IsSeq(t), Lists(HeldBy(s)),
           \A i \in 1 .. Len(t) : t[i].held = <<>>, NEW g
    PROVE  /\ IsSeq(s \o t) /\ Lists(HeldBy(s \o t))
           /\ PageSum(HeldBy(s \o t), g) = PageSum(HeldBy(s), g)
<1> DEFINE m == Len(s)
           n == Len(t)
           st == s \o t
           M == HeldBy(st)
           L == HeldBy(s)
<1>1. m \in Nat /\ n \in Nat /\ s \in Seq(Ran(s) \cup Ran(t)) /\ t \in Seq(Ran(s) \cup Ran(t))
  BY RanSeq DEF IsSeq
<1>2. /\ Len(st) = m + n /\ \A i \in 1 .. m + n : st[i] = IF i <= m THEN s[i] ELSE t[i - m]
      /\ st \in Seq(Ran(s) \cup Ran(t))
  BY <1>1, ConcatProperties
<1> HIDE DEF st
<1>3. IsSeq(st)
  <2>1. Ran(st) \subseteq Ran(st) /\ Len(st) \in Nat
    BY <1>1, <1>2
  <2> QED
    BY <1>2, <2>1, RanSeq DEF IsSeq
<1>4. /\ Len(M) = m + n /\ Len(L) = m
      /\ \A i \in 1 .. m + n : M[i] = st[i].held
      /\ \A i \in 1 .. m : L[i] = s[i].held
  BY <1>1, <1>2 DEF HeldBy
<1> HIDE DEF M, L
<1>5. \A i \in 1 .. m + n : M[i] = IF i <= m THEN L[i] ELSE <<>>
  <2> TAKE i \in 1 .. m + n
  <2>1. CASE i <= m
    <3>1. i \in 1 .. m
      BY <1>1, <2>1
    <3>2. st[i] = s[i] /\ M[i] = st[i].held /\ L[i] = s[i].held
      BY <1>2, <1>4, <2>1, <3>1
    <3> QED
      BY <2>1, <3>2
  <2>2. CASE ~(i <= m)
    <3>1. i - m \in 1 .. n
      BY <1>1, <2>2
    <3> QED
      BY <1>2, <1>4, <2>2, <3>1
  <2> QED
    BY <2>1, <2>2
<1>6. Lists(M)
  <2>1. Len(<<>>) = 0
    OBVIOUS
  <2>2. Len(M) \in Nat
    BY <1>1, <1>4
  <2>3. ASSUME NEW i \in 1 .. Len(M) PROVE Len(M[i]) \in Nat
    <3>1. CASE i <= m
      BY <1>1, <1>4, <1>5, <3>1 DEF Lists, L
    <3>2. CASE ~(i <= m)
      BY <1>4, <1>5, <2>1, <3>2
    <3> QED
      BY <3>1, <3>2
  <2> QED
    BY <2>2, <2>3 DEF Lists
<1>7. PageUses(M, g) = PageUses(L, g)
  <2>1. \A i \in 1 .. m : i \in 1 .. m + n /\ M[i] = L[i]
    BY <1>1, <1>5
  <2>2. \A i \in 1 .. m + n : i \in 1 .. m \/ M[i] = <<>>
    BY <1>1, <1>5
  <2>3. ASSUME NEW u \in PageUses(M, g) PROVE u \in PageUses(L, g)
    <3>1. PICK i \in 1 .. m + n : \E j \in InPage(M[i], g) : u = <<i, j>>
      BY <1>4, UsesAre
    <3>2. i \in 1 .. Len(L) /\ M[i] = L[i]
      BY <1>4, <2>1, <2>2, <3>1, NoneInPage
    <3> QED
      BY <3>1, <3>2, UsesAre
  <2>4. ASSUME NEW u \in PageUses(L, g) PROVE u \in PageUses(M, g)
    <3>1. PICK i \in 1 .. m : \E j \in InPage(L[i], g) : u = <<i, j>>
      BY <1>4, UsesAre
    <3> QED
      BY <1>4, <2>1, <3>1, UsesAre
  <2> QED
    BY <2>3, <2>4
<1> QED
  BY <1>3, <1>6, <1>7 DEF M, L, st, PageSum

-----------------------------------------------------------------------------
(* Everything that holds pages: the buffers of a context, its packets in    *)
(* the stack, and the descriptors.                                          *)

Keys == ({"buffers", "stack"} \X Ctx) \cup ({"desc"} \X Desc)

ListsOf(B, S, D) ==
    [k \in Keys |-> IF k[1] = "buffers" THEN B[k[2]]
                    ELSE IF k[1] = "stack" THEN S[k[2]] ELSE <<D[k[2]]>>]

AllLists ==
    ListsOf([c \in Ctx |-> Buffers(c)], [c \in Ctx |-> HeldBy(stack[c])],
            [d \in Desc |-> desc[d].frags])

\* The uses of page g by the lists of C
UsedOn(L, C, g) == UNION {Tag(k, PageUses(L[k], g)) : k \in C}

LEMMA KeyNames ==
    /\ \A c \in Ctx : <<"buffers", c>> \in Keys /\ <<"stack", c>> \in Keys
    /\ \A d \in Desc : <<"desc", d>> \in Keys
    /\ \A k \in Keys : \/ \E c \in Ctx : k = <<"buffers", c>> \/ k = <<"stack", c>>
                       \/ \E d \in Desc : k = <<"desc", d>>
BY DEF Keys

LEMMA KeysFinite == IsFiniteSet(Keys)
<1>1. PICK A, B : A = {"buffers", "stack"} /\ B = {"desc"}
  OBVIOUS
<1>2. IsFiniteSet(A) /\ IsFiniteSet(B)
  <2>1. IsFiniteSet({"buffers"}) /\ IsFiniteSet({"stack"}) /\ IsFiniteSet({"desc"})
    BY FS_Singleton
  <2>2. A = {"buffers"} \cup {"stack"}
    BY <1>1
  <2> QED
    BY <1>1, <2>1, <2>2, FS_Union, ZenonT(60)
<1>3. IsFiniteSet(Ctx) /\ IsFiniteSet(Desc)
  BY IngressAssumption
<1>4. IsFiniteSet(A \X Ctx) /\ IsFiniteSet(B \X Desc)
  BY <1>2, <1>3, FS_Product
<1>5. IsFiniteSet((A \X Ctx) \cup (B \X Desc))
  BY <1>4, FS_Union
<1> QED
  BY <1>1, <1>5 DEF Keys

LEMMA ListsAre ==
    ASSUME NEW B, NEW S, NEW D
    PROVE  /\ \A c \in Ctx : /\ ListsOf(B, S, D)[<<"buffers", c>>] = B[c]
                             /\ ListsOf(B, S, D)[<<"stack", c>>] = S[c]
           /\ \A d \in Desc : ListsOf(B, S, D)[<<"desc", d>>] = <<D[d]>>
<1>1. ASSUME NEW c \in Ctx
      PROVE  /\ ListsOf(B, S, D)[<<"buffers", c>>] = B[c]
             /\ ListsOf(B, S, D)[<<"stack", c>>] = S[c]
  <2>1. /\ <<"buffers", c>>[1] = "buffers" /\ <<"buffers", c>>[2] = c
        /\ <<"stack", c>>[1] = "stack" /\ <<"stack", c>>[2] = c
        /\ <<"buffers", c>> \in Keys /\ <<"stack", c>> \in Keys
    BY KeyNames
  <2> QED
    BY <2>1 DEF ListsOf
<1>2. ASSUME NEW d \in Desc PROVE ListsOf(B, S, D)[<<"desc", d>>] = <<D[d]>>
  <2>1. <<"desc", d>>[1] = "desc" /\ <<"desc", d>>[2] = d /\ <<"desc", d>> \in Keys
    BY KeyNames
  <2> QED
    BY <2>1 DEF ListsOf
<1> QED
  BY <1>1, <1>2

HoldersOf(B, S, D, g) ==
    (UNION {Tag(<<"buffers", c>>, PageUses(B[c], g))
            \cup Tag(<<"stack", c>>, PageUses(S[c], g)) : c \in Ctx})
    \cup (UNION {Tag(<<"desc", d>>, PageUses(<<D[d]>>, g)) : d \in Desc})

LEMMA HoldersAre ==
    ASSUME NEW B, NEW S, NEW D, NEW g
    PROVE  HoldersOf(B, S, D, g) = UsedOn(ListsOf(B, S, D), Keys, g)
<1> DEFINE L == ListsOf(B, S, D)
<1>1. /\ \A c \in Ctx : L[<<"buffers", c>>] = B[c] /\ L[<<"stack", c>>] = S[c]
      /\ \A d \in Desc : L[<<"desc", d>>] = <<D[d]>>
  BY ListsAre
<1> HIDE DEF L
<1> DEFINE P(c) == Tag(<<"buffers", c>>, PageUses(B[c], g)) \cup Tag(<<"stack", c>>, PageUses(S[c], g))
           Q(d) == Tag(<<"desc", d>>, PageUses(<<D[d]>>, g))
<1>0. \A u : u \in HoldersOf(B, S, D, g) <=>
                (\E c \in Ctx : u \in P(c)) \/ (\E d \in Desc : u \in Q(d))
  <2>1. PICK X, Y : X = {P(c) : c \in Ctx} /\ Y = {Q(d) : d \in Desc}
    OBVIOUS
  <2>2. HoldersOf(B, S, D, g) = (UNION X) \cup (UNION Y)
    BY <2>1 DEF HoldersOf
  <2> HIDE DEF P, Q
  <2>3. \A u : u \in UNION Y <=> \E d \in Desc : u \in Q(d)
    BY <2>1
  <2>4. \A u : u \in UNION X <=> \E c \in Ctx : u \in P(c)
    BY <2>1
  <2> QED
    BY <2>2, <2>3, <2>4
<1>2. ASSUME NEW u \in HoldersOf(B, S, D, g) PROVE \E k \in Keys : u \in Tag(k, PageUses(L[k], g))
  <2>1. CASE \E c \in Ctx : u \in P(c)
    BY <1>1, <2>1, KeyNames
  <2>2. CASE \E d \in Desc : u \in Q(d)
    BY <1>1, <2>2, KeyNames
  <2> HIDE DEF P, Q
  <2>3. \/ \E c \in Ctx : u \in P(c)
        \/ \E d \in Desc : u \in Q(d)
    BY <1>0, <1>2
  <2> QED
    BY <2>1, <2>2, <2>3
<1>3. ASSUME NEW k \in Keys, NEW u \in Tag(k, PageUses(L[k], g)) PROVE u \in HoldersOf(B, S, D, g)
  <2>1. ASSUME NEW c \in Ctx, k = <<"buffers", c>> \/ k = <<"stack", c>>
        PROVE  u \in HoldersOf(B, S, D, g)
    <3>1. u \in P(c)
      BY <1>1, <1>3, <2>1
    <3> HIDE DEF P, Q
    <3> QED
      BY <1>0, <3>1
  <2>2. ASSUME NEW d \in Desc, k = <<"desc", d>> PROVE u \in HoldersOf(B, S, D, g)
    <3>1. u \in Q(d)
      BY <1>1, <1>3, <2>2
    <3> HIDE DEF P, Q
    <3> QED
      BY <1>0, <3>1
  <2> QED
    BY <2>1, <2>2, KeyNames
<1> QED
  BY <1>2, <1>3 DEF UsedOn, L

LEMMA UsedFinite ==
    ASSUME NEW L, NEW C, C \subseteq Keys, \A k \in C : Lists(L[k]), NEW g
    PROVE  IsFiniteSet(UsedOn(L, C, g))
<1> DEFINE All == {Tag(k, PageUses(L[k], g)) : k \in C}
           f == [k \in C |-> Tag(k, PageUses(L[k], g))]
<1>1. IsFiniteSet(C)
  BY KeysFinite, FS_Subset
<1>2. f \in Surjection(C, All)
  BY DEF Surjection
<1>3. IsFiniteSet(All)
  BY <1>1, <1>2, FS_Surjection
<1>4. \A T \in All : IsFiniteSet(T)
  BY UsesFinite, TagFinite
<1> QED
  BY <1>3, <1>4, FS_UNION DEF UsedOn

\* The lists of the keys in C change
LEMMA Swap ==
    ASSUME NEW L, NEW M, NEW C, C \subseteq Keys, \A k \in Keys \ C : M[k] = L[k],
           \A k \in Keys : Lists(L[k]), \A k \in C : Lists(M[k]), NEW g
    PROVE  /\ Cardinality(UsedOn(M, Keys, g)) = Cardinality(UsedOn(L, Keys, g))
                 - Cardinality(UsedOn(L, C, g)) + Cardinality(UsedOn(M, C, g))
           /\ Cardinality(UsedOn(M, Keys, g)) \in Nat /\ Cardinality(UsedOn(L, Keys, g)) \in Nat
<1>1. PICK R, A, B : R = UsedOn(L, Keys \ C, g) /\ A = UsedOn(L, C, g) /\ B = UsedOn(M, C, g)
  OBVIOUS
<1>2. R = UsedOn(M, Keys \ C, g)
  BY <1>1 DEF UsedOn
<1>3. UsedOn(L, Keys, g) = R \cup A /\ UsedOn(M, Keys, g) = R \cup B
  BY <1>1, <1>2 DEF UsedOn
<1>4. R \cap A = {} /\ R \cap B = {}
  BY <1>1 DEF UsedOn, Tag
<1>5. IsFiniteSet(R) /\ IsFiniteSet(A) /\ IsFiniteSet(B)
  BY <1>1, UsedFinite
<1>6. /\ Cardinality(R \cup A) = Cardinality(R) + Cardinality(A)
      /\ Cardinality(R) \in Nat /\ Cardinality(A) \in Nat
  BY <1>4, <1>5, Disjoint
<1>7. Cardinality(R \cup B) = Cardinality(R) + Cardinality(B) /\ Cardinality(B) \in Nat
  BY <1>4, <1>5, Disjoint
<1>8. Cardinality(R \cup B) = Cardinality(R \cup A) - Cardinality(A) + Cardinality(B)
  BY <1>6, <1>7
<1> QED
  BY <1>1, <1>3, <1>6, <1>7, <1>8

LEMMA UsedOne ==
    ASSUME NEW L, NEW k, Lists(L[k]), NEW g
    PROVE  /\ Cardinality(UsedOn(L, {k}, g)) = PageSum(L[k], g)
           /\ PageSum(L[k], g) \in Nat
<1>1. UsedOn(L, {k}, g) = Tag(k, PageUses(L[k], g))
  BY DEF UsedOn
<1> QED
  BY <1>1, UsesFinite, TagFinite

LEMMA UsedTwo ==
    ASSUME NEW L, NEW j, NEW k, j # k, Lists(L[j]), Lists(L[k]), NEW g
    PROVE  Cardinality(UsedOn(L, {j, k}, g)) = PageSum(L[j], g) + PageSum(L[k], g)
<1>1. PICK A, B : A = Tag(j, PageUses(L[j], g)) /\ B = Tag(k, PageUses(L[k], g))
  OBVIOUS
<1>2. UsedOn(L, {j, k}, g) = A \cup B
  BY <1>1 DEF UsedOn
<1>3. A \cap B = {}
  BY <1>1 DEF Tag
<1>4. /\ IsFiniteSet(A) /\ Cardinality(A) = PageSum(L[j], g)
      /\ IsFiniteSet(B) /\ Cardinality(B) = PageSum(L[k], g)
  BY <1>1, UsesFinite, TagFinite
<1> QED
  BY <1>2, <1>3, <1>4, Disjoint

-----------------------------------------------------------------------------
(* The invariant of the references, and its steps.                          *)

BalInv ==
    /\ RefsInv /\ PagesBalanced /\ StackInv
    /\ \A k \in Keys : Lists(AllLists[k])

LEMMA BalStep ==
    ASSUME BalInv, StackInv', NEW C, C \subseteq Keys,
           \A k \in Keys \ C : AllLists'[k] = AllLists[k], \A k \in C : Lists(AllLists'[k]),
           refs' = [g \in Pages |-> refs'[g]],
           \A g \in Pages :
              refs'[g] = refs[g] - Cardinality(UsedOn(AllLists, C, g))
                                 + Cardinality(UsedOn(AllLists', C, g))
    PROVE  BalInv'
<1>1. PICK B, S, D : /\ B = [c \in Ctx |-> Buffers(c)] /\ S = [c \in Ctx |-> HeldBy(stack[c])]
                     /\ D = [d \in Desc |-> desc[d].frags]
  OBVIOUS
<1>2. PICK B1, S1, D1 : /\ B1 = [c \in Ctx |-> Buffers(c)'] /\ S1 = [c \in Ctx |-> HeldBy(stack'[c])]
                        /\ D1 = [d \in Desc |-> desc'[d].frags]
  OBVIOUS
<1>3. PICK L, M : L = ListsOf(B, S, D) /\ M = ListsOf(B1, S1, D1)
  OBVIOUS
<1>4. L = AllLists /\ M = AllLists'
  BY <1>1, <1>2, <1>3 DEF AllLists
<1>5. ASSUME NEW g \in Pages
      PROVE  PageHolders(g) = UsedOn(L, Keys, g) /\ PageHolders(g)' = UsedOn(M, Keys, g)
  <2>1. PageHolders(g) = HoldersOf(B, S, D, g)
    BY <1>1 DEF PageHolders, HoldersOf, Tag
  <2>2. PageHolders(g)' = HoldersOf(B1, S1, D1, g)
    BY <1>2 DEF PageHolders, HoldersOf, Tag
  <2> QED
    BY <1>3, <2>1, <2>2, HoldersAre
<1>6. \A k \in Keys : Lists(L[k]) /\ (k \notin C => M[k] = L[k]) /\ (k \in C => Lists(M[k]))
  BY <1>4 DEF BalInv
<1>7. ASSUME NEW g \in Pages
      PROVE  refs'[g] = Cardinality(PageHolders(g)') /\ refs'[g] \in Int
  <2>1. /\ Cardinality(UsedOn(M, Keys, g)) = Cardinality(UsedOn(L, Keys, g))
                 - Cardinality(UsedOn(L, C, g)) + Cardinality(UsedOn(M, C, g))
        /\ Cardinality(UsedOn(M, Keys, g)) \in Nat
    BY <1>6, Swap
  <2>2. refs[g] = Cardinality(UsedOn(L, Keys, g))
    BY <1>5 DEF BalInv, PagesBalanced
  <2>3. refs'[g] = refs[g] - Cardinality(UsedOn(L, C, g)) + Cardinality(UsedOn(M, C, g))
    BY <1>4
  <2> QED
    BY <1>5, <2>1, <2>2, <2>3
<1>8. PagesBalanced'
  BY <1>7 DEF PagesBalanced
<1>9. RefsInv'
  BY <1>7 DEF RefsInv
<1>10. \A k \in Keys : Lists(AllLists'[k])
  BY <1>4, <1>6
<1> QED
  BY <1>8, <1>9, <1>10 DEF BalInv

\* One list changes, or two do
LEMMA BalOne ==
    ASSUME BalInv, StackInv', NEW k \in Keys, \A e \in Keys \ {k} : AllLists'[e] = AllLists[e],
           Lists(AllLists'[k]), refs' = [g \in Pages |-> refs'[g]],
           \A g \in Pages :
              refs'[g] = refs[g] - PageSum(AllLists[k], g) + PageSum(AllLists'[k], g)
    PROVE  BalInv'
<1>1. PICK L, M : L = AllLists /\ M = AllLists'
  OBVIOUS
<1>2. Lists(L[k]) /\ Lists(M[k])
  BY <1>1 DEF BalInv
<1>3. \A g : /\ Cardinality(UsedOn(L, {k}, g)) = PageSum(L[k], g)
             /\ Cardinality(UsedOn(M, {k}, g)) = PageSum(M[k], g)
  BY <1>2, UsedOne
<1>4. {k} \subseteq Keys /\ \A e \in {k} : Lists(AllLists'[e])
  OBVIOUS
<1>5. \A g \in Pages :
         refs'[g] = refs[g] - Cardinality(UsedOn(AllLists, {k}, g))
                            + Cardinality(UsedOn(AllLists', {k}, g))
  BY <1>1, <1>3
<1> QED
  BY <1>4, <1>5, BalStep

LEMMA BalTwo ==
    ASSUME BalInv, StackInv', NEW j \in Keys, NEW k \in Keys, j # k,
           \A e \in Keys \ {j, k} : AllLists'[e] = AllLists[e],
           Lists(AllLists'[j]), Lists(AllLists'[k]), refs' = [g \in Pages |-> refs'[g]],
           \A g \in Pages :
              refs'[g] = refs[g] - (PageSum(AllLists[j], g) + PageSum(AllLists[k], g))
                                 + (PageSum(AllLists'[j], g) + PageSum(AllLists'[k], g))
    PROVE  BalInv'
<1>1. PICK L, M : L = AllLists /\ M = AllLists'
  OBVIOUS
<1>2. Lists(L[j]) /\ Lists(M[j]) /\ Lists(L[k]) /\ Lists(M[k])
  BY <1>1 DEF BalInv
<1>3. \A g : /\ Cardinality(UsedOn(L, {j, k}, g)) = PageSum(L[j], g) + PageSum(L[k], g)
             /\ Cardinality(UsedOn(M, {j, k}, g)) = PageSum(M[j], g) + PageSum(M[k], g)
  <2> TAKE g
  <2>1. Cardinality(UsedOn(L, {j, k}, g)) = PageSum(L[j], g) + PageSum(L[k], g)
    BY <1>2, UsedTwo
  <2>2. Cardinality(UsedOn(M, {j, k}, g)) = PageSum(M[j], g) + PageSum(M[k], g)
    BY <1>2, UsedTwo
  <2> QED
    BY <2>1, <2>2
<1>4. {j, k} \subseteq Keys /\ \A e \in {j, k} : Lists(AllLists'[e])
  OBVIOUS
<1>5. \A g \in Pages :
         refs'[g] = refs[g] - Cardinality(UsedOn(AllLists, {j, k}, g))
                            + Cardinality(UsedOn(AllLists', {j, k}, g))
  BY <1>1, <1>3
<1> QED
  BY <1>4, <1>5, BalStep

LEMMA AllListsAre ==
    /\ \A c \in Ctx : /\ AllLists[<<"buffers", c>>] = Buffers(c)
                      /\ AllLists[<<"stack", c>>] = HeldBy(stack[c])
                      /\ AllLists'[<<"buffers", c>>] = Buffers(c)'
                      /\ AllLists'[<<"stack", c>>] = HeldBy(stack'[c])
    /\ \A d \in Desc : /\ AllLists[<<"desc", d>>] = <<desc[d].frags>>
                       /\ AllLists'[<<"desc", d>>] = <<desc'[d].frags>>
<1>1. PICK B, S, D : /\ B = [c \in Ctx |-> Buffers(c)] /\ S = [c \in Ctx |-> HeldBy(stack[c])]
                     /\ D = [d \in Desc |-> desc[d].frags]
  OBVIOUS
<1>2. PICK B1, S1, D1 : /\ B1 = [c \in Ctx |-> Buffers(c)'] /\ S1 = [c \in Ctx |-> HeldBy(stack'[c])]
                        /\ D1 = [d \in Desc |-> desc'[d].frags]
  OBVIOUS
<1>3. ListsOf(B, S, D) = AllLists /\ ListsOf(B1, S1, D1) = AllLists'
  BY <1>1, <1>2 DEF AllLists
<1>4. /\ \A c \in Ctx : /\ ListsOf(B, S, D)[<<"buffers", c>>] = B[c]
                        /\ ListsOf(B, S, D)[<<"stack", c>>] = S[c]
      /\ \A d \in Desc : ListsOf(B, S, D)[<<"desc", d>>] = <<D[d]>>
  BY ListsAre
<1>5. /\ \A c \in Ctx : /\ ListsOf(B1, S1, D1)[<<"buffers", c>>] = B1[c]
                        /\ ListsOf(B1, S1, D1)[<<"stack", c>>] = S1[c]
      /\ \A d \in Desc : ListsOf(B1, S1, D1)[<<"desc", d>>] = <<D1[d]>>
  BY ListsAre
<1> QED
  BY <1>1, <1>2, <1>3, <1>4, <1>5

\* What keeps its list
LEMMA KeptLists ==
    ASSUME NEW C, \A c \in Ctx : <<"buffers", c>> \in C \/ Buffers(c)' = Buffers(c),
           \A c \in Ctx : <<"stack", c>> \in C \/ stack'[c] = stack[c],
           \A d \in Desc : <<"desc", d>> \in C \/ desc'[d].frags = desc[d].frags
    PROVE  \A k \in Keys \ C : AllLists'[k] = AllLists[k]
<1> SUFFICES ASSUME NEW k \in Keys, k \notin C PROVE AllLists'[k] = AllLists[k]
  OBVIOUS
<1>1. ASSUME NEW c \in Ctx, k = <<"buffers", c>> PROVE AllLists'[k] = AllLists[k]
  BY <1>1, AllListsAre
<1>2. ASSUME NEW c \in Ctx, k = <<"stack", c>> PROVE AllLists'[k] = AllLists[k]
  BY <1>2, AllListsAre
<1>3. ASSUME NEW d \in Desc, k = <<"desc", d>> PROVE AllLists'[k] = AllLists[k]
  BY <1>3, AllListsAre
<1> QED
  BY <1>1, <1>2, <1>3, KeyNames

LEMMA StackSame ==
    ASSUME StackInv, stack' = stack
    PROVE  StackInv'
BY DEF StackInv

\* A step that changes the contents of descriptor d
DescChange(d) ==
    /\ d \in Desc /\ stack' = stack
    /\ \A c \in Ctx : Buffers(c)' = Buffers(c)
    /\ \A e \in Desc \ {d} : desc'[e].frags = desc[e].frags
    /\ Len(desc'[d].frags) \in Nat
    /\ refs' = [g \in Pages |-> refs'[g]]
    /\ \A g \in Pages : refs'[g] = refs[g] - PageSum(<<desc[d].frags>>, g)
                                           + PageSum(<<desc'[d].frags>>, g)

LEMMA DescBal ==
    ASSUME BalInv, NEW d, DescChange(d)
    PROVE  BalInv'
<1> USE DEF DescChange
<1>1. PICK k : k = <<"desc", d>>
  OBVIOUS
<1>2. k \in Keys /\ AllLists[k] = <<desc[d].frags>> /\ AllLists'[k] = <<desc'[d].frags>>
  BY <1>1, KeyNames, AllListsAre
<1>3. \A e \in Keys \ {k} : AllLists'[e] = AllLists[e]
  <2>1. \A e \in Desc : <<"desc", e>> \in {k} \/ desc'[e].frags = desc[e].frags
    BY <1>1
  <2> QED
    BY <2>1, KeptLists
<1>4. Lists(AllLists'[k])
  BY <1>2, OneUse
<1>5. StackInv'
  BY StackSame DEF BalInv
<1>6. \A g \in Pages : refs'[g] = refs[g] - PageSum(AllLists[k], g) + PageSum(AllLists'[k], g)
  BY <1>2
<1> QED
  BY <1>2, <1>3, <1>4, <1>5, <1>6, BalOne

\* A step that changes the buffers of context c
LEMMA BufferBal ==
    ASSUME BalInv, NEW c \in Ctx, stack' = stack, desc' = desc,
           \A e \in Ctx \ {c} : Buffers(e)' = Buffers(e), Lists(Buffers(c)'),
           refs' = [g \in Pages |-> refs'[g]],
           \A g \in Pages : refs'[g] = refs[g] - PageSum(Buffers(c), g) + PageSum(Buffers(c)', g)
    PROVE  BalInv'
<1>1. PICK k : k = <<"buffers", c>>
  OBVIOUS
<1>2. k \in Keys /\ AllLists[k] = Buffers(c) /\ AllLists'[k] = Buffers(c)'
  BY <1>1, KeyNames, AllListsAre
<1>3. \A e \in Keys \ {k} : AllLists'[e] = AllLists[e]
  <2>1. \A e \in Ctx : <<"buffers", e>> \in {k} \/ Buffers(e)' = Buffers(e)
    BY <1>1
  <2> QED
    BY <2>1, KeptLists
<1>4. Lists(AllLists'[k])
  BY <1>2
<1>5. StackInv'
  BY StackSame DEF BalInv
<1>6. \A g \in Pages : refs'[g] = refs[g] - PageSum(AllLists[k], g) + PageSum(AllLists'[k], g)
  BY <1>2
<1> QED
  BY <1>2, <1>3, <1>4, <1>5, <1>6, BalOne

\* A step that gives context c the list s of packets in the stack
StackChange(c, s) ==
    /\ stack' = [stack EXCEPT ![c] = s] /\ IsSeq(s) /\ Lists(HeldBy(s))
    /\ refs' = [g \in Pages |-> refs'[g]]

LEMMA StackIs ==
    ASSUME BalInv, NEW c \in Ctx, NEW s, stack' = [stack EXCEPT ![c] = s], IsSeq(s),
           Lists(HeldBy(s))
    PROVE  /\ StackInv' /\ stack'[c] = s /\ \A e \in Ctx \ {c} : stack'[e] = stack[e]
<1>1. DOMAIN stack = Ctx /\ \A e \in Ctx : IsSeq(stack[e])
  BY DEF BalInv, StackInv
<1>2. stack'[c] = s /\ (\A e \in Ctx \ {c} : stack'[e] = stack[e]) /\ DOMAIN stack' = Ctx
  BY <1>1
<1>3. StackInv'
  BY <1>1, <1>2 DEF StackInv
<1> QED
  BY <1>2, <1>3

LEMMA StackBal ==
    ASSUME BalInv, NEW c \in Ctx, NEW s, StackChange(c, s), desc' = desc,
           \A e \in Ctx : Buffers(e)' = Buffers(e),
           \A g \in Pages : refs'[g] = refs[g] - PageSum(HeldBy(stack[c]), g) + PageSum(HeldBy(s), g)
    PROVE  BalInv'
<1> USE DEF StackChange
<1>1. PICK k : k = <<"stack", c>>
  OBVIOUS
<1>2. /\ StackInv' /\ stack'[c] = s /\ \A e \in Ctx \ {c} : stack'[e] = stack[e]
  BY StackIs
<1>3. k \in Keys /\ AllLists[k] = HeldBy(stack[c]) /\ AllLists'[k] = HeldBy(s)
  BY <1>1, <1>2, KeyNames, AllListsAre
<1>4. \A e \in Keys \ {k} : AllLists'[e] = AllLists[e]
  <2>1. \A e \in Ctx : <<"stack", e>> \in {k} \/ stack'[e] = stack[e]
    BY <1>1, <1>2
  <2> QED
    BY <2>1, KeptLists
<1>5. Lists(AllLists'[k])
  BY <1>3
<1>6. \A g \in Pages : refs'[g] = refs[g] - PageSum(AllLists[k], g) + PageSum(AllLists'[k], g)
  BY <1>3
<1> QED
  BY <1>2, <1>3, <1>4, <1>5, <1>6, BalOne

LEMMA DescStackBal ==
    ASSUME BalInv, NEW c \in Ctx, NEW s, StackChange(c, s), NEW d \in Desc,
           \A e \in Desc \ {d} : desc'[e].frags = desc[e].frags, Len(desc'[d].frags) \in Nat,
           \A e \in Ctx : Buffers(e)' = Buffers(e),
           \A g \in Pages :
              refs'[g] = refs[g] - (PageSum(HeldBy(stack[c]), g) + PageSum(<<desc[d].frags>>, g))
                                 + (PageSum(HeldBy(s), g) + PageSum(<<desc'[d].frags>>, g))
    PROVE  BalInv'
<1> USE DEF StackChange
<1>1. PICK j, k : j = <<"stack", c>> /\ k = <<"desc", d>>
  OBVIOUS
<1>2. /\ StackInv' /\ stack'[c] = s /\ \A e \in Ctx \ {c} : stack'[e] = stack[e]
  BY StackIs
<1>3. /\ j \in Keys /\ AllLists[j] = HeldBy(stack[c]) /\ AllLists'[j] = HeldBy(s)
      /\ k \in Keys /\ AllLists[k] = <<desc[d].frags>> /\ AllLists'[k] = <<desc'[d].frags>>
      /\ j # k
  BY <1>1, <1>2, KeyNames, AllListsAre
<1>4. \A e \in Keys \ {j, k} : AllLists'[e] = AllLists[e]
  <2>1. \A e \in Ctx : <<"stack", e>> \in {j, k} \/ stack'[e] = stack[e]
    BY <1>1, <1>2
  <2>2. \A e \in Desc : <<"desc", e>> \in {j, k} \/ desc'[e].frags = desc[e].frags
    BY <1>1
  <2> QED
    BY <2>1, <2>2, KeptLists
<1>5. Lists(AllLists'[j]) /\ Lists(AllLists'[k])
  BY <1>3, OneUse
<1>6. \A g \in Pages :
         refs'[g] = refs[g] - (PageSum(AllLists[j], g) + PageSum(AllLists[k], g))
                            + (PageSum(AllLists'[j], g) + PageSum(AllLists'[k], g))
  BY <1>3
<1> QED
  BY <1>2, <1>3, <1>4, <1>5, <1>6, BalTwo

LEMMA BufferStackBal ==
    ASSUME BalInv, NEW c \in Ctx, NEW s, StackChange(c, s), desc' = desc,
           \A e \in Ctx \ {c} : Buffers(e)' = Buffers(e), Lists(Buffers(c)'),
           \A g \in Pages :
              refs'[g] = refs[g] - (PageSum(HeldBy(stack[c]), g) + PageSum(Buffers(c), g))
                                 + (PageSum(HeldBy(s), g) + PageSum(Buffers(c)', g))
    PROVE  BalInv'
<1> USE DEF StackChange
<1>1. PICK j, k : j = <<"stack", c>> /\ k = <<"buffers", c>>
  OBVIOUS
<1>2. /\ StackInv' /\ stack'[c] = s /\ \A e \in Ctx \ {c} : stack'[e] = stack[e]
  BY StackIs
<1>3. /\ j \in Keys /\ AllLists[j] = HeldBy(stack[c]) /\ AllLists'[j] = HeldBy(s)
      /\ k \in Keys /\ AllLists[k] = Buffers(c) /\ AllLists'[k] = Buffers(c)'
      /\ j # k
  BY <1>1, <1>2, KeyNames, AllListsAre
<1>4. \A e \in Keys \ {j, k} : AllLists'[e] = AllLists[e]
  <2>1. \A e \in Ctx : <<"stack", e>> \in {j, k} \/ stack'[e] = stack[e]
    BY <1>1, <1>2
  <2>2. \A e \in Ctx : <<"buffers", e>> \in {j, k} \/ Buffers(e)' = Buffers(e)
    BY <1>1
  <2> QED
    BY <2>1, <2>2, KeptLists
<1>5. Lists(AllLists'[j]) /\ Lists(AllLists'[k])
  BY <1>3
<1>6. \A g \in Pages :
         refs'[g] = refs[g] - (PageSum(AllLists[j], g) + PageSum(AllLists[k], g))
                            + (PageSum(AllLists'[j], g) + PageSum(AllLists'[k], g))
  BY <1>3
<1> QED
  BY <1>2, <1>3, <1>4, <1>5, <1>6, BalTwo

-----------------------------------------------------------------------------
(* The buffers and the references of a step.                                *)

BuffersOf(c, x, F) == IF x.pc = "idle" THEN <<>> ELSE From(ChainAt(c, x, F), x.buf)

LEMMA BuffersAre ==
    ASSUME NEW c
    PROVE  /\ Buffers(c) = BuffersOf(c, ctx[c], format.flags)
           /\ Buffers(c)' = BuffersOf(c, ctx'[c], format'.flags)
BY DEF Buffers, BuffersOf, From, ChainOf, ChainAt

\* A context that works on the same buffer
Still(c) ==
    /\ ctx[c].pc # "idle" /\ ctx'[c].pc # "idle"
    /\ ctx'[c].chain = ctx[c].chain /\ ctx'[c].buf = ctx[c].buf

LEMMA SameBuffers ==
    ASSUME format' = format, NEW c \in Ctx, ctx'[c] = ctx[c] \/ Still(c)
    PROVE  Buffers(c)' = Buffers(c)
<1>1. BuffersOf(c, ctx'[c], format.flags) = BuffersOf(c, ctx[c], format.flags)
  BY DEF BuffersOf, ChainAt, Still
<1> QED
  BY <1>1, BuffersAre

LEMMA StillBuffers ==
    ASSUME format' = format, TypeInv, NEW c \in Ctx, NEW y, ctx' = [ctx EXCEPT ![c] = y],
           ctx[c].pc # "idle", y.pc # "idle", y.chain = ctx[c].chain, y.buf = ctx[c].buf
    PROVE  \A e \in Ctx : Buffers(e)' = Buffers(e)
<1>1. ctx'[c] = y /\ \A e \in Ctx \ {c} : ctx'[e] = ctx[e]
  BY DEF TypeInv
<1>2. \A e \in Ctx : ctx'[e] = ctx[e] \/ Still(e)
  BY <1>1 DEF Still
<1> QED
  BY <1>2, SameBuffers

LEMMA RefsAre ==
    ASSUME NEW r, DOMAIN r = Pages, NEW lists
    PROVE  /\ PutPages(r, lists) = [g \in Pages |-> r[g] - PageSum(lists, g)]
           /\ GetPages(r, lists) = [g \in Pages |-> r[g] + PageSum(lists, g)]
BY DEF PutPages, GetPages

LEMMA RefsHere ==
    ASSUME BalInv
    PROVE  DOMAIN refs = Pages /\ refs = [g \in Pages |-> refs[g]] /\ \A g \in Pages : refs[g] \in Int
BY DEF BalInv, RefsInv

LEMMA PutIs ==
    ASSUME BalInv, NEW lists, refs' = PutPages(refs, lists)
    PROVE  /\ refs' = [g \in Pages |-> refs'[g]]
           /\ \A g \in Pages : refs'[g] = refs[g] - PageSum(lists, g)
<1>1. PICK r : r = refs
  OBVIOUS
<1>2. refs' = [g \in Pages |-> r[g] - PageSum(lists, g)]
  BY <1>1, RefsHere, RefsAre
<1> QED
  BY <1>1, <1>2

LEMMA GetIs ==
    ASSUME BalInv, NEW lists, refs' = GetPages(refs, lists)
    PROVE  /\ refs' = [g \in Pages |-> refs'[g]]
           /\ \A g \in Pages : refs'[g] = refs[g] + PageSum(lists, g)
<1>1. PICK r : r = refs
  OBVIOUS
<1>2. refs' = [g \in Pages |-> r[g] + PageSum(lists, g)]
  BY <1>1, RefsHere, RefsAre
<1> QED
  BY <1>1, <1>2

LEMMA PutGetIs ==
    ASSUME BalInv, NEW old, NEW new, refs' = GetPages(PutPages(refs, old), new)
    PROVE  /\ refs' = [g \in Pages |-> refs'[g]]
           /\ \A g \in Pages : refs'[g] = refs[g] - PageSum(old, g) + PageSum(new, g)
<1>1. PICK r, s : r = refs /\ s = PutPages(r, old)
  OBVIOUS
<1>2. s = [g \in Pages |-> r[g] - PageSum(old, g)]
  BY <1>1, RefsHere, RefsAre
<1>3. DOMAIN s = Pages /\ refs' = GetPages(s, new)
  BY <1>1, <1>2
<1>4. refs' = [g \in Pages |-> s[g] + PageSum(new, g)]
  BY <1>3, RefsAre
<1> QED
  BY <1>1, <1>2, <1>4

LEMMA GetPutIs ==
    ASSUME BalInv, NEW old, NEW new, refs' = PutPages(GetPages(refs, new), old)
    PROVE  /\ refs' = [g \in Pages |-> refs'[g]]
           /\ \A g \in Pages : refs'[g] = (refs[g] + PageSum(new, g)) - PageSum(old, g)
<1>1. PICK r, s : r = refs /\ s = GetPages(r, new)
  OBVIOUS
<1>2. s = [g \in Pages |-> r[g] + PageSum(new, g)]
  BY <1>1, RefsHere, RefsAre
<1>3. DOMAIN s = Pages /\ refs' = PutPages(s, old)
  BY <1>1, <1>2
<1>4. refs' = [g \in Pages |-> s[g] - PageSum(old, g)]
  BY <1>3, RefsAre
<1> QED
  BY <1>1, <1>2, <1>4

\* Nothing that holds pages changes
LEMMA QuietBal ==
    ASSUME BalInv, UNCHANGED <<desc, refs, stack>>, \A c \in Ctx : Buffers(c)' = Buffers(c)
    PROVE  BalInv'
<1>1. \A k \in Keys \ {} : AllLists'[k] = AllLists[k]
  BY KeptLists
<1>2. ASSUME NEW g \in Pages
      PROVE  refs'[g] = refs[g] - Cardinality(UsedOn(AllLists, {}, g))
                                + Cardinality(UsedOn(AllLists', {}, g))
  <2>1. UsedOn(AllLists, {}, g) = {} /\ UsedOn(AllLists', {}, g) = {}
    BY DEF UsedOn
  <2>2. Cardinality(UsedOn(AllLists, {}, g)) = 0 /\ Cardinality(UsedOn(AllLists', {}, g)) = 0
    BY <2>1, FS_EmptySet
  <2> QED
    BY <2>2, RefsHere
<1>3. StackInv'
  BY StackSame DEF BalInv
<1>4. refs' = [g \in Pages |-> refs'[g]]
  BY RefsHere
<1> QED
  BY <1>1, <1>2, <1>3, <1>4, BalStep

LEMMA DescLen ==
    ASSUME TypeInv, NEW d \in Desc
    PROVE  /\ desc[d] \in DescRec /\ desc[d].frags \in Seq(Fragments(Pages))
           /\ Len(desc[d].frags) \in Nat
           /\ \A g : PageSum(<<desc[d].frags>>, g) \in Nat
<1>1. desc[d] \in DescRec
  BY DEF TypeInv
<1>2. PICK s : s = desc[d].frags
  OBVIOUS
<1>3. s \in Seq(Fragments(Pages))
  BY <1>1, <1>2 DEF DescRec
<1>4. Len(s) \in Nat
  BY <1>3
<1>5. \A g : PageSum(<<s>>, g) \in Nat
  BY <1>4, OneUse
<1> QED
  BY <1>1, <1>2, <1>3, <1>4, <1>5

\* A descriptor gives back its pages
LEMMA RecycleBal ==
    ASSUME TypeInv, BalInv, NEW d \in Desc, Recycle(d), stack' = stack,
           \A c \in Ctx : Buffers(c)' = Buffers(c)
    PROVE  BalInv'
<1>1. desc' = [desc EXCEPT ![d] = Blank] /\ refs' = PutPages(refs, <<desc[d].frags>>)
  BY DEF Recycle
<1>2. desc'[d] = Blank /\ \A e \in Desc \ {d} : desc'[e] = desc[e]
  BY <1>1 DEF TypeInv
<1>3. /\ refs' = [g \in Pages |-> refs'[g]]
      /\ \A g \in Pages : refs'[g] = refs[g] - PageSum(<<desc[d].frags>>, g)
  BY <1>1, PutIs
<1>4. desc'[d].frags = <<>> /\ Len(<<>>) = 0 /\ \A g : PageSum(<< <<>> >>, g) = 0
  BY <1>2, BlankRec, NoUse
<1>5. \A g \in Pages : refs'[g] = refs[g] - PageSum(<<desc[d].frags>>, g)
                                           + PageSum(<<desc'[d].frags>>, g)
  BY <1>3, <1>4, RefsHere, DescLen
<1>6. DescChange(d)
  BY <1>2, <1>3, <1>4, <1>5 DEF DescChange
<1> QED
  BY <1>6, DescBal

\* A descriptor gets other contents
LEMMA ReplaceBal ==
    ASSUME TypeInv, BalInv, NEW d \in Desc, NEW new, Len(new) \in Nat,
           \A e \in Desc \ {d} : desc'[e].frags = desc[e].frags, desc'[d].frags = new,
           refs' = GetPages(PutPages(refs, <<desc[d].frags>>), <<new>>), stack' = stack,
           \A c \in Ctx : Buffers(c)' = Buffers(c)
    PROVE  BalInv'
<1>1. /\ refs' = [g \in Pages |-> refs'[g]]
      /\ \A g \in Pages : refs'[g] = refs[g] - PageSum(<<desc[d].frags>>, g) + PageSum(<<new>>, g)
  BY PutGetIs
<1>2. DescChange(d)
  BY <1>1 DEF DescChange
<1> QED
  BY <1>2, DescBal

-----------------------------------------------------------------------------
(* The references in every action of a context.                             *)

LEMMA ReceiveBal ==
    ASSUME SideInv, CoreInv, BalInv, ~clash, NEW c \in Ctx,
           NEW n \in 1 .. Len(Received[c][format.flags.name]), Receive(c, n)
    PROVE  BalInv'
<1>1. PICK F, chain, y : /\ F = format.flags /\ chain = Received[c][F.name][n]
                         /\ y = [Idle EXCEPT !.pc = IF V5(F) /\ ~chain[1].linear THEN "deaggregate" ELSE "linear",
                                             !.chain = n, !.buf = 1, !.rest = chain[1].frags]
  OBVIOUS
<1>2. /\ ctx[c].pc = "idle" /\ ctx' = [ctx EXCEPT ![c] = y]
      /\ refs' = GetPages(refs, FragsOf(chain)) /\ UNCHANGED <<format, desc, stack>>
  BY <1>1 DEF Receive
<1>3. y.pc # "idle" /\ y.chain = n /\ y.buf = 1
  BY <1>1 DEF Idle
<1>4. IsChain(F, chain)
  BY <1>1, ChainFacts DEF SideInv
<1>5. Len(chain) \in Nat /\ \A i \in 1 .. Len(chain) : Len(chain[i].frags) \in Nat
  BY <1>4 DEF IsChain, IsBuffer
<1>6. ctx'[c] = y /\ \A e \in Ctx \ {c} : ctx'[e] = ctx[e]
  BY <1>2 DEF CoreInv, TypeInv
<1>7. Buffers(c)' = FragsOf(chain)
  <2>1. BuffersOf(c, y, F) = From(chain, 1)
    BY <1>1, <1>3 DEF BuffersOf, ChainAt
  <2>2. Buffers(c)' = BuffersOf(c, y, F)
    BY <1>1, <1>2, <1>6, BuffersAre
  <2> QED
    BY <1>5, <2>1, <2>2, FromFirst
<1>8. Buffers(c) = <<>>
  BY <1>2, BuffersAre DEF BuffersOf
<1>9. \A e \in Ctx \ {c} : Buffers(e)' = Buffers(e)
  BY <1>2, <1>6, SameBuffers
<1>10. Lists(FragsOf(chain))
  BY <1>5 DEF Lists, FragsOf
<1>11. /\ refs' = [g \in Pages |-> refs'[g]]
       /\ \A g \in Pages : refs'[g] = refs[g] + PageSum(FragsOf(chain), g)
  BY <1>2, GetIs
<1>12. \A g \in Pages : refs'[g] = refs[g] - PageSum(Buffers(c), g) + PageSum(Buffers(c)', g)
  <2> TAKE g \in Pages
  <2>1. PageSum(Buffers(c), g) = 0 /\ PageSum(FragsOf(chain), g) \in Nat
    BY <1>8, <1>10, NoUse, UsesFinite
  <2> QED
    BY <1>7, <1>11, <2>1, RefsHere
<1>13. stack' = stack /\ desc' = desc /\ Lists(Buffers(c)')
  BY <1>2, <1>7, <1>10
<1> QED
  BY <1>9, <1>11, <1>12, <1>13, BufferBal

\* The context goes on to the next buffer of the chain
LEMMA NextBufferPages ==
    ASSUME SideInv, CoreInv, NEW c \in Ctx, ctx[c].pc # "idle", format' = format,
           NEW pc \in {"linear", "deaggregate"}, ctx' = [ctx EXCEPT ![c] = NextBuffer(c, pc)]
    PROVE  /\ \A e \in Ctx \ {c} : Buffers(e)' = Buffers(e)
           /\ Lists(Buffers(c)') /\ Len(Buffer(c).frags) \in Nat
           /\ \A g : /\ PageSum(Buffers(c), g) = PageSum(Buffers(c)', g) + PageSum(<<Buffer(c).frags>>, g)
                     /\ PageSum(Buffers(c)', g) \in Nat /\ PageSum(<<Buffer(c).frags>>, g) \in Nat
<1>1. PICK x, F, h, r : x = ctx[c] /\ F = format.flags /\ h = hollow /\ r = runt
  OBVIOUS
<1>2. /\ F \in Formats /\ AtWork(c, x, F, h, r) /\ Buffer(c) = BufferAt(c, x, F)
      /\ ChainOf(c) = ChainAt(c, x, F) /\ x.buf \in Nat
  BY <1>1, Here DEF CtxGood, CoreInv
<1>3. PICK chain, b, d : chain = ChainAt(c, x, F) /\ b = x.buf /\ d = b + 1
  OBVIOUS
<1>4. Len(chain) \in Nat /\ \A i \in 1 .. Len(chain) : IsBuffer(F, PagedAt(c, x, F), chain[i])
  BY <1>2, <1>3, BufferFacts
<1>5. \A i \in 1 .. Len(chain) : Len(chain[i].frags) \in Nat
  BY <1>4 DEF IsBuffer
<1>6. b \in 1 .. Len(chain) /\ Buffer(c) = chain[b]
  BY <1>2, <1>3 DEF AtWork, BufferAt
<1>7. PICK y : y = NextBuffer(c, pc)
  OBVIOUS
<1>8. ctx'[c] = y /\ \A e \in Ctx \ {c} : ctx'[e] = ctx[e]
  BY <1>7 DEF CoreInv, TypeInv
<1>9. \A e \in Ctx \ {c} : Buffers(e)' = Buffers(e)
  BY <1>8, SameBuffers
<1>10. Buffers(c) = From(chain, b)
  BY <1>1, <1>3, BuffersAre DEF BuffersOf
<1>11. \A g : /\ PageSum(From(chain, b), g) = PageSum(From(chain, d), g) + PageSum(<<chain[b].frags>>, g)
              /\ PageSum(From(chain, d), g) \in Nat
  BY <1>3, <1>4, <1>5, <1>6, FromNext
<1>12. \A g : PageSum(<<chain[b].frags>>, g) \in Nat
  BY <1>5, <1>6, OneUse
<1>13. CASE d > Len(chain)
  <2>1. y = Idle
    BY <1>1, <1>2, <1>3, <1>7, <1>13 DEF NextBuffer
  <2>2. Buffers(c)' = <<>>
    BY <1>8, <2>1, BuffersAre DEF BuffersOf, Idle
  <2>3. d \in Nat
    BY <1>2, <1>3
  <2>4. \A g : PageSum(From(chain, d), g) = 0
    BY <1>4, <1>13, <2>3, FromEnd
  <2>5. Lists(<<>>) /\ \A g : PageSum(<<>>, g) = 0
    BY NoUse
  <2> QED
    BY <1>5, <1>6, <1>9, <1>10, <1>11, <1>12, <2>2, <2>4, <2>5
<1>14. CASE ~(d > Len(chain))
  <2>1. y = [Idle EXCEPT !.pc = pc, !.chain = x.chain, !.buf = d, !.rest = chain[d].frags]
    BY <1>1, <1>2, <1>3, <1>7, <1>14 DEF NextBuffer
  <2>2. y.pc = pc /\ y.pc # "idle" /\ y.chain = x.chain /\ y.buf = d
    BY <2>1 DEF Idle
  <2>3. BuffersOf(c, y, F) = From(chain, d)
    BY <1>3, <2>2 DEF BuffersOf, ChainAt
  <2>4. Buffers(c)' = From(chain, d)
    BY <1>1, <1>8, <2>3, BuffersAre
  <2>5. Lists(From(chain, d))
    <3>1. Len(From(chain, d)) = Len(chain) /\ Len(<<>>) = 0
      BY DEF From
    <3>2. \A i \in 1 .. Len(chain) : From(chain, d)[i] = <<>> \/ From(chain, d)[i] = chain[i].frags
      BY DEF From
    <3> QED
      BY <1>4, <1>5, <3>1, <3>2 DEF Lists
  <2> QED
    BY <1>5, <1>6, <1>9, <1>10, <1>11, <1>12, <2>4, <2>5
<1> QED
  BY <1>13, <1>14

\* A buffer is freed
LEMMA FreeBufferBal ==
    ASSUME SideInv, CoreInv, BalInv, NEW c \in Ctx, ctx[c].pc # "idle", UNCHANGED <<format, desc, stack>>,
           NEW pc \in {"linear", "deaggregate"}, ctx' = [ctx EXCEPT ![c] = NextBuffer(c, pc)],
           refs' = PutPages(refs, <<Buffer(c).frags>>)
    PROVE  BalInv'
<1>1. /\ \A e \in Ctx \ {c} : Buffers(e)' = Buffers(e)
      /\ Lists(Buffers(c)')
      /\ \A g : /\ PageSum(Buffers(c), g) = PageSum(Buffers(c)', g) + PageSum(<<Buffer(c).frags>>, g)
                /\ PageSum(Buffers(c)', g) \in Nat /\ PageSum(<<Buffer(c).frags>>, g) \in Nat
  BY NextBufferPages
<1>2. /\ refs' = [g \in Pages |-> refs'[g]]
      /\ \A g \in Pages : refs'[g] = refs[g] - PageSum(<<Buffer(c).frags>>, g)
  BY PutIs
<1>3. \A g \in Pages : refs'[g] = refs[g] - PageSum(Buffers(c), g) + PageSum(Buffers(c)', g)
  <2> TAKE g \in Pages
  <2>1. PICK a, b, k, m, n : /\ a = PageSum(Buffers(c), g) /\ b = PageSum(Buffers(c)', g)
                             /\ k = PageSum(<<Buffer(c).frags>>, g) /\ m = refs[g] /\ n = refs'[g]
    OBVIOUS
  <2>2. a = b + k /\ b \in Nat /\ k \in Nat /\ m \in Int /\ n = m - k
    BY <1>1, <1>2, <2>1, RefsHere
  <2>3. n = m - a + b
    BY <2>2
  <2> QED
    BY <2>1, <2>3
<1>4. stack' = stack /\ desc' = desc
  OBVIOUS
<1> QED
  BY <1>1, <1>2, <1>3, <1>4, BufferBal

LEMMA ConsumeBal ==
    ASSUME SideInv, CoreInv, BalInv, ~clash, NEW c \in Ctx, Consume(c)
    PROVE  BalInv'
BY FreeBufferBal DEF Consume

LEMMA LinearEndBal ==
    ASSUME SideInv, CoreInv, BalInv, ~clash, NEW c \in Ctx, LinearEnd(c)
    PROVE  BalInv'
BY FreeBufferBal DEF LinearEnd

LEMMA StackFreeBal ==
    ASSUME CoreInv, BalInv, NEW c \in Ctx, StackFree(c)
    PROVE  BalInv'
<1>1. PICK s, l : s = <<>> /\ l = HeldBy(stack[c])
  OBVIOUS
<1>2. /\ stack' = [stack EXCEPT ![c] = s] /\ refs' = PutPages(refs, l)
      /\ UNCHANGED <<format, desc, ctx>>
  BY <1>1 DEF StackFree
<1>3. /\ refs' = [g \in Pages |-> refs'[g]]
      /\ \A g \in Pages : refs'[g] = refs[g] - PageSum(l, g)
  BY <1>2, PutIs
<1>4. HeldBy(s) = <<>> /\ IsSeq(s)
  <2>1. Len(s) = 0 /\ Ran(s) = {}
    BY <1>1, EmptyRan
  <2>2. HeldBy(s) \in Seq({})
    BY <2>1 DEF HeldBy
  <2>3. s \in Seq({})
    BY <1>1
  <2>4. Len(HeldBy(s)) = 0
    BY <2>1 DEF HeldBy
  <2>5. HeldBy(s) = <<>>
    BY <2>2, <2>4, EmptySeq
  <2> QED
    BY <2>1, <2>3, <2>5 DEF IsSeq
<1>5. Lists(HeldBy(s)) /\ \A g : PageSum(HeldBy(s), g) = 0
  BY <1>4, NoUse
<1>6. Lists(l)
  BY <1>1, AllListsAre, KeyNames DEF BalInv
<1>7. \A g \in Pages : refs'[g] = refs[g] - PageSum(HeldBy(stack[c]), g) + PageSum(HeldBy(s), g)
  BY <1>1, <1>3, <1>5, <1>6, UsesFinite, RefsHere
<1>8. StackChange(c, s)
  BY <1>2, <1>3, <1>4, <1>5 DEF StackChange
<1>9. desc' = desc /\ \A e \in Ctx : Buffers(e)' = Buffers(e)
  BY <1>2, SameBuffers
<1> QED
  BY <1>7, <1>8, <1>9, StackBal

-----------------------------------------------------------------------------
(* Buffers in pages.                                                        *)

LEMMA DeaggregateEndBal ==
    ASSUME SideInv, CoreInv, BalInv, ~clash, NEW c \in Ctx, DeaggregateEnd(c)
    PROVE  BalInv'
<1>1. /\ ctx[c].pc = "deaggregate" /\ ctx' = [ctx EXCEPT ![c].pc = "handle"]
      /\ UNCHANGED <<format, desc, refs, stack>>
  BY DEF DeaggregateEnd, StopDeaggregation
<1>2. Still(c) /\ \A e \in Ctx \ {c} : ctx'[e] = ctx[e]
  BY <1>1 DEF Still, CoreInv, TypeInv, CtxRec
<1>3. \A e \in Ctx : Buffers(e)' = Buffers(e)
  BY <1>1, <1>2, SameBuffers
<1> QED
  BY <1>1, <1>3, QuietBal

LEMMA DeaggregateOneBal ==
    ASSUME SideInv, CoreInv, BalInv, ~clash, NEW c \in Ctx, NEW d, DeaggregateOne(c, d)
    PROVE  BalInv'
<1>1. PICK want, fr : /\ want = WireLen(format.flags, Buffer(c).pkts[ctx[c].nth + 1])
                      /\ fr = Ranges(ctx[c].rest, 0, want)
  OBVIOUS
<1>2. /\ ctx[c].pc = "deaggregate" /\ <<d>> \in Taken(1) /\ UNCHANGED <<format, stack>>
      /\ FragsLen(ctx[c].rest) >= MapLen
      /\ \/ StopDeaggregation(c) /\ UNCHANGED <<desc, refs>>
         \/ /\ want <= FragsLen(ctx[c].rest) /\ GotDescriptors(<<d>>)
            /\ desc' = [desc EXCEPT ![d] = [Blank EXCEPT !.frags = fr, !.nth = ctx[c].nth + 1]]
            /\ refs' = GetPages(refs, <<fr>>)
            /\ ctx' = [ctx EXCEPT ![c].rest = Pull(@, want), ![c].nth = @ + 1,
                                  ![c].list = Append(@, d)]
  BY <1>1 DEF DeaggregateOne
<1>3. CASE StopDeaggregation(c) /\ UNCHANGED <<desc, refs>>
  <2>1. Still(c) /\ \A e \in Ctx \ {c} : ctx'[e] = ctx[e]
    BY <1>2, <1>3 DEF Still, StopDeaggregation, CoreInv, TypeInv, CtxRec
  <2>2. \A e \in Ctx : Buffers(e)' = Buffers(e)
    BY <1>2, <2>1, SameBuffers
  <2> QED
    BY <1>2, <1>3, <2>2, QuietBal
<1>4. CASE /\ desc' = [desc EXCEPT ![d] = [Blank EXCEPT !.frags = fr, !.nth = ctx[c].nth + 1]]
           /\ refs' = GetPages(refs, <<fr>>)
           /\ ctx' = [ctx EXCEPT ![c].rest = Pull(@, want), ![c].nth = @ + 1,
                                 ![c].list = Append(@, d)]
  <2>1. d \in Desc /\ desc[d].frags = <<>>
    BY <1>2, TakeOne
  <2>2. Still(c) /\ \A e \in Ctx \ {c} : ctx'[e] = ctx[e]
    BY <1>2, <1>4 DEF Still, CoreInv, TypeInv, CtxRec
  <2>3. \A e \in Ctx : Buffers(e)' = Buffers(e)
    BY <1>2, <2>2, SameBuffers
  <2>4. desc'[d].frags = fr /\ \A e \in Desc \ {d} : desc'[e].frags = desc[e].frags
    BY <1>4, <2>1 DEF CoreInv, TypeInv, Blank
  <2>5. Len(fr) \in Nat
    <3>1. CoreInv'
      BY DeaggregateOneCore
    <3>2. desc'[d] \in DescRec
      BY <2>1, <3>1 DEF CoreInv, TypeInv
    <3>3. fr \in Seq(Fragments(Pages))
      BY <2>4, <3>2 DEF DescRec
    <3> QED
      BY <3>3
  <2>6. /\ refs' = [g \in Pages |-> refs'[g]]
        /\ \A g \in Pages : refs'[g] = refs[g] + PageSum(<<fr>>, g)
    BY <1>4, GetIs
  <2>7. \A g \in Pages : refs'[g] = refs[g] - PageSum(<<desc[d].frags>>, g) + PageSum(<<desc'[d].frags>>, g)
    <3> TAKE g \in Pages
    <3>1. PageSum(<<desc[d].frags>>, g) = 0 /\ PageSum(<<fr>>, g) \in Nat
      BY <2>1, <2>5, NoUse, OneUse
    <3> QED
      BY <2>4, <2>6, <3>1, RefsHere
  <2>8. DescChange(d)
    BY <1>2, <2>1, <2>3, <2>4, <2>5, <2>6, <2>7 DEF DescChange
  <2> QED
    BY <2>8, DescBal
<1> QED
  BY <1>2, <1>3, <1>4

LEMMA HandlingPages ==
    ASSUME SideInv, CoreInv, ~clash, NEW c \in Ctx, Handling(c)
    PROVE  Current(c) \in Desc /\ Current(c) \in Ran(ctx[c].list)
<1>1. Current(c) \in Ran(ctx[c].list) /\ ctx[c].pc = "handle"
  BY HandlingIs
<1> QED
  BY <1>1, OnList

\* The next packet, and the same buffer
LEMMA HandleStill ==
    ASSUME CoreInv, NEW c \in Ctx, Handling(c), format' = format,
           \/ NextPacket(c)
           \/ \E d : TwiceRecycled(c, d)
           \/ \E segs : DeliverNext(c, segs)
    PROVE  \A e \in Ctx : Buffers(e)' = Buffers(e)
<1>1. PICK x, A : x = ctx[c] /\ A = alive
  OBVIOUS
<1>2. /\ x.pc = "handle" /\ x \in CtxRec(A) /\ ctx \in [Ctx -> CtxRec(A)] /\ TypeInv
  BY <1>1 DEF Handling, CoreInv, TypeInv
<1>3. CASE NextPacket(c)
  <2>1. Still(c) /\ \A e \in Ctx \ {c} : ctx'[e] = ctx[e]
    BY <1>1, <1>2, <1>3 DEF Still, NextPacket, CtxRec
  <2> QED
    BY <2>1, SameBuffers
<1>4. CASE \E d : TwiceRecycled(c, d)
  <2>1. PICK d : TwiceRecycled(c, d)
    BY <1>4
  <2> DEFINE y == [x EXCEPT !.list = Tail(x.list), !.again = d, !.pc = "again"]
  <2>2. ctx' = [ctx EXCEPT ![c] = y]
    BY <1>1, <1>2, <2>1 DEF TwiceRecycled, CtxRec
  <2>3. y.pc # "idle" /\ y.chain = ctx[c].chain /\ y.buf = ctx[c].buf /\ ctx[c].pc # "idle"
    BY <1>1, <1>2 DEF CtxRec
  <2> HIDE DEF y
  <2> QED
    BY <1>2, <2>2, <2>3, StillBuffers
<1>5. CASE \E segs : DeliverNext(c, segs)
  <2>1. PICK segs : DeliverNext(c, segs)
    BY <1>5
  <2> DEFINE y == [x EXCEPT !.list = Tail(x.list), !.segs = segs,
                            !.pc = IF segs = <<>> THEN "handle" ELSE "deliver"]
  <2>2. ctx' = [ctx EXCEPT ![c] = y]
    BY <1>1, <1>2, <2>1 DEF DeliverNext, CtxRec
  <2>3. y.pc # "idle" /\ y.chain = ctx[c].chain /\ y.buf = ctx[c].buf /\ ctx[c].pc # "idle"
    BY <1>1, <1>2 DEF CtxRec
  <2> HIDE DEF y
  <2> QED
    BY <1>2, <2>2, <2>3, StillBuffers
<1> QED
  BY <1>3, <1>4, <1>5

LEMMA SkipBal ==
    ASSUME SideInv, CoreInv, BalInv, ~clash, NEW c \in Ctx, Handling(c), Recycle(Current(c)),
           NextPacket(c) \/ TwiceRecycled(c, Current(c)), UNCHANGED <<format, stack>>
    PROVE  BalInv'
<1>1. PICK d : d = Current(c)
  OBVIOUS
<1>2. d \in Desc /\ Recycle(d) /\ stack' = stack
  BY <1>1, HandlingPages
<1>3. \A e \in Ctx : Buffers(e)' = Buffers(e)
  BY HandleStill
<1> QED
  BY <1>2, <1>3, RecycleBal DEF CoreInv

LEMMA HandleCommandBal ==
    ASSUME SideInv, CoreInv, BalInv, ~clash, NEW c \in Ctx, HandleCommand(c)
    PROVE  BalInv'
BY SkipBal DEF HandleCommand

LEMMA HandleDropBal ==
    ASSUME SideInv, CoreInv, BalInv, ~clash, NEW c \in Ctx, HandleDrop(c)
    PROVE  BalInv'
BY SkipBal DEF HandleDrop

LEMMA ToPacketBal ==
    ASSUME SideInv, CoreInv, BalInv, ~clash, CoreInv', NEW c \in Ctx, Handling(c), NEW hdrs, NEW len, NEW valid,
           ToPacket(Current(c), hdrs, len, valid), DeliverNext(c, <<Current(c)>>),
           UNCHANGED <<format, stack>>
    PROVE  BalInv'
<1>1. PICK d, new : d = Current(c) /\ new = Trim(Stripped(d, hdrs), len)
  OBVIOUS
<1>2. /\ desc' = [desc EXCEPT ![d].frags = new, ![d].valid = valid]
      /\ refs' = GetPages(PutPages(refs, <<desc[d].frags>>), <<new>>)
  BY <1>1 DEF ToPacket
<1>3. d \in Desc
  BY <1>1, HandlingPages
<1>4. desc'[d].frags = new /\ \A e \in Desc \ {d} : desc'[e].frags = desc[e].frags
  BY <1>2, <1>3 DEF CoreInv, TypeInv, DescRec
<1>5. Len(new) \in Nat
  <2>1. desc'[d] \in DescRec
    BY <1>3 DEF CoreInv, TypeInv
  <2>2. new \in Seq(Fragments(Pages))
    BY <1>4, <2>1 DEF DescRec
  <2> QED
    BY <2>2
<1>6. \A e \in Ctx : Buffers(e)' = Buffers(e)
  BY HandleStill
<1>7. TypeInv /\ stack' = stack
  BY DEF CoreInv
<1> QED
  BY <1>2, <1>3, <1>4, <1>5, <1>6, <1>7, ReplaceBal

LEMMA HandlePlainBal ==
    ASSUME SideInv, CoreInv, BalInv, ~clash, NEW c \in Ctx, HandlePlain(c)
    PROVE  BalInv'
<1>1. CoreInv'
  BY HandlePlainCore
<1>2. /\ Handling(c) /\ UNCHANGED <<format, stack>>
      /\ \/ Recycle(Current(c)) /\ NextPacket(c)
         \/ \E len : ToPacket(Current(c), MapLen, len, FALSE) /\ DeliverNext(c, <<Current(c)>>)
  BY DEF HandlePlain
<1> QED
  BY <1>1, <1>2, SkipBal, ToPacketBal

LEMMA HandleCsumBal ==
    ASSUME SideInv, CoreInv, BalInv, ~clash, NEW c \in Ctx, HandleCsum(c)
    PROVE  BalInv'
<1>1. CoreInv'
  BY HandleCsumCore
<1>2. /\ Handling(c) /\ UNCHANGED <<format, stack>>
      /\ \/ Recycle(Current(c)) /\ TwiceRecycled(c, Current(c))
         \/ \E hdrs, len, valid : ToPacket(Current(c), hdrs, len, valid) /\ DeliverNext(c, <<Current(c)>>)
  BY DEF HandleCsum
<1> QED
  BY <1>1, <1>2, SkipBal, ToPacketBal

LEMMA CoalWholeBal ==
    ASSUME SideInv, CoreInv, BalInv, ~clash, NEW c \in Ctx, Handling(c), NEW d, d = Current(c),
           NEW fr, Len(fr) \in Nat, NEW r, CoalWhole(c, d, fr, r), UNCHANGED <<format, stack>>
    PROVE  BalInv'
<1>1. /\ desc' = [desc EXCEPT ![d] =
           [desc[d] EXCEPT !.frags = fr, !.hdr = r.hlen, !.valid = r.out[1].valid,
                     !.seg = <<0, r.out[1].dlen>>]]
      /\ refs' = GetPages(PutPages(refs, <<desc[d].frags>>), <<fr>>)
      /\ DeliverNext(c, <<d>>)
  BY DEF CoalWhole
<1>2. d \in Desc
  BY HandlingPages
<1>3. desc'[d].frags = fr /\ \A e \in Desc \ {d} : desc'[e].frags = desc[e].frags
  BY <1>1, <1>2 DEF CoreInv, TypeInv, DescRec
<1>4. \A e \in Ctx : Buffers(e)' = Buffers(e)
  BY <1>1, HandleStill
<1>5. TypeInv /\ stack' = stack
  BY DEF CoreInv
<1> QED
  BY <1>1, <1>2, <1>3, <1>4, <1>5, ReplaceBal

-----------------------------------------------------------------------------
(* A frame is cut up.                                                       *)

DescKeys(q, n) == {<<"desc", q[i]>> : i \in 1 .. n}
HoldNothing(L, q, n) == \A i \in 1 .. n : L[<<"desc", q[i]>>] = << <<>> >>
HoldOne(M, q, n, l) ==
    /\ \A i, j \in 1 .. n : q[i] = q[j] => i = j
    /\ n \in Nat /\ Len(l) = n /\ Lists(l) /\ \A i \in 1 .. n : M[<<"desc", q[i]>>] = <<l[i]>>

\* Descriptors that hold nothing
LEMMA SpreadNone ==
    ASSUME NEW L, NEW q, NEW n, HoldNothing(L, q, n), NEW k, Lists(L[k]), NEW g
    PROVE  Cardinality(UsedOn(L, {k} \cup DescKeys(q, n), g)) = PageSum(L[k], g)
<1>1. PICK one : one = << <<>> >>
  OBVIOUS
<1>2. PageUses(one, g) = {}
  <2>1. Len(one) = 1 /\ one[1] = <<>>
    BY <1>1
  <2> QED
    BY <2>1, UsesAre, NoneInPage
<1>3. \A e \in DescKeys(q, n) : Tag(e, PageUses(L[e], g)) = {}
  <2> TAKE e \in DescKeys(q, n)
  <2>1. PICK i \in 1 .. n : e = <<"desc", q[i]>>
    BY DEF DescKeys
  <2>2. L[e] = one
    BY <1>1, <2>1 DEF HoldNothing
  <2> QED
    BY <1>2, <2>2 DEF Tag
<1>4. UsedOn(L, {k} \cup DescKeys(q, n), g) = Tag(k, PageUses(L[k], g))
  <2> HIDE DEF DescKeys
  <2> QED
    BY <1>3 DEF UsedOn
<1> QED
  BY <1>4, UsesFinite, TagFinite

\* Descriptors that hold one list each
LEMMA SpreadUses ==
    ASSUME NEW M, NEW q, NEW n, NEW l, HoldOne(M, q, n, l), NEW k, NEW one, one = << <<>> >>, M[k] = one, NEW g
    PROVE  Cardinality(UsedOn(M, {k} \cup DescKeys(q, n), g)) = PageSum(l, g)
<1>0. /\ \A i, j \in 1 .. n : q[i] = q[j] => i = j
      /\ n \in Nat /\ Len(l) = n /\ Lists(l) /\ \A i \in 1 .. n : M[<<"desc", q[i]>>] = <<l[i]>>
  BY DEF HoldOne
<1> USE <1>0
<1> DEFINE U == PageUses(l, g)
           V == UsedOn(M, {k} \cup DescKeys(q, n), g)
           At(i) == Tag(<<"desc", q[i]>>, Tag(1, InPage(l[i], g)))
           f == [u \in U |-> << <<"desc", q[u[1]]>>, <<1, u[2]>> >>]
<1>1. Tag(k, PageUses(M[k], g)) = {}
  <2>2. Len(one) = 1 /\ one[1] = <<>>
    OBVIOUS
  <2>3. PageUses(one, g) = {}
    BY <2>2, UsesAre, NoneInPage
  <2> QED
    BY <2>3 DEF Tag
<1>2. ASSUME NEW i \in 1 .. n
      PROVE  Tag(<<"desc", q[i]>>, PageUses(M[<<"desc", q[i]>>], g)) = At(i)
  <2>1. Len(l[i]) \in Nat
    BY DEF Lists
  <2>2. PageUses(<<l[i]>>, g) = Tag(1, InPage(l[i], g))
    BY <2>1, OneUse
  <2> QED
    BY <2>2
<1>3. \A v : v \in V <=> \E i \in 1 .. n : v \in At(i)
  <2> HIDE DEF At
  <2>1. \A v : v \in V <=> \/ v \in Tag(k, PageUses(M[k], g))
                           \/ \E e \in DescKeys(q, n) : v \in Tag(e, PageUses(M[e], g))
    BY DEF UsedOn
  <2>2. \A v : (\E e \in DescKeys(q, n) : v \in Tag(e, PageUses(M[e], g)))
                 <=> \E i \in 1 .. n : v \in Tag(<<"desc", q[i]>>, PageUses(M[<<"desc", q[i]>>], g))
    BY DEF DescKeys
  <2>3. \A i \in 1 .. n : Tag(<<"desc", q[i]>>, PageUses(M[<<"desc", q[i]>>], g)) = At(i)
    BY <1>2
  <2>4. \A v : (\E i \in 1 .. n : v \in Tag(<<"desc", q[i]>>, PageUses(M[<<"desc", q[i]>>], g)))
                 <=> \E i \in 1 .. n : v \in At(i)
    BY <2>3
  <2> HIDE DEF V
  <2> QED
    BY <1>1, <2>1, <2>2, <2>4
<1>4. \A v : v \in V <=> \E i \in 1 .. n : \E j \in InPage(l[i], g) :
                             v = << <<"desc", q[i]>>, <<1, j>> >>
  <2>1. ASSUME NEW i, NEW v
        PROVE  v \in At(i) <=> \E j \in InPage(l[i], g) : v = << <<"desc", q[i]>>, <<1, j>> >>
    BY DEF Tag
  <2> HIDE DEF V, At
  <2> QED
    BY <1>3, <2>1
<1>5. \A u : u \in U <=> \E i \in 1 .. n : \E j \in InPage(l[i], g) : u = <<i, j>>
  BY UsesAre
<1> HIDE DEF U, V
<1>6. ASSUME NEW u \in U
      PROVE  u = <<u[1], u[2]>> /\ u[1] \in 1 .. n /\ u[2] \in InPage(l[u[1]], g)
  BY <1>5
<1>7. f \in [U -> V]
  BY <1>4, <1>6
<1>8. \A u, w \in U : f[u] = f[w] => u = w
  <2> TAKE u, w \in U
  <2> HAVE f[u] = f[w]
  <2>1. q[u[1]] = q[w[1]] /\ u[2] = w[2]
    OBVIOUS
  <2>2. u[1] = w[1]
    BY <1>6, <2>1
  <2> QED
    BY <1>6, <2>1, <2>2
<1>9. \A u \in U : f[u] = << <<"desc", q[u[1]]>>, <<1, u[2]>> >>
  OBVIOUS
<1> HIDE DEF f
<1>11. ASSUME NEW v \in V PROVE \E u \in U : f[u] = v
  <2>0. PICK i \in 1 .. n : \E j \in InPage(l[i], g) : v = << <<"desc", q[i]>>, <<1, j>> >>
    BY <1>4, <1>11
  <2>1. PICK j \in InPage(l[i], g) : v = << <<"desc", q[i]>>, <<1, j>> >>
    BY <2>0
  <2>2. <<i, j>> \in U /\ <<i, j>>[1] = i /\ <<i, j>>[2] = j
    BY <1>5
  <2>3. f[<<i, j>>] = v
    BY <1>9, <2>1, <2>2
  <2> QED
    BY <2>2, <2>3
<1>10. ExistsBijection(U, V)
  BY <1>7, <1>8, <1>11 DEF ExistsBijection, Bijection, Injection, Surjection, IsInjective
<1>12. IsFiniteSet(U) /\ PageSum(l, g) = Cardinality(U)
  BY UsesFinite DEF U
<1> QED
  BY <1>10, <1>12, FS_Bijection DEF V

LEMMA CoalCutBal ==
    ASSUME SideInv, CoreInv, BalInv, ~clash, NEW c \in Ctx, Handling(c), NEW d, d = Current(c),
           d \in Ran(ctx[c].list), d \in alive, d \in Desc,
           desc[d] \in DescRec, NEW ip, NEW len \in Nat,
           NEW fr \in Seq(Fragments(Pages)), FragsLen(fr) = len,
           NEW r, Result(r, ip, len),
           ~r.reuse => \A i \in 1 .. Len(r.out) : r.hlen + r.out[i].off + r.out[i].dlen <= len,
           NEW k \in Nat, CoalCut(c, d, fr, r, k), UNCHANGED <<format, stack>>
    PROVE  BalInv'
<1>1. PICK n, new, m, l : /\ n = Len(r.out) /\ new = CoalSegments(d, fr, r) /\ m = n + k
                          /\ l = FragsOf(new)
  OBVIOUS
<1>2. ~r.reuse /\ n \in Nat /\ m \in Nat
  BY <1>1 DEF CoalCut, Result
<1>3. Len(new) = n /\ \A i \in 1 .. n : new[i] \in DescRec
  <2>1. \A i \in 1 .. n : new[i] \in DescRec
    BY <1>1, <1>2, CoalSegmentsAre
  <2>2. new = [i \in 1 .. n |-> new[i]]
    BY <1>1 DEF CoalSegments
  <2>3. Len([i \in 1 .. n |-> new[i]]) = n
    BY <1>2
  <2>4. Len(new) = n
    BY <2>2, <2>3
  <2> QED
    BY <2>1, <2>4
<1>4. PICK q \in Taken(m) :
          /\ desc' = Filled([desc EXCEPT ![d] = Blank], SubSeq(q, 1, n), new)
          /\ DeliverNext(c, SubSeq(q, 1, n))
  BY <1>1 DEF CoalCut
<1>5. refs' = GetPages(PutPages(refs, <<desc[d].frags>>), l)
  BY <1>1 DEF CoalCut
<1>6. /\ q \in Seq(Desc) /\ Len(q) = m /\ Inj(q) /\ Ran(q) \subseteq Desc
      /\ \A e \in Ran(q) : e \notin alive \/ e \in Ran(free)
  BY <1>2, TakenIs
<1>7. PICK qs : qs = SubSeq(q, 1, n)
  OBVIOUS
<1>8. /\ qs \in Seq(Desc) /\ Len(qs) = n /\ Inj(qs) /\ Ran(qs) \subseteq Ran(q)
  <2>1. 1 \in Nat \ {0} /\ n \in 0 .. Len(q)
    BY <1>1, <1>2, <1>6
  <2>2. /\ qs \in Seq(Desc) /\ Ran(qs) = {q[i] : i \in 1 .. n} /\ Inj(qs)
        /\ Len(qs) = (IF 1 <= n THEN n - 1 + 1 ELSE 0)
    BY <1>6, <1>7, <2>1, SubRan
  <2>3. \A i \in 1 .. n : i \in 1 .. Len(q)
    BY <2>1
  <2>4. Len(qs) = n
    BY <1>2, <2>2
  <2>5. Ran(qs) \subseteq Ran(q)
    BY <2>2, <2>3 DEF Ran
  <2> QED
    BY <2>2, <2>4, <2>5
<1>9. d \notin Ran(qs) /\ \A e \in Ran(qs) : e \in Desc /\ desc[e].frags = <<>>
  <2>1. Ran(free) \cap Ran(ctx[c].list) = {}
    BY Apart
  <2>2. d \notin Ran(qs)
    BY <1>6, <1>8, <2>1
  <2> QED
    BY <1>6, <1>8, <2>2, FreeBlank
<1>10. PICK all : all = [desc EXCEPT ![d] = Blank]
  OBVIOUS
<1>11. all \in [Desc -> DescRec] /\ all[d] = Blank /\ \A e \in Desc \ {d} : all[e] = desc[e]
  BY <1>10, BlankRec DEF CoreInv, TypeInv
<1>12. /\ \A e \in Desc \ Ran(qs) : desc'[e] = all[e]
       /\ \A e \in Ran(qs) : \E i \in 1 .. n : qs[i] = e /\ desc'[e] = new[i]
  <2>1. Ran(qs) \subseteq Desc /\ \A i \in 1 .. Len(qs) : new[i] \in DescRec
    BY <1>3, <1>8, <1>9
  <2>2. desc' = Filled(all, qs, new)
    BY <1>4, <1>7, <1>10
  <2> QED
    BY <1>8, <1>11, <2>1, <2>2, FilledIs
<1>13. \A i \in 1 .. n : qs[i] \in Ran(qs) /\ desc'[qs[i]] = new[i]
  BY <1>8, <1>12, SMTT(40) DEF Ran, Inj
<1>14. /\ desc'[d].frags = <<>>
       /\ \A e \in Desc : e = d \/ e \in Ran(qs) \/ desc'[e].frags = desc[e].frags
  BY <1>9, <1>11, <1>12, BlankRec
<1>15. PICK k0, C, L, M : k0 = <<"desc", d>> /\ C = {k0} \cup DescKeys(qs, n) /\ L = AllLists /\ M = AllLists'
  OBVIOUS
<1>16. Len(l) = n /\ Lists(l) /\ \A i \in 1 .. n : l[i] = new[i].frags
  <2>1. Len(l) = n /\ \A i \in 1 .. n : l[i] = new[i].frags
    BY <1>1, <1>2, <1>3 DEF FragsOf
  <2>2. ASSUME NEW i \in 1 .. n PROVE Len(l[i]) \in Nat
    <3>1. l[i] \in Seq(Fragments(Pages))
      BY <1>3, <2>1 DEF DescRec
    <3> QED
      BY <3>1
  <2> QED
    BY <1>2, <2>1, <2>2 DEF Lists
<1>17. /\ L[k0] = <<desc[d].frags>> /\ M[k0] = << <<>> >> /\ k0 \in Keys
       /\ \A i \in 1 .. n : /\ <<"desc", qs[i]>> \in Keys
                            /\ L[<<"desc", qs[i]>>] = << <<>> >>
                            /\ M[<<"desc", qs[i]>>] = <<l[i]>>
  <2>1. k0 \in Keys /\ L[k0] = <<desc[d].frags>> /\ M[k0] = << <<>> >>
    BY <1>14, <1>15, AllListsAre, KeyNames
  <2>2. ASSUME NEW i \in 1 .. n
        PROVE  /\ <<"desc", qs[i]>> \in Keys
               /\ L[<<"desc", qs[i]>>] = << <<>> >>
               /\ M[<<"desc", qs[i]>>] = <<l[i]>>
    <3>1. PICK e : e = qs[i]
      OBVIOUS
    <3>2. e \in Desc /\ desc[e].frags = <<>> /\ desc'[e].frags = l[i]
      BY <1>9, <1>13, <1>16, <3>1
    <3>3. /\ <<"desc", e>> \in Keys /\ AllLists[<<"desc", e>>] = <<desc[e].frags>>
          /\ AllLists'[<<"desc", e>>] = <<desc'[e].frags>>
      BY <3>2, AllListsAre, KeyNames
    <3> QED
      BY <1>15, <3>1, <3>2, <3>3
  <2> QED
    BY <2>1, <2>2
<1>18. Lists(L[k0]) /\ \A e \in C : Lists(M[e])
  <2>1. Lists(L[k0])
    BY <1>15, <1>17 DEF BalInv
  <2>2. Lists(M[k0])
    <3>1. PICK z : z = <<>>
      OBVIOUS
    <3>2. Len(z) \in Nat
      BY <3>1
    <3> QED
      BY <1>17, <3>1, <3>2, OneUse
  <2>3. ASSUME NEW i \in 1 .. n PROVE Lists(M[<<"desc", qs[i]>>])
    BY <1>16, <1>17, OneUse DEF Lists
  <2> QED
    BY <1>15, <2>1, <2>2, <2>3 DEF DescKeys
<1>19. \A e \in Keys \ C : M[e] = L[e]
  <2>1. \A e \in Desc : <<"desc", e>> \in C \/ desc'[e].frags = desc[e].frags
    <3> TAKE e \in Desc
    <3>1. CASE e \in Ran(qs)
      BY <1>8, <1>15, <3>1 DEF Ran, DescKeys
    <3> QED
      BY <1>14, <1>15, <3>1
  <2>2. \A e \in Ctx : Buffers(e)' = Buffers(e)
    BY <1>4, HandleStill
  <2>3. \A e \in Keys \ C : AllLists'[e] = AllLists[e]
    BY <2>1, <2>2, KeptLists
  <2> QED
    BY <1>15, <2>3
<1>20. ASSUME NEW g
       PROVE  /\ Cardinality(UsedOn(L, C, g)) = PageSum(<<desc[d].frags>>, g)
              /\ Cardinality(UsedOn(M, C, g)) = PageSum(l, g)
  <2>1. Cardinality(UsedOn(L, {k0} \cup DescKeys(qs, n), g)) = PageSum(L[k0], g)
    <3>1. Lists(L[k0]) /\ HoldNothing(L, qs, n)
      BY <1>17, <1>18 DEF HoldNothing
    <3> QED
      BY ONLY <3>1, SpreadNone
  <2>2. \A i, j \in 1 .. n : qs[i] = qs[j] => i = j
    BY <1>8 DEF Inj
  <2>3. PICK one : one = << <<>> >> /\ M[k0] = one
    BY <1>17
  <2>5. HoldOne(M, qs, n, l)
    BY <1>2, <1>16, <1>17, <2>2 DEF HoldOne
  <2>4. Cardinality(UsedOn(M, {k0} \cup DescKeys(qs, n), g)) = PageSum(l, g)
    BY ONLY <2>3, <2>5, SpreadUses
  <2> QED
    BY <1>15, <1>17, <2>1, <2>4
<1>21. /\ refs' = [g \in Pages |-> refs'[g]]
       /\ \A g \in Pages : refs'[g] = refs[g] - PageSum(<<desc[d].frags>>, g) + PageSum(l, g)
  BY <1>5, PutGetIs
<1>22. StackInv'
  BY StackSame DEF BalInv
<1>23. C \subseteq Keys
  BY <1>15, <1>17 DEF DescKeys
<1>24. \A g \in Pages : refs'[g] = refs[g] - Cardinality(UsedOn(AllLists, C, g))
                                         + Cardinality(UsedOn(AllLists', C, g))
  BY <1>15, <1>20, <1>21
<1>25. (\A e \in Keys \ C : AllLists'[e] = AllLists[e]) /\ \A e \in C : Lists(AllLists'[e])
  BY <1>15, <1>18, <1>19
<1> QED
  BY <1>21, <1>22, <1>23, <1>24, <1>25, BalStep

LEMMA HandleCoalBal ==
    ASSUME SideInv, CoreInv, BalInv, ~clash, NEW c \in Ctx, HandleCoal(c)
    PROVE  BalInv'
<1>1. PICK d, p, fr : d = Current(c) /\ p = PktOf(c, d) /\ fr = Stripped(d, MapLen + CoalLen)
  OBVIOUS
<1>2. PICK sums \in FragValidateCsum(p.ip, fr), fails \in Failing :
          LET r == FragSegments(p, fr, format.features, sums, fails)
          IN  CoalWhole(c, d, fr, r) \/ \E k \in 0 .. r.calls - Len(r.out) : CoalCut(c, d, fr, r, k)
  BY <1>1 DEF HandleCoal
<1>3. PICK r : r = FragSegments(p, fr, format.features, sums, fails)
  OBVIOUS
<1>4. /\ Handling(c) /\ fr \in Seq(Fragments(Pages)) /\ FragsLen(fr) = p.len
      /\ p.len \in Nat
      /\ d \in Ran(ctx[c].list) /\ d \in alive /\ d \in Desc /\ desc[d] \in DescRec
  BY <1>1, CoalIs
<1>5. Result(r, p.ip, p.len) /\ (~r.reuse => \A k \in 1 .. Len(r.out) :
                           r.hlen + r.out[k].off + r.out[k].dlen <= p.len)
  BY <1>1, <1>3, CoalIs
<1>6. UNCHANGED <<format, stack>> /\ Len(fr) \in Nat
  BY <1>4 DEF HandleCoal
<1>7. CASE CoalWhole(c, d, fr, r)
  BY <1>1, <1>4, <1>6, <1>7, CoalWholeBal
<1>8. CASE \E k \in 0 .. r.calls - Len(r.out) : CoalCut(c, d, fr, r, k)
  <2>1. PICK k \in 0 .. r.calls - Len(r.out) : CoalCut(c, d, fr, r, k)
    BY <1>8
  <2>2. k \in Nat
    OBVIOUS
  <2> QED
    BY <1>1, <1>4, <1>5, <1>6, <2>1, <2>2, CoalCutBal
<1> QED
  BY <1>2, <1>3, <1>7, <1>8

-----------------------------------------------------------------------------
(* Delivery.                                                                *)

LEMMA SegmentStill ==
    ASSUME SideInv, CoreInv, ~clash, NEW c \in Ctx, Delivering(c), format' = format, NEW d,
           \/ ctx' = [ctx EXCEPT ![c] = AfterSegment(@)]
           \/ ctx' = [ctx EXCEPT ![c] = [AfterSegment(@) EXCEPT !.again = d, !.pc = "again"]]
    PROVE  /\ \A e \in Ctx : Buffers(e)' = Buffers(e)
           /\ Head(ctx[c].segs) \in Desc
<1>1. PICK x, A : x = ctx[c] /\ A = alive
  OBVIOUS
<1>2. x.pc = "deliver" /\ x \in CtxRec(A) /\ Head(x.segs) \in Ran(ctx[c].segs) /\ TypeInv
  BY <1>1, DeliveringIs DEF CoreInv
<1>3. Head(ctx[c].segs) \in Desc
  BY <1>1, <1>2, OnSegs
<1>4. PICK y : /\ ctx' = [ctx EXCEPT ![c] = y]
               /\ \/ y = AfterSegment(x)
                  \/ y = [AfterSegment(x) EXCEPT !.again = d, !.pc = "again"]
  BY <1>1
<1>5. y.pc # "idle" /\ y.chain = x.chain /\ y.buf = x.buf
  BY <1>2, <1>4 DEF AfterSegment, CtxRec
<1>6. ctx[c].pc # "idle" /\ y.pc # "idle" /\ y.chain = ctx[c].chain /\ y.buf = ctx[c].buf
  BY <1>1, <1>2, <1>5
<1>7. \A e \in Ctx : Buffers(e)' = Buffers(e)
  BY <1>2, <1>4, <1>6, StillBuffers
<1> QED
  BY <1>3, <1>7

LEMMA DeliverNoMemBal ==
    ASSUME SideInv, CoreInv, BalInv, ~clash, NEW c \in Ctx, DeliverNoMem(c)
    PROVE  BalInv'
<1>1. PICK d : d = Head(ctx[c].segs)
  OBVIOUS
<1>2. /\ Delivering(c) /\ Recycle(d) /\ ctx' = [ctx EXCEPT ![c] = AfterSegment(@)]
      /\ UNCHANGED <<format, stack>>
  BY <1>1 DEF DeliverNoMem
<1>3. (\A e \in Ctx : Buffers(e)' = Buffers(e)) /\ d \in Desc
  BY <1>1, <1>2, SegmentStill
<1>4. TypeInv
  BY DEF CoreInv
<1> QED
  BY <1>2, <1>3, <1>4, RecycleBal

LEMMA DeliverShortBal ==
    ASSUME SideInv, CoreInv, BalInv, ~clash, NEW c \in Ctx, DeliverShort(c)
    PROVE  BalInv'
<1>1. PICK d : d = Head(ctx[c].segs)
  OBVIOUS
<1>2. /\ Delivering(c) /\ Recycle(d) /\ UNCHANGED <<format, stack>>
      /\ ctx' = [ctx EXCEPT ![c] = [AfterSegment(@) EXCEPT !.again = d, !.pc = "again"]]
  BY <1>1 DEF DeliverShort
<1>3. (\A e \in Ctx : Buffers(e)' = Buffers(e)) /\ d \in Desc
  BY <1>1, <1>2, SegmentStill
<1>4. TypeInv
  BY DEF CoreInv
<1> QED
  BY <1>2, <1>3, <1>4, RecycleBal

LEMMA AttachedIs ==
    ASSUME NEW body \in Seq(Fragments(Pages)), NEW frags \in Attached(body)
    PROVE  Len(frags) \in Nat
<1>1. CASE frags = body
  BY <1>1
<1>2. CASE frags # body
  <2>1. PICK j \in 1 .. Len(body) : j * MaxSkbFrags < Len(body)
                                    /\ frags = SubSeq(body, 1, j * MaxSkbFrags)
    BY <1>2 DEF Attached
  <2>2. PICK b : b = j * MaxSkbFrags
    OBVIOUS
  <2>3. b \in 0 .. Len(body) /\ 1 \in Nat \ {0}
    <3>1. j \in Nat /\ MaxSkbFrags \in Nat /\ Len(body) \in Nat
      BY IngressAssumption
    <3>2. b \in Nat
      BY <2>2, <3>1
    <3> QED
      BY <2>1, <2>2, <3>1, <3>2
  <2>4. SubSeq(body, 1, b) \in Seq(Fragments(Pages))
    BY <2>3, SubRan
  <2> QED
    BY <2>1, <2>2, <2>4
<1> QED
  BY <1>1, <1>2

LEMMA DeliverBal ==
    ASSUME SideInv, CoreInv, BalInv, ~clash, NEW c \in Ctx, Deliver(c)
    PROVE  BalInv'
<1>1. PICK d, x, body, s : /\ d = Head(ctx[c].segs) /\ x = desc[d] /\ body = Pull(x.frags, x.hdr)
                           /\ s = stack[c]
  OBVIOUS
<1>2. /\ Delivering(c) /\ ctx' = [ctx EXCEPT ![c] = AfterSegment(@)] /\ format' = format
      /\ desc' = [desc EXCEPT ![d] = Blank]
  BY <1>1 DEF Deliver
<1>3. PICK frags, e :
         /\ frags \in Attached(body)
         /\ stack' = [stack EXCEPT ![c] = Append(@, e)] /\ e.held = frags
         /\ refs' = PutPages(GetPages(refs, <<frags>>), <<x.frags>>)
  <2>1. PICK frags \in Attached(body) :
           /\ stack' = [stack EXCEPT ![c] = Append(@,
                       [head |-> Bytes(Ranges(x.frags, 0, x.hdr)),
                        frags |-> frags, held |-> frags, short |-> frags # body,
                        valid |-> x.valid /\ x.seg = NULL,
                        csum |-> PktOf(c, d).csum,
                        want |-> Want(format.flags, Buffer(c), x.nth, x.seg)])]
           /\ refs' = PutPages(GetPages(refs, <<frags>>), <<x.frags>>)
    BY <1>1 DEF Deliver
  <2>2. PICK e : e = [head |-> Bytes(Ranges(x.frags, 0, x.hdr)),
                        frags |-> frags, held |-> frags, short |-> frags # body,
                        valid |-> x.valid /\ x.seg = NULL,
                        csum |-> PktOf(c, d).csum,
                        want |-> Want(format.flags, Buffer(c), x.nth, x.seg)]
    OBVIOUS
  <2>3. e.held = frags
    BY <2>2
  <2> QED
    BY <2>1, <2>2, <2>3
<1>4. (\A b \in Ctx : Buffers(b)' = Buffers(b)) /\ d \in Desc
  BY <1>1, <1>2, SegmentStill
<1>5. /\ x.frags \in Seq(Fragments(Pages)) /\ x.hdr \in Nat /\ Len(x.frags) \in Nat
      /\ \A g : PageSum(<<x.frags>>, g) \in Nat
  BY <1>1, <1>4, DescLen DEF CoreInv, DescRec
<1>6. Len(frags) \in Nat
  <2>1. body \in Seq(Fragments(Pages))
    BY <1>1, <1>5, PullLen
  <2> QED
    BY <2>1, AttachedIs
<1>7. IsSeq(s) /\ Lists(HeldBy(s)) /\ stack' = [stack EXCEPT ![c] = Append(s, e)]
  BY <1>1, <1>3, AllListsAre, KeyNames DEF BalInv, StackInv
<1>8. PICK t : t = Append(s, e)
  OBVIOUS
<1>9. /\ IsSeq(t) /\ Lists(HeldBy(t))
      /\ \A g : /\ PageSum(HeldBy(t), g) = PageSum(HeldBy(s), g) + PageSum(<<frags>>, g)
                /\ PageSum(HeldBy(s), g) \in Nat
  BY <1>3, <1>6, <1>7, <1>8, HeldAppend
<1>10. /\ refs' = [g \in Pages |-> refs'[g]]
       /\ \A g \in Pages : refs'[g] = (refs[g] + PageSum(<<frags>>, g)) - PageSum(<<x.frags>>, g)
  BY <1>3, GetPutIs
<1>11. desc'[d].frags = <<>> /\ \A b \in Desc \ {d} : desc'[b].frags = desc[b].frags
  BY <1>2, <1>4, BlankRec DEF CoreInv, TypeInv
<1>12. \A g \in Pages :
          refs'[g] = refs[g] - (PageSum(HeldBy(stack[c]), g) + PageSum(<<desc[d].frags>>, g))
                             + (PageSum(HeldBy(t), g) + PageSum(<<desc'[d].frags>>, g))
  <2> TAKE g \in Pages
  <2>1. PICK a, b, h, k, m, n : /\ a = PageSum(HeldBy(s), g) /\ b = PageSum(HeldBy(t), g)
                                /\ h = PageSum(<<x.frags>>, g) /\ k = PageSum(<<frags>>, g)
                                /\ m = refs[g] /\ n = refs'[g]
    OBVIOUS
  <2>2. k \in Nat /\ h \in Nat /\ a \in Nat /\ b = a + k /\ m \in Int /\ n = (m + k) - h
    BY <1>5, <1>6, <1>9, <1>10, <2>1, OneUse, RefsHere
  <2>3. n = m - (a + h) + (b + 0)
    BY <2>2
  <2>4. PageSum(<<desc'[d].frags>>, g) = 0
    BY <1>11, NoUse
  <2> QED
    BY <1>1, <2>1, <2>3, <2>4
<1>13. StackChange(c, t)
  BY <1>7, <1>8, <1>9, <1>10 DEF StackChange
<1>14. Len(desc'[d].frags) \in Nat
  <2>1. Len(<<>>) = 0
    OBVIOUS
  <2> QED
    BY <1>11, <2>1
<1> QED
  BY <1>4, <1>11, <1>12, <1>13, <1>14, DescStackBal

LEMMA RecycleAgainBal ==
    ASSUME SideInv, CoreInv, BalInv, ~clash, NEW c \in Ctx, RecycleAgain(c)
    PROVE  BalInv'
<1>1. PICK x, d, A : x = ctx[c] /\ d = ctx[c].again /\ A = alive
  OBVIOUS
<1>2. /\ x.pc = "again" /\ Recycle(d) /\ UNCHANGED <<format, stack>>
      /\ ctx' = [ctx EXCEPT ![c].again = NULL,
                            ![c].pc = IF ctx[c].segs = <<>> THEN "handle" ELSE "deliver"]
  BY <1>1 DEF RecycleAgain
<1>3. /\ x \in CtxRec(A) /\ CtxGood(c, x, format.flags, A, hollow, runt)
      /\ ctx \in [Ctx -> CtxRec(A)] /\ TypeInv /\ A \subseteq Desc
  BY <1>1, Here DEF CoreInv, TypeInv
<1>4. d \in Desc
  BY <1>1, <1>2, <1>3 DEF CtxGood, ListsByPc
<1> DEFINE y == [x EXCEPT !.again = NULL, !.pc = IF x.segs = <<>> THEN "handle" ELSE "deliver"]
<1>5. ctx' = [ctx EXCEPT ![c] = y]
  BY <1>1, <1>2, <1>3 DEF CtxRec
<1>6. ctx[c].pc # "idle" /\ y.pc # "idle" /\ y.chain = ctx[c].chain /\ y.buf = ctx[c].buf
  BY <1>1, <1>2, <1>3 DEF CtxRec
<1> HIDE DEF y
<1>7. \A e \in Ctx : Buffers(e)' = Buffers(e)
  BY <1>2, <1>3, <1>5, <1>6, StillBuffers
<1> QED
  BY <1>2, <1>3, <1>4, <1>7, RecycleBal

-----------------------------------------------------------------------------
(* Linear buffers.                                                          *)

LEMMA LinearPages ==
    ASSUME SideInv, CoreInv, NEW c \in Ctx, LinearReady(c), NEW kept \in BOOLEAN, LinearDone(c, kept)
    PROVE  /\ ctx[c].pc # "idle" /\ UNCHANGED <<format, desc>>
           /\ Whole(c) => ctx' = [ctx EXCEPT ![c] = NextBuffer(c, "linear")]
           /\ ~Whole(c) => \A e \in Ctx : Buffers(e)' = Buffers(e)
           /\ refs' = IF Whole(c) /\ ~kept THEN PutPages(refs, <<Buffer(c).frags>>) ELSE refs
<1>1. PICK x, A, a : x = ctx[c] /\ A = alive /\ a = Avail(c)
  OBVIOUS
<1>2. x.pc = "linear" /\ x \in CtxRec(A) /\ TypeInv
  BY <1>1, LinearPktIs, Here DEF CoreInv
<1>3. /\ UNCHANGED <<format, desc>>
      /\ refs' = IF Whole(c) /\ ~kept THEN PutPages(refs, <<Buffer(c).frags>>) ELSE refs
      /\ Whole(c) => ctx' = [ctx EXCEPT ![c] = NextBuffer(c, "linear")]
  BY DEF LinearDone
<1>4. ASSUME ~Whole(c) PROVE \A e \in Ctx : Buffers(e)' = Buffers(e)
  <2>1. PICK y : y = PastPacket(x, a)
    OBVIOUS
  <2>2. ctx' = [ctx EXCEPT ![c] = y]
    BY <1>1, <1>4, <2>1 DEF LinearDone
  <2>3. y.pc = "linear" /\ y.chain = x.chain /\ y.buf = x.buf
    BY <1>2, <2>1 DEF PastPacket, CtxRec
  <2>4. ctx[c].pc # "idle" /\ y.pc # "idle" /\ y.chain = ctx[c].chain /\ y.buf = ctx[c].buf
    BY <1>1, <1>2, <2>3
  <2> QED
    BY <1>2, <1>3, <2>2, <2>4, StillBuffers
<1> QED
  BY <1>1, <1>2, <1>3, <1>4

\* The packet leaves nothing in the stack
LEMMA LinearGoneBal ==
    ASSUME SideInv, CoreInv, BalInv, NEW c \in Ctx, LinearReady(c), LinearDone(c, FALSE), stack' = stack
    PROVE  BalInv'
<1>1. /\ ctx[c].pc # "idle" /\ UNCHANGED <<format, desc>>
      /\ Whole(c) => ctx' = [ctx EXCEPT ![c] = NextBuffer(c, "linear")]
      /\ ~Whole(c) => \A e \in Ctx : Buffers(e)' = Buffers(e)
      /\ refs' = IF Whole(c) /\ ~FALSE THEN PutPages(refs, <<Buffer(c).frags>>) ELSE refs
  BY LinearPages
<1>2. CASE Whole(c)
  BY <1>1, <1>2, FreeBufferBal
<1>3. CASE ~Whole(c)
  BY <1>1, <1>3, QuietBal
<1> QED
  BY <1>2, <1>3

\* Packets go to the stack, with the buffer or without it
LEMMA LinearStackBal ==
    ASSUME SideInv, CoreInv, BalInv, NEW c \in Ctx, LinearReady(c), NEW kept \in BOOLEAN,
           LinearDone(c, kept), NEW t, stack' = [stack EXCEPT ![c] = t], IsSeq(t), Lists(HeldBy(t)),
           \A g : PageSum(HeldBy(t), g) =
                     PageSum(HeldBy(stack[c]), g)
                     + IF Whole(c) /\ kept THEN PageSum(<<Buffer(c).frags>>, g) ELSE 0
    PROVE  BalInv'
<1>1. /\ ctx[c].pc # "idle" /\ UNCHANGED <<format, desc>>
      /\ Whole(c) => ctx' = [ctx EXCEPT ![c] = NextBuffer(c, "linear")]
      /\ ~Whole(c) => \A e \in Ctx : Buffers(e)' = Buffers(e)
      /\ refs' = IF Whole(c) /\ ~kept THEN PutPages(refs, <<Buffer(c).frags>>) ELSE refs
  BY LinearPages
<1>2. \A g : PageSum(HeldBy(stack[c]), g) \in Nat
  BY AllListsAre, KeyNames, UsesFinite DEF BalInv
<1>3. /\ refs' = [g \in Pages |-> refs'[g]]
      /\ \A g \in Pages : refs'[g] = IF Whole(c) /\ ~kept THEN refs[g] - PageSum(<<Buffer(c).frags>>, g)
                                     ELSE refs[g]
  <2>1. CASE Whole(c) /\ ~kept
    BY <1>1, <2>1, PutIs
  <2>2. CASE ~(Whole(c) /\ ~kept)
    BY <1>1, <2>2, RefsHere
  <2> QED
    BY <2>1, <2>2
<1>4. StackChange(c, t)
  BY <1>3 DEF StackChange
<1>5. CASE Whole(c)
  <2>1. /\ \A e \in Ctx \ {c} : Buffers(e)' = Buffers(e)
        /\ Lists(Buffers(c)')
        /\ \A g : /\ PageSum(Buffers(c), g) = PageSum(Buffers(c)', g) + PageSum(<<Buffer(c).frags>>, g)
                  /\ PageSum(Buffers(c)', g) \in Nat /\ PageSum(<<Buffer(c).frags>>, g) \in Nat
    BY <1>1, <1>5, NextBufferPages
  <2>2. ASSUME NEW g \in Pages
        PROVE  refs'[g] = refs[g] - (PageSum(HeldBy(stack[c]), g) + PageSum(Buffers(c), g))
                                  + (PageSum(HeldBy(t), g) + PageSum(Buffers(c)', g))
    <3>1. PICK a, b, h, i, k, m, n : /\ a = PageSum(HeldBy(stack[c]), g) /\ b = PageSum(HeldBy(t), g)
                                  /\ h = PageSum(Buffers(c), g) /\ i = PageSum(Buffers(c)', g)
                                  /\ k = PageSum(<<Buffer(c).frags>>, g)
                                  /\ m = refs[g] /\ n = refs'[g]
      OBVIOUS
    <3>2. a \in Nat /\ i \in Nat /\ k \in Nat /\ h = i + k /\ m \in Int
      BY <1>2, <2>1, <3>1, RefsHere
    <3>3. (kept /\ b = a + k /\ n = m) \/ (~kept /\ b = a + 0 /\ n = m - k)
      BY <1>3, <1>5, <3>1
    <3>4. n = m - (a + h) + (b + i)
      BY <3>2, <3>3
    <3> QED
      BY <3>1, <3>4
  <2>3. desc' = desc
    BY <1>1
  <2> QED
    BY <1>4, <2>1, <2>2, <2>3, BufferStackBal
<1>6. CASE ~Whole(c)
  <2>1. \A g \in Pages : refs'[g] = refs[g] - PageSum(HeldBy(stack[c]), g) + PageSum(HeldBy(t), g)
    <3> TAKE g \in Pages
    <3>1. PICK a, b, m, n : /\ a = PageSum(HeldBy(stack[c]), g) /\ b = PageSum(HeldBy(t), g)
                            /\ m = refs[g] /\ n = refs'[g]
      OBVIOUS
    <3>2. a \in Nat /\ m \in Int /\ b = a + 0 /\ n = m
      BY <1>2, <1>3, <1>6, <3>1, RefsHere
    <3>3. n = m - a + b
      BY <3>2
    <3> QED
      BY <3>1, <3>3
  <2>2. desc' = desc /\ \A e \in Ctx : Buffers(e)' = Buffers(e)
    BY <1>1, <1>6
  <2> QED
    BY <1>4, <2>1, <2>2, StackBal
<1> QED
  BY <1>5, <1>6

LEMMA LinearCommandBal ==
    ASSUME SideInv, CoreInv, BalInv, NEW c \in Ctx, LinearCommand(c)
    PROVE  BalInv'
<1>1. LinearReady(c) /\ LinearDone(c, FALSE) /\ stack' = stack
  BY DEF LinearCommand
<1> QED
  BY <1>1, LinearGoneBal

LEMMA LinearDropBal ==
    ASSUME SideInv, CoreInv, BalInv, NEW c \in Ctx, LinearDrop(c)
    PROVE  BalInv'
<1>1. LinearReady(c) /\ LinearDone(c, FALSE) /\ stack' = stack
  BY DEF LinearDrop
<1> QED
  BY <1>1, LinearGoneBal

LEMMA BufferLen ==
    ASSUME SideInv, CoreInv, NEW c \in Ctx, LinearReady(c)
    PROVE  Len(Buffer(c).frags) \in Nat
<1>1. PICK x, F, h, r, b : x = ctx[c] /\ F = format.flags /\ h = hollow /\ r = runt /\ b = BufferAt(c, x, F)
  OBVIOUS
<1>2. F \in Formats /\ Buffer(c) = b
  BY <1>1, Here DEF CoreInv
<1>3. AtWork(c, x, F, h, r)
  BY <1>1, LinearPktIs
<1>4. b.frags \in Seq(Fragments(Pages))
  BY <1>1, <1>2, <1>3, BufferFacts
<1>5. Len(b.frags) \in Nat
  BY <1>4
<1> QED
  BY <1>2, <1>5

LEMMA LinearPacketBal ==
    ASSUME SideInv, CoreInv, BalInv, NEW c \in Ctx, LinearPacket(c)
    PROVE  BalInv'
<1>1. LinearReady(c) /\ LinearDone(c, TRUE) /\ TRUE \in BOOLEAN
  BY DEF LinearPacket
<1>2. PICK ranges, valid :
         stack' = [stack EXCEPT ![c] = Append(@, LinearSkb(c, ranges, NULL, valid, Whole(c)))]
  BY DEF LinearPacket
<1>3. PICK s, e : s = stack[c] /\ e = LinearSkb(c, ranges, NULL, valid, Whole(c))
  OBVIOUS
<1>4. e.held = IF Whole(c) THEN Buffer(c).frags ELSE <<>>
  BY <1>3 DEF LinearSkb
<1>5. IsSeq(s) /\ Lists(HeldBy(s)) /\ stack' = [stack EXCEPT ![c] = Append(s, e)]
  BY <1>2, <1>3, AllListsAre, KeyNames DEF BalInv, StackInv
<1>6. Len(e.held) \in Nat
  <2>1. Len(<<>>) = 0
    OBVIOUS
  <2> QED
    BY <1>1, <1>4, <2>1, BufferLen
<1>7. PICK t : t = Append(s, e)
  OBVIOUS
<1>8. /\ IsSeq(t) /\ Lists(HeldBy(t))
      /\ \A g : PageSum(HeldBy(t), g) = PageSum(HeldBy(s), g) + PageSum(<<e.held>>, g)
  BY <1>5, <1>6, <1>7, HeldAppend
<1>9. \A g : PageSum(<<e.held>>, g) = IF Whole(c) /\ TRUE THEN PageSum(<<Buffer(c).frags>>, g) ELSE 0
  BY <1>4, NoUse
<1>10. stack' = [stack EXCEPT ![c] = t]
  BY <1>5, <1>7
<1>11. \A g : PageSum(HeldBy(t), g) =
                 PageSum(HeldBy(stack[c]), g)
                 + IF Whole(c) /\ TRUE THEN PageSum(<<Buffer(c).frags>>, g) ELSE 0
  BY <1>3, <1>8, <1>9
<1> QED
  BY <1>1, <1>8, <1>10, <1>11, LinearStackBal

LEMMA LinearCoalBal ==
    ASSUME SideInv, CoreInv, BalInv, NEW c \in Ctx, LinearCoal(c)
    PROVE  BalInv'
<1> DEFINE P == LinearPkt(c)
           Fr == Pull(Ranges(ctx[c].rest, 0, Avail(c)), MapLen + CoalLen)
           Skb(fr, r, i) ==
              LinearSkb(c, IF r.reuse /\ Whole(c) THEN fr
                           ELSE AddFragsFrom(Ranges(fr, 0, r.hlen), fr,
                                             r.hlen + r.out[i].off, r.out[i].dlen),
                        <<r.out[i].off, r.out[i].dlen>>, r.out[i].valid, r.reuse /\ Whole(c))
<1>1. PICK p, frags : p = P /\ frags = Fr
  OBVIOUS
<1>2. LinearReady(c) /\ p.type = "coal" /\ SkbCheckCoalHeader(p.coal)
  BY <1>1 DEF LinearCoal
<1>3. PICK fails, r, v :
         /\ r = SkbSegments(p, FragsLen(frags), format.features, fails)
         /\ v = [i \in 1 .. Len(r.out) |-> Skb(frags, r, i)]
         /\ stack' = [stack EXCEPT ![c] = @ \o v]
         /\ LinearDone(c, r.reuse)
  <2>1. PICK r \in {SkbSegments(P, FragsLen(Fr), format.features, fails) : fails \in Failing} :
          /\ stack' = [stack EXCEPT ![c] = @ \o [i \in 1 .. Len(r.out) |-> Skb(Fr, r, i)]]
          /\ LinearDone(c, r.reuse)
    BY Zenon DEF LinearCoal
  <2> HIDE DEF P, Fr, Skb
  <2>2. PICK fails \in Failing : r = SkbSegments(P, FragsLen(Fr), format.features, fails)
    BY <2>1
  <2>3. PICK v : v = [i \in 1 .. Len(r.out) |-> Skb(Fr, r, i)]
    OBVIOUS
  <2> QED
    BY <1>1, <2>1, <2>2, <2>3
<1>4. Result(r, p.ip, FragsLen(frags))
  <2>1. /\ ctx[c].rest \in Seq(Fragments(Pages)) /\ IsPacket(p) /\ Avail(c) \in Nat
        /\ Avail(c) <= FragsLen(ctx[c].rest)
    BY <1>1, <1>2, LinearPktIs
  <2>2. PICK rest, a, l : rest = ctx[c].rest /\ a = Avail(c) /\ l = Ranges(rest, 0, a)
    OBVIOUS
  <2>3. l \in Seq(Fragments(Pages))
    BY <2>1, <2>2, RangesLen
  <2>4. MapLen + CoalLen \in Nat
    BY CoalesceAssumption
  <2>5. frags \in Seq(Fragments(Pages))
    BY <1>1, <2>2, <2>3, <2>4, PullLen
  <2>6. FragsLen(frags) \in Nat
    BY <2>5, FragsFacts
  <2>7. IsIp(p.ip) /\ IsCoal(p.coal)
    BY <1>2, <2>1 DEF IsPacket
  <2> QED
    BY <1>2, <1>3, <2>6, <2>7, SkbSegmentsIs
<1>5. PICK n, kept : n = Len(r.out) /\ kept = r.reuse
  OBVIOUS
<1>6. n \in Nat /\ kept \in BOOLEAN /\ (kept => n = 1) /\ LinearDone(c, kept)
  BY <1>3, <1>4, <1>5 DEF Result
<1>7. \A i \in 1 .. n : v[i].held = IF kept /\ Whole(c) THEN Buffer(c).frags ELSE <<>>
  BY <1>3, <1>5 DEF LinearSkb
<1>8. v = [i \in 1 .. n |-> v[i]]
  BY <1>3, <1>5
<1>9. v \in Seq(Ran(v)) /\ Len(v) = n
  <2>1. \A i \in 1 .. n : v[i] \in {v[j] : j \in 1 .. n}
    OBVIOUS
  <2>2. PICK S : S = {v[j] : j \in 1 .. n}
    OBVIOUS
  <2>3. v \in [1 .. n -> S]
    BY <1>8, <2>1, <2>2
  <2>4. v \in Seq(S) /\ Len(v) = n
    BY <1>6, <2>3
  <2> QED
    BY <2>2, <2>4 DEF Ran
<1>10. IsSeq(v)
  BY <1>6, <1>9 DEF IsSeq
<1>11. PICK s, t : s = stack[c] /\ t = s \o v
  OBVIOUS
<1>12. IsSeq(s) /\ Lists(HeldBy(s)) /\ stack' = [stack EXCEPT ![c] = t]
  BY <1>3, <1>11, AllListsAre, KeyNames DEF BalInv, StackInv
<1>13. /\ IsSeq(t) /\ Lists(HeldBy(t))
       /\ \A g : PageSum(HeldBy(t), g) =
                    PageSum(HeldBy(s), g)
                    + IF Whole(c) /\ kept THEN PageSum(<<Buffer(c).frags>>, g) ELSE 0
  <2>0. \A g : PageSum(HeldBy(s), g) \in Nat
    BY <1>12, UsesFinite
  <2>1. CASE kept /\ Whole(c)
    <3>1. PICK e : e = v[1]
      OBVIOUS
    <3>2. e.held = Buffer(c).frags /\ n = 1 /\ Len(e.held) \in Nat
      BY <1>2, <1>6, <1>7, <2>1, <3>1, BufferLen
    <3>3. v = <<e>>
      BY <1>9, <3>1, <3>2
    <3>4. t = Append(s, e)
      <4>1. s \in Seq(Ran(s) \cup {e}) /\ e \in Ran(s) \cup {e}
        BY <1>12, RanSeq DEF IsSeq
      <4> QED
        BY <1>11, <3>3, <4>1, AppendIsConcat
    <3>5. /\ IsSeq(t) /\ Lists(HeldBy(t))
          /\ \A g : PageSum(HeldBy(t), g) = PageSum(HeldBy(s), g) + PageSum(<<e.held>>, g)
      BY <1>12, <3>2, <3>4, HeldAppend
    <3> QED
      BY <2>1, <3>2, <3>5
  <2>2. CASE ~(kept /\ Whole(c))
    <3>1. \A i \in 1 .. Len(v) : v[i].held = <<>>
      BY <1>7, <1>9, <2>2
    <3>2. /\ IsSeq(t) /\ Lists(HeldBy(t)) /\ \A g : PageSum(HeldBy(t), g) = PageSum(HeldBy(s), g)
      BY <1>10, <1>11, <1>12, <3>1, HeldNone
    <3> QED
      BY <2>0, <2>2, <3>2
  <2> QED
    BY <2>1, <2>2
<1>14. \A g : PageSum(HeldBy(t), g) =
                 PageSum(HeldBy(stack[c]), g)
                 + IF Whole(c) /\ kept THEN PageSum(<<Buffer(c).frags>>, g) ELSE 0
  BY <1>11, <1>13
<1> QED
  BY <1>2, <1>6, <1>12, <1>13, <1>14, LinearStackBal

-----------------------------------------------------------------------------
(* The invariant always holds.                                              *)

IngressInv == SideInv /\ CoreInv /\ BalInv

\* Before the first buffer nothing holds a page
LEMMA InitBal ==
    ASSUME Init
    PROVE  BalInv
<1>1. /\ desc = [d \in Desc |-> Blank] /\ refs = [g \in Pages |-> 0]
      /\ ctx = [c \in Ctx |-> Idle] /\ stack = [c \in Ctx |-> <<>>]
  BY DEF Init
<1>2. PICK z, o : z = <<>> /\ o = <<z>>
  OBVIOUS
<1>3. /\ Len(z) = 0 /\ Ran(z) = {} /\ Lists(z) /\ Lists(o)
      /\ \A g : PageUses(z, g) = {} /\ PageUses(o, g) = {}
  <2>1. Len(z) = 0 /\ Ran(z) = {} /\ Lists(z)
    BY <1>2, EmptyRan, NoUse
  <2>2. Lists(o)
    BY <1>2, <2>1, OneUse
  <2>3. Len(o) = 1 /\ o[1] = <<>>
    BY <1>2
  <2>4. \A g : PageUses(z, g) = {} /\ PageUses(o, g) = {}
    BY <2>1, <2>3, UsesAre, NoneInPage
  <2> QED
    BY <2>1, <2>2, <2>4
<1>4. HeldBy(z) = z
  <2>1. HeldBy(z) \in Seq({}) /\ Len(HeldBy(z)) = 0
    BY <1>3 DEF HeldBy
  <2> QED
    BY <1>2, <2>1, EmptySeq
<1>5. \A c \in Ctx : Buffers(c) = z /\ HeldBy(stack[c]) = z
  <2> TAKE c \in Ctx
  <2>1. ctx[c] = Idle /\ stack[c] = z
    BY <1>1, <1>2
  <2>2. Buffers(c) = z
    BY <1>2, <2>1 DEF Buffers, Idle
  <2> QED
    BY <1>4, <2>1, <2>2
<1>6. \A d \in Desc : <<desc[d].frags>> = o
  BY <1>1, <1>2, BlankRec
<1>7. \A k \in Keys : AllLists[k] = z \/ AllLists[k] = o
  <2> TAKE k \in Keys
  <2>1. CASE \E c \in Ctx : k = <<"buffers", c>> \/ k = <<"stack", c>>
    BY <1>5, <2>1, AllListsAre
  <2>2. CASE \E d \in Desc : k = <<"desc", d>>
    BY <1>6, <2>2, AllListsAre
  <2> QED
    BY <2>1, <2>2, KeyNames
<1>8. ASSUME NEW g \in Pages PROVE refs[g] = Cardinality(PageHolders(g))
  <2>1. PICK B, S, D : /\ B = [c \in Ctx |-> Buffers(c)] /\ S = [c \in Ctx |-> HeldBy(stack[c])]
                       /\ D = [d \in Desc |-> desc[d].frags]
    OBVIOUS
  <2>2. PageHolders(g) = HoldersOf(B, S, D, g)
    BY <2>1 DEF PageHolders, HoldersOf, Tag
  <2>3. PICK L : L = AllLists
    OBVIOUS
  <2>4. PageHolders(g) = UsedOn(L, Keys, g)
    BY <2>1, <2>2, <2>3, HoldersAre DEF AllLists
  <2>5. UsedOn(L, Keys, g) = {}
    BY <1>3, <1>7, <2>3 DEF UsedOn, Tag
  <2> QED
    BY <1>1, <2>4, <2>5, FS_EmptySet
<1>9. RefsInv
  BY <1>1 DEF RefsInv
<1>10. StackInv
  <2>1. z \in Seq({})
    BY <1>2
  <2> QED
    BY <1>1, <1>2, <1>3, <2>1 DEF StackInv, IsSeq
<1> QED
  BY <1>3, <1>7, <1>8, <1>9, <1>10 DEF BalInv, PagesBalanced

\* Markers, queues and flags
LEMMA SideKept ==
    ASSUME SideInv, format' = format, stopped' \subseteq Muxes, mark' \in {NULL, "start", "end"},
           up' \in BOOLEAN, runt' \in BOOLEAN, hollow' \in BOOLEAN, clash' \in BOOLEAN
    PROVE  SideInv'
BY DEF SideInv

LEMMA SideSame ==
    ASSUME SideInv, UNCHANGED <<format, stopped, mark, up, runt, hollow, clash>>
    PROVE  SideInv'
BY DEF SideInv

LEMMA CommandSide ==
    ASSUME SideInv, NEW c \in Ctx, HandleCommand(c) \/ LinearCommand(c)
    PROVE  SideInv'
<1>1. UNCHANGED <<format, up, runt, hollow, clash>>
  <2>1. CASE HandleCommand(c)
    BY <2>1 DEF HandleCommand, Recycle, ghosts
  <2>2. CASE LinearCommand(c)
    BY <2>2 DEF LinearCommand, LinearDone, ghosts, poolVars
  <2> QED
    BY <2>1, <2>2
<1>2. PICK p, queue : /\ mark' = mark \/ (mark' = p.cmd /\ p.cmd \in {"start", "end"})
                      /\ queue => p.mux \in Muxes
                      /\ stopped' = CASE queue /\ p.cmd = "enable" -> stopped \ {p.mux}
                                      [] queue /\ p.cmd = "disable" -> stopped \cup {p.mux}
                                      [] OTHER -> stopped
  <2>1. CASE HandleCommand(c)
    <3>1. PICK p, avail : FragCommand(p, avail)
      BY <2>1 DEF HandleCommand
    <3>2. mark' = mark \/ (mark' = p.cmd /\ p.cmd \in {"start", "end"})
      BY <3>1 DEF FragCommand
    <3> DEFINE queue == /\ ~format.flags.marker /\ format.flags.cmds /\ avail >= MapLen + CmdLen
                        /\ p.mux \in Muxes
    <3>3. stopped' = CASE queue /\ p.cmd = "enable" -> stopped \ {p.mux}
                       [] queue /\ p.cmd = "disable" -> stopped \cup {p.mux}
                       [] OTHER -> stopped
      BY <3>1 DEF FragCommand
    <3>4. queue => p.mux \in Muxes
      OBVIOUS
    <3> QED
      BY <3>2, <3>3, <3>4
  <2>2. CASE LinearCommand(c)
    <3> DEFINE p == LinearPkt(c)
               marker == format.flags.marker /\ p.cmd \in {"start", "end"}
               queue == ~marker /\ format.flags.cmds /\ p.mux \in Muxes
    <3>2. mark' = mark \/ (mark' = p.cmd /\ p.cmd \in {"start", "end"})
      BY <2>2 DEF LinearCommand
    <3>3. stopped' = CASE queue /\ p.cmd = "enable" -> stopped \ {p.mux}
                       [] queue /\ p.cmd = "disable" -> stopped \cup {p.mux}
                       [] OTHER -> stopped
      BY <2>2 DEF LinearCommand
    <3>4. queue => p.mux \in Muxes
      OBVIOUS
    <3> QED
      BY <3>2, <3>3, <3>4
  <2> QED
    BY <2>1, <2>2
<1>3. mark' \in {NULL, "start", "end"}
  BY <1>2 DEF SideInv
<1>4. stopped' \subseteq Muxes
  BY <1>2 DEF SideInv
<1> QED
  BY <1>1, <1>3, <1>4, SideKept DEF SideInv

LEMMA StepSide ==
    ASSUME SideInv, NEW c \in Ctx, Step(c)
    PROVE  SideInv'
<1>1. CASE \E n \in 1 .. Len(Received[c][format.flags.name]) : Receive(c, n)
  <2>1. /\ UNCHANGED <<format, stopped, mark, up, clash>>
        /\ runt' \in BOOLEAN /\ hollow' \in BOOLEAN
    BY <1>1 DEF Receive, poolVars, SideInv
  <2> QED
    BY <2>1, SideKept DEF SideInv
<1>2. CASE HandleCommand(c) \/ LinearCommand(c)
  BY <1>2, CommandSide
<1>3. CASE RecycleAgain(c)
  <2>1. UNCHANGED <<format, stopped, mark, up, runt, hollow>> /\ clash' \in BOOLEAN
    BY <1>3 DEF RecycleAgain, Recycle, ghosts
  <2> QED
    BY <2>1, SideKept DEF SideInv
<1>4. CASE \/ DeaggregateEnd(c) \/ \E d \in Desc : DeaggregateOne(c, d)
  <2>1. CASE DeaggregateEnd(c)
    BY <2>1, SideSame DEF DeaggregateEnd, poolVars, ghosts
  <2>2. ASSUME NEW d \in Desc, DeaggregateOne(c, d) PROVE SideInv'
    <3>1. UNCHANGED <<format, stopped, mark, runt, hollow, clash>> /\ up' = up
      BY <2>2 DEF DeaggregateOne, GotDescriptors
    <3> QED
      BY <3>1, SideSame
  <2> QED
    BY <1>4, <2>1, <2>2
<1>5. CASE HandleDrop(c)
  BY <1>5, SideSame DEF HandleDrop, Recycle, ghosts
<1>6. CASE HandlePlain(c) \/ HandleCsum(c)
  <2>1. UNCHANGED <<format, stopped, mark, runt, hollow, clash>> /\ up' = up
    BY <1>6 DEF HandlePlain, HandleCsum, Recycle, ToPacket, ghosts, poolVars
  <2> QED
    BY <2>1, SideSame
<1>7. CASE HandleCoal(c)
  <2>1. UNCHANGED <<format, stopped, mark, runt, hollow, clash>> /\ up' = up
    BY <1>7 DEF HandleCoal, CoalWhole, CoalCut, ghosts, poolVars
  <2> QED
    BY <2>1, SideSame
<1>8. CASE DeliverNoMem(c) \/ DeliverShort(c) \/ Deliver(c)
  <2>1. UNCHANGED <<format, stopped, mark, runt, hollow, clash>> /\ up' = up
    BY <1>8 DEF DeliverNoMem, DeliverShort, Deliver, Recycle, ghosts
  <2> QED
    BY <2>1, SideSame
<1>9. CASE Consume(c) \/ LinearEnd(c) \/ StackFree(c)
  <2>1. UNCHANGED <<format, stopped, mark, runt, hollow, clash>> /\ up' = up
    BY <1>9 DEF Consume, LinearEnd, StackFree, ghosts, poolVars
  <2> QED
    BY <2>1, SideSame
<1>10. CASE LinearDrop(c) \/ LinearPacket(c) \/ LinearCoal(c)
  <2>1. UNCHANGED <<stopped, mark>> /\ \E kept : LinearDone(c, kept)
    <3>1. CASE LinearDrop(c)
      BY <3>1 DEF LinearDrop
    <3>2. CASE LinearPacket(c)
      BY <3>2 DEF LinearPacket
    <3>3. CASE LinearCoal(c)
      BY <3>3 DEF LinearCoal
    <3> QED
      BY <1>10, <3>1, <3>2, <3>3
  <2>2. UNCHANGED <<format, runt, hollow, clash>> /\ up' = up
    BY <2>1 DEF LinearDone, ghosts, poolVars
  <2> QED
    BY <2>1, <2>2, SideSame
<1> QED
  BY <1>1, <1>2, <1>3, <1>4, <1>5, <1>6, <1>7, <1>8, <1>9, <1>10 DEF Step

LEMMA CoreSame ==
    ASSUME CoreInv, UNCHANGED <<format, poolVars, desc, ctx, lost, runt, hollow, clash>>
    PROVE  CoreInv'
BY DEF CoreInv, TypeInv, PoolInv, CtxInv, OwnInv, ListInv, HoldInv, poolVars

LEMMA StepCore ==
    ASSUME SideInv, CoreInv, ~clash, NEW c \in Ctx, Step(c)
    PROVE  CoreInv'
<1>1. CASE StackFree(c)
  BY <1>1, CoreSame DEF StackFree, ghosts
<1> QED
  BY <1>1, ReceiveCore, DeaggregateEndCore, DeaggregateOneCore, HandleCommandCore, HandleDropCore,
     HandlePlainCore, HandleCsumCore, HandleCoalCore, DeliverCore, RecycleAgainCore, ConsumeCore,
     LinearEndCore, LinearCore DEF Step

LEMMA StepBal ==
    ASSUME SideInv, CoreInv, BalInv, ~clash, NEW c \in Ctx, Step(c)
    PROVE  BalInv'
BY ReceiveBal, DeaggregateEndBal, DeaggregateOneBal, HandleCommandBal, HandleDropBal,
   HandlePlainBal, HandleCsumBal, HandleCoalBal, DeliverNoMemBal, DeliverShortBal, DeliverBal,
   RecycleAgainBal, ConsumeBal, LinearEndBal, LinearCommandBal, LinearDropBal, LinearPacketBal,
   LinearCoalBal, StackFreeBal DEF Step

LEMMA PoolStep ==
    ASSUME IngressInv, ~clash, DescriptorDeinit \/ DescriptorInit
    PROVE  IngressInv'
<1> USE DEF IngressInv
<1>1. CoreInv'
  BY DescriptorDeinitCore, DescriptorInitCore
<1>2. /\ UNCHANGED <<format, desc, refs, ctx, stack, stopped, mark, runt, hollow, clash>>
      /\ up' \in BOOLEAN
  BY DEF DescriptorDeinit, DescriptorInit, ghosts
<1>3. SideInv'
  BY <1>2, SideKept DEF SideInv
<1>4. \A c \in Ctx : Buffers(c)' = Buffers(c)
  BY <1>2, SameBuffers
<1>5. BalInv'
  BY <1>2, <1>4, QuietBal
<1> QED
  BY <1>1, <1>3, <1>5

LEMMA SameInv ==
    ASSUME IngressInv, UNCHANGED vars
    PROVE  IngressInv'
<1> USE DEF IngressInv
<1>1. UNCHANGED <<format, poolVars, free, pool_size, up, alive, desc, refs, ctx, stack, stopped, mark, lost,
                  runt, hollow, clash>>
  BY DEF vars, poolVars, ghosts
<1>2. CoreInv'
  BY <1>1, CoreSame
<1>3. SideInv'
  BY <1>1, SideSame
<1>4. \A c \in Ctx : Buffers(c)' = Buffers(c)
  BY <1>1, SameBuffers
<1>5. BalInv'
  BY <1>1, <1>4, QuietBal
<1> QED
  BY <1>2, <1>3, <1>5

LEMMA IngressAlways == Spec => []IngressInv
<1>1. Init => IngressInv
  BY InitCore, InitBal DEF IngressInv
<1>2. IngressInv /\ [Next]_vars => IngressInv'
  <2> SUFFICES ASSUME IngressInv, [Next]_vars PROVE IngressInv'
    OBVIOUS
  <2>1. ASSUME ~clash, NEW c \in Ctx, Step(c) PROVE IngressInv'
    BY <2>1, StepSide, StepCore, StepBal DEF IngressInv
  <2>2. CASE ~clash /\ (DescriptorDeinit \/ DescriptorInit)
    BY <2>2, PoolStep
  <2>3. CASE Corrupted
    BY <2>3, SameInv DEF Corrupted
  <2>4. CASE UNCHANGED vars
    BY <2>4, SameInv
  <2> QED
    BY <2>1, <2>2, <2>3, <2>4 DEF Next
<1> QED
  BY <1>1, <1>2, PTL DEF Spec

-----------------------------------------------------------------------------
(* One holder for every descriptor.                                         *)

Sites(list, name, d) == {<<name, i>> : i \in {k \in 1 .. Len(list) : list[k] = d}}

\* A list that has d has it once
LEMMA SitesAre ==
    ASSUME NEW list, NEW name, NEW d, Inj(list)
    PROVE  /\ d \notin Ran(list) => Sites(list, name, d) = {}
           /\ d \in Ran(list) => \E i : Sites(list, name, d) = {<<name, i>>}
<1>1. ASSUME d \notin Ran(list) PROVE Sites(list, name, d) = {}
  BY <1>1 DEF Sites, Ran
<1>2. ASSUME d \in Ran(list) PROVE \E i : Sites(list, name, d) = {<<name, i>>}
  <2>1. PICK i \in 1 .. Len(list) : list[i] = d
    BY <1>2 DEF Ran
  <2>2. {k \in 1 .. Len(list) : list[k] = d} = {i}
    BY <2>1 DEF Inj
  <2>3. Sites(list, name, d) = {<<name, k>> : k \in {i}}
    BY <2>2 DEF Sites
  <2>4. {<<name, k>> : k \in {i}} = {<<name, i>>}
    OBVIOUS
  <2> QED
    BY <2>3, <2>4
<1> QED
  BY <1>1, <1>2

OfCtx(cx, d, c) == Sites(cx[c].list, <<"list", c>>, d) \cup Sites(cx[c].segs, <<"segs", c>>, d)
AllSites(fr, cx, d) == Sites(fr, <<"free">>, d) \cup (UNION {OfCtx(cx, d, c) : c \in Ctx})

LEMMA AllSitesOne ==
    ASSUME NEW fr, NEW lo, NEW cx, NEW A, OwnOf(PlacesOf(fr, lo, cx), A), Inj(fr),
           \A c \in Ctx : Inj(cx[c].list) /\ Inj(cx[c].segs), NEW d \in A, d \notin lo
    PROVE  Cardinality(AllSites(fr, cx, d)) = 1
<1>1. PICK P : P = PlacesOf(fr, lo, cx)
  OBVIOUS
<1>2. /\ P[<<"free", 0>>] = Ran(fr) /\ P[<<"lost", 0>>] = lo
      /\ \A c \in Ctx : P[<<"list", c>>] = Ran(cx[c].list) /\ P[<<"segs", c>>] = Ran(cx[c].segs)
  BY <1>1, PlacesAre
<1>3. PICK x \in Places : \A y \in Places : d \in P[y] <=> y = x
  BY <1>1 DEF OwnOf
<1>4. /\ d \in Ran(fr) <=> x = <<"free", 0>>
      /\ x # <<"lost", 0>>
      /\ \A c \in Ctx : /\ d \in Ran(cx[c].list) <=> x = <<"list", c>>
                        /\ d \in Ran(cx[c].segs) <=> x = <<"segs", c>>
  BY <1>2, <1>3, PlaceNames
<1>5. \A v : v \in AllSites(fr, cx, d) <=>
                v \in Sites(fr, <<"free">>, d) \/ \E c \in Ctx : v \in OfCtx(cx, d, c)
  BY DEF AllSites
<1>6. \A c \in Ctx : /\ d \notin Ran(cx[c].list) => Sites(cx[c].list, <<"list", c>>, d) = {}
                     /\ d \notin Ran(cx[c].segs) => Sites(cx[c].segs, <<"segs", c>>, d) = {}
  BY SitesAre
<1>7. \E u : AllSites(fr, cx, d) = {u}
  <2>1. CASE x = <<"free", 0>>
    <3>1. \A c \in Ctx : d \notin Ran(cx[c].list) /\ d \notin Ran(cx[c].segs)
      BY <1>4, <2>1
    <3>2. \A c \in Ctx : OfCtx(cx, d, c) = {}
      BY <1>6, <3>1 DEF OfCtx
    <3>3. PICK u : Sites(fr, <<"free">>, d) = {u}
      BY <1>4, <2>1, SitesAre
    <3>4. AllSites(fr, cx, d) = {u}
      BY <1>5, <3>2, <3>3
    <3> QED
      BY <3>4
  <2>2. ASSUME NEW c \in Ctx, x = <<"list", c>> \/ x = <<"segs", c>>
        PROVE  \E u : AllSites(fr, cx, d) = {u}
    <3>1. d \notin Ran(fr) /\ \A e \in Ctx \ {c} : d \notin Ran(cx[e].list) /\ d \notin Ran(cx[e].segs)
      BY <1>4, <2>2
    <3>2. Sites(fr, <<"free">>, d) = {} /\ \A e \in Ctx \ {c} : OfCtx(cx, d, e) = {}
      BY <1>6, <3>1, SitesAre DEF OfCtx
    <3>3. \E u : OfCtx(cx, d, c) = {u}
      <4>1. CASE x = <<"list", c>>
        <5>1. d \in Ran(cx[c].list) /\ d \notin Ran(cx[c].segs)
          BY <1>4, <4>1
        <5>2. PICK i : Sites(cx[c].list, <<"list", c>>, d) = {<< <<"list", c>>, i>>}
          BY <5>1, SitesAre
        <5> QED
          BY <1>6, <5>1, <5>2 DEF OfCtx
      <4>2. CASE x = <<"segs", c>>
        <5>1. d \in Ran(cx[c].segs) /\ d \notin Ran(cx[c].list)
          BY <1>4, <4>2
        <5>2. PICK i : Sites(cx[c].segs, <<"segs", c>>, d) = {<< <<"segs", c>>, i>>}
          BY <5>1, SitesAre
        <5> QED
          BY <1>6, <5>1, <5>2 DEF OfCtx
      <4> QED
        BY <2>2, <4>1, <4>2
    <3>4. PICK u : OfCtx(cx, d, c) = {u}
      BY <3>3
    <3>5. AllSites(fr, cx, d) = {u}
      BY <1>5, <3>2, <3>4
    <3> QED
      BY <3>5
  <2> QED
    BY <1>4, <2>1, <2>2, PlaceNames
<1> QED
  BY <1>7, FS_Singleton

LEMMA OneHolderHolds ==
    ASSUME IngressInv
    PROVE  OneHolder
<1> USE DEF IngressInv, CoreInv
<1>1. IsFiniteSet(alive) /\ pool_size = Cardinality(alive) /\ pool_size \in Nat
  <2>1. alive \subseteq Desc /\ pool_size = Cardinality(alive)
    BY DEF TypeInv, PoolInv
  <2>2. IsFiniteSet(alive)
    BY <2>1, IngressAssumption, FS_Subset
  <2> QED
    BY <2>1, <2>2, FS_CardinalityType
<1>2. TypeOK
  BY <1>1 DEF TypeOK, SideInv, TypeInv, BalInv, RefsInv, DescRec, CtxRec, Pcs
<1>3. ASSUME ~hollow PROVE ~clash
  BY <1>3 DEF PoolInv
<1>4. ASSUME ~clash, NEW d \in alive \ lost PROVE Cardinality(Holders(d)) = 1
  <2>1. PICK fr, lo, cx, A : fr = free /\ lo = lost /\ cx = ctx /\ A = alive
    OBVIOUS
  <2>2. /\ OwnOf(PlacesOf(fr, lo, cx), A) /\ Inj(fr) /\ d \in A /\ d \notin lo
        /\ \A c \in Ctx : Inj(cx[c].list) /\ Inj(cx[c].segs)
    BY <1>4, <2>1 DEF OwnInv, ListInv
  <2>3. Cardinality(AllSites(fr, cx, d)) = 1
    BY ONLY <2>2, AllSitesOne
  <2>4. Holders(d) = AllSites(fr, cx, d)
    BY <2>1 DEF Holders, AllSites, OfCtx, Sites
  <2> QED
    BY <2>3, <2>4
<1>5. (~runt => lost = {}) /\ (~up => alive = lost)
  BY DEF PoolInv
<1> QED
  BY <1>1, <1>2, <1>3, <1>4, <1>5 DEF OneHolder

\* In every reachable state each descriptor that was not lost is on the free list or on one
\* list of one context, once; pool_size counts the descriptors; one is lost only with a buffer
\* that ends right after a MAP header, and recycled under another owner only with a packet of
\* nothing but padding or headers; rmnet_descriptor_deinit frees all others (rmnet_descriptor.c).
\* For any number of contexts and descriptors and any chains of buffers.
THEOREM DescriptorsHaveOneHolder == Spec => []OneHolder
BY IngressAlways, OneHolderHolds, PTL

\* In every reachable state the reference count of a page is the number of fragments of
\* buffers, descriptors and packets of the stack that are in it, whatever rmnet_frag_deaggregate,
\* rmnet_frag_pull, rmnet_frag_trim, the segmentation and rmnet_alloc_skb did, and also after a
\* descriptor was recycled twice.
THEOREM PagesAlwaysBalanced == Spec => []PagesBalanced
<1>1. IngressInv => PagesBalanced
  BY DEF IngressInv, BalInv
<1> QED
  BY <1>1, IngressAlways, PTL
=============================================================================
