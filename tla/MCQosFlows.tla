----------------------------- MODULE MCQosFlows -----------------------------
(* Instances of QosFlows for TLC.                                           *)
EXTENDS QosFlows, TLC

\* User space sends every combination of flow, bearer and queue.
AnyActivation == Flows \X BearerIds \X Mqs

\* The default queue, which is bound to no bearer, is asked for with one bearer
\* only.
OneDefault ==
    (Flows \X BearerIds \X (Mqs \ {DefaultMq}))
    \cup (Flows \X {CHOOSE id \in BearerIds : TRUE} \X {DefaultMq})

Sym == Permutations(Flows) \cup Permutations(BearerIds) \cup Permutations(Objs)
=============================================================================
