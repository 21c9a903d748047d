------------------------------- MODULE MCPort -------------------------------
(* Instances of Port for TLC.                                               *)
EXTENDS Port, TLC

MCPriority == [c \in Clients |-> CASE c = "low" -> 1 [] c = "mid" -> 2
                                   [] c = "mid2" -> 2 [] c = "high" -> 3]

\* Readers race the configuration of links and bridges, or marker clients
\* come and go
MCEnvs ==
    {[readers |-> Readers, clients |-> {}, bridge |-> TRUE],
     [readers |-> {}, clients |-> Clients, bridge |-> FALSE]}

Sym == Permutations(Reals) \cup Permutations(Vnds) \cup Permutations(Eps)
       \cup Permutations(Readers)
=============================================================================
