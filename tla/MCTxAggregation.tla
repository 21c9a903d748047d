--------------------------- MODULE MCTxAggregation ---------------------------
(* Instances of TxAggregation for TLC.                                      *)
EXTENDS TxAggregation

\* Two packets on each sending processor, one command.
TwoPackets ==
    [c \in Senders \cup Commanders |-> IF c \in Senders THEN 2 ELSE 1]
=============================================================================
