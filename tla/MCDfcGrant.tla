----------------------------- MODULE MCDfcGrant -----------------------------
(* Instances of DfcGrant for TLC.                                           *)
EXTENDS DfcGrant
=============================================================================
