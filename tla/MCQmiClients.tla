---------------------------- MODULE MCQmiClients ----------------------------
(* Instances of QmiClients for TLC.                                         *)
EXTENDS QmiClients

\* Power save is asked for with instance 0, as the WDA client is.  Flow
\* control is over QMI, over QMAP, or over both.
PowerSaveOnZero ==
    {{<<0, TRUE, FALSE>>, <<0, FALSE, FALSE>>, <<1, FALSE, FALSE>>},
     {<<0, TRUE, TRUE>>, <<0, FALSE, TRUE>>, <<1, FALSE, TRUE>>},
     {<<0, TRUE, FALSE>>, <<1, FALSE, TRUE>>}}
=============================================================================
