---------------------------- MODULE MCCoordinator ----------------------------
(* Instances of Coordinator for TLC.                                        *)
EXTENDS Coordinator, TLC

CONSTANTS d1, d2, o1, o2, qpigs, qpiri

\* Telemetry in every cycle, ratings in every second one.
TwoCommands == <<[cmd |-> qpigs, cadence |-> 1], [cmd |-> qpiri, cadence |-> 2]>>
OneCommand == <<[cmd |-> qpiri, cadence |-> 2]>>
=============================================================================
