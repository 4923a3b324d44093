----------------------------- MODULE MCEybondHub -----------------------------
(* Instances of EybondHub for TLC.                                          *)
EXTENDS EybondHub, TLC

CONSTANTS pn1, pn2

\* One drain by another entry, or two reconciles that overlap.
DrainOrOverlap == {[drains |-> 1, tasks |-> 1], [drains |-> 0, tasks |-> 2]}
=============================================================================
