---------------------------- MODULE ThesisMonitor_MC ----------------------------
(* Small instances of ThesisMonitor for TLC.                                *)
EXTENDS ThesisMonitor

MCPlans == {[stop |-> 1, target |-> 3, days |-> 1]}
=================================================================================
