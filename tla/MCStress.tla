---- MODULE MCStress ----
(* Small instances of the stress test for TLC. *)
EXTENDS Stress

\* The default phases, in their order.
MCPlan == <<"idle", "cpu", "gpu", "both", "recovery">>
====
