---- MODULE MCWatch ----
(* Short histories of the intake fan for TLC. *)
EXTENDS Watch
====
