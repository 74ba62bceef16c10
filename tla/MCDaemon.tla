---- MODULE MCDaemon ----
(* Small instances of the daemon under systemd for TLC. *)
EXTENDS Daemon

\* One temperature keeps the duty moving between floor, kick and panic.
MCCurve == << [temp |-> 50, duty |-> 20], [temp |-> 90, duty |-> 80] >>
\* The control law is told whatever byte the board holds.
MCReadbacks == 0..255
====
