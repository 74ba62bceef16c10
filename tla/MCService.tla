---- MODULE MCService ----
(* Small instances of the service and its board for TLC. *)
EXTENDS Service

\* Straight up from the floor to the start duty and beyond.
MCCurve == << [temp |-> 50, duty |-> 20], [temp |-> 90, duty |-> 80] >>
\* The control law is told whatever byte the board holds.
MCReadbacks == 0..255
====
