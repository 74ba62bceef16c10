---- MODULE MCController ----
(* Small instances of the control law for TLC. *)
EXTENDS Controller

\* A curve that starts below the floor and tops out below full speed, so that
\* the floor and the panic override both matter.
MCCurve == << [temp |-> 50, duty |-> 20], [temp |-> 60, duty |-> 40],
              [temp |-> 80, duty |-> 90] >>
====
