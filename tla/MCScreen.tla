---- MODULE MCScreen ----
(* Small instances of the screen and of the report for TLC.  The chart, the *)
(* throttling and the report share no variable, so a behaviour is one of one  *)
(* of them and the others stand still.                                        *)
EXTENDS Screen, Report

VARIABLE about   \* "chart", "throttling" or "report"

\* A phase that comes back, and between the two one that may be skipped and one that not.
MCPlan == <<"cpu", "gpu", "recovery", "cpu">>

MCInit ==
  /\ ScreenInit /\ ReportInit
  /\ about \in {"chart", "throttling", "report"}
  /\ about # "chart" => width = Max(Widths)

MCNext ==
  /\ \/ about = "chart" /\ ScreenNext /\ throttle' = throttle /\ events' = events
        /\ UNCHANGED reportVars
     \/ about = "throttling" /\ ScreenNext /\ width' = width /\ histories' = histories
        /\ UNCHANGED reportVars
     \/ about = "report" /\ ReportNext /\ UNCHANGED screenVars
  /\ UNCHANGED about

MCSpec == MCInit /\ [][MCNext]_<<screenVars, reportVars, about>>
====
