---- MODULE MCInstall ----
(* The handover in small numbers of scripts for TLC. *)
EXTENDS Install
====
