----------------------------- MODULE MCExecWorker -----------------------------
(* ExecWorker with two plain commands and one that feeds stdin. *)
EXTENDS ExecWorker, TLC

CONSTANTS r1, r2, r3
=============================================================================
