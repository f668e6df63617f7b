----------------------------- MODULE MCQueryRun -----------------------------
(* Small instances of QueryRun for TLC. *)
EXTENDS QueryRun

CONSTANTS a1, a2
=============================================================================
