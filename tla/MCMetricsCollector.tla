-------------------------- MODULE MCMetricsCollector --------------------------
(***************************************************************************)
(* MetricsCollector for TLC: the background loop and one request, a word    *)
(* that is large against what the interface sends.                         *)
(***************************************************************************)
EXTENDS MetricsCollector

CONSTANTS background, handler

MCCallers == {background, handler}
MCWord == 2 ^ 6
=============================================================================
