------------------------------ MODULE MCMonitor -----------------------------
(***************************************************************************)
(* Instances of the monitor page: a high value and then a lower one, both  *)
(* above the 0 that the page starts with.                                  *)
(***************************************************************************)
EXTENDS MonitorPage

HighThenLow == <<2, 1>>
=============================================================================
