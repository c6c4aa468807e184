----------------------------- MODULE MCMonitor -----------------------------
(* The monitor for TLC: the sizes of the run meet what the theorems ask.     *)
EXTENDS Monitor

ASSUME MCBeatsFit == BeatsFit
=============================================================================
