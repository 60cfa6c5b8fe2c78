-------------------------- MODULE MCLatencyListener --------------------------
(* LatencyListener for TLC; the constants are given by the .cfg files.     *)
EXTENDS LatencyListener
=============================================================================
