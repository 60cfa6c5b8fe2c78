----------------------------- MODULE MCLfdsAlloc -----------------------------
(* LfdsAlloc for TLC; the constants are given by the .cfg file.            *)
EXTENDS LfdsAlloc
=============================================================================
