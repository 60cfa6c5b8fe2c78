---------------------------- MODULE MCSessionApi ----------------------------
(* SessionApi for TLC; the constants are given by the .cfg files.          *)
EXTENDS SessionApi
=============================================================================
