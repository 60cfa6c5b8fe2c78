-------------------------- MODULE MCJacksRbClient ---------------------------
(***************************************************************************)
(* JacksRbClient for TLC.                                                  *)
(***************************************************************************)
EXTENDS JacksRbClient
=============================================================================
