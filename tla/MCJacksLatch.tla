---------------------------- MODULE MCJacksLatch ----------------------------
(***************************************************************************)
(* JacksLatch for TLC: the getters compete for the posts of the posters.   *)
(* JACK makes one session callback at a time, so one getter and one poster *)
(* is what the library does; two of each covers any wider use.             *)
(***************************************************************************)
EXTENDS JacksLatch
=============================================================================
