--------------------------- MODULE MCLfdsFreelist ---------------------------
(***************************************************************************)
(* LfdsFreelist for TLC.                                                   *)
(***************************************************************************)
EXTENDS LfdsFreelist
=============================================================================
