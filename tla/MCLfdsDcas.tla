----------------------------- MODULE MCLfdsDcas -----------------------------
(* LfdsDcas for TLC; the constants are given by the .cfg file.             *)
EXTENDS LfdsDcas

=============================================================================
