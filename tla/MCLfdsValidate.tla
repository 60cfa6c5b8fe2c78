--------------------------- MODULE MCLfdsValidate ---------------------------
(* LfdsValidate for TLC; the constants are given by the .cfg files.        *)
EXTENDS LfdsValidate
=============================================================================
