---------------------------- MODULE MCJsObjects ------------------------------
(***************************************************************************)
(* JsObjects for TLC.                                                      *)
(***************************************************************************)
EXTENDS JsObjects, TLC

CONSTANTS o1, o2, x1, x2, x3

\* Proxies are interchangeable, and so are ports.
Symmetry == Permutations(Ports) \cup Permutations(Proxies)
=============================================================================
