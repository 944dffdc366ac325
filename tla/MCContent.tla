------------------------------ MODULE MCContent ------------------------------
(* Content for TLC: liveness is checked, so there is no symmetry.            *)
EXTENDS Content, TLC
==============================================================================
