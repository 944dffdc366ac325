--------------------------- MODULE MCSocialGraph ---------------------------
(* Instances of SocialGraph for TLC; users, rows and requests are            *)
(* interchangeable.                                                          *)
EXTENDS SocialGraph, TLC

Symmetry == Permutations(User) \cup Permutations(Row) \cup Permutations(Req)
=============================================================================
