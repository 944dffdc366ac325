----------------------------- MODULE MCStories -----------------------------
(* Instances of Stories for TLC; requests are interchangeable where no liveness is checked. *)
EXTENDS Stories, TLC

Symmetry == Permutations(Story) \cup Permutations(Req)
=============================================================================
