------------------------------- MODULE MCLive -------------------------------
(* Two viewers, two streams, three requests. *)
EXTENDS Live, TLC

Symmetry == Permutations(User) \cup Permutations(Stream) \cup Permutations(Row) \cup Permutations(Req)
=============================================================================
