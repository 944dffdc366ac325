----------------------------- MODULE MCSessions -----------------------------
(* Model values for TLC: interchangeable users, rows and requests. *)
EXTENDS Sessions, TLC

Symmetry == Permutations(User) \cup Permutations(Sid) \cup Permutations(Req)
=============================================================================
