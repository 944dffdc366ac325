--------------------------- MODULE MCCredentials ---------------------------
(* Instances of Credentials for TLC; ids and requests are interchangeable. *)
EXTENDS Credentials, TLC

Symmetry == Permutations(Code) \cup Permutations(Key) \cup Permutations(Secret)
              \cup Permutations(Backup) \cup Permutations(Req)
=============================================================================
