------------------------------ MODULE OneTime ------------------------------
(***************************************************************************)
(* What a one-time credential promises: it is handed out once, and what it *)
(* grants is granted at most once.                                         *)
(***************************************************************************)
EXTENDS Naturals

CONSTANT Cred

VARIABLES known, \* the credentials that have been handed out
          uses   \* how often each has been honoured

Init == known \in SUBSET Cred /\ uses = [c \in Cred |-> 0]

Issue(c) ==
  /\ c \notin known
  /\ known' = known \cup {c}
  /\ UNCHANGED uses

Use(c) ==
  /\ c \in known /\ uses[c] = 0
  /\ uses' = [uses EXCEPT ![c] = 1]
  /\ UNCHANGED known

Next == \E c \in Cred : Issue(c) \/ Use(c)

Spec == Init /\ [][Next]_<<known, uses>>
=============================================================================
