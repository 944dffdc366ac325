------------------------------- MODULE MCParts -------------------------------
(***************************************************************************)
(* Parts for TLC: chats, other users, keys and requests are                *)
(* interchangeable, and every property is a safety property.               *)
(***************************************************************************)
EXTENDS Parts, TLC

Symmetry == Permutations(Thing) \cup Permutations(Req)
==============================================================================
