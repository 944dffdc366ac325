------------------------------ MODULE MCChats ------------------------------
(* Instances of Chats for TLC: users are interchangeable and so are the     *)
(* requests; the call has the group's users, and one request more.          *)
EXTENDS Chats, TLC

Symmetry == Permutations(User) \cup Permutations(Req)
=============================================================================
