------------------------------ MODULE Audience ------------------------------
(***************************************************************************)
(* The social graph as one user sees it: whom the user follows, who has    *)
(* blocked or is blocked, whose close friend the user is, whose account is *)
(* private.  This is what SocialGraph promises to whoever reads it (every  *)
(* feed, list, rail and profile of the server), without the requests that  *)
(* change it.                                                              *)
(***************************************************************************)

CONSTANT Other \* the other users

VARIABLES follow,  \* whom the user follows, by an accepted follow
          block,   \* whom the user has blocked or is blocked by
          close,   \* whose close friend the user is
          private  \* whose account is private

graph == <<follow, block, close, private>>

GraphTypeOK == follow \subseteq Other /\ block \subseteq Other /\ close \subseteq Other /\ private \subseteq Other

\* AccessService.canViewContent, at one moment.
CanView(x) == x \notin block /\ (x \notin private \/ x \in follow)

GraphInit == GraphTypeOK /\ block \cap (follow \cup close) = {}

\* A follow comes or goes; it may come after a block.
Follow(x) ==
  /\ follow' \in {follow \cup {x}, follow \ {x}}
  /\ UNCHANGED <<block, close, private>>

\* A block ends the follow and the close friend with it.
Block(x) ==
  /\ block' = block \cup {x}
  /\ follow' = follow \ {x}
  /\ close' = close \ {x}
  /\ UNCHANGED private

\* Lifting it brings neither back.
Unblock(x) ==
  /\ block' = block \ {x}
  /\ UNCHANGED <<follow, close, private>>

SetPrivacy(x) ==
  /\ private' \in {private \cup {x}, private \ {x}}
  /\ UNCHANGED <<follow, block, close>>

Befriend(x) ==
  /\ close' \in {close \cup {x}, close \ {x}}
  /\ UNCHANGED <<follow, block, private>>

Change(S) == \E x \in S : Follow(x) \/ Block(x) \/ Unblock(x) \/ SetPrivacy(x) \/ Befriend(x)

Graph == GraphInit /\ [][Change(Other)]_graph
=============================================================================
