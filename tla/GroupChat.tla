----------------------------- MODULE GroupChat -----------------------------
(***************************************************************************)
(* The membership of one group chat: ChatService.addParticipants,          *)
(* removeParticipant, leaveGroup and deleteChat, from the moment           *)
(* createGroup has created it.                                             *)
(*                                                                         *)
(* Every handler starts by loading the chat with its participants and then *)
(* decides on that snapshot; each further awaited call is an action, and   *)
(* handlers of different requests interleave between them.                 *)
(***************************************************************************)
EXTENDS Naturals, FiniteSets

CONSTANTS User,
          Req,               \* HTTP requests; each one is handled once
          None,              \* no user
          GROUP_MIN_INVITES,
          GROUP_MAX_MEMBERS

ASSUME NoUser == None \notin User

ASSUME FiniteUsers == IsFiniteSet(User)

ASSUME Limits == GROUP_MIN_INVITES \in Nat \ {0} /\ GROUP_MAX_MEMBERS \in Nat

VARIABLES exists,  \* the Chat row is there
          joined,  \* ChatParticipant.joinedAt, 0 where there is no row
          admin,   \* the participants with isAdmin
          now,     \* the time of the last insertion
          req,     \* the state of every request
          cause    \* history: what happened that handlers do not guard against

vars == <<exists, joined, admin, now, req, cause>>

\* "stale": a handler wrote after the membership it had loaded, or the heir it
\* had picked, was gone; "crash": one ended between two of its writes;
\* "deleteChat": an administrator used "delete chat" instead of "leave group".
Cause == {"stale", "crash", "deleteChat"}

member == {u \in User : joined[u] > 0}

Request == [op : {"none", "add", "remove", "leave", "deleteChat"},
            at : {"start", "insert", "deleteTarget", "deleteSelf", "pick", "promote",
                  "count", "deleteGroup", "notice", "end"},
            reply : {"none", "ok", "refused", "error"},
            actor : User \cup {None},
            snap : SUBSET User,   \* loadChat: the participants, the actor included
            isAdmin : BOOLEAN,    \* loadChat: the actor's isAdmin
            arg : SUBSET User,    \* whom to add or remove
            next : User \cup {None}]

Idle == [op |-> "none", at |-> "start", reply |-> "none", actor |-> None, snap |-> {},
         isAdmin |-> FALSE, arg |-> {}, next |-> None]

\* isAdmin is a column of the participant's row, and rows hang on the chat's.
TypeOK ==
  /\ exists \in BOOLEAN
  /\ joined \in [User -> Nat]
  /\ admin \in SUBSET member
  /\ member # {} => exists
  /\ now \in Nat
  /\ req \in [Req -> Request]
  /\ cause \in SUBSET Cause

(***************************************************************************)
(* createGroup: the creator is the administrator, and all participants are *)
(* inserted by one statement: their joinedAt is the same instant.          *)
(***************************************************************************)
Init ==
  /\ exists = TRUE
  /\ now = 1
  /\ \E creator \in User, invited \in SUBSET User :
       /\ creator \notin invited
       /\ Cardinality(invited) >= GROUP_MIN_INVITES
       /\ Cardinality(invited) + 1 <= GROUP_MAX_MEMBERS
       /\ joined = [u \in User |-> IF u \in invited \cup {creator} THEN 1 ELSE 0]
       /\ admin = {creator}
  /\ req = [r \in Req |-> Idle]
  /\ cause = {}

-----------------------------------------------------------------------------
At(r, l) == req[r].at = l /\ req[r].reply = "none"

Become(r, x) == req' = [req EXCEPT ![r] = x]

Goto(r, l) == Become(r, [req[r] EXCEPT !.at = l])

Reply(r, a) == Become(r, [Idle EXCEPT !.at = "end", !.reply = a])

\* The chat is not any more as this handler has loaded it.
Stale(r) == \/ member # req[r].snap
            \/ (req[r].actor \in admin) # req[r].isAdmin

Blame(c, bad) == cause' = IF bad THEN cause \cup {c} ELSE cause

DeleteRow(u) ==
  /\ joined' = [joined EXCEPT ![u] = 0]
  /\ admin' = admin \ {u}

\* loadChat for operation o, which will continue at l; one who is not a
\* participant gets a 404.
Loaded(o, l, u, arg) ==
  [Idle EXCEPT !.op = o, !.at = l, !.actor = u, !.snap = member,
               !.isAdmin = (u \in admin), !.arg = arg]

\* Mutant: the one who adds is not counted.
LoadAddOffByOne(r) ==
  /\ At(r, "start")
  /\ \E u \in member, toAdd \in SUBSET (User \ member) \ {{}} :
       /\ Cardinality(member \ {u}) + Cardinality(toAdd) <= GROUP_MAX_MEMBERS
       /\ Become(r, Loaded("add", "insert", u, toAdd))
  /\ UNCHANGED <<exists, joined, admin, now, cause>>

\* addParticipants: any participant may add those who are not in yet, up to the
\* limit.  Whether they are addable (they exist, no block) is the data of other
\* modules: it may be refused.
LoadAdd(r) ==
  /\ At(r, "start")
  /\ \E u \in User, toAdd \in SUBSET User \ {{}} :
       \/ /\ u \notin member
          /\ Reply(r, "refused")
       \/ /\ u \in member
          /\ toAdd \cap member = {}
          /\ \/ /\ Cardinality(member) + Cardinality(toAdd) <= GROUP_MAX_MEMBERS
                /\ Become(r, Loaded("add", "insert", u, toAdd))
             \/ Reply(r, "refused")
  /\ UNCHANGED <<exists, joined, admin, now, cause>>

\* createMany, skipDuplicates; a chat that is gone is a foreign key error.
InsertParticipants(r) ==
  /\ At(r, "insert")
  /\ IF exists
     THEN /\ now' = now + 1
          /\ joined' = [u \in User |-> IF u \in req[r].arg \ member THEN now' ELSE joined[u]]
          /\ Blame("stale", Stale(r))
          /\ Goto(r, "notice")
     ELSE /\ Reply(r, "error")
          /\ UNCHANGED <<joined, now, cause>>
  /\ UNCHANGED <<exists, admin>>

\* removeParticipant: for administrators, and not on oneself.
LoadRemove(r) ==
  /\ At(r, "start")
  /\ \E u, target \in User :
       IF u \in admin /\ target # u /\ target \in member
       THEN Become(r, Loaded("remove", "deleteTarget", u, {target}))
       ELSE Reply(r, "refused")
  /\ UNCHANGED <<exists, joined, admin, now, cause>>

DeleteTarget(r) ==
  /\ At(r, "deleteTarget")
  /\ \E target \in req[r].arg :
       IF target \in member
       THEN /\ DeleteRow(target)
            /\ Blame("stale", Stale(r))
            /\ Goto(r, "notice")
       ELSE /\ Reply(r, "error")
            /\ UNCHANGED <<joined, admin, cause>>
  /\ UNCHANGED <<exists, now>>

\* leaveGroup: the own row goes first ...
LoadLeave(r) ==
  /\ At(r, "start")
  /\ \E u \in User :
       IF u \in member THEN Become(r, Loaded("leave", "deleteSelf", u, {}))
                       ELSE Reply(r, "refused")
  /\ UNCHANGED <<exists, joined, admin, now, cause>>

\* Where leaveGroup goes on, by the snapshot: nobody was left, or the leaver was
\* the administrator, or neither.
AfterLeaving(r) == IF req[r].snap = {req[r].actor} THEN "deleteGroup"
                   ELSE IF req[r].isAdmin THEN "pick" ELSE "notice"

DeleteSelf(r) ==
  /\ At(r, "deleteSelf") /\ req[r].op = "leave"
  /\ IF req[r].actor \in member
     THEN /\ DeleteRow(req[r].actor)
          /\ Blame("stale", Stale(r))
          /\ Goto(r, AfterLeaving(r))
     ELSE /\ Reply(r, "error")
          /\ UNCHANGED <<joined, admin, cause>>
  /\ UNCHANGED <<exists, now>>

\* ... then the oldest of those who are there now is found (findFirst by
\* joinedAt: of equals, any one) ...
PickSuccessor(r) ==
  /\ At(r, "pick")
  /\ \/ member = {} /\ Goto(r, "notice")
     \/ \E u \in member :
          /\ \A v \in member : joined[u] <= joined[v]
          /\ Become(r, [req[r] EXCEPT !.at = "promote", !.next = u])
  /\ UNCHANGED <<exists, joined, admin, now, cause>>

\* Mutant: the heir is found, and the update forgotten.
PromoteNobody(r) ==
  /\ At(r, "promote")
  /\ Goto(r, "notice")
  /\ UNCHANGED <<exists, joined, admin, now, cause>>

\* ... and promoted, if it still is there.
Promote(r) ==
  /\ At(r, "promote")
  /\ IF req[r].next \in member
     THEN /\ admin' = admin \cup {req[r].next}
          /\ Goto(r, "notice")
          /\ UNCHANGED cause
     ELSE /\ Reply(r, "error")
          /\ Blame("stale", TRUE)
          /\ UNCHANGED admin
  /\ UNCHANGED <<exists, joined, now>>

\* Deleting the chat takes the participants along (cascade).
DeleteGroup(r) ==
  /\ At(r, "deleteGroup")
  /\ IF exists
     THEN /\ exists' = FALSE
          /\ joined' = [u \in User |-> 0]
          /\ admin' = {}
          /\ Reply(r, "ok")
     ELSE /\ Reply(r, "error")
          /\ UNCHANGED <<exists, joined, admin>>
  /\ UNCHANGED <<now, cause>>

\* deleteChat: the own row, then a fresh count decides.
LoadDeleteChat(r) ==
  /\ At(r, "start")
  /\ \E u \in User :
       IF u \in member THEN Become(r, Loaded("deleteChat", "deleteSelf", u, {}))
                       ELSE Reply(r, "refused")
  /\ UNCHANGED <<exists, joined, admin, now, cause>>

DeleteOwnRow(r) ==
  /\ At(r, "deleteSelf") /\ req[r].op = "deleteChat"
  /\ IF req[r].actor \in member
     THEN /\ DeleteRow(req[r].actor)
          /\ Blame("deleteChat", req[r].actor \in admin)
          /\ Goto(r, "count")
     ELSE /\ Reply(r, "error")
          /\ UNCHANGED <<joined, admin, cause>>
  /\ UNCHANGED <<exists, now>>

\* Mutant: off by one, the last participant loses the chat.
CountLeftOffByOne(r) ==
  /\ At(r, "count")
  /\ IF Cardinality(member) <= 1 THEN Goto(r, "deleteGroup") ELSE Reply(r, "ok")
  /\ UNCHANGED <<exists, joined, admin, now, cause>>

CountLeft(r) ==
  /\ At(r, "count")
  /\ IF member = {} THEN Goto(r, "deleteGroup") ELSE Reply(r, "ok")
  /\ UNCHANGED <<exists, joined, admin, now, cause>>

\* systemMessage: the last write of the other handlers; a foreign key error when
\* the chat is gone.
Notice(r) ==
  /\ At(r, "notice")
  /\ Reply(r, IF exists THEN "ok" ELSE "error")
  /\ UNCHANGED <<exists, joined, admin, now, cause>>

\* An awaited call of a started handler rejects, or the process dies.
Fail(r) ==
  /\ req[r].op # "none" /\ req[r].reply = "none"
  /\ Blame("crash", req[r].at \in {"pick", "promote", "count", "deleteGroup"})
  /\ Reply(r, "error")
  /\ UNCHANGED <<exists, joined, admin, now>>

Next ==
  \E r \in Req :
    \/ LoadAdd(r) \/ InsertParticipants(r)
    \/ LoadRemove(r) \/ DeleteTarget(r)
    \/ LoadLeave(r) \/ DeleteSelf(r) \/ PickSuccessor(r) \/ Promote(r) \/ DeleteGroup(r)
    \/ LoadDeleteChat(r) \/ DeleteOwnRow(r) \/ CountLeft(r)
    \/ Notice(r)
    \/ Fail(r)

Spec == Init /\ [][Next]_vars

-----------------------------------------------------------------------------
\* A handler that will still look after the group: hand the administration over,
\* or delete the chat.
Pending(l) == \E r \in Req : At(r, l)

\* A group with participants and no administrator is one whose leaving
\* administrator is still handing over, or one that a stale snapshot, a crash or
\* "delete chat" has left so: leaveGroup by itself never orphans a group.
OrphansAreExplained ==
  member # {} /\ admin = {} =>
    cause # {} \/ Pending("pick") \/ Pending("promote")

\* A chat without participants is about to be deleted, unless handlers overlapped
\* or one failed half way: whoever goes last, by leaving or by "delete chat",
\* takes the chat along.
EmptyChatsAreExplained ==
  exists /\ member = {} =>
    \/ cause \cap {"stale", "crash"} # {}
    \/ Pending("count") \/ Pending("deleteGroup")

\* The limit on the size is exceeded only by an insertion whose count of the
\* participants was out of date.
LimitIsExplained == Cardinality(member) > GROUP_MAX_MEMBERS => "stale" \in cause

\* A chat is deleted under a participant only when someone was inserted by a
\* request that had loaded an earlier membership.
NobodyLosesALiveChat ==
  [][exists /\ ~exists' => member = {} \/ "stale" \in cause]_vars

\* Handing the administration over never makes a second administrator, however
\* many leave at once, unless one of them left on a stale snapshot.
SecondAdminIsExplained == Cardinality(admin) > 1 => "stale" \in cause

\* leaveGroup, removeParticipant: a group with participants has one administrator, neither none
\* nor two, with the exceptions above.
AdministrationIsExplained == OrphansAreExplained /\ SecondAdminIsExplained

\* addParticipants, leaveGroup, deleteChat: a chat that is there has between one participant and
\* GROUP_MAX_MEMBERS, with the exceptions above.
SizeIsExplained == EmptyChatsAreExplained /\ LimitIsExplained

(***************************************************************************)
(* What the repository says and the handlers do not keep.                  *)
(***************************************************************************)

\* "If the administrator has left, the longest-standing of the others becomes
\* administrator: otherwise the group would stay for ever without one who can
\* remove participants."  When no request is being handled and none has failed,
\* a group with participants has an administrator.
GroupKeepsAnAdmin ==
  /\ member # {}
  /\ \A r \in Req : req[r].at = "start" \/ req[r].reply = "ok"
  => admin # {}
=============================================================================
