---------------------------- MODULE SocialGraph ----------------------------
(***************************************************************************)
(* Who follows whom, who has blocked whom, who is a close friend, and who  *)
(* may see what: FollowService, CloseFriendsService, ProfileService.       *)
(* updatePrivacy and AccessService.  follow, accept, decline, add and      *)
(* canViewContent read and act in separate calls; block is a transaction.  *)
(***************************************************************************)
EXTENDS FiniteSets

CONSTANTS User,
          Row,  \* ids of Follow rows, handed out once
          Req,  \* requests; each one is handled once
          None

ASSUME NobodyElse == None \notin User \cup Row

VARIABLES follow,  \* the Follow rows
          block,   \* who has blocked whom
          close,   \* whose close friend is who
          private, \* the users whose account is private
          req,     \* the state of every request
          late,    \* history: follows and close friends that a block has overtaken
          saw      \* history: requests to see content that could see it at some moment

graph == <<follow, block, close, private>>
vars == <<follow, block, close, private, req, late, saw>>

Pair == {p \in User \X User : p[1] # p[2]}

NoFollow == [status |-> "absent", from |-> None, to |-> None]

FollowRow == [status : {"absent", "PENDING", "ACCEPTED", "gone"},
              from : User \cup {None}, to : User \cup {None}]

\* user asks about other, or about row; status is the one follow will create.
\* over (history): what others did while the request was under way.
Request == [at : {"start", "privacy", "existing", "create", "accept", "decline", "close",
                  "viewPrivacy", "viewFollow", "shown", "end"},
            user : User \cup {None}, other : User \cup {None}, row : Row \cup {None},
            status : {"PENDING", "ACCEPTED"}, over : SUBSET {"block", "private", "accept"}]

Idle == [at |-> "start", user |-> None, other |-> None, row |-> None,
         status |-> "PENDING", over |-> {}]

TypeOK ==
  /\ follow \in [Row -> FollowRow]
  /\ block \subseteq Pair /\ close \subseteq Pair /\ private \subseteq User
  /\ req \in [Req -> Request]
  /\ late \subseteq {"follow", "close"} \X Pair /\ saw \subseteq Req

Exists(i) == follow[i].status \in {"PENDING", "ACCEPTED"}

\* The rows of one pair: the unique index allows one.
Rows(u, v) == {i \in Row : Exists(i) /\ follow[i].from = u /\ follow[i].to = v}

Following(u, v) == \E i \in Rows(u, v) : follow[i].status = "ACCEPTED"

\* AccessService.isBlockedBetween.
Blocked(u, v) == <<u, v>> \in block \/ <<v, u>> \in block

\* What AccessService.canViewContent says of one moment.
CanView(u, v) == ~Blocked(u, v) /\ (v \notin private \/ Following(u, v))

\* One follow or request, one block, one close friend from before, or none.
Init ==
  /\ follow \in {[i \in Row |-> NoFollow]} \cup
       {[i \in Row |-> IF i = j THEN [status |-> s, from |-> p[1], to |-> p[2]] ELSE NoFollow] :
          j \in Row, s \in {"PENDING", "ACCEPTED"}, p \in Pair}
  /\ block \in {{}} \cup {{p} : p \in Pair}
  /\ close \in {{}} \cup {{p} : p \in Pair}
  /\ private \in SUBSET User
  /\ \A p \in Pair : Blocked(p[1], p[2]) => Rows(p[1], p[2]) = {} /\ p \notin close
  /\ req = [r \in Req |-> Idle]
  /\ late = {} /\ saw = {}

-----------------------------------------------------------------------------
At(r, l) == req[r].at = l

Active(r) == req[r].at \notin {"start", "shown", "end"}

Become(r, x) == req' = [req EXCEPT ![r] = x]

Goto(r, l) == Become(r, [req[r] EXCEPT !.at = l])

Ask(l, u, v) == [Idle EXCEPT !.at = l, !.user = u, !.other = v]

Answered(r) == [req[r] EXCEPT !.at = "end"]

\* r becomes x; the requests in others are overtaken by what it does.
Overtake(r, x, others, what) ==
  req' = [q \in Req |-> CASE q = r -> x
                          [] q \in others \ {r} -> [req[q] EXCEPT !.over = @ \cup {what}]
                          [] OTHER -> req[q]]

\* Deleting the rows in S.
Delete(S) == follow' = [i \in Row |-> IF i \in S THEN [follow[i] EXCEPT !.status = "gone"]
                                                 ELSE follow[i]]

\* Requests that ask about u and v, in either role.
Between(u, v) ==
  {q \in Req : Active(q) /\ (<<req[q].user, req[q].other>> \in {<<u, v>>, <<v, u>>})}

-----------------------------------------------------------------------------
\* follow: no block between the two...
FollowStart(r) ==
  /\ At(r, "start")
  /\ \E p \in Pair : ~Blocked(p[1], p[2]) /\ Become(r, Ask("privacy", p[1], p[2]))
  /\ UNCHANGED <<graph, late>>

\* Mutant: a private account is followed at once.
FollowPrivacyNever(r) ==
  /\ At(r, "privacy")
  /\ Become(r, [req[r] EXCEPT !.at = "existing", !.status = "ACCEPTED"])
  /\ UNCHANGED <<graph, late>>

\* ... then the target's privacy, which decides between a follow and a request...
FollowPrivacy(r) ==
  /\ At(r, "privacy")
  /\ Become(r, [req[r] EXCEPT !.at = "existing",
                              !.status = IF req[r].other \in private THEN "PENDING" ELSE "ACCEPTED"])
  /\ UNCHANGED <<graph, late>>

\* ... then whether there is one already...
FollowExisting(r) ==
  /\ At(r, "existing")
  /\ Goto(r, IF Rows(req[r].user, req[r].other) = {} THEN "create" ELSE "end")
  /\ UNCHANGED <<graph, late>>

\* ... and the insertion, which the unique index may reject.
FollowCreate(r) ==
  LET u == req[r].user
      v == req[r].other
  IN  /\ At(r, "create")
      /\ IF Rows(u, v) = {}
         THEN /\ \E i \in Row :
                   /\ follow[i].status = "absent"
                   /\ follow' = [follow EXCEPT ![i] = [status |-> req[r].status, from |-> u, to |-> v]]
              /\ late' = IF "block" \in req[r].over THEN late \cup {<<"follow", <<u, v>>>>} ELSE late
         ELSE UNCHANGED <<follow, late>>
      /\ Become(r, Answered(r))
      /\ UNCHANGED <<block, close, private>>

\* unfollow, and removeFollower from the other side.
Unfollow(r) ==
  /\ At(r, "start")
  /\ \E p \in Pair :
       /\ Delete(Rows(p[1], p[2]))
       /\ late' = late \ {<<"follow", p>>}
       /\ \E u \in {p[1], p[2]} : Become(r, [Idle EXCEPT !.at = "end", !.user = u])
  /\ UNCHANGED <<block, close, private>>

\* loadOwnRequest: a pending request to the user who asks.
Own(i, u) == follow[i].status = "PENDING" /\ follow[i].to = u

AcceptRead(r) ==
  /\ At(r, "start")
  /\ \E i \in Row, u \in User :
       Own(i, u) /\ Become(r, [Idle EXCEPT !.at = "accept", !.user = u, !.row = i])
  /\ UNCHANGED <<graph, late>>

\* The row is updated by its id; it may be gone.
Accept(r) ==
  /\ At(r, "accept")
  /\ IF Exists(req[r].row)
     THEN /\ follow' = [follow EXCEPT ![req[r].row].status = "ACCEPTED"]
          /\ Overtake(r, Answered(r), {q \in Req : At(q, "decline") /\ req[q].row = req[r].row},
                      "accept")
     ELSE Become(r, Answered(r)) /\ UNCHANGED follow
  /\ UNCHANGED <<block, close, private, late>>

DeclineRead(r) ==
  /\ At(r, "start")
  /\ \E i \in Row, u \in User :
       Own(i, u) /\ Become(r, [Idle EXCEPT !.at = "decline", !.user = u, !.row = i])
  /\ UNCHANGED <<graph, late>>

\* The row is deleted by its id; it may be gone, or accepted meanwhile.
Decline(r) ==
  LET i == req[r].row
  IN  /\ At(r, "decline")
      /\ IF Exists(i)
         THEN Delete({i}) /\ late' = late \ {<<"follow", <<follow[i].from, follow[i].to>>>>}
         ELSE UNCHANGED <<follow, late>>
      /\ Become(r, Answered(r))
      /\ UNCHANGED <<block, close, private>>

\* Mutant: only the follow of the one who is blocked goes.
BlockOneWay(r) ==
  /\ At(r, "start")
  /\ \E p \in Pair :
       /\ block' = block \cup {p}
       /\ Delete(Rows(p[2], p[1]))
       /\ close' = close \ {p, <<p[2], p[1]>>}
       /\ late' = late \ ({"follow", "close"} \X {p, <<p[2], p[1]>>})
       /\ Overtake(r, [Idle EXCEPT !.at = "end", !.user = p[1]], Between(p[1], p[2]), "block")
  /\ UNCHANGED private

\* block: one transaction, which ends follows and close friends both ways.
Block(r) ==
  /\ At(r, "start")
  /\ \E p \in Pair :
       /\ block' = block \cup {p}
       /\ Delete(Rows(p[1], p[2]) \cup Rows(p[2], p[1]))
       /\ close' = close \ {p, <<p[2], p[1]>>}
       /\ late' = late \ ({"follow", "close"} \X {p, <<p[2], p[1]>>})
       /\ Overtake(r, [Idle EXCEPT !.at = "end", !.user = p[1]], Between(p[1], p[2]), "block")
  /\ UNCHANGED private

Unblock(r) ==
  /\ At(r, "start")
  /\ \E p \in Pair : block' = block \ {p}
  /\ Become(r, [Idle EXCEPT !.at = "end"])
  /\ UNCHANGED <<follow, close, private, late>>

\* updatePrivacy.
SetPrivacy(r) ==
  /\ At(r, "start")
  /\ \E u \in User :
       \/ /\ private' = private \cup {u}
          /\ Overtake(r, [Idle EXCEPT !.at = "end", !.user = u],
                      {q \in Req : Active(q) /\ req[q].other = u}, "private")
       \/ /\ private' = private \ {u}
          /\ Become(r, [Idle EXCEPT !.at = "end", !.user = u])
  /\ UNCHANGED <<follow, block, close, late>>

\* CloseFriendsService.add: no block between the two...
AddRead(r) ==
  /\ At(r, "start")
  /\ \E p \in Pair : ~Blocked(p[1], p[2]) /\ Become(r, Ask("close", p[1], p[2]))
  /\ UNCHANGED <<graph, late>>

\* ... and the insertion.
Add(r) ==
  LET p == <<req[r].user, req[r].other>>
  IN  /\ At(r, "close")
      /\ close' = close \cup {p}
      /\ late' = IF "block" \in req[r].over THEN late \cup {<<"close", p>>} ELSE late
      /\ Become(r, Answered(r))
      /\ UNCHANGED <<follow, block, private>>

Remove(r) ==
  /\ At(r, "start")
  /\ \E p \in Pair : close' = close \ {p} /\ late' = late \ {<<"close", p>>}
  /\ Become(r, [Idle EXCEPT !.at = "end"])
  /\ UNCHANGED <<follow, block, private>>

-----------------------------------------------------------------------------
\* Mutant: the block is not looked at.
ViewStartAnyway(r) ==
  /\ At(r, "start")
  /\ \E p \in Pair : Become(r, Ask("viewPrivacy", p[1], p[2]))
  /\ UNCHANGED <<graph, late>>

\* canViewContent: no block...
ViewStart(r) ==
  /\ At(r, "start")
  /\ \E p \in Pair : ~Blocked(p[1], p[2]) /\ Become(r, Ask("viewPrivacy", p[1], p[2]))
  /\ UNCHANGED <<graph, late>>

\* ... then a public account...
ViewPrivacy(r) ==
  /\ At(r, "viewPrivacy")
  /\ Goto(r, IF req[r].other \in private THEN "viewFollow" ELSE "shown")
  /\ UNCHANGED <<graph, late>>

\* ... or a follower.
ViewFollow(r) ==
  /\ At(r, "viewFollow")
  /\ Goto(r, IF Following(req[r].user, req[r].other) THEN "shown" ELSE "end")
  /\ UNCHANGED <<graph, late>>

Views(r) == req[r].at \in {"viewPrivacy", "viewFollow"}

\* Who of those who ask could see the content by now.
Look == saw' = saw \cup {q \in Req : (Views(q) /\ CanView(req[q].user, req[q].other))'}

Step(r) ==
  \/ FollowStart(r) \/ FollowPrivacy(r) \/ FollowExisting(r) \/ FollowCreate(r) \/ Unfollow(r)
  \/ AcceptRead(r) \/ Accept(r) \/ DeclineRead(r) \/ Decline(r)
  \/ Block(r) \/ Unblock(r) \/ SetPrivacy(r)
  \/ AddRead(r) \/ Add(r) \/ Remove(r)
  \/ ViewStart(r) \/ ViewPrivacy(r) \/ ViewFollow(r)

Next == \E r \in Req : Step(r) /\ Look

Spec == Init /\ [][Next]_vars

-----------------------------------------------------------------------------
\* block: two users of whom one has blocked the other have no follow, request or close
\* friend between them, but for those whose handler had checked before the block.  The
\* story rail and the feed rely on it: they select by follow and ask for no block.
BlockedPairsAreApart ==
  \A p \in Pair :
    Blocked(p[1], p[2]) =>
      /\ Rows(p[1], p[2]) # {} => <<"follow", p>> \in late
      /\ p \in close => <<"close", p>> \in late

\* canViewContent asks three tables one after the other, and yet whoever it lets see
\* could see at some moment since he asked, or a block came after its first check.
ShownIsExplained == \A r \in Req : At(r, "shown") => r \in saw \/ "block" \in req[r].over

\* follow, accept: a private account gets a follower only by its owner's own confirmation,
\* or because it became private under the feet of the follower.
FollowersAreConfirmed ==
  [][\A p \in Pair :
       ~Following(p[1], p[2]) /\ Following(p[1], p[2])' /\ p[2] \in private' =>
         \E r \in Req : /\ req'[r].at # req[r].at
                        /\ \/ At(r, "accept") /\ req[r].user = p[2]
                           \/ At(r, "create") /\ req[r].user = p[1] /\ "private" \in req[r].over]_vars

\* Whatever the requests do and however they overlap, every user sees a graph that changes as
\* Audience says: one thing at a time, and a block takes the follows and the close friends along.
Seen(u) == INSTANCE Audience WITH
  Other <- User \ {u},
  follow <- {v \in User \ {u} : Following(u, v)},
  block <- {v \in User \ {u} : Blocked(u, v)},
  close <- {v \in User \ {u} : <<v, u>> \in close},
  private <- private \ {u}

AudiencesAgree ==
  /\ \A u \in User : Seen(u)!GraphInit
  /\ [][\A u \in User : [Seen(u)!Change(User \ {u})]_(Seen(u)!graph)]_graph

\* unfollow, removeFollower, block, decline: a follow ends by a request of one of the two,
\* and to decline a request ends it only if the request was accepted meanwhile.
FollowsEndByWill ==
  [][\A p \in Pair :
       Following(p[1], p[2]) /\ ~Following(p[1], p[2])' =>
         \E r \in Req : /\ req'[r].at # req[r].at /\ req'[r].user \in {p[1], p[2]}
                        /\ At(r, "decline") => "accept" \in req[r].over]_vars

\* A follow begins and ends by the will of the two it is between.
FollowsAreWilled == FollowersAreConfirmed /\ FollowsEndByWill
=============================================================================
