------------------------------- MODULE Claims -------------------------------
(***************************************************************************)
(* Who is shown with a post of another author: those tagged in it, and its *)
(* co-authors.  Each has a row with a status.  The author puts it there,   *)
(* the user it is about answers, and only an accepted one is shown.        *)
(***************************************************************************)
EXTENDS Naturals, FiniteSets

CONSTANTS User,   \* those whom the post may name
          Author, \* one of them
          Req,    \* requests, numbered as they come
          None

VARIABLES kind,    \* "tag" or "collab": PostTag or PostCollaborator
          status,  \* of the row of each user, NONE without one
          post,    \* whether the post is there
          blocked, \* the users between whom and the author there is a block
          req,     \* the state of every request
          word,    \* history: the last that was asked of each user, or that he set out to answer
          agreed,  \* history: the users who have ever said yes
          mixed    \* history: the users whom requests at once are or were about, until one
                   \* begins when none other is under way

vars == <<kind, status, post, blocked, req, word, agreed, mixed>>

Statuses == {"NONE", "PENDING", "ACCEPTED", "DECLINED"}

\* user: whom the request is about at the moment; says: what it writes; rest: whom else the
\* author invites with it.
Request == [at : {"start", "check", "write", "done", "failed"}, user : User \cup {None},
            says : Statuses, rest : SUBSET User]

Fresh == [at |-> "start", user |-> None, says |-> "NONE", rest |-> {}]

TypeOK ==
  /\ kind \in {"tag", "collab"} /\ status \in [User -> Statuses] /\ post \in BOOLEAN
  /\ blocked \subseteq User /\ req \in [Req -> Request]
  /\ word \in [User -> Statuses] /\ agreed \subseteq User /\ mixed \subseteq User

\* The tags are made with the post: the author's own is accepted at once.  Co-authors are
\* invited later.
Init ==
  /\ kind \in {"tag", "collab"} /\ post = TRUE /\ blocked = {}
  /\ \E T \in IF kind = "tag" THEN SUBSET User ELSE {{}} :
       status = [u \in User |-> IF u \notin T THEN "NONE" ELSE IF u = Author THEN "ACCEPTED" ELSE "PENDING"]
  /\ req = [r \in Req |-> Fresh]
  /\ word = status /\ agreed = {u \in User : status[u] = "ACCEPTED"} /\ mixed = {}

-----------------------------------------------------------------------------
At(r, l) == req[r].at = l

\* The next request to come is r.
Comes(r) == At(r, "start") /\ \A q \in Req : q < r => ~At(q, "start")

About(u) == {r \in Req : At(r, "write") /\ req[r].user = u}

\* From now on s is the last word about u.
Says(u, s) ==
  /\ word' = [word EXCEPT ![u] = s]
  /\ mixed' = IF About(u) # {} THEN mixed \cup {u} ELSE mixed \ {u}

\* acceptTag, declineTag: a tag that says so already is left as it is.
AnswerTag(r, u, s) ==
  /\ Comes(r) /\ kind = "tag" /\ status[u] # "NONE"
  /\ IF status[u] # s
     THEN /\ req' = [req EXCEPT ![r] = [Fresh EXCEPT !.at = "write", !.user = u, !.says = s]]
          /\ UNCHANGED agreed
     ELSE /\ req' = [req EXCEPT ![r] = [Fresh EXCEPT !.at = "done", !.user = u, !.says = s]]
          /\ agreed' = IF s = "ACCEPTED" THEN agreed \cup {u} ELSE agreed
  /\ Says(u, s)
  /\ UNCHANGED <<kind, status, post, blocked>>

\* respondCollaborator: the invitation is there; whatever was said to it before.
RespondCollaborator(r, u, s) ==
  /\ Comes(r) /\ kind = "collab" /\ status[u] # "NONE"
  /\ req' = [req EXCEPT ![r] = [Fresh EXCEPT !.at = "write", !.user = u, !.says = s]]
  /\ Says(u, s)
  /\ UNCHANGED <<kind, status, post, blocked, agreed>>

\* The answer is written to the row, which must still be there.
WriteAnswer(r) ==
  LET u == req[r].user
      s == req[r].says
  IN  /\ At(r, "write") /\ s # "PENDING"
      /\ IF post
         THEN /\ status' = [status EXCEPT ![u] = s]
              /\ agreed' = IF s = "ACCEPTED" THEN agreed \cup {u} ELSE agreed
              /\ req' = [req EXCEPT ![r].at = "done"]
         ELSE req' = [req EXCEPT ![r].at = "failed"] /\ UNCHANGED <<status, agreed>>
      /\ UNCHANGED <<kind, post, blocked, word, mixed>>

\* inviteCollaborators: the author of the post invites others, one after the other.
InviteCollaborators(r, T) ==
  /\ Comes(r) /\ kind = "collab" /\ post
  /\ T # {} /\ Author \notin T
  /\ req' = [req EXCEPT ![r] = [Fresh EXCEPT !.at = "check", !.says = "PENDING", !.rest = T]]
  /\ UNCHANGED <<kind, status, post, blocked, word, agreed, mixed>>

\* assertNotBlocked: one who is blocked ends the request; those before him are invited.
CheckBlock(r, u) ==
  /\ At(r, "check") /\ u \in req[r].rest
  /\ req' = [req EXCEPT ![r].at = IF u \in blocked THEN "failed" ELSE "write",
                        ![r].user = u, ![r].rest = @ \ {u}]
  /\ IF u \in blocked THEN UNCHANGED <<word, mixed>> ELSE Says(u, "PENDING")
  /\ UNCHANGED <<kind, status, post, blocked, agreed>>

\* Mutant: one who has said yes is not asked again, though the answer says so.
InvitedOnce(u) == IF status[u] = "ACCEPTED" THEN "ACCEPTED" ELSE "PENDING"

\* What the upsert makes of the row: an invitation asks again, whatever was answered.
Invited(u) == "PENDING"

WriteInvitation(r) ==
  LET u == req[r].user
  IN  /\ At(r, "write") /\ req[r].says = "PENDING"
      /\ IF post
         THEN /\ status' = [status EXCEPT ![u] = Invited(u)]
              /\ req' = [req EXCEPT ![r].at = IF req[r].rest = {} THEN "done" ELSE "check"]
         ELSE req' = [req EXCEPT ![r].at = "failed"] /\ UNCHANGED status
      /\ UNCHANGED <<kind, post, blocked, word, agreed, mixed>>

\* A block leaves the rows alone, and only invitations ask for it.  Bounded to one.
Block(u) ==
  /\ kind = "collab" /\ blocked = {} /\ u # Author
  /\ blocked' = {u}
  /\ UNCHANGED <<kind, status, post, req, word, agreed, mixed>>

DeletePost ==
  /\ post /\ post' = FALSE
  /\ status' = [u \in User |-> "NONE"]
  /\ UNCHANGED <<kind, blocked, req, word, agreed, mixed>>

Next ==
  \/ \E r \in Req, u \in User, s \in {"ACCEPTED", "DECLINED"} : AnswerTag(r, u, s) \/ RespondCollaborator(r, u, s)
  \/ \E r \in Req : WriteAnswer(r) \/ WriteInvitation(r)
  \/ \E r \in Req, u \in User : CheckBlock(r, u)
  \/ \E r \in Req, T \in SUBSET User : InviteCollaborators(r, T)
  \/ \E u \in User : Block(u)
  \/ DeletePost

Spec == Init /\ [][Next]_vars

-----------------------------------------------------------------------------
\* acceptTag, declineTag, respondCollaborator, inviteCollaborators: once no request about a
\* user is under way, the last that began, by him or by an invitation, decides whether he is
\* shown, however the requests about others overlapped; of two at once about himself either
\* may have won.  Even then he is shown only if he has said yes at some time.  A request fails
\* only if the post is gone or, with those before him already asked, at one who is blocked.
AnswersStand ==
  /\ \A u \in User : post /\ u \notin mixed /\ About(u) = {} => status[u] = word[u]
  /\ \A u \in User : status[u] = "ACCEPTED" => u \in agreed
  /\ \A r \in Req : At(r, "failed") => ~post \/ req[r].user \in blocked
=============================================================================
