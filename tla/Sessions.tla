------------------------------ MODULE Sessions ------------------------------
(***************************************************************************)
(* Login sessions: the RefreshToken table and the request handlers of      *)
(* AuthService, UsersService.softDeleteMe and AdminService.deleteUser that *)
(* create, rotate and revoke its rows.                                     *)
(*                                                                         *)
(* A handler is a sequence of awaited database calls, with no transaction  *)
(* and no lock: each awaited call is one action here, and the calls of     *)
(* different requests interleave freely.                                   *)
(***************************************************************************)
EXTENDS Naturals

CONSTANTS User,   \* accounts
          Sid,    \* identities of RefreshToken rows (a token and its row)
          Req,    \* HTTP requests; each one is handled once
          None    \* no user, no row

ASSUME NoneAssumption == None \notin User \cup Sid

VARIABLES token,     \* the RefreshToken table
          password,  \* User.passwordHash, by generation: 0 is the first hash
          deleted,   \* User.isDeleted: "no", "self" or "admin"
          req        \* the state of every request

vars == <<token, password, deleted, req>>

-----------------------------------------------------------------------------
(***************************************************************************)
(* Rows.  parent, cred and late are history: parent is the row a refresh   *)
(* replaced, cred the generation of the password that the login behind     *)
(* this session was checked against, late says that the login or refresh   *)
(* behind it was in flight while a revoke-all of its user ran.             *)
(***************************************************************************)
TokenRow == [state : {"absent", "live", "revoked"}, owner : User \cup {None},
             expired : BOOLEAN, parent : Sid \cup {None},
             cred : Nat, late : BOOLEAN]

NoRow == [state |-> "absent", owner |-> None, expired |-> FALSE,
          parent |-> None, cred |-> 0, late |-> FALSE]

FirstRow(u) == [NoRow EXCEPT !.state = "live", !.owner = u]

Op == {"none", "login", "refresh", "revokeOne", "setPassword", "softDelete"}

\* at: the next awaited call of the handler; reply: how it ended.
\* seen is history: the user's live sessions when the request learnt that
\* they all have to go.
Request == [op : Op,
            at : {"start", "ticket", "readUser", "revokeOld", "create", "revokeOne",
                  "setPassword", "revokeAll", "end"},
            reply : {"none", "ok", "refused", "reuse", "error"},
            user : User \cup {None}, sid : Sid \cup {None},
            cred : Nat, late : BOOLEAN, seen : SUBSET Sid]

Idle == [op |-> "none", at |-> "start", reply |-> "none", user |-> None,
         sid |-> None, cred |-> 0, late |-> FALSE, seen |-> {}]

TypeOK ==
  /\ token \in [Sid -> TokenRow]
  /\ password \in [User -> Nat]
  /\ deleted \in [User -> {"no", "self", "admin"}]
  /\ req \in [Req -> Request]

Live(s) == token[s].state = "live"

LiveOf(u) == {s \in Sid : Live(s) /\ token[s].owner = u}

\* Requests that will still create a row for u unless a check stops them.
Minting(u) == {r \in Req : /\ req[r].user = u
                           /\ req[r].reply = "none"
                           /\ req[r].at \in {"ticket", "readUser", "revokeOld", "create"}}

\* The server starts with some accounts logged in.
Init ==
  /\ token \in [Sid -> {NoRow} \cup {FirstRow(u) : u \in User}]
  /\ password = [u \in User |-> 0]
  /\ deleted = [u \in User |-> "no"]
  /\ req = [r \in Req |-> Idle]

-----------------------------------------------------------------------------
At(r, o, l) == req[r].op = o /\ req[r].at = l /\ req[r].reply = "none"

Fresh(r) == At(r, "none", "start")

Become(r, x) == req' = [req EXCEPT ![r] = x]

Goto(r, l) == Become(r, [req[r] EXCEPT !.at = l])

\* The state of a request of user u after its first step: operation o, next call l.
Started(o, l, u) == [Idle EXCEPT !.op = o, !.at = l, !.user = u]

\* The end of a handler, whose locals are gone.
Ended(r, a) == [Idle EXCEPT !.at = "end", !.reply = a, !.seen = req[r].seen]

Reply(r, a) == Become(r, Ended(r, a))


\* The access token of a signed-in request: JwtStrategy.validate reads the
\* account on every request and never looks at the session rows.
Authenticated(u) == deleted[u] = "no"

(***************************************************************************)
(* login: the account is found and the password compared with the hash     *)
(* just read; the row is created later.  An account with a second factor   *)
(* gets a one-time ticket first, which verify2fa takes back together with  *)
(* a code: the login waits at "ticket" in between (the ticket and the code *)
(* themselves are the business of another module).                         *)
(***************************************************************************)
LoginRead(r) ==
  /\ Fresh(r)
  /\ \E u \in User :
       \/ /\ deleted[u] = "no"
          /\ \E next \in {"create", "ticket"} :
               Become(r, [Started("login", next, u) EXCEPT !.cred = password[u]])
       \/ Reply(r, "refused")
  /\ UNCHANGED <<token, password, deleted>>

\* verify2fa: the account is read again, the password is not.
Verify2fa(r) ==
  /\ At(r, "login", "ticket")
  /\ \/ deleted[req[r].user] = "no" /\ Goto(r, "create")
     \/ Reply(r, "refused")
  /\ UNCHANGED <<token, password, deleted>>

\* Mutant: the revokedAt check of refresh is missing.
RefreshReadAnyRow(r) ==
  /\ Fresh(r)
  /\ \E s \in Sid :
       /\ token[s].state # "absent"
       /\ Become(r, [Started("refresh", "readUser", token[s].owner) EXCEPT
                      !.sid = s, !.cred = token[s].cred, !.late = token[s].late])
  /\ UNCHANGED <<token, password, deleted>>

(***************************************************************************)
(* refresh: look the presented token up, then the account, then revoke the *)
(* old row by its id, then create the new one.  A JWT past its expiry is   *)
(* refused before the row is read.                                         *)
(***************************************************************************)
RefreshRead(r) ==
  /\ Fresh(r)
  /\ \E s \in Sid :
       \/ /\ token[s].state = "absent" \/ token[s].expired
          /\ Reply(r, "refused")
       \/ /\ token[s].state = "revoked" /\ ~token[s].expired
          /\ Become(r, [Started("refresh", "revokeAll", token[s].owner) EXCEPT
                         !.seen = LiveOf(token[s].owner)])
       \/ /\ Live(s) /\ ~token[s].expired
          /\ Become(r, [Started("refresh", "readUser", token[s].owner) EXCEPT
                         !.sid = s, !.cred = token[s].cred, !.late = token[s].late])
  /\ UNCHANGED <<token, password, deleted>>

\* Mutant: the new pair is issued first, the old row would be revoked after it.
RefreshReadUserIssueFirst(r) ==
  /\ At(r, "refresh", "readUser")
  /\ IF deleted[req[r].user] = "no" THEN Goto(r, "create") ELSE Reply(r, "refused")
  /\ UNCHANGED <<token, password, deleted>>

RefreshReadUser(r) ==
  /\ At(r, "refresh", "readUser")
  /\ IF deleted[req[r].user] = "no" THEN Goto(r, "revokeOld") ELSE Reply(r, "refused")
  /\ UNCHANGED <<token, password, deleted>>

RefreshRevokeOld(r) ==
  /\ At(r, "refresh", "revokeOld")
  /\ token' = [token EXCEPT ![req[r].sid].state = "revoked"]
  /\ Goto(r, "create")
  /\ UNCHANGED <<password, deleted>>

\* issueTokens: the row is created last, after the new-device mail.
IssueTokens(r) ==
  /\ req[r].at = "create" /\ req[r].reply = "none"
  /\ \E s \in Sid :
       /\ token[s].state = "absent"
       /\ token' = [token EXCEPT ![s] =
            [state |-> "live", owner |-> req[r].user, expired |-> FALSE,
             parent |-> req[r].sid, cred |-> req[r].cred, late |-> req[r].late]]
  /\ Reply(r, "ok")
  /\ UNCHANGED <<password, deleted>>

(***************************************************************************)
(* logout and revokeSession: read one row, then revoke it by its id.       *)
(* logout needs no account; revokeSession refuses a row of another user.   *)
(***************************************************************************)
LogoutRead(r) ==
  /\ Fresh(r)
  /\ \E s \in Sid :
       \/ /\ ~Live(s)
          /\ Reply(r, "ok")
       \/ /\ Live(s)
          /\ Become(r, [Started("revokeOne", "revokeOne", token[s].owner) EXCEPT !.sid = s])
  /\ UNCHANGED <<token, password, deleted>>

RevokeSessionRead(r) ==
  /\ Fresh(r)
  /\ \E u \in User, s \in Sid :
       /\ Authenticated(u)
       /\ \/ /\ token[s].owner # u
             /\ Reply(r, "refused")
          \/ /\ token[s].owner = u /\ ~Live(s)
             /\ Reply(r, "ok")
          \/ /\ token[s].owner = u /\ Live(s)
             /\ Become(r, [Started("revokeOne", "revokeOne", u) EXCEPT !.sid = s])
  /\ UNCHANGED <<token, password, deleted>>

RevokeOne(r) ==
  /\ req[r].at = "revokeOne" /\ req[r].reply = "none"
  /\ token' = [token EXCEPT ![req[r].sid].state = "revoked"]
  /\ Reply(r, "ok")
  /\ UNCHANGED <<password, deleted>>

\* logoutAllExceptCurrent: one updateMany; the caller names the kept token.
LogoutOthers(r) ==
  /\ Fresh(r)
  /\ \E u \in User, kept \in Sid :
       /\ Authenticated(u)
       /\ token' = [s \in Sid |-> IF s \in LiveOf(u) \ {kept}
                                  THEN [token[s] EXCEPT !.state = "revoked"]
                                  ELSE token[s]]
       /\ Become(r, [Ended(r, "ok") EXCEPT !.user = u])
  /\ UNCHANGED <<password, deleted>>

(***************************************************************************)
(* changePassword and resetPassword end alike: store the new hash, then    *)
(* revoke every session.  They start, each in its way, by convincing       *)
(* themselves that the caller may: the old password of a signed-in caller  *)
(* compares equal, or the one-time reset token is consumed (the account    *)
(* is not looked at again, so it may have been deleted meanwhile).         *)
(***************************************************************************)
PasswordChecked(r) ==
  /\ Fresh(r)
  /\ \/ \E u \in User :
          Become(r, Started("setPassword", "setPassword", u))
     \/ Reply(r, "refused")
  /\ UNCHANGED <<token, password, deleted>>

\* Mutant: the password change answers without waiting for the revoke-all.
SetPasswordOnly(r) ==
  /\ req[r].at = "setPassword" /\ req[r].reply = "none"
  /\ password' = [password EXCEPT ![req[r].user] = @ + 1]
  /\ Become(r, [Ended(r, "ok") EXCEPT !.seen = LiveOf(req[r].user)])
  /\ UNCHANGED <<token, deleted>>

SetPassword(r) ==
  /\ req[r].at = "setPassword" /\ req[r].reply = "none"
  /\ password' = [password EXCEPT ![req[r].user] = @ + 1]
  /\ Become(r, [req[r] EXCEPT !.at = "revokeAll", !.seen = LiveOf(req[r].user)])
  /\ UNCHANGED <<token, deleted>>

\* Mutant: the updateMany forgot its userId.
RevokeAllUsers(r) ==
  /\ req[r].at = "revokeAll" /\ req[r].reply = "none"
  /\ token' = [s \in Sid |-> IF Live(s) THEN [token[s] EXCEPT !.state = "revoked"]
                             ELSE token[s]]
  /\ Reply(r, "ok")
  /\ UNCHANGED <<password, deleted>>

\* updateMany over the user's unrevoked rows: the end of a password change, of
\* softDeleteMe, and of a refresh that presented a revoked token.
RevokeAll(r) ==
  LET u == req[r].user IN
  /\ req[r].at = "revokeAll" /\ req[r].reply = "none"
  /\ token' = [s \in Sid |-> IF s \in LiveOf(u)
                             THEN [token[s] EXCEPT !.state = "revoked"]
                             ELSE token[s]]
  /\ req' = [q \in Req |->
               IF q = r THEN Ended(r, IF req[r].op = "refresh" THEN "reuse" ELSE "ok")
               ELSE IF q \in Minting(u) THEN [req[q] EXCEPT !.late = TRUE]
               ELSE req[q]]
  /\ UNCHANGED <<password, deleted>>

(***************************************************************************)
(* softDeleteMe marks the account, then revokes; the administrator's       *)
(* deleteUser only marks it.                                               *)
(***************************************************************************)
SoftDelete(r) ==
  /\ Fresh(r)
  /\ \E u \in User :
       /\ Authenticated(u)
       /\ deleted' = [deleted EXCEPT ![u] = "self"]
       /\ Become(r, [Started("softDelete", "revokeAll", u) EXCEPT !.seen = LiveOf(u)])
  /\ UNCHANGED <<token, password>>

AdminDelete(r) ==
  /\ Fresh(r)
  /\ \E u \in User :
       deleted' = [deleted EXCEPT ![u] = IF @ = "no" THEN "admin" ELSE @]
  /\ Reply(r, "ok")
  /\ UNCHANGED <<token, password>>

\* An awaited call of a started handler rejects, or the process dies: the
\* request ends and what it already wrote stays.  One that dies before its
\* revoke-all is kept as it is, for the properties.
Fail(r) ==
  /\ req[r].op # "none" /\ req[r].reply = "none"
  /\ IF req[r].at = "revokeAll" THEN Become(r, [req[r] EXCEPT !.reply = "error"])
                                ELSE Reply(r, "error")
  /\ UNCHANGED <<token, password, deleted>>

\* 30 days pass for a token.
Expire(s) ==
  /\ token[s].state # "absent" /\ ~token[s].expired
  /\ token' = [token EXCEPT ![s].expired = TRUE]
  /\ UNCHANGED <<password, deleted, req>>

Next ==
  \/ \E r \in Req :
       \/ LoginRead(r) \/ Verify2fa(r) \/ IssueTokens(r)
       \/ RefreshRead(r) \/ RefreshReadUser(r) \/ RefreshRevokeOld(r)
       \/ LogoutRead(r) \/ RevokeSessionRead(r) \/ RevokeOne(r) \/ LogoutOthers(r)
       \/ PasswordChecked(r) \/ SetPassword(r) \/ RevokeAll(r)
       \/ SoftDelete(r) \/ AdminDelete(r)
       \/ Fail(r)
  \/ \E s \in Sid : Expire(s)

Spec == Init /\ [][Next]_vars

-----------------------------------------------------------------------------
(***************************************************************************)
(* Safety properties.                                                      *)
(***************************************************************************)

\* Rotation order (refresh): at every instant, also after a failure between
\* two awaited calls, a token that has been replaced is revoked.
RotatedTokensAreDead ==
  \A s \in Sid : token[s].parent # None => token[token[s].parent].state = "revoked"

\* When a refresh has answered that its token was used before, no session that
\* was alive when the reuse was noticed can be refreshed any more, and the same
\* holds when a password change or an account deletion has answered "ok".
RevokeAllReachesEverySeenSession ==
  \A r \in Req :
    req[r].reply \in {"reuse", "ok"} => \A s \in req[r].seen : token[s].state = "revoked"

\* A password change of u that has stored the new hash and has not revoked the
\* old sessions: still on its way, or ended by a failure.
HalfDone(r, u) ==
  /\ req[r].op = "setPassword"
  /\ req[r].at = "revokeAll"
  /\ req[r].user = u

\* The only sessions that outlive a password change are those of a login or
\* refresh in flight while the sessions were being revoked, and those of a
\* change that failed half way.
StaleSessionsAreExplained ==
  \A s \in Sid :
    /\ Live(s)
    /\ token[s].cred < password[token[s].owner]
    => token[s].late \/ \E r \in Req : HalfDone(r, token[s].owner)

\* A session of an account its owner deleted is one whose login or refresh was
\* in flight at the revocation, or the revocation has not happened yet.
DeletedAccountsLoseTheirSessions ==
  \A s \in Sid :
    /\ Live(s)
    /\ deleted[token[s].owner] = "self"
    => \/ token[s].late
       \/ \E r \in Req : /\ req[r].op = "softDelete" /\ req[r].at = "revokeAll"
                         /\ req[r].user = token[s].owner

\* A session dies only by a request of its own account: no handler, revoke-all
\* included, ever ends a session of somebody else.
OnlyOwnRequestsEndSessions ==
  [][\A s \in Sid : Live(s) /\ token'[s].state = "revoked" =>
       \E r \in Req : /\ req'[r].at # req[r].at
                      /\ token[s].owner \in {req[r].user, req'[r].user}]_vars

\* What outlives the end of its right (changePassword, resetPassword, softDeleteMe): every live
\* session is one of the password and of an account that is, with the exceptions above.
SurvivorsAreExplained == StaleSessionsAreExplained /\ DeletedAccountsLoseTheirSessions

(***************************************************************************)
(* What the repository says and the handlers do not keep.                  *)
(***************************************************************************)

\* "Rotation: the old refresh is revoked, a new pair is issued": one token is
\* exchanged for one pair.
OneSuccessorPerToken ==
  \A s, t \in Sid : /\ token[s].parent # None
                    /\ token[s].parent = token[t].parent
                    => s = t
=============================================================================
