--------------------------- MODULE SessionsProofs ---------------------------
(* What is proved of Sessions for every set of users, rows and requests. *)
EXTENDS Sessions, TLAPS

LEMMA IdleType == Idle \in Request
  BY DEF Idle, Request, Op

LEMMA EndedType ==
  ASSUME TypeOK, NEW r \in Req, NEW a \in {"ok", "refused", "reuse", "error"}
  PROVE  Ended(r, a) \in Request
  BY DEF Ended, Idle, Request, Op, TypeOK

LEMMA BecomeType ==
  ASSUME TypeOK, NEW r \in Req, NEW x \in Request, Become(r, x)
  PROVE  req' \in [Req -> Request]
  BY DEF Become, TypeOK

LEMMA ReplyType ==
  ASSUME TypeOK, NEW r \in Req, NEW a \in {"ok", "refused", "reuse", "error"},
         Reply(r, a)
  PROVE  req' \in [Req -> Request]
  BY EndedType, BecomeType DEF Reply

LEMMA StartedType ==
  ASSUME NEW o \in Op, NEW u \in User \cup {None},
         NEW l \in {"ticket", "readUser", "create", "revokeOne", "setPassword", "revokeAll"}
  PROVE  Started(o, l, u) \in Request
  BY IdleType DEF Started, Request

LEMMA GotoType ==
  ASSUME TypeOK, NEW r \in Req, NEW l \in {"revokeOld", "create"}, Goto(r, l)
  PROVE  req' \in [Req -> Request]
  <1>1. [req[r] EXCEPT !.at = l] \in Request
    BY DEF TypeOK, Request
  <1>2. QED BY <1>1, BecomeType DEF Goto

LEMMA TypeInit == Init => TypeOK
  <1> SUFFICES ASSUME Init PROVE TypeOK
    OBVIOUS
  <1>1. NoRow \in TokenRow /\ \A u \in User : FirstRow(u) \in TokenRow
    BY DEF TokenRow, NoRow, FirstRow
  <1>2. token \in [Sid -> TokenRow]
    BY <1>1 DEF Init
  <1>3. QED BY <1>2, IdleType DEF Init, TypeOK

LEMMA TypeNext == TypeOK /\ [Next]_vars => TypeOK'
  <1> SUFFICES ASSUME TypeOK, [Next]_vars PROVE TypeOK'
    OBVIOUS
  <1>1. ASSUME NEW r \in Req, LoginRead(r) PROVE TypeOK'
    <2>1. PICK u \in User :
            \/ \E next \in {"create", "ticket"} :
                  Become(r, [Started("login", next, u) EXCEPT !.cred = password[u]])
            \/ Reply(r, "refused")
      BY <1>1 DEF LoginRead
    <2>2. ASSUME NEW next \in {"create", "ticket"}
          PROVE  [Started("login", next, u) EXCEPT !.cred = password[u]] \in Request
      BY StartedType DEF TypeOK, Request, Op
    <2>3. req' \in [Req -> Request]
      BY <2>1, <2>2, BecomeType, ReplyType
    <2>4. QED BY <1>1, <2>3 DEF LoginRead, TypeOK
  <1>2. ASSUME NEW r \in Req, Verify2fa(r) PROVE TypeOK'
    BY <1>2, ReplyType, GotoType DEF Verify2fa, TypeOK
  <1>3. ASSUME NEW r \in Req, IssueTokens(r) PROVE TypeOK'
    <2>0. [state |-> "live", owner |-> req[r].user, expired |-> FALSE,
           parent |-> req[r].sid, cred |-> req[r].cred, late |-> req[r].late] \in TokenRow
      BY DEF TypeOK, TokenRow, Request
    <2>1. token' \in [Sid -> TokenRow]
      BY <1>3, <2>0 DEF IssueTokens, TypeOK
    <2>2. QED BY <1>3, <2>1, ReplyType DEF IssueTokens, TypeOK
  <1>4. ASSUME NEW r \in Req, RefreshRead(r) PROVE TypeOK'
    <2>1. PICK s \in Sid :
            \/ Reply(r, "refused")
            \/ Become(r, [Started("refresh", "revokeAll", token[s].owner) EXCEPT
                            !.seen = LiveOf(token[s].owner)])
            \/ Become(r, [Started("refresh", "readUser", token[s].owner) EXCEPT
                            !.sid = s, !.cred = token[s].cred, !.late = token[s].late])
      BY <1>4 DEF RefreshRead
    <2>2. token[s] \in TokenRow
      BY DEF TypeOK
    <2>3. /\ Started("refresh", "revokeAll", token[s].owner) \in Request
          /\ Started("refresh", "readUser", token[s].owner) \in Request
      BY <2>2, StartedType DEF TokenRow, Op
    <2>4. [Started("refresh", "revokeAll", token[s].owner) EXCEPT
             !.seen = LiveOf(token[s].owner)] \in Request
      BY <2>3 DEF Request, LiveOf
    <2>5. [Started("refresh", "readUser", token[s].owner) EXCEPT
             !.sid = s, !.cred = token[s].cred, !.late = token[s].late] \in Request
      BY <2>2, <2>3 DEF Request, TokenRow
    <2>6. req' \in [Req -> Request]
      BY <2>1, <2>4, <2>5, BecomeType, ReplyType
    <2>7. QED BY <1>4, <2>6 DEF RefreshRead, TypeOK
  <1>5. ASSUME NEW r \in Req, RefreshReadUser(r) PROVE TypeOK'
    BY <1>5, ReplyType, GotoType DEF RefreshReadUser, TypeOK
  <1>6. ASSUME NEW r \in Req, RefreshRevokeOld(r) PROVE TypeOK'
    <2>1. token' \in [Sid -> TokenRow]
      BY <1>6 DEF RefreshRevokeOld, TypeOK, TokenRow
    <2>2. QED BY <1>6, <2>1, GotoType DEF RefreshRevokeOld, TypeOK
  <1>7. ASSUME NEW r \in Req, LogoutRead(r) PROVE TypeOK'
    <2>1. ASSUME NEW s \in Sid
          PROVE  [Started("revokeOne", "revokeOne", token[s].owner) EXCEPT !.sid = s]
                   \in Request
      <3>1. token[s].owner \in User \cup {None}
        BY DEF TypeOK, TokenRow
      <3>2. QED BY <3>1, StartedType DEF Request, Op
    <2>2. req' \in [Req -> Request]
      BY <1>7, <2>1, BecomeType, ReplyType DEF LogoutRead
    <2>3. QED BY <1>7, <2>2 DEF LogoutRead, TypeOK
  <1>8. ASSUME NEW r \in Req, RevokeSessionRead(r) PROVE TypeOK'
    <2>1. ASSUME NEW u \in User, NEW s \in Sid
          PROVE  [Started("revokeOne", "revokeOne", u) EXCEPT !.sid = s] \in Request
      BY StartedType DEF Request, Op
    <2>2. req' \in [Req -> Request]
      BY <1>8, <2>1, BecomeType, ReplyType DEF RevokeSessionRead
    <2>3. QED BY <1>8, <2>2 DEF RevokeSessionRead, TypeOK
  <1>9. ASSUME NEW r \in Req, RevokeOne(r) PROVE TypeOK'
    <2>1. token' \in [Sid -> TokenRow]
      BY <1>9 DEF RevokeOne, TypeOK, TokenRow
    <2>2. QED BY <1>9, <2>1, ReplyType DEF RevokeOne, TypeOK
  <1>10. ASSUME NEW r \in Req, LogoutOthers(r) PROVE TypeOK'
    <2>1. token' \in [Sid -> TokenRow]
      BY <1>10 DEF LogoutOthers, TypeOK, TokenRow
    <2>2. req' \in [Req -> Request]
      <3>1. ASSUME NEW u \in User PROVE [Ended(r, "ok") EXCEPT !.user = u] \in Request
        BY EndedType DEF Request
      <3>2. QED BY <1>10, <3>1, BecomeType DEF LogoutOthers
    <2>3. QED BY <1>10, <2>1, <2>2 DEF LogoutOthers, TypeOK
  <1>11. ASSUME NEW r \in Req, PasswordChecked(r) PROVE TypeOK'
    <2>1. \A u \in User : Started("setPassword", "setPassword", u) \in Request
      BY StartedType DEF Op
    <2>2. QED BY <1>11, <2>1, BecomeType, ReplyType DEF PasswordChecked, TypeOK
  <1>12. ASSUME NEW r \in Req, SetPassword(r) PROVE TypeOK'
    <2>1. [req[r] EXCEPT !.at = "revokeAll", !.seen = LiveOf(req[r].user)] \in Request
      BY DEF TypeOK, Request, LiveOf
    <2>2. req' \in [Req -> Request]
      BY <1>12, <2>1, BecomeType DEF SetPassword
    <2>3. password' \in [User -> Nat]
      <3>1. \A u \in User : password[u] + 1 \in Nat
        BY DEF TypeOK
      <3>2. password' = [u \in User |-> IF u = req[r].user THEN password[u] + 1
                                        ELSE password[u]]
        BY <1>12 DEF SetPassword, TypeOK
      <3>3. QED BY <3>1, <3>2 DEF TypeOK
    <2>4. QED BY <1>12, <2>2, <2>3 DEF SetPassword, TypeOK
  <1>13. ASSUME NEW r \in Req, RevokeAll(r) PROVE TypeOK'
    <2>1. token' \in [Sid -> TokenRow]
      BY <1>13 DEF RevokeAll, TypeOK, TokenRow
    <2>2. ASSUME NEW q \in Req PROVE [req[q] EXCEPT !.late = TRUE] \in Request
      BY DEF TypeOK, Request
    <2>3. Ended(r, IF req[r].op = "refresh" THEN "reuse" ELSE "ok") \in Request
      BY EndedType
    <2>4. req' \in [Req -> Request]
      BY <1>13, <2>2, <2>3 DEF RevokeAll, TypeOK
    <2>5. QED BY <1>13, <2>1, <2>4 DEF RevokeAll, TypeOK
  <1>14. ASSUME NEW r \in Req, SoftDelete(r) PROVE TypeOK'
    <2>1. ASSUME NEW u \in User
          PROVE  [Started("softDelete", "revokeAll", u) EXCEPT !.seen = LiveOf(u)] \in Request
      BY StartedType DEF Request, Op, LiveOf
    <2>2. req' \in [Req -> Request]
      BY <1>14, <2>1, BecomeType DEF SoftDelete
    <2>3. QED BY <1>14, <2>2 DEF SoftDelete, TypeOK
  <1>15. ASSUME NEW r \in Req, AdminDelete(r) PROVE TypeOK'
    BY <1>15, ReplyType DEF AdminDelete, TypeOK
  <1>16. ASSUME NEW r \in Req, Fail(r) PROVE TypeOK'
    <2>1. [req[r] EXCEPT !.reply = "error"] \in Request
      BY DEF TypeOK, Request
    <2>2. QED BY <1>16, <2>1, BecomeType, ReplyType DEF Fail, TypeOK
  <1>17. ASSUME NEW s \in Sid, Expire(s) PROVE TypeOK'
    BY <1>17 DEF Expire, TypeOK, TokenRow
  <1>18. CASE UNCHANGED vars
    BY <1>18 DEF vars, TypeOK
  <1>19. QED
    BY <1>1, <1>2, <1>3, <1>4, <1>5, <1>6, <1>7, <1>8, <1>9, <1>10, <1>11, <1>12,
       <1>13, <1>14, <1>15, <1>16, <1>17, <1>18 DEF Next

\* The tables and the handlers' locals keep their types.
THEOREM TypeCorrect == Spec => []TypeOK
  <1>1. QED BY TypeInit, TypeNext, PTL DEF Spec
-----------------------------------------------------------------------------
(***************************************************************************)
(* The inductive invariant.  None of the safety properties is inductive:   *)
(* they speak of rows, and what makes the next row safe is what the        *)
(* handlers carry across their awaited calls.                              *)
(***************************************************************************)

\* A row that exists has an owner; only a row that exists has a predecessor.
RowsOK ==
  \A s \in Sid : /\ token[s].state # "absent" => token[s].owner \in User
                 /\ token[s].state = "absent" => token[s].parent = None

\* What a handler remembers of the row it read is still so: rows stay, and a row
\* that was revoked stays revoked.
LocalOK(r) ==
  /\ req[r].at \in {"ticket", "readUser", "revokeOld", "create", "setPassword", "revokeAll"}
       => req[r].user \in User
  /\ req[r].at \in {"readUser", "revokeOld", "revokeOne"}
       => req[r].sid \in Sid /\ token[req[r].sid].state # "absent"
  /\ req[r].at = "create" /\ req[r].sid # None
       => req[r].sid \in Sid /\ token[req[r].sid].state = "revoked"
  /\ req[r].at \in {"start", "ticket"} => req[r].sid = None
  /\ req[r].at \notin {"revokeAll", "end"} => req[r].reply = "none"
  /\ req[r].at = "revokeAll" => req[r].reply \in {"none", "error"}
  /\ req[r].at = "end" => req[r].reply # "none"
  /\ req[r].at = "setPassword" => req[r].op = "setPassword"

LocalsOK == \A r \in Req : LocalOK(r)

\* The sessions a request has to end are its user's, until it has ended them.
SeenOK(r) ==
  /\ req[r].at = "revokeAll" =>
       \A s \in req[r].seen : /\ s \in Sid
                              /\ token[s].state # "absent"
                              /\ token[s].owner = req[r].user
  /\ req[r].at \notin {"revokeAll", "end"} => req[r].seen = {}
  /\ req[r].at = "end" => \A s \in req[r].seen : s \in Sid /\ token[s].state = "revoked"

AllSeenOK == \A r \in Req : SeenOK(r)

\* The same as StaleSessionsAreExplained, for the sessions about to be created.
StaleMintsAreExplained ==
  \A r \in Req :
    /\ req[r].at \in {"ticket", "readUser", "revokeOld", "create"}
    /\ req[r].cred < password[req[r].user]
    => req[r].late \/ \E q \in Req : HalfDone(q, req[r].user)

PendingDeletion(r, u) ==
  /\ req[r].op = "softDelete"
  /\ req[r].at = "revokeAll"
  /\ req[r].user = u

DeletedMintsAreExplained ==
  \A r \in Req :
    /\ req[r].at \in {"revokeOld", "create"}
    /\ deleted[req[r].user] = "self"
    => req[r].late \/ \E q \in Req : PendingDeletion(q, req[r].user)

RotationInv == TypeOK /\ RowsOK /\ LocalsOK /\ RotatedTokensAreDead

\* A row is never removed, re-owned or resurrected.
RowKept(s) ==
  /\ token[s].state # "absent" =>
       /\ token'[s].state # "absent"
       /\ token'[s].owner = token[s].owner
       /\ token'[s].parent = token[s].parent
       /\ token'[s].cred = token[s].cred
       /\ token'[s].late = token[s].late
  /\ token[s].state = "revoked" => token'[s].state = "revoked"

LEMMA BecomeIs ==
  ASSUME TypeOK, NEW r \in Req, NEW x, Become(r, x)
  PROVE  req'[r] = x /\ \A q \in Req \ {r} : req'[q] = req[q]
  BY DEF Become, TypeOK

LEMMA RowsAreKept == TypeOK /\ [Next]_vars => \A s \in Sid : RowKept(s)
  <1> SUFFICES ASSUME TypeOK, [Next]_vars, NEW s \in Sid PROVE RowKept(s)
    OBVIOUS
  <1> USE DEF RowKept
  <1>1. CASE UNCHANGED token
    BY <1>1
  <1>2. ASSUME NEW r \in Req, IssueTokens(r) PROVE RowKept(s)
    BY <1>2 DEF IssueTokens, TypeOK, TokenRow
  <1>3. ASSUME NEW r \in Req, RefreshRevokeOld(r) \/ RevokeOne(r) PROVE RowKept(s)
    BY <1>3 DEF RefreshRevokeOld, RevokeOne, TypeOK, TokenRow
  <1>4. ASSUME NEW r \in Req, LogoutOthers(r) PROVE RowKept(s)
    BY <1>4 DEF LogoutOthers, LiveOf, Live, TypeOK, TokenRow
  <1>5. ASSUME NEW r \in Req, RevokeAll(r) PROVE RowKept(s)
    BY <1>5 DEF RevokeAll, LiveOf, Live, TypeOK, TokenRow
  <1>6. ASSUME NEW x \in Sid, Expire(x) PROVE RowKept(s)
    BY <1>6 DEF Expire, TypeOK, TokenRow
  <1>7. QED
    BY <1>1, <1>2, <1>3, <1>4, <1>5, <1>6
    DEF Next, vars, LoginRead, Verify2fa, RefreshRead, RefreshReadUser, LogoutRead,
        RevokeSessionRead, PasswordChecked, SetPassword, SoftDelete, AdminDelete, Fail

\* A request that does not move keeps what it knows.
LEMMA LocalKept ==
  ASSUME TypeOK, \A s \in Sid : RowKept(s), NEW q \in Req, LocalOK(q),
         req'[q].at = req[q].at, req'[q].user = req[q].user, req'[q].sid = req[q].sid,
         req'[q].op = req[q].op,
         \/ req'[q].reply = req[q].reply
         \/ (req[q].at = "revokeAll" /\ req'[q].reply = "error")
  PROVE  LocalOK(q)'
  BY DEF LocalOK, RowKept, TypeOK

LEMMA LocalsNext == RowsOK /\ LocalsOK /\ TypeOK /\ [Next]_vars => LocalsOK'
  <1> SUFFICES ASSUME TypeOK, RowsOK, LocalsOK, [Next]_vars, NEW q \in Req
               PROVE  LocalOK(q)'
    BY DEF LocalsOK
  <1>0. (\A s \in Sid : RowKept(s)) /\ LocalOK(q)
    BY RowsAreKept DEF LocalsOK
  <1>a. CASE req'[q] = req[q]
    BY <1>0, <1>a, LocalKept
  <1>b. ASSUME NEW a, a # "none", req'[q] = Ended(q, a) PROVE LocalOK(q)'
    BY <1>b DEF LocalOK, Ended, Idle
  <1>c. ASSUME NEW r \in Req, NEW a, a # "none", Reply(r, a) PROVE LocalOK(q)'
    BY <1>a, <1>b, <1>c, BecomeIs DEF Reply
  <1>1. ASSUME NEW r \in Req, LoginRead(r) PROVE LocalOK(q)'
    <2>1. ASSUME NEW u \in User, NEW next \in {"create", "ticket"},
                 req'[q] = [Started("login", next, u) EXCEPT !.cred = password[u]]
          PROVE  LocalOK(q)'
      BY <2>1 DEF LocalOK, Started, Idle
    <2>2. QED BY <1>1, <1>a, <1>c, <2>1, BecomeIs DEF LoginRead
  <1>2. ASSUME NEW r \in Req, Verify2fa(r) PROVE LocalOK(q)'
    <2>1. ASSUME req'[q] = [req[q] EXCEPT !.at = "create"], req[q].at = "ticket"
          PROVE  LocalOK(q)'
      BY <1>0, <2>1 DEF LocalOK, TypeOK, Request
    <2>2. QED BY <1>2, <1>a, <1>c, <2>1, BecomeIs DEF Verify2fa, At, Goto
  <1>3. ASSUME NEW r \in Req, IssueTokens(r) PROVE LocalOK(q)'
    BY <1>3, <1>c DEF IssueTokens
  <1>4. ASSUME NEW r \in Req, RefreshRead(r) PROVE LocalOK(q)'
    <2>1. ASSUME NEW s \in Sid, token[s].state # "absent", token' = token,
                 \/ req'[q] = [Started("refresh", "revokeAll", token[s].owner) EXCEPT
                                 !.seen = LiveOf(token[s].owner)]
                 \/ req'[q] = [Started("refresh", "readUser", token[s].owner) EXCEPT
                                 !.sid = s, !.cred = token[s].cred, !.late = token[s].late]
          PROVE  LocalOK(q)'
      BY <2>1 DEF LocalOK, Started, Idle, RowsOK
    <2>2. QED BY <1>4, <1>a, <1>c, <2>1, BecomeIs DEF RefreshRead, Live
  <1>5. ASSUME NEW r \in Req, RefreshReadUser(r) PROVE LocalOK(q)'
    <2>1. ASSUME req'[q] = [req[q] EXCEPT !.at = "revokeOld"], req[q].at = "readUser",
                 token' = token
          PROVE  LocalOK(q)'
      BY <1>0, <2>1 DEF LocalOK, TypeOK, Request
    <2>2. QED BY <1>5, <1>a, <1>c, <2>1, BecomeIs DEF RefreshReadUser, At, Goto
  <1>6. ASSUME NEW r \in Req, RefreshRevokeOld(r) PROVE LocalOK(q)'
    <2>1. ASSUME q = r, req'[q] = [req[q] EXCEPT !.at = "create"], req[q].at = "revokeOld",
                 token' = [token EXCEPT ![req[q].sid].state = "revoked"]
          PROVE  LocalOK(q)'
      BY <1>0, <2>1 DEF LocalOK, TypeOK, Request, TokenRow
    <2>2. QED BY <1>6, <1>a, <2>1, BecomeIs DEF RefreshRevokeOld, At, Goto
  <1>7. ASSUME NEW r \in Req, LogoutRead(r) \/ RevokeSessionRead(r) PROVE LocalOK(q)'
    <2>1. ASSUME NEW u, NEW s \in Sid, Live(s), token' = token,
                 req'[q] = [Started("revokeOne", "revokeOne", u) EXCEPT !.sid = s]
          PROVE  LocalOK(q)'
      BY <2>1 DEF LocalOK, Started, Idle, Live
    <2>2. CASE LogoutRead(r)
      BY <2>2, <1>a, <1>c, <2>1, BecomeIs DEF LogoutRead
    <2>3. CASE RevokeSessionRead(r)
      BY <2>3, <1>a, <1>c, <2>1, BecomeIs DEF RevokeSessionRead
    <2>4. QED BY <1>7, <2>2, <2>3
  <1>8. ASSUME NEW r \in Req, RevokeOne(r) \/ AdminDelete(r) PROVE LocalOK(q)'
    BY <1>8, <1>c DEF RevokeOne, AdminDelete
  <1>9. ASSUME NEW r \in Req, LogoutOthers(r) PROVE LocalOK(q)'
    <2>1. ASSUME NEW u \in User, req'[q] = [Ended(q, "ok") EXCEPT !.user = u]
          PROVE  LocalOK(q)'
      BY <2>1 DEF LocalOK, Ended, Idle
    <2>2. QED BY <1>9, <1>a, <2>1, BecomeIs DEF LogoutOthers
  <1>10. ASSUME NEW r \in Req, PasswordChecked(r) PROVE LocalOK(q)'
    <2>1. ASSUME NEW u \in User, req'[q] = Started("setPassword", "setPassword", u)
          PROVE  LocalOK(q)'
      BY <2>1 DEF LocalOK, Started, Idle
    <2>2. QED BY <1>10, <1>a, <1>c, <2>1, BecomeIs DEF PasswordChecked
  <1>11. ASSUME NEW r \in Req, SetPassword(r) PROVE LocalOK(q)'
    <2>1. ASSUME req[q].at = "setPassword", req[q].reply = "none",
                 req'[q] = [req[q] EXCEPT !.at = "revokeAll", !.seen = LiveOf(req[q].user)]
          PROVE  LocalOK(q)'
      BY <1>0, <2>1 DEF LocalOK, TypeOK, Request
    <2>2. QED BY <1>11, <1>a, <2>1, BecomeIs DEF SetPassword
  <1>12. ASSUME NEW r \in Req, RevokeAll(r) PROVE LocalOK(q)'
    <2>1. \/ req'[q] = req[q]
          \/ req'[q] = [req[q] EXCEPT !.late = TRUE]
          \/ \E a : a # "none" /\ req'[q] = Ended(q, a)
      BY <1>12 DEF RevokeAll
    <2>2. CASE req'[q] = [req[q] EXCEPT !.late = TRUE]
      BY <1>0, <2>2, LocalKept DEF TypeOK, Request
    <2>3. QED BY <1>a, <1>b, <2>1, <2>2
  <1>13. ASSUME NEW r \in Req, SoftDelete(r) PROVE LocalOK(q)'
    <2>1. ASSUME NEW u \in User,
                 req'[q] = [Started("softDelete", "revokeAll", u) EXCEPT !.seen = LiveOf(u)]
          PROVE  LocalOK(q)'
      BY <2>1 DEF LocalOK, Started, Idle
    <2>2. QED BY <1>13, <1>a, <2>1, BecomeIs DEF SoftDelete
  <1>14. ASSUME NEW r \in Req, Fail(r) PROVE LocalOK(q)'
    <2>1. ASSUME req'[q] = [req[q] EXCEPT !.reply = "error"], req[q].at = "revokeAll"
          PROVE  LocalOK(q)'
      BY <1>0, <2>1, LocalKept DEF TypeOK, Request
    <2>2. \/ Become(r, [req[r] EXCEPT !.reply = "error"]) /\ req[r].at = "revokeAll"
          \/ Reply(r, "error")
      BY <1>14 DEF Fail
    <2>3. QED BY <1>a, <1>c, <2>1, <2>2, BecomeIs
  <1>15. CASE req' = req
    BY <1>15, <1>a
  <1>16. QED
    BY <1>1, <1>2, <1>3, <1>4, <1>5, <1>6, <1>7, <1>8, <1>9, <1>10, <1>11, <1>12, <1>13,
       <1>14, <1>15 DEF Next, vars, Expire

LEMMA RowsNext ==
  TypeOK /\ RowsOK /\ LocalsOK /\ RotatedTokensAreDead /\ [Next]_vars
    => RowsOK' /\ RotatedTokensAreDead'
  <1> SUFFICES ASSUME TypeOK, RowsOK, LocalsOK, RotatedTokensAreDead, [Next]_vars
               PROVE  RowsOK' /\ RotatedTokensAreDead'
    OBVIOUS
  <1>0. \A s \in Sid : RowKept(s)
    BY RowsAreKept
  <1>1. ASSUME NEW s \in Sid,
               \/ token'[s].parent = token[s].parent /\ token'[s].owner = token[s].owner
                  /\ token'[s].state = "absent" <=> token[s].state = "absent"
        PROVE  /\ token'[s].state # "absent" => token'[s].owner \in User
               /\ token'[s].state = "absent" => token'[s].parent = None
               /\ token'[s].parent # None => token'[token'[s].parent].state = "revoked"
    <2>1. token[s].parent \in Sid \cup {None}
      BY DEF TypeOK, TokenRow
    <2>2. QED BY <1>0, <1>1, <2>1 DEF RowsOK, RotatedTokensAreDead, RowKept
  <1>2. ASSUME \A s \in Sid :
                 /\ token'[s].parent = token[s].parent
                 /\ token'[s].owner = token[s].owner
                 /\ token'[s].state = "absent" <=> token[s].state = "absent"
        PROVE  RowsOK' /\ RotatedTokensAreDead'
    BY <1>1, <1>2 DEF RowsOK, RotatedTokensAreDead
  <1>3. ASSUME NEW r \in Req, IssueTokens(r) PROVE RowsOK' /\ RotatedTokensAreDead'
    <2>1. PICK x \in Sid :
            /\ token[x].state = "absent"
            /\ token' = [token EXCEPT ![x] =
                 [state |-> "live", owner |-> req[r].user, expired |-> FALSE,
                  parent |-> req[r].sid, cred |-> req[r].cred, late |-> req[r].late]]
      BY <1>3 DEF IssueTokens
    <2>2. /\ req[r].user \in User
          /\ req[r].sid # None => req[r].sid \in Sid /\ token[req[r].sid].state = "revoked"
      BY <1>3 DEF IssueTokens, LocalsOK, LocalOK
    <2>3. \A s \in Sid \ {x} : token'[s] = token[s]
      BY <2>1 DEF TypeOK
    <2>4. /\ token'[x].state = "live"
          /\ token'[x].owner = req[r].user
          /\ token'[x].parent = req[r].sid
      BY <2>1 DEF TypeOK
    <2>5. \A s \in Sid : token[s].state = "revoked" => token'[s].state = "revoked"
      BY <1>0 DEF RowKept
    <2>6. ASSUME NEW s \in Sid, token[s].parent # None
          PROVE  token[s].parent \in Sid
      BY <2>6 DEF TypeOK, TokenRow
    <2>7. RowsOK'
      BY <2>2, <2>3, <2>4 DEF RowsOK
    <2>8. RotatedTokensAreDead'
      BY <2>2, <2>3, <2>4, <2>5, <2>6 DEF RotatedTokensAreDead
    <2>9. QED BY <2>7, <2>8
  <1>4. CASE token' = token
    BY <1>2, <1>4
  <1>5. ASSUME NEW r \in Req, RefreshRevokeOld(r) \/ RevokeOne(r)
        PROVE  RowsOK' /\ RotatedTokensAreDead'
    <2>1. req[r].sid \in Sid /\ token[req[r].sid].state # "absent"
      BY <1>5 DEF RefreshRevokeOld, RevokeOne, At, LocalsOK, LocalOK
    <2>2. QED
      BY <1>2, <1>5, <2>1 DEF RefreshRevokeOld, RevokeOne, TypeOK, TokenRow
  <1>6. ASSUME NEW r \in Req, LogoutOthers(r) \/ RevokeAll(r)
        PROVE  RowsOK' /\ RotatedTokensAreDead'
    <2>1. \E D \in SUBSET Sid :
            /\ \A s \in D : Live(s)
            /\ token' = [s \in Sid |-> IF s \in D THEN [token[s] EXCEPT !.state = "revoked"]
                                               ELSE token[s]]
      BY <1>6 DEF LogoutOthers, RevokeAll, LiveOf
    <2>2. QED BY <1>2, <2>1 DEF Live, TypeOK, TokenRow
  <1>7. ASSUME NEW x \in Sid, Expire(x) PROVE RowsOK' /\ RotatedTokensAreDead'
    BY <1>2, <1>7 DEF Expire, TypeOK, TokenRow
  <1>8. QED
    BY <1>3, <1>4, <1>5, <1>6, <1>7
    DEF Next, vars, LoginRead, Verify2fa, RefreshRead, RefreshReadUser, LogoutRead,
        RevokeSessionRead, PasswordChecked, SetPassword, SoftDelete, AdminDelete, Fail

LEMMA RotationInit == Init => RotationInv
  <1> SUFFICES ASSUME Init PROVE RotationInv
    OBVIOUS
  <1>1. TypeOK
    BY TypeInit
  <1>2. ASSUME NEW s \in Sid
        PROVE  /\ token[s].parent = None
               /\ token[s].state # "absent" => token[s].owner \in User
    <2>1. token[s] = NoRow \/ \E u \in User : token[s] = FirstRow(u)
      BY DEF Init
    <2>2. NoRow.parent = None /\ NoRow.state = "absent"
      BY DEF NoRow
    <2>3. \A u \in User : FirstRow(u).parent = None /\ FirstRow(u).owner = u
      BY DEF FirstRow, NoRow
    <2>4. QED BY <2>1, <2>2, <2>3
  <1>3. RowsOK /\ RotatedTokensAreDead
    BY <1>2 DEF RowsOK, RotatedTokensAreDead
  <1>4. LocalsOK
    BY DEF Init, Idle, LocalsOK, LocalOK
  <1>5. QED BY <1>1, <1>3, <1>4 DEF RotationInv

\* The rotation order: at every instant a token that a refresh has replaced is
\* revoked, wherever the handlers were interrupted.
THEOREM RotationIsOrdered == Spec => []RotatedTokensAreDead
  <1>1. RotationInv /\ [Next]_vars => RotationInv'
    BY TypeNext, LocalsNext, RowsNext DEF RotationInv
  <1>2. RotationInv => RotatedTokensAreDead
    BY DEF RotationInv
  <1>3. QED BY RotationInit, <1>1, <1>2, PTL DEF Spec

-----------------------------------------------------------------------------
(***************************************************************************)
(* Four facts about a step, from which the two theorems on outliving       *)
(* sessions follow without looking at the actions again.                   *)
(***************************************************************************)
MintAt == {"ticket", "readUser", "revokeOld", "create"}

\* A request leaves "revokeAll" only by revoking.
LEMMA PendingKept ==
  ASSUME TypeOK, [Next]_vars, NEW q \in Req, req[q].at = "revokeAll", ~RevokeAll(q)
  PROVE  /\ req'[q].at = "revokeAll"
         /\ req'[q].op = req[q].op
         /\ req'[q].user = req[q].user
  <1>1. ASSUME NEW r \in Req, NEW x, Become(r, x), req[r].at # "revokeAll"
        PROVE  req'[q] = req[q]
    BY <1>1, BecomeIs
  <1>2. ASSUME NEW r \in Req, Fail(r) PROVE req'[q] = req[q] \/ req'[q] = [req[q] EXCEPT !.reply = "error"]
    <2>1. CASE r = q
      BY <1>2, <2>1, BecomeIs DEF Fail
    <2>2. CASE r # q
      BY <1>2, <2>2, BecomeIs DEF Fail, Reply
    <2>3. QED BY <2>1, <2>2
  <1>3. ASSUME NEW r \in Req, RevokeAll(r) PROVE req'[q] = req[q]
    BY <1>3 DEF RevokeAll, Minting
  <1>4. ASSUME NEW r \in Req, LoginRead(r) \/ Verify2fa(r) \/ IssueTokens(r)
        PROVE  req'[q] = req[q]
    BY <1>1, <1>4 DEF LoginRead, Verify2fa, IssueTokens, At, Fresh, Reply, Goto
  <1>5. ASSUME NEW r \in Req, RefreshRead(r) \/ RefreshReadUser(r) \/ RefreshRevokeOld(r)
        PROVE  req'[q] = req[q]
    BY <1>1, <1>5 DEF RefreshRead, RefreshReadUser, RefreshRevokeOld, At, Fresh, Reply, Goto
  <1>6. ASSUME NEW r \in Req, LogoutRead(r) \/ RevokeSessionRead(r) \/ RevokeOne(r)
        PROVE  req'[q] = req[q]
    BY <1>1, <1>6 DEF LogoutRead, RevokeSessionRead, RevokeOne, At, Fresh, Reply
  <1>7. ASSUME NEW r \in Req, LogoutOthers(r) \/ PasswordChecked(r) \/ SetPassword(r)
        PROVE  req'[q] = req[q]
    BY <1>1, <1>7 DEF LogoutOthers, PasswordChecked, SetPassword, At, Fresh, Reply
  <1>8. ASSUME NEW r \in Req, SoftDelete(r) \/ AdminDelete(r)
        PROVE  req'[q] = req[q]
    BY <1>1, <1>8 DEF SoftDelete, AdminDelete, At, Fresh, Reply
  <1>9. CASE req' = req
    BY <1>9
  <1>10. req'[q] = req[q] \/ req'[q] = [req[q] EXCEPT !.reply = "error"]
    BY <1>2, <1>3, <1>4, <1>5, <1>6, <1>7, <1>8, <1>9 DEF Next, vars, Expire
  <1>11. QED BY <1>10 DEF TypeOK, Request

\* Where a live row comes from: it was live before, and nobody revoked its
\* owner's sessions, or it is the row a request has just created.
LEMMA RowOrigin ==
  ASSUME TypeOK, [Next]_vars, NEW s \in Sid, token'[s].state = "live"
  PROVE  \/ /\ Live(s)
            /\ token'[s].owner = token[s].owner
            /\ token'[s].cred = token[s].cred
            /\ token'[s].late = token[s].late
            /\ \A r \in Req : RevokeAll(r) => req[r].user # token[s].owner
         \/ \E r \in Req :
              /\ req[r].at = "create"
              /\ token'[s].owner = req[r].user
              /\ token'[s].cred = req[r].cred
              /\ token'[s].late = req[r].late
              /\ UNCHANGED <<password, deleted>>
              /\ \A q \in Req : ~RevokeAll(q)
  <1>1. CASE \E r \in Req : RevokeAll(r)
    <2>1. PICK r \in Req : RevokeAll(r)
      BY <1>1
    <2>2. token[s].state = "live" /\ token'[s] = token[s] /\ s \notin LiveOf(req[r].user)
      BY <2>1 DEF RevokeAll, TypeOK, TokenRow
    <2>3. \A q \in Req : RevokeAll(q) => s \notin LiveOf(req[q].user)
      BY <2>2 DEF RevokeAll, TypeOK, TokenRow
    <2>4. QED BY <2>2, <2>3 DEF LiveOf, Live
  <1>2. CASE \A r \in Req : ~RevokeAll(r)
    <2>1. ASSUME NEW r \in Req, IssueTokens(r), token[s].state = "absent"
          PROVE  /\ req[r].at = "create"
                 /\ token'[s].owner = req[r].user
                 /\ token'[s].cred = req[r].cred
                 /\ token'[s].late = req[r].late
                 /\ UNCHANGED <<password, deleted>>
      <3>1. PICK x \in Sid :
              token' = [token EXCEPT ![x] =
                 [state |-> "live", owner |-> req[r].user, expired |-> FALSE,
                  parent |-> req[r].sid, cred |-> req[r].cred, late |-> req[r].late]]
        BY <2>1 DEF IssueTokens
      <3>2. x = s
        BY <2>1, <3>1 DEF TypeOK
      <3>3. QED BY <2>1, <3>1, <3>2 DEF IssueTokens, TypeOK
    <2>2. CASE token[s].state = "absent"
      <3>1. \E r \in Req : IssueTokens(r)
        <4>1. CASE token' = token
          BY <4>1, <2>2
        <4>2. ASSUME NEW r \in Req, RefreshRevokeOld(r) \/ RevokeOne(r)
              PROVE  FALSE
          BY <2>2, <4>2 DEF RefreshRevokeOld, RevokeOne, TypeOK, TokenRow
        <4>3. ASSUME NEW r \in Req, LogoutOthers(r) PROVE FALSE
          BY <2>2, <4>3 DEF LogoutOthers, LiveOf, Live, TypeOK, TokenRow
        <4>4. ASSUME NEW x \in Sid, Expire(x) PROVE FALSE
          BY <2>2, <4>4 DEF Expire, TypeOK, TokenRow
        <4>5. QED
          BY <1>2, <4>1, <4>2, <4>3, <4>4
          DEF Next, vars, LoginRead, Verify2fa, RefreshRead, RefreshReadUser, LogoutRead,
              RevokeSessionRead, PasswordChecked, SetPassword, SoftDelete, AdminDelete, Fail
      <3>2. QED BY <1>2, <2>1, <2>2, <3>1
    <2>3. CASE token[s].state # "absent"
      BY <1>2, <2>3, RowsAreKept DEF RowKept, Live, TypeOK, TokenRow
    <2>4. QED BY <2>2, <2>3
  <1>3. QED BY <1>1, <1>2

\* Where a handler that will create a row comes from: it was on its way before,
\* or it has just read the password, or a live row.
CarriedOn(q) ==
  /\ req[q].at \in MintAt
  /\ req'[q].user = req[q].user
  /\ req'[q].cred = req[q].cred
  /\ req[q].late => req'[q].late
  /\ \A r \in Req : RevokeAll(r) /\ req[r].user = req[q].user => req'[q].late
  /\ req'[q].at \in {"revokeOld", "create"} =>
       \/ req[q].at \in {"revokeOld", "create"}
       \/ deleted[req[q].user] = "no" /\ UNCHANGED deleted

JustRead(q) ==
  /\ \/ /\ deleted[req'[q].user] = "no"
        /\ req'[q].cred = password[req'[q].user]
     \/ /\ req'[q].at = "readUser"
        /\ \E s \in Sid : /\ Live(s)
                         /\ req'[q].user = token[s].owner
                         /\ req'[q].cred = token[s].cred
                         /\ req'[q].late = token[s].late
  /\ UNCHANGED <<token, password, deleted>>
  /\ \A r \in Req : ~RevokeAll(r)

LEMMA MintOrigin ==
  ASSUME TypeOK, LocalsOK, [Next]_vars, NEW q \in Req, req'[q].at \in MintAt
  PROVE  CarriedOn(q) \/ JustRead(q)
  <1>0. ASSUME NEW r \in Req, RevokeAll(r) PROVE CarriedOn(q)
    <2>1. req'[q].at # "end"
      BY DEF MintAt
    <2>2. q # r
      BY <1>0, <2>1 DEF RevokeAll, Ended
    <2>3. \/ req'[q] = req[q] /\ q \notin Minting(req[r].user)
          \/ req'[q] = [req[q] EXCEPT !.late = TRUE]
      BY <1>0, <2>2 DEF RevokeAll
    <2>4. /\ req'[q].at = req[q].at
          /\ req'[q].user = req[q].user
          /\ req'[q].cred = req[q].cred
          /\ req[q].late => req'[q].late
      BY <2>3 DEF TypeOK, Request
    <2>5. req[q].reply = "none"
      BY <2>4 DEF LocalsOK, LocalOK, MintAt
    <2>6. req[q].user = req[r].user => req'[q].late
      BY <2>3, <2>4, <2>5 DEF Minting, MintAt, TypeOK, Request
    <2>7. \A p \in Req : RevokeAll(p) => p = r
      <3>1. req[r].at = "revokeAll" /\ req'[r].at = "end"
        BY <1>0 DEF RevokeAll, Ended, Idle
      <3>2. ASSUME NEW p \in Req, RevokeAll(p), p # r PROVE req'[r].at = req[r].at
        <4>1. req'[r] = req[r] \/ req'[r] = [req[r] EXCEPT !.late = TRUE]
          BY <3>2 DEF RevokeAll
        <4>2. QED BY <4>1 DEF TypeOK, Request
      <3>3. QED BY <3>1, <3>2
    <2>8. QED BY <2>4, <2>6, <2>7 DEF CarriedOn
  <1> SUFFICES ASSUME \A r \in Req : ~RevokeAll(r) PROVE CarriedOn(q) \/ JustRead(q)
    BY <1>0
  <1>1. ASSUME req'[q] = req[q] PROVE CarriedOn(q)
    BY <1>1 DEF CarriedOn
  <1>2. ASSUME NEW r \in Req, NEW x, Become(r, x), x.at \notin MintAt
        PROVE  CarriedOn(q)
    <2>1. req'[r] = x /\ \A p \in Req \ {r} : req'[p] = req[p]
      BY <1>2, BecomeIs
    <2>2. CASE q = r
      BY <1>2, <2>1, <2>2
    <2>3. CASE q # r
      BY <1>1, <2>1, <2>3
    <2>4. QED BY <2>2, <2>3
  <1>3. ASSUME NEW r \in Req, NEW a, Reply(r, a) PROVE CarriedOn(q)
    BY <1>2, <1>3 DEF Reply, Ended, Idle, MintAt
  <1>4. ASSUME NEW r \in Req, LoginRead(r) PROVE CarriedOn(q) \/ JustRead(q)
    <2>1. ASSUME NEW u \in User, NEW next, deleted[u] = "no",
                 req'[q] = [Started("login", next, u) EXCEPT !.cred = password[u]]
          PROVE  JustRead(q)
      BY <1>4, <2>1 DEF JustRead, Started, Idle, LoginRead
    <2>2. QED BY <1>1, <1>3, <1>4, <2>1, BecomeIs DEF LoginRead
  <1>5. ASSUME NEW r \in Req, RefreshRead(r) PROVE CarriedOn(q) \/ JustRead(q)
    <2>1. ASSUME NEW s \in Sid, Live(s),
                 req'[q] = [Started("refresh", "readUser", token[s].owner) EXCEPT
                              !.sid = s, !.cred = token[s].cred, !.late = token[s].late]
          PROVE  JustRead(q)
      BY <1>5, <2>1 DEF JustRead, Started, Idle, RefreshRead
    <2>2. ASSUME NEW s \in Sid
          PROVE  [Started("refresh", "revokeAll", token[s].owner) EXCEPT
                    !.seen = LiveOf(token[s].owner)].at \notin MintAt
      BY DEF Started, Idle, MintAt
    <2>3. QED BY <1>1, <1>2, <1>3, <1>5, <2>1, <2>2, BecomeIs DEF RefreshRead
  <1>6. ASSUME NEW r \in Req, NEW l, Goto(r, l), req[r].at \in MintAt, UNCHANGED deleted,
               \/ req[r].at \in {"revokeOld", "create"}
               \/ deleted[req[r].user] = "no"
        PROVE  CarriedOn(q)
    <2>1. CASE q = r
      <3>1. req'[q] = [req[q] EXCEPT !.at = l]
        BY <1>6, <2>1, BecomeIs DEF Goto
      <3>2. /\ req'[q].user = req[q].user
            /\ req'[q].cred = req[q].cred
            /\ req'[q].late = req[q].late
        BY <3>1 DEF TypeOK, Request
      <3>3. QED BY <1>6, <2>1, <3>2 DEF CarriedOn
    <2>2. CASE q # r
      BY <1>1, <1>6, <2>2, BecomeIs DEF Goto
    <2>3. QED BY <2>1, <2>2
  <1>7. ASSUME NEW r \in Req, Verify2fa(r) \/ RefreshReadUser(r) \/ RefreshRevokeOld(r)
        PROVE  CarriedOn(q)
    BY <1>3, <1>6, <1>7 DEF Verify2fa, RefreshReadUser, RefreshRevokeOld, At, MintAt
  <1>8. ASSUME NEW r \in Req, IssueTokens(r) \/ RevokeOne(r) \/ AdminDelete(r)
        PROVE  CarriedOn(q)
    BY <1>3, <1>8 DEF IssueTokens, RevokeOne, AdminDelete
  <1>9. ASSUME NEW r \in Req, LogoutRead(r) \/ RevokeSessionRead(r) PROVE CarriedOn(q)
    <2>1. ASSUME NEW u, NEW s PROVE [Started("revokeOne", "revokeOne", u) EXCEPT !.sid = s].at
                                      \notin MintAt
      BY DEF Started, Idle, MintAt
    <2>2. CASE LogoutRead(r)
      BY <1>2, <1>3, <2>1, <2>2 DEF LogoutRead
    <2>3. CASE RevokeSessionRead(r)
      BY <1>2, <1>3, <2>1, <2>3 DEF RevokeSessionRead
    <2>4. QED BY <1>9, <2>2, <2>3
  <1>10. ASSUME NEW r \in Req, LogoutOthers(r) \/ SoftDelete(r) PROVE CarriedOn(q)
    <2>1. \A u : [Ended(r, "ok") EXCEPT !.user = u].at \notin MintAt
      BY DEF Ended, Idle, MintAt
    <2>2. \A u : [Started("softDelete", "revokeAll", u) EXCEPT !.seen = LiveOf(u)].at \notin MintAt
      BY DEF Started, Idle, MintAt
    <2>3. QED BY <1>2, <1>10, <2>1, <2>2 DEF LogoutOthers, SoftDelete
  <1>11. ASSUME NEW r \in Req, PasswordChecked(r) \/ SetPassword(r) PROVE CarriedOn(q)
    <2>1. \A u : Started("setPassword", "setPassword", u).at \notin MintAt
      BY DEF Started, Idle, MintAt
    <2>2. [req[r] EXCEPT !.at = "revokeAll", !.seen = LiveOf(req[r].user)].at \notin MintAt
      BY DEF TypeOK, Request, MintAt
    <2>3. QED BY <1>2, <1>3, <1>11, <2>1, <2>2 DEF PasswordChecked, SetPassword
  <1>12. ASSUME NEW r \in Req, Fail(r) PROVE CarriedOn(q)
    <2>1. CASE req[r].at = "revokeAll"
      <3>1. [req[r] EXCEPT !.reply = "error"].at \notin MintAt
        BY <2>1 DEF TypeOK, Request, MintAt
      <3>2. QED BY <1>2, <1>12, <2>1, <3>1 DEF Fail
    <2>2. CASE req[r].at # "revokeAll"
      BY <1>3, <1>12, <2>2 DEF Fail
    <2>3. QED BY <2>1, <2>2
  <1>13. CASE req' = req
    BY <1>1, <1>13
  <1>14. QED
    BY <1>4, <1>5, <1>7, <1>8, <1>9, <1>10, <1>11, <1>12, <1>13 DEF Next, vars, Expire

LEMMA PasswordStep ==
  ASSUME TypeOK, LocalsOK, [Next]_vars, NEW u \in User, password'[u] # password[u]
  PROVE  \E q \in Req : HalfDone(q, u)'
  <1>1. PICK r \in Req : SetPassword(r)
    BY DEF Next, vars, LoginRead, Verify2fa, IssueTokens, RefreshRead, RefreshReadUser,
           RefreshRevokeOld, LogoutRead, RevokeSessionRead, RevokeOne, LogoutOthers,
           PasswordChecked, RevokeAll, SoftDelete, AdminDelete, Fail, Expire
  <1>2. req[r].user = u
    BY <1>1 DEF SetPassword, TypeOK
  <1>3. req'[r] = [req[r] EXCEPT !.at = "revokeAll", !.seen = LiveOf(req[r].user)]
    BY <1>1, BecomeIs DEF SetPassword
  <1>4. req[r].op = "setPassword"
    BY <1>1 DEF SetPassword, LocalsOK, LocalOK
  <1>5. HalfDone(r, u)'
    BY <1>2, <1>3, <1>4 DEF HalfDone, TypeOK, Request
  <1>6. QED BY <1>5

LEMMA DeletedStep ==
  ASSUME TypeOK, [Next]_vars, NEW u \in User, deleted'[u] = "self", deleted[u] # "self"
  PROVE  \E q \in Req : PendingDeletion(q, u)'
  <1>1. ASSUME NEW r \in Req, AdminDelete(r) PROVE FALSE
    BY <1>1 DEF AdminDelete, TypeOK
  <1>2. PICK r \in Req : SoftDelete(r)
    BY <1>1
       DEF Next, vars, LoginRead, Verify2fa, IssueTokens, RefreshRead, RefreshReadUser,
           RefreshRevokeOld, LogoutRead, RevokeSessionRead, RevokeOne, LogoutOthers,
           PasswordChecked, SetPassword, RevokeAll, Fail, Expire
  <1>3. PICK v \in User :
          /\ deleted' = [deleted EXCEPT ![v] = "self"]
          /\ Become(r, [Started("softDelete", "revokeAll", v) EXCEPT !.seen = LiveOf(v)])
    BY <1>2 DEF SoftDelete
  <1>4. v = u
    <2>1. deleted \in [User -> {"no", "self", "admin"}] /\ deleted' = [deleted EXCEPT ![v] = "self"]
      BY <1>3 DEF TypeOK
    <2>2. QED BY <2>1
  <1>5. PendingDeletion(r, u)'
    <2>1. req'[r] = [Started("softDelete", "revokeAll", u) EXCEPT !.seen = LiveOf(u)]
      BY <1>3, <1>4, BecomeIs
    <2>2. QED BY <2>1 DEF PendingDeletion, Started, Idle
  <1>6. QED BY <1>5

-----------------------------------------------------------------------------
LEMMA SeenNext ==
  TypeOK /\ LocalsOK /\ AllSeenOK /\ [Next]_vars => AllSeenOK'
  <1> SUFFICES ASSUME TypeOK, LocalsOK, AllSeenOK, [Next]_vars, NEW q \in Req
               PROVE  SeenOK(q)'
    BY DEF AllSeenOK
  <1>0. SeenOK(q) /\ \A s \in Sid : RowKept(s)
    BY RowsAreKept DEF AllSeenOK
  <1>1. ASSUME req'[q].at = req[q].at, req'[q].user = req[q].user, req'[q].seen = req[q].seen
        PROVE  SeenOK(q)'
    BY <1>0, <1>1 DEF SeenOK, RowKept
  <1>2. ASSUME req'[q] = req[q] PROVE SeenOK(q)'
    BY <1>1, <1>2
  <1>3. ASSUME req'[q].at # "revokeAll", req'[q].seen = {} PROVE SeenOK(q)'
    BY <1>3 DEF SeenOK
  <1>4. ASSUME req'[q].at = "revokeAll", req'[q].seen = LiveOf(req'[q].user), token' = token
        PROVE  SeenOK(q)'
    BY <1>4 DEF SeenOK, LiveOf, Live
  <1>5. ASSUME NEW r \in Req, NEW a, Reply(r, a), req[r].at \notin {"revokeAll", "end"}
        PROVE  SeenOK(q)'
    <2>1. CASE q = r
      <3>1. req'[q] = Ended(q, a) /\ req[q].seen = {}
        BY <1>0, <1>5, <2>1, BecomeIs DEF Reply, SeenOK
      <3>2. QED BY <1>3, <3>1 DEF Ended, Idle
    <2>2. CASE q # r
      BY <1>2, <1>5, <2>2, BecomeIs DEF Reply
    <2>3. QED BY <2>1, <2>2
  <1>6. ASSUME NEW r \in Req, LoginRead(r) PROVE SeenOK(q)'
    <2>1. ASSUME NEW u, NEW next \in {"create", "ticket"},
                 req'[q] = [Started("login", next, u) EXCEPT !.cred = password[u]]
          PROVE  SeenOK(q)'
      BY <1>3, <2>1 DEF Started, Idle
    <2>2. QED BY <1>2, <1>5, <1>6, <2>1, BecomeIs DEF LoginRead, Fresh, At
  <1>7. ASSUME NEW r \in Req, NEW l \in {"create", "revokeOld"}, Goto(r, l),
               req[r].at \notin {"revokeAll", "end"}
        PROVE  SeenOK(q)'
    <2>1. CASE q = r
      <3>1. req'[q] = [req[q] EXCEPT !.at = l] /\ req[q].seen = {}
        BY <1>0, <1>7, <2>1, BecomeIs DEF Goto, SeenOK
      <3>2. req'[q].at = l /\ req'[q].seen = {}
        BY <3>1 DEF TypeOK, Request
      <3>3. QED BY <1>3, <3>2
    <2>2. CASE q # r
      BY <1>2, <1>7, <2>2, BecomeIs DEF Goto
    <2>3. QED BY <2>1, <2>2
  <1>8. ASSUME NEW r \in Req, Verify2fa(r) \/ RefreshReadUser(r) \/ RefreshRevokeOld(r)
        PROVE  SeenOK(q)'
    BY <1>5, <1>7, <1>8 DEF Verify2fa, RefreshReadUser, RefreshRevokeOld, At
  <1>9. ASSUME NEW r \in Req, IssueTokens(r) \/ RevokeOne(r) \/ AdminDelete(r)
        PROVE  SeenOK(q)'
    BY <1>5, <1>9 DEF IssueTokens, RevokeOne, AdminDelete, Fresh, At
  <1>10. ASSUME NEW r \in Req, RefreshRead(r) PROVE SeenOK(q)'
    <2>1. ASSUME NEW s \in Sid, token' = token,
                 req'[q] = [Started("refresh", "revokeAll", token[s].owner) EXCEPT
                              !.seen = LiveOf(token[s].owner)]
          PROVE  SeenOK(q)'
      BY <1>4, <2>1 DEF Started, Idle
    <2>2. ASSUME NEW s \in Sid,
                 req'[q] = [Started("refresh", "readUser", token[s].owner) EXCEPT
                              !.sid = s, !.cred = token[s].cred, !.late = token[s].late]
          PROVE  SeenOK(q)'
      BY <1>3, <2>2 DEF Started, Idle
    <2>3. CASE Reply(r, "refused")
      BY <1>5, <1>10, <2>3 DEF RefreshRead, Fresh, At
    <2>4. PICK s \in Sid :
            \/ Reply(r, "refused")
            \/ Become(r, [Started("refresh", "revokeAll", token[s].owner) EXCEPT
                            !.seen = LiveOf(token[s].owner)])
            \/ Become(r, [Started("refresh", "readUser", token[s].owner) EXCEPT
                            !.sid = s, !.cred = token[s].cred, !.late = token[s].late])
      BY <1>10 DEF RefreshRead
    <2>5. CASE q = r
      BY <1>10, <2>1, <2>2, <2>3, <2>4, <2>5, BecomeIs DEF RefreshRead
    <2>6. CASE q # r
      BY <1>2, <2>4, <2>6, BecomeIs DEF Reply
    <2>7. QED BY <2>5, <2>6
  <1>11. ASSUME NEW r \in Req, LogoutRead(r) \/ RevokeSessionRead(r) PROVE SeenOK(q)'
    <2>1. ASSUME NEW u, NEW s \in Sid,
                 req'[q] = [Started("revokeOne", "revokeOne", u) EXCEPT !.sid = s]
          PROVE  SeenOK(q)'
      BY <1>3, <2>1 DEF Started, Idle
    <2>2. CASE LogoutRead(r)
      BY <1>2, <1>5, <2>1, <2>2, BecomeIs DEF LogoutRead, Fresh, At
    <2>3. CASE RevokeSessionRead(r)
      BY <1>2, <1>5, <2>1, <2>3, BecomeIs DEF RevokeSessionRead, Fresh, At
    <2>4. QED BY <1>11, <2>2, <2>3
  <1>12. ASSUME NEW r \in Req, LogoutOthers(r) PROVE SeenOK(q)'
    <2>1. ASSUME NEW u, req[q].at = "start", req'[q] = [Ended(q, "ok") EXCEPT !.user = u]
          PROVE  SeenOK(q)'
      BY <1>0, <1>3, <2>1 DEF Ended, Idle, SeenOK
    <2>2. QED BY <1>2, <1>12, <2>1, BecomeIs DEF LogoutOthers, Fresh, At
  <1>13. ASSUME NEW r \in Req, PasswordChecked(r) PROVE SeenOK(q)'
    <2>1. ASSUME NEW u, req'[q] = Started("setPassword", "setPassword", u) PROVE SeenOK(q)'
      BY <1>3, <2>1 DEF Started, Idle
    <2>2. QED BY <1>2, <1>5, <1>13, <2>1, BecomeIs DEF PasswordChecked, Fresh, At
  <1>14. ASSUME NEW r \in Req, SetPassword(r) PROVE SeenOK(q)'
    <2>1. ASSUME req'[q] = [req[q] EXCEPT !.at = "revokeAll", !.seen = LiveOf(req[q].user)],
                 token' = token
          PROVE  SeenOK(q)'
      <3>1. /\ req'[q].at = "revokeAll"
            /\ req'[q].user = req[q].user
            /\ req'[q].seen = LiveOf(req[q].user)
        BY <2>1 DEF TypeOK, Request
      <3>2. QED BY <1>4, <2>1, <3>1
    <2>2. QED BY <1>2, <1>14, <2>1, BecomeIs DEF SetPassword
  <1>15. ASSUME NEW r \in Req, SoftDelete(r) PROVE SeenOK(q)'
    <2>1. ASSUME NEW u, token' = token,
                 req'[q] = [Started("softDelete", "revokeAll", u) EXCEPT !.seen = LiveOf(u)]
          PROVE  SeenOK(q)'
      BY <1>4, <2>1 DEF Started, Idle
    <2>2. QED BY <1>2, <1>15, <2>1, BecomeIs DEF SoftDelete
  <1>16. ASSUME NEW r \in Req, Fail(r) PROVE SeenOK(q)'
    <2>1. CASE req[r].at = "revokeAll"
      <3>1. q # r => req'[q] = req[q]
        BY <1>16, <2>1, BecomeIs DEF Fail
      <3>2. q = r => req'[q] = [req[q] EXCEPT !.reply = "error"]
        BY <1>16, <2>1, BecomeIs DEF Fail
      <3>3. /\ req'[q].at = req[q].at
            /\ req'[q].user = req[q].user
            /\ req'[q].seen = req[q].seen
        BY <3>1, <3>2 DEF TypeOK, Request
      <3>4. QED BY <1>1, <3>3
    <2>2. CASE req[r].at # "revokeAll"
      <3>1. req[r].at # "end"
        BY <1>16 DEF Fail, LocalsOK, LocalOK
      <3>2. QED BY <1>5, <1>16, <2>2, <3>1 DEF Fail
    <2>3. QED BY <2>1, <2>2
  <1>17. ASSUME NEW r \in Req, RevokeAll(r) PROVE SeenOK(q)'
    <2>1. CASE q = r
      <3>1. req'[q].at = "end" /\ req'[q].seen = req[q].seen
        BY <1>17, <2>1 DEF RevokeAll, Ended, Idle
      <3>2. ASSUME NEW s \in req[q].seen PROVE s \in Sid /\ token'[s].state = "revoked"
        <4>1. s \in Sid /\ token[s].state # "absent" /\ token[s].owner = req[q].user
          BY <1>0, <1>17, <2>1, <3>2 DEF SeenOK, RevokeAll
        <4>2. CASE Live(s)
          BY <1>17, <2>1, <4>1, <4>2 DEF RevokeAll, LiveOf, TypeOK, TokenRow
        <4>3. CASE token[s].state = "revoked"
          BY <1>0, <4>1, <4>3 DEF RowKept
        <4>4. token[s].state \in {"absent", "live", "revoked"}
          BY <4>1 DEF TypeOK, TokenRow
        <4>5. QED BY <4>1, <4>2, <4>3, <4>4 DEF Live
      <3>3. QED BY <3>1, <3>2 DEF SeenOK
    <2>2. CASE q # r
      <3>1. req'[q] = req[q] \/ req'[q] = [req[q] EXCEPT !.late = TRUE]
        BY <1>17, <2>2 DEF RevokeAll
      <3>2. QED BY <1>1, <3>1 DEF TypeOK, Request
    <2>3. QED BY <2>1, <2>2
  <1>18. CASE req' = req
    BY <1>2, <1>18
  <1>19. QED
    BY <1>6, <1>8, <1>9, <1>10, <1>11, <1>12, <1>13, <1>14, <1>15, <1>16, <1>17, <1>18
    DEF Next, vars, Expire

LEMMA SeenInit == Init => AllSeenOK
  BY DEF Init, Idle, AllSeenOK, SeenOK

\* A reuse alarm, a password change or an account deletion that has answered has
\* ended every session that was alive when it began to revoke, for good.
THEOREM RevocationsArePermanent == Spec => []RevokeAllReachesEverySeenSession
  <1> DEFINE Inv == RotationInv /\ AllSeenOK
  <1>1. Init => Inv
    BY RotationInit, SeenInit
  <1>2. Inv /\ [Next]_vars => Inv'
    BY TypeNext, LocalsNext, RowsNext, SeenNext DEF RotationInv
  <1>3. Inv => RevokeAllReachesEverySeenSession
    <2> SUFFICES ASSUME Inv, NEW r \in Req, req[r].reply \in {"reuse", "ok"}
                 PROVE  \A s \in req[r].seen : token[s].state = "revoked"
      BY DEF RevokeAllReachesEverySeenSession
    <2>1. LocalOK(r) /\ SeenOK(r)
      BY DEF RotationInv, LocalsOK, AllSeenOK
    <2>2. req[r].at = "end"
      BY <2>1 DEF LocalOK
    <2>3. QED BY <2>1, <2>2 DEF SeenOK
  <1>4. QED BY <1>1, <1>2, <1>3, PTL DEF Spec

LEMMA OwnersAreUsers ==
  ASSUME TypeOK, RowsOK, NEW s \in Sid, Live(s)
  PROVE  token[s].owner \in User /\ password[token[s].owner] \in Nat
  BY DEF RowsOK, Live, TypeOK

LEMMA HalfDoneKept ==
  ASSUME TypeOK, [Next]_vars, NEW q \in Req, NEW u, HalfDone(q, u), ~RevokeAll(q)
  PROVE  HalfDone(q, u)'
  BY PendingKept DEF HalfDone

LEMMA PendingDeletionKept ==
  ASSUME TypeOK, [Next]_vars, NEW q \in Req, NEW u, PendingDeletion(q, u), ~RevokeAll(q)
  PROVE  PendingDeletion(q, u)'
  BY PendingKept DEF PendingDeletion

LEMMA StaleNext ==
  RotationInv /\ StaleSessionsAreExplained /\ StaleMintsAreExplained /\ [Next]_vars
    => StaleSessionsAreExplained' /\ StaleMintsAreExplained'
  <1> SUFFICES ASSUME RotationInv, StaleSessionsAreExplained, StaleMintsAreExplained,
                      [Next]_vars
               PROVE  StaleSessionsAreExplained' /\ StaleMintsAreExplained'
    OBVIOUS
  <1>0. TypeOK /\ RowsOK /\ LocalsOK /\ TypeOK' /\ RowsOK' /\ LocalsOK'
    BY TypeNext, LocalsNext, RowsNext DEF RotationInv
  \* A user whose stale sessions were explained by an unfinished change keeps it.
  <1>1. ASSUME NEW u \in User, \A r \in Req : RevokeAll(r) => req[r].user # u,
               \E q \in Req : HalfDone(q, u)
        PROVE  \E q \in Req : HalfDone(q, u)'
    BY <1>0, <1>1, HalfDoneKept DEF HalfDone
  <1>2. ASSUME NEW u \in User, password'[u] # password[u]
        PROVE  \E q \in Req : HalfDone(q, u)'
    BY <1>0, <1>2, PasswordStep
  <1>3. ASSUME NEW s \in Sid, NEW u \in User, token'[s].state = "live", token'[s].owner = u,
               token'[s].cred < password'[u], ~token'[s].late
        PROVE  \E q \in Req : HalfDone(q, u)'
    <2>1. CASE password'[u] # password[u]
      BY <1>2, <2>1
    <2>2. ASSUME password'[u] = password[u], Live(s), token[s].owner = u,
                 token'[s].cred = token[s].cred, token'[s].late = token[s].late,
                 \A r \in Req : RevokeAll(r) => req[r].user # token[s].owner
          PROVE  \E q \in Req : HalfDone(q, u)'
      <3>1. \E q \in Req : HalfDone(q, u)
        BY <1>3, <2>2 DEF StaleSessionsAreExplained
      <3>2. QED BY <1>1, <2>2, <3>1
    <2>3. ASSUME password'[u] = password[u], NEW r \in Req, req[r].at = "create",
                 req[r].user = u, token'[s].cred = req[r].cred, token'[s].late = req[r].late,
                 \A q \in Req : ~RevokeAll(q)
          PROVE  \E q \in Req : HalfDone(q, u)'
      <3>1. \E q \in Req : HalfDone(q, u)
        BY <1>3, <2>3 DEF StaleMintsAreExplained
      <3>2. QED BY <1>1, <2>3, <3>1
    <2>4. QED BY <1>0, <1>3, <2>1, <2>2, <2>3, RowOrigin
  <1>4. ASSUME NEW r \in Req, NEW u \in User, req'[r].at \in MintAt, req'[r].user = u,
               req'[r].cred < password'[u], ~req'[r].late
        PROVE  \E q \in Req : HalfDone(q, u)'
    <2>1. CASE password'[u] # password[u]
      BY <1>2, <2>1
    <2>2. CASE password'[u] = password[u] /\ CarriedOn(r)
      <3>1. /\ req[r].at \in MintAt
            /\ req'[r].user = req[r].user
            /\ req'[r].cred = req[r].cred
            /\ ~req[r].late
            /\ \A p \in Req : RevokeAll(p) => req[p].user # req[r].user
        BY <1>4, <2>2 DEF CarriedOn
      <3>2. \E q \in Req : HalfDone(q, u)
        BY <1>4, <2>2, <3>1 DEF StaleMintsAreExplained, MintAt
      <3>3. QED BY <1>1, <1>4, <3>1, <3>2
    <2>3. CASE JustRead(r)
      <3>1. UNCHANGED password /\ \A p \in Req : ~RevokeAll(p)
        BY <2>3 DEF JustRead
      <3>2. req'[r].cred # password[u]
        <4>1. password[u] \in Nat
          BY <1>0 DEF TypeOK
        <4>2. QED BY <1>4, <3>1, <4>1
      <3>3. PICK s \in Sid : /\ Live(s)
                             /\ u = token[s].owner
                             /\ req'[r].cred = token[s].cred
                             /\ req'[r].late = token[s].late
        BY <1>4, <2>3, <3>2 DEF JustRead
      <3>4. \E q \in Req : HalfDone(q, u)
        BY <1>4, <3>1, <3>3 DEF StaleSessionsAreExplained
      <3>5. QED BY <1>1, <3>1, <3>4
    <2>4. QED BY <1>0, <1>4, <2>1, <2>2, <2>3, MintOrigin
  <1>5. StaleSessionsAreExplained'
    <2>1. \A s \in Sid : token'[s].state = "live" => token'[s].owner \in User
      BY <1>0 DEF RowsOK
    <2>2. QED BY <1>3, <2>1 DEF StaleSessionsAreExplained, Live, HalfDone
  <1>6. StaleMintsAreExplained'
    <2>1. \A r \in Req : req'[r].at \in MintAt => req'[r].user \in User
      BY <1>0 DEF LocalsOK, LocalOK, MintAt
    <2>2. QED BY <1>4, <2>1 DEF StaleMintsAreExplained, MintAt, HalfDone
  <1>7. QED BY <1>5, <1>6

LEMMA StaleInit == Init => StaleSessionsAreExplained /\ StaleMintsAreExplained
  <1> SUFFICES ASSUME Init PROVE StaleSessionsAreExplained /\ StaleMintsAreExplained
    OBVIOUS
  <1>1. ASSUME NEW s \in Sid, Live(s) PROVE token[s].cred = password[token[s].owner]
    <2>1. PICK u \in User : token[s] = FirstRow(u)
      BY <1>1 DEF Init, Live, NoRow
    <2>2. QED BY <2>1 DEF Init, FirstRow, NoRow
  <1>2. \A s \in Sid : Live(s) => ~(token[s].cred < password[token[s].owner])
    BY <1>1, TypeInit, RotationInit, OwnersAreUsers DEF RotationInv
  <1>3. \A r \in Req : req[r].at = "start"
    BY DEF Init, Idle
  <1>4. QED
    BY <1>2, <1>3 DEF StaleSessionsAreExplained, StaleMintsAreExplained

\* Who outlives a password change: only a session whose login or refresh was in
\* flight at the revocation, or the sessions of a change that stopped half way.
THEOREM StaleSessionsExplained == Spec => []StaleSessionsAreExplained
  <1> DEFINE Inv == /\ RotationInv
                    /\ StaleSessionsAreExplained
                    /\ StaleMintsAreExplained
  <1>1. Init => Inv
    BY RotationInit, StaleInit
  <1>2. Inv /\ [Next]_vars => Inv'
    BY TypeNext, LocalsNext, RowsNext, StaleNext DEF RotationInv
  <1>3. QED BY <1>1, <1>2, PTL DEF Spec

LEMMA DeletedNext ==
  RotationInv /\ DeletedAccountsLoseTheirSessions /\ DeletedMintsAreExplained /\ [Next]_vars
    => DeletedAccountsLoseTheirSessions' /\ DeletedMintsAreExplained'
  <1> SUFFICES ASSUME RotationInv, DeletedAccountsLoseTheirSessions,
                      DeletedMintsAreExplained, [Next]_vars
               PROVE  DeletedAccountsLoseTheirSessions' /\ DeletedMintsAreExplained'
    OBVIOUS
  <1>0. TypeOK /\ RowsOK /\ LocalsOK /\ TypeOK' /\ RowsOK' /\ LocalsOK'
    BY TypeNext, LocalsNext, RowsNext DEF RotationInv
  <1>1. ASSUME NEW u \in User, \A r \in Req : RevokeAll(r) => req[r].user # u,
               \E q \in Req : PendingDeletion(q, u)
        PROVE  \E q \in Req : PendingDeletion(q, u)'
    BY <1>0, <1>1, PendingDeletionKept DEF PendingDeletion
  <1>2. ASSUME NEW u \in User, deleted'[u] = "self", deleted[u] # "self"
        PROVE  \E q \in Req : PendingDeletion(q, u)'
    BY <1>0, <1>2, DeletedStep
  <1>3. ASSUME NEW s \in Sid, NEW u \in User, token'[s].state = "live", token'[s].owner = u,
               deleted'[u] = "self", ~token'[s].late
        PROVE  \E q \in Req : PendingDeletion(q, u)'
    <2>1. CASE deleted[u] # "self"
      BY <1>2, <1>3, <2>1
    <2>2. ASSUME deleted[u] = "self", Live(s), token[s].owner = u,
                 token'[s].late = token[s].late,
                 \A r \in Req : RevokeAll(r) => req[r].user # token[s].owner
          PROVE  \E q \in Req : PendingDeletion(q, u)'
      <3>1. \E q \in Req : PendingDeletion(q, u)
        BY <1>3, <2>2 DEF DeletedAccountsLoseTheirSessions, PendingDeletion
      <3>2. QED BY <1>1, <2>2, <3>1
    <2>3. ASSUME deleted[u] = "self", NEW r \in Req, req[r].at = "create",
                 req[r].user = u, token'[s].late = req[r].late,
                 \A q \in Req : ~RevokeAll(q)
          PROVE  \E q \in Req : PendingDeletion(q, u)'
      <3>1. \E q \in Req : PendingDeletion(q, u)
        BY <1>3, <2>3 DEF DeletedMintsAreExplained
      <3>2. QED BY <1>1, <2>3, <3>1
    <2>4. QED BY <1>0, <1>3, <2>1, <2>2, <2>3, RowOrigin
  <1>4. ASSUME NEW r \in Req, NEW u \in User, req'[r].at \in {"revokeOld", "create"},
               req'[r].user = u, deleted'[u] = "self", ~req'[r].late
        PROVE  \E q \in Req : PendingDeletion(q, u)'
    <2>1. CASE deleted[u] # "self"
      BY <1>2, <1>4, <2>1
    <2>2. CASE deleted[u] = "self" /\ CarriedOn(r)
      <3>1. /\ req[r].at \in {"revokeOld", "create"}
            /\ req[r].user = u
            /\ ~req[r].late
            /\ \A p \in Req : RevokeAll(p) => req[p].user # req[r].user
        BY <1>4, <2>2 DEF CarriedOn
      <3>2. \E q \in Req : PendingDeletion(q, u)
        BY <2>2, <3>1 DEF DeletedMintsAreExplained
      <3>3. QED BY <1>1, <3>1, <3>2
    <2>3. CASE JustRead(r)
      BY <1>4, <2>3 DEF JustRead
    <2>4. req'[r].at \in MintAt
      BY <1>4 DEF MintAt
    <2>5. QED BY <1>0, <2>1, <2>2, <2>3, <2>4, MintOrigin
  <1>5. DeletedAccountsLoseTheirSessions'
    <2>1. \A s \in Sid : token'[s].state = "live" => token'[s].owner \in User
      BY <1>0 DEF RowsOK
    <2>2. QED BY <1>3, <2>1 DEF DeletedAccountsLoseTheirSessions, Live, PendingDeletion
  <1>6. DeletedMintsAreExplained'
    <2>1. \A r \in Req : req'[r].at \in {"revokeOld", "create"} => req'[r].user \in User
      BY <1>0 DEF LocalsOK, LocalOK
    <2>2. QED BY <1>4, <2>1 DEF DeletedMintsAreExplained, PendingDeletion
  <1>7. QED BY <1>5, <1>6

LEMMA DeletedInit == Init => DeletedAccountsLoseTheirSessions /\ DeletedMintsAreExplained
  <1> SUFFICES ASSUME Init
               PROVE  DeletedAccountsLoseTheirSessions /\ DeletedMintsAreExplained
    OBVIOUS
  <1>1. \A s \in Sid : Live(s) => token[s].owner \in User
    BY RotationInit, OwnersAreUsers DEF RotationInv
  <1>2. \A u \in User : deleted[u] = "no"
    BY DEF Init
  <1>3. \A r \in Req : req[r].at = "start"
    BY DEF Init, Idle
  <1>4. QED
    BY <1>1, <1>2, <1>3 DEF DeletedAccountsLoseTheirSessions, DeletedMintsAreExplained

\* An account its owner deleted keeps no session, but for one created by a login
\* or refresh that was in flight at the revocation.
THEOREM DeletionEndsSessions == Spec => []DeletedAccountsLoseTheirSessions
  <1> DEFINE Inv == /\ RotationInv
                    /\ DeletedAccountsLoseTheirSessions
                    /\ DeletedMintsAreExplained
  <1>1. Init => Inv
    BY RotationInit, DeletedInit
  <1>2. Inv /\ [Next]_vars => Inv'
    BY TypeNext, LocalsNext, RowsNext, DeletedNext DEF RotationInv
  <1>3. QED BY <1>1, <1>2, PTL DEF Spec
-----------------------------------------------------------------------------
(***************************************************************************)
(* Sessions end by requests of their own account.                          *)
(***************************************************************************)

\* The row a handler is about to revoke by its id belongs to the handler's user.
OwnSid(r) ==
  req[r].at \in {"readUser", "revokeOld", "revokeOne"} => token[req[r].sid].owner = req[r].user

OwnSids == \A r \in Req : OwnSid(r)

LEMMA OwnSidsNext ==
  ASSUME TypeOK, RowsOK, LocalsOK, OwnSids, [Next]_vars
  PROVE  OwnSids'
  <1> SUFFICES ASSUME NEW q \in Req PROVE OwnSid(q)'
    BY DEF OwnSids
  <1>0. (\A s \in Sid : RowKept(s)) /\ LocalOK(q) /\ OwnSid(q)
    BY RowsAreKept DEF LocalsOK, OwnSids
  <1>1. CASE req'[q].at = req[q].at /\ req'[q].user = req[q].user /\ req'[q].sid = req[q].sid
    BY <1>0, <1>1 DEF LocalOK, RowKept, OwnSid
  <1>2. CASE req'[q].at \notin {"readUser", "revokeOld", "revokeOne"}
    BY <1>2 DEF OwnSid
  <1> DEFINE Kept == /\ req'[q].at = req[q].at
                     /\ req'[q].user = req[q].user
                     /\ req'[q].sid = req[q].sid
             Elsewhere == req'[q].at \notin {"readUser", "revokeOld", "revokeOne"}
  <1>3. ASSUME NEW r \in Req, NEW x, Become(r, x),
               x.at \notin {"readUser", "revokeOld", "revokeOne"}
        PROVE  Kept \/ Elsewhere
    BY <1>3, BecomeIs
  <1>b. ASSUME NEW r \in Req, NEW x, Become(r, x) PROVE req'[q] = x \/ Kept
    BY <1>b, BecomeIs
  <1>4. \A o, u, l : Started(o, l, u).at = l /\ Started(o, l, u).user = u
    BY DEF Started, Idle
  <1>5. \A r \in Req : \A a : Ended(r, a).at = "end"
    BY DEF Ended, Idle
  <1>6. ASSUME NEW r \in Req, NEW a, Reply(r, a) PROVE Kept \/ Elsewhere
    BY <1>5, <1>6, BecomeIs DEF Reply
  <1>7. ASSUME NEW r \in Req, LoginRead(r) PROVE Kept \/ Elsewhere
    <2>1. ASSUME NEW u \in User, NEW next \in {"create", "ticket"},
                 Become(r, [Started("login", next, u) EXCEPT !.cred = password[u]])
          PROVE  Kept \/ Elsewhere
      <3>1. req'[q] = [Started("login", next, u) EXCEPT !.cred = password[u]] \/ Kept
        BY <1>b, <2>1
      <3>2. QED BY <3>1 DEF Started, Idle
    <2>2. QED BY <1>6, <1>7, <2>1 DEF LoginRead
  <1>8. ASSUME NEW r \in Req, Verify2fa(r) \/ RefreshRevokeOld(r) PROVE Kept \/ Elsewhere
    <2>1. ASSUME Goto(r, "create") PROVE Kept \/ Elsewhere
      BY <2>1, BecomeIs DEF Goto, TypeOK, Request
    <2>2. QED BY <1>6, <1>8, <2>1 DEF Verify2fa, RefreshRevokeOld
  <1>9. ASSUME NEW r \in Req, IssueTokens(r) \/ RevokeOne(r) \/ AdminDelete(r)
        PROVE  Kept \/ Elsewhere
    BY <1>6, <1>9 DEF IssueTokens, RevokeOne, AdminDelete
  <1>10. ASSUME NEW r \in Req, RefreshRead(r) PROVE OwnSid(q)'
    <2>1. token' = token
      BY <1>10 DEF RefreshRead
    <2>2. ASSUME NEW s \in Sid,
                 Become(r, [Started("refresh", "readUser", token[s].owner) EXCEPT
                             !.sid = s, !.cred = token[s].cred, !.late = token[s].late])
          PROVE  OwnSid(q)'
      <3>1. \/ req'[q] = [Started("refresh", "readUser", token[s].owner) EXCEPT
                           !.sid = s, !.cred = token[s].cred, !.late = token[s].late]
            \/ Kept
        BY <1>b, <2>2
      <3>2. (req'[q].sid = s /\ req'[q].user = token[s].owner) \/ Kept
        BY <3>1 DEF Started, Idle
      <3>3. QED BY <1>1, <2>1, <3>2 DEF OwnSid
    <2>3. ASSUME NEW s \in Sid,
                 Become(r, [Started("refresh", "revokeAll", token[s].owner) EXCEPT
                             !.seen = LiveOf(token[s].owner)])
          PROVE  Kept \/ Elsewhere
      <3>1. req'[q] = [Started("refresh", "revokeAll", token[s].owner) EXCEPT
                        !.seen = LiveOf(token[s].owner)] \/ Kept
        BY <1>b, <2>3
      <3>2. QED BY <3>1 DEF Started, Idle
    <2>4. QED BY <1>1, <1>2, <1>6, <1>10, <2>2, <2>3 DEF RefreshRead
  <1>11. ASSUME NEW r \in Req, RefreshReadUser(r) PROVE OwnSid(q)'
    <2>1. ASSUME Goto(r, "revokeOld") PROVE OwnSid(q)'
      <3>1. token' = token /\ req[r].at = "readUser" /\ OwnSid(r)
        BY <1>11 DEF RefreshReadUser, At, OwnSids
      <3>2. CASE q = r
        BY <2>1, <3>1, <3>2, BecomeIs DEF Goto, OwnSid, TypeOK, Request
      <3>3. QED BY <1>1, <2>1, <3>2, BecomeIs DEF Goto
    <2>2. QED BY <1>1, <1>2, <1>6, <1>11, <2>1 DEF RefreshReadUser
  <1>12. ASSUME NEW r \in Req, LogoutRead(r) \/ RevokeSessionRead(r) PROVE OwnSid(q)'
    <2>1. token' = token
      BY <1>12 DEF LogoutRead, RevokeSessionRead
    <2>2. ASSUME NEW s \in Sid, NEW u, token[s].owner = u,
                 Become(r, [Started("revokeOne", "revokeOne", u) EXCEPT !.sid = s])
          PROVE  OwnSid(q)'
      <3>1. req'[q] = [Started("revokeOne", "revokeOne", u) EXCEPT !.sid = s] \/ Kept
        BY <1>b, <2>2
      <3>2. (req'[q].sid = s /\ req'[q].user = u) \/ Kept
        BY <3>1 DEF Started, Idle
      <3>3. QED BY <1>1, <2>1, <2>2, <3>2 DEF OwnSid
    <2>3. QED BY <1>1, <1>2, <1>6, <1>12, <2>2 DEF LogoutRead, RevokeSessionRead
  <1>13. ASSUME NEW r \in Req, LogoutOthers(r) PROVE Kept \/ Elsewhere
    <2>1. PICK u \in User : Become(r, [Ended(r, "ok") EXCEPT !.user = u])
      BY <1>13 DEF LogoutOthers
    <2>2. req'[q] = [Ended(r, "ok") EXCEPT !.user = u] \/ Kept
      BY <1>b, <2>1
    <2>3. QED BY <2>2 DEF Ended, Idle
  <1>14. ASSUME NEW r \in Req, PasswordChecked(r) PROVE Kept \/ Elsewhere
    <2>1. ASSUME NEW u \in User, Become(r, Started("setPassword", "setPassword", u))
          PROVE  Kept \/ Elsewhere
      BY <1>4, <2>1, BecomeIs
    <2>2. QED BY <1>6, <1>14, <2>1 DEF PasswordChecked
  <1>15. ASSUME NEW r \in Req, SetPassword(r) PROVE Kept \/ Elsewhere
    <2>1. req'[q] = [req[r] EXCEPT !.at = "revokeAll", !.seen = LiveOf(req[r].user)] \/ Kept
      BY <1>b, <1>15 DEF SetPassword
    <2>2. QED BY <2>1 DEF TypeOK, Request
  <1>16. ASSUME NEW r \in Req, SoftDelete(r) PROVE Kept \/ Elsewhere
    <2>1. PICK u \in User :
            Become(r, [Started("softDelete", "revokeAll", u) EXCEPT !.seen = LiveOf(u)])
      BY <1>16 DEF SoftDelete
    <2>2. req'[q] = [Started("softDelete", "revokeAll", u) EXCEPT !.seen = LiveOf(u)] \/ Kept
      BY <1>b, <2>1
    <2>3. QED BY <2>2 DEF Started, Idle
  <1>17. ASSUME NEW r \in Req, RevokeAll(r) PROVE Kept \/ Elsewhere
    <2>1. \/ req'[q].at = "end"
          \/ req'[q] = req[q]
          \/ req'[q] = [req[q] EXCEPT !.late = TRUE]
      BY <1>5, <1>17 DEF RevokeAll
    <2>2. QED BY <2>1 DEF TypeOK, Request
  <1>18. ASSUME NEW r \in Req, Fail(r) PROVE Kept \/ Elsewhere
    <2>1. ASSUME Become(r, [req[r] EXCEPT !.reply = "error"]) PROVE Kept \/ Elsewhere
      BY <2>1, BecomeIs DEF TypeOK, Request
    <2>2. QED BY <1>6, <1>18, <2>1 DEF Fail
  <1>19. CASE UNCHANGED vars \/ \E s \in Sid : Expire(s)
    BY <1>1, <1>19 DEF vars, Expire
  <1>20. QED BY <1>1, <1>2, <1>7, <1>8, <1>9, <1>10, <1>11, <1>12, <1>13, <1>14, <1>15, <1>16,
               <1>17, <1>18, <1>19 DEF Next

EndedByOwn(s) ==
  Live(s) /\ token'[s].state = "revoked" =>
    \E r \in Req : /\ req'[r].at # req[r].at
                   /\ token[s].owner \in {req[r].user, req'[r].user}

LEMMA OwnRequestsEnd ==
  ASSUME TypeOK, RowsOK, LocalsOK, OwnSids, [Next]_vars, NEW s \in Sid
  PROVE  EndedByOwn(s)
  <1>0. \A r \in Req : \A a : Ended(r, a).at = "end"
    BY DEF Ended, Idle
  <1>1. ASSUME NEW r \in Req, RefreshRevokeOld(r) \/ RevokeOne(r) PROVE EndedByOwn(s)
    <2>1. req[r].at \in {"revokeOld", "revokeOne"} /\ token[req[r].sid].owner = req[r].user
      BY <1>1 DEF RefreshRevokeOld, RevokeOne, At, OwnSids, OwnSid
    <2>2. token'[s].state # token[s].state => s = req[r].sid
      BY <1>1 DEF RefreshRevokeOld, RevokeOne, TypeOK
    <2>3. req'[r].at \in {"create", "end"}
      BY <1>0, <1>1, BecomeIs DEF RefreshRevokeOld, RevokeOne, Goto, Reply, TypeOK, Request
    <2>4. QED BY <2>1, <2>2, <2>3 DEF EndedByOwn, Live
  <1>2. ASSUME NEW r \in Req, LogoutOthers(r) PROVE EndedByOwn(s)
    <2>1. PICK u \in User :
            /\ \E kept \in Sid :
                 token' = [z \in Sid |-> IF z \in LiveOf(u) \ {kept}
                                         THEN [token[z] EXCEPT !.state = "revoked"]
                                         ELSE token[z]]
            /\ Become(r, [Ended(r, "ok") EXCEPT !.user = u])
      BY <1>2 DEF LogoutOthers
    <2>2. req'[r].user = u /\ req'[r].at = "end" /\ req[r].at = "start"
      <3>1. req'[r] = [Ended(r, "ok") EXCEPT !.user = u]
        BY <2>1, BecomeIs
      <3>2. QED BY <1>2, <3>1 DEF Ended, Idle, LogoutOthers, Fresh, At
    <2>3. token'[s].state # token[s].state => token[s].owner = u
      BY <2>1 DEF LiveOf
    <2>4. QED BY <2>2, <2>3 DEF EndedByOwn, Live
  <1>3. ASSUME NEW r \in Req, RevokeAll(r) PROVE EndedByOwn(s)
    <2>1. req'[r].at = "end" /\ req[r].at = "revokeAll"
      BY <1>0, <1>3 DEF RevokeAll
    <2>2. token'[s].state # token[s].state => token[s].owner = req[r].user
      BY <1>3 DEF RevokeAll, LiveOf
    <2>3. QED BY <2>1, <2>2 DEF EndedByOwn, Live
  <1>4. ASSUME NEW r \in Req, IssueTokens(r) PROVE EndedByOwn(s)
    BY <1>4 DEF IssueTokens, EndedByOwn, Live, TypeOK
  <1>5. ASSUME NEW z \in Sid, Expire(z) PROVE EndedByOwn(s)
    BY <1>5 DEF Expire, EndedByOwn, Live, TypeOK, TokenRow
  <1>6. CASE UNCHANGED token
    BY <1>6 DEF EndedByOwn, Live
  <1>7. QED
    BY <1>1, <1>2, <1>3, <1>4, <1>5, <1>6
    DEF Next, vars, LoginRead, Verify2fa, RefreshRead, RefreshReadUser, LogoutRead,
        RevokeSessionRead, PasswordChecked, SetPassword, SoftDelete, AdminDelete, Fail

\* No handler, revoke-all included, ends a session of another account.
THEOREM SessionsEndByTheirOwn == Spec => OnlyOwnRequestsEndSessions
  <1> DEFINE Inv == RotationInv /\ OwnSids
  <1>1. Init => Inv
    BY RotationInit DEF Init, OwnSids, OwnSid, Idle
  <1>2. Inv /\ [Next]_vars => Inv'
    BY TypeNext, LocalsNext, RowsNext, OwnSidsNext DEF RotationInv
  <1>3. Inv /\ [Next]_vars => \A s \in Sid : EndedByOwn(s)
    BY OwnRequestsEnd DEF RotationInv
  <1> HIDE DEF Inv
  <1>4. QED BY <1>1, <1>2, <1>3, PTL DEF Spec, OnlyOwnRequestsEndSessions, EndedByOwn

\* A session outlives a password change or a deletion only in flight or after a failure.
THEOREM SurvivorsExplained == Spec => []SurvivorsAreExplained
  BY StaleSessionsExplained, DeletionEndsSessions, PTL DEF SurvivorsAreExplained
=============================================================================
