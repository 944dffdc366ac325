---------------------------- MODULE Credentials ----------------------------
(***************************************************************************)
(* The credentials of one account besides its password and its sessions:   *)
(* the mailed codes and reset tokens of AuthService.forgotPassword,        *)
(* verifyCode and resetPassword, the second factor with its backup codes   *)
(* and tickets (setup2fa, enable2fa, disable2fa, login, verify2fa), and the*)
(* socket tickets of SocketService.  Codes and the factor are rows that a  *)
(* handler reads and later writes; tokens and tickets are Redis keys that  *)
(* one command checks and deletes.                                         *)
(***************************************************************************)
EXTENDS Naturals

CONSTANTS Code,    \* ids of mailed codes, handed out once
          Key,     \* ids (jti) of reset tokens and tickets, handed out once
          Secret,  \* TOTP secrets
          Backup,  \* backup codes, handed out once
          Req,     \* requests; each one is handled once
          None

ASSUME NoCredential == None \notin Code \cup Key \cup Secret \cup Backup

VARIABLES code,     \* the EmailCode rows
          key,      \* the Redis keys of reset tokens, tickets and socket tickets
          uses,     \* what each key has granted: passwords set, logins, sockets
          factor,   \* totpSecret, totpEnabled and backupCodes of the account
          shown,    \* backup codes that have been handed out
          req,      \* the state of every request
          accepted, \* history: how often a backup code was accepted
          proven,   \* history: the secret whose code the last enable2fa has seen
          stale     \* history: the factor was written on a copy that had changed

second == <<factor, shown, accepted, proven, stale>>
vars == <<code, key, uses, factor, shown, req, accepted, proven, stale>>

NoCode == [state |-> "absent", expired |-> FALSE, crowded |-> FALSE]

\* crowded (history): another forgotPassword was under way when it was created.
CodeRow == [state : {"absent", "unused", "used"}, expired : BOOLEAN, crowded : BOOLEAN]

NoKey == [state |-> "absent", kind |-> "reset", from |-> None, raced |-> FALSE]

\* from, raced (history): the code a reset token was given for, and whether another
\* verifyCode of that code was under way.
KeyRow == [state : {"absent", "live", "gone"}, kind : {"reset", "ticket", "socket"},
           from : Code \cup {None}, raced : BOOLEAN]

Factor == [secret : Secret \cup {None}, enabled : BOOLEAN, backup : SUBSET Backup]

Off == [secret |-> None, enabled |-> FALSE, backup |-> {}]

\* The locals of a handler: the code, key or backup code presented, and the copy of
\* the factor it has read.  over (history): a request for the same was under way too.
Request == [at : {"start", "create", "mark", "setReset", "setPassword", "setup", "enable",
                  "spend", "clear", "setTicket", "verify", "spendLogin", "end"},
            code : Code \cup {None}, key : Key \cup {None}, backup : Backup \cup {None},
            copy : Factor, over : BOOLEAN]

Idle == [at |-> "start", code |-> None, key |-> None, backup |-> None,
         copy |-> Off, over |-> FALSE]

TypeOK ==
  /\ code \in [Code -> CodeRow] /\ key \in [Key -> KeyRow] /\ uses \in [Key -> Nat]
  /\ factor \in Factor /\ shown \subseteq Backup
  /\ req \in [Req -> Request]
  /\ accepted \in [Backup -> Nat] /\ proven \in Secret \cup {None} /\ stale \in BOOLEAN

\* The account comes with a code, tokens and tickets from before, or none, and with
\* the second factor off, prepared or on.
Init ==
  /\ code \in [Code -> {NoCode, [NoCode EXCEPT !.state = "unused"]}]
  /\ \A c, d \in Code : code[c].state = "unused" /\ code[d].state = "unused" => c = d
  /\ key \in [Key -> {NoKey} \cup {[NoKey EXCEPT !.state = "live", !.kind = kind] :
                                     kind \in {"reset", "ticket", "socket"}}]
  /\ uses = [k \in Key |-> 0]
  /\ \E x \in Secret, b \in (SUBSET Backup) \ {{}} :
       factor \in {Off, [Off EXCEPT !.secret = x],
                   [secret |-> x, enabled |-> TRUE, backup |-> b]}
  /\ shown = factor.backup
  /\ req = [r \in Req |-> Idle]
  /\ accepted = [b \in Backup |-> 0]
  /\ proven = IF factor.enabled THEN factor.secret ELSE None
  /\ stale = FALSE

-----------------------------------------------------------------------------
At(r, l) == req[r].at = l

Become(r, x) == req' = [req EXCEPT ![r] = x]

Ends(r) == Become(r, [Idle EXCEPT !.at = "end"])

Live(k, kind) == key[k].state = "live" /\ key[k].kind = kind

\* Unused, unexpired: what verifyCode looks for.
Usable(c) == code[c].state = "unused" /\ ~code[c].expired

\* r starts as x, beside the requests in others, which it meets.
StartBeside(r, x, others) ==
  req' = [q \in Req |-> CASE q = r -> [x EXCEPT !.over = others # {}]
                          [] q \in others -> [req[q] EXCEPT !.over = TRUE]
                          [] OTHER -> req[q]]

\* redis.set of a token or ticket under a new id.
SetKey(r, kind) ==
  \E k \in Key :
    /\ key[k].state = "absent"
    /\ key' = [key EXCEPT ![k] = [state |-> "live", kind |-> kind, from |-> req[r].code,
                                  raced |-> req[r].over]]

-----------------------------------------------------------------------------

\* forgotPassword and resendCode: retire the unused codes...
ForgotPassword(r) ==
  /\ At(r, "start")
  /\ code' = [c \in Code |-> IF code[c].state = "unused" THEN [code[c] EXCEPT !.state = "used"]
                                                         ELSE code[c]]
  /\ StartBeside(r, [Idle EXCEPT !.at = "create"], {q \in Req : At(q, "create")})
  /\ UNCHANGED <<key, uses, second>>

\* ... create the new one, and mail it.
CreateCode(r) ==
  /\ At(r, "create")
  /\ \E c \in Code :
       /\ code[c].state = "absent"
       /\ code' = [code EXCEPT ![c] = [state |-> "unused", expired |-> FALSE,
                                       crowded |-> req[r].over]]
  /\ Ends(r)
  /\ UNCHANGED <<key, uses, second>>

\* verifyCode finds the presented code, or refuses.
VerifyCode(r) ==
  /\ At(r, "start")
  /\ \/ Ends(r)
     \/ \E c \in Code :
          /\ Usable(c)
          /\ StartBeside(r, [Idle EXCEPT !.at = "mark", !.code = c],
                         {q \in Req : At(q, "mark") /\ req[q].code = c})
  /\ UNCHANGED <<code, key, uses, second>>

\* Mutant: usedAt is not set.
MarkNothing(r) ==
  /\ At(r, "mark")
  /\ Become(r, [req[r] EXCEPT !.at = "setReset"])
  /\ UNCHANGED <<code, key, uses, second>>

MarkUsed(r) ==
  /\ At(r, "mark")
  /\ code' = [code EXCEPT ![req[r].code].state = "used"]
  /\ Become(r, [req[r] EXCEPT !.at = "setReset"])
  /\ UNCHANGED <<key, uses, second>>

SetResetToken(r) ==
  /\ At(r, "setReset")
  /\ SetKey(r, "reset")
  /\ Ends(r)
  /\ UNCHANGED <<code, uses, second>>

\* Mutant: the key is looked up, and would be deleted later.
ResetPasswordGet(r) ==
  /\ At(r, "start")
  /\ \/ Ends(r)
     \/ \E k \in Key : /\ Live(k, "reset")
                       /\ Become(r, [Idle EXCEPT !.at = "setPassword", !.key = k])
  /\ UNCHANGED <<code, key, uses, second>>

\* resetPassword: del tells whether the key was there.
ResetPassword(r) ==
  /\ At(r, "start")
  /\ \/ Ends(r) /\ UNCHANGED key
     \/ \E k \in Key :
          /\ Live(k, "reset")
          /\ key' = [key EXCEPT ![k].state = "gone"]
          /\ Become(r, [Idle EXCEPT !.at = "setPassword", !.key = k])
  /\ UNCHANGED <<code, uses, second>>

SetPassword(r) ==
  /\ At(r, "setPassword")
  /\ uses' = [uses EXCEPT ![req[r].key] = @ + 1]
  /\ Ends(r)
  /\ UNCHANGED <<code, key, second>>

-----------------------------------------------------------------------------
\* setup2fa: refused if the factor is on; a new secret otherwise.
SetupRead(r) ==
  /\ At(r, "start")
  /\ IF factor.enabled THEN Ends(r)
                       ELSE Become(r, [Idle EXCEPT !.at = "setup", !.copy = factor])
  /\ UNCHANGED <<code, key, uses, second>>

SetupWrite(r) ==
  /\ At(r, "setup")
  /\ \E x \in Secret :
       /\ x # factor.secret /\ \A q \in Req : req[q].copy.secret # x
       /\ factor' = [factor EXCEPT !.secret = x]
  /\ stale' = (stale \/ req[r].copy.enabled # factor.enabled)
  /\ Ends(r)
  /\ UNCHANGED <<code, key, uses, shown, accepted, proven>>

\* Mutant: enable2fa does not ask whether the factor is on already, nor for a code.
EnableReadUnproven(r) ==
  /\ At(r, "start")
  /\ \/ Ends(r)
     \/ Become(r, [Idle EXCEPT !.at = "enable", !.copy = factor])
  /\ UNCHANGED <<code, key, uses, second>>

\* enable2fa: a code of the secret it has read...
EnableRead(r) ==
  /\ At(r, "start")
  /\ \/ Ends(r)
     \/ /\ ~factor.enabled /\ factor.secret # None
        /\ Become(r, [Idle EXCEPT !.at = "enable", !.copy = factor])
  /\ UNCHANGED <<code, key, uses, second>>

\* ... turns the factor on, whatever the secret is by now, with fresh backup codes.
EnableWrite(r) ==
  /\ At(r, "enable")
  /\ \E fresh \in SUBSET (Backup \ shown) :
       /\ fresh # {}
       /\ factor' = [factor EXCEPT !.enabled = TRUE, !.backup = fresh]
       /\ shown' = shown \cup fresh
  /\ proven' = req[r].copy.secret
  /\ stale' = (stale \/ req[r].copy.secret # factor.secret \/ factor.enabled)
  /\ Ends(r)
  /\ UNCHANGED <<code, key, uses, accepted>>

\* disable2fa: a TOTP code or a backup code on the list it has read.
DisableRead(r) ==
  /\ At(r, "start")
  /\ \/ Ends(r)
     \/ /\ factor.enabled /\ factor.secret # None
        /\ \/ Become(r, [Idle EXCEPT !.at = "clear", !.copy = factor])
           \/ \E b \in factor.backup :
                Become(r, [Idle EXCEPT !.at = "spend", !.copy = factor, !.backup = b])
  /\ UNCHANGED <<code, key, uses, second>>

\* Mutant: the used code is left on the list.
SpendNothing(r) ==
  /\ accepted' = [accepted EXCEPT ![req[r].backup] = @ + 1]
  /\ UNCHANGED <<factor, stale>>

\* consumeSecondFactor: the list that was read, without the code, is written back.
Spend(r) ==
  /\ factor' = [factor EXCEPT !.backup = req[r].copy.backup \ {req[r].backup}]
  /\ accepted' = [accepted EXCEPT ![req[r].backup] = @ + 1]
  /\ stale' = (stale \/ req[r].copy.backup # factor.backup)

SpendAndDisable(r) ==
  /\ At(r, "spend")
  /\ Spend(r)
  /\ Become(r, [req[r] EXCEPT !.at = "clear"])
  /\ UNCHANGED <<code, key, uses, shown, proven>>

Clear(r) ==
  /\ At(r, "clear")
  /\ factor' = Off
  /\ Ends(r)
  /\ UNCHANGED <<code, key, uses, shown, accepted, proven, stale>>

\* login of an account with a second factor: a ticket instead of tokens.
Login(r) ==
  /\ At(r, "start")
  /\ IF factor.enabled THEN Become(r, [Idle EXCEPT !.at = "setTicket"]) ELSE Ends(r)
  /\ UNCHANGED <<code, key, uses, second>>

SetTicket(r) ==
  /\ At(r, "setTicket")
  /\ SetKey(r, "ticket")
  /\ Ends(r)
  /\ UNCHANGED <<code, uses, second>>

\* verify2fa: the ticket goes first, right or wrong code...
BurnTicket(r) ==
  /\ At(r, "start")
  /\ \/ Ends(r) /\ UNCHANGED key
     \/ \E k \in Key :
          /\ Live(k, "ticket")
          /\ key' = [key EXCEPT ![k].state = "gone"]
          /\ Become(r, [Idle EXCEPT !.at = "verify", !.key = k])
  /\ UNCHANGED <<code, uses, second>>

\* ... then the account is read and the code checked: wrong, TOTP, or a backup code.
Verify2fa(r) ==
  /\ At(r, "verify")
  /\ \/ Ends(r) /\ UNCHANGED uses
     \/ /\ factor.enabled /\ factor.secret # None
        /\ \/ uses' = [uses EXCEPT ![req[r].key] = @ + 1] /\ Ends(r)
           \/ /\ \E b \in factor.backup :
                   Become(r, [req[r] EXCEPT !.at = "spendLogin", !.copy = factor, !.backup = b])
              /\ UNCHANGED uses
  /\ UNCHANGED <<code, key, second>>

\* issueTokens may fail when the code is spent already.
SpendAndLogin(r) ==
  /\ At(r, "spendLogin")
  /\ Spend(r)
  /\ uses' \in {uses, [uses EXCEPT ![req[r].key] = @ + 1]}
  /\ Ends(r)
  /\ UNCHANGED <<code, key, shown, proven>>

-----------------------------------------------------------------------------
\* SocketService.issue.
IssueSocketTicket(r) ==
  /\ At(r, "start")
  /\ SetKey(r, "socket")
  /\ Ends(r)
  /\ UNCHANGED <<code, uses, second>>

\* burn: getdel answers with the user and deletes, or answers null.
BurnSocketTicket(r) ==
  /\ At(r, "start")
  /\ \/ UNCHANGED <<key, uses>>
     \/ \E k \in Key :
          /\ Live(k, "socket")
          /\ key' = [key EXCEPT ![k].state = "gone"]
          /\ uses' = [uses EXCEPT ![k] = @ + 1]
  /\ Ends(r)
  /\ UNCHANGED <<code, second>>

\* An awaited call rejects or the process dies.
Fail(r) ==
  /\ req[r].at \notin {"start", "end"}
  /\ Ends(r)
  /\ UNCHANGED <<code, key, uses, second>>

ExpireKey(k) ==
  /\ key[k].state = "live"
  /\ key' = [key EXCEPT ![k].state = "gone"]
  /\ UNCHANGED <<code, uses, second, req>>

ExpireCode(c) ==
  /\ Usable(c)
  /\ code' = [code EXCEPT ![c].expired = TRUE]
  /\ UNCHANGED <<key, uses, second, req>>

Next ==
  \/ \E r \in Req :
       \/ ForgotPassword(r) \/ CreateCode(r) \/ VerifyCode(r) \/ MarkUsed(r) \/ SetResetToken(r)
       \/ ResetPassword(r) \/ SetPassword(r)
       \/ SetupRead(r) \/ SetupWrite(r) \/ EnableRead(r) \/ EnableWrite(r)
       \/ DisableRead(r) \/ SpendAndDisable(r) \/ Clear(r)
       \/ Login(r) \/ SetTicket(r) \/ BurnTicket(r) \/ Verify2fa(r) \/ SpendAndLogin(r)
       \/ IssueSocketTicket(r) \/ BurnSocketTicket(r)
       \/ Fail(r)
  \/ \E k \in Key : ExpireKey(k)
  \/ \E c \in Code : ExpireCode(c)

Spec == Init /\ [][Next]_vars

-----------------------------------------------------------------------------
Keys == INSTANCE OneTime WITH Cred <- Key, known <- {k \in Key : key[k].state # "absent"}

\* Reset tokens, tickets and socket tickets are one-time credentials: each sets one
\* password, lets one login through or opens one socket, whoever presents it at once
\* (resetPassword, verify2fa, SocketService.burn).
KeysAreOneTime == Keys!Spec

\* forgotPassword retires the old codes: two codes work at the same time only if the
\* requests that created them overlapped.
TwoUsableCodesAreExplained ==
  \A c, d \in Code : c # d /\ Usable(c) /\ Usable(d) => code[c].crowded /\ code[d].crowded

\* verifyCode: a code is used up before its token exists, and buys a second one only
\* for requests that overlapped.
CodesBuyOneToken ==
  \A k \in Key :
    key[k].from # None =>
      /\ code[key[k].from].state = "used"
      /\ \A l \in Key : l # k /\ key[l].from = key[k].from => key[k].raced /\ key[l].raced

\* consumeSecondFactor: a backup code is accepted once and off the list from then on,
\* unless somebody wrote back a list that had changed meanwhile.
BackupCodesAreSpent ==
  ~stale => \A b \in Backup : accepted[b] <= 1 /\ (accepted[b] = 1 => b \notin factor.backup)

\* setup2fa, enable2fa, disable2fa: a factor that is on has a secret, and one whose
\* code the user has shown, unless it was written on a copy that had changed: no
\* sequence of complete requests locks an account out.
EnabledIsProven ==
  factor.enabled /\ ~stale => factor.secret # None /\ factor.secret = proven

\* setup2fa, enable2fa, disable2fa, consumeSecondFactor: the secret and the backup codes of an
\* account are those that were shown and not yet spent, with the exceptions above.
SecondFactorAgrees == BackupCodesAreSpent /\ EnabledIsProven

\* forgotPassword, verifyCode: one mailed code works at a time and buys one reset token, but for
\* requests that overlapped.
MailedCodesAreOneTime == TwoUsableCodesAreExplained /\ CodesBuyOneToken
=============================================================================
