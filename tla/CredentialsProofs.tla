------------------------- MODULE CredentialsProofs -------------------------
(* What is proved of Credentials for every set of codes, keys, secrets,      *)
(* backup codes and requests.                                                *)
EXTENDS Credentials, TLAPS

-----------------------------------------------------------------------------
(***************************************************************************)
(* The inductive invariant, in parts.                                      *)
(***************************************************************************)

\* What the locals of a handler hold at each of its steps.
LocalsOK(r) ==
  /\ IF req[r].at \in {"mark", "setReset"} THEN req[r].code \in Code ELSE req[r].code = None
  /\ req[r].at \in {"setPassword", "verify", "spendLogin"} => req[r].key \in Key
  /\ req[r].at \in {"spend", "spendLogin"} => req[r].backup \in req[r].copy.backup
  /\ req[r].at = "setup" => ~req[r].copy.enabled
  /\ req[r].at = "enable" => req[r].copy.secret \in Secret

LocalsAreOK == \A r \in Req : LocalsOK(r)

\* A key that was taken is held by one request, until it grants something.
Holds(r) == req[r].at \in {"setPassword", "verify", "spendLogin"}

KeysOK ==
  /\ \A k \in Key : key[k].state # "gone" => uses[k] = 0
  /\ \A r \in Req : Holds(r) => key[req[r].key].state = "gone" /\ uses[req[r].key] = 0
  /\ \A q, r \in Req : q # r /\ Holds(q) /\ Holds(r) => req[q].key # req[r].key

\* Requests that are about to create a code know of each other, and the codes that
\* are unused by then come from such requests.
Unused(c) == code[c].state = "unused"

CreatorsOK ==
  /\ \A q, r \in Req : q # r /\ At(q, "create") /\ At(r, "create") => req[r].over
  /\ \A r \in Req, c \in Code : At(r, "create") /\ Unused(c) => code[c].crowded /\ req[r].over
  /\ \A c, d \in Code : c # d /\ Unused(c) /\ Unused(d) => code[c].crowded

\* Requests that buy a token for the same code know of each other and of the tokens
\* it has bought.
Buys(r, c) == req[r].at \in {"mark", "setReset"} /\ req[r].code = c

BuyersOK ==
  /\ \A r \in Req : At(r, "setReset") => code[req[r].code].state = "used"
  /\ \A r \in Req : At(r, "mark") => code[req[r].code].state # "absent"
  /\ \A k \in Key : key[k].from # None => code[key[k].from].state = "used"
  /\ \A k \in Key : key[k].state = "absent" => key[k].from = None
  /\ \A c \in Code, q, r \in Req : q # r /\ Buys(q, c) /\ Buys(r, c) => req[r].over
  /\ \A c \in Code, r \in Req, k \in Key :
       Buys(r, c) /\ key[k].from = c => req[r].over /\ key[k].raced
  /\ \A k, l \in Key : k # l /\ key[k].from # None /\ key[l].from = key[k].from => key[k].raced

\* The list holds codes that were handed out and not accepted.
BackupOK ==
  ~stale =>
    /\ factor.backup \subseteq shown
    /\ \A b \in Backup : /\ b \notin shown => accepted[b] = 0
                         /\ b \in factor.backup => accepted[b] = 0
                         /\ accepted[b] <= 1

CredInv == TypeOK /\ LocalsAreOK

-----------------------------------------------------------------------------
(***************************************************************************)
(* Types, and what the handlers hold.                                      *)
(***************************************************************************)
Label == {"start", "create", "mark", "setReset", "setPassword", "setup", "enable",
          "spend", "clear", "setTicket", "verify", "spendLogin", "end"}

\* Assigning a request a well-formed state is well-typed and changes no other.
LEMMA BecomeIs ==
  ASSUME req \in [Req -> Request], NEW r \in Req, NEW x \in Request, Become(r, x)
  PROVE  /\ req' \in [Req -> Request]
         /\ req'[r] = x
         /\ \A q \in Req : q # r => req'[q] = req[q]
  BY DEF Become

\* A request without locals is well-formed at every step.
LEMMA IdleIs ==
  ASSUME NEW l \in Label
  PROVE  /\ Idle \in Request /\ [Idle EXCEPT !.at = l] \in Request
         /\ [Idle EXCEPT !.at = l].at = l /\ [Idle EXCEPT !.at = l].code = None
         /\ [Idle EXCEPT !.at = l].over = FALSE
         /\ Idle.code = None /\ Idle.at = "start"
  BY DEF Idle, Request, Off, Factor, Label

\* Starting beside others is well-typed and changes only who knows of whom.
LEMMA BesideIs ==
  ASSUME req \in [Req -> Request], NEW r \in Req, NEW x \in Request,
         NEW others \in SUBSET Req, r \notin others, StartBeside(r, x, others)
  PROVE  /\ req' \in [Req -> Request]
         /\ req'[r] = [x EXCEPT !.over = others # {}]
         /\ \A q \in others : req'[q] = [req[q] EXCEPT !.over = TRUE]
         /\ \A q \in Req \ {r} : q \notin others => req'[q] = req[q]
  <1>1. [x EXCEPT !.over = others # {}] \in Request
    BY DEF Request
  <1>2. \A q \in Req : [req[q] EXCEPT !.over = TRUE] \in Request
    BY DEF Request
  <1> QED
    BY <1>1, <1>2 DEF StartBeside

\* SetKey sets one key that was absent.
LEMMA SetKeyIs ==
  ASSUME TypeOK, NEW r \in Req, NEW kind \in {"reset", "ticket", "socket"}, SetKey(r, kind)
  PROVE  /\ key' \in [Key -> KeyRow]
         /\ \E k \in Key : /\ key[k].state = "absent" /\ key'[k].state = "live"
                           /\ key'[k].from = req[r].code /\ key'[k].raced = req[r].over
                           /\ \A l \in Key : l # k => key'[l] = key[l]
  <1>1. PICK k \in Key :
          /\ key[k].state = "absent"
          /\ key' = [key EXCEPT ![k] = [state |-> "live", kind |-> kind, from |-> req[r].code,
                                        raced |-> req[r].over]]
    BY DEF SetKey
  <1>2. req[r] \in Request /\ key \in [Key -> KeyRow]
    BY DEF TypeOK
  <1>3. [state |-> "live", kind |-> kind, from |-> req[r].code, raced |-> req[r].over] \in KeyRow
    BY <1>2 DEF Request, KeyRow
  <1> QED
    BY <1>1, <1>2, <1>3

\* Taking or expiring a key changes nothing but its state.
LEMMA TakeKeyIs ==
  ASSUME TypeOK, NEW k \in Key, key' = [key EXCEPT ![k].state = "gone"]
  PROVE  /\ key' \in [Key -> KeyRow]
         /\ key'[k].state = "gone" /\ key'[k].from = key[k].from /\ key'[k].raced = key[k].raced
         /\ \A l \in Key : l # k => key'[l] = key[l]
  BY DEF TypeOK, KeyRow

\* A handler that ends holds nothing.
LEMMA EndsIs ==
  ASSUME req \in [Req -> Request], LocalsAreOK, NEW r \in Req, Ends(r)
  PROVE  /\ req' \in [Req -> Request] /\ LocalsAreOK'
         /\ req'[r].at = "end"
         /\ \A q \in Req : q # r => req'[q] = req[q]
  <1>1. "end" \in Label
    BY DEF Label
  <1>2. /\ req' \in [Req -> Request] /\ req'[r] = [Idle EXCEPT !.at = "end"]
        /\ \A q \in Req : q # r => req'[q] = req[q]
    BY <1>1, IdleIs, BecomeIs DEF Ends
  <1>3. req'[r].at = "end" /\ req'[r].code = None
    BY <1>1, <1>2, IdleIs
  <1> QED
    BY <1>2, <1>3 DEF LocalsAreOK, LocalsOK

\* A handler that moves on holds what its next step needs.
LEMMA LocalsKept ==
  ASSUME LocalsAreOK, NEW r \in Req, LocalsOK(r)',
         \A q \in Req : q # r => req'[q] = req[q]
  PROVE  LocalsAreOK'
  BY DEF LocalsAreOK, LocalsOK

\* Starting beside others leaves their locals alone.
LEMMA LocalsBeside ==
  ASSUME req \in [Req -> Request], LocalsAreOK, NEW r \in Req, NEW x \in Request,
         NEW others \in SUBSET Req, r \notin others, StartBeside(r, x, others),
         LocalsOK(r)'
  PROVE  LocalsAreOK'
  <1>1. \A q \in others : req'[q] = [req[q] EXCEPT !.over = TRUE]
    BY BesideIs
  <1>2. \A q \in Req \ {r} : q \notin others => req'[q] = req[q]
    BY BesideIs
  <1>3. ASSUME NEW q \in others PROVE LocalsOK(q)'
    <2>0. req[q] \in Request /\ req'[q] = [req[q] EXCEPT !.over = TRUE]
      BY <1>1, <1>3
    <2>1. /\ req'[q].at = req[q].at /\ req'[q].code = req[q].code /\ req'[q].key = req[q].key
          /\ req'[q].backup = req[q].backup /\ req'[q].copy = req[q].copy
      BY <2>0 DEF Request
    <2>2. LocalsOK(q)
      BY <1>3 DEF LocalsAreOK
    <2> QED
      BY <2>1, <2>2 DEF LocalsOK
  <1>4. ASSUME NEW q \in Req \ {r}, q \notin others PROVE LocalsOK(q)'
    BY <1>2, <1>4 DEF LocalsAreOK, LocalsOK
  <1> QED
    BY <1>3, <1>4 DEF LocalsAreOK

LEMMA InitCred == Init => CredInv
  <1> SUFFICES ASSUME Init PROVE CredInv
    OBVIOUS
  <1>1. req \in [Req -> Request] /\ LocalsAreOK
    <2>1. Idle \in Request /\ Idle.at = "start" /\ Idle.code = None
      BY DEF Idle, Request, Off, Factor
    <2>2. req = [r \in Req |-> Idle]
      BY DEF Init
    <2> QED
      BY <2>1, <2>2 DEF LocalsAreOK, LocalsOK
  <1>2. factor \in Factor /\ shown \subseteq Backup
    <2>1. PICK x \in Secret, b \in (SUBSET Backup) \ {{}} :
            factor \in {Off, [Off EXCEPT !.secret = x],
                       [secret |-> x, enabled |-> TRUE, backup |-> b]}
      BY DEF Init
    <2>a. Off \in Factor /\ [Off EXCEPT !.secret = x] \in Factor
      BY DEF Factor, Off
    <2>b. [secret |-> x, enabled |-> TRUE, backup |-> b] \in Factor
      BY DEF Factor
    <2>2. factor \in Factor
      BY <2>1, <2>a, <2>b
    <2>3. shown = factor.backup
      BY DEF Init
    <2> QED
      BY <2>2, <2>3 DEF Factor
  <1>3. code \in [Code -> CodeRow]
    <2>1. code \in [Code -> {NoCode, [NoCode EXCEPT !.state = "unused"]}]
      BY DEF Init
    <2>2. NoCode \in CodeRow /\ [NoCode EXCEPT !.state = "unused"] \in CodeRow
      BY DEF NoCode, CodeRow
    <2> QED
      BY <2>1, <2>2
  <1>4. key \in [Key -> KeyRow]
    <2>1. key \in [Key -> {NoKey} \cup {[NoKey EXCEPT !.state = "live", !.kind = kind] :
                                        kind \in {"reset", "ticket", "socket"}}]
      BY DEF Init
    <2>2. NoKey \in KeyRow
      BY DEF NoKey, KeyRow
    <2>3. ASSUME NEW kind \in {"reset", "ticket", "socket"}
          PROVE  [NoKey EXCEPT !.state = "live", !.kind = kind] \in KeyRow
      BY DEF NoKey, KeyRow
    <2> QED
      BY <2>1, <2>2, <2>3
  <1>5. proven \in Secret \cup {None}
    <2>1. proven = IF factor.enabled THEN factor.secret ELSE None
      BY DEF Init
    <2> QED
      BY <1>2, <2>1 DEF Factor
  <1>6. uses = [k \in Key |-> 0] /\ accepted = [b \in Backup |-> 0] /\ stale = FALSE
    BY DEF Init
  <1> QED
    BY <1>1, <1>2, <1>3, <1>4, <1>5, <1>6 DEF TypeOK, CredInv

\* The codes: creating one, retiring them, marking one as used or expired.
LEMMA CodeRows ==
  ASSUME code \in [Code -> CodeRow]
  PROVE  /\ \A c \in Code : [code[c] EXCEPT !.state = "used"] \in CodeRow
         /\ \A c \in Code : [code[c] EXCEPT !.expired = TRUE] \in CodeRow
  BY DEF CodeRow

\* The history of the factor is well-typed however it is written.
LEMMA SpendIs ==
  ASSUME TypeOK, NEW r \in Req, Spend(r), req[r].backup \in Backup
  PROVE  /\ factor' \in Factor /\ accepted' \in [Backup -> Nat] /\ stale' \in BOOLEAN
         /\ factor'.secret = factor.secret /\ factor'.enabled = factor.enabled
         /\ factor'.backup = req[r].copy.backup \ {req[r].backup}
  <1>1. req[r].copy.backup \subseteq Backup
    BY DEF TypeOK, Request, Factor
  <1>2. /\ factor' \in Factor
        /\ factor'.secret = factor.secret /\ factor'.enabled = factor.enabled
        /\ factor'.backup = req[r].copy.backup \ {req[r].backup}
    BY <1>1 DEF Spend, TypeOK, Factor
  <1>3. accepted' \in [Backup -> Nat]
    BY DEF Spend, TypeOK
  <1>4. stale' \in BOOLEAN
    BY DEF Spend, TypeOK
  <1> QED
    BY <1>2, <1>3, <1>4

\* Granting something for a key counts it.
LEMMA UsesIs ==
  ASSUME TypeOK, NEW k \in Key, uses' = [uses EXCEPT ![k] = @ + 1]
  PROVE  uses' \in [Key -> Nat]
  BY DEF TypeOK

\* A request that becomes x, whose locals are in order, leaves all locals in order.
LEMMA LocalsBecome ==
  ASSUME req \in [Req -> Request], LocalsAreOK, NEW r \in Req, NEW x \in Request, Become(r, x),
         IF x.at \in {"mark", "setReset"} THEN x.code \in Code ELSE x.code = None,
         x.at \in {"setPassword", "verify", "spendLogin"} => x.key \in Key,
         x.at \in {"spend", "spendLogin"} => x.backup \in x.copy.backup,
         x.at = "setup" => ~x.copy.enabled,
         x.at = "enable" => x.copy.secret \in Secret
  PROVE  req' \in [Req -> Request] /\ LocalsAreOK'
  <1>1. /\ req' \in [Req -> Request] /\ req'[r] = x
        /\ \A q \in Req : q # r => req'[q] = req[q]
    BY BecomeIs
  <1>2. LocalsOK(r)'
    BY <1>1 DEF LocalsOK
  <1> QED
    BY <1>1, <1>2, LocalsKept

\* Every step keeps the types and what the handlers hold.
LEMMA NextCred == CredInv /\ [Next]_vars => CredInv'
  <1> SUFFICES ASSUME TypeOK, LocalsAreOK, [Next]_vars PROVE TypeOK' /\ LocalsAreOK'
    BY DEF CredInv
  <1> USE DEF second
  <1>t. /\ code \in [Code -> CodeRow] /\ key \in [Key -> KeyRow] /\ uses \in [Key -> Nat]
        /\ factor \in Factor /\ shown \subseteq Backup /\ req \in [Req -> Request]
        /\ accepted \in [Backup -> Nat] /\ proven \in Secret \cup {None} /\ stale \in BOOLEAN
    BY DEF TypeOK
  <1>f. /\ factor.secret \in Secret \cup {None} /\ factor.enabled \in BOOLEAN
        /\ factor.backup \subseteq Backup
    BY <1>t DEF Factor
  <1>l. ASSUME NEW l \in Label \ {"mark", "setReset", "setPassword", "verify", "spendLogin",
                                  "spend", "setup", "enable"},
               NEW r \in Req, Become(r, [Idle EXCEPT !.at = l])
        PROVE  req' \in [Req -> Request] /\ LocalsAreOK'
    <2>1. [Idle EXCEPT !.at = l] \in Request /\ [Idle EXCEPT !.at = l].at = l
          /\ [Idle EXCEPT !.at = l].code = None
      BY <1>l, IdleIs
    <2> QED
      BY <1>t, <1>l, <2>1, LocalsBecome
  <1>1. ASSUME NEW r \in Req, ForgotPassword(r) PROVE TypeOK' /\ LocalsAreOK'
    <2> DEFINE x == [Idle EXCEPT !.at = "create"]
               others == {q \in Req : At(q, "create")}
    <2>1. x \in Request /\ x.at = "create" /\ x.code = None /\ r \notin others
      BY <1>1, IdleIs DEF Label, ForgotPassword, At
    <2>2. StartBeside(r, x, others)
      BY <1>1 DEF ForgotPassword
    <2>3. req' \in [Req -> Request] /\ req'[r] = [x EXCEPT !.over = others # {}]
      <3> HIDE DEF x, others
      <3>1. others \in SUBSET Req
        BY DEF others
      <3> QED
        BY <1>t, <2>1, <2>2, <3>1, BesideIs
    <2>4. LocalsOK(r)'
      <3> HIDE DEF x, others
      <3>1. req'[r].at = "create" /\ req'[r].code = None
        BY <2>1, <2>3 DEF Request
      <3> QED
        BY <3>1 DEF LocalsOK
    <2>5. LocalsAreOK'
      <3> HIDE DEF x, others
      <3>1. others \in SUBSET Req
        BY DEF others
      <3> QED
        BY <1>t, <2>1, <2>2, <2>4, <3>1, LocalsBeside
    <2>6. code' \in [Code -> CodeRow]
      BY <1>1, <1>t, CodeRows DEF ForgotPassword
    <2> QED
      BY <1>1, <1>t, <2>3, <2>5, <2>6 DEF ForgotPassword, TypeOK
  <1>2. ASSUME NEW r \in Req, CreateCode(r) PROVE TypeOK' /\ LocalsAreOK'
    <2>1. req' \in [Req -> Request] /\ LocalsAreOK'
      BY <1>2, <1>t, EndsIs DEF CreateCode
    <2>2. [state |-> "unused", expired |-> FALSE, crowded |-> req[r].over] \in CodeRow
      BY <1>t DEF CodeRow, Request
    <2>3. code' \in [Code -> CodeRow]
      BY <1>2, <1>t, <2>2 DEF CreateCode
    <2> QED
      BY <1>2, <1>t, <2>1, <2>3 DEF CreateCode, TypeOK
  <1>3. ASSUME NEW r \in Req, VerifyCode(r) PROVE TypeOK' /\ LocalsAreOK'
    <2>1. CASE Ends(r)
      BY <1>3, <1>t, <2>1, EndsIs DEF VerifyCode, TypeOK
    <2>2. ASSUME NEW c \in Code,
                 StartBeside(r, [Idle EXCEPT !.at = "mark", !.code = c],
                             {q \in Req : At(q, "mark") /\ req[q].code = c})
          PROVE  req' \in [Req -> Request] /\ LocalsAreOK'
      <3> DEFINE x == [Idle EXCEPT !.at = "mark", !.code = c]
                 others == {q \in Req : At(q, "mark") /\ req[q].code = c}
      <3>1. x \in Request /\ x.at = "mark" /\ x.code = c
        BY DEF Idle, Request, Off, Factor
      <3>2. r \notin others /\ others \in SUBSET Req
        BY <1>3 DEF VerifyCode, At
      <3>3. StartBeside(r, x, others)
        BY <2>2
      <3> HIDE DEF x, others
      <3>4. req' \in [Req -> Request] /\ req'[r] = [x EXCEPT !.over = others # {}]
        BY <1>t, <3>1, <3>2, <3>3, BesideIs
      <3>5. req'[r].at = "mark" /\ req'[r].code = c
        BY <3>1, <3>4 DEF Request
      <3>6. LocalsOK(r)'
        BY <3>5 DEF LocalsOK
      <3> QED
        BY <1>t, <3>1, <3>2, <3>3, <3>4, <3>6, LocalsBeside
    <2> QED
      BY <1>3, <1>t, <2>1, <2>2 DEF VerifyCode, TypeOK
  <1>4. ASSUME NEW r \in Req, MarkUsed(r) PROVE TypeOK' /\ LocalsAreOK'
    <2>1. req[r].code \in Code /\ req[r] \in Request
      BY <1>4, <1>t DEF MarkUsed, At, LocalsAreOK, LocalsOK
    <2>2. code' \in [Code -> CodeRow]
      BY <1>4, <1>t, <2>1, CodeRows DEF MarkUsed
    <2> DEFINE x == [req[r] EXCEPT !.at = "setReset"]
    <2>3. x \in Request /\ x.at = "setReset" /\ x.code \in Code
      BY <2>1 DEF Request
    <2>4. Become(r, x)
      BY <1>4 DEF MarkUsed
    <2>5. req' \in [Req -> Request] /\ LocalsAreOK'
      <3> HIDE DEF x
      <3> QED
        BY <1>t, <2>3, <2>4, LocalsBecome
    <2> QED
      BY <1>4, <1>t, <2>2, <2>5 DEF MarkUsed, TypeOK
  <1>5. ASSUME NEW r \in Req, SetResetToken(r) PROVE TypeOK' /\ LocalsAreOK'
    <2>1. req' \in [Req -> Request] /\ LocalsAreOK'
      BY <1>5, <1>t, EndsIs DEF SetResetToken
    <2>2. key' \in [Key -> KeyRow]
      BY <1>5, SetKeyIs DEF SetResetToken
    <2> QED
      BY <1>5, <1>t, <2>1, <2>2 DEF SetResetToken, TypeOK
  <1>6. ASSUME NEW r \in Req, ResetPassword(r) PROVE TypeOK' /\ LocalsAreOK'
    <2>1. CASE Ends(r) /\ UNCHANGED key
      BY <1>6, <1>t, <2>1, EndsIs DEF ResetPassword, TypeOK
    <2>2. ASSUME NEW k \in Key, key' = [key EXCEPT ![k].state = "gone"],
                 Become(r, [Idle EXCEPT !.at = "setPassword", !.key = k])
          PROVE  key' \in [Key -> KeyRow] /\ req' \in [Req -> Request] /\ LocalsAreOK'
      <3> DEFINE x == [Idle EXCEPT !.at = "setPassword", !.key = k]
      <3>1. x \in Request /\ x.at = "setPassword" /\ x.code = None /\ x.key = k
        BY DEF Idle, Request, Off, Factor
      <3>2. Become(r, x)
        BY <2>2
      <3> HIDE DEF x
      <3> QED
        BY <1>t, <2>2, <3>1, <3>2, LocalsBecome, TakeKeyIs
    <2> QED
      BY <1>6, <1>t, <2>1, <2>2 DEF ResetPassword, TypeOK
  <1>7. ASSUME NEW r \in Req, SetPassword(r) PROVE TypeOK' /\ LocalsAreOK'
    <2>1. req' \in [Req -> Request] /\ LocalsAreOK'
      BY <1>7, <1>t, EndsIs DEF SetPassword
    <2>2. req[r].key \in Key
      BY <1>7 DEF SetPassword, At, LocalsAreOK, LocalsOK
    <2>3. uses' \in [Key -> Nat]
      BY <1>7, <2>2, UsesIs DEF SetPassword
    <2> QED
      BY <1>7, <1>t, <2>1, <2>3 DEF SetPassword, TypeOK
  <1>8. ASSUME NEW r \in Req, SetupRead(r) PROVE TypeOK' /\ LocalsAreOK'
    <2>1. CASE factor.enabled
      BY <1>8, <1>t, <2>1, EndsIs DEF SetupRead, TypeOK
    <2>2. CASE ~factor.enabled
      <3> DEFINE x == [Idle EXCEPT !.at = "setup", !.copy = factor]
      <3>1. x \in Request /\ x.at = "setup" /\ x.code = None /\ ~x.copy.enabled
        BY <1>t, <2>2 DEF Idle, Request, Off, Factor
      <3>2. Become(r, x)
        BY <1>8, <2>2 DEF SetupRead
      <3>3. req' \in [Req -> Request] /\ LocalsAreOK'
        <4> HIDE DEF x
        <4> QED
          BY <1>t, <3>1, <3>2, LocalsBecome
      <3> QED
        BY <1>8, <1>t, <3>3 DEF SetupRead, TypeOK
    <2> QED
      BY <2>1, <2>2
  <1>9. ASSUME NEW r \in Req, SetupWrite(r) PROVE TypeOK' /\ LocalsAreOK'
    <2>1. req' \in [Req -> Request] /\ LocalsAreOK'
      BY <1>9, <1>t, EndsIs DEF SetupWrite
    <2>2. factor' \in Factor
      BY <1>9, <1>t DEF SetupWrite, Factor
    <2>3. stale' \in BOOLEAN
      BY <1>9, <1>t DEF SetupWrite
    <2> QED
      BY <1>9, <1>t, <2>1, <2>2, <2>3 DEF SetupWrite, TypeOK
  <1>10. ASSUME NEW r \in Req, EnableRead(r) PROVE TypeOK' /\ LocalsAreOK'
    <2>1. CASE Ends(r)
      BY <1>10, <1>t, <2>1, EndsIs DEF EnableRead, TypeOK
    <2>2. CASE /\ ~factor.enabled /\ factor.secret # None
               /\ Become(r, [Idle EXCEPT !.at = "enable", !.copy = factor])
      <3> DEFINE x == [Idle EXCEPT !.at = "enable", !.copy = factor]
      <3>1. x \in Request /\ x.at = "enable" /\ x.code = None /\ x.copy.secret \in Secret
        BY <1>t, <1>f, <2>2 DEF Idle, Request, Off
      <3>2. Become(r, x)
        BY <2>2
      <3>3. req' \in [Req -> Request] /\ LocalsAreOK'
        <4> HIDE DEF x
        <4> QED
          BY <1>t, <3>1, <3>2, LocalsBecome
      <3> QED
        BY <1>10, <1>t, <3>3 DEF EnableRead, TypeOK
    <2> QED
      BY <1>10, <2>1, <2>2 DEF EnableRead
  <1>11. ASSUME NEW r \in Req, EnableWrite(r) PROVE TypeOK' /\ LocalsAreOK'
    <2>1. req' \in [Req -> Request] /\ LocalsAreOK'
      BY <1>11, <1>t, EndsIs DEF EnableWrite
    <2>2. factor' \in Factor /\ shown' \subseteq Backup
      BY <1>11, <1>t DEF EnableWrite, Factor
    <2>3. proven' \in Secret \cup {None}
      BY <1>11 DEF EnableWrite, At, LocalsAreOK, LocalsOK
    <2>4. stale' \in BOOLEAN
      BY <1>11, <1>t, <1>f DEF EnableWrite
    <2> QED
      BY <1>11, <1>t, <2>1, <2>2, <2>3, <2>4 DEF EnableWrite, TypeOK
  <1>12. ASSUME NEW r \in Req, DisableRead(r) PROVE TypeOK' /\ LocalsAreOK'
    <2>1. CASE Ends(r)
      BY <1>12, <1>t, <2>1, EndsIs DEF DisableRead, TypeOK
    <2>2. CASE Become(r, [Idle EXCEPT !.at = "clear", !.copy = factor])
      <3> DEFINE x == [Idle EXCEPT !.at = "clear", !.copy = factor]
      <3>1. x \in Request /\ x.at = "clear" /\ x.code = None
        BY <1>t DEF Idle, Request, Off
      <3>2. Become(r, x)
        BY <2>2
      <3>3. req' \in [Req -> Request] /\ LocalsAreOK'
        <4> HIDE DEF x
        <4> QED
          BY <1>t, <3>1, <3>2, LocalsBecome
      <3> QED
        BY <1>12, <1>t, <3>3 DEF DisableRead, TypeOK
    <2>3. ASSUME NEW b \in factor.backup,
                 Become(r, [Idle EXCEPT !.at = "spend", !.copy = factor, !.backup = b])
          PROVE  TypeOK' /\ LocalsAreOK'
      <3> DEFINE x == [Idle EXCEPT !.at = "spend", !.copy = factor, !.backup = b]
      <3>1. x \in Request /\ x.at = "spend" /\ x.code = None /\ x.backup \in x.copy.backup
        BY <1>t, <1>f, <2>3 DEF Idle, Request, Off
      <3>2. Become(r, x)
        BY <2>3
      <3>3. req' \in [Req -> Request] /\ LocalsAreOK'
        <4> HIDE DEF x
        <4> QED
          BY <1>t, <3>1, <3>2, LocalsBecome
      <3> QED
        BY <1>12, <1>t, <3>3 DEF DisableRead, TypeOK
    <2> QED
      BY <1>12, <2>1, <2>2, <2>3 DEF DisableRead
  <1>13. ASSUME NEW r \in Req, SpendAndDisable(r) PROVE TypeOK' /\ LocalsAreOK'
    <2>1. req[r] \in Request /\ req[r].backup \in Backup /\ req[r].code = None
      BY <1>13, <1>t DEF SpendAndDisable, At, LocalsAreOK, LocalsOK, Request, Factor
    <2>2. factor' \in Factor /\ accepted' \in [Backup -> Nat] /\ stale' \in BOOLEAN
      BY <1>13, <2>1, SpendIs DEF SpendAndDisable
    <2> DEFINE x == [req[r] EXCEPT !.at = "clear"]
    <2>3. x \in Request /\ x.at = "clear" /\ x.code = None
      BY <2>1 DEF Request
    <2>4. Become(r, x)
      BY <1>13 DEF SpendAndDisable
    <2>5. req' \in [Req -> Request] /\ LocalsAreOK'
      <3> HIDE DEF x
      <3> QED
        BY <1>t, <2>3, <2>4, LocalsBecome
    <2> QED
      BY <1>13, <1>t, <2>2, <2>5 DEF SpendAndDisable, TypeOK
  <1>14. ASSUME NEW r \in Req, Clear(r) PROVE TypeOK' /\ LocalsAreOK'
    <2>1. req' \in [Req -> Request] /\ LocalsAreOK'
      BY <1>14, <1>t, EndsIs DEF Clear
    <2>2. factor' \in Factor
      BY <1>14 DEF Clear, Off, Factor
    <2> QED
      BY <1>14, <1>t, <2>1, <2>2 DEF Clear, TypeOK
  <1>15. ASSUME NEW r \in Req, Login(r) PROVE TypeOK' /\ LocalsAreOK'
    <2>1. CASE Ends(r)
      BY <1>15, <1>t, <2>1, EndsIs DEF Login, TypeOK
    <2>2. CASE Become(r, [Idle EXCEPT !.at = "setTicket"])
      <3>1. req' \in [Req -> Request] /\ LocalsAreOK'
        BY <1>l, <2>2 DEF Label
      <3> QED
        BY <1>15, <1>t, <3>1 DEF Login, TypeOK
    <2> QED
      BY <1>15, <2>1, <2>2 DEF Login
  <1>16. ASSUME NEW r \in Req, SetTicket(r) PROVE TypeOK' /\ LocalsAreOK'
    <2>1. req' \in [Req -> Request] /\ LocalsAreOK'
      BY <1>16, <1>t, EndsIs DEF SetTicket
    <2>2. key' \in [Key -> KeyRow]
      BY <1>16, SetKeyIs DEF SetTicket
    <2> QED
      BY <1>16, <1>t, <2>1, <2>2 DEF SetTicket, TypeOK
  <1>17. ASSUME NEW r \in Req, BurnTicket(r) PROVE TypeOK' /\ LocalsAreOK'
    <2>1. CASE Ends(r) /\ UNCHANGED key
      BY <1>17, <1>t, <2>1, EndsIs DEF BurnTicket, TypeOK
    <2>2. ASSUME NEW k \in Key, key' = [key EXCEPT ![k].state = "gone"],
                 Become(r, [Idle EXCEPT !.at = "verify", !.key = k])
          PROVE  key' \in [Key -> KeyRow] /\ req' \in [Req -> Request] /\ LocalsAreOK'
      <3> DEFINE x == [Idle EXCEPT !.at = "verify", !.key = k]
      <3>1. x \in Request /\ x.at = "verify" /\ x.code = None /\ x.key = k
        BY DEF Idle, Request, Off, Factor
      <3>2. Become(r, x)
        BY <2>2
      <3> HIDE DEF x
      <3> QED
        BY <1>t, <2>2, <3>1, <3>2, LocalsBecome, TakeKeyIs
    <2> QED
      BY <1>17, <1>t, <2>1, <2>2 DEF BurnTicket, TypeOK
  <1>18. ASSUME NEW r \in Req, Verify2fa(r) PROVE TypeOK' /\ LocalsAreOK'
    <2>0. req[r] \in Request /\ req[r].key \in Key /\ req[r].code = None
      BY <1>18, <1>t DEF Verify2fa, At, LocalsAreOK, LocalsOK
    <2>1. CASE Ends(r) /\ UNCHANGED uses
      BY <1>18, <1>t, <2>1, EndsIs DEF Verify2fa, TypeOK
    <2>2. CASE uses' = [uses EXCEPT ![req[r].key] = @ + 1] /\ Ends(r)
      <3>1. uses' \in [Key -> Nat]
        BY <2>0, <2>2, UsesIs
      <3> QED
        BY <1>18, <1>t, <2>2, <3>1, EndsIs DEF Verify2fa, TypeOK
    <2>3. ASSUME NEW b \in factor.backup, UNCHANGED uses,
                 Become(r, [req[r] EXCEPT !.at = "spendLogin", !.copy = factor, !.backup = b])
          PROVE  TypeOK' /\ LocalsAreOK'
      <3> DEFINE x == [req[r] EXCEPT !.at = "spendLogin", !.copy = factor, !.backup = b]
      <3>1. /\ x \in Request /\ x.at = "spendLogin" /\ x.code = None
            /\ x.key \in Key /\ x.backup \in x.copy.backup
        BY <1>t, <1>f, <2>0, <2>3 DEF Request
      <3>2. Become(r, x)
        BY <2>3
      <3>3. req' \in [Req -> Request] /\ LocalsAreOK'
        <4> HIDE DEF x
        <4> QED
          BY <1>t, <3>1, <3>2, LocalsBecome
      <3> QED
        BY <1>18, <1>t, <2>3, <3>3 DEF Verify2fa, TypeOK
    <2> QED
      BY <1>18, <2>1, <2>2, <2>3 DEF Verify2fa
  <1>19. ASSUME NEW r \in Req, SpendAndLogin(r) PROVE TypeOK' /\ LocalsAreOK'
    <2>1. req[r] \in Request /\ req[r].backup \in Backup /\ req[r].key \in Key
      BY <1>19, <1>t DEF SpendAndLogin, At, LocalsAreOK, LocalsOK, Request, Factor
    <2>2. factor' \in Factor /\ accepted' \in [Backup -> Nat] /\ stale' \in BOOLEAN
      BY <1>19, <2>1, SpendIs DEF SpendAndLogin
    <2>3. uses' \in [Key -> Nat]
      BY <1>19, <1>t, <2>1, UsesIs DEF SpendAndLogin
    <2>4. req' \in [Req -> Request] /\ LocalsAreOK'
      BY <1>19, <1>t, EndsIs DEF SpendAndLogin
    <2> QED
      BY <1>19, <1>t, <2>2, <2>3, <2>4 DEF SpendAndLogin, TypeOK
  <1>20. ASSUME NEW r \in Req, IssueSocketTicket(r) PROVE TypeOK' /\ LocalsAreOK'
    <2>1. req' \in [Req -> Request] /\ LocalsAreOK'
      BY <1>20, <1>t, EndsIs DEF IssueSocketTicket
    <2>2. key' \in [Key -> KeyRow]
      BY <1>20, SetKeyIs DEF IssueSocketTicket
    <2> QED
      BY <1>20, <1>t, <2>1, <2>2 DEF IssueSocketTicket, TypeOK
  <1>21. ASSUME NEW r \in Req, BurnSocketTicket(r) PROVE TypeOK' /\ LocalsAreOK'
    <2>1. req' \in [Req -> Request] /\ LocalsAreOK'
      BY <1>21, <1>t, EndsIs DEF BurnSocketTicket
    <2>2. key' \in [Key -> KeyRow] /\ uses' \in [Key -> Nat]
      BY <1>21, <1>t, TakeKeyIs, UsesIs DEF BurnSocketTicket
    <2> QED
      BY <1>21, <1>t, <2>1, <2>2 DEF BurnSocketTicket, TypeOK
  <1>22. ASSUME NEW r \in Req, Fail(r) PROVE TypeOK' /\ LocalsAreOK'
    BY <1>22, <1>t, EndsIs DEF Fail, TypeOK
  <1>23. ASSUME NEW k \in Key, ExpireKey(k) PROVE TypeOK' /\ LocalsAreOK'
    <2>1. key' \in [Key -> KeyRow]
      BY <1>23, TakeKeyIs DEF ExpireKey
    <2> QED
      BY <1>23, <1>t, <2>1 DEF ExpireKey, TypeOK, LocalsAreOK, LocalsOK
  <1>24. ASSUME NEW c \in Code, ExpireCode(c) PROVE TypeOK' /\ LocalsAreOK'
    <2>1. code' \in [Code -> CodeRow]
      BY <1>24, <1>t, CodeRows DEF ExpireCode
    <2> QED
      BY <1>24, <1>t, <2>1 DEF ExpireCode, TypeOK, LocalsAreOK, LocalsOK
  <1>25. CASE UNCHANGED vars
    BY <1>25, <1>t DEF vars, TypeOK, LocalsAreOK, LocalsOK
  <1> QED
    BY <1>1, <1>2, <1>3, <1>4, <1>5, <1>6, <1>7, <1>8, <1>9, <1>10, <1>11, <1>12, <1>13, <1>14,
       <1>15, <1>16, <1>17, <1>18, <1>19, <1>20, <1>21, <1>22, <1>23, <1>24, <1>25 DEF Next

\* Every reachable state has its type, whatever the handlers of AuthService and
\* SocketService interleave to.
THEOREM TypeCorrect == Spec => []TypeOK
  <1>1. Init => CredInv
    BY InitCred
  <1>2. CredInv /\ [Next]_vars => CredInv'
    BY NextCred
  <1>3. CredInv => TypeOK
    BY DEF CredInv
  <1> QED
    BY <1>1, <1>2, <1>3, PTL DEF Spec

LEMMA CredAlways == Spec => []CredInv
  BY InitCred, NextCred, PTL DEF Spec

-----------------------------------------------------------------------------
(***************************************************************************)
(* How the requests move.                                                  *)
(***************************************************************************)
Same(q) == /\ req'[q].at = req[q].at /\ req'[q].code = req[q].code
           /\ req'[q].key = req[q].key /\ req'[q].over = req[q].over

\* The request that moves is what it becomes, the others stay what they are.
LEMMA BecomeMoves ==
  ASSUME req \in [Req -> Request], NEW r \in Req, NEW x, Become(r, x)
  PROVE  req'[r] = x /\ \A q \in Req : q # r => Same(q)
  BY DEF Become, Same

LEMMA EndsMoves ==
  ASSUME req \in [Req -> Request], NEW r \in Req, Ends(r)
  PROVE  /\ req'[r].at = "end" /\ req'[r].code = None
         /\ \A q \in Req : q # r => Same(q)
  BY BecomeMoves DEF Ends, Idle

\* Those it starts beside learn of it, and it of them.
LEMMA BesideMoves ==
  ASSUME req \in [Req -> Request], NEW r \in Req, NEW x \in Request,
         NEW others \in SUBSET Req, r \notin others, StartBeside(r, x, others)
  PROVE  /\ req'[r].at = x.at /\ req'[r].code = x.code /\ req'[r].key = x.key
         /\ others # {} => req'[r].over
         /\ \A q \in others : req'[q].over
         /\ \A q \in Req : q # r => /\ req'[q].at = req[q].at /\ req'[q].code = req[q].code
                                    /\ req'[q].key = req[q].key
                                    /\ req[q].over => req'[q].over
  <1>1. req'[r] = [x EXCEPT !.over = others # {}]
    BY BesideIs
  <1>2. \A q \in Req \ {r} : q \notin others => req'[q] = req[q]
    BY BesideIs
  <1>3. ASSUME NEW q \in others
        PROVE  /\ req'[q].at = req[q].at /\ req'[q].code = req[q].code
               /\ req'[q].key = req[q].key /\ req'[q].over
    <2>1. req'[q] = [req[q] EXCEPT !.over = TRUE] /\ req[q] \in Request
      BY <1>3, BesideIs
    <2> QED
      BY <2>1 DEF Request
  <1>4. /\ req'[r].at = x.at /\ req'[r].code = x.code /\ req'[r].key = x.key
        /\ others # {} => req'[r].over
    BY <1>1 DEF Request
  <1> QED
    BY <1>2, <1>3, <1>4

\* The start of forgotPassword and verifyCode.
LEMMA ForgotMoves ==
  ASSUME TypeOK, NEW r \in Req, ForgotPassword(r)
  PROVE  /\ req'[r].at = "create" /\ req'[r].code = None
         /\ \A q \in Req : q # r => /\ req'[q].at = req[q].at /\ req'[q].code = req[q].code
                                    /\ req'[q].key = req[q].key
                                    /\ req[q].over => req'[q].over
                                    /\ At(q, "create") => req'[q].over /\ req'[r].over
  <1> DEFINE x == [Idle EXCEPT !.at = "create"]
             others == {q \in Req : At(q, "create")}
  <1>1. x \in Request /\ x.at = "create" /\ x.code = None
    BY IdleIs DEF Label
  <1>2. r \notin others /\ others \in SUBSET Req /\ StartBeside(r, x, others)
    BY DEF ForgotPassword, At
  <1>3. req \in [Req -> Request]
    BY DEF TypeOK
  <1>4. \A q \in Req : At(q, "create") => q \in others
    OBVIOUS
  <1> HIDE DEF x, others
  <1>5. /\ req'[r].at = x.at /\ req'[r].code = x.code
        /\ others # {} => req'[r].over
        /\ \A q \in others : req'[q].over
        /\ \A q \in Req : q # r => /\ req'[q].at = req[q].at /\ req'[q].code = req[q].code
                                   /\ req'[q].key = req[q].key
                                   /\ req[q].over => req'[q].over
    BY <1>1, <1>2, <1>3, BesideMoves
  <1> QED
    BY <1>1, <1>4, <1>5

LEMMA VerifyMoves ==
  ASSUME TypeOK, NEW r \in Req, VerifyCode(r)
  PROVE  \/ /\ req'[r].at = "end" /\ req'[r].code = None
            /\ \A q \in Req : q # r => Same(q)
         \/ \E c \in Code :
              /\ Usable(c) /\ req'[r].at = "mark" /\ req'[r].code = c
              /\ \A q \in Req : q # r =>
                   /\ req'[q].at = req[q].at /\ req'[q].code = req[q].code
                   /\ req'[q].key = req[q].key
                   /\ req[q].over => req'[q].over
                   /\ At(q, "mark") /\ req[q].code = c => req'[q].over /\ req'[r].over
  <1>1. req \in [Req -> Request]
    BY DEF TypeOK
  <1>2. CASE Ends(r)
    BY <1>1, <1>2, EndsMoves
  <1>3. ASSUME NEW c \in Code, Usable(c),
               StartBeside(r, [Idle EXCEPT !.at = "mark", !.code = c],
                           {q \in Req : At(q, "mark") /\ req[q].code = c})
        PROVE  /\ Usable(c) /\ req'[r].at = "mark" /\ req'[r].code = c
               /\ \A q \in Req : q # r =>
                    /\ req'[q].at = req[q].at /\ req'[q].code = req[q].code
                    /\ req'[q].key = req[q].key
                    /\ req[q].over => req'[q].over
                    /\ At(q, "mark") /\ req[q].code = c => req'[q].over /\ req'[r].over
    <2> DEFINE x == [Idle EXCEPT !.at = "mark", !.code = c]
               others == {q \in Req : At(q, "mark") /\ req[q].code = c}
    <2>1. x \in Request /\ x.at = "mark" /\ x.code = c
      BY DEF Idle, Request, Off, Factor
    <2>2. r \notin others /\ others \in SUBSET Req /\ StartBeside(r, x, others)
      BY <1>3 DEF VerifyCode, At
    <2>3. \A q \in Req : At(q, "mark") /\ req[q].code = c => q \in others
      OBVIOUS
    <2> HIDE DEF x, others
    <2>4. /\ req'[r].at = x.at /\ req'[r].code = x.code
          /\ others # {} => req'[r].over
          /\ \A q \in others : req'[q].over
          /\ \A q \in Req : q # r => /\ req'[q].at = req[q].at /\ req'[q].code = req[q].code
                                     /\ req'[q].key = req[q].key
                                     /\ req[q].over => req'[q].over
      BY <1>1, <2>1, <2>2, BesideMoves
    <2> QED
      BY <1>3, <2>1, <2>3, <2>4
  <1> QED
    BY <1>2, <1>3 DEF VerifyCode

\* The steps of the second factor move one request and buy nothing.
SecondStep(r) ==
  \/ SetupRead(r) \/ SetupWrite(r) \/ EnableRead(r) \/ EnableWrite(r) \/ DisableRead(r)
  \/ SpendAndDisable(r) \/ Clear(r) \/ Login(r)

LEMMA SecondMoves ==
  ASSUME CredInv, NEW r \in Req, SecondStep(r)
  PROVE  /\ req'[r].at \in {"setup", "enable", "spend", "clear", "setTicket", "end"}
         /\ \A q \in Req : q # r => Same(q)
         /\ UNCHANGED <<code, key, uses>>
  <1>1. req \in [Req -> Request] /\ req[r] \in Request
    BY DEF CredInv, TypeOK
  <1>2. CASE Ends(r)
    BY <1>1, <1>2, EndsMoves DEF SecondStep, SetupRead, SetupWrite, EnableRead, EnableWrite,
                                 DisableRead, SpendAndDisable, Clear, Login
  <1>3. ASSUME NEW x, Become(r, x), x.at \in {"setup", "enable", "spend", "clear", "setTicket"}
        PROVE  /\ req'[r].at \in {"setup", "enable", "spend", "clear", "setTicket", "end"}
               /\ \A q \in Req : q # r => Same(q)
    BY <1>1, <1>3, BecomeMoves
  <1>4. CASE SetupRead(r)
    BY <1>2, <1>3, <1>4 DEF SetupRead, Idle
  <1>5. CASE SetupWrite(r)
    BY <1>2, <1>5 DEF SetupWrite
  <1>6. CASE EnableRead(r)
    BY <1>2, <1>3, <1>6 DEF EnableRead, Idle
  <1>7. CASE EnableWrite(r)
    BY <1>2, <1>7 DEF EnableWrite
  <1>8. CASE DisableRead(r)
    BY <1>2, <1>3, <1>8 DEF DisableRead, Idle
  <1>9. CASE SpendAndDisable(r)
    <2>1. Become(r, [req[r] EXCEPT !.at = "clear"]) /\ UNCHANGED <<code, key, uses>>
      BY <1>9 DEF SpendAndDisable
    <2>2. [req[r] EXCEPT !.at = "clear"].at = "clear"
      BY <1>1 DEF Request
    <2> QED
      BY <1>3, <2>1, <2>2
  <1>10. CASE Clear(r)
    BY <1>2, <1>10 DEF Clear
  <1>11. CASE Login(r)
    BY <1>2, <1>3, <1>11 DEF Login, Idle
  <1> QED
    BY <1>4, <1>5, <1>6, <1>7, <1>8, <1>9, <1>10, <1>11 DEF SecondStep

-----------------------------------------------------------------------------
(***************************************************************************)
(* One-time keys.                                                          *)
(***************************************************************************)

\* A step that takes no key and grants nothing.
LEMMA KeysQuiet ==
  ASSUME KeysOK, UNCHANGED <<key, uses>>,
         \A q \in Req : Holds(q)' => Holds(q) /\ req'[q].key = req[q].key
  PROVE  KeysOK'
  BY DEF KeysOK, Holds

\* A request that ends releases the key it held; that key alone may have granted
\* something, and no key comes back.
LEMMA KeysReleased ==
  ASSUME TypeOK, KeysOK, NEW r \in Req, req'[r].at = "end",
         \A q \in Req : q # r => Same(q),
         \A k \in Key : key'[k].state # "gone" =>
           key[k].state # "gone" /\ uses'[k] = uses[k],
         \A q \in Req : q # r /\ Holds(q) =>
           key'[req[q].key].state = "gone" /\ uses'[req[q].key] = 0
  PROVE  KeysOK'
  <1>1. \A q \in Req : Holds(q)' => q # r /\ Holds(q) /\ req'[q].key = req[q].key
    BY DEF Holds, Same
  <1>2. \A k \in Key : key'[k].state # "gone" => uses'[k] = 0
    BY DEF KeysOK
  <1>3. \A q \in Req : Holds(q)' => key'[req'[q].key].state = "gone" /\ uses'[req'[q].key] = 0
    BY <1>1
  <1>4. \A p, q \in Req : p # q /\ Holds(p)' /\ Holds(q)' => req'[p].key # req'[q].key
    BY <1>1 DEF KeysOK
  <1> QED
    BY <1>2, <1>3, <1>4 DEF KeysOK, Holds

\* A request that takes a live key is the only one that holds it.
LEMMA KeysTaken ==
  ASSUME CredInv, KeysOK, NEW r \in Req, NEW k \in Key, key[k].state = "live",
         key' = [key EXCEPT ![k].state = "gone"], UNCHANGED uses,
         req'[r].at \in {"setPassword", "verify"}, req'[r].key = k,
         \A q \in Req : q # r => Same(q)
  PROVE  KeysOK'
  <1>1. /\ key'[k].state = "gone" /\ \A l \in Key : l # k => key'[l] = key[l]
    BY TakeKeyIs DEF CredInv
  <1>2. \A q \in Req : q # r /\ Holds(q)' => Holds(q) /\ req'[q].key = req[q].key
    BY DEF Holds, Same
  <1>3. \A q \in Req : Holds(q) => req[q].key \in Key /\ req[q].key # k
    BY DEF KeysOK, Holds, CredInv, LocalsAreOK, LocalsOK
  <1>4. \A l \in Key : key'[l].state # "gone" => uses'[l] = 0
    BY <1>1 DEF KeysOK
  <1>5. \A q \in Req : Holds(q)' => key'[req'[q].key].state = "gone" /\ uses'[req'[q].key] = 0
    <2>1. uses[k] = 0
      BY DEF KeysOK
    <2> QED
      BY <1>1, <1>2, <1>3, <2>1 DEF KeysOK
  <1>6. \A p, q \in Req : p # q /\ Holds(p)' /\ Holds(q)' => req'[p].key # req'[q].key
    BY <1>2, <1>3 DEF KeysOK
  <1> QED
    BY <1>4, <1>5, <1>6 DEF KeysOK, Holds

\* A new key has granted nothing.
LEMMA KeysSet ==
  ASSUME CredInv, KeysOK, NEW r \in Req, NEW kind \in {"reset", "ticket", "socket"},
         SetKey(r, kind), Ends(r), UNCHANGED uses
  PROVE  KeysOK'
  <1>1. TypeOK /\ req \in [Req -> Request]
    BY DEF CredInv, TypeOK
  <1>2. PICK k \in Key : /\ key[k].state = "absent" /\ key'[k].state = "live"
                         /\ \A l \in Key : l # k => key'[l] = key[l]
    BY <1>1, SetKeyIs
  <1>3. req'[r].at = "end" /\ \A q \in Req : q # r => Same(q)
    BY <1>1, EndsMoves
  <1>4. \A q \in Req : Holds(q) => req[q].key \in Key /\ req[q].key # k
    BY <1>2 DEF KeysOK, Holds, CredInv, LocalsAreOK, LocalsOK
  <1>5. \A l \in Key : key'[l].state # "gone" => key[l].state # "gone" /\ uses'[l] = uses[l]
    BY <1>2
  <1>6. \A q \in Req : q # r /\ Holds(q) =>
          key'[req[q].key].state = "gone" /\ uses'[req[q].key] = 0
    BY <1>2, <1>4 DEF KeysOK
  <1> QED
    BY <1>1, <1>3, <1>5, <1>6, KeysReleased

\* A holder that grants something once lets go of its key.
LEMMA KeysGranted ==
  ASSUME CredInv, KeysOK, NEW r \in Req, Holds(r), Ends(r), UNCHANGED key,
         uses' \in {uses, [uses EXCEPT ![req[r].key] = @ + 1]}
  PROVE  KeysOK'
  <1>1. TypeOK /\ req \in [Req -> Request] /\ uses \in [Key -> Nat]
    BY DEF CredInv, TypeOK
  <1>2. req'[r].at = "end" /\ \A q \in Req : q # r => Same(q)
    BY <1>1, EndsMoves
  <1>3. req[r].key \in Key /\ key[req[r].key].state = "gone"
    BY DEF KeysOK, Holds, CredInv, LocalsAreOK, LocalsOK
  <1>4. \A l \in Key : l # req[r].key => uses'[l] = uses[l]
    BY <1>1
  <1>5. \A l \in Key : key'[l].state # "gone" => key[l].state # "gone" /\ uses'[l] = uses[l]
    BY <1>3, <1>4
  <1>6. \A q \in Req : q # r /\ Holds(q) => req[q].key \in Key /\ req[q].key # req[r].key
    BY DEF KeysOK, Holds, CredInv, LocalsAreOK, LocalsOK
  <1>7. \A q \in Req : q # r /\ Holds(q) =>
          key'[req[q].key].state = "gone" /\ uses'[req[q].key] = 0
    BY <1>4, <1>6 DEF KeysOK
  <1> QED
    BY <1>1, <1>2, <1>5, <1>7, KeysReleased

LEMMA InitKeys == Init => KeysOK
  <1> SUFFICES ASSUME Init PROVE KeysOK
    OBVIOUS
  <1>1. uses = [k \in Key |-> 0] /\ req = [r \in Req |-> Idle]
    BY DEF Init
  <1> QED
    BY <1>1 DEF KeysOK, Holds, Idle

LEMMA NextKeys == CredInv /\ KeysOK /\ [Next]_vars => KeysOK'
  <1> SUFFICES ASSUME CredInv, KeysOK, [Next]_vars PROVE KeysOK'
    OBVIOUS
  <1>t. /\ TypeOK /\ req \in [Req -> Request] /\ key \in [Key -> KeyRow]
        /\ uses \in [Key -> Nat]
    BY DEF CredInv, TypeOK
  <1>q. ASSUME NEW r \in Req, ~Holds(r)', UNCHANGED <<key, uses>>,
               \A q \in Req : q # r => req'[q].at = req[q].at /\ req'[q].key = req[q].key
        PROVE  KeysOK'
    BY <1>q, KeysQuiet DEF Holds
  <1>1. ASSUME NEW r \in Req, ForgotPassword(r) PROVE KeysOK'
    <2>1. UNCHANGED <<key, uses>>
      BY <1>1 DEF ForgotPassword
    <2> QED
      BY <1>1, <1>t, <1>q, <2>1, ForgotMoves DEF Holds
  <1>2. ASSUME NEW r \in Req, Ends(r), UNCHANGED <<key, uses>> PROVE KeysOK'
    BY <1>2, <1>t, <1>q, EndsMoves DEF Holds, Same
  <1>3. ASSUME NEW r \in Req, VerifyCode(r) PROVE KeysOK'
    <2>1. UNCHANGED <<key, uses>>
      BY <1>3 DEF VerifyCode
    <2>2. /\ req'[r].at \in {"mark", "end"}
          /\ \A q \in Req : q # r => req'[q].at = req[q].at /\ req'[q].key = req[q].key
      BY <1>3, <1>t, VerifyMoves DEF Same
    <2> QED
      BY <1>q, <2>1, <2>2 DEF Holds
  <1>4. ASSUME NEW r \in Req, MarkUsed(r) PROVE KeysOK'
    <2>1. Become(r, [req[r] EXCEPT !.at = "setReset"]) /\ UNCHANGED <<key, uses>>
      BY <1>4 DEF MarkUsed
    <2>2. [req[r] EXCEPT !.at = "setReset"].at = "setReset"
      BY <1>t DEF Request
    <2>3. req'[r].at = "setReset" /\ \A q \in Req : q # r => Same(q)
      BY <1>t, <2>1, <2>2, BecomeMoves
    <2> QED
      BY <1>q, <2>1, <2>3 DEF Holds, Same
  <1>5. ASSUME NEW r \in Req, SetResetToken(r) \/ SetTicket(r) \/ IssueSocketTicket(r)
        PROVE  KeysOK'
    BY <1>5, KeysSet DEF SetResetToken, SetTicket, IssueSocketTicket
  <1>6. ASSUME NEW r \in Req, ResetPassword(r) PROVE KeysOK'
    <2>1. CASE Ends(r) /\ UNCHANGED key
      BY <1>2, <1>6, <2>1 DEF ResetPassword
    <2>2. ASSUME NEW k \in Key, Live(k, "reset"), key' = [key EXCEPT ![k].state = "gone"],
                 Become(r, [Idle EXCEPT !.at = "setPassword", !.key = k])
          PROVE  KeysOK'
      <3> DEFINE x == [Idle EXCEPT !.at = "setPassword", !.key = k]
      <3>a. x.at = "setPassword" /\ x.key = k
        BY DEF Idle
      <3>b. req'[r] = x /\ \A q \in Req : q # r => Same(q)
        BY <1>t, <2>2, BecomeMoves
      <3> HIDE DEF x
      <3>1. /\ req'[r].at = "setPassword" /\ req'[r].key = k
            /\ \A q \in Req : q # r => Same(q)
        BY <3>a, <3>b
      <3> QED
        BY <1>6, <2>2, <3>1, KeysTaken DEF Live, ResetPassword
    <2> QED
      BY <1>6, <2>1, <2>2 DEF ResetPassword
  <1>7. ASSUME NEW r \in Req, SetPassword(r) PROVE KeysOK'
    <2>1. Holds(r) /\ Ends(r) /\ UNCHANGED key /\ uses' = [uses EXCEPT ![req[r].key] = @ + 1]
      BY <1>7 DEF SetPassword, Holds, At
    <2> QED
      BY <2>1, KeysGranted
  <1>8. ASSUME NEW r \in Req, SecondStep(r) PROVE KeysOK'
    <2>1. /\ req'[r].at \in {"setup", "enable", "spend", "clear", "setTicket", "end"}
          /\ \A q \in Req : q # r => Same(q)
          /\ UNCHANGED <<code, key, uses>>
      BY <1>8, SecondMoves
    <2> QED
      BY <1>q, <2>1 DEF Holds, Same
  <1>9. ASSUME NEW r \in Req, BurnTicket(r) PROVE KeysOK'
    <2>1. CASE Ends(r) /\ UNCHANGED key
      BY <1>2, <1>9, <2>1 DEF BurnTicket
    <2>2. ASSUME NEW k \in Key, Live(k, "ticket"), key' = [key EXCEPT ![k].state = "gone"],
                 Become(r, [Idle EXCEPT !.at = "verify", !.key = k])
          PROVE  KeysOK'
      <3> DEFINE x == [Idle EXCEPT !.at = "verify", !.key = k]
      <3>a. x.at = "verify" /\ x.key = k
        BY DEF Idle
      <3>b. req'[r] = x /\ \A q \in Req : q # r => Same(q)
        BY <1>t, <2>2, BecomeMoves
      <3> HIDE DEF x
      <3>1. /\ req'[r].at = "verify" /\ req'[r].key = k
            /\ \A q \in Req : q # r => Same(q)
        BY <3>a, <3>b
      <3> QED
        BY <1>9, <2>2, <3>1, KeysTaken DEF Live, BurnTicket
    <2> QED
      BY <1>9, <2>1, <2>2 DEF BurnTicket
  <1>10. ASSUME NEW r \in Req, Verify2fa(r) PROVE KeysOK'
    <2>1. CASE Ends(r)
      <3>1. Holds(r) /\ UNCHANGED key
        BY <1>10 DEF Verify2fa, Holds, At
      <3>2. uses' \in {uses, [uses EXCEPT ![req[r].key] = @ + 1]} \/ UNCHANGED uses
        BY <1>10 DEF Verify2fa
      <3> QED
        BY <2>1, <3>1, <3>2, KeysGranted
    <2>2. ASSUME NEW b, UNCHANGED uses,
                 Become(r, [req[r] EXCEPT !.at = "spendLogin", !.copy = factor, !.backup = b])
          PROVE  KeysOK'
      <3> DEFINE x == [req[r] EXCEPT !.at = "spendLogin", !.copy = factor, !.backup = b]
      <3>1. x.at = "spendLogin" /\ x.key = req[r].key
        BY <1>t DEF Request
      <3>2. req'[r] = x /\ \A q \in Req : q # r => Same(q)
        BY <1>t, <2>2, BecomeMoves
      <3>3. Holds(r) /\ UNCHANGED key
        BY <1>10 DEF Verify2fa, Holds, At
      <3> HIDE DEF x
      <3>4. \A q \in Req : Holds(q)' => Holds(q) /\ req'[q].key = req[q].key
        BY <3>1, <3>2, <3>3 DEF Same, Holds
      <3> QED
        BY <2>2, <3>3, <3>4, KeysQuiet
    <2> QED
      BY <1>10, <2>1, <2>2 DEF Verify2fa
  <1>11. ASSUME NEW r \in Req, SpendAndLogin(r) PROVE KeysOK'
    <2>1. /\ Holds(r) /\ Ends(r) /\ UNCHANGED key
          /\ uses' \in {uses, [uses EXCEPT ![req[r].key] = @ + 1]}
      BY <1>11 DEF SpendAndLogin, Holds, At
    <2> QED
      BY <2>1, KeysGranted
  <1>12. ASSUME NEW r \in Req, BurnSocketTicket(r) PROVE KeysOK'
    <2>1. CASE UNCHANGED <<key, uses>>
      BY <1>2, <1>12, <2>1 DEF BurnSocketTicket
    <2>2. ASSUME NEW k \in Key, Live(k, "socket"), key' = [key EXCEPT ![k].state = "gone"],
                 uses' = [uses EXCEPT ![k] = @ + 1]
          PROVE  KeysOK'
      <3>1. key'[k].state = "gone" /\ \A l \in Key : l # k => key'[l] = key[l]
        BY <1>t, <2>2, TakeKeyIs
      <3>2. \A l \in Key : l # k => uses'[l] = uses[l]
        BY <1>t, <2>2
      <3>3. \A q \in Req : Holds(q) => req[q].key \in Key /\ req[q].key # k
        BY <2>2 DEF KeysOK, Holds, CredInv, LocalsAreOK, LocalsOK, Live
      <3>4. req'[r].at = "end" /\ \A q \in Req : q # r => Same(q)
        BY <1>12, <1>t, EndsMoves DEF BurnSocketTicket
      <3>5. \A l \in Key : key'[l].state # "gone" => key[l].state # "gone" /\ uses'[l] = uses[l]
        BY <3>1, <3>2
      <3>6. \A q \in Req : q # r /\ Holds(q) =>
              key'[req[q].key].state = "gone" /\ uses'[req[q].key] = 0
        BY <3>1, <3>2, <3>3 DEF KeysOK
      <3> QED
        BY <1>t, <3>4, <3>5, <3>6, KeysReleased
    <2> QED
      BY <1>12, <2>1, <2>2 DEF BurnSocketTicket
  <1>13. ASSUME NEW k \in Key, ExpireKey(k) PROVE KeysOK'
    <2>1. key'[k].state = "gone" /\ \A l \in Key : l # k => key'[l] = key[l]
      BY <1>13, <1>t, TakeKeyIs DEF ExpireKey
    <2>2. UNCHANGED <<uses, req>>
      BY <1>13 DEF ExpireKey
    <2>3. \A q \in Req : Holds(q) => req[q].key \in Key
      BY DEF Holds, CredInv, LocalsAreOK, LocalsOK
    <2> QED
      BY <2>1, <2>2, <2>3 DEF KeysOK, Holds
  <1>14. ASSUME NEW c \in Code, ExpireCode(c) PROVE KeysOK'
    BY <1>14 DEF ExpireCode, KeysOK, Holds
  <1>15. CASE UNCHANGED vars
    BY <1>15 DEF vars, KeysOK, Holds
  <1>16. ASSUME NEW r \in Req, CreateCode(r) \/ Fail(r) PROVE KeysOK'
    BY <1>2, <1>16 DEF CreateCode, Fail
  <1> QED
    BY <1>1, <1>3, <1>4, <1>5, <1>6, <1>7, <1>8, <1>9, <1>10, <1>11, <1>12, <1>13, <1>14,
       <1>15, <1>16 DEF Next, SecondStep

\* The keys that were handed out.
Known == {k \in Key : key[k].state # "absent"}

\* Each step hands out one key, lets one key grant something, or does neither.
LEMMA KeysStep ==
  ASSUME CredInv, KeysOK, [Next]_vars
  PROVE  [Keys!Next]_<<Known, uses>>
  <1>t. /\ TypeOK /\ req \in [Req -> Request] /\ key \in [Key -> KeyRow]
        /\ uses \in [Key -> Nat]
    BY DEF CredInv, TypeOK
  <1>k. ASSUME UNCHANGED <<key, uses>> PROVE UNCHANGED <<Known, uses>>
    BY <1>k DEF Known
  <1>g. ASSUME NEW r \in Req, Holds(r), UNCHANGED key,
               uses' \in {uses, [uses EXCEPT ![req[r].key] = @ + 1]}
        PROVE  [Keys!Next]_<<Known, uses>>
    <2>1. /\ req[r].key \in Key /\ key[req[r].key].state = "gone" /\ uses[req[r].key] = 0
      BY <1>g DEF KeysOK, Holds, CredInv, LocalsAreOK, LocalsOK
    <2>2. req[r].key \in Known /\ UNCHANGED Known
      BY <1>g, <2>1 DEF Known
    <2>3. CASE UNCHANGED uses
      BY <2>2, <2>3
    <2>4. CASE uses' = [uses EXCEPT ![req[r].key] = @ + 1]
      <3>1. uses' = [uses EXCEPT ![req[r].key] = 1]
        BY <1>t, <2>1, <2>4
      <3>2. Keys!Use(req[r].key)
        BY <2>1, <2>2, <3>1 DEF Keys!Use, Known
      <3> QED
        BY <2>1, <3>2 DEF Keys!Next
    <2> QED
      BY <1>g, <2>3, <2>4
  <1>s. ASSUME NEW r \in Req, NEW kind \in {"reset", "ticket", "socket"}, SetKey(r, kind),
               UNCHANGED uses
        PROVE  [Keys!Next]_<<Known, uses>>
    <2>1. PICK k \in Key : /\ key[k].state = "absent" /\ key'[k].state = "live"
                           /\ \A l \in Key : l # k => key'[l] = key[l]
      BY <1>s, <1>t, SetKeyIs
    <2>2. k \notin Known /\ Known' = Known \cup {k}
      BY <2>1 DEF Known
    <2>3. Keys!Issue(k)
      BY <1>s, <2>2 DEF Keys!Issue, Known
    <2> QED
      BY <2>3 DEF Keys!Next
  <1>h. ASSUME NEW k \in Key, key[k].state = "live", key' = [key EXCEPT ![k].state = "gone"]
        PROVE  UNCHANGED Known /\ k \in Known
    <2>1. key'[k].state = "gone" /\ \A l \in Key : l # k => key'[l] = key[l]
      BY <1>h, <1>t, TakeKeyIs
    <2> QED
      BY <1>h, <2>1 DEF Known
  <1>1. ASSUME NEW r \in Req, ForgotPassword(r) \/ CreateCode(r) \/ VerifyCode(r) \/ MarkUsed(r)
                              \/ Fail(r)
        PROVE  UNCHANGED <<Known, uses>>
    <2>1. UNCHANGED <<key, uses>>
      BY <1>1 DEF ForgotPassword, CreateCode, VerifyCode, MarkUsed, Fail
    <2> QED
      BY <1>k, <2>1
  <1>2. ASSUME NEW r \in Req, SecondStep(r) PROVE UNCHANGED <<Known, uses>>
    BY <1>2, <1>k, SecondMoves
  <1>3. ASSUME NEW r \in Req, SetResetToken(r) \/ SetTicket(r) \/ IssueSocketTicket(r)
        PROVE  [Keys!Next]_<<Known, uses>>
    BY <1>3, <1>s DEF SetResetToken, SetTicket, IssueSocketTicket
  <1>4. ASSUME NEW r \in Req, ResetPassword(r) \/ BurnTicket(r)
        PROVE  UNCHANGED <<Known, uses>>
    <2>1. UNCHANGED key \/ \E k \in Key : /\ key[k].state = "live"
                                          /\ key' = [key EXCEPT ![k].state = "gone"]
      BY <1>4 DEF ResetPassword, BurnTicket, Live
    <2>2. UNCHANGED uses
      BY <1>4 DEF ResetPassword, BurnTicket
    <2> QED
      BY <1>k, <1>h, <2>1, <2>2
  <1>5. ASSUME NEW r \in Req, SetPassword(r) \/ SpendAndLogin(r)
        PROVE  [Keys!Next]_<<Known, uses>>
    <2>1. /\ Holds(r) /\ UNCHANGED key
          /\ uses' \in {uses, [uses EXCEPT ![req[r].key] = @ + 1]}
      BY <1>5 DEF SetPassword, SpendAndLogin, Holds, At
    <2> QED
      BY <1>g, <2>1
  <1>6. ASSUME NEW r \in Req, Verify2fa(r) PROVE [Keys!Next]_<<Known, uses>>
    <2>1. /\ Holds(r) /\ UNCHANGED key
          /\ uses' \in {uses, [uses EXCEPT ![req[r].key] = @ + 1]}
      BY <1>6 DEF Verify2fa, Holds, At
    <2> QED
      BY <1>g, <2>1
  <1>7. ASSUME NEW r \in Req, BurnSocketTicket(r) PROVE [Keys!Next]_<<Known, uses>>
    <2>1. CASE UNCHANGED <<key, uses>>
      BY <1>k, <2>1
    <2>2. ASSUME NEW k \in Key, Live(k, "socket"), key' = [key EXCEPT ![k].state = "gone"],
                 uses' = [uses EXCEPT ![k] = @ + 1]
          PROVE  [Keys!Next]_<<Known, uses>>
      <3>1. UNCHANGED Known /\ k \in Known
        BY <1>h, <2>2 DEF Live
      <3>2. uses[k] = 0
        BY <2>2 DEF KeysOK, Live
      <3>3. uses' = [uses EXCEPT ![k] = 1]
        BY <1>t, <2>2, <3>2
      <3>4. Keys!Use(k)
        BY <3>1, <3>2, <3>3 DEF Keys!Use, Known
      <3> QED
        BY <3>4 DEF Keys!Next
    <2> QED
      BY <1>7, <2>1, <2>2 DEF BurnSocketTicket
  <1>8. ASSUME NEW k \in Key, ExpireKey(k) PROVE UNCHANGED <<Known, uses>>
    BY <1>8, <1>h DEF ExpireKey
  <1>9. ASSUME NEW c \in Code, ExpireCode(c) PROVE UNCHANGED <<Known, uses>>
    BY <1>9, <1>k DEF ExpireCode
  <1>10. CASE UNCHANGED vars
    BY <1>10, <1>k DEF vars
  <1> QED
    BY <1>1, <1>2, <1>3, <1>4, <1>5, <1>6, <1>7, <1>8, <1>9, <1>10 DEF Next, SecondStep

\* Reset tokens, tickets and socket tickets implement one-time credentials.
THEOREM KeysImplementOneTime == Spec => KeysAreOneTime
  <1>1. Init => Keys!Init
    BY DEF Init, Keys!Init
  <1>2. Init => KeysOK
    BY InitKeys
  <1>3. CredInv /\ KeysOK /\ [Next]_vars => KeysOK'
    BY NextKeys
  <1>4. CredInv /\ KeysOK /\ [Next]_vars
          => [Keys!Next]_<<{k \in Key : key[k].state # "absent"}, uses>>
    BY KeysStep DEF Known
  <1> QED
    BY <1>1, <1>2, <1>3, <1>4, CredAlways, PTL DEF Spec, KeysAreOneTime, Keys!Spec

-----------------------------------------------------------------------------
(***************************************************************************)
(* Mailed codes.                                                           *)
(***************************************************************************)

\* A step that creates no code, starts no creator and makes nobody forget the others.
LEMMA CreatorsQuiet ==
  ASSUME CreatorsOK,
         \A c \in Code : Unused(c)' => Unused(c) /\ code'[c].crowded = code[c].crowded,
         \A q \in Req : At(q, "create")' => At(q, "create") /\ (req[q].over => req'[q].over)
  PROVE  CreatorsOK'
  BY DEF CreatorsOK

\* The same for a request that moves alone and leaves the codes as they are.
LEMMA CreatorsAlone ==
  ASSUME CreatorsOK, NEW r \in Req, req'[r].at # "create", UNCHANGED code,
         \A q \in Req : q # r => req'[q].at = req[q].at /\ (req[q].over => req'[q].over)
  PROVE  CreatorsOK'
  <1>1. \A c \in Code : Unused(c)' => Unused(c) /\ code'[c].crowded = code[c].crowded
    BY DEF Unused
  <1>2. \A q \in Req : At(q, "create")' => At(q, "create") /\ (req[q].over => req'[q].over)
    BY DEF At
  <1> QED
    BY <1>1, <1>2, CreatorsQuiet

LEMMA InitCreators == Init => CreatorsOK
  <1> SUFFICES ASSUME Init PROVE CreatorsOK
    OBVIOUS
  <1>1. \A r \in Req : ~At(r, "create")
    BY DEF Init, Idle, At
  <1>2. \A c, d \in Code : Unused(c) /\ Unused(d) => c = d
    BY DEF Init, Unused
  <1> QED
    BY <1>1, <1>2 DEF CreatorsOK

LEMMA NextCreators == CredInv /\ CreatorsOK /\ [Next]_vars => CreatorsOK'
  <1> SUFFICES ASSUME CredInv, CreatorsOK, [Next]_vars PROVE CreatorsOK'
    OBVIOUS
  <1>t. /\ TypeOK /\ req \in [Req -> Request] /\ code \in [Code -> CodeRow]
    BY DEF CredInv, TypeOK
  <1>e. ASSUME NEW r \in Req, Ends(r), UNCHANGED code PROVE CreatorsOK'
    BY <1>e, <1>t, EndsMoves, CreatorsAlone DEF Same
  <1>b. ASSUME NEW r \in Req, NEW x, Become(r, x), x.at # "create", UNCHANGED code
        PROVE  CreatorsOK'
    BY <1>b, <1>t, BecomeMoves, CreatorsAlone DEF Same
  <1>1. ASSUME NEW r \in Req, ForgotPassword(r) PROVE CreatorsOK'
    <2>1. \A c \in Code : ~Unused(c)'
      BY <1>1, <1>t DEF ForgotPassword, Unused, CodeRow
    <2>2. /\ req'[r].at = "create"
          /\ \A q \in Req : q # r => /\ req'[q].at = req[q].at
                                     /\ req[q].over => req'[q].over
                                     /\ At(q, "create") => req'[q].over /\ req'[r].over
      BY <1>1, <1>t, ForgotMoves
    <2>3. \A p, q \in Req : p # q /\ At(p, "create")' /\ At(q, "create")' => req'[q].over
      BY <2>2 DEF CreatorsOK, At
    <2> QED
      BY <2>1, <2>3 DEF CreatorsOK
  <1>2. ASSUME NEW r \in Req, CreateCode(r) PROVE CreatorsOK'
    <2>1. PICK c \in Code :
            code' = [code EXCEPT ![c] = [state |-> "unused", expired |-> FALSE,
                                         crowded |-> req[r].over]]
      BY <1>2 DEF CreateCode
    <2>2. code'[c].crowded = req[r].over /\ \A d \in Code : d # c => code'[d] = code[d]
      BY <1>t, <2>1
    <2>3. req'[r].at = "end" /\ \A q \in Req : q # r => Same(q)
      BY <1>2, <1>t, EndsMoves DEF CreateCode
    <2>4. At(r, "create")
      BY <1>2 DEF CreateCode
    <2>5. \A p, q \in Req : p # q /\ At(p, "create")' /\ At(q, "create")' => req'[q].over
      BY <2>3 DEF CreatorsOK, At, Same
    <2>6. \A q \in Req, d \in Code :
            At(q, "create")' /\ Unused(d)' => code'[d].crowded /\ req'[q].over
      <3> SUFFICES ASSUME NEW q \in Req, NEW d \in Code, At(q, "create")', Unused(d)'
                   PROVE  code'[d].crowded /\ req'[q].over
        OBVIOUS
      <3>1. q # r /\ At(q, "create") /\ req'[q].over = req[q].over
        BY <2>3 DEF At, Same
      <3>2. req[q].over /\ req[r].over
        BY <2>4, <3>1 DEF CreatorsOK
      <3>3. CASE d = c
        BY <2>2, <3>1, <3>2, <3>3
      <3>4. CASE d # c
        <4>1. Unused(d) /\ code'[d] = code[d]
          BY <2>2, <3>4 DEF Unused
        <4> QED
          BY <3>1, <3>2, <4>1 DEF CreatorsOK
      <3> QED
        BY <3>3, <3>4
    <2>7. \A d, f \in Code : d # f /\ Unused(d)' /\ Unused(f)' => code'[d].crowded
      <3> SUFFICES ASSUME NEW d \in Code, NEW f \in Code, d # f, Unused(d)', Unused(f)'
                   PROVE  code'[d].crowded
        OBVIOUS
      <3>1. CASE d = c
        <4>1. Unused(f)
          BY <2>2, <3>1 DEF Unused
        <4> QED
          BY <2>2, <2>4, <3>1, <4>1 DEF CreatorsOK
      <3>2. CASE d # c
        <4>1. Unused(d) /\ code'[d] = code[d]
          BY <2>2, <3>2 DEF Unused
        <4> QED
          BY <2>4, <4>1 DEF CreatorsOK
      <3> QED
        BY <3>1, <3>2
    <2> QED
      BY <2>5, <2>6, <2>7 DEF CreatorsOK
  <1>3. ASSUME NEW r \in Req, VerifyCode(r) PROVE CreatorsOK'
    <2>1. /\ req'[r].at \in {"mark", "end"}
          /\ \A q \in Req : q # r => req'[q].at = req[q].at /\ (req[q].over => req'[q].over)
      BY <1>3, <1>t, VerifyMoves DEF Same
    <2>2. UNCHANGED code
      BY <1>3 DEF VerifyCode
    <2> QED
      BY <2>1, <2>2, CreatorsAlone
  <1>4. ASSUME NEW r \in Req, MarkUsed(r) PROVE CreatorsOK'
    <2>1. /\ Become(r, [req[r] EXCEPT !.at = "setReset"])
          /\ [req[r] EXCEPT !.at = "setReset"].at = "setReset"
      BY <1>4, <1>t DEF MarkUsed, Request
    <2>2. req'[r].at = "setReset" /\ \A q \in Req : q # r => Same(q)
      BY <1>t, <2>1, BecomeMoves
    <2>3. code' = [code EXCEPT ![req[r].code].state = "used"]
      BY <1>4 DEF MarkUsed
    <2>4. \A c \in Code : Unused(c)' => Unused(c) /\ code'[c].crowded = code[c].crowded
      BY <1>t, <2>3 DEF Unused, CodeRow
    <2> QED
      BY <2>2, <2>4, CreatorsQuiet DEF At, Same
  <1>5. ASSUME NEW r \in Req, SecondStep(r) PROVE CreatorsOK'
    <2>1. /\ req'[r].at # "create" /\ UNCHANGED code
          /\ \A q \in Req : q # r => Same(q)
      BY <1>5, SecondMoves
    <2> QED
      BY <2>1, CreatorsAlone DEF Same
  <1>6. ASSUME NEW r \in Req, ResetPassword(r) PROVE CreatorsOK'
    BY <1>6, <1>e, <1>b DEF ResetPassword, Idle
  <1>7. ASSUME NEW r \in Req, BurnTicket(r) PROVE CreatorsOK'
    BY <1>7, <1>e, <1>b DEF BurnTicket, Idle
  <1>8. ASSUME NEW r \in Req, Verify2fa(r) PROVE CreatorsOK'
    <2>1. ASSUME NEW b
          PROVE [req[r] EXCEPT !.at = "spendLogin", !.copy = factor, !.backup = b].at
                  = "spendLogin"
      BY <1>t DEF Request
    <2> QED
      BY <1>8, <1>e, <1>b, <2>1 DEF Verify2fa
  <1>9. ASSUME NEW r \in Req, \/ SetResetToken(r) \/ SetPassword(r) \/ SetTicket(r)
                              \/ SpendAndLogin(r) \/ IssueSocketTicket(r)
                              \/ BurnSocketTicket(r) \/ Fail(r)
        PROVE  CreatorsOK'
    BY <1>9, <1>e DEF SetResetToken, SetPassword, SetTicket, SpendAndLogin, IssueSocketTicket,
                      BurnSocketTicket, Fail
  <1>10. ASSUME NEW k \in Key, ExpireKey(k) PROVE CreatorsOK'
    BY <1>10 DEF ExpireKey, CreatorsOK, Unused, At
  <1>11. ASSUME NEW c \in Code, ExpireCode(c) PROVE CreatorsOK'
    <2>1. \A d \in Code : code'[d].state = code[d].state /\ code'[d].crowded = code[d].crowded
      BY <1>11, <1>t DEF ExpireCode, CodeRow
    <2>2. UNCHANGED req
      BY <1>11 DEF ExpireCode
    <2> QED
      BY <2>1, <2>2, CreatorsQuiet DEF Unused, At
  <1>12. CASE UNCHANGED vars
    BY <1>12 DEF vars, CreatorsOK, Unused, At
  <1> QED
    BY <1>1, <1>2, <1>3, <1>4, <1>5, <1>6, <1>7, <1>8, <1>9, <1>10, <1>11, <1>12
       DEF Next, SecondStep

\* Two codes of one account work at the same time only if the forgotPassword requests
\* that created them overlapped.
THEOREM OneCodeWorks == Spec => []TwoUsableCodesAreExplained
  <1>1. CreatorsOK => TwoUsableCodesAreExplained
    BY DEF CreatorsOK, TwoUsableCodesAreExplained, Usable, Unused
  <1> QED
    BY <1>1, InitCreators, NextCreators, CredAlways, PTL DEF Spec

-----------------------------------------------------------------------------
(***************************************************************************)
(* Reset tokens.                                                           *)
(***************************************************************************)

\* Used codes stay used and no code disappears; the tokens keep their origin; nobody
\* begins to buy.
CodesMove == \A c \in Code : /\ code[c].state = "used" => code'[c].state = "used"
                             /\ code[c].state # "absent" => code'[c].state # "absent"

KeysStay == \A k \in Key : /\ key'[k].from = key[k].from /\ key'[k].raced = key[k].raced
                           /\ key'[k].state = "absent" => key[k].state = "absent"

BuysOn(q) ==
  /\ At(q, "mark")' => At(q, "mark")
  /\ At(q, "setReset")' => At(q, "setReset")
  /\ req'[q].code = req[q].code /\ (req[q].over => req'[q].over)

LEMMA BuyersQuiet ==
  ASSUME CredInv, BuyersOK, CodesMove, KeysStay,
         \A q \in Req : (req'[q].at \notin {"mark", "setReset"}) \/ BuysOn(q)
  PROVE  BuyersOK'
  <1>0. /\ \A k \in Key : key[k].from \in Code \cup {None}
        /\ \A q \in Req : req[q].at \in {"mark", "setReset"} => req[q].code \in Code
    BY DEF CredInv, TypeOK, KeyRow, LocalsAreOK, LocalsOK
  <1>1. \A r \in Req : At(r, "setReset")' => code'[req'[r].code].state = "used"
    BY <1>0 DEF BuyersOK, CodesMove, BuysOn, At
  <1>2. \A r \in Req : At(r, "mark")' => code'[req'[r].code].state # "absent"
    BY <1>0 DEF BuyersOK, CodesMove, BuysOn, At
  <1>3. \A k \in Key : key'[k].from # None => code'[key'[k].from].state = "used"
    BY <1>0 DEF BuyersOK, CodesMove, KeysStay
  <1>4. \A k \in Key : key'[k].state = "absent" => key'[k].from = None
    BY DEF BuyersOK, KeysStay
  <1>5. \A c \in Code, q \in Req : Buys(q, c)' => Buys(q, c) /\ (req[q].over => req'[q].over)
    BY DEF Buys, BuysOn, At
  <1>6. \A c \in Code, q, r \in Req : q # r /\ Buys(q, c)' /\ Buys(r, c)' => req'[r].over
    BY <1>5 DEF BuyersOK
  <1>7. \A c \in Code, r \in Req, k \in Key :
          Buys(r, c)' /\ key'[k].from = c => req'[r].over /\ key'[k].raced
    BY <1>5 DEF BuyersOK, KeysStay
  <1>8. \A k, l \in Key : k # l /\ key'[k].from # None /\ key'[l].from = key'[k].from
                            => key'[k].raced
    BY DEF BuyersOK, KeysStay
  <1> QED
    BY <1>1, <1>2, <1>3, <1>4, <1>6, <1>7, <1>8 DEF BuyersOK

\* One request moves, to a step that buys nothing.
LEMMA BuyersAlone ==
  ASSUME CredInv, BuyersOK, CodesMove, KeysStay, NEW r \in Req,
         req'[r].at \notin {"mark", "setReset"}, \A q \in Req : q # r => Same(q)
  PROVE  BuyersOK'
  BY BuyersQuiet DEF BuysOn, At, Same

\* A key that is set without a code, by a request that buys nothing.
LEMMA BuyersOtherKey ==
  ASSUME CredInv, BuyersOK, NEW r \in Req, NEW kind \in {"ticket", "socket"},
         SetKey(r, kind), req[r].code = None, Ends(r), UNCHANGED code
  PROVE  BuyersOK'
  <1>1. TypeOK /\ req \in [Req -> Request]
    BY DEF CredInv, TypeOK
  <1>2. PICK k \in Key : /\ key[k].state = "absent" /\ key'[k].state = "live"
                         /\ key'[k].from = req[r].code
                         /\ \A l \in Key : l # k => key'[l] = key[l]
    BY <1>1, SetKeyIs
  <1>3. req'[r].at = "end" /\ \A q \in Req : q # r => Same(q)
    BY <1>1, EndsMoves
  <1>4. key[k].from = None
    BY <1>2 DEF BuyersOK
  <1>5. \A l \in Key : key'[l].from = key[l].from
    BY <1>2, <1>4
  <1>6. \A l \in Key : key'[l].from # None => l # k
    BY <1>2
  <1>a. /\ \A l \in Key : key[l].from \in Code \cup {None}
        /\ \A q \in Req : req[q].at \in {"mark", "setReset"} => req[q].code \in Code
    BY <1>1 DEF CredInv, TypeOK, KeyRow, LocalsAreOK, LocalsOK
  <1>7. \A c \in Code, q \in Req : Buys(q, c)' => Buys(q, c) /\ req'[q].over = req[q].over
    BY <1>3 DEF Buys, Same
  <1>8. \A q \in Req : At(q, "setReset")' => code'[req'[q].code].state = "used"
    BY <1>3 DEF BuyersOK, At, Same
  <1>9. \A q \in Req : At(q, "mark")' => code'[req'[q].code].state # "absent"
    BY <1>3 DEF BuyersOK, At, Same
  <1>10. \A l \in Key : key'[l].from # None => code'[key'[l].from].state = "used"
    BY <1>5 DEF BuyersOK
  <1>11. \A l \in Key : key'[l].state = "absent" => key'[l].from = None
    BY <1>2 DEF BuyersOK
  <1>12. \A c \in Code, p, q \in Req : p # q /\ Buys(p, c)' /\ Buys(q, c)' => req'[q].over
    BY <1>7 DEF BuyersOK
  <1>13. \A c \in Code, q \in Req, l \in Key :
           Buys(q, c)' /\ key'[l].from = c => req'[q].over /\ key'[l].raced
    BY <1>2, <1>5, <1>6, <1>7, NoCredential DEF BuyersOK
  <1>14. \A l, m \in Key : l # m /\ key'[l].from # None /\ key'[m].from = key'[l].from
                             => key'[l].raced
    BY <1>2, <1>5, <1>6 DEF BuyersOK
  <1> QED
    BY <1>8, <1>9, <1>10, <1>11, <1>12, <1>13, <1>14 DEF BuyersOK

\* The token of a code: whoever else buys for the code is known to overlap.
LEMMA BuyersToken ==
  ASSUME CredInv, BuyersOK, NEW r \in Req, SetResetToken(r)
  PROVE  BuyersOK'
  <1>1. TypeOK /\ req \in [Req -> Request] /\ At(r, "setReset") /\ req[r].code \in Code
    BY DEF CredInv, TypeOK, SetResetToken, LocalsAreOK, LocalsOK, At
  <1>2. PICK k \in Key : /\ key[k].state = "absent" /\ key'[k].state = "live"
                         /\ key'[k].from = req[r].code /\ key'[k].raced = req[r].over
                         /\ \A l \in Key : l # k => key'[l] = key[l]
    BY <1>1, SetKeyIs DEF SetResetToken
  <1>3. req'[r].at = "end" /\ \A q \in Req : q # r => Same(q)
    BY <1>1, EndsMoves DEF SetResetToken
  <1>4. UNCHANGED code
    BY DEF SetResetToken
  <1>5. Buys(r, req[r].code)
    BY <1>1 DEF Buys, At
  <1>7. \A c \in Code, q \in Req :
          Buys(q, c)' => q # r /\ Buys(q, c) /\ req'[q].over = req[q].over
    BY <1>3 DEF Buys, Same
  <1>8. \A q \in Req : At(q, "setReset")' => code'[req'[q].code].state = "used"
    BY <1>3, <1>4 DEF BuyersOK, At, Same
  <1>9. \A q \in Req : At(q, "mark")' => code'[req'[q].code].state # "absent"
    BY <1>3, <1>4 DEF BuyersOK, At, Same
  <1>10. \A l \in Key : key'[l].from # None => code'[key'[l].from].state = "used"
    BY <1>1, <1>2, <1>4 DEF BuyersOK
  <1>11. \A l \in Key : key'[l].state = "absent" => key'[l].from = None
    BY <1>2 DEF BuyersOK
  <1>12. \A c \in Code, p, q \in Req : p # q /\ Buys(p, c)' /\ Buys(q, c)' => req'[q].over
    BY <1>7 DEF BuyersOK
  <1>13. \A c \in Code, q \in Req, l \in Key :
           Buys(q, c)' /\ key'[l].from = c => req'[q].over /\ key'[l].raced
    <2> SUFFICES ASSUME NEW c \in Code, NEW q \in Req, NEW l \in Key,
                        Buys(q, c)', key'[l].from = c
                 PROVE  req'[q].over /\ key'[l].raced
      OBVIOUS
    <2>1. q # r /\ Buys(q, c) /\ req'[q].over = req[q].over
      BY <1>7
    <2>2. CASE l = k
      <3>1. c = req[r].code
        BY <1>2, <2>2
      <3>2. req[q].over /\ req[r].over
        BY <1>5, <2>1, <3>1 DEF BuyersOK
      <3> QED
        BY <1>2, <2>1, <2>2, <3>2
    <2>3. CASE l # k
      BY <1>2, <2>1, <2>3 DEF BuyersOK
    <2> QED
      BY <2>2, <2>3
  <1>14. \A l, m \in Key : l # m /\ key'[l].from # None /\ key'[m].from = key'[l].from
                             => key'[l].raced
    <2> SUFFICES ASSUME NEW l \in Key, NEW m \in Key, l # m, key'[l].from # None,
                        key'[m].from = key'[l].from
                 PROVE  key'[l].raced
      OBVIOUS
    <2>1. CASE l = k
      <3>1. key[m].from = req[r].code
        BY <1>2, <2>1
      <3> QED
        BY <1>1, <1>2, <1>5, <2>1, <3>1 DEF BuyersOK
    <2>2. CASE m = k
      <3>1. key[l].from = req[r].code /\ key'[l] = key[l]
        BY <1>2, <2>2
      <3> QED
        BY <1>1, <1>5, <3>1 DEF BuyersOK
    <2>3. CASE l # k /\ m # k
      BY <1>2, <2>3 DEF BuyersOK
    <2> QED
      BY <2>1, <2>2, <2>3
  <1> QED
    BY <1>8, <1>9, <1>10, <1>11, <1>12, <1>13, <1>14 DEF BuyersOK

\* A request that finds the code usable meets every other buyer of it, and no token.
LEMMA BuyersStart ==
  ASSUME CredInv, BuyersOK, NEW r \in Req, VerifyCode(r)
  PROVE  BuyersOK'
  <1>1. TypeOK /\ req \in [Req -> Request]
    BY DEF CredInv, TypeOK
  <1>2. UNCHANGED <<code, key>>
    BY DEF VerifyCode
  <1>3. CodesMove /\ KeysStay
    BY <1>2 DEF CodesMove, KeysStay
  <1>4. CASE /\ req'[r].at = "end" /\ \A q \in Req : q # r => Same(q)
    BY <1>3, <1>4, BuyersAlone
  <1>5. ASSUME NEW c \in Code, Usable(c), req'[r].at = "mark", req'[r].code = c,
               \A q \in Req : q # r =>
                 /\ req'[q].at = req[q].at /\ req'[q].code = req[q].code
                 /\ req[q].over => req'[q].over
                 /\ At(q, "mark") /\ req[q].code = c => req'[q].over /\ req'[r].over
        PROVE  BuyersOK'
    <2>0. code[c].state = "unused"
      BY <1>5 DEF Usable
    <2>1. \A d \in Code, q \in Req : q # r /\ Buys(q, d)' =>
            Buys(q, d) /\ (req[q].over => req'[q].over)
      BY <1>5 DEF Buys
    <2>2. \A d \in Code : Buys(r, d)' => d = c
      BY <1>5 DEF Buys
    <2>3. \A q \in Req : q # r /\ Buys(q, c)' => req'[q].over /\ req'[r].over
      <3> SUFFICES ASSUME NEW q \in Req, q # r, Buys(q, c)' PROVE req'[q].over /\ req'[r].over
        OBVIOUS
      <3>1. req[q].code = c /\ req[q].at \in {"mark", "setReset"}
        BY <2>1 DEF Buys
      <3>2. req[q].at # "setReset"
        BY <2>0, <3>1 DEF BuyersOK, At
      <3> QED
        BY <1>5, <3>1, <3>2 DEF At
    <2>4. \A k \in Key : key[k].from # c
      BY <2>0, NoCredential DEF BuyersOK
    <2>5. \A q \in Req : At(q, "setReset")' => code'[req'[q].code].state = "used"
      BY <1>2, <1>5 DEF BuyersOK, At
    <2>6. \A q \in Req : At(q, "mark")' => code'[req'[q].code].state # "absent"
      BY <1>2, <1>5, <2>0 DEF BuyersOK, At
    <2>7. \A d \in Code, p, q \in Req : p # q /\ Buys(p, d)' /\ Buys(q, d)' => req'[q].over
      <3> SUFFICES ASSUME NEW d \in Code, NEW p \in Req, NEW q \in Req, p # q,
                          Buys(p, d)', Buys(q, d)'
                   PROVE  req'[q].over
        OBVIOUS
      <3>1. CASE p = r \/ q = r
        BY <2>2, <2>3, <3>1
      <3>2. CASE p # r /\ q # r
        BY <2>1, <3>2 DEF BuyersOK
      <3> QED
        BY <3>1, <3>2
    <2>8. \A d \in Code, q \in Req, k \in Key :
            Buys(q, d)' /\ key'[k].from = d => req'[q].over /\ key'[k].raced
      BY <1>2, <2>1, <2>2, <2>4 DEF BuyersOK
    <2> QED
      BY <1>2, <2>5, <2>6, <2>7, <2>8 DEF BuyersOK
  <1> QED
    BY <1>1, <1>4, <1>5, VerifyMoves

LEMMA InitBuyers == Init => BuyersOK
  <1> SUFFICES ASSUME Init PROVE BuyersOK
    OBVIOUS
  <1>1. \A r \in Req : req[r].at = "start"
    BY DEF Init, Idle
  <1>2. \A k \in Key : key[k].from = None
    <2>1. key \in [Key -> {NoKey} \cup {[NoKey EXCEPT !.state = "live", !.kind = kind] :
                                          kind \in {"reset", "ticket", "socket"}}]
      BY DEF Init
    <2>2. NoKey.from = None
      BY DEF NoKey
    <2>3. \A kind \in {"reset", "ticket", "socket"} :
            [NoKey EXCEPT !.state = "live", !.kind = kind].from = None
      BY DEF NoKey
    <2>4. ASSUME NEW k \in Key PROVE key[k].from = None
      <3>1. CASE key[k] = NoKey
        BY <2>2, <3>1
      <3>2. CASE \E kind \in {"reset", "ticket", "socket"} :
                   key[k] = [NoKey EXCEPT !.state = "live", !.kind = kind]
        BY <2>3, <3>2
      <3>3. key[k] \in {NoKey} \cup {[NoKey EXCEPT !.state = "live", !.kind = kind] :
                                     kind \in {"reset", "ticket", "socket"}}
        BY <2>1, <2>4
      <3> QED
        BY <3>1, <3>2, <3>3
    <2> QED
      BY <2>4
  <1> QED
    BY <1>1, <1>2, NoCredential DEF BuyersOK, At, Buys

LEMMA NextBuyers == CredInv /\ BuyersOK /\ [Next]_vars => BuyersOK'
  <1> SUFFICES ASSUME CredInv, BuyersOK, [Next]_vars PROVE BuyersOK'
    OBVIOUS
  <1>t. /\ TypeOK /\ req \in [Req -> Request] /\ code \in [Code -> CodeRow]
        /\ key \in [Key -> KeyRow]
    BY DEF CredInv, TypeOK
  <1>c. ASSUME UNCHANGED code PROVE CodesMove
    BY <1>c DEF CodesMove
  <1>k. ASSUME UNCHANGED key PROVE KeysStay
    BY <1>k DEF KeysStay
  <1>h. ASSUME NEW k \in Key, key[k].state = "live", key' = [key EXCEPT ![k].state = "gone"]
        PROVE  KeysStay
    BY <1>h, <1>t, TakeKeyIs DEF KeysStay
  <1>e. ASSUME NEW r \in Req, Ends(r), CodesMove, KeysStay PROVE BuyersOK'
    BY <1>e, <1>t, EndsMoves, BuyersAlone
  <1>b. ASSUME NEW r \in Req, NEW x, Become(r, x), x.at \notin {"mark", "setReset"},
               CodesMove, KeysStay
        PROVE  BuyersOK'
    BY <1>b, <1>t, BecomeMoves, BuyersAlone
  <1>1. ASSUME NEW r \in Req, ForgotPassword(r) PROVE BuyersOK'
    <2>1. CodesMove
      BY <1>1, <1>t DEF ForgotPassword, CodesMove, CodeRow
    <2>2. KeysStay
      BY <1>1, <1>k DEF ForgotPassword
    <2>3. /\ req'[r].at = "create"
          /\ \A q \in Req : q # r => /\ req'[q].at = req[q].at /\ req'[q].code = req[q].code
                                     /\ req[q].over => req'[q].over
      BY <1>1, <1>t, ForgotMoves
    <2> QED
      BY <2>1, <2>2, <2>3, BuyersQuiet DEF BuysOn, At
  <1>2. ASSUME NEW r \in Req, CreateCode(r) PROVE BuyersOK'
    <2>1. CodesMove
      BY <1>2, <1>t DEF CreateCode, CodesMove, CodeRow
    <2> QED
      BY <1>2, <1>e, <1>k, <2>1 DEF CreateCode
  <1>3. ASSUME NEW r \in Req, MarkUsed(r) PROVE BuyersOK'
    <2>1. /\ Become(r, [req[r] EXCEPT !.at = "setReset"])
          /\ [req[r] EXCEPT !.at = "setReset"].at = "setReset"
          /\ [req[r] EXCEPT !.at = "setReset"].code = req[r].code
          /\ [req[r] EXCEPT !.at = "setReset"].over = req[r].over
      BY <1>3, <1>t DEF MarkUsed, Request
    <2>2. /\ req'[r].at = "setReset" /\ req'[r].code = req[r].code /\ req'[r].over = req[r].over
          /\ \A q \in Req : q # r => Same(q)
      BY <1>t, <2>1, BecomeMoves
    <2>3. code' = [code EXCEPT ![req[r].code].state = "used"] /\ UNCHANGED key
      BY <1>3 DEF MarkUsed
    <2>4. At(r, "mark") /\ req[r].code \in Code
      BY <1>3 DEF MarkUsed, At, CredInv, LocalsAreOK, LocalsOK
    <2>5. /\ code'[req[r].code].state = "used"
          /\ \A c \in Code : /\ code[c].state = "used" => code'[c].state = "used"
                             /\ code[c].state # "absent" => code'[c].state # "absent"
      BY <1>t, <2>3, <2>4 DEF CodeRow
    <2>6. \A c \in Code, q \in Req : Buys(q, c)' => Buys(q, c) /\ req'[q].over = req[q].over
      BY <2>2, <2>4 DEF Buys, Same, At
    <2>7. \A q \in Req : req[q].at \in {"mark", "setReset"} => req[q].code \in Code
      BY DEF CredInv, LocalsAreOK, LocalsOK
    <2>8. \A q \in Req : At(q, "setReset")' => code'[req'[q].code].state = "used"
      BY <2>2, <2>5, <2>7 DEF BuyersOK, At, Same
    <2>9. \A q \in Req : At(q, "mark")' => code'[req'[q].code].state # "absent"
      BY <2>2, <2>5, <2>7 DEF BuyersOK, At, Same
    <2>10. \A k \in Key : key'[k].from # None => code'[key'[k].from].state = "used"
      BY <1>t, <2>3, <2>5 DEF BuyersOK, KeyRow
    <2>11. \A c \in Code, p, q \in Req : p # q /\ Buys(p, c)' /\ Buys(q, c)' => req'[q].over
      BY <2>6 DEF BuyersOK
    <2>12. \A c \in Code, q \in Req, k \in Key :
             Buys(q, c)' /\ key'[k].from = c => req'[q].over /\ key'[k].raced
      BY <2>3, <2>6 DEF BuyersOK
    <2> QED
      BY <2>3, <2>8, <2>9, <2>10, <2>11, <2>12 DEF BuyersOK
  <1>4. ASSUME NEW r \in Req, SecondStep(r) PROVE BuyersOK'
    <2>1. /\ req'[r].at \notin {"mark", "setReset"} /\ UNCHANGED <<code, key>>
          /\ \A q \in Req : q # r => Same(q)
      BY <1>4, SecondMoves
    <2> QED
      BY <1>c, <1>k, <2>1, BuyersAlone
  <1>5. ASSUME NEW r \in Req, SetTicket(r) \/ IssueSocketTicket(r) PROVE BuyersOK'
    <2>1. req[r].code = None
      BY <1>5 DEF SetTicket, IssueSocketTicket, At, CredInv, LocalsAreOK, LocalsOK
    <2> QED
      BY <1>5, <2>1, BuyersOtherKey DEF SetTicket, IssueSocketTicket
  <1>6. ASSUME NEW r \in Req, ResetPassword(r) PROVE BuyersOK'
    BY <1>6, <1>e, <1>b, <1>c, <1>k, <1>h DEF ResetPassword, Idle, Live
  <1>7. ASSUME NEW r \in Req, BurnTicket(r) PROVE BuyersOK'
    BY <1>7, <1>e, <1>b, <1>c, <1>k, <1>h DEF BurnTicket, Idle, Live
  <1>8. ASSUME NEW r \in Req, Verify2fa(r) PROVE BuyersOK'
    <2>1. ASSUME NEW b
          PROVE [req[r] EXCEPT !.at = "spendLogin", !.copy = factor, !.backup = b].at
                  = "spendLogin"
      BY <1>t DEF Request
    <2> QED
      BY <1>8, <1>e, <1>b, <1>c, <1>k, <2>1 DEF Verify2fa
  <1>9. ASSUME NEW r \in Req, BurnSocketTicket(r) PROVE BuyersOK'
    BY <1>9, <1>e, <1>c, <1>k, <1>h DEF BurnSocketTicket, Live
  <1>10. ASSUME NEW r \in Req, SetPassword(r) \/ SpendAndLogin(r) \/ Fail(r) PROVE BuyersOK'
    BY <1>10, <1>e, <1>c, <1>k DEF SetPassword, SpendAndLogin, Fail
  <1>11. ASSUME NEW k \in Key, ExpireKey(k) PROVE BuyersOK'
    <2>1. CodesMove /\ KeysStay /\ UNCHANGED req
      BY <1>11, <1>c, <1>h DEF ExpireKey
    <2> QED
      BY <2>1, BuyersQuiet DEF BuysOn, At
  <1>12. ASSUME NEW c \in Code, ExpireCode(c) PROVE BuyersOK'
    <2>1. CodesMove
      BY <1>12, <1>t DEF ExpireCode, CodesMove, CodeRow
    <2>2. KeysStay /\ UNCHANGED req
      BY <1>12, <1>k DEF ExpireCode
    <2> QED
      BY <2>1, <2>2, BuyersQuiet DEF BuysOn, At
  <1>13. CASE UNCHANGED vars
    <2>1. CodesMove /\ KeysStay /\ UNCHANGED req
      BY <1>13, <1>c, <1>k DEF vars
    <2> QED
      BY <2>1, BuyersQuiet DEF BuysOn, At
  <1> QED
    BY <1>1, <1>2, <1>3, <1>4, <1>5, <1>6, <1>7, <1>8, <1>9, <1>10, <1>11, <1>12, <1>13,
       BuyersToken, BuyersStart
       DEF Next, SecondStep

\* A reset token comes from a used code, and a code buys two only for verifyCode
\* requests that overlapped.
THEOREM CodesBuyOnce == Spec => []CodesBuyOneToken
  <1>1. BuyersOK => CodesBuyOneToken
    BY DEF BuyersOK, CodesBuyOneToken
  <1> QED
    BY <1>1, InitBuyers, NextBuyers, CredAlways, PTL DEF Spec

-----------------------------------------------------------------------------
(***************************************************************************)
(* The second factor.                                                      *)
(***************************************************************************)

\* The steps that write the factor or its history; all others leave both alone.
Writes(r) == \/ SetupWrite(r) \/ EnableWrite(r) \/ SpendAndDisable(r) \/ Clear(r)
             \/ SpendAndLogin(r)

LEMMA SecondUntouched ==
  ASSUME [Next]_vars
  PROVE  UNCHANGED second \/ \E r \in Req : Writes(r)
  <1>1. CASE \E r \in Req :
               \/ ForgotPassword(r) \/ CreateCode(r) \/ VerifyCode(r) \/ MarkUsed(r)
               \/ SetResetToken(r) \/ ResetPassword(r) \/ SetPassword(r)
    BY <1>1 DEF ForgotPassword, CreateCode, VerifyCode, MarkUsed, SetResetToken, ResetPassword,
                SetPassword
  <1>2. CASE \E r \in Req : \/ SetupRead(r) \/ EnableRead(r) \/ DisableRead(r) \/ Login(r)
                            \/ SetTicket(r) \/ BurnTicket(r) \/ Verify2fa(r)
    BY <1>2 DEF SetupRead, EnableRead, DisableRead, Login, SetTicket, BurnTicket, Verify2fa
  <1>3. CASE \E r \in Req : IssueSocketTicket(r) \/ BurnSocketTicket(r) \/ Fail(r)
    BY <1>3 DEF IssueSocketTicket, BurnSocketTicket, Fail
  <1>4. CASE (\E k \in Key : ExpireKey(k)) \/ (\E c \in Code : ExpireCode(c))
    BY <1>4 DEF ExpireKey, ExpireCode
  <1>5. CASE UNCHANGED vars
    BY <1>5 DEF vars, second
  <1>6. CASE \E r \in Req : Writes(r)
    BY <1>6
  <1> QED
    BY <1>1, <1>2, <1>3, <1>4, <1>5, <1>6 DEF Next, Writes

\* A code that is spent on a list that has not changed goes from the list to the spent.
LEMMA BackupSpent ==
  ASSUME CredInv, BackupOK, NEW r \in Req, req[r].at \in {"spend", "spendLogin"}, Spend(r),
         UNCHANGED shown
  PROVE  BackupOK'
  <1> SUFFICES ASSUME ~stale'
               PROVE  /\ factor'.backup \subseteq shown'
                      /\ \A b \in Backup : /\ b \notin shown' => accepted'[b] = 0
                                           /\ b \in factor'.backup => accepted'[b] = 0
                                           /\ accepted'[b] <= 1
    BY DEF BackupOK
  <1>1. ~stale /\ req[r].copy.backup = factor.backup
    BY DEF Spend
  <1>2. req[r].backup \in factor.backup /\ req[r].backup \in Backup
    BY <1>1 DEF CredInv, TypeOK, Factor, LocalsAreOK, LocalsOK
  <1>3. factor'.backup = factor.backup \ {req[r].backup}
    BY <1>1, <1>2, SpendIs DEF CredInv
  <1>4. accepted \in [Backup -> Nat] /\ accepted' = [accepted EXCEPT ![req[r].backup] = @ + 1]
    BY DEF CredInv, TypeOK, Spend
  <1>5. /\ accepted[req[r].backup] = 0 /\ req[r].backup \in shown
        /\ factor.backup \subseteq shown
        /\ \A b \in Backup : /\ b \notin shown => accepted[b] = 0
                             /\ b \in factor.backup => accepted[b] = 0
                             /\ accepted[b] <= 1
    BY <1>1, <1>2 DEF BackupOK
  <1>6. accepted'[req[r].backup] = 1
    BY <1>2, <1>4, <1>5
  <1>7. \A b \in Backup : b # req[r].backup => accepted'[b] = accepted[b]
    BY <1>4
  <1> QED
    BY <1>3, <1>5, <1>6, <1>7

LEMMA NextBackup == CredInv /\ BackupOK /\ [Next]_vars => BackupOK'
  <1> SUFFICES ASSUME CredInv, BackupOK, [Next]_vars PROVE BackupOK'
    OBVIOUS
  <1>t. /\ TypeOK /\ factor \in Factor /\ shown \subseteq Backup
        /\ accepted \in [Backup -> Nat]
    BY DEF CredInv, TypeOK
  <1>1. CASE UNCHANGED second
    BY <1>1 DEF second, BackupOK
  <1>2. ASSUME NEW r \in Req, SetupWrite(r) PROVE BackupOK'
    <2>1. factor'.backup = factor.backup /\ (stale => stale') /\ UNCHANGED <<shown, accepted>>
      BY <1>2, <1>t DEF SetupWrite, Factor
    <2> QED
      BY <2>1 DEF BackupOK
  <1>3. ASSUME NEW r \in Req, EnableWrite(r) PROVE BackupOK'
    <2>1. PICK fresh \in SUBSET (Backup \ shown) :
            /\ factor' = [factor EXCEPT !.enabled = TRUE, !.backup = fresh]
            /\ shown' = shown \cup fresh
      BY <1>3 DEF EnableWrite
    <2>2. factor'.backup = fresh
      BY <1>t, <2>1 DEF Factor
    <2>3. (stale => stale') /\ UNCHANGED accepted
      BY <1>3 DEF EnableWrite
    <2> QED
      BY <2>1, <2>2, <2>3 DEF BackupOK
  <1>4. ASSUME NEW r \in Req, SpendAndDisable(r) PROVE BackupOK'
    BY <1>4, BackupSpent DEF SpendAndDisable, At
  <1>5. ASSUME NEW r \in Req, Clear(r) PROVE BackupOK'
    <2>1. factor'.backup = {} /\ UNCHANGED <<shown, accepted, stale>>
      BY <1>5 DEF Clear, Off
    <2> QED
      BY <2>1 DEF BackupOK
  <1>6. ASSUME NEW r \in Req, SpendAndLogin(r) PROVE BackupOK'
    BY <1>6, BackupSpent DEF SpendAndLogin, At
  <1> QED
    BY <1>1, <1>2, <1>3, <1>4, <1>5, <1>6, SecondUntouched DEF Writes

LEMMA InitBackup == Init => BackupOK
  BY DEF Init, BackupOK

\* A backup code is accepted once and then off the list, unless a list that had changed
\* was written back.
THEOREM BackupCodesSpent == Spec => []BackupCodesAreSpent
  <1>1. BackupOK => BackupCodesAreSpent
    BY DEF BackupOK, BackupCodesAreSpent
  <1> QED
    BY <1>1, InitBackup, NextBackup, CredAlways, PTL DEF Spec

LEMMA NextProven == CredInv /\ EnabledIsProven /\ [Next]_vars => EnabledIsProven'
  <1> SUFFICES ASSUME CredInv, EnabledIsProven, [Next]_vars, factor'.enabled, ~stale'
               PROVE  factor'.secret # None /\ factor'.secret = proven'
    BY DEF EnabledIsProven
  <1>t. /\ TypeOK /\ factor \in Factor /\ req \in [Req -> Request]
    BY DEF CredInv, TypeOK
  <1>1. CASE UNCHANGED second
    BY <1>1 DEF second, EnabledIsProven
  <1>2. ASSUME NEW r \in Req, SetupWrite(r) PROVE FALSE
    <2>1. factor'.enabled = factor.enabled
      BY <1>2, <1>t DEF SetupWrite, Factor
    <2>2. req[r].copy.enabled = factor.enabled
      BY <1>2 DEF SetupWrite
    <2>3. ~req[r].copy.enabled
      BY <1>2 DEF SetupWrite, At, CredInv, LocalsAreOK, LocalsOK
    <2> QED
      BY <2>1, <2>2, <2>3
  <1>3. ASSUME NEW r \in Req, EnableWrite(r)
        PROVE  factor'.secret # None /\ factor'.secret = proven'
    <2>1. factor'.secret = factor.secret
      BY <1>3, <1>t DEF EnableWrite, Factor
    <2>2. req[r].copy.secret = factor.secret /\ proven' = req[r].copy.secret
      BY <1>3 DEF EnableWrite
    <2>3. req[r].copy.secret \in Secret
      BY <1>3 DEF EnableWrite, At, CredInv, LocalsAreOK, LocalsOK
    <2> QED
      BY <2>1, <2>2, <2>3, NoCredential
  <1>4. ASSUME NEW r \in Req, Spend(r), req[r].at \in {"spend", "spendLogin"}, UNCHANGED proven
        PROVE  factor'.secret # None /\ factor'.secret = proven'
    <2>1. req[r].backup \in Backup
      BY <1>4 DEF CredInv, TypeOK, Request, Factor, LocalsAreOK, LocalsOK
    <2>2. factor'.secret = factor.secret /\ factor'.enabled = factor.enabled
      BY <1>4, <1>t, <2>1, SpendIs
    <2>3. ~stale
      BY <1>4 DEF Spend
    <2> QED
      BY <1>4, <2>2, <2>3 DEF EnabledIsProven
  <1>5. ASSUME NEW r \in Req, Clear(r) PROVE FALSE
    BY <1>5 DEF Clear, Off
  <1>6. ASSUME NEW r \in Req, SpendAndDisable(r) \/ SpendAndLogin(r)
        PROVE  factor'.secret # None /\ factor'.secret = proven'
    BY <1>4, <1>6 DEF SpendAndDisable, SpendAndLogin, At
  <1> QED
    BY <1>1, <1>2, <1>3, <1>5, <1>6, SecondUntouched DEF Writes

LEMMA InitProven == Init => EnabledIsProven
  <1> SUFFICES ASSUME Init, factor.enabled PROVE factor.secret # None /\ factor.secret = proven
    BY DEF EnabledIsProven
  <1>1. PICK x \in Secret, b \in (SUBSET Backup) \ {{}} :
          factor \in {Off, [Off EXCEPT !.secret = x],
                      [secret |-> x, enabled |-> TRUE, backup |-> b]}
    BY DEF Init
  <1>2. ~Off.enabled /\ ~[Off EXCEPT !.secret = x].enabled
    BY DEF Off
  <1>3. factor = [secret |-> x, enabled |-> TRUE, backup |-> b]
    BY <1>1, <1>2
  <1>4. proven = factor.secret
    BY DEF Init
  <1> QED
    BY <1>3, <1>4, NoCredential

\* A factor that is on has the secret whose code the user has shown, unless it was
\* written on a copy that had changed.
THEOREM EnabledProven == Spec => []EnabledIsProven
  BY InitProven, NextProven, CredAlways, PTL DEF Spec

\* A factor that is on has the proven secret, and a backup code is accepted once.
THEOREM SecondFactor == Spec => []SecondFactorAgrees
  BY BackupCodesSpent, EnabledProven, PTL DEF SecondFactorAgrees

\* One mailed code works at a time and buys one token, but for overlapping requests.
THEOREM MailedCodesOneTime == Spec => []MailedCodesAreOneTime
  BY OneCodeWorks, CodesBuyOnce, PTL DEF MailedCodesAreOneTime
=============================================================================
