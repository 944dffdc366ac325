------------------------------- MODULE Names -------------------------------
(***************************************************************************)
(* User names.  The database keeps them apart to the letter; the profile   *)
(* and the links to it do not mind the case, and mentions are looked up in *)
(* lower case.                                                             *)
(***************************************************************************)
EXTENDS Naturals, FiniteSets

CONSTANTS User, \* accounts, made or not
          Word, \* names, but for their case
          Req,  \* requests, numbered as they come
          None

VARIABLES name,    \* the name of every account that is there
          deleted, \* the accounts that are marked as deleted
          req,     \* the state of every request
          loose    \* history: the accounts that came by their names while another came by the
                   \* same but for the case, or in registration though another had it

vars == <<name, deleted, req, loose>>

Name == [word : Word, upper : BOOLEAN]

\* taken: refused by the check, conflict: by the database.  raced (history): the name was
\* written elsewhere after the check.
Request == [at : {"start", "write", "done", "taken", "conflict"}, user : User \cup {None},
            name : Name \cup {None}, op : {"register", "update"}, raced : BOOLEAN]

Fresh == [at |-> "start", user |-> None, name |-> None, op |-> "register", raced |-> FALSE]

TypeOK ==
  /\ name \in [User -> Name \cup {None}] /\ deleted \subseteq User
  /\ req \in [Req -> Request] /\ loose \subseteq User

Init ==
  /\ name = [u \in User |-> None] /\ deleted = {}
  /\ req = [r \in Req |-> Fresh] /\ loose = {}

-----------------------------------------------------------------------------
\* The next request to come is r.
Comes(r) == req[r].at = "start" /\ \A q \in Req : q < r => ~req[q].at = "start"

Users == {u \in User : name[u] # None}

Live == Users \ deleted

\* Equal to the letter, among all accounts; equal but for the case, among those not deleted.
Same(n) == {u \in Users : name[u] = n}
Alike(n) == {u \in Live : name[u].word = n.word}

\* checkUsername, assertFree: the same question, to the letter.
Available(n) == Same(n) = {}

Begins(r, u, n, op, free) ==
  /\ Comes(r)
  /\ req' = [req EXCEPT ![r] = [at |-> IF free THEN "write" ELSE "taken",
                                user |-> u, name |-> n, op |-> op, raced |-> FALSE]]
  /\ UNCHANGED <<name, deleted, loose>>

\* register: assertFree, and later the account is created.
Register(r, u, n) ==
  /\ name[u] = None /\ \A q \in Req : req[q].user # u
  /\ Begins(r, u, n, "register", Available(n))

\* Mutant: a name that differs from one's own only in case is not looked up.
FreeUnlessRespelt(u, n) == name[u].word = n.word \/ Alike(n) \subseteq {u}

\* What update asks before it writes: no other account has the name, in any case.
FreeFor(u, n) == Alike(n) \subseteq {u}

\* ProfileService.update with a userName.
Update(r, u, n) == u \in Live /\ Begins(r, u, n, "update", FreeFor(u, n))

\* The row is written, or refused by the unique index.
Write(r) ==
  LET u == req[r].user
      n == req[r].name
      Races(q) == q # r /\ req[q].at = "write" /\ req[q].name.word = n.word
  IN  /\ req[r].at = "write"
      /\ IF Same(n) \subseteq {u}
         THEN /\ name' = [name EXCEPT ![u] = n]
              /\ req' = [q \in Req |-> IF q = r THEN [req[r] EXCEPT !.at = "done"]
                                      ELSE [req[q] EXCEPT !.raced = @ \/ Races(q)]]
              /\ loose' = IF req[r].raced \/ (req[r].op = "register" /\ Alike(n) # {})
                       THEN loose \cup {u} ELSE loose \ {u}
         ELSE req' = [req EXCEPT ![r].at = "conflict"] /\ UNCHANGED <<name, loose>>
      /\ UNCHANGED deleted

\* An account is marked as deleted, by its user or the administration; it keeps its name.
Delete(u) == u \in Live /\ deleted' = deleted \cup {u} /\ UNCHANGED <<name, req, loose>>

Next ==
  \/ \E r \in Req, u \in User, n \in Name : Register(r, u, n) \/ Update(r, u, n)
  \/ \E r \in Req : Write(r)
  \/ \E u \in User : Delete(u)

Spec == Init /\ [][Next]_vars

-----------------------------------------------------------------------------
\* findByUserName, profile by name: the first that the database finds.
Page(n) == Alike(n)

\* linkMentions, notifyStoryMentions: the word in lower case, to the letter.
Mentioned(n) == {u \in Live : name[u] = [word |-> n.word, upper |-> FALSE]}

\* assertFree, update, findByUserName, linkMentions: one page per name, whatever its case,
\* unless an account came by it while another took the same, or in registration, which does mind
\* the case.  Whom a mention reaches is on the page of that name, and a user is reached by his
\* own name unless it has upper-case letters.
NamesAreKeptApart ==
  /\ \A u, v \in Live : u # v /\ name[u].word = name[v].word => {u, v} \cap loose # {}
  /\ \A n \in Name : Mentioned(n) \subseteq Page(n) /\ Cardinality(Mentioned(n)) <= 1
  /\ \A u \in Live : u \in Mentioned(name[u]) <=> ~name[u].upper

\* register, update: the unique index has to refuse what the check let pass only if the name
\* was taken since, or a deleted account has it, whom the check of update does not see.
RefusalsAreExplained ==
  [][\A r \in Req : req[r].at # "conflict" /\ req'[r].at = "conflict" =>
       req[r].raced \/ (req[r].op = "update" /\ Same(req[r].name) \cap deleted # {})]_vars
=============================================================================
