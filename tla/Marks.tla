------------------------------- MODULE Marks -------------------------------
(***************************************************************************)
(* What users leave on an item of somebody else: likes, reposts,           *)
(* favourites, views, saves.  A toggle reads whether there is a row and    *)
(* then deletes that row by its id or creates one; the pair of item and    *)
(* user is unique in all tables but that of the profile views.             *)
(***************************************************************************)
EXTENDS Naturals, FiniteSets

CONSTANTS User, \* those who mark the item
          Req,  \* requests, numbered as they come
          None

VARIABLES kind, \* which table it is
          item, \* whether the item is there
          row,  \* the rows of each user, by their ids
          made, \* how many rows there were ever: the id of the next one
          old,  \* the rows that are more than a day old
          req,  \* the state of every request
          turns \* history: how often the mark of each user was turned, by answers to come or given

vars == <<kind, item, row, made, old, req, turns>>

\* toggles: a second tap takes the mark back; direct: set and taken back in one statement each;
\* unique: one row per user; counts: the answer says how many rows there are.
Kind == [toggles : BOOLEAN, direct : BOOLEAN, unique : BOOLEAN, counts : BOOLEAN]

Toggle(counts) == [toggles |-> TRUE, direct |-> FALSE, unique |-> TRUE, counts |-> counts]
Direct == [toggles |-> FALSE, direct |-> TRUE, unique |-> TRUE, counts |-> FALSE]

PostLike    == Toggle(TRUE)
CommentLike == Toggle(TRUE)
StoryLike   == Toggle(TRUE)
NoteLike    == Toggle(TRUE)
Repost      == Toggle(TRUE)
Favorite    == Toggle(FALSE)
PostView    == [Toggle(TRUE) EXCEPT !.toggles = FALSE]
ProfileView == [Toggle(FALSE) EXCEPT !.toggles = FALSE, !.unique = FALSE]
StoryView   == Direct
SavedMusic  == Direct
Restricted  == Direct
Searched    == Direct
MessageReaction == Direct

Kinds == {PostLike, CommentLike, StoryLike, NoteLike, Repost, Favorite,
          PostView, ProfileView, StoryView, SavedMusic, Restricted, Searched, MessageReaction}

Id == 1..Cardinality(User) + Cardinality(Req)

\* found: the row that was read, by id, 0 for none; alone (history): no other request of the
\* user was under way; passed (history): a row was written after the own write.
Request == [at : {"start", "write", "count", "done", "failed"}, user : User \cup {None},
            found : {0} \cup Id, alone : BOOLEAN, passed : BOOLEAN, marked : BOOLEAN, count : Nat]

Fresh == [at |-> "start", user |-> None, found |-> 0, alone |-> TRUE, passed |-> FALSE,
          marked |-> FALSE, count |-> 0]

TypeOK ==
  /\ kind \in Kind /\ item \in BOOLEAN /\ made \in Nat
  /\ row \in [User -> SUBSET Id] /\ old \subseteq Id /\ req \in [Req -> Request] /\ turns \in [User -> Nat]

Init ==
  /\ kind \in Kinds /\ item = TRUE
  /\ row = [u \in User |-> {}] /\ made = 0 /\ old = {}
  /\ req = [r \in Req |-> Fresh] /\ turns = [u \in User |-> 0]

-----------------------------------------------------------------------------
At(r, l) == req[r].at = l

\* The next request to come is r.
Comes(r) == At(r, "start") /\ \A q \in Req : q < r => ~At(q, "start")

Busy(r) == req[r].at \in {"write", "count"}

\* What the request reads of its user: any row, of the profile views one of the last day.
Readable(u) == IF kind.unique THEN row[u] ELSE row[u] \ old

\* The item is visible, and the request has read whether the user has a row.
Find(r, u) ==
  /\ Comes(r) /\ ~kind.direct /\ item
  /\ \E f \in IF Readable(u) = {} THEN {0} ELSE Readable(u) :
       LET alone == \A q \in Req : Busy(q) => req[q].user # u
       IN  req' = [q \in Req |->
             IF q = r THEN [Fresh EXCEPT !.at = "write", !.user = u, !.found = f, !.alone = alone]
             ELSE IF Busy(q) /\ req[q].user = u THEN [req[q] EXCEPT !.alone = FALSE] ELSE req[q]]
  /\ UNCHANGED <<kind, item, row, made, old, turns>>

\* r has written; who counts has not counted this one if he counts before it.
Written(r, marked) ==
  req' = [q \in Req |->
    IF q = r THEN [req[r] EXCEPT !.at = IF kind.counts THEN "count" ELSE "done", !.marked = marked]
    ELSE IF At(q, "count") THEN [req[q] EXCEPT !.passed = TRUE] ELSE req[q]]

Fails(r) == req' = [req EXCEPT ![r].at = "failed"] /\ UNCHANGED <<row, made, turns>>

\* Mutant: deleteMany does not mind that there is nothing to delete.
UnmarkMany(r) ==
  LET u == req[r].user
  IN  /\ At(r, "write") /\ req[r].found # 0 /\ kind.toggles
      /\ row' = [row EXCEPT ![u] = @ \ {req[r].found}] /\ turns' = [turns EXCEPT ![u] = @ + 1]
      /\ Written(r, FALSE) /\ UNCHANGED <<kind, item, made, old>>

\* A second tap deletes the row that was read, or fails because it is gone.
Unmark(r) ==
  LET u == req[r].user
  IN  /\ At(r, "write") /\ req[r].found # 0 /\ kind.toggles
      /\ IF req[r].found \in row[u]
         THEN /\ row' = [row EXCEPT ![u] = @ \ {req[r].found}]
              /\ turns' = [turns EXCEPT ![u] = @ + 1]
              /\ Written(r, FALSE) /\ UNCHANGED made
         ELSE Fails(r)
      /\ UNCHANGED <<kind, item, old>>

\* A first tap creates a row and tells the author, or fails because the user has one by now,
\* or the item is gone.
Mark(r) ==
  LET u == req[r].user
  IN  /\ At(r, "write") /\ req[r].found = 0
      /\ IF item /\ (kind.unique => row[u] = {})
         THEN /\ row' = [row EXCEPT ![u] = @ \cup {made + 1}] /\ made' = made + 1
              /\ turns' = [turns EXCEPT ![u] = @ + 1]
              /\ Written(r, TRUE)
         ELSE Fails(r)
      /\ UNCHANGED <<kind, item, old>>

\* view and trackProfileView: a row is there already, and nothing is written.
Keep(r) ==
  /\ At(r, "write") /\ req[r].found # 0 /\ ~kind.toggles
  /\ req' = [req EXCEPT ![r].at = IF kind.counts THEN "count" ELSE "done"]
  /\ UNCHANGED <<kind, item, row, made, old, turns>>

\* The answer: whether it is marked now, and how many rows there are.
Count(r) ==
  /\ At(r, "count")
  /\ req' = [req EXCEPT ![r].at = "done",
                        ![r].count = Cardinality(UNION {{u} \X row[u] : u \in User})]
  /\ UNCHANGED <<kind, item, row, made, old, turns>>

\* upsert, and deleteMany (or a delete whose error is dropped): both may find it done.
Set(r, u) ==
  /\ Comes(r) /\ kind.direct /\ item
  /\ IF row[u] = {} THEN row' = [row EXCEPT ![u] = {made + 1}] /\ made' = made + 1
                    ELSE UNCHANGED <<row, made>>
  /\ req' = [req EXCEPT ![r] = [Fresh EXCEPT !.at = "done", !.user = u, !.marked = TRUE]]
  /\ UNCHANGED <<kind, item, old, turns>>

Take(r, u) ==
  /\ Comes(r) /\ kind.direct
  /\ row' = [row EXCEPT ![u] = {}]
  /\ req' = [req EXCEPT ![r] = [Fresh EXCEPT !.at = "done", !.user = u]]
  /\ UNCHANGED <<kind, item, made, old, turns>>

\* The item is deleted, and its rows with it.
DeleteItem ==
  /\ item /\ item' = FALSE
  /\ row' = [u \in User |-> {}]
  /\ req' = [q \in Req |-> IF At(q, "count") THEN [req[q] EXCEPT !.passed = TRUE] ELSE req[q]]
  /\ UNCHANGED <<kind, made, old, turns>>

DayPasses == ~kind.unique /\ old' = 1..made /\ old' # old /\ UNCHANGED <<kind, item, row, made, req, turns>>

Next ==
  \/ \E r \in Req : Unmark(r) \/ Mark(r) \/ Keep(r) \/ Count(r)
  \/ \E r \in Req, u \in User : Find(r, u) \/ Set(r, u) \/ Take(r, u)
  \/ DeleteItem \/ DayPasses

Spec == Init /\ [][Next]_vars

-----------------------------------------------------------------------------
Twofold(u) == \E r \in Req : req[r].user = u /\ ~req[r].alone

\* toggleLike, toggleRepost, toggleFavorite, view, trackProfileView: every answer that a mark
\* was turned has turned it, however the taps of a user overlap: he has the mark if it was
\* turned an odd number of times.  He has one row; of the profile views one a day, or more if
\* two were under way at once.  A count that answers a like has that like in it, unless rows
\* were written in between.  A tap fails only if the user has tapped twice at once, or if the
\* item is gone.
MarksAgree ==
  /\ kind.toggles /\ item => \A u \in User : row[u] # {} <=> turns[u] % 2 = 1
  /\ \A u \in User : Cardinality(row[u] \ old) > 1 => ~kind.unique /\ Twofold(u)
  /\ kind.unique => \A u \in User : Cardinality(row[u]) <= 1
  /\ \A r \in Req : At(r, "done") /\ kind.counts /\ req[r].marked /\ ~req[r].passed => req[r].count > 0
  /\ \A r \in Req : At(r, "failed") => ~item \/ ~req[r].alone
=============================================================================
