------------------------------- MODULE Threads -------------------------------
(***************************************************************************)
(* The comments of one post: CommentsService.  A comment answers a root    *)
(* comment, goes with all its answers, and the author of the post pins     *)
(* some; each handler reads first and writes in another call.              *)
(***************************************************************************)
EXTENDS Naturals, FiniteSets

CONSTANTS Comment, \* ids of comments, handed out once
          Req,     \* REST calls; each one is handled once
          MaxPins, \* how many comments may be pinned: 3 in the code
          None

VARIABLES comment, \* the comments of the post
          req,     \* the state of every request
          crowded  \* history: two pins counted before either had pinned

vars == <<comment, req, crowded>>

CommentRow == [status : {"absent", "there", "gone"}, parent : Comment \cup {None}, pinned : BOOLEAN]

\* The comment that is answered, or pinned; passed (history): another pin came after the count.
Request == [at : {"start", "add", "count", "pin", "unpin", "end"}, of : Comment \cup {None},
            passed : BOOLEAN]

TypeOK == comment \in [Comment -> CommentRow] /\ req \in [Req -> Request] /\ crowded \in BOOLEAN

Init ==
  /\ comment = [c \in Comment |-> [status |-> "absent", parent |-> None, pinned |-> FALSE]]
  /\ req = [r \in Req |-> [at |-> "start", of |-> None, passed |-> FALSE]]
  /\ crowded = FALSE

-----------------------------------------------------------------------------
At(r, l) == req[r].at = l

Become(r, l, c) == req' = [req EXCEPT ![r] = [at |-> l, of |-> c, passed |-> FALSE]]

There(c) == c # None /\ comment[c].status = "there"

Pins == {c \in Comment : There(c) /\ comment[c].pinned}

\* Mutant: an answer to an answer becomes its child.
RootIs(c) == c

\* The root of the thread that c is in.
Root(c) == IF comment[c].parent = None THEN c ELSE comment[c].parent

\* add and reply: the comment that is answered, or none...
AddRead(r) ==
  /\ At(r, "start")
  /\ \/ Become(r, "add", None)
     \/ \E c \in Comment : There(c) /\ Become(r, "add", Root(c))
  /\ UNCHANGED <<comment, crowded>>

\* ... and the insertion, which fails if that has gone.
Add(r) ==
  /\ At(r, "add") /\ Become(r, "end", None)
  /\ IF req[r].of = None \/ There(req[r].of)
     THEN \E c \in Comment :
            /\ comment[c].status = "absent"
            /\ comment' = [comment EXCEPT ![c] = [status |-> "there", parent |-> req[r].of,
                                                  pinned |-> FALSE]]
     ELSE UNCHANGED comment
  /\ UNCHANGED crowded

\* remove: the answers go by cascade.
Remove(r) ==
  /\ At(r, "start") /\ Become(r, "end", None)
  /\ \E c \in Comment :
       /\ There(c)
       /\ comment' = [d \in Comment |-> IF d = c \/ comment[d].parent = c
                                        THEN [comment[d] EXCEPT !.status = "gone"] ELSE comment[d]]
  /\ UNCHANGED crowded

\* pin: a comment that is pinned is unpinned...
PinRead(r) ==
  /\ At(r, "start")
  /\ \E c \in Comment : There(c) /\ Become(r, IF comment[c].pinned THEN "unpin" ELSE "count", c)
  /\ UNCHANGED <<comment, crowded>>

\* ... one that is not is pinned if there is room...
Count(r) ==
  /\ At(r, "count")
  /\ Become(r, IF Cardinality(Pins) < MaxPins THEN "pin" ELSE "end", req[r].of)
  /\ UNCHANGED <<comment, crowded>>

\* ... by its id, in another call.
Pin(r) ==
  LET c == req[r].of
  IN  /\ At(r, "pin")
      /\ comment' = IF There(c) THEN [comment EXCEPT ![c] = [@ EXCEPT !.pinned = TRUE]] ELSE comment
      /\ crowded' = (crowded \/ (There(c) /\ req[r].passed))
      /\ req' = [q \in Req |-> IF q = r THEN [req[r] EXCEPT !.at = "end"]
                                ELSE IF At(q, "pin") THEN [req[q] EXCEPT !.passed = TRUE] ELSE req[q]]

Unpin(r) ==
  LET c == req[r].of
  IN  /\ At(r, "unpin") /\ Become(r, "end", c)
      /\ comment' = IF There(c) THEN [comment EXCEPT ![c] = [@ EXCEPT !.pinned = FALSE]] ELSE comment
      /\ UNCHANGED crowded

Next ==
  \E r \in Req : AddRead(r) \/ Add(r) \/ Remove(r) \/ PinRead(r) \/ Count(r) \/ Pin(r) \/ Unpin(r)

Spec == Init /\ [][Next]_vars

-----------------------------------------------------------------------------
\* add, remove: whatever goes while an answer is written, every comment that is there is a root,
\* or answers a root that is there.
ThreadsAreFlat ==
  \A c \in Comment : There(c) /\ comment[c].parent # None =>
    There(comment[c].parent) /\ comment[comment[c].parent].parent = None

\* pin: no more comments are pinned than may be, unless two pins overlapped.
PinsAreLimited == Cardinality(Pins) > MaxPins => crowded

\* add, remove, pin: the comments keep their shape, with the exception above.
ThreadsKeepShape == ThreadsAreFlat /\ PinsAreLimited
==============================================================================
