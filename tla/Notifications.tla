---------------------------- MODULE Notifications ----------------------------
(***************************************************************************)
(* The notifications of one user: NotificationsService.  A notification is *)
(* written, the unread ones are counted and the count is pushed in three   *)
(* calls; a group is marked read in two; the list is read page by page.    *)
(***************************************************************************)
EXTENDS Integers, Sequences, FiniteSets, FiniteSetsExt

CONSTANTS Key,     \* a type with its target: what groupKey makes one group of
          Handler, \* events and REST calls; each one is handled once
          MaxRows, \* bounds the notifications
          Window,  \* GROUP_WINDOW: how many rows a page looks at
          Limit    \* how many groups a page shows

VARIABLES row,   \* the notifications, the newest last; the id is the position
          hand,  \* the state of every handler
          badge, \* the count the user's socket was given last
          stale, \* history: the rows changed between that count and its push, or since
          page   \* a client that follows the cursors

vars == <<row, hand, badge, stale, page>>

Id == 1..MaxRows

Row == [key : Key, read : BOOLEAN]

\* count is what the handler has counted, ids what it will mark; passed (history): the rows
\* changed after it has counted.
Handling == [at : {"start", "count", "push", "mark", "end"}, count : 0..MaxRows,
             ids : SUBSET Id, passed : BOOLEAN]

Waiting == [at |-> "start", count |-> 0, ids |-> {}, passed |-> FALSE]

\* first (history): how many rows there were when the client asked for the first page.
Page == [at : {"start", "next", "end"}, cursor : 1..MaxRows + 1, seen : SUBSET Id, first : 0..MaxRows]

TypeOK ==
  /\ row \in Seq(Row) /\ Len(row) <= MaxRows
  /\ hand \in [Handler -> Handling]
  /\ badge \in 0..MaxRows /\ stale \in BOOLEAN /\ page \in Page

Unread == Cardinality({i \in DOMAIN row : ~row[i].read})

\* Some notifications are there from before, and the badge says how many are unread.
Init ==
  /\ row \in UNION {[1..n -> Row] : n \in 0..MaxRows - 1}
  /\ hand = [h \in Handler |-> Waiting]
  /\ badge = Unread /\ stale = FALSE
  /\ page = [at |-> "start", cursor |-> MaxRows + 1, seen |-> {}, first |-> 0]

-----------------------------------------------------------------------------
At(h, l) == hand[h].at = l

\* h becomes x; whoever has counted and not yet pushed is passed by.
PassBy(h, x) ==
  hand' = [g \in Handler |-> IF g = h THEN x
                              ELSE IF At(g, "push") THEN [hand[g] EXCEPT !.passed = TRUE] ELSE hand[g]]

\* create and notifySystem: the row...
Insert(h) ==
  /\ At(h, "start") /\ Len(row) < MaxRows
  /\ \E k \in Key : row' = Append(row, [key |-> k, read |-> FALSE])
  /\ PassBy(h, [Waiting EXCEPT !.at = "count"])
  /\ UNCHANGED <<badge, stale, page>>

\* ... then the fresh count...
Count(h) ==
  /\ At(h, "count")
  /\ hand' = [hand EXCEPT ![h] = [@ EXCEPT !.at = "push", !.count = Unread]]
  /\ UNCHANGED <<row, badge, stale, page>>

\* Mutant: a row less is counted.
PushWithoutOwn(h) ==
  /\ At(h, "push")
  /\ badge' = hand[h].count - 1 /\ stale' = hand[h].passed
  /\ hand' = [hand EXCEPT ![h].at = "end"]
  /\ UNCHANGED <<row, page>>

\* ... and the push of both.
Push(h) ==
  /\ At(h, "push")
  /\ badge' = hand[h].count /\ stale' = hand[h].passed
  /\ hand' = [hand EXCEPT ![h].at = "end"]
  /\ UNCHANGED <<row, page>>

\* The error of a failing count is logged: the row is there, nothing is pushed.
CountFails(h) ==
  /\ At(h, "count")
  /\ hand' = [hand EXCEPT ![h].at = "end"] /\ stale' = TRUE
  /\ UNCHANGED <<row, badge, page>>

\* markRead: the row, then the ids of its group...
MarkFind(h) ==
  /\ At(h, "start")
  /\ \E i \in DOMAIN row :
       hand' = [hand EXCEPT ![h] = [@ EXCEPT !.at = "mark",
                                     !.ids = {j \in DOMAIN row : row[j].key = row[i].key}]]
  /\ UNCHANGED <<row, badge, stale, page>>

\* The rows in ids are read by now; the badge is not pushed again.
Read(h, ids) ==
  /\ row' = [i \in DOMAIN row |-> IF i \in ids THEN [row[i] EXCEPT !.read = TRUE] ELSE row[i]]
  /\ IF row' # row THEN stale' = TRUE /\ PassBy(h, [Waiting EXCEPT !.at = "end"])
                   ELSE UNCHANGED stale /\ hand' = [hand EXCEPT ![h].at = "end"]
  /\ UNCHANGED <<badge, page>>

\* ... and the update of those ids.
Mark(h) == At(h, "mark") /\ Read(h, hand[h].ids)

MarkAll(h) == At(h, "start") /\ Read(h, DOMAIN row)

-----------------------------------------------------------------------------
\* The rows that a page looks at: the newest ones before the cursor.
Looked(cursor) ==
  {i \in DOMAIN row : i < cursor /\ Cardinality({j \in DOMAIN row : i < j /\ j < cursor}) < Window}

Keys(S) == {row[i].key : i \in S}

Newest(k, S) == Max({i \in S : row[i].key = k})

\* The groups that fit, the one with the newest row first.
Fitting(S) ==
  {k \in Keys(S) : Cardinality({l \in Keys(S) : Newest(l, S) > Newest(k, S)}) < Limit}

HasMore(S) == Cardinality(Keys(S)) > Limit \/ Cardinality(S) = Window

\* Mutant: the next page begins below all the rows that were looked at.
CursorBelow(S) == Min(S)

\* The next page begins below the oldest row of the groups shown.
Cursor(S) == Min({i \in S : row[i].key \in Fitting(S)})

\* list, once or with the cursor of the page before.
List ==
  LET S == Looked(page.cursor)
  IN  /\ page.at # "end"
      /\ page' = [at     |-> IF HasMore(S) THEN "next" ELSE "end",
                  cursor |-> IF HasMore(S) THEN Cursor(S) ELSE page.cursor,
                  seen   |-> page.seen \cup {i \in S : row[i].key \in Fitting(S)},
                  first  |-> IF page.at = "start" THEN Len(row) ELSE page.first]
      /\ UNCHANGED <<row, hand, badge, stale>>

Next ==
  \/ \E h \in Handler :
       Insert(h) \/ Count(h) \/ Push(h) \/ CountFails(h) \/ MarkFind(h) \/ Mark(h) \/ MarkAll(h)
  \/ List

Spec == Init /\ [][Next]_vars

-----------------------------------------------------------------------------
\* create, notifySystem: once nothing is under way, the badge the user was given is the number
\* of the unread notifications, unless rows came or were marked after its count was taken.
BadgeIsExplained ==
  (\A h \in Handler : hand[h].at \in {"start", "mark", "end"}) => badge = Unread \/ stale

\* Row i lies between two rows of another group: the cursor can pass it by.
Enclosed(i) ==
  \E a, b \in DOMAIN row : a > i /\ i > b /\ row[a].key = row[b].key /\ row[a].key # row[i].key

\* list: whoever follows the cursors to the end has been shown every notification there was
\* at the first page, but for those between two rows of another group: if their own group
\* does not fit and the other one does, the cursor skips them.
PagesMissOnlyEnclosed ==
  page.at = "end" => \A i \in 1..page.first : i \in page.seen \/ Enclosed(i)
=============================================================================
