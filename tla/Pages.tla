------------------------------- MODULE Pages -------------------------------
(***************************************************************************)
(* A list that changes while a client reads it page by page.  Most lists   *)
(* of the API ask for one row more than a page shows and give the last row *)
(* shown as the cursor of the next page (buildCursorPage); the activity of *)
(* a user goes by time, the ranked feed and Explore by offset.             *)
(***************************************************************************)
EXTENDS Naturals, FiniteSets

CONSTANTS Item,       \* the rows, and the entries merged of several tables
          MaxPlace,   \* bounds the places a row can have in its list
          MaxChanges, \* bounds the changes while the client reads
          Limit       \* rows per page

VARIABLES list,   \* which list it is: how it is read, and what can happen to it
          state,  \* whether an item is in the list, out of it, not made yet, or deleted
          place,  \* its place in the order of the list: the greatest comes first
          secret, \* the items that the filter after the query keeps from the client
          page,   \* the client
          same,   \* history: the items in the list and in their place ever since the first page
          slips   \* history: what happened that makes a page miss or repeat an item

vars == <<list, state, place, secret, page, same, slips>>

Changes == {"add", "append", "insert", "hide", "show", "delete", "move"}

\* by: what the next page goes by; changes: what happens to its rows; filtered: rows are
\* taken out after the query, before the next page is decided upon.
List == [by : {"row", "time", "offset"}, changes : SUBSET Changes, filtered : BOOLEAN]

Lists(by, changes) == [by |-> by, changes |-> changes, filtered |-> FALSE]

Page == [at : {"start", "next", "end"}, cursor : Item \cup 0..MaxPlace, seen : [Item -> Nat]]

Slips == [changes : 0..MaxChanges, lost : Nat, again : Nat, cut : BOOLEAN, jumped : BOOLEAN]

TypeOK ==
  /\ list \in List
  /\ state \in [Item -> {"unmade", "in", "out", "deleted"}] /\ place \in [Item -> 0..MaxPlace]
  /\ secret \subseteq Item /\ page \in Page /\ same \subseteq Item /\ slips \in Slips

-----------------------------------------------------------------------------
\* The lists.  A row enters at the top where the order is that of creation; it leaves when it
\* stops to match the condition of the query, and may come back.
Posts     == {"add", "hide", "show", "delete"}
Drafts    == Lists("row", Posts)
Tags      == Lists("row", Posts)
Feed      == Lists("row", Posts)
Explore   == Lists("row", Posts)
My        == Lists("row", Posts)
Collabs   == Lists("row", Posts)
ByMusic   == Lists("row", Posts)
Remixes   == Lists("row", Posts)
Tagged    == Lists("row", Posts)
Favorites == Lists("row", Posts)
Reposts   == Lists("row", Posts)
Likes     == Lists("row", {"add", "delete"})
Blocked   == Lists("row", {"add", "delete"})
Places    == Lists("row", {"add", "delete"})
Speech    == Lists("row", {"add"})
Requests  == Lists("row", {"add", "hide", "delete"})
Followers == Lists("row", {"add", "delete"})
Reports   == Lists("row", {"add", "hide"})
Accounts  == Lists("row", {"add"})
\* A deleted message stays in the list, without its text.
Messages  == Lists("row", {"add"})
\* In the order of creation: a new one at the end.
Tracks    == Lists("row", {"append", "hide", "show"})
\* Pinning a row moves it to the top, unpinning moves it back.
Profile   == Lists("row", Posts \cup {"move"})
Comments  == Lists("row", {"add", "delete", "move"})
\* By name: a new one anywhere, a new name moves its user.
People    == Lists("row", {"insert", "hide", "move"})
\* The friends-only stories of the others are taken out after the query.
AddYours  == [Lists("row", {"add", "hide", "delete"}) EXCEPT !.filtered = TRUE]
\* Likes, comments, views and searches, by their time.
Activity  == Lists("time", {"add", "delete"})
\* The scores change with every like, view and hour.
Ranked    == Lists("offset", {"insert", "hide", "show", "delete", "move"})
Grid      == Lists("offset", {"insert", "hide", "show", "delete", "move"})

AllLists == {Drafts, Tags, Feed, Explore, My, Collabs, ByMusic, Remixes, Tagged, Favorites, Reposts,
             Likes, Blocked, Places, Speech, Requests, Followers, Reports, Accounts, Messages, Tracks,
             Profile, Comments, People, AddYours, Activity, Ranked, Grid}

Listed == {i \in Item : state[i] = "in"}

\* Only entries of different tables have the same time.
Init ==
  /\ list \in AllLists
  /\ state \in [Item -> {"unmade", "in"}]
  /\ place \in [Item -> 0..MaxPlace]
  /\ \A i \in Item : place[i] = 0 <=> state[i] = "unmade"
  /\ list.by # "time" => \A i, j \in Listed : i # j => place[i] # place[j]
  /\ secret \in IF list.filtered THEN SUBSET Item ELSE {{}}
  /\ page = [at |-> "start", cursor |-> 0, seen |-> [i \in Item |-> 0]]
  /\ same = {}
  /\ slips = [changes |-> 0, lost |-> 0, again |-> 0, cut |-> FALSE, jumped |-> FALSE]

-----------------------------------------------------------------------------
\* The n first rows of S in the order of the list; any of those that share the last place.
Tops(n, S) ==
  {T \in SUBSET S : Cardinality(T) = (IF Cardinality(S) < n THEN Cardinality(S) ELSE n)
                    /\ \A i \in T, j \in S \ T : place[i] >= place[j]}

Last(S) == CHOOSE i \in S : \A j \in S : place[i] <= place[j]

\* Mutant: the row of the cursor is not passed over.
From(i) == IF state[i] = "deleted" THEN {} ELSE {j \in Listed : place[j] <= place[i]}

\* The database: cursor and skip 1.  It starts at the place that the cursor's row has now and
\* passes over one row; if the cursor's row is deleted, there is nothing.
After(i) ==
  IF state[i] = "deleted" THEN {}
  ELSE LET S == {j \in Listed : place[j] <= place[i]}
       IN  S \ UNION Tops(1, S)

\* What the query of the next page ranges over.
Ahead ==
  IF page.at = "start" THEN Listed
  ELSE CASE list.by = "row"    -> After(page.cursor)
         [] list.by = "time"   -> {i \in Listed : place[i] < page.cursor}
         [] list.by = "offset" -> Listed \ UNION Tops(page.cursor, Listed)

\* The client is shown T, and goes on at c if there is more.
Show(T, more, c) ==
  page' = [at     |-> IF more THEN "next" ELSE "end",
           cursor |-> IF more THEN c ELSE page.cursor,
           seen   |-> [i \in Item |-> IF i \in T THEN page.seen[i] + 1 ELSE page.seen[i]]]

\* buildCursorPage: a row more than the page shows says that there is a next page, and the
\* last row shown is its cursor.  The rows that are filtered out count as not there.
BuildCursorPage ==
  \E F \in Tops(Limit + 1, Ahead) :
    LET shown == F \ secret
    IN  \E T \in Tops(Limit, shown) :
          /\ Show(T, Cardinality(shown) > Limit, IF T = {} THEN 0 ELSE Last(T))
          /\ slips' = [slips EXCEPT
               !.lost = @ + (IF page.at = "next" /\ state[page.cursor] = "out" THEN 1 ELSE 0),
               !.cut  = @ \/ (page.at = "next" /\ state[page.cursor] = "deleted")
                          \/ (Cardinality(F) > Limit /\ F \cap secret # {})]

\* activity: the client goes on below the time of the last entry, until nothing comes.
TakeByTime ==
  /\ \E T \in Tops(Limit, Ahead) : Show(T, T # {}, IF T = {} THEN 0 ELSE place[Last(T)])
  /\ UNCHANGED slips

\* feed and explore: a slice of the order as it is now.
Slice ==
  /\ \E T \in Tops(Limit, Ahead) : Show(T, Cardinality(Ahead) > Limit, page.cursor + Limit)
  /\ UNCHANGED slips

NextPage ==
  /\ page.at # "end"
  /\ CASE list.by = "row"    -> BuildCursorPage
       [] list.by = "time"   -> TakeByTime
       [] list.by = "offset" -> Slice
  /\ same' = IF page.at = "start" THEN Listed ELSE same
  /\ UNCHANGED <<list, state, place, secret>>

-----------------------------------------------------------------------------
Reading == page.at = "next" /\ slips.changes < MaxChanges

\* Among the first rows, as many as the offset says, for a row of the list that has place p.
InPart(i, p) == Cardinality({j \in Listed \ {i} : place[j] > p}) < page.cursor

\* By offset an item that leaves the part already read loses one, and one that enters it
\* repeats one; by row only the cursor matters.
Changed(i, s, p) ==
  LET before == list.by = "offset" /\ state[i] = "in" /\ InPart(i, place[i])
      after  == list.by = "offset" /\ s = "in" /\ InPart(i, p)
  IN  /\ state' = [state EXCEPT ![i] = s] /\ place' = [place EXCEPT ![i] = p]
      /\ slips' = [slips EXCEPT !.changes = @ + 1,
                                !.lost = @ + (IF before /\ ~after THEN 1 ELSE 0),
                                !.again = @ + (IF after /\ ~before THEN 1 ELSE 0),
                                !.jumped = @ \/ (list.by = "row" /\ i = page.cursor /\ p # place[i])]
      /\ same' = same \ {i}
      /\ UNCHANGED <<list, secret, page>>

Free == {p \in 1..MaxPlace : \A j \in Item : state[j] \in {"in", "out"} => place[j] # p}

Add(i) ==
  /\ Reading /\ "add" \in list.changes /\ state[i] = "unmade"
  /\ \E p \in Free : (\A j \in Item : state[j] \in {"in", "out"} => place[j] < p) /\ Changed(i, "in", p)

Append(i) ==
  /\ Reading /\ "append" \in list.changes /\ state[i] = "unmade"
  /\ \E p \in Free : (\A j \in Item : state[j] \in {"in", "out"} => place[j] > p) /\ Changed(i, "in", p)

Insert(i) ==
  /\ Reading /\ "insert" \in list.changes /\ state[i] = "unmade"
  /\ \E p \in Free : Changed(i, "in", p)

Hide(i) == Reading /\ "hide" \in list.changes /\ state[i] = "in" /\ Changed(i, "out", place[i])

Reappear(i) == Reading /\ "show" \in list.changes /\ state[i] = "out" /\ Changed(i, "in", place[i])

Delete(i) == Reading /\ "delete" \in list.changes /\ state[i] = "in" /\ Changed(i, "deleted", place[i])

Move(i) ==
  /\ Reading /\ "move" \in list.changes /\ state[i] = "in"
  /\ \E p \in Free : Changed(i, "in", p)

Next == NextPage \/ \E i \in Item : Add(i) \/ Append(i) \/ Insert(i) \/ Hide(i) \/ Reappear(i) \/ Delete(i) \/ Move(i)

Spec == Init /\ [][Next]_vars

-----------------------------------------------------------------------------
Missed == {i \in same \ secret : page.seen[i] = 0}

Twice == {i \in same : page.seen[i] > 1}

\* buildCursorPage, activity, feed, explore: a client that follows the cursors to the end has
\* been shown every row that was in the list and in its place all along, exactly once.  But
\* by row, one is missed for each page whose cursor has left the list, and the rest if it was
\* deleted or a filtered page looked like the last; by time, those that share the time of the
\* last one shown; by offset, one for each that left the part read, and one comes twice for
\* each that entered it.  A cursor that was moved takes the client with it.
PagesAreComplete ==
  page.at = "end" =>
    CASE list.by = "row"    -> /\ slips.jumped \/ Twice = {}
                               /\ slips.jumped \/ slips.cut \/ Cardinality(Missed) <= slips.lost
      [] list.by = "time"   -> /\ Twice = {}
                               /\ \A i \in Missed : \E j \in Item : page.seen[j] = 1 /\ place[j] = place[i]
      [] list.by = "offset" -> Cardinality(Missed) <= slips.lost /\ Cardinality(Twice) <= slips.again
=============================================================================
