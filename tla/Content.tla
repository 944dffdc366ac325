------------------------------- MODULE Content -------------------------------
(***************************************************************************)
(* A post on its way out (Publishing), and side by side with it how users  *)
(* upload their files, and find, mark, answer and play what others have    *)
(* put out: one of the components takes its steps while the others rest in *)
(* an initial state.                                                       *)
(***************************************************************************)
EXTENDS Publishing, Integers, Sequences

CONSTANTS
  Item, MaxPlace, MaxChanges, Limit, \* Pages
  User, Other,                       \* users of a component, and one more, the author or viewer
  Call,                              \* their requests, numbered as they come
  MaxFiles,                          \* Pictures
  Option,                            \* Stickers
  MaxFeed, MaxExplore,               \* Ranking
  Track, MaxVersions, MaxSize        \* Tracks

ASSUME OtherIsApart == Other \notin User /\ None \notin User \cup {Other}
ASSUME CallsAreNumbered == Call \subseteq Nat
ASSUME NoneIsNothing == None \notin (Call \X Nat) \cup Track \cup Int \cup Option \cup [User \cup {Other} -> 0..2]
ASSUME SizesAreNumbers == MaxSize \in Nat /\ {MaxFeed, MaxExplore, MaxPlace} \subseteq Nat /\ Limit \in Nat \ {0}
ASSUME RowsAreFinite == IsFiniteSet(Item) /\ IsFiniteSet(User) /\ IsFiniteSet(Option)

VARIABLES
  part,
  list, state, place, secret, page, same, slips,  \* Pages
  table, item, row, made, day, tap, turns,        \* Marks
  stored, avatar, upload, missed, taken,          \* Pictures
  sticker, response, reply, tried, knowing,       \* Stickers
  order, candidate, near, rest, out,              \* Ranking
  version, track, keys, import, late              \* Tracks

P == INSTANCE Pages
K == INSTANCE Marks WITH kind <- table, old <- day, req <- tap, Req <- Call
A == INSTANCE Pictures WITH Req <- Call, req <- upload
Q == INSTANCE Stickers WITH User <- User \cup {Other}, Req <- Call, req <- reply
R == INSTANCE Ranking WITH Author <- User \cup {Other}, Viewer <- Other, kind <- order, post <- candidate
M == INSTANCE Tracks WITH Req <- Call, row <- track, req <- import

pvars == <<list, state, place, secret, page, same, slips>>
kvars == <<table, item, row, made, day, tap, turns>>
avars == <<stored, avatar, upload, missed, taken>>
qvars == <<sticker, response, reply, tried, knowing>>
rvars == <<order, candidate, near, rest, out>>
mvars == <<version, track, keys, import, late>>
published == <<pvars, kvars, avars, qvars, rvars, mvars>>
allvars == <<part,
             status, due, caption, links, count, told, uses, files, proc, faults, cause,
             list, state, place, secret, page, same, slips,
             table, item, row, made, day, tap, turns,
             stored, avatar, upload, missed, taken,
             sticker, response, reply, tried, knowing,
             order, candidate, near, rest, out,
             version, track, keys, import, late>>

\* A component at rest: in one of its initial states, for want of a step always the same one.
AtRest ==
  /\ part # "publishing" => status = "none"
  /\ part # "pages" => list = P!Speech /\ state = [i \in Item |-> "unmade"]
  /\ part # "marks" => table = K!PostLike
  /\ part # "stickers" => sticker = None
  /\ part # "ranking" =>
       order = "feed" /\ candidate = [i \in 1..MaxFeed |-> [author |-> Other, merit |-> 0, seen |-> FALSE]]
  /\ part # "tracks" => keys = FALSE

ContentInit ==
  /\ part \in {"publishing", "pages", "marks", "pictures", "stickers", "ranking", "tracks"} /\ AtRest
  /\ Init /\ P!Init /\ K!Init /\ A!Init /\ Q!Init /\ R!Init /\ M!Init

Publishes == part = "publishing" /\ Next /\ UNCHANGED published
Reads     == part = "pages" /\ P!Next /\ UNCHANGED <<vars, kvars, avars, qvars, rvars, mvars>>
Taps      == part = "marks" /\ K!Next /\ UNCHANGED <<vars, pvars, avars, qvars, rvars, mvars>>
Uploads   == part = "pictures" /\ A!Next /\ UNCHANGED <<vars, pvars, kvars, qvars, rvars, mvars>>
Replies   == part = "stickers" /\ Q!Next /\ UNCHANGED <<vars, pvars, kvars, avars, rvars, mvars>>
Ranks     == part = "ranking" /\ R!Next /\ UNCHANGED <<vars, pvars, kvars, avars, qvars, mvars>>
Plays     == part = "tracks" /\ M!Next /\ UNCHANGED <<vars, pvars, kvars, avars, qvars, rvars>>

ContentNext == (Publishes \/ Reads \/ Taps \/ Uploads \/ Replies \/ Ranks \/ Plays) /\ UNCHANGED part

\* The fairness of Publishing, the only component with a promise for the end.
ContentSpec == ContentInit /\ [][ContentNext]_allvars /\ Fairness

\* The properties of the components, each explained where it is defined.
ListsAgree == (part = "pages" => P!PagesAreComplete) /\ (part = "ranking" => R!RankingAgrees)
MarksAgree == part = "marks" => K!MarksAgree
StickersAgree == part = "stickers" => Q!StickersAgree
FilesAgree == (part = "pictures" => A!PicturesAgree) /\ (part = "tracks" => M!TracksAgree)
==============================================================================
