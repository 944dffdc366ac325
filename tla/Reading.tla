------------------------------ MODULE Reading -------------------------------
(***************************************************************************)
(* What the lists and pages of the server hand out.  One user asks for     *)
(* one list; one item (a post, a story, a note, a live stream) is or is    *)
(* not in the answer.  The feeds, the rail, the explore grid, the tabs of  *)
(* a profile and the routes by id each ask their own tables in their own   *)
(* order, one awaited call after the other, while the graph (Audience) and *)
(* the item change.                                                        *)
(***************************************************************************)
EXTENDS Audience, Sequences

CONSTANTS Viewer, None

VARIABLES item,   \* the row the answer is about
          get,    \* the request
          could,  \* history: whose content could be seen at some moment of the request
          near,   \* history: whose close friend the viewer was at some moment of it
          odd,    \* history: who was followed and blocked at once at some moment of it
          shifts  \* history: what changed during it: a block with someone, or the item

history == <<could, near, odd, shifts>>
vars == <<graph, item, get, history>>

User == Other \cup {Viewer}

\* tab: in whose profile the post is too (collaborator, tagged, reposted); mine: the viewer has
\* saved it, is a collaborator, or is asked to confirm a tag or an invitation; only: for close
\* friends.
Item == [kind : {"post", "story", "note", "live"}, author : User, tab : Other \cup {None},
         mine : BOOLEAN, draft : BOOLEAN, archived : BOOLEAN, only : BOOLEAN, expired : BOOLEAN]

Blank == [kind |-> "live", author |-> Viewer, tab |-> None, mine |-> FALSE,
          draft |-> FALSE, archived |-> FALSE, only |-> FALSE, expired |-> FALSE]

\* The awaited reads of every list, in their order.
Gate == <<"block", "privacy", "follow">>

Reads ==
  [feed       |-> <<"authors", "rows", "load">>, suggested |-> <<"authors", "hidden", "rows">>,
   explore    |-> <<"hidden", "rows">>,          tab       |-> Gate \o <<"rows">>,
   my         |-> <<"rows">>,                    kept      |-> <<"rows">>,
   post       |-> <<"rows">> \o Gate,            react     |-> <<"rows">> \o Gate,
   comments   |-> <<"rows">> \o Gate,
   rail       |-> <<"authors", "close", "rows">>, byUser   |-> Gate \o <<"rows", "friend">>,
   story      |-> <<"rows">> \o Gate \o <<"friend">>, addYours |-> <<"hidden", "rows", "friend">>,
   highlight  |-> Gate \o <<"rows">>,
   notes      |-> <<"authors", "hidden", "close", "rows">>,
   note       |-> <<"rows">> \o Gate \o <<"friend">>,
   lives      |-> <<"rows">>,                    live      |-> <<"row", "block", "follow">>]

List == DOMAIN Reads

ListsOf == [post  |-> {"feed", "suggested", "explore", "tab", "my", "kept", "post", "react", "comments"},
            story |-> {"rail", "byUser", "story", "addYours", "highlight"},
            note  |-> {"notes", "note"}, live |-> {"lives", "live"}]

\* todo: the reads to come; authors, hidden, friends: what earlier ones have returned;
\* target: whose profile or content is asked for; closed: the account was private when read.
Request == [todo : Seq({"authors", "hidden", "close", "block", "privacy", "follow", "row", "rows",
                        "load", "friend"}),
            list : List \cup {"none"}, target : User \cup {None}, authors : SUBSET User,
            hidden : SUBSET Other, friends : SUBSET Other, closed : BOOLEAN, shown : BOOLEAN]

Idle == [todo |-> <<>>, list |-> "none", target |-> None, authors |-> {}, hidden |-> {},
         friends |-> {}, closed |-> FALSE, shown |-> FALSE]

TypeOK ==
  /\ GraphTypeOK /\ item \in Item /\ get \in Request
  /\ could \subseteq Other /\ near \subseteq Other /\ odd \subseteq Other
  /\ shifts \subseteq Other \cup {"archived", "expired"}

\* Who matters to the answer.
Asked == {get.target, item.author} \ {Viewer}

\* A list that can hold the item is asked for, on any graph that Audience can lead to.  The gate
\* is asked about the owner of the profile, or about the author.
Init ==
  /\ \E a \in User, t \in Other \cup {None}, b, c, d \in BOOLEAN :
       t # a /\ item \in {[Blank EXCEPT !.author = a],
                         [Blank EXCEPT !.kind = "post", !.author = a, !.tab = t, !.mine = b,
                                       !.draft = c, !.archived = d],
                         [Blank EXCEPT !.kind = "story", !.author = a, !.only = b, !.expired = c],
                         [Blank EXCEPT !.kind = "note", !.author = a, !.only = b, !.expired = c]}
  /\ \E l \in ListsOf[item.kind] :
       \E t \in IF l = "tab" THEN {item.author, item.tab} \ {None} ELSE {item.author} :
         get = [Idle EXCEPT !.list = l, !.target = t, !.todo = Reads[l]]
  /\ follow \in SUBSET Asked /\ block \in SUBSET Asked
  /\ close \in (IF item.only THEN SUBSET Asked ELSE {{}}) /\ private \in SUBSET Asked
  /\ could = {x \in Asked : CanView(x)} /\ near = close
  /\ odd = follow \cap block /\ shifts = {}

-----------------------------------------------------------------------------
At(read) == get.todo # <<>> /\ Head(get.todo) = read

Own == item.author = Viewer

\* The read is done and leaves x; without an answer the request is over.
Done(x) == get' = [x EXCEPT !.todo = Tail(@), !.shown = Len(get.todo) = 1]

Refuse == get' = [get EXCEPT !.todo = <<>>]

Pass(ok) == IF ok THEN Done(get) ELSE Refuse

\* The accepted follows of the viewer, and the viewer.
ReadAuthors == At("authors") /\ Done([get EXCEPT !.authors = follow \cup {Viewer}])

\* AccessService.blockedIds.
ReadHidden == At("hidden") /\ Done([get EXCEPT !.hidden = block])

\* Whose close friend the viewer is.
ReadClose == At("close") /\ Done([get EXCEPT !.friends = close])

\* AccessService.canViewContent, of the owner of the profile or the author: no block...
NotBlocked == At("block") /\ Pass(get.target \notin block)

\* ... a public account...
ReadPrivacy == At("privacy") /\ Done([get EXCEPT !.closed = get.target \in private])

\* ... or one that the viewer follows; one's own content is neither blocked nor closed.
IsFollowing == At("follow") /\ Pass(~get.closed \/ get.target \in follow)

\* The item is for everybody, the viewer's own, or for close friends of whom the viewer is one.
ForFriends(friends) == item.only => Own \/ item.author \in friends

\* filterCloseFriends, assertAudience and the end of loadVisible.
IsClose == At("friend") /\ Pass(ForFriends(close))

-----------------------------------------------------------------------------
\* The selection every list makes.
Select(l, ok) == get.list = l /\ At("rows") /\ Pass(ok)

\* Mutant: what is archived is left in.
NotADraft == ~item.draft

Published == ~item.draft /\ ~item.archived

\* In one query: a public account or a follow.
Open == item.author \notin private \/ item.author \in follow

Feed == Select("feed", Published /\ item.author \in get.authors)

\* loadPostsInOrder: the rows of the page, by their ids.
Load == At("load") /\ Done(get)

\* Neither the viewer's nor of an author followed or blocked.
Suggested ==
  Select("suggested", Published /\ item.author \notin get.authors \cup get.hidden \cup private)

\* Mutant: private accounts are left in.
ExploreAll == Select("explore", Published /\ item.author \notin get.hidden \cup {Viewer})

\* Explore, reels, a hashtag, a place, a tune, the remixes of a reel.
Explore == Select("explore", Published /\ item.author \notin get.hidden \cup {Viewer} /\ Open)

\* Posts of a profile, where it is tagged, its reposts.
Tab == Select("tab", Published /\ get.target \in {item.author, item.tab})

\* Own posts, also archived ones and drafts; and those of which the viewer is a collaborator.
My == Select("my", Own \/ (item.mine /\ ~item.draft))

\* Saved posts; tags and invitations to confirm.
Kept == Select("kept", Published /\ item.mine)

\* A post by its id.
Post == Select("post", ~item.draft \/ Own)

\* To like, save, repost, share or report it.
React == Select("react", ~item.draft)

\* Its comments, to read or to write.
Comments == Select("comments", TRUE)

Rail == Select("rail", ~item.expired /\ item.author \in get.authors /\ ForFriends(get.friends))

ByUser == Select("byUser", ~item.expired)

Story == Select("story", TRUE)

AddYours == Select("addYours", ~item.expired /\ item.author \notin get.hidden /\ (Open \/ Own))

\* What a highlight holds.
Highlight == Select("highlight", TRUE)

Notes ==
  Select("notes", ~item.expired /\ item.author \in get.authors \ get.hidden /\ ForFriends(get.friends))

Note == Select("note", TRUE)

\* The active streams of those whom the viewer follows.
Lives == Select("lives", item.author \in follow)

\* A stream and its host's privacy; the block and the follow come next.
Live == At("row") /\ Done([get EXCEPT !.closed = item.author \in private])

-----------------------------------------------------------------------------
\* The graph changes, as far as it matters; a block or its end is remembered.
GraphChanges ==
  /\ get.todo # <<>>
  /\ Change(Asked) /\ (close' = close \/ item.only)
  /\ shifts' = shifts \cup {x \in Asked : (x \in block) # (x \in block)'}
  /\ UNCHANGED <<item, get>>

\* The author archives the post or takes it back, or publishes it; time passes.
ItemChanges ==
  /\ get.todo # <<>>
  /\ \/ /\ item.kind = "post"
        /\ \/ item' = [item EXCEPT !.archived = ~@] /\ shifts' = shifts \cup {"archived"}
           \/ item' = [item EXCEPT !.draft = FALSE] /\ item.draft /\ UNCHANGED shifts
     \/ /\ item.kind \in {"story", "note"} /\ ~item.expired
        /\ item' = [item EXCEPT !.expired = TRUE]
        /\ shifts' = shifts \cup {"expired"}
  /\ UNCHANGED <<graph, get>>

\* What can be seen now adds to what could be seen.
Look ==
  /\ could' = could \cup {x \in Asked : CanView(x)'}
  /\ near' = near \cup close'
  /\ odd' = odd \cup (follow' \cap block')

Read ==
  /\ \/ ReadAuthors \/ ReadHidden \/ ReadClose \/ NotBlocked \/ ReadPrivacy \/ IsFollowing \/ IsClose
     \/ Feed \/ Load \/ Suggested \/ Explore \/ Tab \/ My \/ Kept \/ Post \/ React \/ Comments
     \/ Rail \/ ByUser \/ Story \/ AddYours \/ Highlight \/ Notes \/ Note \/ Lives \/ Live
  /\ UNCHANGED <<graph, item, shifts>>

Next == (Read \/ GraphChanges \/ ItemChanges) /\ Look

Spec == Init /\ [][Next]_vars

-----------------------------------------------------------------------------
\* In the profile of another one whose content could be seen, or by the viewer's own doing.
Invited ==
  \/ get.list \in {"my", "kept"}
  \/ get.list = "tab" /\ get.target = item.tab /\ get.target \in could \cup shifts

\* Every list, one question each: what is handed out could be seen, as canViewContent has it, at
\* some moment since it was asked for, unless a block came or went meanwhile, a follow has
\* survived a block where only follows are asked for, or somebody who could be seen, or the
\* viewer, has put the post elsewhere.
PrivateStaysPrivate ==
  get.shown /\ ~Own =>
    \/ item.author \in could \cup shifts
    \/ get.list \in {"feed", "rail", "lives"} /\ item.author \in odd
    \/ Invited

\* What is for close friends was handed out to one, as of some moment since it was asked for,
\* or from a highlight, which does not ask.
FriendsOnly ==
  get.shown /\ item.only /\ ~Own => item.author \in near \/ get.list = "highlight"

\* Nobody else is shown a draft, but for its comments; what is archived is out of all lists but
\* a collaborator's own archive, if not of the routes by id, and what has expired out of those
\* that do not hold it for good.
WithdrawnIsGone ==
  get.shown /\ ~Own =>
    /\ item.draft => get.list = "comments"
    /\ item.archived => "archived" \in shifts \/ get.list \in {"post", "react", "comments", "my"}
    /\ item.expired => "expired" \in shifts \/ get.list \in {"story", "note", "highlight"}

\* canViewContent, assertAudience and the lists that filter for themselves: what an author shows to
\* followers or close friends reaches nobody else, with the exceptions above.
AudienceIsKept == PrivateStaysPrivate /\ FriendsOnly
=============================================================================
