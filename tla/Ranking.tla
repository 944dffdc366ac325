------------------------------ MODULE Ranking ------------------------------
(***************************************************************************)
(* The order of the ranked feed and of Explore.  A viewer asks for one of  *)
(* them; the candidates are scored with what Redis or the tables say of    *)
(* his interests, sorted, and in Explore spread out by author.             *)
(***************************************************************************)
EXTENDS Integers, Sequences, FiniteSets, FiniteSetsExt, SequencesExt

CONSTANTS Author,     \* those whom the viewer follows, and the viewer
          Viewer,     \* one of them
          MaxFeed,    \* bounds the candidates of the feed
          MaxExplore, \* bounds the candidates of Explore
          None

VARIABLES kind, \* "feed" or "explore"
          post, \* the candidates, by their ids
          near, \* how close each author is to the viewer, None before the order is made
          rest, \* dedupeAuthors: what is left of the order
          out   \* the answer as far as it is made

vars == <<kind, post, near, rest, out>>

\* Shares of one are counted in halves: closeness, and merit for recency and engagement with
\* their weights (0.6 and 0.4; in Explore also the interest in the hashtags).
Half == 0..2

Post == [author : Author, merit : Half, seen : BOOLEAN]

TypeOK ==
  /\ kind \in {"feed", "explore"} /\ post \in Seq(Post) /\ near \in [Author -> Half] \cup {None}
  /\ rest \in Seq(1..Len(post)) /\ out \in Seq(1..Len(post))

Candidates(k) ==
  IF k = "feed" THEN [1..MaxFeed -> Post] ELSE [1..MaxExplore -> {p \in Post : ~p.seen}]

Init ==
  /\ kind \in {"feed", "explore"} /\ post \in Candidates(kind)
  /\ near = None /\ rest = <<>> /\ out = <<>>

-----------------------------------------------------------------------------
\* affinityMap: what the likes, comments, views and messages of a month say, now or up to an
\* hour ago, when it was cached; nothing invalidates it.  The viewer's own posts are as close
\* as can be; in Explore the authors play no part.
Closeness ==
  {c \in [Author -> Half] :
     IF kind = "feed" THEN c[Viewer] = 2 ELSE \A a \in Author : c[a] = 0}

\* rankCandidates: 1.0 closeness + 0.6 recency + 0.4 engagement - 1.5 seen, in halves.
Score(c, posts, i) == c[posts[i].author] + posts[i].merit - (IF posts[i].seen THEN 3 ELSE 0)

\* The greater score comes first, of equal ones the greater id.
Before(c, posts, i, j) ==
  \/ Score(c, posts, i) > Score(c, posts, j)
  \/ Score(c, posts, i) = Score(c, posts, j) /\ i > j

Place(c, posts, i) == Cardinality({j \in DOMAIN posts : j = i \/ Before(c, posts, j, i)})

Sorted(c, posts) == [n \in DOMAIN posts |-> CHOOSE i \in DOMAIN posts : Place(c, posts, i) = n]

Rank ==
  /\ near = None /\ near' \in Closeness
  /\ IF kind = "feed" THEN out' = Sorted(near', post) /\ UNCHANGED rest
                      ELSE rest' = Sorted(near', post) /\ UNCHANGED out
  /\ UNCHANGED <<kind, post>>

\* Mutant: the first that is left, of whatever author.
FirstLeft == 1

\* dedupeAuthors: the first of another author than the last; or the first, if there is none.
FirstOfAnother ==
  LET others == {n \in DOMAIN rest : out = <<>> \/ post[rest[n]].author # post[Last(out)].author}
  IN  IF others = {} THEN 1 ELSE Min(others)

Pick ==
  /\ rest # <<>>
  /\ out' = Append(out, rest[FirstOfAnother]) /\ rest' = RemoveAt(rest, FirstOfAnother)
  /\ UNCHANGED <<kind, post, near>>

Next == Rank \/ Pick

Spec == Init /\ [][Next]_vars

-----------------------------------------------------------------------------
AuthorAt(n) == post[out[n]].author

\* rankCandidates, dedupeAuthors: every candidate comes exactly once.  In the feed a seen post
\* comes before an unseen one only if its author is closer by half or more, and viewing a
\* post never moves it up.  In Explore two of one author follow each other only if nothing
\* else is left, a post is overtaken only by one that parts it from its author's, and those
\* of one author keep their order.
RankingAgrees ==
  near # None /\ rest = <<>> =>
    /\ Range(out) = DOMAIN post /\ Len(out) = Len(post)
    /\ kind = "feed" =>
         /\ \A m, n \in DOMAIN out : m < n /\ post[out[m]].seen /\ ~post[out[n]].seen =>
              near[AuthorAt(m)] > near[AuthorAt(n)]
         /\ \A i \in DOMAIN post : Place(near, [post EXCEPT ![i].seen = TRUE], i) >= Place(near, post, i)
    /\ kind = "explore" =>
         /\ \A n \in 1..Len(out) - 1 : AuthorAt(n) = AuthorAt(n + 1) =>
              \A k \in n..Len(out) : AuthorAt(k) = AuthorAt(n)
         /\ \A m, n \in DOMAIN out : m < n /\ Before(near, post, out[n], out[m]) =>
              m > 1 /\ AuthorAt(m - 1) = AuthorAt(n) /\ AuthorAt(m) # AuthorAt(n)
=============================================================================
