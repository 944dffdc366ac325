------------------------------ MODULE Stickers ------------------------------
(***************************************************************************)
(* The interactive stickers of a story: one sticker, the viewers who       *)
(* answer it, and its author, who asks for the results.                    *)
(***************************************************************************)
EXTENDS Integers, FiniteSets, Functions

CONSTANTS User,   \* viewers
          Option, \* the options of a poll or a quiz: 0 .. n - 1
          Req,    \* requests, numbered as they come
          None

VARIABLES sticker,  \* its type and the correct option, or None before it is made
          response, \* the row of each viewer
          req,      \* the state of every request
          tried,    \* history: the viewers who have answered it
          knowing   \* history: the viewers who have been shown the correct option

vars == <<sticker, response, req, tried, knowing>>

\* POLL stands for the slider and the question too: any answer is taken, and counted.
Types == {"POLL", "QUIZ", "COUNTDOWN", "LINK"}

Sticker == [type : Types, correct : Option \cup {None}]

\* Only to be looked at.
NonAnswerable == {"COUNTDOWN", "LINK"}

Request == [at : {"start", "link", "write", "done", "failed"}, user : User \cup {None},
            pick : Option \cup {None}]

Fresh == [at |-> "start", user |-> None, pick |-> None]

TypeOK ==
  /\ sticker \in Sticker \cup {None}
  /\ response \in [User -> Option \cup {None}] /\ req \in [Req -> Request]
  /\ tried \subseteq User /\ knowing \subseteq User

\* validateConfig: a quiz has its correct option among the options.
Valid == {s \in Sticker : s.type = "QUIZ" <=> s.correct # None}

\* The story has a sticker, or none yet.
Init ==
  /\ sticker \in Valid \cup {None}
  /\ response = [u \in User |-> None] /\ req = [r \in Req |-> Fresh]
  /\ tried = {} /\ knowing = {}

-----------------------------------------------------------------------------
At(r, l) == req[r].at = l

\* The next request to come is r.
Comes(r) == At(r, "start") /\ \A q \in Req : q < r => ~At(q, "start")

Goes(r, l) == req' = [req EXCEPT ![r].at = l]

\* create: the author of the story adds a sticker; of a link the badge is asked for
\* first.
Create(r, s) ==
  /\ Comes(r) /\ sticker = None /\ s \in Valid
  /\ IF s.type = "LINK"
     THEN (Goes(r, "link") \/ Goes(r, "failed")) /\ UNCHANGED sticker
     ELSE Goes(r, "done") /\ sticker' = s
  /\ UNCHANGED <<response, tried, knowing>>

CreateLink(r) ==
  /\ At(r, "link") /\ sticker = None
  /\ sticker' = [type |-> "LINK", correct |-> None] /\ Goes(r, "done")
  /\ UNCHANGED <<response, tried, knowing>>

IsQuiz == sticker # None /\ sticker.type = "QUIZ"

Shown(u) == knowing' = IF IsQuiz THEN knowing \cup {u} ELSE knowing

\* Mutant: the correct option goes out with the configuration.
ListAll(u) ==
  /\ sticker # None /\ Shown(u)
  /\ UNCHANGED <<sticker, response, req, tried>>

\* list, toDto: whoever sees the story (Audience) is shown the sticker; the correct option is
\* taken out as long as the viewer has no row.
List(u) ==
  /\ sticker # None
  /\ IF response[u] # None THEN Shown(u) ELSE UNCHANGED knowing
  /\ UNCHANGED <<sticker, response, req, tried>>

\* answer: loadVisible, and a valid response for this type.
Answer(r, u, o) ==
  /\ Comes(r) /\ sticker # None
  /\ req' = [req EXCEPT ![r] = [Fresh EXCEPT !.user = u, !.pick = o,
               !.at = IF sticker.type \in NonAnswerable THEN "failed" ELSE "write"]]
  /\ UNCHANGED <<sticker, response, tried, knowing>>

\* The row is written, the first or anew, the author told; of a quiz the answer is the
\* correct option.
Respond(r) ==
  LET u == req[r].user
  IN  /\ At(r, "write")
      /\ IF sticker # None
         THEN /\ response' = [response EXCEPT ![u] = req[r].pick] /\ tried' = tried \cup {u}
              /\ Shown(u) /\ Goes(r, "done")
         ELSE Goes(r, "failed") /\ UNCHANGED <<response, tried, knowing>>
      /\ UNCHANGED sticker

Answers(o) == {u \in User : response[u] = o}

\* results: what the author is told, who may ask at any time; all rows are read at once.
Results ==
  [total |-> Cardinality({u \in User : response[u] # None}),
   count |-> [o \in Option |-> Cardinality(Answers(o))],
   right |-> IF IsQuiz THEN Cardinality(Answers(sticker.correct)) ELSE 0]

\* Math.round of a share in percent.
Percent(n, total) == IF total = 0 THEN 0 ELSE (200 * n + total) \div (2 * total)

-----------------------------------------------------------------------------
\* The story is deleted, and with it the sticker and its rows.
DeleteStory ==
  /\ sticker # None /\ sticker' = None
  /\ response' = [u \in User |-> None]
  /\ req' = [r \in Req |-> IF At(r, "start") \/ At(r, "link") THEN [req[r] EXCEPT !.at = "failed"] ELSE req[r]]
  /\ UNCHANGED <<tried, knowing>>

Next ==
  \/ \E r \in Req, s \in Sticker : Create(r, s)
  \/ \E r \in Req : CreateLink(r) \/ Respond(r)
  \/ \E r \in Req, u \in User, o \in Option : Answer(r, u, o)
  \/ \E u \in User : List(u)
  \/ DeleteStory

Spec == Init /\ [][Next]_vars

-----------------------------------------------------------------------------
\* list, answer: nobody is shown the correct option of a quiz who has not answered it, though he
\* may answer again once he has been.
SecretIsKept == knowing \subseteq tried

\* results: besides, the rows of the options add up to all the rows, one of each viewer, and the
\* shares to 100 but for half a percent of each option.
StickersAgree ==
  /\ SecretIsKept
  /\ LET t == Results
         shares == SumFunction([o \in Option |-> Percent(t.count[o], t.total)])
     IN  t.total > 0 =>
           /\ SumFunction(t.count) = t.total /\ t.right <= t.total
           /\ 2 * shares \in 200 - Cardinality(Option)..200 + Cardinality(Option)
=============================================================================
