--------------------------- MODULE AccountsProofs ---------------------------
(***************************************************************************)
(* What is proved of the accounts for every set of users, rows, requests   *)
(* and sockets, and every bound: first of the social graph, then of the    *)
(* components that rest on a clock, on settings, on names and on answers.  *)
(***************************************************************************)
EXTENDS Accounts, FiniteSetTheorems, TLAPS

-----------------------------------------------------------------------------
\* What a step leaves of a request that it does not serve.
Kept(q) ==
  /\ req'[q].at = req[q].at /\ req'[q].user = req[q].user /\ req'[q].other = req[q].other
  /\ req'[q].row = req[q].row /\ req'[q].status = req[q].status
  /\ req[q].over \subseteq req'[q].over

LEMMA OvertakeIs ==
  ASSUME TypeOK, NEW r \in Req, NEW x \in Request, NEW others,
         NEW what \in {"block", "private", "accept"}, Overtake(r, x, others, what)
  PROVE  /\ req' \in [Req -> Request] /\ req'[r] = x
         /\ \A q \in Req \ {r} : Kept(q) /\ (q \in others => what \in req'[q].over)
  <1>1. ASSUME NEW q \in Req
        PROVE  /\ [req[q] EXCEPT !.over = @ \cup {what}] \in Request /\ req[q] \in Request
               /\ [req[q] EXCEPT !.over = @ \cup {what}].over = req[q].over \cup {what}
    <2>1. req[q] \in Request
      BY DEF TypeOK
    <2>2. req[q].over \cup {what} \in SUBSET {"block", "private", "accept"}
      BY <2>1 DEF Request
    <2>3. QED BY <2>1, <2>2 DEF Request
  <1>2. ASSUME NEW q \in Req
        PROVE  req'[q] = IF q = r THEN x
                         ELSE IF q \in others \ {r} THEN [req[q] EXCEPT !.over = @ \cup {what}]
                         ELSE req[q]
    BY DEF Overtake
  <1>3. req' \in [Req -> Request]
    <2>1. \A q \in Req : req'[q] \in Request
      BY <1>1, <1>2
    <2>2. req' = [q \in Req |-> req'[q]]
      BY DEF Overtake
    <2>3. QED BY <2>1, <2>2
  <1>4. ASSUME NEW q \in Req \ {r} PROVE Kept(q) /\ (q \in others => what \in req'[q].over)
    <2>1. CASE q \in others
      <3>1. req'[q] = [req[q] EXCEPT !.over = @ \cup {what}]
        BY <1>2, <2>1
      <3>2. req[q] \in Request
        BY DEF TypeOK
      <3>3. QED BY <3>1, <3>2, <1>1, <2>1 DEF Kept, Request
    <2>2. CASE q \notin others
      BY <1>2, <2>2 DEF Kept
    <2>3. QED BY <2>1, <2>2
  <1>5. QED BY <1>2, <1>3, <1>4

LEMMA BecomeIs ==
  ASSUME TypeOK, NEW r \in Req, NEW x \in Request, Become(r, x)
  PROVE  /\ req' \in [Req -> Request] /\ req'[r] = x
         /\ \A q \in Req \ {r} : req'[q] = req[q] /\ Kept(q)
  BY DEF Become, TypeOK, Kept

\* Whatever a handler becomes next is a request.
LEMMA Requests ==
  ASSUME TypeOK, NEW r \in Req
  PROVE  /\ Answered(r) \in Request /\ Answered(r).at = "end"
         /\ \A s \in {"PENDING", "ACCEPTED"} :
              [req[r] EXCEPT !.at = "existing", !.status = s] \in Request
         /\ \A l \in {"create", "end", "viewFollow", "shown"} :
              [req[r] EXCEPT !.at = l] \in Request
         /\ \A u, v \in User : \A l \in {"privacy", "close", "viewPrivacy"} :
              Ask(l, u, v) \in Request
         /\ \A u \in User \cup {None} : [Idle EXCEPT !.at = "end", !.user = u] \in Request
         /\ [Idle EXCEPT !.at = "end"] \in Request
         /\ \A u \in User, i \in Row : \A l \in {"accept", "decline"} :
              [Idle EXCEPT !.at = l, !.user = u, !.row = i] \in Request
  <1>1. req[r] \in Request
    BY DEF TypeOK
  <1>2. QED BY <1>1 DEF Request, Answered, Ask, Idle

LEMMA DeleteIs ==
  ASSUME TypeOK, NEW S, Delete(S), \A i \in S \cap Row : Exists(i)
  PROVE  /\ follow' \in [Row -> FollowRow]
         /\ \A i \in Row : /\ follow'[i].from = follow[i].from /\ follow'[i].to = follow[i].to
                           /\ follow'[i].status = IF i \in S THEN "gone" ELSE follow[i].status
  <1>1. \A i \in Row : follow[i] \in FollowRow
    BY DEF TypeOK
  <1>2. \A i \in Row : [follow[i] EXCEPT !.status = "gone"] \in FollowRow
    BY <1>1 DEF FollowRow
  <1>3. \A i \in Row : follow'[i] = IF i \in S THEN [follow[i] EXCEPT !.status = "gone"]
                                     ELSE follow[i]
    BY DEF Delete
  <1>4. follow' \in [Row -> FollowRow]
    BY <1>1, <1>2 DEF Delete
  <1>5. QED BY <1>1, <1>3, <1>4 DEF FollowRow

-----------------------------------------------------------------------------
(***************************************************************************)
(* The inductive invariant.  Whoever is between two calls relies on what   *)
(* he has read, unless somebody has changed it and thereby marked him.     *)
(***************************************************************************)
\* The unique index: a pair has one row.
RowsApart ==
  \A i, j \in Row :
    Exists(i) /\ Exists(j) /\ follow[i].from = follow[j].from /\ follow[i].to = follow[j].to
      => i = j

Asking == {"privacy", "existing", "create", "close", "viewPrivacy", "viewFollow"}

\* If there is a block between him and whom he asks about, it has overtaken him.
AskFine(x) ==
  x.at \in Asking => /\ <<x.user, x.other>> \in Pair
                     /\ Blocked(x.user, x.other) => "block" \in x.over

\* Who is about to follow at once has seen a public account.
StatusFine(x) ==
  x.at \in {"existing", "create"} /\ x.status = "ACCEPTED" /\ x.other \in private
    => "private" \in x.over

\* Who is about to answer a request has read it as pending and his own.
AnswerFine(x) ==
  x.at \in {"accept", "decline"} =>
    /\ x.row \in Row /\ follow[x.row].to = x.user /\ follow[x.row].status # "absent"
    /\ x.at = "decline" /\ follow[x.row].status = "ACCEPTED" => "accept" \in x.over

RequestsOK ==
  \A q \in Req : AskFine(req[q]) /\ StatusFine(req[q]) /\ AnswerFine(req[q])

\* Nobody who could see the content is missed by the history.
SeenOK == \A q \in Req : Views(q) /\ CanView(req[q].user, req[q].other) => q \in saw

\* How the request x that a first or a middle call leaves behind came about.
Entered(r, x) ==
  /\ AskFine(x) /\ StatusFine(x) /\ AnswerFine(x)
  /\ x.at = "shown" => Views(r) /\ x.over = req[r].over
                       /\ (CanView(req[r].user, req[r].other) \/ "block" \in req[r].over)

IInv == TypeOK /\ RowsApart /\ RequestsOK /\ SeenOK /\ BlockedPairsAreApart /\ ShownIsExplained

LEMMA InitIInv == Init => IInv
  <1> SUFFICES ASSUME Init PROVE IInv
    OBVIOUS
  <1>1. Idle \in Request
    BY DEF Idle, Request
  <1>2. TypeOK
    <2>1. follow \in [Row -> FollowRow]
      BY DEF Init, FollowRow, NoFollow, Pair
    <2>2. req \in [Req -> Request]
      BY <1>1 DEF Init
    <2>3. block \subseteq Pair /\ close \subseteq Pair
      BY DEF Init
    <2>4. QED BY <2>1, <2>2, <2>3 DEF Init, TypeOK
  <1>3. RowsApart
    <2>1. \A i, j \in Row : Exists(i) /\ Exists(j) => i = j
      BY DEF Init, Exists, NoFollow
    <2>2. QED BY <2>1 DEF RowsApart
  <1>4. \A q \in Req : req[q].at = "start"
    BY DEF Init, Idle
  <1>5. RequestsOK /\ SeenOK /\ ShownIsExplained
    BY <1>4 DEF RequestsOK, SeenOK, ShownIsExplained, AskFine, StatusFine, AnswerFine, Asking,
                Views, At
  <1>6. BlockedPairsAreApart
    BY DEF Init, BlockedPairsAreApart
  <1>7. QED BY <1>2, <1>3, <1>5, <1>6 DEF IInv

LEMMA SeenStep == Look => SeenOK'
  BY DEF Look, SeenOK

\* The first and middle calls only read: what they decide on is so at that moment.
Reads(r) ==
  \/ FollowStart(r) \/ FollowPrivacy(r) \/ FollowExisting(r) \/ AcceptRead(r) \/ DeclineRead(r)
  \/ AddRead(r) \/ ViewStart(r) \/ ViewPrivacy(r) \/ ViewFollow(r)

LEMMA ReadsIs ==
  ASSUME IInv, NEW r \in Req, Reads(r)
  PROVE  /\ \E x \in Request : Become(r, x) /\ Entered(r, x)
         /\ UNCHANGED <<graph, late>>
  <1>0. UNCHANGED <<graph, late>>
    BY DEF Reads, FollowStart, FollowPrivacy, FollowExisting, AcceptRead, DeclineRead, AddRead,
           ViewStart, ViewPrivacy, ViewFollow
  <1> DEFINE Good == \E x \in Request : Become(r, x) /\ Entered(r, x)
  <1>a. TypeOK /\ req[r] \in Request
    BY DEF IInv, TypeOK
  <1>b. AskFine(req[r]) /\ StatusFine(req[r])
    BY DEF IInv, RequestsOK
  <1>1. ASSUME NEW p \in Pair, NEW l \in {"privacy", "close", "viewPrivacy"},
               ~Blocked(p[1], p[2]), Become(r, Ask(l, p[1], p[2]))
        PROVE  Good
    <2>1. p[1] \in User /\ p[2] \in User /\ <<p[1], p[2]>> \in Pair
      BY DEF Pair
    <2>2. Ask(l, p[1], p[2]) \in Request
      BY <2>1, <1>a, Requests
    <2>3. Entered(r, Ask(l, p[1], p[2]))
      BY <1>1, <2>1 DEF Entered, AskFine, StatusFine, AnswerFine, Ask, Idle
    <2>4. QED BY <1>1, <2>2, <2>3
  <1>2. CASE FollowStart(r) \/ AddRead(r) \/ ViewStart(r)
    BY <1>2, <1>1 DEF FollowStart, AddRead, ViewStart
  <1>3. CASE FollowPrivacy(r)
    <2> DEFINE x == [req[r] EXCEPT !.at = "existing",
                       !.status = IF req[r].other \in private THEN "PENDING" ELSE "ACCEPTED"]
    <2>1. x \in Request
      BY <1>a, Requests
    <2>2. Entered(r, x)
      BY <1>3, <1>a, <1>b DEF FollowPrivacy, At, Entered, AskFine, StatusFine, AnswerFine,
                              Asking, Request
    <2>3. QED BY <1>3, <2>1, <2>2 DEF FollowPrivacy
  <1>4. CASE FollowExisting(r)
    <2>1. ASSUME NEW l \in {"create", "end"}, Goto(r, l) PROVE Good
      <3> DEFINE x == [req[r] EXCEPT !.at = l]
      <3>1. x \in Request
        BY <1>a, Requests
      <3>2. Entered(r, x)
        BY <1>4, <1>a, <1>b DEF FollowExisting, At, Entered, AskFine, StatusFine, AnswerFine,
                                Asking, Request
      <3>3. QED BY <2>1, <3>1, <3>2 DEF Goto
    <2>2. QED BY <1>4, <2>1 DEF FollowExisting
  <1>5. CASE AcceptRead(r) \/ DeclineRead(r)
    <2>1. ASSUME NEW i \in Row, NEW u \in User, Own(i, u), NEW l \in {"accept", "decline"},
                 Become(r, [Idle EXCEPT !.at = l, !.user = u, !.row = i])
          PROVE  Good
      <3> DEFINE x == [Idle EXCEPT !.at = l, !.user = u, !.row = i]
      <3>1. x \in Request
        BY <1>a, Requests
      <3>2. Entered(r, x)
        BY <2>1 DEF Own, Entered, AskFine, StatusFine, AnswerFine, Asking, Idle
      <3>3. QED BY <2>1, <3>1, <3>2
    <2>2. QED BY <1>5, <2>1 DEF AcceptRead, DeclineRead
  <1>6. CASE ViewPrivacy(r) \/ ViewFollow(r)
    <2>1. ASSUME NEW l \in {"viewFollow", "shown", "end"}, Goto(r, l), Views(r),
                 l = "shown" => req[r].other \notin private \/ Following(req[r].user, req[r].other)
          PROVE  Good
      <3> DEFINE x == [req[r] EXCEPT !.at = l]
      <3>1. x \in Request
        BY <1>a, Requests
      <3>2. /\ x.at = l /\ x.user = req[r].user /\ x.other = req[r].other
            /\ x.over = req[r].over /\ req[r].at \in Asking
        BY <1>a, <2>1 DEF Request, Views, Asking
      <3>3. AskFine(x) /\ StatusFine(x) /\ AnswerFine(x)
        BY <3>2, <1>b DEF AskFine, StatusFine, AnswerFine, Asking
      <3>4. x.at = "shown" => CanView(req[r].user, req[r].other) \/ "block" \in req[r].over
        BY <3>2, <1>b, <2>1 DEF AskFine, CanView
      <3>5. Entered(r, x)
        BY <3>2, <3>3, <3>4, <2>1 DEF Entered
      <3>6. QED BY <2>1, <3>1, <3>5 DEF Goto
    <2>2. QED BY <1>6, <2>1 DEF ViewPrivacy, ViewFollow, Views, At
  <1>7. QED BY <1>0, <1>2, <1>3, <1>4, <1>5, <1>6 DEF Reads

-----------------------------------------------------------------------------
(***************************************************************************)
(* The last call of a handler changes the graph.  What it must not do to   *)
(* the others is said once, and shown for each of the nine.                *)
(***************************************************************************)
\* A block that comes up marks those who have asked about the two...
BlockMarks(r) ==
  \A u, v \in User : Blocked(u, v)' /\ ~Blocked(u, v) =>
    \A q \in Req \ {r} :
      req[q].at \in Asking /\ req[q].user = u /\ req[q].other = v => "block" \in req'[q].over

\* ... an account that becomes private those who have asked about it...
PrivacyMarks(r) ==
  \A u \in private' \ private : \A q \in Req \ {r} :
    req[q].at \in Asking /\ req[q].other = u => "private" \in req'[q].over

\* ... and an accepted row those who are about to decline it.
RowsMark(r) ==
  \A i \in Row : follow[i].status # "absent" =>
    /\ follow'[i].to = follow[i].to /\ follow'[i].status # "absent"
    /\ follow'[i].status = "ACCEPTED" /\ follow[i].status # "ACCEPTED" =>
         \A q \in Req \ {r} : At(q, "decline") /\ req[q].row = i => "accept" \in req'[q].over

Ends(r) == /\ req' \in [Req -> Request] /\ req'[r].at = "end"
           /\ \A q \in Req \ {r} : Kept(q)

GraphTyped ==
  /\ follow \in [Row -> FollowRow] /\ block \subseteq Pair /\ close \subseteq Pair
  /\ private \subseteq User /\ late \subseteq {"follow", "close"} \X Pair

Safe(r) == /\ Ends(r) /\ GraphTyped' /\ RowsApart' /\ BlockedPairsAreApart'
           /\ BlockMarks(r) /\ PrivacyMarks(r) /\ RowsMark(r)

LEMMA ReadsStep ==
  ASSUME IInv, NEW r \in Req, Reads(r), Look
  PROVE  IInv'
  <1>1. PICK x \in Request : Become(r, x) /\ Entered(r, x)
    BY ReadsIs
  <1>2. UNCHANGED <<follow, block, close, private, late>>
    BY ReadsIs DEF graph
  <1>3. req' \in [Req -> Request] /\ req'[r] = x /\ \A q \in Req \ {r} : req'[q] = req[q]
    BY <1>1, BecomeIs DEF IInv
  <1>4. TypeOK'
    BY <1>2, <1>3 DEF IInv, TypeOK, Look
  <1>5. RowsApart' /\ BlockedPairsAreApart'
    BY <1>2 DEF IInv, RowsApart, BlockedPairsAreApart, Exists, Blocked, Rows
  <1>6. RequestsOK'
    BY <1>1, <1>2, <1>3 DEF IInv, RequestsOK, Entered, AskFine, StatusFine, AnswerFine, Blocked
  <1>7. ShownIsExplained'
    <2>1. ASSUME NEW q \in Req, At(q, "shown")' PROVE (q \in saw \/ "block" \in req[q].over)'
      <3>1. CASE q = r
        BY <1>1, <1>3, <2>1, <3>1 DEF At, Entered, IInv, SeenOK, Look
      <3>2. CASE q # r
        BY <1>3, <2>1, <3>2 DEF At, IInv, ShownIsExplained, Look
      <3>3. QED BY <3>1, <3>2
    <2>2. QED BY <2>1 DEF ShownIsExplained
  <1>8. QED BY <1>4, <1>5, <1>6, <1>7, SeenStep DEF IInv

LEMMA SafeStep ==
  ASSUME IInv, NEW r \in Req, Safe(r), Look
  PROVE  IInv'
  <1>1. TypeOK'
    BY DEF IInv, TypeOK, Safe, Ends, GraphTyped, Look
  <1>2. RequestsOK'
    <2> SUFFICES ASSUME NEW q \in Req
                 PROVE  (AskFine(req[q]) /\ StatusFine(req[q]) /\ AnswerFine(req[q]))'
      BY DEF RequestsOK
    <2>1. CASE q = r
      BY <2>1 DEF Safe, Ends, AskFine, StatusFine, AnswerFine, Asking
    <2>2. CASE q # r
      <3>1. Kept(q) /\ AskFine(req[q]) /\ StatusFine(req[q]) /\ AnswerFine(req[q])
        BY <2>2 DEF Safe, Ends, IInv, RequestsOK
      <3>2. AskFine(req[q])'
        <4>1. CASE req[q].at \in Asking
          <5>1. req[q].user \in User /\ req[q].other \in User
            BY <3>1, <4>1 DEF AskFine, Pair
          <5>2. QED BY <2>2, <3>1, <4>1, <5>1 DEF AskFine, Kept, Safe, BlockMarks, Blocked
        <4>2. CASE req[q].at \notin Asking
          BY <3>1, <4>2 DEF AskFine, Kept
        <4>3. QED BY <4>1, <4>2
      <3>3. StatusFine(req[q])'
        BY <2>2, <3>1 DEF StatusFine, Kept, Safe, PrivacyMarks, Asking
      <3>4. AnswerFine(req[q])'
        BY <2>2, <3>1 DEF AnswerFine, Kept, Safe, RowsMark, At
      <3>5. QED BY <3>2, <3>3, <3>4
    <2>3. QED BY <2>1, <2>2
  <1>3. ShownIsExplained'
    BY DEF Safe, Ends, Kept, ShownIsExplained, At, IInv, Look
  <1>4. QED BY <1>1, <1>2, <1>3, SeenStep DEF IInv, Safe

\* Rows that only go leave the rest apart.
LEMMA DeleteSafe ==
  ASSUME IInv, NEW r \in Req, NEW S, Delete(S), \A i \in S \cap Row : Exists(i)
  PROVE  /\ RowsMark(r) /\ RowsApart' /\ follow' \in [Row -> FollowRow]
         /\ \A u, v \in User : Rows(u, v)' = Rows(u, v) \ S
  <1>1. /\ follow' \in [Row -> FollowRow]
        /\ \A i \in Row : /\ follow'[i].from = follow[i].from /\ follow'[i].to = follow[i].to
                          /\ follow'[i].status = IF i \in S THEN "gone" ELSE follow[i].status
    BY DeleteIs DEF IInv
  <1>2. \A i \in Row : Exists(i)' <=> Exists(i) /\ i \notin S
    BY <1>1 DEF Exists
  <1>3. RowsMark(r)
    BY <1>1 DEF RowsMark
  <1>4. RowsApart'
    BY <1>1, <1>2 DEF IInv, RowsApart
  <1>5. ASSUME NEW u \in User, NEW v \in User PROVE Rows(u, v)' = Rows(u, v) \ S
    BY <1>1, <1>2 DEF Rows
  <1>6. QED BY <1>1, <1>3, <1>4, <1>5

LEMMA EndsIs ==
  ASSUME IInv, NEW r \in Req,
         \/ Become(r, Answered(r)) \/ Become(r, [Idle EXCEPT !.at = "end"])
         \/ \E u \in User : Become(r, [Idle EXCEPT !.at = "end", !.user = u])
  PROVE  Ends(r)
  <1>1. Idle.at = "start" /\ [Idle EXCEPT !.at = "end"].at = "end"
        /\ \A u : [Idle EXCEPT !.at = "end", !.user = u].at = "end"
    BY DEF Idle
  <1>2. QED BY <1>1, Requests, BecomeIs DEF IInv, Ends

LEMMA FollowCreateSafe ==
  ASSUME IInv, NEW r \in Req, FollowCreate(r)
  PROVE  Safe(r)
  <1> DEFINE u == req[r].user
             v == req[r].other
  <1>1. Ends(r)
    BY EndsIs DEF FollowCreate
  <1>2. BlockMarks(r) /\ PrivacyMarks(r)
    BY DEF FollowCreate, BlockMarks, PrivacyMarks, Blocked
  <1>3. <<u, v>> \in Pair /\ (Blocked(u, v) => "block" \in req[r].over)
    BY DEF FollowCreate, At, IInv, RequestsOK, AskFine, Asking
  <1>4. u \in User /\ v \in User /\ req[r].status \in {"PENDING", "ACCEPTED"}
    BY <1>3 DEF Pair, IInv, TypeOK, Request
  <1>5. CASE Rows(u, v) = {}
    <2>1. PICK i \in Row :
            /\ follow[i].status = "absent"
            /\ follow' = [follow EXCEPT ![i] = [status |-> req[r].status, from |-> u, to |-> v]]
      BY <1>5 DEF FollowCreate
    <2> DEFINE new == [status |-> req[r].status, from |-> u, to |-> v]
    <2>2. new \in FollowRow
      BY <1>4 DEF FollowRow
    <2>3. /\ follow' \in [Row -> FollowRow] /\ follow'[i] = new
          /\ \A j \in Row \ {i} : follow'[j] = follow[j]
      BY <2>1, <2>2 DEF IInv, TypeOK
    <2>4. late' = IF "block" \in req[r].over THEN late \cup {<<"follow", <<u, v>>>>} ELSE late
      BY <1>5 DEF FollowCreate
    <2>5. RowsMark(r)
      BY <2>1, <2>3 DEF RowsMark
    <2>6. RowsApart'
      <3> SUFFICES ASSUME NEW j \in Row, NEW k \in Row, j # k, Exists(j)', Exists(k)',
                          follow'[j].from = follow'[k].from, follow'[j].to = follow'[k].to
                   PROVE  FALSE
        BY DEF RowsApart
      <3>1. CASE j # i /\ k # i
        BY <2>3, <3>1 DEF IInv, RowsApart, Exists
      <3>2. CASE j = i \/ k = i
        BY <1>5, <2>3, <3>2 DEF Exists, Rows
      <3>3. QED BY <3>1, <3>2
    <2>7. BlockedPairsAreApart'
      <3> SUFFICES ASSUME NEW p \in Pair, Blocked(p[1], p[2])'
                   PROVE  /\ Rows(p[1], p[2])' # {} => <<"follow", p>> \in late'
                          /\ p \in close' => <<"close", p>> \in late'
        BY DEF BlockedPairsAreApart
      <3>1. Blocked(p[1], p[2]) /\ close' = close /\ late \subseteq late'
        BY <2>4 DEF FollowCreate, Blocked
      <3>2. p = <<p[1], p[2]>>
        BY DEF Pair
      <3>3. CASE p = <<u, v>>
        <4>1. <<"follow", p>> \in late'
          BY <1>3, <2>4, <3>1, <3>3
        <4>2. QED BY <3>1, <4>1 DEF IInv, BlockedPairsAreApart
      <3>4. CASE p # <<u, v>>
        <4>1. Rows(p[1], p[2])' \subseteq Rows(p[1], p[2])
          BY <2>3, <3>2, <3>4 DEF Rows, Exists
        <4>2. QED BY <3>1, <4>1 DEF IInv, BlockedPairsAreApart
      <3>5. QED BY <3>3, <3>4
    <2>8. GraphTyped'
      BY <1>3, <2>3, <2>4 DEF GraphTyped, IInv, TypeOK, FollowCreate
    <2>9. QED BY <1>1, <1>2, <2>5, <2>6, <2>7, <2>8 DEF Safe
  <1>6. CASE Rows(u, v) # {}
    <2>1. UNCHANGED <<follow, block, close, private, late>>
      BY <1>6 DEF FollowCreate
    <2>2. QED BY <1>1, <1>2, <2>1 DEF Safe, GraphTyped, IInv, TypeOK, RowsApart, Exists,
                  BlockedPairsAreApart, Blocked, Rows, RowsMark
  <1>7. QED BY <1>5, <1>6

LEMMA UnfollowSafe ==
  ASSUME IInv, NEW r \in Req, Unfollow(r)
  PROVE  Safe(r)
  <1>1. PICK p \in Pair : /\ Delete(Rows(p[1], p[2])) /\ late' = late \ {<<"follow", p>>}
                          /\ \E u \in {p[1], p[2]} :
                               Become(r, [Idle EXCEPT !.at = "end", !.user = u])
    BY DEF Unfollow
  <1>2. p[1] \in User /\ p[2] \in User
    BY DEF Pair
  <1>3. Ends(r)
    BY <1>1, <1>2, EndsIs
  <1>4. BlockMarks(r) /\ PrivacyMarks(r)
    BY DEF Unfollow, BlockMarks, PrivacyMarks, Blocked
  <1>5. /\ RowsMark(r) /\ RowsApart' /\ follow' \in [Row -> FollowRow]
        /\ \A u, v \in User : Rows(u, v)' = Rows(u, v) \ Rows(p[1], p[2])
    <2>1. \A i \in Rows(p[1], p[2]) \cap Row : Exists(i)
      BY DEF Rows
    <2>2. QED BY <1>1, <2>1, DeleteSafe
  <1>6. BlockedPairsAreApart'
    <2> SUFFICES ASSUME NEW o \in Pair, Blocked(o[1], o[2])'
                 PROVE  /\ Rows(o[1], o[2])' # {} => <<"follow", o>> \in late'
                        /\ o \in close' => <<"close", o>> \in late'
      BY DEF BlockedPairsAreApart
    <2>1. Blocked(o[1], o[2]) /\ close' = close /\ o[1] \in User /\ o[2] \in User
      BY DEF Unfollow, Blocked, Pair
    <2>2. /\ Rows(o[1], o[2]) # {} => <<"follow", o>> \in late
          /\ o \in close => <<"close", o>> \in late
      BY <2>1 DEF IInv, BlockedPairsAreApart
    <2>3. QED BY <1>1, <1>5, <2>1, <2>2
  <1>7. GraphTyped'
    BY <1>1, <1>5 DEF GraphTyped, IInv, TypeOK, Unfollow
  <1>8. QED BY <1>3, <1>4, <1>5, <1>6, <1>7 DEF Safe

LEMMA AcceptSafe ==
  ASSUME IInv, NEW r \in Req, Accept(r)
  PROVE  Safe(r)
  <1> DEFINE i == req[r].row
             others == {q \in Req : At(q, "decline") /\ req[q].row = i}
  <1>1. i \in Row
    BY DEF Accept, At, IInv, RequestsOK, AnswerFine
  <1>2. UNCHANGED <<block, close, private, late>>
    BY DEF Accept
  <1>3. BlockMarks(r) /\ PrivacyMarks(r)
    BY <1>2 DEF BlockMarks, PrivacyMarks, Blocked
  <1>4. CASE Exists(i)
    <2>1. /\ follow' = [follow EXCEPT ![i].status = "ACCEPTED"]
          /\ Overtake(r, Answered(r), others, "accept")
      BY <1>4 DEF Accept
    <2>2. Answered(r) \in Request /\ Answered(r).at = "end"
      BY Requests DEF IInv
    <2>3. /\ req' \in [Req -> Request] /\ req'[r] = Answered(r)
          /\ \A q \in Req \ {r} : Kept(q) /\ (q \in others => "accept" \in req'[q].over)
      BY <2>1, <2>2, OvertakeIs DEF IInv
    <2>4. /\ follow' \in [Row -> FollowRow]
          /\ \A j \in Row : /\ follow'[j].from = follow[j].from /\ follow'[j].to = follow[j].to
                            /\ follow'[j].status = IF j = i THEN "ACCEPTED" ELSE follow[j].status
      BY <1>1, <2>1 DEF IInv, TypeOK, FollowRow
    <2>5. \A j \in Row : Exists(j)' <=> Exists(j)
      BY <1>4, <2>4 DEF Exists
    <2>6. RowsMark(r)
      BY <2>3, <2>4 DEF RowsMark
    <2>7. RowsApart'
      BY <2>4, <2>5 DEF IInv, RowsApart
    <2>8. BlockedPairsAreApart'
      BY <1>2, <2>4, <2>5 DEF IInv, BlockedPairsAreApart, Blocked, Rows
    <2>9. QED BY <1>2, <1>3, <2>2, <2>3, <2>4, <2>6, <2>7, <2>8
              DEF Safe, Ends, GraphTyped, IInv, TypeOK
  <1>5. CASE ~Exists(i)
    <2>1. UNCHANGED follow /\ Become(r, Answered(r))
      BY <1>5 DEF Accept
    <2>2. Ends(r)
      BY <2>1, EndsIs
    <2>3. QED BY <1>2, <1>3, <2>1, <2>2 DEF Safe, GraphTyped, IInv, TypeOK, RowsApart, Exists,
                  BlockedPairsAreApart, Blocked, Rows, RowsMark
  <1>6. QED BY <1>4, <1>5

LEMMA DeclineSafe ==
  ASSUME IInv, NEW r \in Req, Decline(r)
  PROVE  Safe(r)
  <1> DEFINE i == req[r].row
  <1>1. i \in Row
    BY DEF Decline, At, IInv, RequestsOK, AnswerFine
  <1>2. UNCHANGED <<block, close, private>> /\ Ends(r)
    BY EndsIs DEF Decline
  <1>3. BlockMarks(r) /\ PrivacyMarks(r)
    BY <1>2 DEF BlockMarks, PrivacyMarks, Blocked
  <1>4. CASE Exists(i)
    <2>1. Delete({i}) /\ late' = late \ {<<"follow", <<follow[i].from, follow[i].to>>>>}
      BY <1>4 DEF Decline
    <2>2. /\ RowsMark(r) /\ RowsApart' /\ follow' \in [Row -> FollowRow]
          /\ \A u, v \in User : Rows(u, v)' = Rows(u, v) \ {i}
      BY <1>4, <2>1, DeleteSafe
    <2>3. BlockedPairsAreApart'
      <3> SUFFICES ASSUME NEW o \in Pair, Blocked(o[1], o[2])'
                   PROVE  /\ Rows(o[1], o[2])' # {} => <<"follow", o>> \in late'
                          /\ o \in close' => <<"close", o>> \in late'
        BY DEF BlockedPairsAreApart
      <3>1. /\ Blocked(o[1], o[2]) /\ o[1] \in User /\ o[2] \in User
            /\ o = <<o[1], o[2]>>
        BY <1>2 DEF Blocked, Pair
      <3>2. /\ Rows(o[1], o[2]) # {} => <<"follow", o>> \in late
            /\ o \in close => <<"close", o>> \in late
        BY <3>1 DEF IInv, BlockedPairsAreApart
      <3>3. CASE o = <<follow[i].from, follow[i].to>>
        <4>1. Rows(o[1], o[2]) \subseteq {i}
          BY <1>1, <1>4, <3>3 DEF IInv, RowsApart, Rows
        <4>2. QED BY <1>2, <2>1, <2>2, <3>1, <3>2, <4>1
      <3>4. CASE o # <<follow[i].from, follow[i].to>>
        BY <1>2, <2>1, <2>2, <3>1, <3>2, <3>4
      <3>5. QED BY <3>3, <3>4
    <2>4. QED BY <1>2, <1>3, <2>1, <2>2, <2>3 DEF Safe, GraphTyped, IInv, TypeOK
  <1>5. CASE ~Exists(i)
    <2>1. UNCHANGED <<follow, late>>
      BY <1>5 DEF Decline
    <2>2. QED BY <1>2, <1>3, <2>1 DEF Safe, GraphTyped, IInv, TypeOK, RowsApart, Exists,
                  BlockedPairsAreApart, Blocked, Rows, RowsMark
  <1>6. QED BY <1>4, <1>5

LEMMA BlockSafe ==
  ASSUME IInv, NEW r \in Req, Block(r)
  PROVE  Safe(r)
  <1>1. PICK p \in Pair :
          /\ block' = block \cup {p}
          /\ Delete(Rows(p[1], p[2]) \cup Rows(p[2], p[1]))
          /\ close' = close \ {p, <<p[2], p[1]>>}
          /\ late' = late \ ({"follow", "close"} \X {p, <<p[2], p[1]>>})
          /\ Overtake(r, [Idle EXCEPT !.at = "end", !.user = p[1]], Between(p[1], p[2]), "block")
    BY DEF Block
  <1> DEFINE S == Rows(p[1], p[2]) \cup Rows(p[2], p[1])
             x == [Idle EXCEPT !.at = "end", !.user = p[1]]
  <1>2. p[1] \in User /\ p[2] \in User /\ p = <<p[1], p[2]>>
    BY DEF Pair
  <1>3. x \in Request /\ x.at = "end"
    BY <1>2, Requests DEF IInv, Idle
  <1>4. /\ req' \in [Req -> Request] /\ req'[r] = x
        /\ \A q \in Req \ {r} : Kept(q) /\ (q \in Between(p[1], p[2]) => "block" \in req'[q].over)
    BY <1>1, <1>3, OvertakeIs DEF IInv
  <1>5. \A u, v \in User : Blocked(u, v)' /\ ~Blocked(u, v) => <<u, v>> \in {p, <<p[2], p[1]>>}
    BY <1>1, <1>2 DEF Blocked
  <1>6. BlockMarks(r)
    BY <1>2, <1>4, <1>5 DEF BlockMarks, Between, Active, Asking
  <1>7. PrivacyMarks(r)
    BY DEF Block, PrivacyMarks
  <1>8. /\ RowsMark(r) /\ RowsApart' /\ follow' \in [Row -> FollowRow]
        /\ \A u, v \in User : Rows(u, v)' = Rows(u, v) \ S
    <2>1. \A i \in S \cap Row : Exists(i)
      BY DEF Rows
    <2>2. QED BY <1>1, <2>1, DeleteSafe
  <1>9. BlockedPairsAreApart'
    <2> SUFFICES ASSUME NEW o \in Pair, Blocked(o[1], o[2])'
                 PROVE  /\ Rows(o[1], o[2])' # {} => <<"follow", o>> \in late'
                        /\ o \in close' => <<"close", o>> \in late'
      BY DEF BlockedPairsAreApart
    <2>1. o[1] \in User /\ o[2] \in User /\ o = <<o[1], o[2]>>
      BY DEF Pair
    <2>2. CASE o \in {p, <<p[2], p[1]>>}
      <3>1. Rows(o[1], o[2])' = {}
        BY <1>8, <2>1, <2>2
      <3>2. QED BY <1>1, <2>2, <3>1
    <2>3. CASE o \notin {p, <<p[2], p[1]>>}
      <3>1. Blocked(o[1], o[2])
        BY <1>5, <2>1, <2>3
      <3>2. /\ Rows(o[1], o[2]) # {} => <<"follow", o>> \in late
            /\ o \in close => <<"close", o>> \in late
        BY <3>1 DEF IInv, BlockedPairsAreApart
      <3>3. QED BY <1>1, <1>8, <2>1, <2>3, <3>2
    <2>4. QED BY <2>2, <2>3
  <1>10. GraphTyped'
    BY <1>1, <1>8 DEF GraphTyped, IInv, TypeOK, Block
  <1>11. QED BY <1>3, <1>4, <1>6, <1>7, <1>8, <1>9, <1>10 DEF Safe, Ends

LEMMA UnblockSafe ==
  ASSUME IInv, NEW r \in Req, Unblock(r)
  PROVE  Safe(r)
  <1>1. Ends(r) /\ block' \subseteq block /\ UNCHANGED <<follow, close, private, late>>
    BY EndsIs DEF Unblock
  <1>2. \A u, v \in User : Blocked(u, v)' => Blocked(u, v)
    BY <1>1 DEF Blocked
  <1>3. BlockMarks(r) /\ PrivacyMarks(r) /\ RowsMark(r)
    BY <1>1, <1>2 DEF BlockMarks, PrivacyMarks, RowsMark
  <1>4. RowsApart' /\ GraphTyped'
    BY <1>1 DEF RowsApart, Exists, GraphTyped, IInv, TypeOK
  <1>5. BlockedPairsAreApart'
    <2>1. \A p \in Pair : p[1] \in User /\ p[2] \in User
      BY DEF Pair
    <2>2. QED BY <1>1, <1>2, <2>1 DEF IInv, BlockedPairsAreApart, Rows, Exists
  <1>6. QED BY <1>1, <1>3, <1>4, <1>5 DEF Safe

LEMMA SetPrivacySafe ==
  ASSUME IInv, NEW r \in Req, SetPrivacy(r)
  PROVE  Safe(r)
  <1>1. UNCHANGED <<follow, block, close, late>>
    BY DEF SetPrivacy
  <1>2. BlockMarks(r) /\ RowsMark(r) /\ RowsApart' /\ BlockedPairsAreApart'
    BY <1>1 DEF BlockMarks, RowsMark, IInv, RowsApart, BlockedPairsAreApart, Exists, Blocked, Rows
  <1>3. Ends(r) /\ PrivacyMarks(r) /\ private' \subseteq User
    <2>1. ASSUME NEW u \in User, private' = private \cup {u},
                 Overtake(r, [Idle EXCEPT !.at = "end", !.user = u],
                          {q \in Req : Active(q) /\ req[q].other = u}, "private")
          PROVE  Ends(r) /\ PrivacyMarks(r) /\ private' \subseteq User
      <3> DEFINE x == [Idle EXCEPT !.at = "end", !.user = u]
                 others == {q \in Req : Active(q) /\ req[q].other = u}
      <3>1. x \in Request /\ x.at = "end"
        BY Requests DEF IInv, Idle
      <3>2. /\ req' \in [Req -> Request] /\ req'[r] = x
            /\ \A q \in Req \ {r} : Kept(q) /\ (q \in others => "private" \in req'[q].over)
        BY <2>1, <3>1, OvertakeIs DEF IInv
      <3>3. PrivacyMarks(r)
        BY <2>1, <3>2 DEF PrivacyMarks, Active, Asking
      <3>4. QED BY <2>1, <3>1, <3>2, <3>3 DEF Ends, IInv, TypeOK
    <2>2. ASSUME NEW u \in User, private' = private \ {u},
                 Become(r, [Idle EXCEPT !.at = "end", !.user = u])
          PROVE  Ends(r) /\ PrivacyMarks(r) /\ private' \subseteq User
      BY <2>2, EndsIs DEF PrivacyMarks, IInv, TypeOK
    <2>3. QED BY <2>1, <2>2 DEF SetPrivacy
  <1>4. QED BY <1>1, <1>2, <1>3 DEF Safe, GraphTyped, IInv, TypeOK

LEMMA CloseSafe ==
  ASSUME IInv, NEW r \in Req, Add(r) \/ Remove(r)
  PROVE  Safe(r)
  <1>1. UNCHANGED <<follow, block, private>> /\ Ends(r)
    BY EndsIs DEF Add, Remove
  <1>2. BlockMarks(r) /\ PrivacyMarks(r) /\ RowsMark(r) /\ RowsApart'
    BY <1>1 DEF BlockMarks, PrivacyMarks, RowsMark, IInv, RowsApart, Exists, Blocked
  <1>3. \A p \in Pair : (Blocked(p[1], p[2])' <=> Blocked(p[1], p[2]))
                       /\ Rows(p[1], p[2])' = Rows(p[1], p[2])
    BY <1>1 DEF Blocked, Rows, Exists
  <1>4. CASE Add(r)
    <2> DEFINE p == <<req[r].user, req[r].other>>
    <2>1. p \in Pair /\ (Blocked(p[1], p[2]) => "block" \in req[r].over)
      BY <1>4 DEF Add, At, IInv, RequestsOK, AskFine, Asking
    <2>2. /\ close' = close \cup {p}
          /\ late' = IF "block" \in req[r].over THEN late \cup {<<"close", p>>} ELSE late
      BY <1>4 DEF Add
    <2>3. BlockedPairsAreApart'
      BY <1>3, <2>1, <2>2 DEF IInv, BlockedPairsAreApart
    <2>4. GraphTyped'
      BY <1>1, <2>1, <2>2 DEF GraphTyped, IInv, TypeOK
    <2>5. QED BY <1>1, <1>2, <2>3, <2>4 DEF Safe
  <1>5. CASE Remove(r)
    <2>1. PICK p \in Pair : close' = close \ {p} /\ late' = late \ {<<"close", p>>}
      BY <1>5 DEF Remove
    <2>2. BlockedPairsAreApart'
      BY <1>3, <2>1 DEF IInv, BlockedPairsAreApart
    <2>3. GraphTyped'
      BY <1>1, <2>1 DEF GraphTyped, IInv, TypeOK
    <2>4. QED BY <1>1, <1>2, <2>2, <2>3 DEF Safe
  <1>6. QED BY <1>4, <1>5

LEMMA NextIInv == IInv /\ [Next]_vars => IInv'
  <1> SUFFICES ASSUME IInv, [Next]_vars PROVE IInv'
    OBVIOUS
  <1>1. ASSUME NEW r \in Req, Step(r), Look PROVE IInv'
    <2>1. CASE Reads(r)
      BY <1>1, <2>1, ReadsStep
    <2>2. CASE Safe(r)
      BY <1>1, <2>2, SafeStep
    <2>3. Reads(r) \/ Safe(r)
      BY <1>1, FollowCreateSafe, UnfollowSafe, AcceptSafe, DeclineSafe, BlockSafe, UnblockSafe,
         SetPrivacySafe, CloseSafe DEF Step, Reads
    <2>4. QED BY <2>1, <2>2, <2>3
  <1>2. CASE UNCHANGED vars
    BY <1>2 DEF vars, graph, IInv, TypeOK, RowsApart, RequestsOK, AskFine, StatusFine, AnswerFine,
                SeenOK, BlockedPairsAreApart, ShownIsExplained, Exists, Blocked, Rows, Following,
                CanView, Views, At
  <1>3. QED BY <1>1, <1>2 DEF Next

LEMMA Invariance == Spec => []IInv
  <1>1. QED BY InitIInv, NextIInv, PTL DEF Spec

\* The rows, the blocks, the close friends and the requests keep their types.
THEOREM TypeCorrect == Spec => []TypeOK
  <1>1. IInv => TypeOK
    BY DEF IInv
  <1>2. QED BY <1>1, Invariance, PTL

\* Between two users one of whom has blocked the other there is nothing but what a
\* follow or an add inserted whose check came before the block.
THEOREM BlockingSeparates == Spec => []BlockedPairsAreApart
  <1>1. IInv => BlockedPairsAreApart
    BY DEF IInv
  <1>2. QED BY <1>1, Invariance, PTL

\* canViewContent lets nobody see who could not at some moment since he asked, unless
\* a block came after its first check.
THEOREM ViewersWereAllowed == Spec => []ShownIsExplained
  <1>1. IInv => ShownIsExplained
    BY DEF IInv
  <1>2. QED BY <1>1, Invariance, PTL

-----------------------------------------------------------------------------
\* A follow begins with the owner's accept, or with the follower's own insertion after it
\* has read a public account.
LEMMA BeginsBy ==
  ASSUME IInv, NEW r \in Req, Step(r), NEW p \in Pair,
         ~Following(p[1], p[2]), Following(p[1], p[2])', p[2] \in private'
  PROVE  /\ req'[r].at # req[r].at
         /\ \/ At(r, "accept") /\ req[r].user = p[2]
            \/ At(r, "create") /\ req[r].user = p[1] /\ "private" \in req[r].over
  <1>0. p[1] \in User /\ p[2] \in User /\ p = <<p[1], p[2]>>
    BY DEF Pair
  <1>1. follow' # follow
    BY DEF Following, Rows, Exists
  <1>2. ~Reads(r)
    BY <1>1, ReadsIs DEF graph
  <1>3. ASSUME NEW S, Delete(S), \A i \in S \cap Row : Exists(i) PROVE FALSE
    BY <1>3, DeleteIs DEF IInv, Following, Rows, Exists
  <1>4. ~Unfollow(r) /\ ~Block(r)
    <2>1. \A u, v \in User : \A i \in Rows(u, v) : Exists(i)
      BY DEF Rows
    <2>2. \A o \in Pair : o[1] \in User /\ o[2] \in User
      BY DEF Pair
    <2>3. \A o \in Pair : \A i \in (Rows(o[1], o[2]) \cup Rows(o[2], o[1])) \cap Row : Exists(i)
      BY <2>1, <2>2
    <2>4. QED BY <1>3, <2>3 DEF Unfollow, Block
  <1>5. ~Decline(r)
    BY <1>1, <1>3 DEF Decline
  <1>6. Accept(r) \/ FollowCreate(r)
    BY <1>1, <1>2, <1>4, <1>5 DEF Step, Reads, Unblock, SetPrivacy, Add, Remove
  <1>7. CASE Accept(r)
    <2> DEFINE i == req[r].row
    <2>1. Exists(i) /\ follow' = [follow EXCEPT ![i].status = "ACCEPTED"]
      BY <1>1, <1>7 DEF Accept
    <2>2. i \in Row /\ follow[i].to = req[r].user
      BY <1>7 DEF Accept, At, IInv, RequestsOK, AnswerFine
    <2>3. \A j \in Row : /\ follow'[j].from = follow[j].from /\ follow'[j].to = follow[j].to
                        /\ follow'[j].status = IF j = i THEN "ACCEPTED" ELSE follow[j].status
      BY <2>1, <2>2 DEF IInv, TypeOK, FollowRow
    <2>4. follow[i].to = p[2]
      BY <2>1, <2>3 DEF Following, Rows, Exists
    <2>5. Ends(r)
      BY <1>7, AcceptSafe DEF Safe
    <2>6. QED BY <1>7, <2>2, <2>4, <2>5 DEF Ends, Accept, At
  <1>8. CASE FollowCreate(r)
    <2> DEFINE u == req[r].user
               v == req[r].other
               new == [status |-> req[r].status, from |-> u, to |-> v]
    <2>1. PICK i \in Row : follow[i].status = "absent" /\ follow' = [follow EXCEPT ![i] = new]
      BY <1>1, <1>8 DEF FollowCreate
    <2>2. follow'[i] = new /\ \A j \in Row \ {i} : follow'[j] = follow[j]
      BY <2>1 DEF IInv, TypeOK
    <2>3. u = p[1] /\ v = p[2] /\ req[r].status = "ACCEPTED"
      BY <2>2 DEF Following, Rows, Exists
    <2>4. private' = private
      BY <1>8 DEF FollowCreate
    <2>5. "private" \in req[r].over
      BY <1>8, <2>3, <2>4 DEF FollowCreate, At, IInv, RequestsOK, StatusFine
    <2>6. Ends(r)
      BY <1>8, FollowCreateSafe DEF Safe
    <2>7. QED BY <1>8, <2>3, <2>5, <2>6 DEF Ends, FollowCreate, At
  <1>9. QED BY <1>6, <1>7, <1>8

\* A follow ends by a call of one of the two.
LEMMA EndsBy ==
  ASSUME IInv, NEW r \in Req, Step(r), NEW p \in Pair,
         Following(p[1], p[2]), ~Following(p[1], p[2])'
  PROVE  /\ req'[r].at # req[r].at /\ req'[r].user \in {p[1], p[2]}
         /\ At(r, "decline") => "accept" \in req[r].over
  <1>0. p[1] \in User /\ p[2] \in User /\ p = <<p[1], p[2]>>
    BY DEF Pair
  <1>1. PICK i \in Row : /\ follow[i].status = "ACCEPTED" /\ follow[i].from = p[1]
                         /\ follow[i].to = p[2]
    BY DEF Following, Rows
  <1>2. ~(follow'[i].status = "ACCEPTED" /\ follow'[i].from = p[1] /\ follow'[i].to = p[2])
    BY DEF Following, Rows, Exists
  <1>3. ~Reads(r)
    BY <1>1, <1>2, ReadsIs DEF graph
  <1>4. ~FollowCreate(r)
    <2>1. ASSUME FollowCreate(r), NEW j \in Row, follow[j].status = "absent", NEW x,
                 follow' = [follow EXCEPT ![j] = x]
          PROVE  FALSE
      BY <1>1, <1>2, <2>1 DEF IInv, TypeOK
    <2>2. QED BY <1>1, <1>2, <2>1 DEF FollowCreate
  <1>5. ~Accept(r)
    <2>1. ASSUME NEW j \in Row, follow' = [follow EXCEPT ![j].status = "ACCEPTED"] PROVE FALSE
      BY <1>1, <1>2, <2>1 DEF IInv, TypeOK, FollowRow
    <2>2. ASSUME Accept(r) PROVE req[r].row \in Row
      BY <2>2 DEF Accept, At, IInv, RequestsOK, AnswerFine
    <2>3. QED BY <1>1, <1>2, <2>1, <2>2 DEF Accept
  <1>6. Unfollow(r) \/ Decline(r) \/ Block(r)
    BY <1>1, <1>2, <1>3, <1>4, <1>5 DEF Step, Reads, Unblock, SetPrivacy, Add, Remove
  <1>7. ASSUME NEW S, Delete(S), \A j \in S \cap Row : Exists(j) PROVE i \in S
    BY <1>1, <1>2, <1>7, DeleteIs DEF IInv
  <1>8. CASE Unfollow(r)
    <2>0. PICK o \in Pair :
            /\ Delete(Rows(o[1], o[2]))
            /\ \E u \in {o[1], o[2]} : Become(r, [Idle EXCEPT !.at = "end", !.user = u])
      BY <1>8 DEF Unfollow
    <2>1. PICK u \in {o[1], o[2]} :
            Delete(Rows(o[1], o[2])) /\ Become(r, [Idle EXCEPT !.at = "end", !.user = u])
      BY <2>0
    <2>2. i \in Rows(o[1], o[2])
      BY <2>1, <1>7 DEF Rows
    <2>3. u \in {p[1], p[2]}
      BY <1>1, <2>1, <2>2 DEF Rows
    <2> DEFINE x == [Idle EXCEPT !.at = "end", !.user = u]
    <2>4. req'[r] = x
      <3>1. TypeOK /\ u \in User
        BY <1>0, <2>3 DEF IInv
      <3>2. x \in Request
        BY <3>1, Requests
      <3> HIDE DEF x
      <3>3. Become(r, x)
        BY <2>1 DEF x
      <3>4. QED BY <3>1, <3>2, <3>3, BecomeIs
    <2>5. req'[r].at = "end" /\ req'[r].user = u
      BY <2>4 DEF Idle
    <2>6. req[r].at = "start"
      BY <1>8 DEF Unfollow, At
    <2>7. QED BY <2>3, <2>5, <2>6 DEF At
  <1>9. CASE Decline(r)
    <2>1. Delete({req[r].row}) /\ Exists(req[r].row)
      BY <1>1, <1>2, <1>9 DEF Decline
    <2>2. i = req[r].row
      BY <2>1, <1>7
    <2>3. req[r].user = p[2] /\ "accept" \in req[r].over
      BY <1>1, <1>9, <2>2 DEF Decline, At, IInv, RequestsOK, AnswerFine
    <2>4. req'[r] = Answered(r)
      BY <1>9, Requests, BecomeIs DEF Decline, IInv
    <2>5. Answered(r).at = "end" /\ Answered(r).user = req[r].user
      BY DEF Answered, IInv, TypeOK, Request
    <2>6. QED BY <1>9, <2>3, <2>4, <2>5 DEF Decline, At
  <1>10. CASE Block(r)
    <2>1. PICK o \in Pair :
            /\ Delete(Rows(o[1], o[2]) \cup Rows(o[2], o[1]))
            /\ Overtake(r, [Idle EXCEPT !.at = "end", !.user = o[1]], Between(o[1], o[2]), "block")
      BY <1>10 DEF Block
    <2>2. i \in Rows(o[1], o[2]) \cup Rows(o[2], o[1])
      BY <2>1, <1>7 DEF Rows
    <2>3. o[1] \in {p[1], p[2]}
      BY <1>1, <2>2 DEF Rows
    <2> DEFINE x == [Idle EXCEPT !.at = "end", !.user = o[1]]
    <2>4. req'[r] = x
      <3>1. TypeOK /\ o[1] \in User
        BY <1>0, <2>3 DEF IInv
      <3>2. x \in Request
        BY <3>1, Requests
      <3> HIDE DEF x
      <3>3. Overtake(r, x, Between(o[1], o[2]), "block")
        BY <2>1 DEF x
      <3>4. QED BY <3>1, <3>2, <3>3, OvertakeIs
    <2>5. req'[r].at = "end" /\ req'[r].user = o[1]
      BY <2>4 DEF Idle
    <2>6. req[r].at = "start"
      BY <1>10 DEF Block, At
    <2>7. QED BY <2>3, <2>5, <2>6 DEF At
  <1>11. QED BY <1>6, <1>8, <1>9, <1>10

\* A private account gets a follower by its owner's accept, or it became private under
\* the feet of a follow that had read it as public.
THEOREM PrivateAccountsConfirm == Spec => FollowersAreConfirmed
  <1> DEFINE A == \A p \in Pair :
       ~Following(p[1], p[2]) /\ Following(p[1], p[2])' /\ p[2] \in private' =>
         \E r \in Req : /\ req'[r].at # req[r].at
                        /\ \/ At(r, "accept") /\ req[r].user = p[2]
                           \/ At(r, "create") /\ req[r].user = p[1] /\ "private" \in req[r].over
  <1>1. ASSUME IInv, [Next]_vars PROVE [A]_vars
    BY <1>1, BeginsBy DEF Next
  <1>2. QED BY <1>1, Invariance, PTL DEF Spec, FollowersAreConfirmed

\* A follow is ended by one of the two, and by a decline only if the request was accepted
\* after the decline had read it.
THEOREM FollowsEndByTheTwo == Spec => FollowsEndByWill
  <1> DEFINE A == \A p \in Pair :
       Following(p[1], p[2]) /\ ~Following(p[1], p[2])' =>
         \E r \in Req : /\ req'[r].at # req[r].at /\ req'[r].user \in {p[1], p[2]}
                        /\ At(r, "decline") => "accept" \in req[r].over
  <1>1. ASSUME IInv, [Next]_vars PROVE [A]_vars
    BY <1>1, EndsBy DEF Next
  <1>2. QED BY <1>1, Invariance, PTL DEF Spec, FollowsEndByWill

-----------------------------------------------------------------------------
(***************************************************************************)
(* What a step does to the graph, without the rows and the requests: it is *)
(* what every user's view of the graph makes of a step.                    *)
(***************************************************************************)
\* Only a may have begun or ceased to follow b.
FollowOnly(a, b) ==
  /\ UNCHANGED <<block, close, private>>
  /\ \A u, v \in User : u # v /\ ~(u = a /\ v = b) => (Following(u, v)' <=> Following(u, v))

BlockOnly(p) ==
  /\ block' = block \cup {p} /\ close' = close \ {p, <<p[2], p[1]>>} /\ private' = private
  /\ \A u, v \in User : Following(u, v)' <=> (Following(u, v) /\ <<u, v>> \notin {p, <<p[2], p[1]>>})

Otherwise ==
  /\ follow' = follow
  /\ \/ \E p \in Pair : block' = block \ {p} /\ UNCHANGED <<close, private>>
     \/ \E p \in Pair : close' \in {close \cup {p}, close \ {p}} /\ UNCHANGED <<block, private>>
     \/ \E u \in User : private' \in {private \cup {u}, private \ {u}} /\ UNCHANGED <<block, close>>

OneChange ==
  \/ UNCHANGED graph
  \/ \E a, b \in User \cup {None} : FollowOnly(a, b)
  \/ \E p \in Pair : BlockOnly(p)
  \/ Otherwise

\* A row that is accepted or goes is the row of one pair.
LEMMA RowIs ==
  ASSUME NEW u \in User, NEW v \in User,
         \A j \in Row : (follow'[j].status = "ACCEPTED" /\ follow'[j].from = u /\ follow'[j].to = v)
                    <=> (follow[j].status = "ACCEPTED" /\ follow[j].from = u /\ follow[j].to = v)
  PROVE  Following(u, v)' <=> Following(u, v)
  BY DEF Following, Rows, Exists

LEMMA ChangesOne ==
  ASSUME IInv, NEW r \in Req, Step(r)
  PROVE  OneChange
  <1>0. \A j \in Row : follow[j] \in FollowRow
    BY DEF IInv, TypeOK
  <1>1. CASE Reads(r)
    BY <1>1, ReadsIs DEF OneChange
  <1>2. CASE FollowCreate(r)
    <2> DEFINE u == req[r].user
               v == req[r].other
               new == [status |-> req[r].status, from |-> u, to |-> v]
    <2>1. CASE follow' = follow
      BY <1>2, <2>1 DEF FollowCreate, OneChange, graph
    <2>2. CASE follow' # follow
      <3>1. PICK i \in Row : follow[i].status = "absent" /\ follow' = [follow EXCEPT ![i] = new]
        BY <1>2, <2>2 DEF FollowCreate
      <3>2. follow'[i] = new /\ \A j \in Row \ {i} : follow'[j] = follow[j]
        BY <3>1 DEF IInv, TypeOK
      <3>3. \A a, b \in User : ~(a = u /\ b = v) => (Following(a, b)' <=> Following(a, b))
        BY <3>1, <3>2, RowIs
      <3>4. u \in User \cup {None} /\ v \in User \cup {None}
        BY DEF IInv, TypeOK, Request
      <3>5. FollowOnly(u, v)
        BY <1>2, <3>3 DEF FollowCreate, FollowOnly
      <3>6. QED BY <3>4, <3>5 DEF OneChange
    <2>3. QED BY <2>1, <2>2
  <1>3. CASE Accept(r)
    <2> DEFINE i == req[r].row
    <2>1. CASE follow' = follow
      BY <1>3, <2>1 DEF Accept, OneChange, graph
    <2>2. CASE follow' # follow
      <3>1. i \in Row /\ follow' = [follow EXCEPT ![i].status = "ACCEPTED"]
        BY <1>3, <2>2 DEF Accept, At, IInv, RequestsOK, AnswerFine
      <3>2. \A j \in Row : /\ follow'[j].from = follow[j].from /\ follow'[j].to = follow[j].to
                           /\ j # i => follow'[j].status = follow[j].status
        BY <1>0, <3>1 DEF IInv, TypeOK, FollowRow
      <3>3. \A a, b \in User : ~(a = follow[i].from /\ b = follow[i].to)
                                  => (Following(a, b)' <=> Following(a, b))
        BY <3>2, RowIs
      <3>4. FollowOnly(follow[i].from, follow[i].to)
        BY <1>3, <3>3 DEF Accept, FollowOnly
      <3>5. QED BY <1>0, <3>1, <3>4 DEF OneChange, FollowRow
    <2>3. QED BY <2>1, <2>2
  <1>4. ASSUME NEW S, Delete(S), \A j \in S \cap Row : Exists(j),
               NEW a \in User \cup {None}, NEW b \in User \cup {None},
               \A j \in S \cap Row : follow[j].from = a /\ follow[j].to = b,
               UNCHANGED <<block, close, private>>
        PROVE  OneChange
    <2>1. \A j \in Row : /\ follow'[j].from = follow[j].from /\ follow'[j].to = follow[j].to
                         /\ follow'[j].status = IF j \in S THEN "gone" ELSE follow[j].status
      BY <1>4, DeleteIs DEF IInv
    <2>2. \A u, v \in User : ~(u = a /\ v = b) => (Following(u, v)' <=> Following(u, v))
      BY <1>4, <2>1, RowIs
    <2>3. FollowOnly(a, b)
      BY <1>4, <2>2 DEF FollowOnly
    <2>4. QED BY <2>3 DEF OneChange
  <1>5. CASE Unfollow(r)
    <2>1. PICK p \in Pair : Delete(Rows(p[1], p[2]))
      BY <1>5 DEF Unfollow
    <2>2. \A j \in Rows(p[1], p[2]) : Exists(j) /\ follow[j].from = p[1] /\ follow[j].to = p[2]
      BY DEF Rows
    <2>3. p[1] \in User /\ p[2] \in User
      BY DEF Pair
    <2>4. UNCHANGED <<block, close, private>>
      BY <1>5 DEF Unfollow
    <2>5. QED BY <1>4, <2>1, <2>2, <2>3, <2>4
  <1>6. CASE Decline(r)
    <2> DEFINE i == req[r].row
    <2>1. CASE follow' = follow
      BY <1>6, <2>1 DEF Decline, OneChange, graph
    <2>2. CASE follow' # follow
      <3>1. i \in Row /\ Exists(i) /\ Delete({i}) /\ UNCHANGED <<block, close, private>>
        BY <1>6, <2>2 DEF Decline, At, IInv, RequestsOK, AnswerFine
      <3>2. follow[i].from \in User \cup {None} /\ follow[i].to \in User \cup {None}
        BY <1>0, <3>1 DEF FollowRow
      <3>3. \A j \in {i} \cap Row : /\ Exists(j) /\ follow[j].from = follow[i].from
                                   /\ follow[j].to = follow[i].to
        BY <3>1
      <3> DEFINE S == {i}
                 a == follow[i].from
                 b == follow[i].to
      <3>4. /\ Delete(S) /\ a \in User \cup {None} /\ b \in User \cup {None}
            /\ \A j \in S \cap Row : Exists(j) /\ follow[j].from = a /\ follow[j].to = b
        BY <3>1, <3>2, <3>3
      <3> HIDE DEF S, a, b
      <3>5. QED BY <1>4, <3>1, <3>4
    <2>3. QED BY <2>1, <2>2
  <1>7. CASE Block(r)
    <2>1. PICK p \in Pair : /\ block' = block \cup {p}
                            /\ Delete(Rows(p[1], p[2]) \cup Rows(p[2], p[1]))
                            /\ close' = close \ {p, <<p[2], p[1]>>}
      BY <1>7 DEF Block
    <2> DEFINE S == Rows(p[1], p[2]) \cup Rows(p[2], p[1])
    <2>2. \A j \in Row : j \in S <=>
            /\ Exists(j)
            /\ \/ follow[j].from = p[1] /\ follow[j].to = p[2]
               \/ follow[j].from = p[2] /\ follow[j].to = p[1]
      BY DEF Rows
    <2>3. \A j \in Row : /\ follow'[j].from = follow[j].from /\ follow'[j].to = follow[j].to
                         /\ follow'[j].status = IF j \in S THEN "gone" ELSE follow[j].status
      BY <2>1, <2>2, DeleteIs DEF IInv
    <2>4. p = <<p[1], p[2]>>
      BY DEF Pair
    <2>5. ASSUME NEW u \in User, NEW v \in User
          PROVE  Following(u, v)' <=> (Following(u, v) /\ <<u, v>> \notin {p, <<p[2], p[1]>>})
      <3>1. CASE <<u, v>> \in {p, <<p[2], p[1]>>}
        BY <2>2, <2>3, <2>4, <3>1 DEF Following, Rows, Exists
      <3>2. CASE <<u, v>> \notin {p, <<p[2], p[1]>>}
        BY <2>2, <2>3, <2>4, <3>2, RowIs
      <3>3. QED BY <3>1, <3>2
    <2>6. BlockOnly(p)
      BY <1>7, <2>1, <2>5 DEF Block, BlockOnly
    <2>7. QED BY <2>6 DEF OneChange
  <1>8. CASE Unblock(r) \/ SetPrivacy(r) \/ Remove(r)
    BY <1>8 DEF Unblock, SetPrivacy, Remove, OneChange, Otherwise
  <1>9. CASE Add(r)
    <2>1. <<req[r].user, req[r].other>> \in Pair
      BY <1>9 DEF Add, At, IInv, RequestsOK, AskFine, Asking
    <2>2. QED BY <1>9, <2>1 DEF Add, OneChange, Otherwise
  <1>10. QED BY <1>1, <1>2, <1>3, <1>5, <1>6, <1>7, <1>8, <1>9 DEF Step, Reads

\* One change is one change, or none, for each user who looks at it.
LEMMA SeenByEach ==
  ASSUME OneChange, NEW u \in User
  PROVE  [Seen(u)!Change(User \ {u})]_(Seen(u)!graph)
  <1> DEFINE F == {v \in User \ {u} : Following(u, v)}
             B == {v \in User \ {u} : Blocked(u, v)}
             C == {v \in User \ {u} : <<v, u>> \in close}
             P == private \ {u}
             Same == F' = F /\ B' = B /\ C' = C /\ P' = P
             Fol(x) == F' \in {F \cup {x}, F \ {x}} /\ B' = B /\ C' = C /\ P' = P
             Blo(x) == B' = B \cup {x} /\ F' = F \ {x} /\ C' = C \ {x} /\ P' = P
             Unb(x) == B' = B \ {x} /\ F' = F /\ C' = C /\ P' = P
             Pri(x) == P' \in {P \cup {x}, P \ {x}} /\ F' = F /\ B' = B /\ C' = C
             Bef(x) == C' \in {C \cup {x}, C \ {x}} /\ F' = F /\ B' = B /\ P' = P
             Some == \E x \in User \ {u} : Fol(x) \/ Blo(x) \/ Unb(x) \/ Pri(x) \/ Bef(x)
  <1>1. Some \/ Same => [Seen(u)!Change(User \ {u})]_(Seen(u)!graph)
    BY DEF Seen!Change, Seen!Follow, Seen!Block, Seen!Unblock, Seen!SetPrivacy, Seen!Befriend,
           Seen!graph
  <1>2. CASE UNCHANGED graph
    <2>1. Same
      BY <1>2 DEF graph, Following, Rows, Exists, Blocked
    <2>2. QED BY <1>1, <2>1
  <1>3. ASSUME NEW a \in User \cup {None}, NEW b \in User \cup {None}, FollowOnly(a, b)
        PROVE  Some \/ Same
    <2>1. B' = B /\ C' = C /\ P' = P
      BY <1>3 DEF FollowOnly, Blocked
    <2>2. \A v \in User \ {u} : ~(u = a /\ v = b) => (Following(u, v)' <=> Following(u, v))
      BY <1>3 DEF FollowOnly
    <2>3. CASE u = a /\ b \in User \ {u}
      <3>1. F' \in {F \cup {b}, F \ {b}}
        BY <2>2, <2>3
      <3>2. Fol(b)
        BY <2>1, <3>1
      <3>3. QED BY <2>3, <3>2
    <2>4. CASE ~(u = a /\ b \in User \ {u})
      <3>1. F' = F
        BY <2>2, <2>4
      <3>2. QED BY <2>1, <3>1
    <2>5. QED BY <2>3, <2>4
  <1>4. ASSUME NEW p \in Pair, BlockOnly(p) PROVE Some \/ Same
    <2>1. p = <<p[1], p[2]>> /\ p[1] \in User /\ p[2] \in User /\ p[1] # p[2]
      BY DEF Pair
    <2>2. \A v \in User : /\ Blocked(u, v)' <=> Blocked(u, v) \/ <<u, v>> \in {p, <<p[2], p[1]>>}
                          /\ <<v, u>> \in close' <=> <<v, u>> \in close /\ <<u, v>> \notin {p, <<p[2], p[1]>>}
                          /\ Following(u, v)' <=> Following(u, v) /\ <<u, v>> \notin {p, <<p[2], p[1]>>}
      BY <1>4, <2>1 DEF BlockOnly, Blocked
    <2>3. P' = P
      BY <1>4 DEF BlockOnly
    <2>4. CASE u \notin {p[1], p[2]}
      <3>1. \A v \in User : <<u, v>> \notin {p, <<p[2], p[1]>>}
        BY <2>1, <2>4
      <3>2. F' = F
        BY <2>2, <3>1
      <3>3. B' = B
        BY <2>2, <3>1
      <3>4. C' = C
        BY <2>2, <3>1
      <3>5. QED BY <2>3, <3>2, <3>3, <3>4
    <2>5. ASSUME NEW x \in User \ {u}, {u, x} = {p[1], p[2]} PROVE Blo(x)
      <3>1. \A v \in User : <<u, v>> \in {p, <<p[2], p[1]>>} <=> v = x
        BY <2>1, <2>5
      <3>2. QED BY <2>2, <2>3, <3>1
    <2>6. CASE u \in {p[1], p[2]}
      <3>1. \E x \in User \ {u} : {u, x} = {p[1], p[2]}
        BY <2>1, <2>6
      <3>2. QED BY <2>5, <3>1
    <2>7. QED BY <2>4, <2>6
  <1>5. CASE Otherwise
    <2>0. F' = F
      BY <1>5 DEF Otherwise, Following, Rows, Exists
    <2>1. ASSUME NEW p \in Pair, block' = block \ {p}, UNCHANGED <<close, private>>
          PROVE  Some \/ Same
      <3>1. C' = C /\ P' = P
        BY <2>1
      <3>2. p = <<p[1], p[2]>> /\ p[1] \in User /\ p[2] \in User /\ p[1] # p[2]
        BY DEF Pair
      <3>3. ASSUME NEW x \in User \ {u}, {u, x} = {p[1], p[2]} PROVE B' \in {B, B \ {x}}
        <4>1. \A v \in User \ {u} : v # x => (Blocked(u, v)' <=> Blocked(u, v))
          BY <2>1, <3>2, <3>3 DEF Blocked
        <4>2. Blocked(u, x)' => Blocked(u, x)
          BY <2>1 DEF Blocked
        <4>3. QED BY <4>1, <4>2
      <3>4. CASE u \in {p[1], p[2]}
        <4>1. PICK x \in User \ {u} : {u, x} = {p[1], p[2]}
          BY <3>2, <3>4
        <4>2. CASE B' = B
          BY <2>0, <3>1, <4>2
        <4>3. CASE B' = B \ {x}
          <5>1. Unb(x)
            BY <2>0, <3>1, <4>3
          <5>2. QED BY <5>1
        <4>4. QED BY <3>3, <4>1, <4>2, <4>3
      <3>5. CASE u \notin {p[1], p[2]}
        <4>1. B' = B
          BY <2>1, <3>2, <3>5 DEF Blocked
        <4>2. QED BY <2>0, <3>1, <4>1
      <3>6. QED BY <3>4, <3>5
    <2>2. ASSUME NEW p \in Pair, close' \in {close \cup {p}, close \ {p}},
                 UNCHANGED <<block, private>>
          PROVE  Some \/ Same
      <3>1. B' = B /\ P' = P
        BY <2>2 DEF Blocked
      <3>2. p = <<p[1], p[2]>> /\ p[1] \in User /\ p[2] \in User /\ p[1] # p[2]
        BY DEF Pair
      <3>3. CASE p[2] = u
        <4>1. C' \in {C \cup {p[1]}, C \ {p[1]}}
          BY <2>2, <3>2, <3>3
        <4>2. Bef(p[1])
          BY <2>0, <3>1, <4>1
        <4>3. QED BY <3>2, <3>3, <4>2
      <3>4. CASE p[2] # u
        <4>1. C' = C
          BY <2>2, <3>2, <3>4
        <4>2. QED BY <2>0, <3>1, <4>1
      <3>5. QED BY <3>3, <3>4
    <2>3. ASSUME NEW w \in User, private' \in {private \cup {w}, private \ {w}},
                 UNCHANGED <<block, close>>
          PROVE  Some \/ Same
      <3>1. B' = B /\ C' = C
        BY <2>3 DEF Blocked
      <3>2. CASE w = u
        <4>1. P' = P
          BY <2>3, <3>2
        <4>2. QED BY <2>0, <3>1, <4>1
      <3>3. CASE w # u
        <4>1. P' \in {P \cup {w}, P \ {w}}
          BY <2>3, <3>3
        <4>2. Pri(w)
          BY <2>0, <3>1, <4>1
        <4>3. QED BY <3>3, <4>2
      <3>4. QED BY <3>2, <3>3
    <2> HIDE DEF Some, Same
    <2>4. CASE \E p \in Pair : block' = block \ {p} /\ UNCHANGED <<close, private>>
      BY <1>1, <2>1, <2>4
    <2>5. CASE \E p \in Pair : close' \in {close \cup {p}, close \ {p}} /\ UNCHANGED <<block, private>>
      BY <1>1, <2>2, <2>5
    <2>6. CASE \E w \in User : /\ private' \in {private \cup {w}, private \ {w}}
                               /\ UNCHANGED <<block, close>>
      BY <1>1, <2>3, <2>6
    <2>7. QED BY <1>5, <2>4, <2>5, <2>6 DEF Otherwise
  <1>6. QED BY <1>1, <1>2, <1>3, <1>4, <1>5 DEF OneChange

\* Before the first request blocked pairs have neither follow nor close friend.
LEMMA SeenAtFirst ==
  ASSUME Init, NEW u \in User
  PROVE  Seen(u)!GraphInit
  <1> DEFINE F == {v \in User \ {u} : Following(u, v)}
             B == {v \in User \ {u} : Blocked(u, v)}
             C == {v \in User \ {u} : <<v, u>> \in close}
  <1>1. private \subseteq User /\ \A p \in Pair : Blocked(p[1], p[2]) => Rows(p[1], p[2]) = {} /\ p \notin close
    BY DEF Init
  <1>2. ASSUME NEW v \in User \ {u}, Blocked(u, v) PROVE ~Following(u, v) /\ <<v, u>> \notin close
    <2>1. <<u, v>> \in Pair /\ <<v, u>> \in Pair /\ Blocked(v, u)
      BY <1>2 DEF Pair, Blocked
    <2>2. QED BY <1>1, <1>2, <2>1 DEF Following
  <1>3. B \cap (F \cup C) = {}
    BY <1>2
  <1>4. QED BY <1>1, <1>3 DEF Seen!GraphInit, Seen!GraphTypeOK

\* What SocialGraph does is what Audience promises to each user who reads the graph, with
\* any number of requests under way.
THEOREM AudienceImplemented == Spec => AudiencesAgree
  <1> DEFINE I == \A u \in User : Seen(u)!GraphInit
             A == \A u \in User : [Seen(u)!Change(User \ {u})]_(Seen(u)!graph)
  <1>1. Init => I
    BY SeenAtFirst
  <1>2. IInv /\ [Next]_vars => [A]_graph
    <2>1. ASSUME IInv, NEW r \in Req, Step(r) PROVE A
      BY <2>1, ChangesOne, SeenByEach
    <2>2. CASE UNCHANGED vars
      BY <2>2 DEF vars, graph
    <2>3. QED BY <2>1, <2>2 DEF Next
  <1>3. QED BY <1>1, <1>2, Invariance, PTL DEF Spec, AudiencesAgree

\* Follows begin and end by the will of the two they are between.
THEOREM FollowsWilled == Spec => FollowsAreWilled
  BY PrivateAccountsConfirm, FollowsEndByTheTwo, PTL DEF FollowsAreWilled

-----------------------------------------------------------------------------
\* What a step of the whole is to each of its components.
LEMMA PartStep ==
  ASSUME [AccountsNext]_accountvars
  PROVE  /\ [Next]_vars /\ [Pr!Next]_pvars /\ [Ve!Next]_vvars
         /\ [Po!Next]_svars /\ [Na!Next]_nvars /\ [Cl!Next]_cvars
  <1>1. CASE UNCHANGED accountvars
    BY <1>1 DEF accountvars, vars, pvars, vvars, svars, nvars, cvars
  <1>2. CASE AccountsNext
    BY <1>2 DEF AccountsNext, Befriends, Connects, Pays, Asks, Renames, Answers, timeless
  <1>3. QED BY <1>1, <1>2

\* A graph among the other things of an account takes the steps it takes alone: what is proved of it
\* above holds of the whole.
THEOREM AccountsRunTheGraph == AccountsSpec => Spec
  <1>1. AccountsInit => Init
    BY DEF AccountsInit
  <1>2. [AccountsNext]_accountvars => [Next]_vars
    BY PartStep
  <1>3. QED BY <1>1, <1>2, PTL DEF AccountsSpec, Spec

-----------------------------------------------------------------------------
VerificationTypes ==
  /\ plan \in [User -> Ve!Plan] /\ verified \subseteq User
  /\ order \in [Call -> Ve!Request] /\ sweep \in Ve!Sweep
  /\ today \in 0..LastDay
  /\ trials \in [User -> Nat] /\ paid \in [User -> Ve!Day] /\ cut \subseteq User

\* A call that has read that the user had no trial was right, or it has been passed since.
TrialsCounted ==
  /\ \A r \in Call : Ve!At(r, "start") => ~order[r].passed
  /\ \A r \in Call : Ve!At(r, "trial") /\ ~order[r].passed => trials[order[r].user] = 0
  /\ \A r \in Call : Ve!At(r, "trial") \/ Ve!At(r, "cancel") => order[r].user \in User
  /\ \A u \in User : trials[u] > 0 => plan[u].trialUsed

\* Whom the sweep has read as expired had not paid for today, or has begun anew since.
PaymentsHonoured ==
  /\ \A u \in User : paid[u] = IF plan[u].currentPeriodEnd = None THEN 0 ELSE plan[u].currentPeriodEnd
  /\ \A u \in User : plan[u].status = "TRIAL" => paid[u] <= today \/ u \in cut
  /\ sweep.at = "trials" => sweep.ids = {}
  /\ sweep.at \in {"subs", "expire"} => \A u \in sweep.ids : paid[u] <= today \/ u \in sweep.renewed \cup cut

VerificationInv == VerificationTypes /\ TrialsCounted /\ Ve!TrialsAreOnce /\ PaymentsHonoured

\* Days are days.
LEMMA Days ==
  /\ TrialDays \in Nat /\ PeriodDays \in Nat /\ LastDay \in Nat /\ None \notin Nat
  /\ Ve!Day \subseteq Nat /\ None \notin Ve!Day
  /\ \A t \in 0..LastDay : t \in Nat /\ t + TrialDays \in Ve!Day /\ t + PeriodDays \in Ve!Day
  BY DaysAreNumbers DEF Ve!Day

LEMMA VerificationInit == Ve!Init => VerificationInv
  <1> SUFFICES ASSUME Ve!Init PROVE VerificationInv
    OBVIOUS
  <1> USE DEF Ve!Init
  <1>1. VerificationTypes
    BY Days DEF VerificationTypes, Ve!Plan, Ve!Request, Ve!Sweep, Ve!Day
  <1>2. TrialsCounted /\ Ve!TrialsAreOnce
    BY DEF TrialsCounted, Ve!TrialsAreOnce, Ve!At
  <1>3. PaymentsHonoured
    BY DEF PaymentsHonoured
  <1>4. QED BY <1>1, <1>2, <1>3 DEF VerificationInv

LEMMA StartTrialStep == ASSUME VerificationInv, NEW r \in Call, Ve!StartTrial(r) PROVE VerificationInv'
  <1> DEFINE u == order[r].user
  <1>1. u \in User /\ VerificationTypes /\ today \in Nat
    BY Days DEF VerificationInv, TrialsCounted, Ve!StartTrial, VerificationTypes
  <1>2. /\ plan[u] \in Ve!Plan
        /\ plan'[u] = [plan[u] EXCEPT !.status = "TRIAL", !.trialUsed = TRUE, !.trialEndsAt = today + TrialDays]
        /\ \A v \in User \ {u} : plan'[v] = plan[v]
    BY <1>1 DEF VerificationTypes, Ve!StartTrial
  <1>3. /\ plan'[u] \in Ve!Plan /\ plan'[u].status = "TRIAL" /\ plan'[u].trialUsed
        /\ plan'[u].currentPeriodEnd = plan[u].currentPeriodEnd
    <2>1. today + TrialDays \in Ve!Day
      BY <1>1, Days DEF VerificationTypes
    <2>2. QED BY <1>2, <2>1 DEF Ve!Plan
  <1>4. /\ sweep' \in Ve!Sweep /\ sweep'.at = sweep.at /\ sweep'.ids = sweep.ids
        /\ sweep'.renewed = sweep.renewed \cup {u}
    BY <1>1 DEF Ve!StartTrial, Ve!Begin, Ve!Sweep, VerificationTypes
  <1>5. ASSUME NEW q \in Call
        PROVE  /\ order'[q] \in Ve!Request /\ order'[q].user = order[q].user
               /\ order'[q].at = IF q = r THEN "end" ELSE order[q].at
               /\ order'[q].passed = (order[q].passed \/ (q # r /\ Ve!At(q, "trial") /\ order[q].user = u))
    <2>1. order[q] \in Ve!Request
      BY <1>1 DEF VerificationTypes
    <2>2. order'[q] = IF q = r THEN [order[q] EXCEPT !.at = "end"]
                      ELSE IF Ve!At(q, "trial") /\ order[q].user = u THEN [order[q] EXCEPT !.passed = TRUE]
                      ELSE order[q]
      BY DEF Ve!StartTrial
    <2>3. QED BY <2>1, <2>2 DEF Ve!Request
  <1>6. VerificationTypes'
    <2>1. plan' \in [User -> Ve!Plan]
      BY <1>1, <1>2, <1>3 DEF Ve!StartTrial, VerificationTypes
    <2>2. order' \in [Call -> Ve!Request]
      BY <1>5 DEF Ve!StartTrial
    <2>3. trials' \in [User -> Nat] /\ verified' \subseteq User /\ cut' \subseteq User
      BY <1>1 DEF Ve!StartTrial, Ve!Begin, VerificationTypes
    <2>4. QED BY <1>4, <2>1, <2>2, <2>3, <1>1 DEF Ve!StartTrial, VerificationTypes
  <1>7. trials' = [trials EXCEPT ![u] = @ + 1] /\ trials \in [User -> Nat]
    BY <1>1 DEF Ve!StartTrial, VerificationTypes
  <1>8. TrialsCounted'
    <2>1. \A v \in User : trials'[v] > 0 => plan'[v].trialUsed
      BY <1>2, <1>3, <1>7 DEF TrialsCounted, VerificationInv
    <2>2. \A q \in Call : Ve!At(q, "start")' => ~order'[q].passed
      BY <1>5 DEF TrialsCounted, VerificationInv, Ve!At
    <2>3. ASSUME NEW q \in Call, Ve!At(q, "trial")', ~order'[q].passed
          PROVE  trials'[order'[q].user] = 0
      BY <1>5, <1>7, <2>3 DEF TrialsCounted, VerificationInv, Ve!At
    <2>4. \A q \in Call : Ve!At(q, "trial")' \/ Ve!At(q, "cancel")' => order'[q].user \in User
      BY <1>5 DEF TrialsCounted, VerificationInv, Ve!At
    <2>5. QED BY <2>1, <2>2, <2>3, <2>4 DEF TrialsCounted
  <1>9. Ve!TrialsAreOnce'
    <2> SUFFICES ASSUME NEW v \in User, trials'[v] > 1 PROVE \E q \in Call : order'[q].user = v /\ order'[q].passed
      BY DEF Ve!TrialsAreOnce
    <2>1. CASE v = u
      <3>1. order[r].passed
        BY <1>7, <1>1, <2>1 DEF VerificationInv, TrialsCounted, Ve!StartTrial
      <3>2. QED BY <3>1, <1>5, <2>1
    <2>2. CASE v # u
      <3>1. PICK q \in Call : order[q].user = v /\ order[q].passed
        BY <1>7, <2>2 DEF VerificationInv, Ve!TrialsAreOnce
      <3>2. QED BY <3>1, <1>5
    <2>3. QED BY <2>1, <2>2
  <1>10. PaymentsHonoured'
    <2>1. paid' = paid /\ today' = today /\ paid[u] \in Nat /\ cut \subseteq cut'
      BY <1>1, Days DEF Ve!StartTrial, VerificationTypes
    <2>2. paid[u] <= today \/ u \in cut'
      BY <1>1, <2>1 DEF Ve!StartTrial
    <2>3. \A v \in User : /\ plan'[v].currentPeriodEnd = plan[v].currentPeriodEnd
                          /\ v # u => plan'[v].status = plan[v].status
      BY <1>2, <1>3
    <2>4. \A v \in User : plan'[v].status = "TRIAL" => paid[v] <= today \/ v \in cut'
      BY <2>1, <2>2, <2>3 DEF VerificationInv, PaymentsHonoured
    <2>5. sweep'.at \in {"subs", "expire"} => \A v \in sweep'.ids : paid[v] <= today \/ v \in sweep'.renewed \cup cut'
      BY <1>4, <2>1 DEF VerificationInv, PaymentsHonoured
    <2>6. sweep'.at = "trials" => sweep'.ids = {}
      BY <1>4 DEF VerificationInv, PaymentsHonoured
    <2>7. QED BY <2>1, <2>3, <2>4, <2>5, <2>6 DEF VerificationInv, PaymentsHonoured
  <1>11. QED BY <1>6, <1>8, <1>9, <1>10 DEF VerificationInv

LEMMA SubscribeStep == ASSUME VerificationInv, NEW r \in Call, Ve!Subscribe(r) PROVE VerificationInv'
  <1>1. PICK u \in User :
          /\ plan' = [plan EXCEPT ![u].status = "ACTIVE", ![u].currentPeriodEnd = today + PeriodDays]
          /\ paid' = [paid EXCEPT ![u] = today + PeriodDays] /\ cut' = cut \ {u}
          /\ verified' = verified \cup {u} /\ sweep' = [sweep EXCEPT !.renewed = @ \cup {u}]
    BY DEF Ve!Subscribe, Ve!Begin
  <1>2. /\ VerificationTypes /\ today \in Nat /\ today + PeriodDays \in Ve!Day /\ None \notin Ve!Day
        /\ today' = today /\ trials' = trials
    BY Days DEF VerificationInv, VerificationTypes, Ve!Subscribe
  <1>3. /\ plan' \in [User -> Ve!Plan] /\ plan'[u].status = "ACTIVE"
        /\ plan'[u].currentPeriodEnd = today + PeriodDays /\ plan'[u].trialUsed = plan[u].trialUsed
        /\ \A v \in User \ {u} : plan'[v] = plan[v]
    BY <1>1, <1>2 DEF VerificationTypes, Ve!Plan
  <1>4. /\ sweep' \in Ve!Sweep /\ sweep'.at = sweep.at /\ sweep'.ids = sweep.ids
        /\ sweep'.renewed = sweep.renewed \cup {u}
    BY <1>1, <1>2 DEF Ve!Sweep, VerificationTypes
  <1>5. /\ order' \in [Call -> Ve!Request] /\ order'[r].at = "end"
        /\ \A q \in Call : order'[q].user = order[q].user /\ order'[q].passed = order[q].passed
        /\ \A q \in Call \ {r} : order'[q].at = order[q].at
    BY <1>2 DEF Ve!Subscribe, Ve!Ended, VerificationTypes, Ve!Request
  <1>6. /\ paid' \in [User -> Ve!Day] /\ paid'[u] = today + PeriodDays
        /\ \A v \in User \ {u} : paid'[v] = paid[v]
    BY <1>1, <1>2 DEF VerificationTypes
  <1>7. VerificationTypes'
    BY <1>1, <1>2, <1>3, <1>4, <1>5, <1>6 DEF VerificationTypes
  <1>8. TrialsCounted' /\ Ve!TrialsAreOnce'
    BY <1>2, <1>3, <1>5 DEF VerificationInv, TrialsCounted, Ve!TrialsAreOnce, Ve!At
  <1>9. PaymentsHonoured'
    BY <1>1, <1>2, <1>3, <1>4, <1>6 DEF VerificationInv, PaymentsHonoured
  <1>10. QED BY <1>7, <1>8, <1>9 DEF VerificationInv

\* What a call that only reads, or only cancels, leaves of the terms.
LEMMA CallStep ==
  ASSUME VerificationInv, NEW r \in Call, Ve!TrialRead(r) \/ Ve!CancelRead(r) \/ Ve!Cancel(r)
  PROVE  VerificationInv'
  <1>1. /\ VerificationTypes
        /\ sweep' = sweep /\ today' = today /\ trials' = trials /\ paid' = paid /\ cut' = cut /\ verified' = verified
    BY DEF VerificationInv, Ve!TrialRead, Ve!CancelRead, Ve!Cancel
  <1>2. /\ plan' \in [User -> Ve!Plan]
        /\ \A u \in User : /\ plan'[u].trialUsed = plan[u].trialUsed
                           /\ plan'[u].currentPeriodEnd = plan[u].currentPeriodEnd
                           /\ plan'[u].status = "TRIAL" => plan[u].status = "TRIAL"
    BY <1>1 DEF Ve!TrialRead, Ve!CancelRead, Ve!Cancel, VerificationTypes, Ve!Plan
  <1>3. /\ order' \in [Call -> Ve!Request]
        /\ \A q \in Call \ {r} : order'[q] = order[q]
        /\ Ve!At(r, "cancel") => /\ order'[r].at = "end" /\ order'[r].user = order[r].user
                                 /\ order'[r].passed = order[r].passed
        /\ Ve!At(r, "start") => /\ order'[r].at \in {"trial", "cancel"} /\ order'[r].user \in User
                                /\ ~order'[r].passed
                                /\ order'[r].at = "trial" => ~plan[order'[r].user].trialUsed
        /\ Ve!At(r, "start") \/ Ve!At(r, "cancel")
    <2>0. order \in [Call -> Ve!Request] /\ order[r] \in Ve!Request
      BY <1>1 DEF VerificationTypes
    <2>1. CASE Ve!TrialRead(r)
      <3>1. PICK u \in User : /\ ~plan[u].trialUsed
                              /\ order' = [order EXCEPT ![r] = [at |-> "trial", user |-> u, passed |-> FALSE]]
        BY <2>1 DEF Ve!TrialRead
      <3>2. QED BY <2>0, <2>1, <3>1 DEF Ve!TrialRead, Ve!Request, Ve!At
    <2>2. CASE Ve!CancelRead(r)
      <3>1. PICK u \in User : order' = [order EXCEPT ![r] = [at |-> "cancel", user |-> u, passed |-> FALSE]]
        BY <2>2 DEF Ve!CancelRead
      <3>2. QED BY <2>0, <2>2, <3>1 DEF Ve!CancelRead, Ve!Request, Ve!At
    <2>3. CASE Ve!Cancel(r)
      BY <2>0, <2>3 DEF Ve!Cancel, Ve!Ended, Ve!Request, Ve!At
    <2>4. QED BY <2>1, <2>2, <2>3
  <1>4. VerificationTypes'
    BY <1>1, <1>2, <1>3 DEF VerificationTypes
  <1>5. TrialsCounted'
    <2>1. \A u \in User : trials[u] \in Nat /\ (trials[u] > 0 => plan'[u].trialUsed)
      BY <1>1, <1>2 DEF VerificationInv, TrialsCounted, VerificationTypes
    <2>2. ~order'[r].passed /\ order'[r].at = "trial" => trials[order'[r].user] = 0
      BY <1>2, <1>3, <2>1 DEF Ve!At
    <2>3. QED BY <1>1, <1>3, <2>1, <2>2 DEF VerificationInv, TrialsCounted, Ve!At
  <1>6. Ve!TrialsAreOnce'
    BY <1>1, <1>3 DEF VerificationInv, TrialsCounted, Ve!TrialsAreOnce, Ve!At
  <1>7. PaymentsHonoured'
    BY <1>1, <1>2 DEF VerificationInv, PaymentsHonoured
  <1>8. QED BY <1>4, <1>5, <1>6, <1>7 DEF VerificationInv

LEMMA SweepStep ==
  ASSUME VerificationInv, Ve!Midnight \/ Ve!WarnFails \/ Ve!Sweeping
  PROVE  VerificationInv'
  <1>1. /\ VerificationTypes /\ order' = order /\ trials' = trials /\ paid' = paid /\ cut' = cut
        /\ verified' \subseteq verified
    BY DEF VerificationInv, Ve!Midnight, Ve!WarnFails, Ve!Sweeping, Ve!ReadTrials, Ve!ReadSubs, Ve!Reads, Ve!Expire
  <1>2. /\ plan' \in [User -> Ve!Plan]
        /\ \A u \in User : /\ plan'[u].trialUsed = plan[u].trialUsed
                           /\ plan'[u].currentPeriodEnd = plan[u].currentPeriodEnd
                           /\ plan'[u].status = "TRIAL" => plan[u].status = "TRIAL"
    BY <1>1 DEF Ve!Midnight, Ve!WarnFails, Ve!Sweeping, Ve!ReadTrials, Ve!ReadSubs, Ve!Reads, Ve!Expire,
                VerificationTypes, Ve!Plan
  <1>3. today' \in 0..LastDay /\ today \in Nat /\ today <= today'
    BY <1>1, Days DEF Ve!Midnight, Ve!WarnFails, Ve!Sweeping, Ve!ReadTrials, Ve!ReadSubs, Ve!Reads, Ve!Expire,
                VerificationTypes
  <1>4. \A u \in User : paid[u] \in Nat
    BY <1>1, Days DEF VerificationTypes
  <1>5. TrialsCounted' /\ Ve!TrialsAreOnce'
    BY <1>1, <1>2 DEF VerificationInv, TrialsCounted, Ve!TrialsAreOnce, Ve!At
  <1>6. /\ sweep' \in Ve!Sweep
        /\ sweep'.at = "trials" => sweep'.ids = {}
        /\ sweep'.at \in {"subs", "expire"} =>
             \A u \in sweep'.ids : paid[u] <= today \/ u \in sweep'.renewed \cup cut
    <2>0. sweep \in Ve!Sweep
      BY <1>1 DEF VerificationTypes
    <2>1. CASE Ve!Midnight
      BY <2>1, <2>0 DEF Ve!Midnight, Ve!Sweep
    <2>2. CASE Ve!WarnFails
      BY <2>2, <2>0 DEF Ve!WarnFails, Ve!Sweep
    <2>3. CASE Ve!ReadTrials
      BY <2>3, <2>0 DEF Ve!ReadTrials, Ve!Reads, Ve!Sweep, VerificationInv, PaymentsHonoured
    <2>4. CASE Ve!ReadSubs
      <3>1. PICK S \in SUBSET User :
              /\ \A u \in S : Ve!Due(plan[u].currentPeriodEnd)
              /\ sweep.at = "subs"
              /\ sweep' = [sweep EXCEPT !.at = "expire", !.ids = @ \cup S, !.renewed = @ \ S]
        BY <2>4 DEF Ve!ReadSubs, Ve!Reads
      <3>2. \A u \in S : paid[u] <= today
        BY <3>1 DEF VerificationInv, PaymentsHonoured, Ve!Due
      <3>3. QED BY <3>1, <3>2, <2>0 DEF VerificationInv, PaymentsHonoured, Ve!Sweep
    <2>5. CASE Ve!Expire
      BY <2>5, <2>0 DEF Ve!Expire, Ve!Sweep
    <2>6. QED BY <2>1, <2>2, <2>3, <2>4, <2>5 DEF Ve!Sweeping
  <1>7. PaymentsHonoured'
    <2>1. \A u \in User : paid[u] <= today => paid[u] <= today'
      BY <1>3, <1>4, Days
    <2>2. \A u \in sweep'.ids : u \in User
      BY <1>6 DEF Ve!Sweep
    <2>3. QED BY <1>1, <1>2, <1>6, <2>1, <2>2 DEF VerificationInv, PaymentsHonoured
  <1>8. VerificationTypes'
    BY <1>1, <1>2, <1>3, <1>6 DEF VerificationTypes
  <1>9. QED BY <1>5, <1>7, <1>8 DEF VerificationInv

LEMMA VerificationNext == VerificationInv /\ [Ve!Next]_vvars => VerificationInv'
  <1> SUFFICES ASSUME VerificationInv, [Ve!Next]_vvars PROVE VerificationInv'
    OBVIOUS
  <1>1. CASE UNCHANGED vvars
    BY <1>1 DEF vvars, VerificationInv, VerificationTypes, TrialsCounted, Ve!TrialsAreOnce, PaymentsHonoured, Ve!At
  <1>2. CASE Ve!Next
    BY <1>2, StartTrialStep, SubscribeStep, CallStep, SweepStep DEF Ve!Next
  <1>3. QED BY <1>1, <1>2

LEMMA BadgesStay ==
  ASSUME VerificationInv, [Ve!Next]_vvars
  PROVE  \A u \in verified \ verified' : paid[u] <= today \/ u \in sweep.renewed \cup cut
  <1> SUFFICES ASSUME NEW u \in verified \ verified' PROVE paid[u] <= today \/ u \in sweep.renewed \cup cut
    OBVIOUS
  <1>1. Ve!Expire
    BY DEF Ve!Next, vvars, Ve!TrialRead, Ve!StartTrial, Ve!Subscribe, Ve!CancelRead, Ve!Cancel, Ve!Begin,
           Ve!Midnight, Ve!WarnFails, Ve!Sweeping, Ve!ReadTrials, Ve!ReadSubs, Ve!Reads
  <1>2. QED BY <1>1 DEF Ve!Expire, VerificationInv, PaymentsHonoured

\* startTrial, subscribe, sweepExpired: however the calls and the nights overlap, nobody has a
\* second trial unless two calls of his overlapped, and the sweep takes no badge that is paid for.
THEOREM TermsAreKeptForAll == AccountsSpec => TermsAreKept
  <1>1. AccountsInit => VerificationInv
    BY VerificationInit DEF AccountsInit
  <1>2. VerificationInv /\ [AccountsNext]_accountvars => VerificationInv'
    BY PartStep, VerificationNext
  <1>3. VerificationInv => Ve!TrialsAreOnce
    BY DEF VerificationInv
  <1>4. VerificationInv /\ [AccountsNext]_accountvars =>
          [\A u \in verified \ verified' : paid[u] <= today \/ u \in sweep.renewed \cup cut]_vvars
    BY PartStep, BadgesStay
  <1>5. AccountsSpec => [][\A u \in verified \ verified' : paid[u] <= today \/ u \in sweep.renewed \cup cut]_vvars
    BY <1>1, <1>2, <1>4, PTL DEF AccountsSpec
  <1>6. AccountsSpec => []Ve!TrialsAreOnce
    BY <1>1, <1>2, <1>3, PTL DEF AccountsSpec
  <1>7. QED BY <1>5, <1>6 DEF TermsAreKept, Ve!TermsAreKept, Ve!PaidBadgesStay, vvars, Ve!vars

-----------------------------------------------------------------------------
\* As long as nothing got in its way, a connect has a socket in the room, and a disconnect is
\* alone, with nobody in the room and what it has done so far undisturbed.
Untangled ==
  /\ Pr!Coming => ~Pr!Leaving /\ room # {}
  /\ Pr!Leaving => room = {}
  /\ \A s, t \in Socket : {leave[s], leave[t]} \subseteq {"del", "row", "tell"} => s = t
  /\ \A s \in Socket : /\ leave[s] \in {"row", "tell"} => key = 0
                       /\ leave[s] = "tell" => ~isOnline

PresenceInv == Pr!TypeOK /\ (~tangled => Untangled) /\ OthersKnow

LEMMA PresenceInit == Pr!Init => PresenceInv
  <1> SUFFICES ASSUME Pr!Init PROVE PresenceInv
    OBVIOUS
  <1>1. Pr!TypeOK
    <2>1. /\ sock \in [Socket -> {"new", "auth", "touch", "row", "tell", "done"}]
          /\ leave \in [Socket -> {"none", "del", "row", "tell", "done"}]
          /\ open \subseteq Socket /\ room \subseteq Socket /\ key \in 0..TTL
      BY KeysLive DEF Pr!Init
    <2>2. isOnline = FALSE /\ told = FALSE /\ tangled = FALSE
      BY DEF Pr!Init
    <2>3. isOnline \in BOOLEAN /\ told \in BOOLEAN /\ tangled \in BOOLEAN
      BY <2>2, Zenon
    <2>4. QED BY <2>1, <2>3 DEF Pr!TypeOK
  <1>2. Untangled
    BY DEF Pr!Init, Untangled, Pr!Coming, Pr!Leaving
  <1>3. OthersKnow
    <2>1. told = FALSE /\ isOnline = FALSE /\ room = {} /\ key = 0
      BY DEF Pr!Init
    <2>2. QED BY <2>1, Zenon DEF OthersKnow, Pr!OthersKnow
  <1>4. QED BY <1>1, <1>2, <1>3 DEF PresenceInv

LEMMA PresenceTypes == ASSUME Pr!TypeOK, Pr!Next PROVE Pr!TypeOK'
  <1> USE KeysLive DEF Pr!TypeOK, Pr!Tangle
  <1>1. ASSUME NEW s \in Socket, Pr!Connect(s) \/ Pr!Refuse(s), Pr!Tangle PROVE Pr!TypeOK'
    BY <1>1 DEF Pr!Connect, Pr!Refuse
  <1>12. ASSUME NEW s \in Socket, Pr!Fail(s) PROVE Pr!TypeOK'
    BY <1>12 DEF Pr!Fail
  <1>13. CASE Pr!Crash
    BY <1>13 DEF Pr!Crash
  <1>8. ASSUME NEW s \in Socket, Pr!Close(s), Pr!Tangle PROVE Pr!TypeOK'
    <2>1. leave' = leave \/ leave' = [leave EXCEPT ![s] = "del"]
      BY <1>8 DEF Pr!Close
    <2>2. leave' \in [Socket -> {"none", "del", "row", "tell", "done"}]
      BY <2>1
    <2>3. open' \subseteq Socket /\ room' \subseteq Socket
      BY <1>8 DEF Pr!Close
    <2>4. QED BY <1>8, <2>2, <2>3 DEF Pr!Close
  <1>2. ASSUME NEW s \in Socket, Pr!Join(s) \/ Pr!Touch(s), Pr!Tangle PROVE Pr!TypeOK'
    BY <1>2 DEF Pr!Join, Pr!Touch
  <1>9. ASSUME NEW s \in Socket, Pr!Tell(s), Pr!Tangle PROVE Pr!TypeOK'
    BY <1>9 DEF Pr!Tell
  <1>3. ASSUME NEW s \in Socket, Pr!Upsert(s), Pr!Tangle PROVE Pr!TypeOK'
    <2>1. isOnline' = isOnline \/ isOnline' = TRUE
      BY <1>3 DEF Pr!Upsert
    <2>2. isOnline' \in BOOLEAN
      BY <2>1, Zenon
    <2>3. sock' \in [Socket -> {"new", "auth", "touch", "row", "tell", "done"}]
      BY <1>3 DEF Pr!Upsert
    <2>4. QED BY <1>3, <2>2, <2>3 DEF Pr!Upsert
  <1>4. ASSUME NEW s \in Socket, Pr!DeleteKey(s), Pr!Tangle PROVE Pr!TypeOK'
    BY <1>4 DEF Pr!DeleteKey
  <1>11. ASSUME NEW s \in Socket, Pr!GoOffline(s), Pr!Tangle PROVE Pr!TypeOK'
    BY <1>11 DEF Pr!GoOffline
  <1>10. ASSUME NEW s \in Socket, Pr!TellOff(s), Pr!Tangle PROVE Pr!TypeOK'
    BY <1>10 DEF Pr!TellOff
  <1>5. ASSUME NEW s \in Socket, Pr!Heartbeat(s), Pr!Tangle PROVE Pr!TypeOK'
    BY <1>5 DEF Pr!Heartbeat
  <1>6. CASE Pr!Tick /\ Pr!Tangle
    BY <1>6 DEF Pr!Tick
  <1>7. QED BY <1>1, <1>2, <1>3, <1>4, <1>5, <1>6, <1>8, <1>9, <1>10, <1>11, <1>12, <1>13 DEF Pr!Next, Pr!Handle

\* A step after which nothing is tangled either found nothing tangled, or begins afresh.
LEMMA Afresh ==
  ASSUME Pr!TypeOK, Pr!Tangle, ~tangled'
  PROVE  /\ ~(Pr!Coming' /\ (Pr!Leaving' \/ room' = {}))
         /\ ~tangled \/ (Pr!Quiet /\ ~Pr!Quiet')
  BY DEF Pr!Tangle, Pr!TypeOK

LEMMA PresenceStep ==
  ASSUME PresenceInv, Pr!Next, ~tangled'
  PROVE  Untangled' /\ OthersKnow'
  <1> USE DEF Pr!Coming, Pr!Leaving, Pr!Quiet
  <1>0. /\ Pr!TypeOK /\ Pr!Tangle
        /\ ~(Pr!Coming' /\ (Pr!Leaving' \/ room' = {}))
        /\ ~tangled \/ (Pr!Quiet /\ ~Pr!Quiet')
        /\ ~tangled => Untangled /\ (Pr!Quiet => (told <=> room # {}) /\ (room = {} => ~isOnline /\ key = 0))
    <2>1. Pr!Tangle
      BY DEF Pr!Next, Pr!Fail, Pr!Crash
    <2>2. QED BY <2>1, Afresh DEF PresenceInv, OthersKnow, Pr!OthersKnow
  <1> SUFFICES Untangled' /\ (Pr!Quiet' => (told' <=> room' # {}) /\ (room' = {} => ~isOnline' /\ key' = 0))
    BY DEF OthersKnow, Pr!OthersKnow
  <1> USE <1>0 DEF Pr!TypeOK, Untangled
  <1>1. ASSUME NEW s \in Socket, Pr!Connect(s) \/ Pr!Refuse(s)
        PROVE  Untangled' /\ (Pr!Quiet' => (told' <=> room' # {}) /\ (room' = {} => ~isOnline' /\ key' = 0))
    BY <1>1 DEF Pr!Connect, Pr!Refuse
  <1>2. ASSUME NEW s \in Socket, Pr!Close(s)
        PROVE  Untangled' /\ (Pr!Quiet' => (told' <=> room' # {}) /\ (room' = {} => ~isOnline' /\ key' = 0))
    BY <1>2 DEF Pr!Close
  <1>3. ASSUME NEW s \in Socket, Pr!Join(s)
        PROVE  Untangled' /\ (Pr!Quiet' => (told' <=> room' # {}) /\ (room' = {} => ~isOnline' /\ key' = 0))
    BY <1>3 DEF Pr!Join
  <1>4. ASSUME NEW s \in Socket, Pr!Touch(s) \/ Pr!Upsert(s)
        PROVE  Untangled' /\ (Pr!Quiet' => (told' <=> room' # {}) /\ (room' = {} => ~isOnline' /\ key' = 0))
    BY <1>4 DEF Pr!Touch, Pr!Upsert
  <1>5. ASSUME NEW s \in Socket, Pr!Tell(s)
        PROVE  Untangled' /\ (Pr!Quiet' => (told' <=> room' # {}) /\ (room' = {} => ~isOnline' /\ key' = 0))
    BY <1>5 DEF Pr!Tell
  <1>6. ASSUME NEW s \in Socket, Pr!DeleteKey(s) \/ Pr!GoOffline(s)
        PROVE  Untangled' /\ (Pr!Quiet' => (told' <=> room' # {}) /\ (room' = {} => ~isOnline' /\ key' = 0))
    BY <1>6 DEF Pr!DeleteKey, Pr!GoOffline
  <1>7. ASSUME NEW s \in Socket, Pr!TellOff(s)
        PROVE  Untangled' /\ (Pr!Quiet' => (told' <=> room' # {}) /\ (room' = {} => ~isOnline' /\ key' = 0))
    BY <1>7 DEF Pr!TellOff
  <1>8. ASSUME NEW s \in Socket, Pr!Heartbeat(s)
        PROVE  Untangled' /\ (Pr!Quiet' => (told' <=> room' # {}) /\ (room' = {} => ~isOnline' /\ key' = 0))
    BY <1>8 DEF Pr!Heartbeat
  <1>9. CASE Pr!Tick
    BY <1>9, KeysLive DEF Pr!Tick
  <1>10. QED BY <1>1, <1>2, <1>3, <1>4, <1>5, <1>6, <1>7, <1>8, <1>9 DEF Pr!Next, Pr!Handle, Pr!Fail, Pr!Crash

LEMMA PresenceNext == PresenceInv /\ [Pr!Next]_pvars => PresenceInv'
  <1> SUFFICES ASSUME PresenceInv, [Pr!Next]_pvars PROVE PresenceInv'
    OBVIOUS
  <1>1. CASE UNCHANGED pvars
    BY <1>1 DEF pvars, PresenceInv, Pr!TypeOK, Untangled, OthersKnow, Pr!OthersKnow, Pr!Quiet, Pr!Coming, Pr!Leaving
  <1>2. CASE Pr!Next
    <2>1. Pr!TypeOK'
      BY <1>2, PresenceTypes DEF PresenceInv
    <2>2. tangled' => OthersKnow'
      BY DEF OthersKnow, Pr!OthersKnow
    <2>3. QED BY <1>2, <2>1, <2>2, PresenceStep DEF PresenceInv
  <1>3. QED BY <1>1, <1>2

\* handleConnection, handleDisconnect: for any number of sockets, with failing calls and crashes, the
\* others know who is there once nothing is under way, unless since a handler last began by itself
\* another one got in its way, or a call or the process failed.
THEOREM OthersKnowForAll == AccountsSpec => []OthersKnow
  <1>1. AccountsInit => PresenceInv
    BY PresenceInit DEF AccountsInit
  <1>2. PresenceInv /\ [AccountsNext]_accountvars => PresenceInv'
    BY PartStep, PresenceNext
  <1>3. PresenceInv => OthersKnow
    BY DEF PresenceInv
  <1>4. QED BY <1>1, <1>2, <1>3, PTL DEF AccountsSpec

-----------------------------------------------------------------------------
AskTypes ==
  /\ policy \in Po!Interaction /\ comments \in Po!Commenting /\ post \in BOOLEAN /\ bond \in Po!Bond
  /\ ask \in [at : {"start", "settings", "follows", "restricted", "words", "write", "done", "refused"},
              kind : Po!Kind, read : Po!Interaction \cup Po!Commenting, hidden : BOOLEAN,
              could : SUBSET BOOLEAN, turns : Nat]

Handled == ask.at \in {"settings", "follows", "restricted", "words", "write"}

\* The policy that is asked, and whether the follows are as one asks.
Asked == IF ask.kind = "comment" THEN comments ELSE policy
Passes(p) ==
  /\ p \notin {"NOBODY", "OFF"}
  /\ p \in {"FOLLOWING", "MUTUAL"} => bond.followed
  /\ p \in {"FOLLOWERS", "MUTUAL"} => bond.follows

\* What the settings mean, for a post that takes comments.
Permits ==
  /\ Passes(Asked)
  /\ ask.kind = "comment" => ~bond.restricted /\ ~bond.hidden

\* Whether the checks that are still to come would let the request through.
Rest ==
  /\ ask.at = "settings" => Permits
  /\ ask.at = "follows" => Passes(ask.read)
  /\ ask.kind = "comment" /\ ask.at \in {"follows", "restricted"} => ~bond.restricted
  /\ ask.kind = "comment" /\ ask.at \in {"follows", "restricted", "words"} => ~ask.hidden

Grants == Permits /\ (ask.kind = "comment" => post)

\* As long as nothing has changed, what has been read is so, and what has been checked holds.
AsRead ==
  /\ ask.at # "settings" => ask.read = Asked /\ ask.hidden = bond.hidden
  /\ ask.at \in {"restricted", "words", "write"} => Passes(Asked)
  /\ ask.kind = "comment" => /\ post
                             /\ ask.at \in {"words", "write"} => ~bond.restricted
                             /\ ask.at = "write" => ~bond.hidden

\* What a request that is handled has read is of its kind.
OfKind ==
  /\ ask.at \in {"restricted", "words"} => ask.kind = "comment"
  /\ ask.at = "follows" => ask.read \in {"FOLLOWING", "FOLLOWERS", "MUTUAL"}

\* Whether the settings have allowed the request, or forbidden it, at some moment since it began.
Granted == TRUE \in ask.could
Denied == FALSE \in ask.could

PoliciesInv ==
  /\ AskTypes
  /\ Handled /\ ask.kind = "aside" => ask.at = "write" /\ Granted
  /\ Handled /\ ask.kind # "aside" =>
       /\ OfKind
       /\ ask.turns = 0 => AsRead /\ (Granted <=> Grants) /\ (Denied <=> ~Grants)
       /\ ask.turns < 2 => (~Granted => ~Rest) /\ (~Denied => Rest)

LEMMA Truths ==
  ASSUME NEW X \in BOOLEAN
  PROVE  (TRUE \in {X} <=> X) /\ (FALSE \in {X} <=> ~X)
  BY Zenon

\* What the settings mean is true or false.
AllowedIsTruth == \A k \in Po!Kind : Po!Allowed(k) \in BOOLEAN

LEMMA AllowedTruth == AllowedIsTruth
  <1> SUFFICES ASSUME NEW k \in Po!Kind PROVE Po!Allowed(k) \in BOOLEAN
    BY DEF AllowedIsTruth
  <1>1. CASE k = "aside"
    BY <1>1 DEF Po!Allowed
  <1>2. CASE k = "comment"
    BY <1>2 DEF Po!Allowed
  <1>3. CASE k = "interact"
    BY <1>3 DEF Po!Allowed
  <1>4. QED BY <1>1, <1>2, <1>3 DEF Po!Kind

AllowedFits ==
  /\ Po!Allowed("aside")
  /\ ask.kind = "comment" => (Po!Allowed("comment") <=> Grants)
  /\ ask.kind = "interact" => (Po!Allowed("interact") <=> Grants)

LEMMA AllowedIs == AskTypes => AllowedFits
  <1> SUFFICES ASSUME AskTypes PROVE AllowedFits
    OBVIOUS
  <1>1. ask.kind = "comment" => (Po!Allowed("comment") <=> Grants)
    BY DEF Po!Allowed, Grants, Permits, Passes, Asked, AskTypes, Po!Commenting, Po!Bond
  <1>2. ask.kind = "interact" => (Po!Allowed("interact") <=> Grants)
    BY DEF Po!Allowed, Grants, Permits, Passes, Asked, AskTypes, Po!Interaction, Po!Bond
  <1>3. Po!Allowed("aside")
    BY DEF Po!Allowed
  <1>4. QED BY <1>1, <1>2, <1>3 DEF AllowedFits

\* A change of what a request asks for while it is handled.
LEMMA ChangingIs ==
  ASSUME AskTypes, policy' \in Po!Interaction, comments' \in Po!Commenting, post' \in BOOLEAN, bond' \in Po!Bond,
         Po!Changing
  PROVE  /\ AskTypes' /\ Handled /\ ask.kind # "aside"
         /\ ask'.at = ask.at /\ ask'.kind = ask.kind /\ ask'.read = ask.read /\ ask'.hidden = ask.hidden
         /\ ask'.turns = ask.turns + 1
         /\ Granted' <=> Granted \/ Grants'
         /\ Denied' <=> Denied \/ ~Grants'
  <1> DEFINE A == Po!Allowed(ask.kind)
  <1>1. PICK k \in {ask.kind} : ask' = [ask EXCEPT !.turns = @ + 1, !.could = @ \cup {Po!Allowed(k)'}]
    BY DEF Po!Changing
  <1>2. k \in Po!Kind /\ k = ask.kind /\ ask.kind # "aside" /\ Handled
    BY DEF AskTypes, Po!Changing, Po!At, Handled
  <1>3. /\ ask'.at = ask.at /\ ask'.kind = ask.kind /\ ask'.read = ask.read /\ ask'.hidden = ask.hidden
        /\ ask'.turns = ask.turns + 1 /\ ask'.could = ask.could \cup {Po!Allowed(k)'}
    BY <1>1 DEF AskTypes
  <1>4. AllowedIsTruth'
    BY AllowedTruth, PTL
  <1>5. PICK x \in BOOLEAN : x = Po!Allowed(k)'
    BY <1>2, <1>4 DEF AllowedIsTruth
  <1>6. AskTypes'
    <2>1. ask'.could = ask.could \cup {x}
      BY <1>3, <1>5
    <2>2. ask.could \in SUBSET BOOLEAN
      BY DEF AskTypes
    <2>3. ask'.could \in SUBSET BOOLEAN
      BY <2>1, <2>2, <1>5, Zenon
    <2>4. ask' = [ask EXCEPT !.turns = ask'.turns, !.could = ask'.could]
      BY <1>1, <1>3 DEF AskTypes
    <2>5. ask' \in [at : {"start", "settings", "follows", "restricted", "words", "write", "done", "refused"},
                    kind : Po!Kind, read : Po!Interaction \cup Po!Commenting, hidden : BOOLEAN,
                    could : SUBSET BOOLEAN, turns : Nat]
      BY <1>3, <2>3, <2>4 DEF AskTypes
    <2>6. QED BY <2>5 DEF AskTypes
  <1>7. AllowedFits'
    BY <1>6, AllowedIs, PTL
  <1>8. Po!Allowed(k)' <=> Grants'
    BY <1>2, <1>3, <1>7 DEF AllowedFits, AskTypes, Po!Kind
  <1>9. /\ TRUE \in {x} <=> x
        /\ FALSE \in {x} <=> ~x
    BY Truths
  <1>10. x <=> Grants'
    BY <1>5, <1>8
  <1>11. /\ Granted' <=> Granted \/ TRUE \in {x}
         /\ Denied' <=> Denied \/ FALSE \in {x}
    BY <1>3, <1>5 DEF Granted, Denied
  <1>12. QED BY <1>2, <1>3, <1>6, <1>9, <1>10, <1>11

\* The settings change: what was read of them stays; the rows they rest on do not.
LEMMA SettingsTurn ==
  ASSUME PoliciesInv, Po!UpdateSettings
  PROVE  /\ AskTypes' /\ bond'.follows = bond.follows /\ bond'.followed = bond.followed
         /\ bond'.restricted = bond.restricted /\ post' = post /\ Po!Changing
  <1>1. policy' \in Po!Interaction /\ comments' \in Po!Commenting /\ post' \in BOOLEAN
    BY DEF Po!UpdateSettings, PoliciesInv, AskTypes
  <1>2. /\ bond' \in Po!Bond /\ bond'.follows = bond.follows /\ bond'.followed = bond.followed
        /\ bond'.restricted = bond.restricted
    <2>1. bond \in Po!Bond
      BY DEF PoliciesInv, AskTypes
    <2>2. CASE bond' = bond
      BY <2>1, <2>2
    <2>3. ASSUME NEW h \in BOOLEAN, bond' = [bond EXCEPT !.hidden = h]
          PROVE  /\ bond' \in Po!Bond /\ bond'.follows = bond.follows /\ bond'.followed = bond.followed
                 /\ bond'.restricted = bond.restricted
      BY <2>1, <2>3 DEF Po!Bond
    <2>4. QED BY <2>2, <2>3 DEF Po!UpdateSettings
  <1>3. QED BY <1>1, <1>2, ChangingIs DEF Po!UpdateSettings, PoliciesInv

LEMMA RestrictTurn ==
  ASSUME PoliciesInv, Po!Restrict
  PROVE  /\ AskTypes' /\ bond'.follows = bond.follows /\ bond'.followed = bond.followed
         /\ bond'.hidden = bond.hidden /\ post' = post /\ policy' = policy /\ comments' = comments
         /\ bond' \in Po!Bond
  <1>1. bond' \in Po!Bond /\ bond'.follows = bond.follows /\ bond'.followed = bond.followed /\ bond'.hidden = bond.hidden
    BY DEF Po!Restrict, PoliciesInv, AskTypes, Po!Bond
  <1>2. QED BY <1>1, ChangingIs DEF Po!Restrict, PoliciesInv, AskTypes

LEMMA FollowTurn ==
  ASSUME PoliciesInv, Po!FollowChanges
  PROVE  /\ AskTypes' /\ bond' \in Po!Bond
         /\ bond'.follows = bond.follows \/ bond'.followed = bond.followed
         /\ bond'.restricted = bond.restricted
         /\ bond'.hidden = bond.hidden /\ post' = post /\ policy' = policy /\ comments' = comments
  <1>1. /\ bond' \in Po!Bond /\ bond'.restricted = bond.restricted /\ bond'.hidden = bond.hidden
        /\ bond'.follows = bond.follows \/ bond'.followed = bond.followed
    BY DEF Po!FollowChanges, PoliciesInv, AskTypes, Po!Bond
  <1>2. QED BY <1>1, ChangingIs DEF Po!FollowChanges, PoliciesInv, AskTypes

LEMMA PrivacyTurn ==
  ASSUME PoliciesInv, Po!TogglePrivacy
  PROVE  /\ AskTypes' /\ bond' = bond /\ policy' = policy /\ comments' = comments
         /\ (post' <=> ~post)
  <1>1. post' \in BOOLEAN /\ (post' <=> ~post)
    BY DEF Po!TogglePrivacy, PoliciesInv, AskTypes
  <1>2. QED BY <1>1, ChangingIs DEF Po!TogglePrivacy, PoliciesInv, AskTypes

Turned == Po!UpdateSettings \/ Po!Restrict \/ Po!FollowChanges \/ Po!TogglePrivacy

\* What a first change of the settings, or of what they rest on, does to the rest of the checks: what
\* they have meant before and after is what the rest may still say.
LEMMA FirstTurn ==
  ASSUME PoliciesInv, Turned, AsRead, OfKind, Handled, ask.kind # "aside",
         ask'.at = ask.at, ask'.kind = ask.kind, ask'.read = ask.read, ask'.hidden = ask.hidden
  PROVE  /\ Grants /\ Grants' => Rest'
         /\ ~Grants /\ ~Grants' => ~Rest'
  <1> USE DEF AsRead, OfKind, Handled, Grants, Rest, Permits, Passes, Asked
  <1>0. /\ ask.kind \in {"interact", "comment"}
        /\ policy \in {"EVERYONE", "FOLLOWING", "NOBODY"} /\ comments \in {"EVERYONE", "FOLLOWERS", "MUTUAL", "OFF"}
        /\ ask.at = "write" => Rest'
    BY DEF PoliciesInv, AskTypes, Po!Kind, Po!Interaction, Po!Commenting
  <1>1. CASE Po!UpdateSettings
    BY <1>0, <1>1, SettingsTurn
  <1>2. CASE Po!Restrict
    BY <1>0, <1>2, RestrictTurn
  <1>3. CASE Po!FollowChanges
    BY <1>0, <1>3, FollowTurn
  <1>4. CASE Po!TogglePrivacy
    BY <1>0, <1>4, PrivacyTurn
  <1>5. QED BY <1>1, <1>2, <1>3, <1>4 DEF Turned

LEMMA TurnStep == ASSUME PoliciesInv, Turned PROVE PoliciesInv'
  <1>1. /\ AskTypes' /\ Handled /\ ask.kind # "aside"
        /\ ask'.at = ask.at /\ ask'.kind = ask.kind /\ ask'.read = ask.read /\ ask'.hidden = ask.hidden
        /\ ask'.turns = ask.turns + 1
        /\ Granted' <=> Granted \/ Grants'
        /\ Denied' <=> Denied \/ ~Grants'
    BY SettingsTurn, RestrictTurn, FollowTurn, PrivacyTurn, ChangingIs
       DEF Turned, PoliciesInv, AskTypes, Po!UpdateSettings, Po!Restrict, Po!FollowChanges, Po!TogglePrivacy
  <1>2. OfKind /\ OfKind' /\ ask.turns \in Nat
    BY <1>1 DEF PoliciesInv, OfKind, AskTypes
  <1>3. CASE ask.turns = 0
    <2>1. AsRead /\ (Granted <=> Grants) /\ (Denied <=> ~Grants)
      BY <1>1, <1>3 DEF PoliciesInv
    <2>2. (Grants /\ Grants' => Rest') /\ (~Grants /\ ~Grants' => ~Rest')
      BY <1>1, <1>2, <2>1, FirstTurn
    <2>3. (~Granted' => ~Rest') /\ (~Denied' => Rest')
      BY <1>1, <2>1, <2>2
    <2>4. ask'.turns # 0
      BY <1>1, <1>2
    <2>5. QED BY <1>1, <1>2, <2>3, <2>4 DEF PoliciesInv
  <1>4. CASE ask.turns # 0
    <2>1. /\ ask'.turns # 0 /\ ~ask'.turns < 2
      BY <1>1, <1>2, <1>4
    <2>2. QED BY <1>1, <1>2, <2>1 DEF PoliciesInv
  <1>5. QED BY <1>3, <1>4

\* What a step of a request does to PoliciesAreObeyed.
Obeyed ==
  ask.turns < 2 =>
    /\ ask.at = "write" /\ ask'.at = "done" => Granted
    /\ ask.at # "refused" /\ ask'.at = "refused" => Denied'

LEMMA BeginStep == ASSUME PoliciesInv, NEW k \in Po!Kind, Po!Begin(k) PROVE PoliciesInv' /\ Obeyed
  <1>1. PICK x \in BOOLEAN : x = Po!Allowed(k)
    BY AllowedTruth DEF AllowedIsTruth
  <1>2. /\ policy' = policy /\ comments' = comments /\ post' = post /\ bond' = bond /\ ask.at = "start"
    BY DEF Po!Begin, Po!At
  <1>3. /\ ask'.kind = k /\ ask'.could = {x} /\ ask'.turns = 0 /\ ask'.read = "EVERYONE" /\ ask'.hidden = FALSE
        /\ ask'.at = CASE k = "aside" -> "write"
                       [] k = "comment" /\ ~post -> "refused"
                       [] OTHER -> "settings"
    BY <1>1 DEF Po!Begin, Po!Unasked
  <1>4. /\ k = "aside" => ask'.at = "write"
        /\ k = "comment" => ask'.at = IF post THEN "settings" ELSE "refused"
        /\ k = "interact" => ask'.at = "settings"
    BY <1>3
  <1>5. AskTypes'
    <2>1. {x} \in SUBSET BOOLEAN
      BY <1>1
    <2>2. ask' \in [at : {"start", "settings", "follows", "restricted", "words", "write", "done", "refused"},
                    kind : Po!Kind, read : Po!Interaction \cup Po!Commenting, hidden : BOOLEAN,
                    could : SUBSET BOOLEAN, turns : Nat]
      <3>1. PICK l \in {"settings", "write", "refused"} :
              ask' = [Po!Unasked EXCEPT !.kind = k, !.could = {x}, !.at = l]
        BY <1>1, <1>4 DEF Po!Begin, Po!Kind
      <3>2. ask' = [at |-> l, kind |-> k, read |-> "EVERYONE", hidden |-> FALSE, could |-> {x}, turns |-> 0]
        BY <3>1 DEF Po!Unasked
      <3>3. QED BY <3>2, <2>1 DEF Po!Interaction
    <2>3. QED BY <1>2, <2>2 DEF PoliciesInv, AskTypes
  <1>6. Po!Allowed(k)' = Po!Allowed(k)
    BY <1>2 DEF Po!Allowed
  <1>7. AllowedFits'
    BY <1>5, AllowedIs, PTL
  <1>8. x <=> IF k = "aside" THEN TRUE ELSE Grants'
    BY <1>1, <1>3, <1>6, <1>7 DEF AllowedFits, Po!Kind
  <1>9. (Granted' <=> x) /\ (Denied' <=> ~x)
    BY <1>3, Truths DEF Granted, Denied
  <1>10. CASE k = "aside"
    <2>1. ask'.at = "write" /\ Granted' /\ ask'.kind = "aside"
      BY <1>3, <1>4, <1>8, <1>9, <1>10
    <2>2. QED BY <2>1, <1>2, <1>5 DEF PoliciesInv, Obeyed
  <1>11. CASE ask'.at = "settings"
    <2>1. k # "aside" /\ OfKind' /\ (ask'.kind = "comment" => post')
      BY <1>2, <1>3, <1>4, <1>11 DEF OfKind, Po!Kind
    <2>2. AsRead'
      BY <2>1, <1>11 DEF AsRead
    <2>3. Rest' <=> Grants'
      BY <2>1, <1>11 DEF Rest, Grants
    <2>4. (Granted' <=> Grants') /\ (Denied' <=> ~Grants')
      BY <1>8, <1>9, <2>1
    <2>5. PoliciesInv'
      BY <1>3, <1>5, <2>1, <2>2, <2>3, <2>4 DEF PoliciesInv
    <2>6. QED BY <2>5, <1>2, <1>11 DEF Obeyed
  <1>12. CASE ask'.at = "refused"
    <2>1. k = "comment" /\ ~post'
      BY <1>2, <1>4, <1>12 DEF Po!Kind
    <2>2. Denied'
      BY <1>3, <1>8, <1>9, <2>1 DEF Grants
    <2>3. ~Handled'
      BY <1>12 DEF Handled
    <2>4. QED BY <2>2, <2>3, <1>2, <1>5 DEF PoliciesInv, Obeyed
  <1>13. QED BY <1>4, <1>10, <1>11, <1>12 DEF Po!Kind

Looks == Po!ReadSettings \/ Po!ReadFollows \/ Po!ReadRestricted \/ Po!CheckWords

\* Where a request goes by what it reads.
LEMMA LooksIs ==
  ASSUME PoliciesInv, Looks
  PROVE  /\ Handled /\ ask.kind \in {"interact", "comment"} /\ ask.at # "write"
         /\ policy' = policy /\ comments' = comments /\ post' = post /\ bond' = bond
         /\ AskTypes' /\ ask'.kind = ask.kind /\ ask'.could = ask.could /\ ask'.turns = ask.turns
         /\ ask.at # "settings" => ask'.read = ask.read /\ ask'.hidden = ask.hidden
         /\ ask.at = "settings" => /\ ask'.read = Asked /\ ask'.hidden = bond.hidden
                                   /\ ask'.at = CASE Asked \in {"NOBODY", "OFF"} -> "refused"
                                                  [] Asked \in {"FOLLOWING", "FOLLOWERS", "MUTUAL"} -> "follows"
                                                  [] Asked = "EVERYONE" -> IF ask.kind = "comment" THEN "restricted" ELSE "write"
         /\ ask.at = "follows" => ask'.at = IF ~Passes(ask.read) THEN "refused"
                                            ELSE IF ask.kind = "comment" THEN "restricted" ELSE "write"
         /\ ask.at = "restricted" => ask'.at = IF bond.restricted THEN "refused" ELSE "words"
         /\ ask.at = "words" => ask'.at = IF ask.hidden THEN "refused" ELSE "write"
  <1>0. AskTypes /\ Handled /\ ask.kind \in {"interact", "comment"} /\ OfKind /\ ask.at # "write"
    BY DEF PoliciesInv, Looks, Po!ReadSettings, Po!ReadFollows, Po!ReadRestricted, Po!CheckWords, Po!At, Handled,
           AskTypes, Po!Kind
  <1>1. CASE Po!ReadSettings
    <2>1. PICK l : /\ l = CASE Asked \in {"NOBODY", "OFF"} -> "refused"
                          [] Asked \in {"FOLLOWING", "FOLLOWERS", "MUTUAL"} -> "follows"
                          [] Asked = "EVERYONE" -> IF ask.kind = "comment" THEN "restricted" ELSE "write"
                   /\ ask' = [ask EXCEPT !.read = Asked, !.hidden = bond.hidden, !.at = l]
      BY <1>1 DEF Po!ReadSettings, Asked
    <2>2. Asked \in Po!Interaction \cup Po!Commenting /\ bond.hidden \in BOOLEAN
      BY <1>0 DEF Asked, AskTypes, Po!Bond
    <2>3. l \in {"refused", "follows", "restricted", "write"}
      BY <2>1, <2>2 DEF Po!Interaction, Po!Commenting
    <2>4. ask.at = "settings" /\ UNCHANGED <<policy, comments, post, bond>>
      BY <1>1 DEF Po!ReadSettings, Po!At
    <2>5. QED BY <1>0, <2>1, <2>2, <2>3, <2>4 DEF AskTypes
  <1>2. CASE Po!ReadFollows
    <2>1. ask.at = "follows" /\ ask.read \in {"FOLLOWING", "FOLLOWERS", "MUTUAL"}
      BY <1>0, <1>2 DEF Po!ReadFollows, Po!At, OfKind
    <2>2. Po!FollowsAsAsked(ask.read) <=> Passes(ask.read)
      BY <1>0, <2>1 DEF Po!FollowsAsAsked, Passes, AskTypes, Po!Bond
    <2>3. QED BY <1>0, <1>2, <2>1, <2>2 DEF Po!ReadFollows, Po!Goes, AskTypes
  <1>3. CASE Po!ReadRestricted
    BY <1>0, <1>3 DEF Po!ReadRestricted, Po!Goes, Po!At, AskTypes
  <1>4. CASE Po!CheckWords
    BY <1>0, <1>4 DEF Po!CheckWords, Po!Goes, Po!At, AskTypes
  <1>5. QED BY <1>1, <1>2, <1>3, <1>4 DEF Looks

LEMMA LooksStep == ASSUME PoliciesInv, Looks PROVE PoliciesInv' /\ Obeyed
  <1>1. /\ Handled /\ ask.kind \in {"interact", "comment"} /\ AskTypes /\ AskTypes' /\ OfKind
        /\ Granted' = Granted /\ Denied' = Denied /\ ask'.turns = ask.turns /\ ask'.kind = ask.kind
        /\ ask.at \in {"settings", "follows", "restricted", "words"}
    BY LooksIs DEF PoliciesInv, Granted, Denied, Handled
  <1>2. Asked' = Asked /\ Asked \in {"EVERYONE", "FOLLOWING", "NOBODY", "FOLLOWERS", "MUTUAL", "OFF"}
    BY LooksIs DEF Asked, PoliciesInv, AskTypes, Po!Interaction, Po!Commenting
  <1>3. \A p : Passes(p)' = Passes(p)
    BY LooksIs DEF Passes
  <1>4. Grants' <=> Grants
    BY LooksIs, <1>2 DEF Grants, Permits, Passes
  <1>5. ask'.at = "refused" => ~Rest
    <2> USE LooksIs, <1>1, <1>2 DEF Rest, Permits, Passes, OfKind
    <2>1. CASE ask.at = "settings"
      BY <2>1
    <2>2. CASE ask.at = "follows"
      BY <2>2
    <2>3. CASE ask.at = "restricted"
      BY <2>3
    <2>4. CASE ask.at = "words"
      BY <2>4
    <2>5. QED BY <2>1, <2>2, <2>3, <2>4
  <1>6. ask'.at # "refused" => (Rest' <=> Rest) /\ OfKind' /\ Handled'
    <2> USE LooksIs, <1>1, <1>2 DEF Rest, Permits, Passes, OfKind, Handled
    <2>1. CASE ask.at = "settings"
      BY <2>1
    <2>2. CASE ask.at = "follows"
      BY <2>2
    <2>3. CASE ask.at = "restricted"
      BY <2>3
    <2>4. CASE ask.at = "words"
      BY <2>4
    <2>5. QED BY <2>1, <2>2, <2>3, <2>4
  <1>7. ask'.at # "refused" /\ AsRead => AsRead'
    <2> USE LooksIs, <1>1, <1>2 DEF AsRead, Passes, OfKind
    <2>1. CASE ask.at = "settings"
      BY <2>1
    <2>2. CASE ask.at = "follows"
      BY <2>2
    <2>3. CASE ask.at = "restricted"
      BY <2>3
    <2>4. CASE ask.at = "words"
      BY <2>4
    <2>5. QED BY <2>1, <2>2, <2>3, <2>4
  <1>8. CASE ask'.at = "refused"
    <2>1. ~Handled' /\ ask.at # "write"
      BY <1>1, <1>8 DEF Handled
    <2>2. ask.turns < 2 => Denied'
      BY <1>1, <1>5, <1>8 DEF PoliciesInv
    <2>3. QED BY <1>1, <2>1, <2>2 DEF PoliciesInv, Obeyed
  <1>9. CASE ask'.at # "refused"
    BY <1>1, <1>4, <1>6, <1>7, <1>9 DEF PoliciesInv, Obeyed
  <1>10. QED BY <1>8, <1>9

LEMMA WriteStep == ASSUME PoliciesInv, Po!Write PROVE PoliciesInv' /\ Obeyed
  <1>1. ask.at = "write" /\ ask'.at = "done" /\ AskTypes'
    BY DEF Po!Write, Po!Goes, Po!At, PoliciesInv, AskTypes
  <1>2. ask.turns < 2 => Granted
    <2>1. Handled /\ (ask.kind # "aside" => Rest)
      BY <1>1 DEF Handled, Rest
    <2>2. QED BY <2>1, <1>1 DEF PoliciesInv
  <1>3. QED BY <1>1, <1>2 DEF PoliciesInv, Obeyed, Handled

LEMMA PoliciesNext == PoliciesInv /\ [Po!Next]_svars => PoliciesInv' /\ [Obeyed]_svars
  <1> SUFFICES ASSUME PoliciesInv, [Po!Next]_svars PROVE PoliciesInv' /\ [Obeyed]_svars
    OBVIOUS
  <1>1. CASE UNCHANGED svars
    <2>1. policy' = policy /\ comments' = comments /\ post' = post /\ bond' = bond /\ ask' = ask
      BY <1>1 DEF svars
    <2>2. (AskTypes' <=> AskTypes) /\ (Handled' <=> Handled) /\ (OfKind' <=> OfKind) /\ (AsRead' <=> AsRead)
      BY <2>1 DEF AskTypes, Handled, OfKind, AsRead, Passes, Asked
    <2>3. (Rest' <=> Rest) /\ (Grants' <=> Grants)
      BY <2>1 DEF Rest, Grants, Permits, Passes, Asked
    <2>4. (Granted' <=> Granted) /\ (Denied' <=> Denied)
      BY <2>1 DEF Granted, Denied
    <2>5. QED BY <1>1, <2>1, <2>2, <2>3, <2>4 DEF PoliciesInv
  <1>2. CASE Turned
    <2>1. ask'.at = ask.at /\ Handled
      BY <1>2, SettingsTurn, RestrictTurn, FollowTurn, PrivacyTurn, ChangingIs
         DEF Turned, PoliciesInv, AskTypes, Po!UpdateSettings, Po!Restrict, Po!FollowChanges, Po!TogglePrivacy
    <2>2. QED BY <1>2, <2>1, TurnStep DEF Obeyed
  <1>3. CASE ~Turned /\ Po!Next
    BY <1>3, BeginStep, LooksStep, WriteStep DEF Po!Next, Turned, Looks
  <1>4. QED BY <1>1, <1>2, <1>3

LEMMA PoliciesInit == Po!Init => PoliciesInv
  BY DEF Po!Init, PoliciesInv, AskTypes, Handled, Po!Unasked, Po!Kind, Po!Interaction, Po!Commenting

\* canTag, canMention, canMessage, assertCanComment: for every course of the changes, as long as there
\* are not two of them while a request is handled, it goes through only if the settings allowed it at
\* some moment meanwhile, and is refused only if they forbade it at one.
THEOREM PoliciesAreObeyedForAll == AccountsSpec => Po!PoliciesAreObeyed
  <1>1. AccountsInit => PoliciesInv
    BY PoliciesInit DEF AccountsInit
  <1>2. PoliciesInv /\ [AccountsNext]_accountvars => PoliciesInv' /\ [Obeyed]_svars
    BY PartStep, PoliciesNext
  <1>3. [Obeyed]_svars =>
          [ask.turns < 2 =>
             /\ Po!At("write") /\ ask'.at = "done" => TRUE \in ask.could
             /\ ~Po!At("refused") /\ ask'.at = "refused" => FALSE \in ask'.could]_svars
    BY DEF Obeyed, Granted, Denied, Po!At
  <1>4. AccountsSpec =>
          [][ask.turns < 2 =>
               /\ Po!At("write") /\ ask'.at = "done" => TRUE \in ask.could
               /\ ~Po!At("refused") /\ ask'.at = "refused" => FALSE \in ask'.could]_svars
    BY <1>1, <1>2, <1>3, PTL DEF AccountsSpec
  <1>5. QED BY <1>4 DEF Po!PoliciesAreObeyed, svars, Po!vars

-----------------------------------------------------------------------------
Everybody == User \cup {Other}

\* A request that is under way about somebody will write what was last said of him; if none is, that
\* has been written.
WordsKept ==
  /\ \A r \in Call : Cl!At(r, "write") => answer[r].user \in Everybody
  /\ \A r \in Call : Cl!At(r, "check") => answer[r].says = "PENDING"
  /\ \A r, q \in Call : Cl!At(r, "write") /\ Cl!At(q, "write") /\ answer[r].user = answer[q].user =>
                          r = q \/ answer[r].user \in mixed
  /\ \A r \in Call : Cl!At(r, "write") => answer[r].user \in mixed \/ word[answer[r].user] = answer[r].says

ClaimsInv == Cl!TypeOK /\ WordsKept /\ Cl!AnswersStand

LEMMA ClaimsInit == Cl!Init => ClaimsInv
  <1> SUFFICES ASSUME Cl!Init PROVE ClaimsInv
    OBVIOUS
  <1>1. standing \in [Everybody -> Cl!Statuses]
    BY DEF Cl!Init, Cl!Statuses, Everybody
  <1>2. answer = [r \in Call |-> Cl!Fresh] /\ Cl!Fresh \in Cl!Request /\ Cl!Fresh.at = "start"
    BY DEF Cl!Init, Cl!Fresh, Cl!Request, Cl!Statuses
  <1>3. Cl!TypeOK
    BY <1>1, <1>2 DEF Cl!Init, Cl!TypeOK, Everybody
  <1>4. WordsKept
    BY <1>2 DEF WordsKept, Cl!At
  <1>5. Cl!AnswersStand
    BY <1>2 DEF Cl!AnswersStand, Cl!Init, Cl!At
  <1>6. QED BY <1>3, <1>4, <1>5 DEF ClaimsInv

\* What is said of u last, by r, when r begins.
LEMMA SaysStep ==
  ASSUME ClaimsInv, NEW r \in Call, NEW u \in Everybody, NEW s \in Cl!Statuses, ~Cl!At(r, "write"), Cl!Says(u, s),
         answer' \in [Call -> Cl!Request], \A q \in Call \ {r} : answer'[q] = answer[q],
         answer'[r].user = u, answer'[r].says = s,
         \/ answer'[r].at = "write"
         \/ answer'[r].at = "done" /\ standing[u] = s /\ (s = "ACCEPTED" => u \in agreed'),
         agreed' \in SUBSET Everybody, agreed \subseteq agreed', UNCHANGED <<claim, standing, there, blocked>>
  PROVE  ClaimsInv'
  <1> USE DEF ClaimsInv, Everybody
  <1>1. /\ word' \in [Everybody -> Cl!Statuses] /\ word'[u] = s /\ \A v \in Everybody \ {u} : word'[v] = word[v]
        /\ mixed' \subseteq Everybody /\ \A v \in Everybody \ {u} : v \in mixed' <=> v \in mixed
        /\ u \in mixed' <=> \E q \in Call : Cl!At(q, "write") /\ answer[q].user = u
    BY DEF Cl!Says, Cl!TypeOK, Cl!About
  <1>2. Cl!TypeOK'
    BY <1>1 DEF Cl!TypeOK
  <1>3. WordsKept'
    <2>1. \A q \in Call : Cl!At(q, "write")' => answer'[q].user \in Everybody
      BY DEF WordsKept, Cl!At
    <2>2. \A q \in Call : Cl!At(q, "check")' => answer'[q].says = "PENDING"
      BY DEF WordsKept, Cl!At
    <2>3. ASSUME NEW p \in Call, NEW q \in Call, Cl!At(p, "write")', Cl!At(q, "write")', answer'[p].user = answer'[q].user
          PROVE  p = q \/ answer'[p].user \in mixed'
      BY <1>1, <2>3 DEF WordsKept, Cl!At
    <2>4. ASSUME NEW q \in Call, Cl!At(q, "write")'
          PROVE  answer'[q].user \in mixed' \/ word'[answer'[q].user] = answer'[q].says
      BY <1>1, <2>4 DEF WordsKept, Cl!At
    <2>5. QED BY <2>1, <2>2, <2>3, <2>4 DEF WordsKept
  <1>4. Cl!AnswersStand'
    <2>1. ASSUME NEW v \in Everybody, there', v \notin mixed', Cl!About(v)' = {} PROVE standing'[v] = word'[v]
      <3>1. CASE v = u
        BY <1>1, <2>1, <3>1 DEF Cl!About, Cl!At
      <3>2. CASE v # u
        <4>1. Cl!About(v) = {}
          BY <2>1, <3>2 DEF Cl!About, Cl!At
        <4>2. QED BY <1>1, <2>1, <3>2, <4>1 DEF Cl!AnswersStand
      <3>3. QED BY <3>1, <3>2
    <2>2. \A v \in Everybody : standing'[v] = "ACCEPTED" => v \in agreed'
      BY DEF Cl!AnswersStand
    <2>3. \A q \in Call : Cl!At(q, "failed")' => ~there' \/ answer'[q].user \in blocked'
      BY DEF Cl!AnswersStand, Cl!At
    <2>4. QED BY <2>1, <2>2, <2>3 DEF Cl!AnswersStand
  <1>5. QED BY <1>2, <1>3, <1>4

LEMMA FreshIs ==
  ASSUME NEW r \in Call, NEW u \in Everybody, NEW s \in Cl!Statuses, NEW l \in {"write", "done"},
         answer \in [Call -> Cl!Request],
         answer' = [answer EXCEPT ![r] = [Cl!Fresh EXCEPT !.at = l, !.user = u, !.says = s]]
  PROVE  /\ answer' \in [Call -> Cl!Request] /\ \A q \in Call \ {r} : answer'[q] = answer[q]
         /\ answer'[r].user = u /\ answer'[r].says = s /\ answer'[r].at = l
  <1>1. Cl!Fresh \in Cl!Request
    BY DEF Cl!Fresh, Cl!Request, Cl!Statuses
  <1>2. /\ answer'[r] \in Cl!Request
        /\ answer'[r].user = u /\ answer'[r].says = s /\ answer'[r].at = l
    BY <1>1 DEF Cl!Request, Everybody
  <1>3. QED BY <1>2

LEMMA AnswerTagStep ==
  ASSUME ClaimsInv, NEW r \in Call, NEW u \in Everybody, NEW s \in {"ACCEPTED", "DECLINED"}, Cl!AnswerTag(r, u, s)
  PROVE  ClaimsInv'
  <1>1. ~Cl!At(r, "write") /\ Cl!Says(u, s) /\ s \in Cl!Statuses /\ UNCHANGED <<claim, standing, there, blocked>>
    BY DEF Cl!AnswerTag, Cl!Comes, Cl!At, Cl!Statuses
  <1>2. answer \in [Call -> Cl!Request] /\ agreed \subseteq Everybody
    BY DEF ClaimsInv, Cl!TypeOK, Everybody
  <1>3. CASE standing[u] # s
    <2>1. answer' = [answer EXCEPT ![r] = [Cl!Fresh EXCEPT !.at = "write", !.user = u, !.says = s]] /\ agreed' = agreed
      BY <1>3 DEF Cl!AnswerTag
    <2>3. /\ answer' \in [Call -> Cl!Request] /\ \A q \in Call \ {r} : answer'[q] = answer[q]
          /\ answer'[r].user = u /\ answer'[r].says = s /\ answer'[r].at = "write"
      BY <1>1, <1>2, <2>1, FreshIs
    <2>4. QED BY <1>1, <1>2, <2>1, <2>3, SaysStep
  <1>4. CASE standing[u] = s
    <2>1. /\ answer' = [answer EXCEPT ![r] = [Cl!Fresh EXCEPT !.at = "done", !.user = u, !.says = s]]
          /\ agreed' = IF s = "ACCEPTED" THEN agreed \cup {u} ELSE agreed
      BY <1>4 DEF Cl!AnswerTag
    <2>3. /\ answer' \in [Call -> Cl!Request] /\ \A q \in Call \ {r} : answer'[q] = answer[q]
          /\ answer'[r].user = u /\ answer'[r].says = s /\ answer'[r].at = "done"
      BY <1>1, <1>2, <2>1, FreshIs
    <2>4. QED BY <1>1, <1>2, <1>4, <2>1, <2>3, SaysStep
  <1>5. QED BY <1>3, <1>4

LEMMA RespondStep ==
  ASSUME ClaimsInv, NEW r \in Call, NEW u \in Everybody, NEW s \in {"ACCEPTED", "DECLINED"},
         Cl!RespondCollaborator(r, u, s)
  PROVE  ClaimsInv'
  <1>1. ~Cl!At(r, "write") /\ Cl!Says(u, s) /\ s \in Cl!Statuses /\ UNCHANGED <<claim, standing, there, blocked, agreed>>
    BY DEF Cl!RespondCollaborator, Cl!Comes, Cl!At, Cl!Statuses
  <1>2. answer \in [Call -> Cl!Request] /\ agreed \subseteq Everybody
    BY DEF ClaimsInv, Cl!TypeOK, Everybody
  <1>3. answer' = [answer EXCEPT ![r] = [Cl!Fresh EXCEPT !.at = "write", !.user = u, !.says = s]]
    BY DEF Cl!RespondCollaborator
  <1>5. /\ answer' \in [Call -> Cl!Request] /\ \A q \in Call \ {r} : answer'[q] = answer[q]
        /\ answer'[r].user = u /\ answer'[r].says = s /\ answer'[r].at = "write"
    BY <1>1, <1>2, <1>3, FreshIs
  <1>6. QED BY <1>1, <1>2, <1>5, SaysStep

LEMMA CheckBlockStep ==
  ASSUME ClaimsInv, NEW r \in Call, NEW u \in Everybody, Cl!CheckBlock(r, u)
  PROVE  ClaimsInv'
  <1>1. /\ answer \in [Call -> Cl!Request] /\ answer[r] \in Cl!Request /\ agreed \subseteq Everybody
        /\ answer[r].at = "check" /\ answer[r].says = "PENDING"
    BY DEF ClaimsInv, Cl!TypeOK, Everybody, Cl!CheckBlock, WordsKept, Cl!At
  <1>2. /\ answer' \in [Call -> Cl!Request] /\ \A q \in Call \ {r} : answer'[q] = answer[q]
        /\ answer'[r].user = u /\ answer'[r].says = "PENDING"
        /\ answer'[r].at = IF u \in blocked THEN "failed" ELSE "write"
    BY <1>1 DEF Cl!CheckBlock, Cl!Request, Everybody
  <1>3. UNCHANGED <<claim, standing, there, blocked, agreed>>
    BY DEF Cl!CheckBlock
  <1>4. CASE u \notin blocked
    <2>1. Cl!Says(u, "PENDING") /\ ~Cl!At(r, "write") /\ "PENDING" \in Cl!Statuses
      BY <1>1, <1>4 DEF Cl!CheckBlock, Cl!At, Cl!Statuses
    <2>2. QED BY <1>1, <1>2, <1>3, <1>4, <2>1, SaysStep
  <1>5. CASE u \in blocked
    <2>1. UNCHANGED <<word, mixed>>
      BY <1>5 DEF Cl!CheckBlock
    <2>2. Cl!TypeOK'
      BY <1>2, <1>3, <2>1 DEF ClaimsInv, Cl!TypeOK
    <2>3. WordsKept'
      BY <1>1, <1>2, <1>5, <2>1 DEF ClaimsInv, WordsKept, Cl!At
    <2>4. \A v \in Everybody : Cl!About(v)' = Cl!About(v)
      BY <1>1, <1>2, <1>5 DEF Cl!About, Cl!At
    <2>5. Cl!AnswersStand'
      BY <1>1, <1>2, <1>3, <1>5, <2>1, <2>4 DEF ClaimsInv, Cl!AnswersStand, Cl!At, Everybody
    <2>6. QED BY <2>2, <2>3, <2>5 DEF ClaimsInv
  <1>6. QED BY <1>4, <1>5

LEMMA InviteStep ==
  ASSUME ClaimsInv, NEW r \in Call, NEW T \in SUBSET Everybody, Cl!InviteCollaborators(r, T)
  PROVE  ClaimsInv'
  <1>1. /\ answer \in [Call -> Cl!Request] /\ answer[r].at = "start"
        /\ UNCHANGED <<claim, standing, there, blocked, word, agreed, mixed>>
    BY DEF ClaimsInv, Cl!TypeOK, Cl!InviteCollaborators, Cl!Comes, Cl!At
  <1>2. Cl!Fresh \in Cl!Request
    BY DEF Cl!Fresh, Cl!Request, Cl!Statuses
  <1>9. /\ [Cl!Fresh EXCEPT !.at = "check", !.says = "PENDING", !.rest = T] \in Cl!Request
        /\ [Cl!Fresh EXCEPT !.at = "check", !.says = "PENDING", !.rest = T].at = "check"
        /\ [Cl!Fresh EXCEPT !.at = "check", !.says = "PENDING", !.rest = T].says = "PENDING"
    BY <1>2 DEF Cl!Request, Cl!Statuses, Everybody
  <1>3. /\ answer' \in [Call -> Cl!Request] /\ \A q \in Call \ {r} : answer'[q] = answer[q]
        /\ answer'[r].says = "PENDING" /\ answer'[r].at = "check"
    BY <1>1, <1>9 DEF Cl!InviteCollaborators
  <1>4. Cl!TypeOK'
    BY <1>1, <1>3 DEF ClaimsInv, Cl!TypeOK
  <1>5. WordsKept'
    BY <1>1, <1>3 DEF ClaimsInv, WordsKept, Cl!At
  <1>6. \A v \in Everybody : Cl!About(v)' = Cl!About(v)
    BY <1>1, <1>3 DEF Cl!About, Cl!At
  <1>7. Cl!AnswersStand'
    BY <1>1, <1>3, <1>6 DEF ClaimsInv, Cl!AnswersStand, Cl!At, Everybody
  <1>8. QED BY <1>4, <1>5, <1>7 DEF ClaimsInv

\* What was said is written to the row, or the row has gone with the post.
LEMMA WriteClaimStep ==
  ASSUME ClaimsInv, NEW r \in Call, Cl!WriteAnswer(r) \/ Cl!WriteInvitation(r)
  PROVE  ClaimsInv'
  <1> DEFINE u == answer[r].user
             s == answer[r].says
  <1>1. /\ answer \in [Call -> Cl!Request] /\ answer[r] \in Cl!Request /\ answer[r].at = "write" /\ u \in Everybody
        /\ s \in Cl!Statuses /\ standing \in [Everybody -> Cl!Statuses]
        /\ UNCHANGED <<claim, there, blocked, word, mixed>>
    BY DEF ClaimsInv, Cl!TypeOK, Everybody, Cl!WriteAnswer, Cl!WriteInvitation, WordsKept, Cl!At, Cl!Request
  <1>2. /\ answer' \in [Call -> Cl!Request] /\ \A q \in Call \ {r} : answer'[q] = answer[q]
        /\ answer'[r].user = u /\ answer'[r].says = s /\ answer'[r].at \in {"done", "check", "failed"}
        /\ answer'[r].at = "check" => s = "PENDING"
        /\ answer'[r].at = "failed" => ~there
    BY <1>1 DEF Cl!WriteAnswer, Cl!WriteInvitation, Cl!Request
  <1>3. /\ standing' \in [Everybody -> Cl!Statuses] /\ \A v \in Everybody \ {u} : standing'[v] = standing[v]
        /\ there => standing'[u] = s
        /\ ~there => standing'[u] = standing[u]
    BY <1>1 DEF Cl!WriteAnswer, Cl!WriteInvitation, Cl!Invited
  <1>4. /\ agreed' \subseteq Everybody /\ agreed \subseteq agreed'
        /\ there /\ s = "ACCEPTED" => u \in agreed'
    BY <1>1 DEF Cl!WriteAnswer, Cl!WriteInvitation, ClaimsInv, Cl!TypeOK, Everybody
  <1>5. Cl!TypeOK'
    BY <1>1, <1>2, <1>3, <1>4 DEF ClaimsInv, Cl!TypeOK, Everybody
  <1>6. WordsKept'
    BY <1>1, <1>2 DEF ClaimsInv, WordsKept, Cl!At
  <1>7. ASSUME NEW v \in Everybody, there', v \notin mixed', Cl!About(v)' = {} PROVE standing'[v] = word'[v]
    <2>1. CASE v = u
      BY <1>1, <1>3, <1>7, <2>1 DEF ClaimsInv, WordsKept, Cl!At
    <2>2. CASE v # u
      <3>1. Cl!About(v) = {}
        BY <1>1, <1>2, <1>7, <2>2 DEF Cl!About, Cl!At
      <3>2. QED BY <1>1, <1>3, <1>7, <2>2, <3>1 DEF ClaimsInv, Cl!AnswersStand, Everybody
    <2>3. QED BY <2>1, <2>2
  <1>8. \A v \in Everybody : standing'[v] = "ACCEPTED" => v \in agreed'
    BY <1>1, <1>3, <1>4 DEF ClaimsInv, Cl!AnswersStand, Everybody
  <1>9. \A q \in Call : Cl!At(q, "failed")' => ~there' \/ answer'[q].user \in blocked'
    BY <1>1, <1>2 DEF ClaimsInv, Cl!AnswersStand, Cl!At
  <1>10. Cl!AnswersStand'
    BY <1>7, <1>8, <1>9 DEF Cl!AnswersStand, Everybody
  <1>11. QED BY <1>5, <1>6, <1>10 DEF ClaimsInv

LEMMA ClaimsNext == ClaimsInv /\ [Cl!Next]_cvars => ClaimsInv'
  <1> SUFFICES ASSUME ClaimsInv, [Cl!Next]_cvars PROVE ClaimsInv'
    OBVIOUS
  <1>1. CASE UNCHANGED cvars
    BY <1>1 DEF cvars, ClaimsInv, Cl!TypeOK, WordsKept, Cl!AnswersStand, Cl!At, Cl!About
  <1>2. ASSUME NEW u \in Everybody, Cl!Block(u) PROVE ClaimsInv'
    BY <1>2 DEF Cl!Block, ClaimsInv, Cl!TypeOK, WordsKept, Cl!AnswersStand, Cl!At, Cl!About, Everybody
  <1>3. CASE Cl!DeletePost
    <2>1. /\ standing' = [u \in Everybody |-> "NONE"] /\ ~there' /\ there' \in BOOLEAN
          /\ UNCHANGED <<claim, blocked, answer, word, agreed, mixed>>
      BY <1>3 DEF Cl!DeletePost, Everybody
    <2>2. Cl!TypeOK'
      BY <2>1 DEF ClaimsInv, Cl!TypeOK, Cl!Statuses, Everybody
    <2>3. WordsKept' /\ Cl!AnswersStand'
      BY <2>1 DEF ClaimsInv, WordsKept, Cl!AnswersStand, Cl!At, Everybody
    <2>4. QED BY <2>2, <2>3 DEF ClaimsInv
  <1>4. QED BY <1>1, <1>2, <1>3, AnswerTagStep, RespondStep, CheckBlockStep, InviteStep, WriteClaimStep DEF Cl!Next, Everybody

-----------------------------------------------------------------------------
\* No two accounts have the same name to the letter.
NamesAreUnique == \A u, v \in Na!Users : name[u] = name[v] => u = v

\* Two accounts on one page: one of them came by its name as the exceptions allow.
PagesAreExplained ==
  \A u, v \in Na!Live : u # v /\ name[u].word = name[v].word => {u, v} \cap loose # {}

\* What the check has let pass is still free, unless a name like it was written since.
ChecksHold ==
  /\ \A r \in Call : rename[r].at = "write" => rename[r].user \in Everybody /\ rename[r].name \in Na!Name
  /\ \A r \in Call : rename[r].at = "write" /\ ~rename[r].raced /\ rename[r].op = "update" =>
                       Na!Alike(rename[r].name) \subseteq {rename[r].user}
  /\ \A r \in Call : rename[r].at = "write" /\ ~rename[r].raced /\ rename[r].op = "register" =>
                       Na!Same(rename[r].name) = {}

NamesInv == Na!TypeOK /\ NamesAreUnique /\ PagesAreExplained /\ ChecksHold

LEMMA NamesInit == Na!Init => NamesInv
  <1> SUFFICES ASSUME Na!Init PROVE NamesInv
    OBVIOUS
  <1>1. Na!Users = {} /\ \A r \in Call : rename[r].at = "start"
    BY DEF Na!Init, Na!Users, Na!Fresh
  <1>2. Na!Fresh \in Na!Request
    BY DEF Na!Fresh, Na!Request
  <1>3. Na!TypeOK
    BY <1>2 DEF Na!Init, Na!TypeOK
  <1>4. QED BY <1>1, <1>3 DEF NamesInv, NamesAreUnique, PagesAreExplained, ChecksHold, Na!Live

\* A name that is free is kept for the request that asked, as far as the check sees.
LEMMA BeginsStep ==
  ASSUME NamesInv, NEW r \in Call, NEW u \in Everybody, NEW n \in Na!Name, NEW op \in {"register", "update"}, NEW free \in BOOLEAN,
         Na!Begins(r, u, n, op, free),
         free /\ op = "update" => Na!Alike(n) \subseteq {u},
         free /\ op = "register" => Na!Same(n) = {}
  PROVE  NamesInv' /\ rename'[r].at # "conflict" /\ \A q \in Call \ {r} : rename'[q] = rename[q]
  <1>1. /\ name' = name /\ deleted' = deleted /\ loose' = loose /\ rename \in [Call -> Na!Request]
        /\ name \in [Everybody -> Na!Name \cup {None}]
    BY DEF Na!Begins, NamesInv, Na!TypeOK, Everybody
  <1>2. PICK l \in {"write", "taken"} :
          /\ rename' = [rename EXCEPT ![r] = [at |-> l, user |-> u, name |-> n, op |-> op, raced |-> FALSE]]
          /\ l = "write" => free
    BY DEF Na!Begins
  <1>3. [at |-> l, user |-> u, name |-> n, op |-> op, raced |-> FALSE] \in Na!Request
    BY DEF Na!Request, Everybody
  <1>4. /\ rename' \in [Call -> Na!Request] /\ \A q \in Call \ {r} : rename'[q] = rename[q]
        /\ rename'[r].at = l /\ rename'[r].user = u /\ rename'[r].name = n /\ rename'[r].op = op
    BY <1>1, <1>2, <1>3
  <1>5. /\ Na!Users' = Na!Users /\ Na!Live' = Na!Live
        /\ \A m : Na!Same(m)' = Na!Same(m) /\ Na!Alike(m)' = Na!Alike(m)
    BY <1>1 DEF Na!Users, Na!Live, Na!Same, Na!Alike
  <1>6. Na!TypeOK'
    BY <1>1, <1>4 DEF NamesInv, Na!TypeOK
  <1>7. NamesAreUnique' /\ PagesAreExplained'
    BY <1>1, <1>5 DEF NamesInv, NamesAreUnique, PagesAreExplained
  <1>8. ChecksHold'
    BY <1>2, <1>4, <1>5 DEF NamesInv, ChecksHold
  <1>9. QED BY <1>2, <1>4, <1>6, <1>7, <1>8 DEF NamesInv

LEMMA DeleteNameStep ==
  ASSUME NamesInv, NEW u \in Everybody, Na!Delete(u)
  PROVE  NamesInv' /\ rename' = rename
  <1>1. name' = name /\ rename' = rename /\ loose' = loose /\ deleted' = deleted \cup {u}
    BY DEF Na!Delete
  <1>2. /\ Na!Users' = Na!Users /\ Na!Live' \subseteq Na!Live
        /\ \A m : Na!Same(m)' = Na!Same(m) /\ Na!Alike(m)' \subseteq Na!Alike(m)
    BY <1>1 DEF Na!Users, Na!Live, Na!Same, Na!Alike
  <1>3. Na!TypeOK'
    BY <1>1 DEF NamesInv, Na!TypeOK, Everybody
  <1>4. NamesAreUnique' /\ PagesAreExplained'
    BY <1>1, <1>2 DEF NamesInv, NamesAreUnique, PagesAreExplained
  <1>5. ChecksHold'
    BY <1>1, <1>2 DEF NamesInv, ChecksHold
  <1>6. QED BY <1>1, <1>3, <1>4, <1>5 DEF NamesInv

LEMMA WriteNameStep ==
  ASSUME NamesInv, NEW r \in Call, Na!Write(r)
  PROVE  /\ NamesInv'
         /\ \A q \in Call : rename[q].at # "conflict" /\ rename'[q].at = "conflict" =>
              rename[q].raced \/ (rename[q].op = "update" /\ Na!Same(rename[q].name) \cap deleted # {})
  <1> DEFINE u == rename[r].user
             n == rename[r].name
  <1>1. /\ rename \in [Call -> Na!Request] /\ rename[r] \in Na!Request /\ rename[r].at = "write"
        /\ u \in Everybody /\ n \in Na!Name /\ deleted' = deleted
        /\ name \in [Everybody -> Na!Name \cup {None}]
    BY DEF Na!Write, NamesInv, Na!TypeOK, ChecksHold, Everybody
  <1>2. CASE Na!Same(n) \subseteq {u}
    <2>0. name' = [name EXCEPT ![u] = n]
      BY <1>2 DEF Na!Write
    <2>1. loose' = IF rename[r].raced \/ (rename[r].op = "register" /\ Na!Alike(n) # {})
                   THEN loose \cup {u} ELSE loose \ {u}
      BY <1>2 DEF Na!Write
    <2>2. ASSUME NEW q \in Call
          PROVE  /\ rename'[q] \in Na!Request /\ rename'[q].user = rename[q].user /\ rename'[q].name = rename[q].name
                 /\ rename'[q].op = rename[q].op
                 /\ rename'[q].at = IF q = r THEN "done" ELSE rename[q].at
                 /\ q # r /\ rename[q].at = "write" /\ ~rename'[q].raced =>
                      ~rename[q].raced /\ rename[q].name.word # n.word
      <3>1. rename[q] \in Na!Request
        BY <1>1
      <3>2. CASE q = r
        <4>1. rename'[q] = [rename[r] EXCEPT !.at = "done"]
          BY <1>2, <3>2 DEF Na!Write
        <4>2. QED BY <3>1, <3>2, <4>1 DEF Na!Request
      <3>3. CASE q # r
        <4>1. rename'[q] = [rename[q] EXCEPT !.raced = @ \/ (q # r /\ rename[q].at = "write" /\ rename[q].name.word = n.word)]
          BY <1>2, <3>3 DEF Na!Write
        <4>2. QED BY <3>1, <3>3, <4>1 DEF Na!Request
      <3>4. QED BY <3>2, <3>3
    <2>3. rename' \in [Call -> Na!Request]
      <3>1. rename' = [q \in Call |-> rename'[q]]
        BY <1>2 DEF Na!Write
      <3>2. QED BY <2>2, <3>1
    <2>4. /\ name' \in [Everybody -> Na!Name \cup {None}] /\ name'[u] = n
          /\ \A v \in Everybody \ {u} : name'[v] = name[v]
      <3> HIDE DEF n, u
      <3>1. QED BY <1>1, <2>0
    <2>5. Na!TypeOK'
      <3>1. loose \subseteq Everybody /\ deleted \subseteq Everybody
        BY DEF NamesInv, Na!TypeOK, Everybody
      <3>2. loose' \subseteq Everybody
        BY <1>1, <2>1, <3>1
      <3>3. QED BY <1>1, <2>3, <2>4, <3>1, <3>2 DEF Na!TypeOK, Everybody
    <2>6. /\ \A v \in Na!Users' : v = u \/ v \in Na!Users
          /\ \A v \in Na!Live' : v = u \/ v \in Na!Live
          /\ Na!Users \subseteq Everybody /\ Na!Live \subseteq Na!Users
          /\ Na!Users' \subseteq Everybody /\ Na!Live' \subseteq Na!Users'
      <3>1. \A v \in Na!Users' : v \in Everybody /\ name'[v] # None
        BY DEF Na!Users, Everybody
      <3>2. \A v \in Everybody : name[v] # None => v \in Na!Users
        BY DEF Na!Users, Everybody
      <3>3. Na!Users \subseteq Everybody
        BY DEF Na!Users, Everybody
      <3>4. \A v \in Na!Users' : v = u \/ v \in Na!Users
        BY <2>4, <3>1, <3>2
      <3>5. Na!Live = Na!Users \ deleted /\ Na!Live' = Na!Users' \ deleted
        BY <1>1 DEF Na!Live
      <3>6. QED BY <3>1, <3>3, <3>4, <3>5
    <2>7. NamesAreUnique'
      <3>1. \A v \in Na!Users : name[v] = n => v = u
        BY <1>2 DEF Na!Same
      <3>2. QED BY <2>4, <2>6, <3>1 DEF NamesInv, NamesAreUnique
    <2>8. PagesAreExplained'
      <3>1. ASSUME NEW v \in Na!Live', v # u, name'[v].word = n.word PROVE u \in loose' \/ v \in loose'
        <4>1. v \in Na!Alike(n)
          BY <3>1, <2>4, <2>6 DEF Na!Alike
        <4>2. rename[r].raced \/ rename[r].op = "register"
          BY <1>1, <3>1, <4>1 DEF NamesInv, ChecksHold, Na!Request
        <4>3. QED BY <2>1, <4>1, <4>2
      <3>2. ASSUME NEW v \in Na!Live', NEW w \in Na!Live', v # w, v # u, w # u, name'[v].word = name'[w].word
            PROVE  {v, w} \cap loose' # {}
        <4>1. {v, w} \cap loose # {}
          BY <3>2, <2>4, <2>6 DEF NamesInv, PagesAreExplained
        <4>2. QED BY <4>1, <3>2, <2>1
      <3>3. QED BY <3>1, <3>2, <2>4 DEF PagesAreExplained
    <2>9. ChecksHold'
      <3>1. ASSUME NEW q \in Call, rename'[q].at = "write", ~rename'[q].raced
            PROVE  /\ Na!Same(rename[q].name)' \subseteq Na!Same(rename[q].name)
                   /\ Na!Alike(rename[q].name)' \subseteq Na!Alike(rename[q].name)
        <4>1. rename[q].name.word # n.word /\ rename'[q].name = rename[q].name
          BY <2>2, <3>1
        <4>2. \A v \in Na!Users' : name'[v].word = rename[q].name.word => v # u
          BY <2>4, <4>1
        <4>3. \A v \in Na!Users' : name'[v] = rename[q].name => v # u
          BY <4>2
        <4>4. Na!Same(rename[q].name)' \subseteq Na!Same(rename[q].name)
          BY <2>4, <2>6, <4>1, <4>3 DEF Na!Same
        <4>5. Na!Alike(rename[q].name)' \subseteq Na!Alike(rename[q].name)
          BY <2>4, <2>6, <4>1, <4>2 DEF Na!Alike
        <4>6. QED BY <4>4, <4>5
      <3>2. ASSUME NEW q \in Call, rename'[q].at = "write"
            PROVE  /\ rename'[q].user \in Everybody /\ rename'[q].name \in Na!Name
                   /\ ~rename'[q].raced /\ rename'[q].op = "update" => Na!Alike(rename[q].name)' \subseteq {rename'[q].user}
                   /\ ~rename'[q].raced /\ rename'[q].op = "register" => Na!Same(rename[q].name)' = {}
        <4>1. /\ rename[q].at = "write" /\ rename'[q].user = rename[q].user /\ rename'[q].name = rename[q].name
              /\ rename'[q].op = rename[q].op /\ (~rename'[q].raced => ~rename[q].raced)
          BY <2>2, <3>2
        <4>2. /\ rename[q].user \in Everybody /\ rename[q].name \in Na!Name
              /\ ~rename[q].raced /\ rename[q].op = "update" => Na!Alike(rename[q].name) \subseteq {rename[q].user}
              /\ ~rename[q].raced /\ rename[q].op = "register" => Na!Same(rename[q].name) = {}
          BY <4>1 DEF NamesInv, ChecksHold
        <4>3. QED BY <3>1, <3>2, <4>1, <4>2
      <3>3. QED BY <3>2 DEF ChecksHold
    <2>10. QED BY <2>2, <2>5, <2>7, <2>8, <2>9 DEF NamesInv
  <1>3. CASE ~(Na!Same(n) \subseteq {u})
    <2>1. name' = name /\ loose' = loose /\ rename' = [rename EXCEPT ![r].at = "conflict"]
      BY <1>3 DEF Na!Write
    <2>2. /\ rename' \in [Call -> Na!Request] /\ \A q \in Call \ {r} : rename'[q] = rename[q]
          /\ rename'[r].at = "conflict"
      BY <1>1, <2>1 DEF Na!Request
    <2>3. /\ Na!Users' = Na!Users /\ Na!Live' = Na!Live
          /\ \A m : Na!Same(m)' = Na!Same(m) /\ Na!Alike(m)' = Na!Alike(m)
      BY <1>1, <2>1 DEF Na!Users, Na!Live, Na!Same, Na!Alike
    <2>7. Na!TypeOK' /\ NamesAreUnique' /\ PagesAreExplained'
      BY <1>1, <2>1, <2>2, <2>3 DEF NamesInv, Na!TypeOK, NamesAreUnique, PagesAreExplained
    <2>8. ChecksHold'
      BY <1>1, <2>2, <2>3 DEF NamesInv, ChecksHold
    <2>4. NamesInv'
      BY <2>7, <2>8 DEF NamesInv
    <2>5. rename[r].raced \/ (rename[r].op = "update" /\ Na!Same(n) \cap deleted # {})
      <3>1. PICK v \in Na!Same(n) : v # u
        BY <1>3
      <3>2. v \notin deleted => v \in Na!Alike(n)
        BY <3>1 DEF Na!Same, Na!Alike, Na!Live
      <3>3. QED BY <1>1, <3>1, <3>2 DEF NamesInv, ChecksHold, Na!Request
    <2>6. QED BY <2>2, <2>4, <2>5
  <1>4. QED BY <1>2, <1>3

Explained ==
  \A r \in Call : rename[r].at # "conflict" /\ rename'[r].at = "conflict" =>
    rename[r].raced \/ (rename[r].op = "update" /\ Na!Same(rename[r].name) \cap deleted # {})

LEMMA NamesNext == NamesInv /\ [Na!Next]_nvars => NamesInv' /\ [Explained]_nvars
  <1> SUFFICES ASSUME NamesInv, [Na!Next]_nvars PROVE NamesInv' /\ [Explained]_nvars
    OBVIOUS
  <1>1. CASE UNCHANGED nvars
    BY <1>1 DEF nvars, NamesInv, Na!TypeOK, NamesAreUnique, PagesAreExplained, ChecksHold,
                Na!Users, Na!Live, Na!Same, Na!Alike
  <1>2. ASSUME NEW r \in Call, NEW u \in Everybody, NEW n \in Na!Name, Na!Register(r, u, n) PROVE NamesInv' /\ Explained
    <2>1. Na!Begins(r, u, n, "register", Na!Available(n))
      BY <1>2 DEF Na!Register
    <2>2. PICK free \in BOOLEAN : free = Na!Available(n) /\ (free => Na!Same(n) = {})
      BY DEF Na!Available
    <2>3. QED BY <2>1, <2>2, BeginsStep DEF Explained
  <1>3. ASSUME NEW r \in Call, NEW u \in Everybody, NEW n \in Na!Name, Na!Update(r, u, n) PROVE NamesInv' /\ Explained
    <2>1. Na!Begins(r, u, n, "update", Na!FreeFor(u, n))
      BY <1>3 DEF Na!Update
    <2>2. PICK free \in BOOLEAN : free = Na!FreeFor(u, n) /\ (free => Na!Alike(n) \subseteq {u})
      BY DEF Na!FreeFor
    <2>3. QED BY <2>1, <2>2, BeginsStep DEF Explained
  <1>4. ASSUME NEW r \in Call, Na!Write(r) PROVE NamesInv' /\ Explained
    BY <1>4, WriteNameStep DEF Explained
  <1>5. ASSUME NEW u \in Everybody, Na!Delete(u) PROVE NamesInv' /\ Explained
    BY <1>5, DeleteNameStep DEF Explained
  <1>6. QED BY <1>1, <1>2, <1>3, <1>4, <1>5 DEF Na!Next, Everybody

LEMMA Apart == NamesInv => Na!NamesAreKeptApart
  <1> SUFFICES ASSUME NamesInv PROVE Na!NamesAreKeptApart
    OBVIOUS
  <1>1. \A u \in Na!Live : name[u] \in Na!Name /\ u \in Na!Users
    BY DEF NamesInv, Na!TypeOK, Na!Live, Na!Users
  <1>2. ASSUME NEW n \in Na!Name
        PROVE  Na!Mentioned(n) \subseteq Na!Page(n) /\ Na!Cardinality(Na!Mentioned(n)) <= 1
    <2>1. Na!Mentioned(n) \subseteq Na!Page(n)
      BY DEF Na!Mentioned, Na!Page, Na!Alike
    <2>2. \A u, v \in Na!Mentioned(n) : u = v
      BY <1>1 DEF Na!Mentioned, NamesInv, NamesAreUnique
    <2>3. Cardinality(Na!Mentioned(n)) \in {0, 1}
      <3>1. CASE Na!Mentioned(n) = {}
        BY <3>1, FS_EmptySet
      <3>2. ASSUME NEW u \in Na!Mentioned(n) PROVE Cardinality(Na!Mentioned(n)) = 1
        <4>1. Na!Mentioned(n) = {u}
          BY <2>2
        <4>2. QED BY <4>1, FS_Singleton
      <3>3. QED BY <3>1, <3>2
    <2>4. Na!Cardinality(Na!Mentioned(n)) = Cardinality(Na!Mentioned(n))
      BY DEF Na!Cardinality, Cardinality
    <2>5. QED BY <2>1, <2>3, <2>4
  <1>3. ASSUME NEW u \in Na!Live PROVE u \in Na!Mentioned(name[u]) <=> ~name[u].upper
    <2>1. name[u] = [word |-> name[u].word, upper |-> FALSE] <=> ~name[u].upper
      <3>1. PICK w \in Word, b \in BOOLEAN : name[u] = [word |-> w, upper |-> b]
        BY <1>1 DEF Na!Name
      <3>2. name[u].word = w /\ name[u].upper = b
        BY <3>1
      <3>3. CASE b = TRUE
        <4>1. name[u].upper # [word |-> w, upper |-> FALSE].upper
          BY <3>2, <3>3
        <4>2. QED BY <3>2, <3>3, <4>1
      <3>4. CASE b = FALSE
        BY <3>1, <3>2, <3>4
      <3>5. QED BY <3>3, <3>4
    <2>2. QED BY <2>1 DEF Na!Mentioned
  <1>4. QED BY <1>2, <1>3 DEF NamesInv, PagesAreExplained, Na!NamesAreKeptApart

\* register, update: the unique index refuses what the check has let pass only if the name was taken
\* since, or a deleted account has it.
THEOREM RefusalsAreExplainedForAll == AccountsSpec => Na!RefusalsAreExplained
  <1>1. AccountsInit => NamesInv
    BY NamesInit DEF AccountsInit
  <1>2. NamesInv /\ [AccountsNext]_accountvars => NamesInv' /\ [Explained]_nvars
    BY PartStep, NamesNext
  <1>3. [Explained]_nvars =>
          [\A r \in Call : rename[r].at # "conflict" /\ rename'[r].at = "conflict" =>
             rename[r].raced \/ (rename[r].op = "update" /\ Na!Same(rename[r].name) \cap deleted # {})]_nvars
    BY DEF Explained
  <1>4. AccountsSpec =>
          [][\A r \in Call : rename[r].at # "conflict" /\ rename'[r].at = "conflict" =>
               rename[r].raced \/ (rename[r].op = "update" /\ Na!Same(rename[r].name) \cap deleted # {})]_nvars
    BY <1>1, <1>2, <1>3, PTL DEF AccountsSpec
  <1>5. QED BY <1>4 DEF Na!RefusalsAreExplained, nvars, Na!vars

\* The two together: whatever is granted or refused, by the settings or for the sake of a name, has its
\* reason in a moment of the request.
THEOREM AnswersJustified == AccountsSpec => AnswersAreJustified
  BY PoliciesAreObeyedForAll, RefusalsAreExplainedForAll, PTL DEF AnswersAreJustified

\* Whatever the accounts are called, and whatever is asked and answered of whom: one page per name and
\* one user per mention, and the last word about each one decides, with the exceptions named there.
THEOREM ProfilesAgreeForAll == AccountsSpec => []ProfilesAgree
  <1>1. AccountsInit => NamesInv /\ ClaimsInv
    BY NamesInit, ClaimsInit DEF AccountsInit
  <1>2. NamesInv /\ ClaimsInv /\ [AccountsNext]_accountvars => NamesInv' /\ ClaimsInv'
    BY PartStep, NamesNext, ClaimsNext
  <1>3. NamesInv /\ ClaimsInv => ProfilesAgree
    BY Apart DEF ProfilesAgree, ClaimsInv
  <1>4. QED BY <1>1, <1>2, <1>3, PTL DEF AccountsSpec
=============================================================================
