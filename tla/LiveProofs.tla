----------------------------- MODULE LiveProofs -----------------------------
(***************************************************************************)
(* What is proved of Live for any numbers of viewers, streams, rows and    *)
(* requests.                                                               *)
(***************************************************************************)
EXTENDS Live, FiniteSetTheorems, TLAPS

\* The handlers that will bring the number of viewers of their stream up to date.
Counting == {"endRow", "total", "count", "peak", "write", "kickGuest"}

\* What a handler relies on: its stream is there; what it has counted was the number of rows
\* then, and rows stay; what it has checked still holds, or it is marked as overtaken.
LocalOK(r) ==
  /\ req[r].at \notin {"start", "create", "end"} => req[r].live \in Stream /\ Exists(req[r].live)
  /\ req[r].at \in {"view", "find", "insert", "heart", "ask", "room", "accept", "decline", "kickGuest"} => req[r].user \in User
  /\ req[r].at = "view" => req[r].op \in {"join", "like", "requestJoin", "subscribe"}
  /\ req[r].at \in {"find", "insert"} => req[r].op = "join"
  /\ req[r].at \in {"peak", "write"} => req[r].count <= Cardinality(RowsOf(req[r].live))
  /\ req[r].at = "write" => req[r].peak <= Cardinality(RowsOf(req[r].live))
  /\ req[r].at = "create" /\ ~req[r].over => \A l \in Stream : ~IsLive(l)
  /\ req[r].at \in {"view", "find", "insert"} /\ req[r].op = "join" /\ ~req[r].over => IsLive(req[r].live)
  /\ req[r].at = "insert" /\ ~req[r].over => Watches(req[r].live, req[r].user) = {}
  /\ req[r].at = "endRow" => Watching(req[r].live) \subseteq twin

\* The rows of a stream and the numbers that its row keeps of them.
CountOK(l) ==
  live[l].viewersCount # Cardinality(Watching(l)) => l \in old \cup broken \/ On(l, Counting) # {}

TotalsOK(l) ==
  /\ IsFiniteSet(On(l, {"total"})) /\ IsFiniteSet(On(l, {"likes"}))
  /\ l \notin broken =>
       /\ live[l].totalViewers + Cardinality(On(l, {"total"})) = Cardinality(RowsOf(l))
       /\ live[l].likesCount + Cardinality(On(l, {"likes"})) = hearts[l]

RowsOK(l) ==
  /\ ~Exists(l) => live[l] = NoLive /\ RowsOf(l) = {} /\ hearts[l] = 0
  /\ IsFiniteSet(RowsOf(l))
  /\ live[l].viewersCount <= live[l].peakViewers
  /\ live[l].peakViewers <= Cardinality(RowsOf(l))

SingleOK(l) ==
  /\ \A v, w \in Watching(l) : v # w /\ viewer[v].user = viewer[w].user => v \in twin \/ w \in twin
  /\ live[l].status = "ENDED" => Watching(l) \subseteq twin

OneLive == \A k, l \in Stream : IsLive(k) /\ IsLive(l) /\ k # l => k \in twin \/ l \in twin

\* Only of a stream that is there is anything asked; whoever asks or is declined while on
\* screen is known as such.
SeatOK(p) ==
  /\ ask[p] # "none" => Exists(p[1])
  /\ guest[p] # "none" => ask[p] # "none"
  /\ ask[p] = "ACCEPTED" => guest[p] # "none"
  /\ ask[p] \in {"PENDING", "DECLINED"} /\ guest[p] = "in" => p \in again

LiveInv ==
  /\ TypeOK
  /\ \A r \in Req : LocalOK(r)
  /\ \A l \in Stream : CountOK(l) /\ TotalsOK(l) /\ RowsOK(l) /\ SingleOK(l)
  /\ OneLive
  /\ \A p \in Seat : SeatOK(p)

-----------------------------------------------------------------------------
(***************************************************************************)
(* What a step does to the request that takes it, and to the others.       *)
(***************************************************************************)

\* A request stays where it is; it may have been overtaken.
Same(q) ==
  /\ req'[q].at = req[q].at /\ req'[q].op = req[q].op /\ req'[q].live = req[q].live /\ req'[q].user = req[q].user
  /\ req'[q].count = req[q].count /\ req'[q].peak = req[q].peak /\ (req[q].over => req'[q].over)

LEMMA IdleIs ==
  /\ Idle \in Request /\ Idle.at = "start" /\ Idle.live = None /\ Idle.user = None /\ Idle.over = FALSE
  /\ None \notin User /\ None \notin Stream
  BY HostIsNoUser DEF Idle, Request

LEMMA BecomeIs ==
  ASSUME TypeOK, NEW r \in Req, NEW x \in Request, Become(r, x)
  PROVE  req' \in [Req -> Request] /\ req'[r] = x /\ \A q \in Req \ {r} : req'[q] = req[q] /\ Same(q)
  BY DEF Become, TypeOK, Same

LEMMA GotoIs ==
  ASSUME TypeOK, NEW r \in Req, NEW l, Goto(r, l),
         l \in {"find", "insert", "count", "heart", "likes", "ask", "room", "end"}
  PROVE  /\ req' \in [Req -> Request]
         /\ req'[r].at = l /\ req'[r].op = req[r].op /\ req'[r].live = req[r].live /\ req'[r].user = req[r].user
         /\ req'[r].over = req[r].over
         /\ \A q \in Req \ {r} : req'[q] = req[q] /\ Same(q)
  <1>. DEFINE x == [req[r] EXCEPT !.at = l]
  <1>1. req[r] \in Request
    BY DEF TypeOK
  <1>2. /\ x \in Request /\ x.at = l /\ x.op = req[r].op /\ x.live = req[r].live /\ x.user = req[r].user
        /\ x.over = req[r].over
    BY <1>1 DEF Request
  <1>3. Become(r, x)
    BY DEF Goto
  <1>4. PICK y \in Request : y = x
    BY <1>2
  <1>5. req' \in [Req -> Request] /\ req'[r] = y /\ \A q \in Req \ {r} : req'[q] = req[q] /\ Same(q)
    BY <1>3, <1>4, BecomeIs
  <1>6. QED BY <1>2, <1>4, <1>5

LEMMA OvertakeIs ==
  ASSUME TypeOK, NEW r \in Req, NEW l \in {"endRow", "total", "end"}, NEW others,
         Overtake(r, [req[r] EXCEPT !.at = l], others)
  PROVE  /\ req' \in [Req -> Request]
         /\ req'[r].at = l /\ req'[r].op = req[r].op /\ req'[r].live = req[r].live /\ req'[r].user = req[r].user
         /\ req'[r].over = req[r].over
         /\ \A q \in Req \ {r} : Same(q) /\ (q \in others => req'[q].over)
  <1>. DEFINE x == [req[r] EXCEPT !.at = l]
  <1>1. req[r] \in Request /\ req \in [Req -> Request]
    BY DEF TypeOK
  <1>2. /\ x \in Request /\ x.at = l /\ x.op = req[r].op /\ x.live = req[r].live /\ x.user = req[r].user
        /\ x.over = req[r].over
    BY <1>1 DEF Request
  <1>3. req'[r] = x /\ DOMAIN req' = Req
    BY DEF Overtake
  <1>4. ASSUME NEW q \in Req \ {r}
        PROVE  req'[q] \in Request /\ Same(q) /\ (q \in others => req'[q].over)
    <2>1. CASE q \in others
      <3>1. req'[q] = [req[q] EXCEPT !.over = TRUE] /\ req[q] \in Request
        BY <1>1, <2>1 DEF Overtake
      <3>2. QED BY <3>1 DEF Request, Same
    <2>2. CASE q \notin others
      <3>1. req'[q] = req[q] /\ req[q] \in Request
        BY <1>1, <2>2 DEF Overtake
      <3>2. QED BY <2>2, <3>1 DEF Same
    <2>3. QED BY <2>1, <2>2
  <1>5. req' \in [Req -> Request]
    <2>1. \A q \in Req : req'[q] \in Request
      BY <1>2, <1>3, <1>4
    <2>2. req' = [q \in Req |-> req'[q]]
      BY DEF Overtake
    <2>3. QED BY <2>1, <2>2
  <1>6. QED BY <1>2, <1>3, <1>4, <1>5

\* Closing rows takes nothing away but those that are open.
LEMMA LeaveIs ==
  ASSUME TypeOK, NEW S, Leave(S)
  PROVE  /\ viewer' \in [Row -> ViewerRow]
         /\ \A v \in Row : /\ viewer'[v].live = viewer[v].live /\ viewer'[v].user = viewer[v].user
                           /\ viewer[v].left => viewer'[v].left
         /\ \A l : RowsOf(l)' = RowsOf(l) /\ Watching(l)' = Watching(l) \ S
         /\ \A l, u : Watches(l, u)' \subseteq Watches(l, u)
  <1>1. viewer \in [Row -> ViewerRow]
    BY DEF TypeOK
  <1>2. ASSUME NEW v \in Row
        PROVE  /\ viewer'[v] \in ViewerRow /\ viewer'[v].live = viewer[v].live /\ viewer'[v].user = viewer[v].user
               /\ viewer'[v].left = (viewer[v].left \/ v \in S)
    <2>1. CASE v \in S
      BY <1>1, <2>1 DEF Leave, ViewerRow
    <2>2. CASE v \notin S
      BY <1>1, <2>2 DEF Leave, ViewerRow
    <2>3. QED BY <2>1, <2>2
  <1>3. viewer' \in [Row -> ViewerRow]
    BY <1>2 DEF Leave
  <1>4. \A l : RowsOf(l)' = RowsOf(l)
    BY <1>2 DEF RowsOf
  <1>5. \A l : Watching(l)' = Watching(l) \ S
    BY <1>2 DEF Watching, RowsOf
  <1>6. \A l, u : Watches(l, u)' \subseteq Watches(l, u)
    BY <1>2 DEF Watches, Watching, RowsOf
  <1>7. QED BY <1>2, <1>3, <1>4, <1>5, <1>6

\* A request that does not step keeps what it relies on.
LEMMA LocalKept ==
  ASSUME TypeOK, NEW q \in Req, LocalOK(q), Same(q),
         \A l \in Stream : Exists(l) => Exists(l)',
         \A l \in Stream : IsFiniteSet(RowsOf(l)') /\ RowsOf(l) \subseteq RowsOf(l)',
         req[q].at = "create" /\ ~req'[q].over => \A l \in Stream : IsLive(l)' => IsLive(l),
         req[q].op = "join" /\ req[q].live \in Stream /\ IsLive(req[q].live) /\ ~req'[q].over => IsLive(req[q].live)',
         req[q].at = "insert" /\ ~req'[q].over => Watches(req[q].live, req[q].user)' \subseteq Watches(req[q].live, req[q].user),
         req[q].at = "endRow" => Watching(req[q].live)' \subseteq Watching(req[q].live) \cup twin',
         twin \subseteq twin'
  PROVE  LocalOK(q)'
  <1>1. PICK l, u : l = req[q].live /\ u = req[q].user
    OBVIOUS
  <1>2. req'[q].live = l /\ req'[q].user = u
    BY <1>1 DEF Same
  <1>3. req[q].count \in Nat /\ req[q].peak \in Nat
    BY DEF TypeOK, Request
  <1>4. l \in Stream => Cardinality(RowsOf(l)) \in Nat /\ Cardinality(RowsOf(l)') \in Nat
                        /\ Cardinality(RowsOf(l)) <= Cardinality(RowsOf(l)')
    BY FS_Subset, FS_CardinalityType
  <1>5. req[q].at \in {"peak", "write"} => req'[q].count <= Cardinality(RowsOf(l)')
    BY <1>1, <1>3, <1>4 DEF LocalOK, Same
  <1>6. req[q].at = "write" => req'[q].peak <= Cardinality(RowsOf(l)')
    BY <1>1, <1>3, <1>4 DEF LocalOK, Same
  <1>7. PICK R : R = RowsOf(l)'
    OBVIOUS
  <1>8. RowsOf(req[q].live)' = R
    <2>1. R = {v \in Row : viewer'[v].live = l}
      BY <1>7 DEF RowsOf
    <2>2. {v \in Row : viewer'[v].live = req'[q].live} = R
      BY <1>2, <2>1
    <2>3. QED BY <2>2 DEF RowsOf
  <1>9. /\ req'[q].at \in {"peak", "write"} => req'[q].count <= Cardinality(RowsOf(req[q].live))'
        /\ req'[q].at = "write" => req'[q].peak <= Cardinality(RowsOf(req[q].live))'
    <2>1. Cardinality(RowsOf(req[q].live)') = Cardinality(R)
      BY <1>8
    <2>2. QED BY <1>5, <1>6, <1>7, <2>1 DEF Same
  <1>10. /\ req'[q].at \notin {"start", "create", "end"} => req'[q].live \in Stream /\ Exists(req[q].live)'
         /\ req'[q].at \in {"view", "find", "insert"} /\ req'[q].op = "join" /\ ~req'[q].over => IsLive(req[q].live)'
    BY <1>1, <1>2 DEF LocalOK, Same, Exists, IsLive
  <1>11. req'[q].at = "insert" /\ ~req'[q].over => Watches(req[q].live, req[q].user)' = {}
    BY <1>1, <1>2 DEF LocalOK, Same, Watches, Watching, RowsOf
  <1>12. req'[q].at = "endRow" => Watching(req[q].live)' \subseteq twin'
    BY <1>1, <1>2 DEF LocalOK, Same, Watching, RowsOf
  <1>13. QED BY <1>9, <1>10, <1>11, <1>12 DEF LocalOK, Same

\* The requests at certain places change by the one that steps.
LEMMA OnIs ==
  ASSUME TypeOK, NEW r \in Req, \A q \in Req \ {r} : Same(q), NEW l, NEW places
  PROVE  On(l, places)' = (On(l, places) \ {r}) \cup {q \in {r} : req'[q].live = l /\ req'[q].at \in places}
  BY DEF On, Same

LEMMA OnIsFinite ==
  ASSUME TypeOK, NEW r \in Req, \A q \in Req \ {r} : Same(q), NEW l, NEW places, IsFiniteSet(On(l, places))
  PROVE  IsFiniteSet(On(l, places)')
  <1>1. On(l, places)' \subseteq On(l, places) \cup {r}
    BY OnIs
  <1>2. IsFiniteSet(On(l, places) \cup {r})
    BY FS_AddElement
  <1>3. QED BY <1>1, <1>2, FS_Subset

\* The number of viewers stays right, or somebody will see to it.
LEMMA CountKept ==
  ASSUME TypeOK, NEW r \in Req, \A q \in Req \ {r} : Same(q), NEW l \in Stream, CountOK(l),
         (live'[l].viewersCount = live[l].viewersCount /\ Watching(l)' = Watching(l))
           \/ (req'[r].live = l /\ req'[r].at \in Counting),
         l \in old \cup broken => l \in old' \cup broken',
         req[r].live = l /\ req[r].at \in Counting =>
           l \in broken' \/ (req'[r].live = l /\ req'[r].at \in Counting)
  PROVE  CountOK(l)'
  <1>1. On(l, Counting)' = (On(l, Counting) \ {r}) \cup {q \in {r} : req'[q].live = l /\ req'[q].at \in Counting}
    BY OnIs
  <1>2. req[r].live = l /\ req[r].at \in Counting <=> r \in On(l, Counting)
    BY DEF On
  <1>3. req'[r].live = l /\ req'[r].at \in Counting => r \in On(l, Counting)'
    BY <1>1
  <1>4. CASE req'[r].live = l /\ req'[r].at \in Counting
    BY <1>3, <1>4 DEF CountOK
  <1>5. CASE ~(req'[r].live = l /\ req'[r].at \in Counting)
    <2>1. CASE l \in broken'
      BY <2>1 DEF CountOK
    <2>2. CASE l \notin broken'
      <3>1. On(l, Counting) \subseteq On(l, Counting)'
        BY <1>1, <1>2, <1>5, <2>2
      <3>2. Cardinality(Watching(l))' = Cardinality(Watching(l))
        BY <1>5
      <3>3. QED BY <1>5, <3>1, <3>2 DEF CountOK
    <2>3. QED BY <2>1, <2>2
  <1>6. QED BY <1>4, <1>5

\* The sums stay right when neither they nor what they count changes.
LEMMA TotalsKept ==
  ASSUME TypeOK, NEW r \in Req, \A q \in Req \ {r} : Same(q), NEW l \in Stream, TotalsOK(l),
         live'[l].totalViewers = live[l].totalViewers /\ live'[l].likesCount = live[l].likesCount,
         hearts'[l] = hearts[l], RowsOf(l)' = RowsOf(l),
         broken \subseteq broken',
         l \notin broken' => \A place \in {"total", "likes"} :
           (req[r].live = l /\ req[r].at = place) <=> (req'[r].live = l /\ req'[r].at = place)
  PROVE  TotalsOK(l)'
  <1>1. IsFiniteSet(On(l, {"total"})') /\ IsFiniteSet(On(l, {"likes"})')
    BY OnIsFinite DEF TotalsOK
  <1>2. ASSUME NEW place \in {"total", "likes"}, l \notin broken' PROVE On(l, {place})' = On(l, {place})
    <2>1. On(l, {place})' = (On(l, {place}) \ {r}) \cup {q \in {r} : req'[q].live = l /\ req'[q].at \in {place}}
      BY OnIs
    <2>2. QED BY <1>2, <2>1 DEF On
  <1>3. ASSUME l \notin broken'
        PROVE  /\ On(l, {"total"})' = On(l, {"total"}) /\ On(l, {"likes"})' = On(l, {"likes"}) /\ l \notin broken
               /\ RowsOf(l)' = RowsOf(l)
    BY <1>2, <1>3
  <1>4. ASSUME l \notin broken'
        PROVE  /\ Cardinality(On(l, {"total"}))' = Cardinality(On(l, {"total"}))
               /\ Cardinality(On(l, {"likes"}))' = Cardinality(On(l, {"likes"}))
               /\ Cardinality(RowsOf(l))' = Cardinality(RowsOf(l)) /\ l \notin broken
    BY <1>3, <1>4
  <1>5. QED BY <1>1, <1>4 DEF TotalsOK

LEMMA RowsKept ==
  ASSUME NEW l \in Stream, RowsOK(l), RowsOf(l)' = RowsOf(l),
         live'[l] = live[l] /\ hearts'[l] = hearts[l]
  PROVE  RowsOK(l)'
  <1>1. Cardinality(RowsOf(l))' = Cardinality(RowsOf(l)) /\ IsFiniteSet(RowsOf(l))' = IsFiniteSet(RowsOf(l))
    OBVIOUS
  <1>2. QED BY <1>1 DEF RowsOK, Exists

LEMMA SingleKept ==
  ASSUME NEW l \in Stream, SingleOK(l), Watching(l)' \subseteq Watching(l),
         \A v \in Watching(l)' : viewer'[v].user = viewer[v].user, twin \subseteq twin',
         live'[l].status = "ENDED" => live[l].status = "ENDED" \/ Watching(l) \subseteq twin
  PROVE  SingleOK(l)'
  <1>1. Watching(l) \subseteq Row
    BY DEF Watching, RowsOf
  <1>2. QED BY <1>1 DEF SingleOK

\* A step of r that leaves the rows of the streams alone.
LEMMA QuietKept ==
  ASSUME LiveInv, NEW r \in Req, UNCHANGED <<live, viewer, hearts, twin, old>>, broken \subseteq broken',
         req' \in [Req -> Request], \A q \in Req \ {r} : Same(q), LocalOK(r)',
         req[r].at \in Counting /\ req[r].live \notin broken' =>
           req'[r].at \in Counting /\ req'[r].live = req[r].live,
         req[r].live \notin broken' => req[r].at \notin {"total", "likes"},
         req'[r].at \notin {"total", "likes"}
  PROVE  /\ \A q \in Req : LocalOK(q)'
         /\ \A l \in Stream : CountOK(l)' /\ TotalsOK(l)' /\ RowsOK(l)' /\ SingleOK(l)'
         /\ OneLive'
  <1>1. TypeOK
    BY DEF LiveInv
  <1>2. \A l : RowsOf(l)' = RowsOf(l) /\ Watching(l)' = Watching(l)
    BY DEF RowsOf, Watching
  <1>3. \A l, u : Watches(l, u)' = Watches(l, u)
    BY DEF RowsOf, Watching, Watches
  <1>4. ASSUME NEW q \in Req \ {r} PROVE LocalOK(q)'
    <2>1. LocalOK(q) /\ \A l \in Stream : IsFiniteSet(RowsOf(l))
      BY DEF LiveInv, RowsOK
    <2>2. /\ \A l \in Stream : Exists(l) => Exists(l)'
          /\ \A l \in Stream : IsFiniteSet(RowsOf(l)') /\ RowsOf(l) \subseteq RowsOf(l)'
          /\ \A l \in Stream : IsLive(l)' => IsLive(l)
          /\ req[q].live \in Stream /\ IsLive(req[q].live) => IsLive(req[q].live)'
      BY <1>2, <2>1 DEF Exists, IsLive, Same
    <2>3. /\ Watches(req[q].live, req[q].user)' \subseteq Watches(req[q].live, req[q].user)
          /\ Watching(req[q].live)' \subseteq Watching(req[q].live) \cup twin'
      BY DEF Same, Watches, Watching, RowsOf
    <2>4. QED BY <1>1, <2>1, <2>2, <2>3, LocalKept
  <1>5. ASSUME NEW l \in Stream PROVE CountOK(l)' /\ TotalsOK(l)' /\ RowsOK(l)' /\ SingleOK(l)'
    <2>1. CountOK(l) /\ TotalsOK(l) /\ RowsOK(l) /\ SingleOK(l)
      BY DEF LiveInv
    <2>2. CountOK(l)'
      <3>1. l \in old \cup broken => l \in old' \cup broken'
        OBVIOUS
      <3>2. req[r].live = l /\ req[r].at \in Counting =>
              l \in broken' \/ (req'[r].live = l /\ req'[r].at \in Counting)
        OBVIOUS
      <3>3. live'[l].viewersCount = live[l].viewersCount /\ Watching(l)' = Watching(l)
        BY <1>2
      <3>4. QED BY <1>1, <2>1, <3>1, <3>2, <3>3, CountKept
    <2>3. TotalsOK(l)'
      BY <1>1, <1>2, <2>1, TotalsKept
    <2>4. RowsOK(l)'
      BY <1>2, <2>1, RowsKept
    <2>5. SingleOK(l)'
      BY <1>2, <2>1, SingleKept
    <2>6. QED BY <2>2, <2>3, <2>4, <2>5
  <1>6. OneLive'
    BY DEF LiveInv, OneLive, IsLive
  <1>7. QED BY <1>4, <1>5, <1>6

\* A step of r on another stream leaves this one alone.
LEMMA OtherStream ==
  ASSUME LiveInv, NEW r \in Req, \A q \in Req \ {r} : Same(q), NEW k \in Stream,
         live'[k] = live[k], hearts'[k] = hearts[k], RowsOf(k)' = RowsOf(k), Watching(k)' = Watching(k),
         \A v \in Watching(k) : viewer'[v].user = viewer[v].user,
         twin \subseteq twin', broken \subseteq broken', k \in old => k \in old',
         req[r].live # k \/ req[r].at \notin Counting \cup {"likes"},
         req'[r].live # k \/ req'[r].at \notin Counting \cup {"likes"}
  PROVE  CountOK(k)' /\ TotalsOK(k)' /\ RowsOK(k)' /\ SingleOK(k)'
  <1>1. TypeOK /\ CountOK(k) /\ TotalsOK(k) /\ RowsOK(k) /\ SingleOK(k)
    BY DEF LiveInv
  <1>2. CountOK(k)'
    <2>1. k \in old \cup broken => k \in old' \cup broken'
      OBVIOUS
    <2>2. QED BY <1>1, <2>1, CountKept
  <1>3. TotalsOK(k)'
    BY <1>1, TotalsKept DEF Counting
  <1>4. RowsOK(k)'
    BY <1>1, RowsKept
  <1>5. SingleOK(k)'
    BY <1>1, SingleKept
  <1>6. QED BY <1>2, <1>3, <1>4, <1>5

\* A step of r that changes no viewer's row, and the status of no stream.
LEMMA OthersKept ==
  ASSUME LiveInv, NEW r \in Req, \A q \in Req \ {r} : Same(q), viewer' = viewer,
         \A l \in Stream : live'[l].status = live[l].status, twin \subseteq twin'
  PROVE  \A q \in Req \ {r} : LocalOK(q)'
  <1>1. TAKE q \in Req \ {r}
  <1>2. TypeOK /\ LocalOK(q) /\ \A l \in Stream : IsFiniteSet(RowsOf(l))
    BY DEF LiveInv, RowsOK
  <1>3. \A l : RowsOf(l)' = RowsOf(l)
    BY DEF RowsOf
  <1>4. /\ \A l \in Stream : Exists(l) => Exists(l)'
        /\ \A l \in Stream : IsFiniteSet(RowsOf(l)') /\ RowsOf(l) \subseteq RowsOf(l)'
        /\ \A l \in Stream : IsLive(l)' => IsLive(l)
        /\ req[q].live \in Stream /\ IsLive(req[q].live) => IsLive(req[q].live)'
    BY <1>2, <1>3 DEF Exists, IsLive, Same
  <1>5. /\ Watches(req[q].live, req[q].user)' \subseteq Watches(req[q].live, req[q].user)
        /\ Watching(req[q].live)' \subseteq Watching(req[q].live) \cup twin'
    BY DEF Same, Watches, Watching, RowsOf
  <1>6. QED BY <1>2, <1>4, <1>5, LocalKept

-----------------------------------------------------------------------------
(***************************************************************************)
(* The actions that leave the rows of the streams alone.                   *)
(***************************************************************************)

LEMMA StartReadKeeps ==
  ASSUME LiveInv, NEW r \in Req, StartRead(r)
  PROVE  LiveInv'
  <1>1. TypeOK /\ req[r].at = "start"
    BY DEF LiveInv, StartRead, At
  <1>2. PICK x : x = Ask("create", "host", None, None)
    OBVIOUS
  <1>3. x \in Request /\ x.at = "create" /\ x.live = None /\ x.over = FALSE
    BY <1>2 DEF Ask, Idle, Request
  <1>4. req' \in [Req -> Request] /\ req'[r] = x /\ \A q \in Req \ {r} : Same(q)
    BY <1>1, <1>2, <1>3, BecomeIs DEF StartRead
  <1>5. LocalOK(r)'
    BY <1>3, <1>4 DEF LocalOK, StartRead, rows, IsLive
  <1>6. /\ \A q \in Req : LocalOK(q)'
        /\ \A l \in Stream : CountOK(l)' /\ TotalsOK(l)' /\ RowsOK(l)' /\ SingleOK(l)'
        /\ OneLive'
    BY <1>1, <1>3, <1>4, <1>5, QuietKept DEF StartRead, rows, history, Counting
  <1>7. TypeOK' /\ \A p \in Seat : SeatOK(p)'
    BY <1>1, <1>4 DEF LiveInv, TypeOK, SeatOK, StartRead, rows, history, Exists
  <1>8. QED BY <1>6, <1>7 DEF LiveInv

\* A request begins by reading a stream.
LEMMA ReadKeeps ==
  ASSUME LiveInv, NEW r \in Req, At(r, "start"), NEW l \in Stream, Exists(l),
         NEW at \in {"endViewers", "view", "accept", "decline"},
         NEW op \in {"host", "join", "like", "requestJoin", "subscribe"}, NEW u \in User \cup {None},
         u = None => at = "endViewers", at = "view" <=> op # "host", op = "join" => IsLive(l),
         Become(r, Ask(at, op, l, u)), UNCHANGED <<rows, may, history>>
  PROVE  LiveInv'
  <1>1. TypeOK /\ req[r].at = "start"
    BY DEF LiveInv, At
  <1>2. PICK x : x = Ask(at, op, l, u)
    OBVIOUS
  <1>3. x \in Request /\ x.at = at /\ x.op = op /\ x.live = l /\ x.user = u /\ l # None
    BY <1>2, IdleIs DEF Ask, Idle, Request
  <1>4. req' \in [Req -> Request] /\ req'[r] = x /\ \A q \in Req \ {r} : Same(q)
    BY <1>1, <1>2, <1>3, BecomeIs
  <1>5. LocalOK(r)'
    BY <1>3, <1>4 DEF LocalOK, rows, IsLive, Exists
  <1>6. /\ \A q \in Req : LocalOK(q)'
        /\ \A k \in Stream : CountOK(k)' /\ TotalsOK(k)' /\ RowsOK(k)' /\ SingleOK(k)'
        /\ OneLive'
    BY <1>1, <1>3, <1>4, <1>5, QuietKept DEF rows, history, Counting
  <1>7. TypeOK' /\ \A p \in Seat : SeatOK(p)'
    BY <1>1, <1>4 DEF LiveInv, TypeOK, SeatOK, rows, history, Exists
  <1>8. QED BY <1>6, <1>7 DEF LiveInv

LEMMA EndReadKeeps ==
  ASSUME LiveInv, NEW r \in Req, EndRead(r)
  PROVE  LiveInv'
  <1>1. PICK l \in Stream : IsLive(l) /\ Become(r, Ask("endViewers", "host", l, None))
    BY DEF EndRead
  <1>2. QED BY <1>1, ReadKeeps DEF EndRead, IsLive, Exists

LEMMA ReadLiveKeeps ==
  ASSUME LiveInv, NEW r \in Req, ReadLive(r)
  PROVE  LiveInv'
  <1>1. PICK l \in Stream, u \in User, op \in {"join", "requestJoin"} :
          IsLive(l) /\ Become(r, Ask("view", op, l, u))
    BY DEF ReadLive
  <1>2. u # None
    BY IdleIs
  <1>3. QED BY <1>1, <1>2, ReadKeeps DEF ReadLive, IsLive, Exists

LEMMA ReadAnyKeeps ==
  ASSUME LiveInv, NEW r \in Req, ReadAny(r)
  PROVE  LiveInv'
  <1>1. PICK l \in Stream, u \in User, op \in {"like", "subscribe"} :
          Exists(l) /\ Become(r, Ask("view", op, l, u))
    BY DEF ReadAny
  <1>2. u # None
    BY IdleIs
  <1>3. QED BY <1>1, <1>2, ReadKeeps DEF ReadAny

LEMMA AcceptReadKeeps ==
  ASSUME LiveInv, NEW r \in Req, AcceptRead(r)
  PROVE  LiveInv'
  <1>1. PICK p \in Seat : IsLive(p[1]) /\ Become(r, Ask("accept", "host", p[1], p[2]))
    BY DEF AcceptRead
  <1>2. p[1] \in Stream /\ p[2] \in User /\ p[2] # None
    BY IdleIs DEF Seat
  <1>3. QED BY <1>1, <1>2, ReadKeeps DEF AcceptRead, IsLive, Exists

LEMMA DeclineReadKeeps ==
  ASSUME LiveInv, NEW r \in Req, DeclineRead(r)
  PROVE  LiveInv'
  <1>1. PICK p \in Seat : ask[p] # "none" /\ Become(r, Ask("decline", "host", p[1], p[2]))
    BY DEF DeclineRead
  <1>2. p[1] \in Stream /\ p[2] \in User /\ p[2] # None /\ Exists(p[1])
    BY <1>1, IdleIs DEF Seat, LiveInv, SeatOK
  <1>3. QED BY <1>1, <1>2, ReadKeeps DEF DeclineRead

\* A handler goes on, and nothing but itself changes.
LEMMA StepKeeps ==
  ASSUME LiveInv, NEW r \in Req, UNCHANGED <<rows, may, history>>,
         req' \in [Req -> Request], \A q \in Req \ {r} : Same(q), LocalOK(r)',
         req[r].at \in Counting => req'[r].at \in Counting /\ req'[r].live = req[r].live,
         req[r].at \notin {"total", "likes"}, req'[r].at \notin {"total", "likes"}
  PROVE  LiveInv'
  <1>1. UNCHANGED <<live, viewer, hearts, twin, old>> /\ broken \subseteq broken'
    BY DEF rows, history
  <1>2. /\ \A q \in Req : LocalOK(q)'
        /\ \A k \in Stream : CountOK(k)' /\ TotalsOK(k)' /\ RowsOK(k)' /\ SingleOK(k)'
        /\ OneLive'
    BY <1>1, QuietKept
  <1>3. TypeOK' /\ \A p \in Seat : SeatOK(p)'
    BY DEF LiveInv, TypeOK, SeatOK, rows, history, Exists
  <1>4. QED BY <1>2, <1>3 DEF LiveInv

LEMMA AssertCanViewKeeps ==
  ASSUME LiveInv, NEW r \in Req, AssertCanView(r)
  PROVE  LiveInv'
  <1>. DEFINE next == [join |-> "find", like |-> "heart", requestJoin |-> "ask", subscribe |-> "room"]
  <1>1. TypeOK /\ LocalOK(r) /\ req[r].at = "view"
    BY DEF LiveInv, AssertCanView, At
  <1>2. PICK l : l = IF req[r].user \in may THEN next[req[r].op] ELSE "end"
    OBVIOUS
  <1>3. l \in {"find", "heart", "ask", "room", "end"} /\ (l = "find" <=> req[r].op = "join" /\ l # "end")
    BY <1>1, <1>2 DEF LocalOK
  <1>4. Goto(r, l)
    BY <1>2 DEF AssertCanView
  <1>5. /\ req' \in [Req -> Request]
        /\ req'[r].at = l /\ req'[r].op = req[r].op /\ req'[r].live = req[r].live /\ req'[r].user = req[r].user
        /\ req'[r].over = req[r].over
        /\ \A q \in Req \ {r} : Same(q)
    BY <1>1, <1>3, <1>4, GotoIs
  <1>6. LocalOK(r)'
    BY <1>1, <1>3, <1>5 DEF LocalOK, AssertCanView, rows, IsLive, Exists
  <1>7. QED BY <1>1, <1>3, <1>5, <1>6, StepKeeps DEF AssertCanView, Counting

LEMMA JoinFindKeeps ==
  ASSUME LiveInv, NEW r \in Req, JoinFind(r)
  PROVE  LiveInv'
  <1>1. TypeOK /\ LocalOK(r) /\ req[r].at = "find"
    BY DEF LiveInv, JoinFind, At
  <1>2. PICK l : l = IF Watches(req[r].live, req[r].user) = {} THEN "insert" ELSE "count"
    OBVIOUS
  <1>3. l \in {"insert", "count"} /\ (l = "insert" => Watches(req[r].live, req[r].user) = {})
    BY <1>2
  <1>4. Goto(r, l)
    BY <1>2 DEF JoinFind, Goto
  <1>5. /\ req' \in [Req -> Request]
        /\ req'[r].at = l /\ req'[r].op = req[r].op /\ req'[r].live = req[r].live /\ req'[r].user = req[r].user
        /\ req'[r].over = req[r].over
        /\ \A q \in Req \ {r} : Same(q)
    BY <1>1, <1>3, <1>4, GotoIs
  <1>6. Watches(req[r].live, req[r].user)' = Watches(req[r].live, req[r].user)
    BY <1>5 DEF JoinFind, rows, Watches, Watching, RowsOf
  <1>7. LocalOK(r)'
    BY <1>1, <1>3, <1>5, <1>6 DEF LocalOK, JoinFind, rows, IsLive, Exists
  <1>8. QED BY <1>1, <1>3, <1>5, <1>7, StepKeeps DEF JoinFind, Counting

\* What is open is among what there has been.
LEMMA WatchingIsFinite ==
  ASSUME LiveInv, NEW l \in Stream
  PROVE  /\ IsFiniteSet(RowsOf(l)) /\ IsFiniteSet(Watching(l))
         /\ Cardinality(RowsOf(l)) \in Nat /\ Cardinality(Watching(l)) \in Nat
         /\ Cardinality(Watching(l)) <= Cardinality(RowsOf(l))
  <1>1. IsFiniteSet(RowsOf(l)) /\ Watching(l) \subseteq RowsOf(l)
    BY DEF LiveInv, RowsOK, Watching
  <1>2. QED BY <1>1, FS_Subset, FS_CardinalityType

LEMMA RefreshCountKeeps ==
  ASSUME LiveInv, NEW r \in Req, RefreshCount(r)
  PROVE  LiveInv'
  <1>1. TypeOK /\ LocalOK(r) /\ req[r] \in Request /\ req[r].at = "count" /\ req[r].live \in Stream
    BY DEF LiveInv, LocalOK, RefreshCount, At, TypeOK
  <1>2. PICK n : n = Cardinality(Watching(req[r].live))
    OBVIOUS
  <1>3. n \in Nat /\ n <= Cardinality(RowsOf(req[r].live))
    BY <1>1, <1>2, WatchingIsFinite
  <1>4. PICK x : x = [req[r] EXCEPT !.at = "peak", !.count = n]
    OBVIOUS
  <1>5. /\ x \in Request /\ x.at = "peak" /\ x.live = req[r].live /\ x.count = n /\ x.user = req[r].user
    BY <1>1, <1>3, <1>4 DEF Request
  <1>6. req' \in [Req -> Request] /\ req'[r] = x /\ \A q \in Req \ {r} : Same(q)
    <2>1. Become(r, x)
      BY <1>2, <1>4 DEF RefreshCount
    <2>2. QED BY <1>1, <1>5, <2>1, BecomeIs
  <1>7. n <= Cardinality(RowsOf(req[r].live))'
    <2>1. PICK R : R = RowsOf(req[r].live)
      OBVIOUS
    <2>2. RowsOf(req[r].live)' = R
      BY <1>5, <1>6, <2>1 DEF RefreshCount, rows, RowsOf
    <2>3. Cardinality(RowsOf(req[r].live)') = Cardinality(R)
      BY <2>2
    <2>4. QED BY <1>3, <2>1, <2>3
  <1>8. LocalOK(r)'
    BY <1>1, <1>5, <1>6, <1>7 DEF LocalOK, RefreshCount, rows, Exists
  <1>9. QED BY <1>1, <1>5, <1>6, <1>8, StepKeeps DEF RefreshCount, Counting

LEMMA RefreshPeakKeeps ==
  ASSUME LiveInv, NEW r \in Req, RefreshPeak(r)
  PROVE  LiveInv'
  <1>1. TypeOK /\ LocalOK(r) /\ req[r] \in Request /\ req[r].at = "peak" /\ req[r].live \in Stream
    BY DEF LiveInv, LocalOK, RefreshPeak, At, TypeOK
  <1>2. PICK n : n = live[req[r].live].peakViewers
    OBVIOUS
  <1>3. n \in Nat /\ n <= Cardinality(RowsOf(req[r].live)) /\ req[r].count <= Cardinality(RowsOf(req[r].live))
    BY <1>1, <1>2 DEF LiveInv, RowsOK, LocalOK, TypeOK, LiveRow
  <1>4. PICK x : x = [req[r] EXCEPT !.at = "write", !.peak = n]
    OBVIOUS
  <1>5. /\ x \in Request /\ x.at = "write" /\ x.live = req[r].live /\ x.count = req[r].count /\ x.peak = n
        /\ x.user = req[r].user
    BY <1>1, <1>3, <1>4 DEF Request
  <1>6. req' \in [Req -> Request] /\ req'[r] = x /\ \A q \in Req \ {r} : Same(q)
    <2>1. Become(r, x)
      BY <1>2, <1>4 DEF RefreshPeak
    <2>2. QED BY <1>1, <1>5, <2>1, BecomeIs
  <1>7. n <= Cardinality(RowsOf(req[r].live))' /\ req[r].count <= Cardinality(RowsOf(req[r].live))'
    <2>1. PICK R : R = RowsOf(req[r].live)
      OBVIOUS
    <2>2. RowsOf(req[r].live)' = R
      BY <1>5, <1>6, <2>1 DEF RefreshPeak, rows, RowsOf
    <2>3. Cardinality(RowsOf(req[r].live)') = Cardinality(R)
      BY <2>2
    <2>4. QED BY <1>3, <2>1, <2>3
  <1>8. LocalOK(r)'
    BY <1>1, <1>5, <1>6, <1>7 DEF LocalOK, RefreshPeak, rows, Exists
  <1>9. QED BY <1>1, <1>5, <1>6, <1>8, StepKeeps DEF RefreshPeak, Counting

\* A handler ends, or goes on to the count, and the rows of the streams stay as they are.
LEMMA GotoKeeps ==
  ASSUME LiveInv, NEW r \in Req, NEW l \in {"count", "end"}, Goto(r, l),
         UNCHANGED <<live, viewer, hearts, twin, old, broken>>,
         req[r].at \in Counting => l = "count", req[r].at \notin {"total", "likes"},
         l = "count" => req[r].at = "kickGuest"
  PROVE  /\ req' \in [Req -> Request]
         /\ \A q \in Req : LocalOK(q)'
         /\ \A k \in Stream : CountOK(k)' /\ TotalsOK(k)' /\ RowsOK(k)' /\ SingleOK(k)'
         /\ OneLive'
  <1>1. TypeOK /\ LocalOK(r)
    BY DEF LiveInv
  <1>2. /\ req' \in [Req -> Request]
        /\ req'[r].at = l /\ req'[r].live = req[r].live
        /\ \A q \in Req \ {r} : Same(q)
    BY <1>1, GotoIs
  <1>3. LocalOK(r)'
    BY <1>1, <1>2 DEF LocalOK, Exists
  <1>4. QED BY <1>1, <1>2, <1>3, QuietKept DEF Counting

LEMMA SubscribeKeeps ==
  ASSUME LiveInv, NEW r \in Req, Subscribe(r)
  PROVE  LiveInv'
  <1>1. TypeOK /\ LocalOK(r) /\ req[r].at = "room" /\ req[r].live \in Stream
    BY DEF LiveInv, LocalOK, Subscribe, At
  <1>2. /\ req' \in [Req -> Request]
        /\ \A q \in Req : LocalOK(q)'
        /\ \A k \in Stream : CountOK(k)' /\ TotalsOK(k)' /\ RowsOK(k)' /\ SingleOK(k)'
        /\ OneLive'
    BY <1>1, GotoKeeps DEF Subscribe, history, Counting
  <1>3. room' \subseteq Seat
    BY <1>1 DEF Subscribe, TypeOK, LocalOK, Seat
  <1>4. TypeOK' /\ \A p \in Seat : SeatOK(p)'
    BY <1>1, <1>2, <1>3 DEF LiveInv, TypeOK, SeatOK, Subscribe, history, Exists
  <1>5. QED BY <1>2, <1>4 DEF LiveInv

LEMMA UnsubscribeKeeps ==
  ASSUME LiveInv, NEW r \in Req, Unsubscribe(r)
  PROVE  LiveInv'
  <1>1. TypeOK /\ req[r].at = "start" /\ room' \subseteq room
    BY DEF LiveInv, Unsubscribe, At
  <1>2. /\ req' \in [Req -> Request]
        /\ \A q \in Req : LocalOK(q)'
        /\ \A k \in Stream : CountOK(k)' /\ TotalsOK(k)' /\ RowsOK(k)' /\ SingleOK(k)'
        /\ OneLive'
    BY <1>1, GotoKeeps DEF Unsubscribe, history, Counting
  <1>3. TypeOK' /\ \A p \in Seat : SeatOK(p)'
    BY <1>1, <1>2 DEF LiveInv, TypeOK, SeatOK, Unsubscribe, history, Exists
  <1>4. QED BY <1>2, <1>3 DEF LiveInv

\* The seat of a handler that asks or decides.
LEMMA SeatIs ==
  ASSUME LiveInv, NEW r \in Req, req[r].at \in {"ask", "accept", "decline", "kickGuest"}
  PROVE  <<req[r].live, req[r].user>> \in Seat /\ Exists(<<req[r].live, req[r].user>>[1])
  BY DEF LiveInv, LocalOK, Seat

LEMMA RequestJoinKeeps ==
  ASSUME LiveInv, NEW r \in Req, RequestJoin(r)
  PROVE  LiveInv'
  <1>1. TypeOK /\ req[r].at = "ask" /\ \A q \in Seat : SeatOK(q)
    BY DEF LiveInv, RequestJoin, At
  <1>2. PICK p \in Seat : p = <<req[r].live, req[r].user>> /\ Exists(p[1])
    BY <1>1, SeatIs
  <1>3. /\ req' \in [Req -> Request]
        /\ \A q \in Req : LocalOK(q)'
        /\ \A k \in Stream : CountOK(k)' /\ TotalsOK(k)' /\ RowsOK(k)' /\ SingleOK(k)'
        /\ OneLive'
    BY <1>1, GotoKeeps DEF RequestJoin, Counting
  <1>4. /\ ask' = [ask EXCEPT ![p] = "PENDING"] /\ guest' = guest
        /\ again' = IF guest[p] = "in" THEN again \cup {p} ELSE again \ {p}
    BY <1>2 DEF RequestJoin
  <1>5. TypeOK'
    BY <1>1, <1>3, <1>4 DEF TypeOK, RequestJoin, JoinStatus
  <1>6. ASSUME NEW q \in Seat PROVE SeatOK(q)'
    BY <1>1, <1>2, <1>4 DEF TypeOK, SeatOK, RequestJoin, Exists
  <1>7. QED BY <1>3, <1>5, <1>6 DEF LiveInv

LEMMA AcceptKeeps ==
  ASSUME LiveInv, NEW r \in Req, Accept(r)
  PROVE  LiveInv'
  <1>1. TypeOK /\ req[r].at = "accept" /\ \A q \in Seat : SeatOK(q)
    BY DEF LiveInv, Accept, At
  <1>2. PICK p \in Seat : p = <<req[r].live, req[r].user>> /\ Exists(p[1])
    BY <1>1, SeatIs
  <1>3. /\ req' \in [Req -> Request]
        /\ \A q \in Req : LocalOK(q)'
        /\ \A k \in Stream : CountOK(k)' /\ TotalsOK(k)' /\ RowsOK(k)' /\ SingleOK(k)'
        /\ OneLive'
    BY <1>1, GotoKeeps DEF Accept, Counting
  <1>4. /\ ask' = [ask EXCEPT ![p] = "ACCEPTED"] /\ guest' = [guest EXCEPT ![p] = "in"]
        /\ again' = IF ask[p] # "PENDING" THEN again \cup {p} ELSE again
    BY <1>2 DEF Accept, Decide
  <1>5. TypeOK'
    BY <1>1, <1>3, <1>4 DEF TypeOK, Accept, JoinStatus
  <1>6. ASSUME NEW q \in Seat PROVE SeatOK(q)'
    BY <1>1, <1>2, <1>4 DEF TypeOK, SeatOK, Accept, Exists
  <1>7. QED BY <1>3, <1>5, <1>6 DEF LiveInv

LEMMA DeclineKeeps ==
  ASSUME LiveInv, NEW r \in Req, Decline(r)
  PROVE  LiveInv'
  <1>1. TypeOK /\ req[r].at = "decline" /\ \A q \in Seat : SeatOK(q)
    BY DEF LiveInv, Decline, At
  <1>2. PICK p \in Seat : p = <<req[r].live, req[r].user>> /\ Exists(p[1])
    BY <1>1, SeatIs
  <1>3. /\ req' \in [Req -> Request]
        /\ \A q \in Req : LocalOK(q)'
        /\ \A k \in Stream : CountOK(k)' /\ TotalsOK(k)' /\ RowsOK(k)' /\ SingleOK(k)'
        /\ OneLive'
    BY <1>1, GotoKeeps DEF Decline, Counting
  <1>4. /\ ask' = [ask EXCEPT ![p] = "DECLINED"] /\ guest' = guest
        /\ again' = IF ask[p] # "PENDING" THEN again \cup {p} ELSE again
    BY <1>2 DEF Decline, Decide
  <1>5. TypeOK'
    BY <1>1, <1>3, <1>4 DEF TypeOK, Decline, JoinStatus
  <1>6. ASSUME NEW q \in Seat PROVE SeatOK(q)'
    <2>1. ask[p] \in JoinStatus /\ ask'[q] = IF q = p THEN "DECLINED" ELSE ask[q]
      BY <1>1, <1>4 DEF TypeOK
    <2>2. CASE q = p
      <3>1. ask[p] = "none" => again' = again \cup {p}
        BY <1>4
      <3>2. guest[p] = "in" => p \in again'
        BY <1>1, <1>4, <2>1 DEF SeatOK, JoinStatus
      <3>3. QED BY <1>1, <1>2, <1>4, <2>1, <2>2, <3>2 DEF SeatOK, Decline, Exists
    <2>3. CASE q # p
      BY <1>1, <1>2, <1>4, <2>1, <2>3 DEF SeatOK, Decline, Exists
    <2>4. QED BY <2>2, <2>3
  <1>7. QED BY <1>3, <1>5, <1>6 DEF LiveInv

LEMMA KickGuestKeeps ==
  ASSUME LiveInv, NEW r \in Req, KickGuest(r)
  PROVE  LiveInv'
  <1>1. TypeOK /\ req[r].at = "kickGuest" /\ \A q \in Seat : SeatOK(q)
    BY DEF LiveInv, KickGuest, At
  <1>2. PICK p \in Seat : p = <<req[r].live, req[r].user>> /\ Exists(p[1])
    BY <1>1, SeatIs
  <1>3. /\ req' \in [Req -> Request]
        /\ \A q \in Req : LocalOK(q)'
        /\ \A k \in Stream : CountOK(k)' /\ TotalsOK(k)' /\ RowsOK(k)' /\ SingleOK(k)'
        /\ OneLive'
    BY <1>1, GotoKeeps DEF KickGuest, Counting, history
  <1>4. /\ ask' = ask /\ again' = again
        /\ guest' = [guest EXCEPT ![p] = IF guest[p] = "in" THEN "left" ELSE guest[p]]
    BY <1>2 DEF KickGuest, history
  <1>5. TypeOK'
    BY <1>1, <1>3, <1>4 DEF TypeOK, KickGuest, history
  <1>6. ASSUME NEW q \in Seat PROVE SeatOK(q)'
    BY <1>1, <1>2, <1>4 DEF TypeOK, SeatOK, KickGuest, Exists
  <1>7. QED BY <1>3, <1>5, <1>6 DEF LiveInv

LEMMA FailKeeps ==
  ASSUME LiveInv, NEW r \in Req, Fail(r)
  PROVE  LiveInv'
  <1>1. TypeOK /\ LocalOK(r) /\ req[r] \in Request
    BY DEF LiveInv, TypeOK
  <1>2. /\ req' \in [Req -> Request]
        /\ req'[r].at = "end" /\ req'[r].live = req[r].live
        /\ \A q \in Req \ {r} : Same(q)
    BY <1>1, GotoIs DEF Fail
  <1>3. LocalOK(r)'
    BY <1>1, <1>2 DEF LocalOK, Exists
  <1>4. broken \subseteq broken' /\ broken' \subseteq Stream /\ (req[r].live \in Stream => req[r].live \in broken')
    BY <1>1, IdleIs DEF Fail, TypeOK, Request
  <1>5. req[r].at \in Counting \cup {"total", "likes"} => req[r].live \in broken'
    BY <1>1, <1>4 DEF LocalOK, Counting
  <1>6. /\ \A q \in Req : LocalOK(q)'
        /\ \A k \in Stream : CountOK(k)' /\ TotalsOK(k)' /\ RowsOK(k)' /\ SingleOK(k)'
        /\ OneLive'
    BY <1>1, <1>2, <1>3, <1>4, <1>5, QuietKept DEF Fail, rows
  <1>7. TypeOK' /\ \A p \in Seat : SeatOK(p)'
    BY <1>1, <1>2, <1>4 DEF LiveInv, TypeOK, SeatOK, Fail, rows, Exists
  <1>8. QED BY <1>6, <1>7 DEF LiveInv

LEMMA AccessKeeps ==
  ASSUME LiveInv, Access
  PROVE  LiveInv'
  <1>1. UNCHANGED <<live, viewer, ask, guest, hearts, room, req, twin, old, broken, again>>
    BY DEF Access, rows, history
  <1>2. TypeOK' /\ OneLive' /\ \A p \in Seat : SeatOK(p)'
    BY <1>1 DEF LiveInv, Access, TypeOK, OneLive, SeatOK, IsLive, Exists
  <1>3. \A r \in Req : LocalOK(r)'
    BY <1>1 DEF LiveInv, LocalOK, Exists, IsLive, RowsOf, Watching, Watches
  <1>4. ASSUME NEW l \in Stream PROVE CountOK(l)' /\ TotalsOK(l)' /\ RowsOK(l)' /\ SingleOK(l)'
    <2>1. RowsOf(l)' = RowsOf(l) /\ Watching(l)' = Watching(l) /\ \A places : On(l, places)' = On(l, places)
      BY <1>1 DEF RowsOf, Watching, On
    <2>2. CountOK(l)'
      BY <1>1, <2>1 DEF LiveInv, CountOK
    <2>3. TotalsOK(l)'
      BY <1>1, <2>1 DEF LiveInv, TotalsOK
    <2>4. RowsOK(l)'
      BY <1>1, <2>1 DEF LiveInv, RowsOK, Exists
    <2>5. SingleOK(l)'
      BY <1>1, <2>1 DEF LiveInv, SingleOK
    <2>6. QED BY <2>2, <2>3, <2>4, <2>5
  <1>5. QED BY <1>2, <1>3, <1>4 DEF LiveInv

-----------------------------------------------------------------------------
(***************************************************************************)
(* The actions that write the rows of the streams.                         *)
(***************************************************************************)

\* Rows of a stream are closed by a handler that goes on to count them.
LEMMA CloseKeeps ==
  ASSUME LiveInv, NEW r \in Req, NEW l \in Stream, NEW S, S \subseteq Watching(l), Leave(S),
         UNCHANGED <<live, ask, guest, hearts, room, may, history>>,
         req' \in [Req -> Request], \A q \in Req \ {r} : Same(q), LocalOK(r)',
         req[r].at \in {"start", "endViewers"},
         req'[r].live = l, req'[r].at \in Counting \ {"total"}
  PROVE  LiveInv'
  <1>1. TypeOK
    BY DEF LiveInv
  <1>2. /\ viewer' \in [Row -> ViewerRow]
        /\ \A v \in Row : /\ viewer'[v].live = viewer[v].live /\ viewer'[v].user = viewer[v].user
                          /\ viewer[v].left => viewer'[v].left
        /\ \A k : RowsOf(k)' = RowsOf(k) /\ Watching(k)' = Watching(k) \ S
    BY <1>1, LeaveIs
  <1>3. ASSUME NEW q \in Req \ {r} PROVE LocalOK(q)'
    <2>1. LocalOK(q) /\ \A k \in Stream : IsFiniteSet(RowsOf(k))
      BY DEF LiveInv, RowsOK
    <2>2. /\ \A k \in Stream : Exists(k) => Exists(k)'
          /\ \A k \in Stream : IsFiniteSet(RowsOf(k)') /\ RowsOf(k) \subseteq RowsOf(k)'
          /\ \A k \in Stream : IsLive(k)' => IsLive(k)
          /\ req[q].live \in Stream /\ IsLive(req[q].live) => IsLive(req[q].live)'
      BY <1>2, <2>1 DEF Exists, IsLive, Same
    <2>3. /\ Watches(req[q].live, req[q].user)' \subseteq Watches(req[q].live, req[q].user)
          /\ Watching(req[q].live)' \subseteq Watching(req[q].live) \cup twin'
      BY <1>2 DEF Same, Watches, Watching, RowsOf
    <2>4. twin \subseteq twin'
      BY DEF history
    <2>5. QED BY <1>1, <2>1, <2>2, <2>3, <2>4, LocalKept
  <1>4. ASSUME NEW k \in Stream PROVE CountOK(k)' /\ TotalsOK(k)' /\ RowsOK(k)' /\ SingleOK(k)'
    <2>1. CountOK(k) /\ TotalsOK(k) /\ RowsOK(k) /\ SingleOK(k)
      BY DEF LiveInv
    <2>2. k # l => Watching(k)' = Watching(k)
      <3>1. k # l => Watching(k) \ S = Watching(k)
        BY DEF Watching, RowsOf
      <3>2. QED BY <1>2, <3>1
    <2>3. CountOK(k)'
      <3>1. k \in old \cup broken => k \in old' \cup broken'
        BY DEF history
      <3>2. ~(req[r].live = k /\ req[r].at \in Counting)
        BY DEF Counting
      <3>3. QED BY <1>1, <2>1, <2>2, <3>1, <3>2, CountKept
    <2>4. TotalsOK(k)'
      BY <1>1, <1>2, <2>1, TotalsKept DEF history, Counting
    <2>5. RowsOK(k)'
      BY <1>2, <2>1, RowsKept
    <2>6. SingleOK(k)'
      <3>1. \A v \in Watching(k)' : viewer'[v].user = viewer[v].user
        BY <1>2 DEF Watching, RowsOf
      <3>2. Watching(k)' \subseteq Watching(k)
        BY <1>2
      <3>3. QED BY <2>1, <3>1, <3>2, SingleKept DEF history
    <2>7. QED BY <2>3, <2>4, <2>5, <2>6
  <1>5. TypeOK' /\ OneLive' /\ \A p \in Seat : SeatOK(p)'
    BY <1>2 DEF LiveInv, TypeOK, OneLive, SeatOK, history, Exists, IsLive
  <1>6. QED BY <1>3, <1>4, <1>5 DEF LiveInv

LEMMA EndViewersKeeps ==
  ASSUME LiveInv, NEW r \in Req, EndViewers(r)
  PROVE  LiveInv'
  <1>1. TypeOK /\ LocalOK(r) /\ req[r].at = "endViewers" /\ req[r].live \in Stream /\ Exists(req[r].live)
    BY DEF LiveInv, LocalOK, EndViewers, At
  <1>2. PICK l, S : l = req[r].live /\ S = Watching(l)
    OBVIOUS
  <1>3. Leave(S) /\ UNCHANGED <<live, ask, guest, hearts, room, may, history>>
    BY <1>2 DEF EndViewers
  <1>4. /\ req' \in [Req -> Request]
        /\ req'[r].at = "endRow" /\ req'[r].live = l
        /\ \A q \in Req \ {r} : Same(q)
    BY <1>1, <1>2, OvertakeIs DEF EndViewers
  <1>5. Watching(req[r].live)' = {}
    <2>1. Watching(l)' = Watching(l) \ S
      BY <1>1, <1>3, LeaveIs
    <2>2. Watching(req[r].live)' = Watching(l)'
      BY <1>4 DEF Watching, RowsOf
    <2>3. QED BY <1>2, <2>1, <2>2
  <1>6. LocalOK(r)'
    BY <1>1, <1>2, <1>3, <1>4, <1>5 DEF LocalOK, Exists
  <1>7. l \in Stream /\ S \subseteq Watching(l)
    BY <1>1, <1>2
  <1>8. QED BY <1>1, <1>3, <1>4, <1>6, <1>7, CloseKeeps DEF Counting

\* leave and kick close the rows of one viewer.
LEMMA LeaveKeeps ==
  ASSUME LiveInv, NEW r \in Req, At(r, "start"), NEW l \in Stream, NEW u \in User, Exists(l),
         NEW at \in {"count", "kickGuest"}, NEW op \in {"none", "host"},
         Leave(Watches(l, u)), Become(r, Ask(at, op, l, u)),
         UNCHANGED <<live, ask, guest, hearts, room, may, history>>
  PROVE  LiveInv'
  <1>1. TypeOK /\ req[r].at = "start"
    BY DEF LiveInv, At
  <1>2. PICK x : x = Ask(at, op, l, u)
    OBVIOUS
  <1>3. x \in Request /\ x.at = at /\ x.op = op /\ x.live = l /\ x.user = u
    BY <1>2, IdleIs DEF Ask, Idle, Request
  <1>4. req' \in [Req -> Request] /\ req'[r] = x /\ \A q \in Req \ {r} : Same(q)
    BY <1>1, <1>2, <1>3, BecomeIs
  <1>5. LocalOK(r)'
    BY <1>3, <1>4 DEF LocalOK, Exists
  <1>6. PICK S : S = Watches(l, u)
    OBVIOUS
  <1>7. Leave(S) /\ S \subseteq Watching(l)
    BY <1>6 DEF Watches
  <1>8. QED BY <1>1, <1>3, <1>4, <1>5, <1>7, CloseKeeps DEF Counting

LEMMA LeaveRowsKeeps ==
  ASSUME LiveInv, NEW r \in Req, LeaveRows(r)
  PROVE  LiveInv'
  <1>1. PICK l \in Stream, u \in User : Exists(l) /\ Leave(Watches(l, u)) /\ Become(r, Ask("count", "none", l, u))
    BY DEF LeaveRows
  <1>2. QED BY <1>1, LeaveKeeps DEF LeaveRows

LEMMA KickViewerKeeps ==
  ASSUME LiveInv, NEW r \in Req, KickViewer(r)
  PROVE  LiveInv'
  <1>1. PICK p \in Seat : /\ Exists(p[1]) /\ Leave(Watches(p[1], p[2]))
                          /\ Become(r, Ask("kickGuest", "host", p[1], p[2]))
    BY DEF KickViewer
  <1>2. p[1] \in Stream /\ p[2] \in User
    BY DEF Seat
  <1>3. QED BY <1>1, <1>2, LeaveKeeps DEF KickViewer

\* The row of a stream is written; who watches, and the status of every stream, stay.
LEMMA WriteKeeps ==
  ASSUME LiveInv, NEW r \in Req, NEW l \in Stream, Exists(l), NEW x \in LiveRow, NEW h \in Nat,
         live' = [live EXCEPT ![l] = x], hearts' = [hearts EXCEPT ![l] = h], x.status = live[l].status,
         UNCHANGED <<viewer, ask, guest, room, may, twin, broken, again>>,
         old' \subseteq Stream, \A k \in Stream \ {l} : k \in old => k \in old',
         req' \in [Req -> Request], \A q \in Req \ {r} : Same(q), LocalOK(r)',
         req[r].live = l \/ req[r].at \notin Counting \cup {"likes"},
         req'[r].live = l \/ req'[r].at \notin Counting \cup {"likes"},
         CountOK(l)', TotalsOK(l)', x.viewersCount <= x.peakViewers, x.peakViewers <= Cardinality(RowsOf(l))
  PROVE  LiveInv'
  <1>1. TypeOK /\ live \in [Stream -> LiveRow] /\ hearts \in [Stream -> Nat]
    BY DEF LiveInv, TypeOK
  <1>2. \A k \in Stream : /\ live'[k] = IF k = l THEN x ELSE live[k]
                          /\ hearts'[k] = IF k = l THEN h ELSE hearts[k]
    BY <1>1
  <1>3. \A k : RowsOf(k)' = RowsOf(k) /\ Watching(k)' = Watching(k)
    BY DEF RowsOf, Watching
  <1>4. \A k \in Stream : live'[k].status = live[k].status
    BY <1>2
  <1>5. \A q \in Req : LocalOK(q)'
    BY <1>4, OthersKept
  <1>6. ASSUME NEW k \in Stream \ {l} PROVE CountOK(k)' /\ TotalsOK(k)' /\ RowsOK(k)' /\ SingleOK(k)'
    <2>1. live'[k] = live[k] /\ hearts'[k] = hearts[k]
      BY <1>2
    <2>2. /\ req[r].live # k \/ req[r].at \notin Counting \cup {"likes"}
          /\ req'[r].live # k \/ req'[r].at \notin Counting \cup {"likes"}
      OBVIOUS
    <2>3. QED BY <1>3, <2>1, <2>2, OtherStream
  <1>7. RowsOK(l)'
    <2>1. PICK R : R = RowsOf(l)
      OBVIOUS
    <2>2. IsFiniteSet(R) /\ x.peakViewers <= Cardinality(R)
      BY <2>1 DEF LiveInv, RowsOK
    <2>3. RowsOf(l)' = R /\ live'[l] = x
      BY <1>2, <1>3, <2>1
    <2>4. IsFiniteSet(RowsOf(l)') /\ Cardinality(RowsOf(l)') = Cardinality(R)
      BY <2>2, <2>3
    <2>5. Exists(l)'
      BY <1>4 DEF Exists
    <2>6. QED BY <2>2, <2>3, <2>4, <2>5 DEF RowsOK
  <1>8. SingleOK(l)'
    BY <1>3, <1>4, SingleKept DEF LiveInv
  <1>9. TypeOK' /\ OneLive' /\ \A p \in Seat : SeatOK(p)'
    <2>1. TypeOK'
      BY <1>1 DEF TypeOK
    <2>2. OneLive'
      BY <1>4 DEF LiveInv, OneLive, IsLive
    <2>3. ASSUME NEW p \in Seat PROVE SeatOK(p)'
      BY <1>4 DEF LiveInv, SeatOK, Exists, Seat
    <2>4. QED BY <2>1, <2>2, <2>3
  <1>10. QED BY <1>5, <1>6, <1>7, <1>8, <1>9 DEF LiveInv

LEMMA SwitchKeeps ==
  ASSUME LiveInv, NEW r \in Req, Switch(r)
  PROVE  LiveInv'
  <1>1. TypeOK /\ req[r].at = "start" /\ req[r] \in Request
    BY DEF LiveInv, TypeOK, Switch, At
  <1>2. PICK l \in Stream, what \in {"camera", "audio"} :
          /\ Exists(l)
          /\ \E on \in {live[l].on \cup {what}, live[l].on \ {what}} : live' = [live EXCEPT ![l].on = on]
    BY DEF Switch
  <1>3. PICK on : on \in {live[l].on \cup {what}, live[l].on \ {what}} /\ live' = [live EXCEPT ![l].on = on]
    BY <1>2
  <1>4. live[l] \in LiveRow /\ on \in SUBSET {"camera", "audio"} /\ live \in [Stream -> LiveRow]
    BY <1>1, <1>3 DEF TypeOK, LiveRow
  <1>5. PICK x : x = [live[l] EXCEPT !.on = on]
    OBVIOUS
  <1>6. /\ x \in LiveRow /\ x.status = live[l].status /\ x.viewersCount = live[l].viewersCount
        /\ x.peakViewers = live[l].peakViewers /\ x.totalViewers = live[l].totalViewers
        /\ x.likesCount = live[l].likesCount
    BY <1>4, <1>5 DEF LiveRow
  <1>7. live' = [live EXCEPT ![l] = x] /\ live'[l] = x
    BY <1>3, <1>4, <1>5
  <1>8. /\ req' \in [Req -> Request]
        /\ req'[r].at = "end" /\ req'[r].live = req[r].live
        /\ \A q \in Req \ {r} : Same(q)
    BY <1>1, GotoIs DEF Switch
  <1>9. LocalOK(r)'
    BY <1>8 DEF LocalOK
  <1>10. RowsOf(l)' = RowsOf(l) /\ Watching(l)' = Watching(l) /\ hearts'[l] = hearts[l] /\ broken' = broken
    BY DEF RowsOf, Watching, Switch, history
  <1>11. CountOK(l)' /\ TotalsOK(l)'
    <2>1. CountOK(l) /\ TotalsOK(l)
      BY DEF LiveInv
    <2>2. CountOK(l)'
      <3>1. l \in old \cup broken => l \in old' \cup broken'
        BY DEF Switch, history
      <3>2. QED BY <1>1, <1>6, <1>7, <1>8, <1>10, <2>1, <3>1, CountKept DEF Counting
    <2>3. TotalsOK(l)'
      BY <1>1, <1>6, <1>7, <1>8, <1>10, <2>1, TotalsKept
    <2>4. QED BY <2>2, <2>3
  <1>12. x.viewersCount <= x.peakViewers /\ x.peakViewers <= Cardinality(RowsOf(l))
    BY <1>6 DEF LiveInv, RowsOK
  <1>13. PICK h \in Nat : h = hearts[l] /\ hearts' = [hearts EXCEPT ![l] = h]
    BY <1>1 DEF TypeOK, Switch
  <1>14. /\ UNCHANGED <<viewer, ask, guest, room, may, twin, broken, again>>
         /\ old' \subseteq Stream /\ \A k \in Stream \ {l} : k \in old => k \in old'
    BY <1>1 DEF Switch, history, TypeOK
  <1>15. /\ req[r].live = l \/ req[r].at \notin Counting \cup {"likes"}
         /\ req'[r].live = l \/ req'[r].at \notin Counting \cup {"likes"}
    BY <1>1, <1>8 DEF Counting
  <1>16. QED BY <1>2, <1>6, <1>7, <1>8, <1>9, <1>11, <1>12, <1>13, <1>14, <1>15, WriteKeeps

LEMMA RefreshWriteKeeps ==
  ASSUME LiveInv, NEW r \in Req, RefreshWrite(r)
  PROVE  LiveInv'
  <1>1. TypeOK /\ LocalOK(r) /\ req[r] \in Request /\ req[r].at = "write"
    BY DEF LiveInv, TypeOK, RefreshWrite, At
  <1>2. PICK l \in Stream, n \in Nat, p \in Nat :
          l = req[r].live /\ n = req[r].count /\ p = IF n > req[r].peak THEN n ELSE req[r].peak
    BY <1>1 DEF LocalOK, Request
  <1>3. n <= p /\ p <= Cardinality(RowsOf(l)) /\ Exists(l)
    BY <1>1, <1>2 DEF LocalOK, Request
  <1>4. live[l] \in LiveRow /\ live \in [Stream -> LiveRow] /\ hearts \in [Stream -> Nat]
    BY <1>1 DEF TypeOK
  <1>5. PICK x : x = [live[l] EXCEPT !.viewersCount = n, !.peakViewers = p]
    OBVIOUS
  <1>6. /\ x \in LiveRow /\ x.status = live[l].status /\ x.viewersCount = n /\ x.peakViewers = p
        /\ x.totalViewers = live[l].totalViewers /\ x.likesCount = live[l].likesCount
    BY <1>4, <1>5 DEF LiveRow
  <1>7. live' = [live EXCEPT ![l] = x] /\ live'[l] = x
    BY <1>2, <1>4, <1>5 DEF RefreshWrite
  <1>8. /\ req' \in [Req -> Request]
        /\ req'[r].at = "end" /\ req'[r].live = req[r].live
        /\ \A q \in Req \ {r} : Same(q)
    BY <1>1, GotoIs DEF RefreshWrite
  <1>9. LocalOK(r)'
    BY <1>1, <1>2, <1>8 DEF LocalOK
  <1>10. RowsOf(l)' = RowsOf(l) /\ Watching(l)' = Watching(l) /\ hearts'[l] = hearts[l] /\ broken' = broken
    BY DEF RowsOf, Watching, RefreshWrite
  <1>11. old' = IF n = Cardinality(Watching(l)) THEN old \ {l} ELSE old \cup {l}
    BY <1>2 DEF RefreshWrite, Counted
  <1>12. CountOK(l)'
    <2>1. Cardinality(Watching(l)') = Cardinality(Watching(l))
      BY <1>10
    <2>2. QED BY <1>6, <1>7, <1>11, <2>1 DEF CountOK
  <1>13. TotalsOK(l)'
    BY <1>1, <1>6, <1>7, <1>8, <1>10, TotalsKept DEF LiveInv
  <1>14. PICK h \in Nat : h = hearts[l] /\ hearts' = [hearts EXCEPT ![l] = h]
    BY <1>4 DEF RefreshWrite
  <1>15. old' \subseteq Stream /\ \A k \in Stream \ {l} : k \in old => k \in old'
    BY <1>1, <1>11 DEF TypeOK
  <1>16. UNCHANGED <<viewer, ask, guest, room, may, twin, broken, again>>
    BY DEF RefreshWrite
  <1>17. req[r].live = l /\ req'[r].live = l
    BY <1>2, <1>8
  <1>18. x.viewersCount <= x.peakViewers /\ x.peakViewers <= Cardinality(RowsOf(l))
    BY <1>3, <1>6
  <1>19. QED BY <1>3, <1>6, <1>7, <1>8, <1>9, <1>12, <1>13, <1>14, <1>15, <1>16, <1>17, <1>18, WriteKeeps

\* Whoever was to write a sum and has done so, or is now to write it.
LEMMA OnCounts ==
  ASSUME TypeOK, NEW r \in Req, \A q \in Req \ {r} : Same(q), NEW l \in Stream, NEW place,
         IsFiniteSet(On(l, {place}))
  PROVE  /\ IsFiniteSet(On(l, {place})') /\ Cardinality(On(l, {place})) \in Nat
         /\ (req[r].live = l /\ req[r].at = place) /\ ~(req'[r].live = l /\ req'[r].at = place) =>
              Cardinality(On(l, {place})') = Cardinality(On(l, {place})) - 1
         /\ ~(req[r].live = l /\ req[r].at = place) /\ (req'[r].live = l /\ req'[r].at = place) =>
              Cardinality(On(l, {place})') = Cardinality(On(l, {place})) + 1
         /\ ~(req[r].live = l /\ req[r].at = place) /\ ~(req'[r].live = l /\ req'[r].at = place) =>
              On(l, {place})' = On(l, {place})
  <1>1. PICK S, T : S = On(l, {place}) /\ T = On(l, {place})'
    OBVIOUS
  <1>2. T = (S \ {r}) \cup {q \in {r} : req'[q].live = l /\ req'[q].at \in {place}}
    BY <1>1, OnIs
  <1>3. r \in S <=> req[r].live = l /\ req[r].at = place
    BY <1>1 DEF On
  <1>4. r \in T <=> req'[r].live = l /\ req'[r].at = place
    BY <1>2
  <1>5. T \ {r} = S \ {r}
    BY <1>2
  <1>6. IsFiniteSet(S) /\ Cardinality(S) \in Nat
    BY <1>1, FS_CardinalityType
  <1>7. r \in S /\ r \notin T => IsFiniteSet(T) /\ Cardinality(T) = Cardinality(S) - 1
    <2>1. r \in S /\ r \notin T => T = S \ {r}
      BY <1>5
    <2>2. QED BY <1>6, <2>1, FS_RemoveElement
  <1>8. r \notin S /\ r \in T => IsFiniteSet(T) /\ Cardinality(T) = Cardinality(S) + 1
    <2>1. r \notin S /\ r \in T => T = S \cup {r}
      BY <1>5
    <2>2. QED BY <1>6, <2>1, FS_AddElement
  <1>9. (r \in S <=> r \in T) => T = S
    BY <1>5
  <1>10. IsFiniteSet(T)
    BY <1>6, <1>7, <1>8, <1>9
  <1>11. QED BY <1>1, <1>3, <1>4, <1>6, <1>7, <1>8, <1>9, <1>10

LEMMA JoinTotalKeeps ==
  ASSUME LiveInv, NEW r \in Req, JoinTotal(r)
  PROVE  LiveInv'
  <1>1. TypeOK /\ LocalOK(r) /\ req[r] \in Request /\ req[r].at = "total"
    BY DEF LiveInv, TypeOK, JoinTotal, At
  <1>2. PICK l \in Stream : l = req[r].live
    BY <1>1 DEF LocalOK
  <1>3. Exists(l) /\ CountOK(l) /\ TotalsOK(l) /\ RowsOK(l)
    BY <1>1, <1>2 DEF LocalOK, LiveInv
  <1>4. live[l] \in LiveRow /\ live \in [Stream -> LiveRow] /\ hearts \in [Stream -> Nat]
    BY <1>1 DEF TypeOK
  <1>5. PICK x : x = [live[l] EXCEPT !.totalViewers = live[l].totalViewers + 1]
    OBVIOUS
  <1>6. /\ x \in LiveRow /\ x.status = live[l].status /\ x.viewersCount = live[l].viewersCount
        /\ x.peakViewers = live[l].peakViewers /\ x.totalViewers = live[l].totalViewers + 1
        /\ x.likesCount = live[l].likesCount
    BY <1>4, <1>5 DEF LiveRow
  <1>7. live' = [live EXCEPT ![l] = x] /\ live'[l] = x
    BY <1>2, <1>4, <1>5 DEF JoinTotal
  <1>8. /\ req' \in [Req -> Request]
        /\ req'[r].at = "count" /\ req'[r].live = req[r].live
        /\ \A q \in Req \ {r} : Same(q)
    BY <1>1, GotoIs DEF JoinTotal
  <1>9. LocalOK(r)'
    BY <1>1, <1>2, <1>3, <1>6, <1>7, <1>8 DEF LocalOK, Exists
  <1>10. RowsOf(l)' = RowsOf(l) /\ Watching(l)' = Watching(l) /\ hearts'[l] = hearts[l] /\ broken' = broken /\ old' = old
    BY DEF RowsOf, Watching, JoinTotal, history
  <1>11. CountOK(l)'
    BY <1>1, <1>2, <1>3, <1>8, <1>10, CountKept DEF Counting
  <1>12. TotalsOK(l)'
    <2>1. IsFiniteSet(On(l, {"total"})) /\ IsFiniteSet(On(l, {"likes"}))
      BY <1>3 DEF TotalsOK
    <2>2. /\ IsFiniteSet(On(l, {"total"})') /\ Cardinality(On(l, {"total"})) \in Nat
          /\ Cardinality(On(l, {"total"})') = Cardinality(On(l, {"total"})) - 1
      BY <1>1, <1>2, <1>8, <2>1, OnCounts
    <2>3. IsFiniteSet(On(l, {"likes"})') /\ On(l, {"likes"})' = On(l, {"likes"})
      BY <1>1, <1>2, <1>8, <2>1, OnCounts
    <2>4. Cardinality(On(l, {"likes"}))' = Cardinality(On(l, {"likes"})) /\ Cardinality(RowsOf(l))' = Cardinality(RowsOf(l))
      BY <1>10, <2>3
    <2>5. live[l].totalViewers \in Nat
      BY <1>4 DEF LiveRow
    <2>6. l \notin broken' => live'[l].totalViewers + Cardinality(On(l, {"total"}))' = Cardinality(RowsOf(l))'
      BY <1>3, <1>6, <1>7, <1>10, <2>2, <2>4, <2>5 DEF TotalsOK
    <2>7. l \notin broken' => live'[l].likesCount + Cardinality(On(l, {"likes"}))' = hearts'[l]
      BY <1>3, <1>6, <1>7, <1>10, <2>4 DEF TotalsOK
    <2>8. QED BY <2>2, <2>3, <2>6, <2>7 DEF TotalsOK
  <1>13. PICK h \in Nat : h = hearts[l] /\ hearts' = [hearts EXCEPT ![l] = h]
    BY <1>4 DEF JoinTotal
  <1>14. UNCHANGED <<viewer, ask, guest, room, may, twin, old, broken, again>> /\ old' \subseteq Stream
    BY <1>1 DEF JoinTotal, history, TypeOK
  <1>15. req[r].live = l /\ req'[r].live = l
    BY <1>2, <1>8
  <1>16. x.viewersCount <= x.peakViewers /\ x.peakViewers <= Cardinality(RowsOf(l))
    BY <1>3, <1>6 DEF RowsOK
  <1>17. QED BY <1>3, <1>6, <1>7, <1>8, <1>9, <1>11, <1>12, <1>13, <1>14, <1>15, <1>16, WriteKeeps

LEMMA LikeInsertKeeps ==
  ASSUME LiveInv, NEW r \in Req, LikeInsert(r)
  PROVE  LiveInv'
  <1>1. TypeOK /\ LocalOK(r) /\ req[r] \in Request /\ req[r].at = "heart"
    BY DEF LiveInv, TypeOK, LikeInsert, At
  <1>2. PICK l \in Stream : l = req[r].live
    BY <1>1 DEF LocalOK
  <1>3. Exists(l) /\ CountOK(l) /\ TotalsOK(l) /\ RowsOK(l)
    BY <1>1, <1>2 DEF LocalOK, LiveInv
  <1>4. live[l] \in LiveRow /\ live \in [Stream -> LiveRow] /\ hearts \in [Stream -> Nat]
    BY <1>1 DEF TypeOK
  <1>5. PICK x \in LiveRow : x = live[l]
    BY <1>4
  <1>6. live' = [live EXCEPT ![l] = x] /\ live'[l] = live[l]
    BY <1>4, <1>5 DEF LikeInsert
  <1>7. PICK h \in Nat : h = hearts[l] + 1
    BY <1>4
  <1>8. hearts' = [hearts EXCEPT ![l] = h] /\ hearts'[l] = h
    BY <1>2, <1>4, <1>7 DEF LikeInsert
  <1>9. /\ req' \in [Req -> Request]
        /\ req'[r].at = "likes" /\ req'[r].live = req[r].live
        /\ \A q \in Req \ {r} : Same(q)
    BY <1>1, GotoIs DEF LikeInsert
  <1>10. LocalOK(r)'
    BY <1>1, <1>2, <1>3, <1>6, <1>9 DEF LocalOK, Exists
  <1>11. RowsOf(l)' = RowsOf(l) /\ Watching(l)' = Watching(l) /\ broken' = broken /\ old' = old
    BY DEF RowsOf, Watching, LikeInsert, history
  <1>12. CountOK(l)'
    BY <1>1, <1>2, <1>3, <1>6, <1>9, <1>11, CountKept DEF Counting
  <1>13. TotalsOK(l)'
    <2>1. IsFiniteSet(On(l, {"total"})) /\ IsFiniteSet(On(l, {"likes"}))
      BY <1>3 DEF TotalsOK
    <2>2. /\ IsFiniteSet(On(l, {"likes"})') /\ Cardinality(On(l, {"likes"})) \in Nat
          /\ Cardinality(On(l, {"likes"})') = Cardinality(On(l, {"likes"})) + 1
      BY <1>1, <1>2, <1>9, <2>1, OnCounts
    <2>3. IsFiniteSet(On(l, {"total"})') /\ On(l, {"total"})' = On(l, {"total"})
      BY <1>1, <1>2, <1>9, <2>1, OnCounts
    <2>4. Cardinality(On(l, {"total"}))' = Cardinality(On(l, {"total"})) /\ Cardinality(RowsOf(l))' = Cardinality(RowsOf(l))
      BY <1>11, <2>3
    <2>5. live[l].likesCount \in Nat
      BY <1>4 DEF LiveRow
    <2>6. l \notin broken' => live'[l].likesCount + Cardinality(On(l, {"likes"}))' = hearts'[l]
      BY <1>3, <1>6, <1>7, <1>8, <1>11, <2>2, <2>5 DEF TotalsOK
    <2>7. l \notin broken' => live'[l].totalViewers + Cardinality(On(l, {"total"}))' = Cardinality(RowsOf(l))'
      BY <1>3, <1>6, <1>11, <2>4 DEF TotalsOK
    <2>8. QED BY <2>2, <2>3, <2>6, <2>7 DEF TotalsOK
  <1>14. UNCHANGED <<viewer, ask, guest, room, may, twin, old, broken, again>> /\ old' \subseteq Stream
    BY <1>1 DEF LikeInsert, history, TypeOK
  <1>15. req[r].live = l /\ req'[r].live = l
    BY <1>2, <1>9
  <1>16. x.viewersCount <= x.peakViewers /\ x.peakViewers <= Cardinality(RowsOf(l)) /\ x.status = live[l].status
    BY <1>3, <1>5 DEF RowsOK
  <1>17. QED BY <1>3, <1>6, <1>8, <1>9, <1>10, <1>12, <1>13, <1>14, <1>15, <1>16, WriteKeeps

LEMMA LikeCountKeeps ==
  ASSUME LiveInv, NEW r \in Req, LikeCount(r)
  PROVE  LiveInv'
  <1>1. TypeOK /\ LocalOK(r) /\ req[r] \in Request /\ req[r].at = "likes"
    BY DEF LiveInv, TypeOK, LikeCount, At
  <1>2. PICK l \in Stream : l = req[r].live
    BY <1>1 DEF LocalOK
  <1>3. Exists(l) /\ CountOK(l) /\ TotalsOK(l) /\ RowsOK(l)
    BY <1>1, <1>2 DEF LocalOK, LiveInv
  <1>4. live[l] \in LiveRow /\ live \in [Stream -> LiveRow] /\ hearts \in [Stream -> Nat]
    BY <1>1 DEF TypeOK
  <1>5. PICK x : x = [live[l] EXCEPT !.likesCount = live[l].likesCount + 1]
    OBVIOUS
  <1>6. /\ x \in LiveRow /\ x.status = live[l].status /\ x.viewersCount = live[l].viewersCount
        /\ x.peakViewers = live[l].peakViewers /\ x.totalViewers = live[l].totalViewers
        /\ x.likesCount = live[l].likesCount + 1
    BY <1>4, <1>5 DEF LiveRow
  <1>7. live' = [live EXCEPT ![l] = x] /\ live'[l] = x
    BY <1>2, <1>4, <1>5 DEF LikeCount
  <1>8. /\ req' \in [Req -> Request]
        /\ req'[r].at = "end" /\ req'[r].live = req[r].live
        /\ \A q \in Req \ {r} : Same(q)
    BY <1>1, GotoIs DEF LikeCount
  <1>9. LocalOK(r)'
    BY <1>8 DEF LocalOK
  <1>10. RowsOf(l)' = RowsOf(l) /\ Watching(l)' = Watching(l) /\ hearts'[l] = hearts[l] /\ broken' = broken /\ old' = old
    BY DEF RowsOf, Watching, LikeCount, history
  <1>11. CountOK(l)'
    BY <1>1, <1>2, <1>3, <1>6, <1>7, <1>8, <1>10, CountKept DEF Counting
  <1>12. TotalsOK(l)'
    <2>1. IsFiniteSet(On(l, {"total"})) /\ IsFiniteSet(On(l, {"likes"}))
      BY <1>3 DEF TotalsOK
    <2>2. /\ IsFiniteSet(On(l, {"likes"})') /\ Cardinality(On(l, {"likes"})) \in Nat
          /\ Cardinality(On(l, {"likes"})') = Cardinality(On(l, {"likes"})) - 1
      BY <1>1, <1>2, <1>8, <2>1, OnCounts
    <2>3. IsFiniteSet(On(l, {"total"})') /\ On(l, {"total"})' = On(l, {"total"})
      BY <1>1, <1>2, <1>8, <2>1, OnCounts
    <2>4. Cardinality(On(l, {"total"}))' = Cardinality(On(l, {"total"})) /\ Cardinality(RowsOf(l))' = Cardinality(RowsOf(l))
      BY <1>10, <2>3
    <2>5. live[l].likesCount \in Nat
      BY <1>4 DEF LiveRow
    <2>6. l \notin broken' => live'[l].likesCount + Cardinality(On(l, {"likes"}))' = hearts'[l]
      BY <1>3, <1>6, <1>7, <1>10, <2>2, <2>5 DEF TotalsOK
    <2>7. l \notin broken' => live'[l].totalViewers + Cardinality(On(l, {"total"}))' = Cardinality(RowsOf(l))'
      BY <1>3, <1>6, <1>7, <1>10, <2>4 DEF TotalsOK
    <2>8. QED BY <2>2, <2>3, <2>6, <2>7 DEF TotalsOK
  <1>13. PICK h \in Nat : h = hearts[l] /\ hearts' = [hearts EXCEPT ![l] = h]
    BY <1>4 DEF LikeCount
  <1>14. UNCHANGED <<viewer, ask, guest, room, may, twin, old, broken, again>> /\ old' \subseteq Stream
    BY <1>1 DEF LikeCount, history, TypeOK
  <1>15. req[r].live = l /\ req'[r].live = l
    BY <1>2, <1>8
  <1>16. x.viewersCount <= x.peakViewers /\ x.peakViewers <= Cardinality(RowsOf(l))
    BY <1>3, <1>6 DEF RowsOK
  <1>17. QED BY <1>3, <1>6, <1>7, <1>8, <1>9, <1>11, <1>12, <1>13, <1>14, <1>15, <1>16, WriteKeeps

LEMMA EndRowKeeps ==
  ASSUME LiveInv, NEW r \in Req, EndRow(r)
  PROVE  LiveInv'
  <1>1. TypeOK /\ LocalOK(r) /\ req[r].at = "endRow"
    BY DEF LiveInv, EndRow, At
  <1>2. PICK l \in Stream : l = req[r].live
    BY <1>1 DEF LocalOK
  <1>3. Exists(l) /\ CountOK(l) /\ TotalsOK(l) /\ RowsOK(l) /\ SingleOK(l) /\ Watching(l) \subseteq twin
    BY <1>1, <1>2 DEF LocalOK, LiveInv
  <1>4. live[l] \in LiveRow /\ live \in [Stream -> LiveRow]
    BY <1>1 DEF TypeOK
  <1>5. PICK x : x = [live[l] EXCEPT !.status = "ENDED", !.viewersCount = 0]
    OBVIOUS
  <1>6. /\ x \in LiveRow /\ x.status = "ENDED" /\ x.viewersCount = 0 /\ x.peakViewers = live[l].peakViewers
        /\ x.totalViewers = live[l].totalViewers /\ x.likesCount = live[l].likesCount
    BY <1>4, <1>5 DEF LiveRow
  <1>7. live' = [live EXCEPT ![l] = x]
    BY <1>2, <1>4, <1>5 DEF EndRow
  <1>8. \A k \in Stream : live'[k] = IF k = l THEN x ELSE live[k]
    BY <1>4, <1>7
  <1>9. /\ req' \in [Req -> Request]
        /\ req'[r].at = "end" /\ req'[r].live = req[r].live
        /\ \A q \in Req \ {r} : Same(q) /\ (q \in JoinsOf(l) => req'[q].over)
    BY <1>1, <1>2, OvertakeIs DEF EndRow
  <1>10. UNCHANGED <<viewer, ask, guest, hearts, room, may, twin, broken, again>>
    BY DEF EndRow
  <1>11. old' = IF 0 = Cardinality(Watching(l)) THEN old \ {l} ELSE old \cup {l}
    BY <1>2 DEF EndRow, Counted
  <1>12. \A k : RowsOf(k)' = RowsOf(k) /\ Watching(k)' = Watching(k)
    BY <1>10 DEF RowsOf, Watching
  <1>13. ASSUME NEW q \in Req PROVE LocalOK(q)'
    <2>1. CASE q = r
      BY <1>9, <2>1 DEF LocalOK
    <2>2. CASE q # r
      <3>1. LocalOK(q) /\ Same(q) /\ (q \in JoinsOf(l) => req'[q].over) /\ \A k \in Stream : IsFiniteSet(RowsOf(k))
        BY <1>9, <2>2 DEF LiveInv, RowsOK
      <3>2. /\ \A k \in Stream : Exists(k) => Exists(k)'
            /\ \A k \in Stream : IsFiniteSet(RowsOf(k)') /\ RowsOf(k) \subseteq RowsOf(k)'
            /\ \A k \in Stream : IsLive(k)' => IsLive(k)
        BY <1>6, <1>8, <1>12, <3>1 DEF Exists, IsLive
      <3>3. req[q].op = "join" /\ req[q].live \in Stream /\ IsLive(req[q].live) /\ ~req'[q].over => IsLive(req[q].live)'
        BY <1>8, <3>1 DEF IsLive, Same, JoinsOf
      <3>4. /\ Watches(req[q].live, req[q].user)' \subseteq Watches(req[q].live, req[q].user)
            /\ Watching(req[q].live)' \subseteq Watching(req[q].live) \cup twin'
        BY <1>10, <3>1 DEF Same, Watches, Watching, RowsOf
      <3>5. QED BY <1>1, <1>10, <3>1, <3>2, <3>3, <3>4, LocalKept
    <2>3. QED BY <2>1, <2>2
  <1>14. ASSUME NEW k \in Stream PROVE CountOK(k)' /\ TotalsOK(k)' /\ RowsOK(k)' /\ SingleOK(k)'
    <2>1. CASE k # l
      <3>1. req[r].live # k /\ req'[r].live # k /\ live'[k] = live[k]
        BY <1>2, <1>8, <1>9, <2>1
      <3>2. twin \subseteq twin' /\ broken \subseteq broken' /\ (k \in old => k \in old') /\ hearts'[k] = hearts[k]
        BY <1>10, <1>11, <2>1
      <3>3. \A v \in Watching(k) : viewer'[v].user = viewer[v].user
        BY <1>10
      <3>4. QED BY <1>9, <1>12, <3>1, <3>2, <3>3, OtherStream
    <2>2. CASE k = l
      <3>1. live'[l] = x /\ hearts'[l] = hearts[l] /\ broken' = broken
        BY <1>8, <1>10
      <3>2. /\ Cardinality(Watching(l))' = Cardinality(Watching(l)) /\ Cardinality(RowsOf(l))' = Cardinality(RowsOf(l))
            /\ IsFiniteSet(RowsOf(l))'
        BY <1>3, <1>12 DEF RowsOK
      <3>3. CountOK(l)'
        BY <1>6, <1>11, <3>1, <3>2 DEF CountOK
      <3>4. TotalsOK(l)'
        BY <1>1, <1>3, <1>6, <1>9, <1>12, <3>1, TotalsKept
      <3>5. RowsOK(l)'
        BY <1>3, <1>4, <1>6, <3>1, <3>2 DEF RowsOK, Exists, LiveRow
      <3>6. SingleOK(l)'
        BY <1>3, <1>10, <1>12, SingleKept
      <3>7. QED BY <2>2, <3>3, <3>4, <3>5, <3>6
    <2>3. QED BY <2>1, <2>2
  <1>15. TypeOK'
    BY <1>1, <1>6, <1>7, <1>9, <1>10, <1>11 DEF TypeOK
  <1>16. OneLive'
    BY <1>6, <1>8, <1>10 DEF LiveInv, OneLive, IsLive
  <1>17. ASSUME NEW p \in Seat PROVE SeatOK(p)'
    BY <1>6, <1>8, <1>10 DEF LiveInv, SeatOK, Exists, Seat
  <1>18. QED BY <1>13, <1>14, <1>15, <1>16, <1>17 DEF LiveInv

LEMMA StartCreateKeeps ==
  ASSUME LiveInv, NEW r \in Req, StartCreate(r)
  PROVE  LiveInv'
  <1>1. TypeOK /\ LocalOK(r) /\ req[r].at = "create"
    BY DEF LiveInv, StartCreate, At
  <1>2. PICK l \in Stream : /\ ~Exists(l)
                            /\ live' = [live EXCEPT ![l] = [NoLive EXCEPT !.status = "LIVE"]]
                            /\ twin' = IF req[r].over THEN twin \cup {l} ELSE twin
    BY DEF StartCreate
  <1>3. live \in [Stream -> LiveRow] /\ live[l] = NoLive /\ RowsOf(l) = {} /\ Watching(l) = {} /\ hearts[l] = 0
    BY <1>1, <1>2 DEF LiveInv, RowsOK, TypeOK, Watching
  <1>4. PICK x : x = [NoLive EXCEPT !.status = "LIVE"]
    OBVIOUS
  <1>5. /\ x \in LiveRow /\ x.status = "LIVE" /\ x.viewersCount = 0 /\ x.peakViewers = 0
        /\ x.totalViewers = 0 /\ x.likesCount = 0
    BY <1>4 DEF LiveRow, NoLive
  <1>6. live' = [live EXCEPT ![l] = x] /\ \A k \in Stream : live'[k] = IF k = l THEN x ELSE live[k]
    BY <1>2, <1>3, <1>4
  <1>7. /\ req' \in [Req -> Request]
        /\ req'[r].at = "end" /\ req'[r].live = req[r].live
        /\ \A q \in Req \ {r} : Same(q) /\ (q \in {p \in Req : At(p, "create")} => req'[q].over)
    BY <1>1, OvertakeIs DEF StartCreate
  <1>8. UNCHANGED <<viewer, ask, guest, hearts, room, may, old, broken, again>> /\ twin \subseteq twin'
    BY <1>2 DEF StartCreate
  <1>9. \A k : RowsOf(k)' = RowsOf(k) /\ Watching(k)' = Watching(k)
    BY <1>8 DEF RowsOf, Watching
  <1>10. ASSUME NEW q \in Req PROVE LocalOK(q)'
    <2>1. CASE q = r
      BY <1>7, <2>1 DEF LocalOK
    <2>2. CASE q # r
      <3>1. LocalOK(q) /\ Same(q) /\ (req[q].at = "create" => req'[q].over) /\ \A k \in Stream : IsFiniteSet(RowsOf(k))
        BY <1>7, <2>2 DEF LiveInv, RowsOK, At
      <3>2. /\ \A k \in Stream : Exists(k) => Exists(k)'
            /\ \A k \in Stream : IsFiniteSet(RowsOf(k)') /\ RowsOf(k) \subseteq RowsOf(k)'
        BY <1>5, <1>6, <1>9, <3>1 DEF Exists
      <3>3. req[q].live \in Stream /\ IsLive(req[q].live) => IsLive(req[q].live)'
        BY <1>5, <1>6, <3>1 DEF IsLive, Same
      <3>4. /\ Watches(req[q].live, req[q].user)' \subseteq Watches(req[q].live, req[q].user)
            /\ Watching(req[q].live)' \subseteq Watching(req[q].live) \cup twin'
        BY <1>8, <3>1 DEF Same, Watches, Watching, RowsOf
      <3>5. QED BY <1>1, <1>8, <3>1, <3>2, <3>3, <3>4, LocalKept
    <2>3. QED BY <2>1, <2>2
  <1>11. ASSUME NEW k \in Stream PROVE CountOK(k)' /\ TotalsOK(k)' /\ RowsOK(k)' /\ SingleOK(k)'
    <2>1. CASE k # l
      <3>1. /\ live'[k] = live[k] /\ hearts'[k] = hearts[k] /\ broken \subseteq broken' /\ (k \in old => k \in old')
            /\ \A v \in Watching(k) : viewer'[v].user = viewer[v].user
        BY <1>6, <1>8, <2>1
      <3>2. /\ req[r].live # k \/ req[r].at \notin Counting \cup {"likes"}
            /\ req'[r].live # k \/ req'[r].at \notin Counting \cup {"likes"}
        BY <1>1, <1>7 DEF Counting
      <3>3. QED BY <1>7, <1>8, <1>9, <3>1, <3>2, OtherStream
    <2>2. CASE k = l
      <3>1. live'[l] = x /\ hearts'[l] = 0 /\ RowsOf(l)' = {} /\ Watching(l)' = {}
        BY <1>3, <1>6, <1>8, <1>9
      <3>2. IsFiniteSet({}) /\ Cardinality({}) = 0
        BY FS_EmptySet
      <3>3. On(l, {"total"})' = {} /\ On(l, {"likes"})' = {}
        <4>1. \A q \in Req : q # r => LocalOK(q) /\ Same(q)
          BY <1>7 DEF LiveInv
        <4>2. \A q \in Req : req'[q].live = l => req'[q].at \notin {"total", "likes"}
          BY <1>2, <1>7, <4>1 DEF LocalOK, Same
        <4>3. QED BY <4>2 DEF On
      <3>4. CountOK(l)'
        BY <1>5, <3>1, <3>2 DEF CountOK
      <3>5. TotalsOK(l)'
        <4>1. /\ IsFiniteSet(On(l, {"total"}))' /\ IsFiniteSet(On(l, {"likes"}))' /\ Cardinality(RowsOf(l))' = 0
              /\ Cardinality(On(l, {"total"}))' = 0 /\ Cardinality(On(l, {"likes"}))' = 0
          BY <3>1, <3>2, <3>3
        <4>2. QED BY <1>5, <3>1, <4>1 DEF TotalsOK
      <3>6. RowsOK(l)'
        <4>1. IsFiniteSet(RowsOf(l))' /\ Cardinality(RowsOf(l))' = 0
          BY <3>1, <3>2
        <4>2. QED BY <1>5, <3>1, <4>1 DEF RowsOK, Exists
      <3>7. SingleOK(l)'
        BY <3>1 DEF SingleOK
      <3>8. QED BY <2>2, <3>4, <3>5, <3>6, <3>7
    <2>3. QED BY <2>1, <2>2
  <1>12. TypeOK'
    BY <1>1, <1>2, <1>5, <1>6, <1>7, <1>8 DEF TypeOK
  <1>13. OneLive'
    BY <1>1, <1>2, <1>6, <1>8 DEF LiveInv, LocalOK, OneLive, IsLive
  <1>14. ASSUME NEW p \in Seat PROVE SeatOK(p)'
    BY <1>5, <1>6, <1>8 DEF LiveInv, SeatOK, Exists, Seat
  <1>15. QED BY <1>10, <1>11, <1>12, <1>13, <1>14 DEF LiveInv

LEMMA JoinInsertKeeps ==
  ASSUME LiveInv, NEW r \in Req, JoinInsert(r)
  PROVE  LiveInv'
  <1>1. TypeOK /\ LocalOK(r) /\ req[r].at = "insert"
    BY DEF LiveInv, JoinInsert, At
  <1>2. PICK l \in Stream, u \in User : l = req[r].live /\ u = req[r].user
    BY <1>1 DEF LocalOK
  <1>3. PICK v \in Row : /\ viewer[v] = NoViewer
                         /\ viewer' = [viewer EXCEPT ![v] = [live |-> l, user |-> u, left |-> FALSE]]
                         /\ twin' = IF req[r].over \/ On(l, {"endRow"}) # {} THEN twin \cup {v} ELSE twin
    BY <1>2 DEF JoinInsert
  <1>4. viewer \in [Row -> ViewerRow] /\ live \in [Stream -> LiveRow]
    BY <1>1 DEF TypeOK
  <1>5. PICK x : x = [live |-> l, user |-> u, left |-> FALSE]
    OBVIOUS
  <1>6. x \in ViewerRow /\ x.live = l /\ x.user = u /\ ~x.left
    BY <1>5 DEF ViewerRow
  <1>7. /\ viewer' = [viewer EXCEPT ![v] = x] /\ \A w \in Row : viewer'[w] = IF w = v THEN x ELSE viewer[w]
        /\ viewer[v].live = None /\ viewer[v].user = None
    BY <1>3, <1>4, <1>5 DEF NoViewer
  <1>8. /\ req' \in [Req -> Request]
        /\ req'[r].at = "total" /\ req'[r].live = l
        /\ \A q \in Req \ {r} : Same(q) /\ (At(q, "insert") /\ req[q].live = l /\ req[q].user = u => req'[q].over)
    <2>1. PICK S : S = {q \in Req : At(q, "insert") /\ req[q].live = l /\ req[q].user = u}
      OBVIOUS
    <2>2. Overtake(r, [req[r] EXCEPT !.at = "total"], S)
      BY <1>2, <2>1 DEF JoinInsert
    <2>3. /\ req' \in [Req -> Request] /\ req'[r].at = "total" /\ req'[r].live = req[r].live
          /\ \A q \in Req \ {r} : Same(q) /\ (q \in S => req'[q].over)
      BY <1>1, <2>2, OvertakeIs
    <2>4. QED BY <1>2, <2>1, <2>3
  <1>9. UNCHANGED <<live, ask, guest, hearts, room, may, old, broken, again>> /\ twin \subseteq twin'
    BY <1>3 DEF JoinInsert
  <1>10. \A k \in Stream : /\ v \notin RowsOf(k)
                           /\ RowsOf(k)' = IF k = l THEN RowsOf(k) \cup {v} ELSE RowsOf(k)
                           /\ Watching(k)' = IF k = l THEN Watching(k) \cup {v} ELSE Watching(k)
    <2>1. TAKE k \in Stream
    <2>2. k # None
      BY IdleIs
    <2>3. v \notin RowsOf(k) /\ RowsOf(k)' = IF k = l THEN RowsOf(k) \cup {v} ELSE RowsOf(k)
      BY <1>6, <1>7, <2>2 DEF RowsOf
    <2>4. Watching(k)' = IF k = l THEN Watching(k) \cup {v} ELSE Watching(k)
      BY <1>6, <1>7, <2>2 DEF RowsOf, Watching
    <2>5. QED BY <2>3, <2>4
  <1>11. \A k \in Stream : IsFiniteSet(RowsOf(k)) /\ Cardinality(RowsOf(k)) \in Nat /\ IsFiniteSet(RowsOf(k)')
                           /\ Cardinality(RowsOf(k)') = IF k = l THEN Cardinality(RowsOf(k)) + 1 ELSE Cardinality(RowsOf(k))
    <2>1. TAKE k \in Stream
    <2>2. PICK R : R = RowsOf(k)
      OBVIOUS
    <2>3. IsFiniteSet(R) /\ Cardinality(R) \in Nat /\ v \notin R
      BY <1>10, <2>2, FS_CardinalityType DEF LiveInv, RowsOK
    <2>4. IsFiniteSet(R \cup {v}) /\ Cardinality(R \cup {v}) = Cardinality(R) + 1
      BY <2>3, FS_AddElement
    <2>5. RowsOf(k)' = IF k = l THEN R \cup {v} ELSE R
      BY <1>10, <2>2
    <2>6. QED BY <2>2, <2>3, <2>4, <2>5
  <1>12. ASSUME NEW q \in Req PROVE LocalOK(q)'
    <2>1. CASE q = r
      BY <1>1, <1>2, <1>8, <1>9, <2>1 DEF LocalOK, Exists
    <2>2. CASE q # r
      <3>1. /\ LocalOK(q) /\ Same(q)
            /\ (At(q, "insert") /\ req[q].live = l /\ req[q].user = u => req'[q].over)
        BY <1>8, <2>2 DEF LiveInv
      <3>2. /\ \A k \in Stream : Exists(k) => Exists(k)'
            /\ \A k \in Stream : IsFiniteSet(RowsOf(k)') /\ RowsOf(k) \subseteq RowsOf(k)'
            /\ \A k \in Stream : IsLive(k)' => IsLive(k)
            /\ req[q].live \in Stream /\ IsLive(req[q].live) => IsLive(req[q].live)'
        BY <1>9, <1>10, <1>11, <3>1 DEF Exists, IsLive, Same
      <3>3. PICK k, w : k = req[q].live /\ w = req[q].user
        OBVIOUS
      <3>4. req[q].at = "insert" /\ ~req'[q].over => Watches(req[q].live, req[q].user)' \subseteq Watches(req[q].live, req[q].user)
        <4>1. SUFFICES ASSUME req[q].at = "insert", ~req'[q].over
                       PROVE  Watches(req[q].live, req[q].user)' \subseteq Watches(req[q].live, req[q].user)
          OBVIOUS
        <4>2. k # l \/ w # u
          BY <3>1, <3>3, <4>1 DEF At
        <4>3. req'[q].live = k /\ req'[q].user = w
          BY <3>1, <3>3 DEF Same
        <4>4. {e \in Row : viewer'[e].live = k /\ ~viewer'[e].left /\ viewer'[e].user = w}
                \subseteq {e \in Row : viewer[e].live = k /\ ~viewer[e].left /\ viewer[e].user = w}
          BY <1>6, <1>7, <4>2
        <4>5. QED BY <3>3, <4>3, <4>4 DEF Watches, Watching, RowsOf
      <3>5. req[q].at = "endRow" => Watching(req[q].live)' \subseteq Watching(req[q].live) \cup twin'
        <4>1. SUFFICES ASSUME req[q].at = "endRow" PROVE Watching(req[q].live)' \subseteq Watching(req[q].live) \cup twin'
          OBVIOUS
        <4>2. k \in Stream
          BY <3>1, <3>3, <4>1 DEF LocalOK
        <4>3. k = l => v \in twin'
          BY <1>3, <3>3, <4>1 DEF On
        <4>4. Watching(k)' \subseteq Watching(k) \cup twin'
          BY <1>10, <4>2, <4>3
        <4>5. Watching(req[q].live)' = Watching(k)'
          BY <3>1, <3>3 DEF Same, Watching, RowsOf
        <4>6. QED BY <3>3, <4>4, <4>5
      <3>6. QED BY <1>1, <1>9, <3>1, <3>2, <3>4, <3>5, LocalKept
    <2>3. QED BY <2>1, <2>2
  <1>13. ASSUME NEW k \in Stream PROVE CountOK(k)' /\ TotalsOK(k)' /\ RowsOK(k)' /\ SingleOK(k)'
    <2>1. CASE k # l
      <3>1. /\ live'[k] = live[k] /\ hearts'[k] = hearts[k] /\ broken \subseteq broken' /\ (k \in old => k \in old')
            /\ RowsOf(k)' = RowsOf(k) /\ Watching(k)' = Watching(k)
        BY <1>9, <1>10, <2>1
      <3>2. \A w \in Watching(k) : viewer'[w].user = viewer[w].user
        BY <1>7, <1>10 DEF Watching, RowsOf
      <3>3. /\ req[r].live # k \/ req[r].at \notin Counting \cup {"likes"}
            /\ req'[r].live # k \/ req'[r].at \notin Counting \cup {"likes"}
        BY <1>1, <1>8, <2>1 DEF Counting
      <3>4. QED BY <1>8, <1>9, <3>1, <3>2, <3>3, OtherStream
    <2>2. CASE k = l
      <3>1. CountOK(l) /\ TotalsOK(l) /\ RowsOK(l) /\ SingleOK(l) /\ Exists(l)
        BY <1>1, <1>2 DEF LiveInv, LocalOK
      <3>2. live'[l] = live[l] /\ hearts'[l] = hearts[l] /\ broken' = broken /\ old' = old
        BY <1>9
      <3>3. CountOK(l)'
        BY <1>1, <1>8, <3>1, <3>2, CountKept DEF Counting
      <3>4. TotalsOK(l)'
        <4>1. IsFiniteSet(On(l, {"total"})) /\ IsFiniteSet(On(l, {"likes"}))
          BY <3>1 DEF TotalsOK
        <4>2. /\ IsFiniteSet(On(l, {"total"})') /\ Cardinality(On(l, {"total"})) \in Nat
              /\ Cardinality(On(l, {"total"})') = Cardinality(On(l, {"total"})) + 1
          BY <1>1, <1>8, <4>1, OnCounts
        <4>3. IsFiniteSet(On(l, {"likes"})') /\ On(l, {"likes"})' = On(l, {"likes"})
          BY <1>1, <1>8, <4>1, OnCounts
        <4>4. Cardinality(On(l, {"likes"}))' = Cardinality(On(l, {"likes"}))
          BY <4>3
        <4>5. live[l].totalViewers \in Nat
          BY <1>4 DEF LiveRow
        <4>6. l \notin broken' => live'[l].totalViewers + Cardinality(On(l, {"total"}))' = Cardinality(RowsOf(l))'
          BY <1>11, <3>1, <3>2, <4>2, <4>5 DEF TotalsOK
        <4>7. l \notin broken' => live'[l].likesCount + Cardinality(On(l, {"likes"}))' = hearts'[l]
          BY <3>1, <3>2, <4>4 DEF TotalsOK
        <4>8. QED BY <4>2, <4>3, <4>6, <4>7 DEF TotalsOK
      <3>5. RowsOK(l)'
        <4>1. live[l].peakViewers \in Nat
          BY <1>4 DEF LiveRow
        <4>2. live'[l].viewersCount <= live'[l].peakViewers /\ live'[l].peakViewers <= Cardinality(RowsOf(l))'
          BY <1>11, <3>1, <3>2, <4>1 DEF RowsOK
        <4>3. IsFiniteSet(RowsOf(l))' /\ Exists(l)'
          BY <1>11, <3>1, <3>2 DEF Exists
        <4>4. QED BY <4>2, <4>3 DEF RowsOK
      <3>6. SingleOK(l)'
        <4>1. Watching(l)' = Watching(l) \cup {v} /\ v \notin Watching(l) /\ Watching(l) \subseteq Row
          BY <1>10 DEF Watching, RowsOf
        <4>2. v \in twin' \/ (~req[r].over /\ Watches(l, u) = {} /\ IsLive(l))
          BY <1>1, <1>2, <1>3 DEF LocalOK
        <4>3. \A w \in Watching(l) : viewer'[w] = viewer[w] /\ (viewer[w].user = u => v \in twin')
          BY <1>7, <4>1, <4>2 DEF Watches
        <4>4. viewer'[v].user = u
          BY <1>6, <1>7
        <4>5. \A w, z \in Watching(l)' : w # z /\ viewer'[w].user = viewer'[z].user => w \in twin' \/ z \in twin'
          BY <1>9, <3>1, <4>1, <4>3, <4>4 DEF SingleOK
        <4>6. live'[l].status = "ENDED" => Watching(l)' \subseteq twin'
          BY <1>9, <3>1, <3>2, <4>1, <4>2 DEF SingleOK, IsLive
        <4>7. QED BY <4>5, <4>6 DEF SingleOK
      <3>7. QED BY <2>2, <3>3, <3>4, <3>5, <3>6
    <2>3. QED BY <2>1, <2>2
  <1>14. TypeOK'
    BY <1>1, <1>3, <1>6, <1>7, <1>8, <1>9 DEF TypeOK
  <1>15. OneLive' /\ \A p \in Seat : SeatOK(p)'
    BY <1>9 DEF LiveInv, OneLive, IsLive, SeatOK, Exists
  <1>16. QED BY <1>12, <1>13, <1>14, <1>15 DEF LiveInv

-----------------------------------------------------------------------------
(***************************************************************************)
(* The theorems.                                                           *)
(***************************************************************************)

LEMMA InitLiveInv == Init => LiveInv
  <1>. SUFFICES ASSUME Init PROVE LiveInv
    OBVIOUS
  <1>1. NoLive \in LiveRow /\ NoLive.status = "absent" /\ NoLive.viewersCount = 0 /\ NoLive.peakViewers = 0
        /\ NoLive.totalViewers = 0 /\ NoLive.likesCount = 0
    BY DEF NoLive, LiveRow
  <1>2. PICK x : x = [NoLive EXCEPT !.status = "LIVE"]
    OBVIOUS
  <1>3. x \in LiveRow /\ x.status = "LIVE" /\ x.viewersCount = 0 /\ x.peakViewers = 0
        /\ x.totalViewers = 0 /\ x.likesCount = 0
    BY <1>2 DEF NoLive, LiveRow
  <1>4. /\ live \in [Stream -> LiveRow]
        /\ \A l \in Stream : live[l] \in {NoLive, x}
        /\ \A k, l \in Stream : live[k] = x /\ live[l] = x => k = l
    <2>1. CASE live = [l \in Stream |-> NoLive]
      BY <1>1, <1>3, <2>1
    <2>2. CASE \E k \in Stream : live = [l \in Stream |-> IF l = k THEN x ELSE NoLive]
      BY <1>1, <1>3, <2>2
    <2>3. QED BY <1>2, <2>1, <2>2 DEF Init
  <1>5. NoViewer \in ViewerRow /\ NoViewer.live = None
    BY DEF NoViewer, ViewerRow
  <1>6. TypeOK
    BY <1>4, <1>5, IdleIs DEF Init, TypeOK, JoinStatus
  <1>7. \A l \in Stream : RowsOf(l) = {} /\ Watching(l) = {}
    BY <1>5, IdleIs DEF Init, RowsOf, Watching
  <1>8. ASSUME NEW r \in Req PROVE LocalOK(r)
    BY IdleIs DEF Init, LocalOK
  <1>9. IsFiniteSet({}) /\ Cardinality({}) = 0
    BY FS_EmptySet
  <1>10. ASSUME NEW l \in Stream PROVE CountOK(l) /\ TotalsOK(l) /\ RowsOK(l) /\ SingleOK(l)
    <2>1. \A places : On(l, places) = {}
      BY IdleIs DEF Init, On
    <2>2. /\ live[l].viewersCount = 0 /\ live[l].peakViewers = 0 /\ live[l].totalViewers = 0
          /\ live[l].likesCount = 0 /\ hearts[l] = 0
          /\ live[l].status # "ENDED" /\ (~Exists(l) => live[l] = NoLive)
      BY <1>1, <1>3, <1>4 DEF Init, Exists
    <2>3. CountOK(l)
      BY <1>7, <1>9, <2>2 DEF CountOK
    <2>4. TotalsOK(l)
      BY <1>7, <1>9, <2>1, <2>2 DEF TotalsOK
    <2>5. RowsOK(l)
      BY <1>7, <1>9, <2>2 DEF RowsOK
    <2>6. SingleOK(l)
      BY <1>7, <2>2 DEF SingleOK
    <2>7. QED BY <2>3, <2>4, <2>5, <2>6
  <1>11. OneLive
    BY <1>1, <1>4 DEF OneLive, IsLive
  <1>12. \A p \in Seat : SeatOK(p)
    BY DEF Init, SeatOK
  <1>13. QED BY <1>6, <1>8, <1>10, <1>11, <1>12 DEF LiveInv

LEMMA StepLiveInv == LiveInv /\ [Next]_vars => LiveInv'
  <1>. SUFFICES ASSUME LiveInv, [Next]_vars PROVE LiveInv'
    OBVIOUS
  <1>1. ASSUME NEW r \in Req, HostSteps(r) PROVE LiveInv'
    <2>1. CASE StartRead(r) BY <2>1, StartReadKeeps
    <2>2. CASE StartCreate(r) BY <2>2, StartCreateKeeps
    <2>3. CASE EndRead(r) BY <2>3, EndReadKeeps
    <2>4. CASE EndViewers(r) BY <2>4, EndViewersKeeps
    <2>5. CASE EndRow(r) BY <2>5, EndRowKeeps
    <2>6. CASE Switch(r) BY <2>6, SwitchKeeps
    <2>7. CASE AcceptRead(r) BY <2>7, AcceptReadKeeps
    <2>8. CASE Accept(r) BY <2>8, AcceptKeeps
    <2>9. CASE DeclineRead(r) BY <2>9, DeclineReadKeeps
    <2>10. CASE Decline(r) BY <2>10, DeclineKeeps
    <2>11. CASE KickViewer(r) BY <2>11, KickViewerKeeps
    <2>12. CASE KickGuest(r) BY <2>12, KickGuestKeeps
    <2>13. QED BY <1>1, <2>1, <2>2, <2>3, <2>4, <2>5, <2>6, <2>7, <2>8, <2>9, <2>10, <2>11, <2>12 DEF HostSteps
  <1>2. ASSUME NEW r \in Req, ViewerSteps(r) PROVE LiveInv'
    <2>1. CASE ReadLive(r) BY <2>1, ReadLiveKeeps
    <2>2. CASE ReadAny(r) BY <2>2, ReadAnyKeeps
    <2>3. CASE AssertCanView(r) BY <2>3, AssertCanViewKeeps
    <2>4. CASE JoinFind(r) BY <2>4, JoinFindKeeps
    <2>5. CASE JoinInsert(r) BY <2>5, JoinInsertKeeps
    <2>6. CASE JoinTotal(r) BY <2>6, JoinTotalKeeps
    <2>7. CASE LeaveRows(r) BY <2>7, LeaveRowsKeeps
    <2>8. CASE RefreshCount(r) BY <2>8, RefreshCountKeeps
    <2>9. CASE RefreshPeak(r) BY <2>9, RefreshPeakKeeps
    <2>10. CASE RefreshWrite(r) BY <2>10, RefreshWriteKeeps
    <2>11. CASE LikeInsert(r) BY <2>11, LikeInsertKeeps
    <2>12. CASE LikeCount(r) BY <2>12, LikeCountKeeps
    <2>13. CASE Subscribe(r) BY <2>13, SubscribeKeeps
    <2>14. CASE Unsubscribe(r) BY <2>14, UnsubscribeKeeps
    <2>15. CASE RequestJoin(r) BY <2>15, RequestJoinKeeps
    <2>16. QED BY <1>2, <2>1, <2>2, <2>3, <2>4, <2>5, <2>6, <2>7, <2>8, <2>9, <2>10, <2>11, <2>12,
                  <2>13, <2>14, <2>15 DEF ViewerSteps
  <1>3. ASSUME UNCHANGED vars PROVE LiveInv'
    <2>1. UNCHANGED <<live, viewer, ask, guest, hearts, room, may, req, twin, old, broken, again>>
      BY <1>3 DEF vars
    <2>2. TypeOK' /\ OneLive' /\ \A p \in Seat : SeatOK(p)'
      BY <2>1 DEF LiveInv, TypeOK, OneLive, SeatOK, IsLive, Exists
    <2>3. \A r \in Req : LocalOK(r)'
      BY <2>1 DEF LiveInv, LocalOK, Exists, IsLive, RowsOf, Watching, Watches
    <2>4. ASSUME NEW l \in Stream PROVE CountOK(l)' /\ TotalsOK(l)' /\ RowsOK(l)' /\ SingleOK(l)'
      <3>1. RowsOf(l)' = RowsOf(l) /\ Watching(l)' = Watching(l) /\ \A places : On(l, places)' = On(l, places)
        BY <2>1 DEF RowsOf, Watching, On
      <3>2. CountOK(l)' /\ TotalsOK(l)'
        BY <2>1, <3>1 DEF LiveInv, CountOK, TotalsOK
      <3>3. RowsOK(l)' /\ SingleOK(l)'
        BY <2>1, <3>1 DEF LiveInv, RowsOK, SingleOK, Exists
      <3>4. QED BY <3>2, <3>3
    <2>5. QED BY <2>2, <2>3, <2>4 DEF LiveInv
  <1>4. QED BY <1>1, <1>2, <1>3, FailKeeps, AccessKeeps DEF Next

\* What a handler of LiveService has read still holds, or the handler is marked as overtaken;
\* a stream's sums are those of its rows, and its peak is bounded by them.
THEOREM LiveInvariant == Spec => []LiveInv
  <1>1. QED BY InitLiveInv, StepLiveInv, PTL DEF Spec

\* The rows, numbers and guests of a stream agree, with the exceptions that StreamsAgree names
\* (LiveService.start, end, join, leave, kick, like, requestJoin, acceptRequest, declineRequest).
THEOREM StreamsAgreeForAll == Spec => []StreamsAgree
  <1>1. LiveInv => NumbersAgree
    BY DEF LiveInv, CountOK, TotalsOK, RowsOK, NumbersAgree, Counting
  <1>2. LiveInv => SinglesAreSingle
    BY DEF LiveInv, OneLive, SingleOK, SinglesAreSingle
  <1>3. LiveInv => GuestsFollowTheDecision
    BY DEF LiveInv, SeatOK, GuestsFollowTheDecision
  <1>4. LiveInv => StreamsAgree
    BY <1>1, <1>2, <1>3 DEF StreamsAgree, RoomsAgree
  <1>5. QED BY <1>4, LiveInvariant, PTL
=============================================================================
