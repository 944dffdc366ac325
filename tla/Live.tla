-------------------------------- MODULE Live --------------------------------
(***************************************************************************)
(* The streams of one host: LiveService.  The row of a stream keeps three  *)
(* numbers about its viewers and one about its likes, which are brought up *)
(* to date by other calls than those that write the viewers and the likes; *)
(* a request to come on screen and the guest it makes are two rows.        *)
(* What AccessService says of the host's streams is the set may.           *)
(***************************************************************************)
EXTENDS FiniteSets, Naturals

CONSTANTS User,    \* everybody but the host
          Host,
          Stream,  \* ids of Live rows
          Row,     \* ids of LiveViewer rows
          Req,     \* requests; each one is handled once
          None

ASSUME HostIsNoUser == Host \notin User /\ None \notin User \cup Stream \cup Row \cup {Host}

VARIABLES live,   \* the Live rows
          viewer, \* the LiveViewer rows
          ask,    \* LiveJoinRequest.status per stream and user
          guest,  \* LiveGuest per stream and user: on screen or not
          hearts, \* the number of LiveLike rows of each stream
          may,    \* the users AccessService lets see the host's streams
          room,   \* who has subscribed to the events of which stream
          req,    \* the state of every request
          twin,   \* history: streams and viewers inserted on a check that no longer held
          old,    \* history: streams whose viewersCount was out of date when written
          broken, \* history: streams for which a handler has failed half way
          again   \* history: guests decided upon twice, or who asked again on screen

rows == <<live, viewer, ask, guest, hearts, room>>
history == <<twin, old, broken, again>>
vars == <<live, viewer, ask, guest, hearts, may, room, req, twin, old, broken, again>>

Seat == Stream \X User

LiveRow == [status : {"absent", "LIVE", "ENDED"}, viewersCount : Nat, peakViewers : Nat,
            totalViewers : Nat, likesCount : Nat, on : SUBSET {"camera", "audio"}]

NoLive == [status |-> "absent", viewersCount |-> 0, peakViewers |-> 0, totalViewers |-> 0,
           likesCount |-> 0, on |-> {"camera", "audio"}]

ViewerRow == [live : Stream \cup {None}, user : User \cup {None}, left : BOOLEAN]

NoViewer == [live |-> None, user |-> None, left |-> FALSE]

JoinStatus == {"none", "PENDING", "ACCEPTED", "DECLINED"}

\* op is what the request is for; count and peak are locals of refreshViewersCount;
\* over (history): the check of this request was overtaken.
Request == [at : {"start", "create", "endViewers", "endRow", "view", "find", "insert", "total",
                  "count", "peak", "write", "heart", "likes", "ask", "accept", "decline",
                  "switch", "kick", "kickGuest", "room", "end"},
            op : {"none", "host", "join", "like", "requestJoin", "subscribe"},
            live : Stream \cup {None}, user : User \cup {None},
            count : Nat, peak : Nat, over : BOOLEAN]

Idle == [at |-> "start", op |-> "none", live |-> None, user |-> None,
         count |-> 0, peak |-> 0, over |-> FALSE]

TypeOK ==
  /\ live \in [Stream -> LiveRow] /\ viewer \in [Row -> ViewerRow]
  /\ ask \in [Seat -> JoinStatus] /\ guest \in [Seat -> {"none", "in", "left"}]
  /\ hearts \in [Stream -> Nat] /\ may \subseteq User /\ room \subseteq Seat
  /\ req \in [Req -> Request]
  /\ twin \subseteq Stream \cup Row /\ old \subseteq Stream /\ broken \subseteq Stream
  /\ again \subseteq Seat

\* Nothing yet, or one stream that nobody watches.
Init ==
  /\ live \in {[l \in Stream |-> NoLive]} \cup
       {[l \in Stream |-> IF l = k THEN [NoLive EXCEPT !.status = "LIVE"] ELSE NoLive] : k \in Stream}
  /\ viewer = [v \in Row |-> NoViewer]
  /\ ask = [p \in Seat |-> "none"] /\ guest = [p \in Seat |-> "none"]
  /\ hearts = [l \in Stream |-> 0]
  /\ may \in SUBSET User /\ room = {}
  /\ req = [r \in Req |-> Idle]
  /\ twin = {} /\ old = {} /\ broken = {} /\ again = {}

-----------------------------------------------------------------------------
At(r, l) == req[r].at = l

Become(r, x) == req' = [req EXCEPT ![r] = x]

Goto(r, l) == Become(r, [req[r] EXCEPT !.at = l])

Ask(l, op, s, u) == [Idle EXCEPT !.at = l, !.op = op, !.live = s, !.user = u]

Exists(l) == live[l].status # "absent"

IsLive(l) == live[l].status = "LIVE"

RowsOf(l) == {v \in Row : viewer[v].live = l}

Watching(l) == {v \in RowsOf(l) : ~viewer[v].left}

Watches(l, u) == {v \in Watching(l) : viewer[v].user = u}

\* Requests at one of these places on stream l.
On(l, places) == {r \in Req : req[r].live = l /\ req[r].at \in places}

\* updateMany: the open rows among S are closed.
Leave(S) == viewer' = [v \in Row |-> IF v \in S THEN [viewer[v] EXCEPT !.left = TRUE] ELSE viewer[v]]

\* r becomes x; the requests in others have been overtaken.
Overtake(r, x, others) ==
  req' = [q \in Req |-> IF q = r THEN x
                        ELSE IF q \in others THEN [req[q] EXCEPT !.over = TRUE] ELSE req[q]]

-----------------------------------------------------------------------------
\* start: no other stream of the host is live...
StartRead(r) ==
  /\ At(r, "start")
  /\ \A l \in Stream : ~IsLive(l)
  /\ Become(r, Ask("create", "host", None, None))
  /\ UNCHANGED <<rows, may, history>>

\* ... and the row.  The followers are told, which changes nothing here.
StartCreate(r) ==
  /\ At(r, "create")
  /\ \E l \in Stream :
       /\ ~Exists(l)
       /\ live' = [live EXCEPT ![l] = [NoLive EXCEPT !.status = "LIVE"]]
       /\ twin' = IF req[r].over THEN twin \cup {l} ELSE twin
  /\ Overtake(r, [req[r] EXCEPT !.at = "end"], {q \in Req : At(q, "create")})
  /\ UNCHANGED <<viewer, ask, guest, hearts, room, may, old, broken, again>>

JoinsOf(l) == {q \in Req : req[q].op = "join" /\ req[q].live = l}

\* end: the stream is live...
EndRead(r) ==
  /\ At(r, "start")
  /\ \E l \in Stream : IsLive(l) /\ Become(r, Ask("endViewers", "host", l, None))
  /\ UNCHANGED <<rows, may, history>>

\* ... its viewers leave...
EndViewers(r) ==
  /\ At(r, "endViewers")
  /\ Leave(Watching(req[r].live))
  /\ Overtake(r, [req[r] EXCEPT !.at = "endRow"], JoinsOf(req[r].live))
  /\ UNCHANGED <<live, ask, guest, hearts, room, may, history>>

\* The number written is the number of the moment, or the stream's count is old.
Counted(l, n) == old' = IF n = Cardinality(Watching(l)) THEN old \ {l} ELSE old \cup {l}

\* ... and the row says so.  The room is closed and told as best can be.
EndRow(r) ==
  LET l == req[r].live
  IN  /\ At(r, "endRow")
      /\ live' = [live EXCEPT ![l].status = "ENDED", ![l].viewersCount = 0]
      /\ Counted(l, 0)
      /\ Overtake(r, [req[r] EXCEPT !.at = "end"], JoinsOf(l))
      /\ UNCHANGED <<viewer, ask, guest, hearts, room, may, twin, broken, again>>

-----------------------------------------------------------------------------
\* getRaw, for join and requestJoin of a stream that has not ended.
ReadLive(r) ==
  /\ At(r, "start")
  /\ \E l \in Stream, u \in User, op \in {"join", "requestJoin"} :
       IsLive(l) /\ Become(r, Ask("view", op, l, u))
  /\ UNCHANGED <<rows, may, history>>

\* getRaw, for what an ended stream allows as well: likes (comments and reactions
\* likewise) and canView, which the socket asks.
ReadAny(r) ==
  /\ At(r, "start")
  /\ \E l \in Stream, u \in User, op \in {"like", "subscribe"} :
       Exists(l) /\ Become(r, Ask("view", op, l, u))
  /\ UNCHANGED <<rows, may, history>>

\* assertCanView; then what the request is for.
AssertCanView(r) ==
  LET next == [join |-> "find", like |-> "heart", requestJoin |-> "ask", subscribe |-> "room"]
  IN  /\ At(r, "view")
      /\ Goto(r, IF req[r].user \in may THEN next[req[r].op] ELSE "end")
      /\ UNCHANGED <<rows, may, history>>

\* join: a row that is still open is used again...
JoinFind(r) ==
  /\ At(r, "find")
  /\ Become(r, [req[r] EXCEPT
       !.at = IF Watches(req[r].live, req[r].user) = {} THEN "insert" ELSE "count"])
  /\ UNCHANGED <<rows, may, history>>

\* ... or a row is made...
JoinInsert(r) ==
  LET l == req[r].live
      u == req[r].user
  IN  /\ At(r, "insert")
      /\ \E v \in Row :
           /\ viewer[v] = NoViewer
           /\ viewer' = [viewer EXCEPT ![v] = [live |-> l, user |-> u, left |-> FALSE]]
           /\ twin' = IF req[r].over \/ On(l, {"endRow"}) # {} THEN twin \cup {v} ELSE twin
      /\ Overtake(r, [req[r] EXCEPT !.at = "total"],
                  {q \in Req : At(q, "insert") /\ req[q].live = l /\ req[q].user = u})
      /\ UNCHANGED <<live, ask, guest, hearts, room, may, old, broken, again>>

\* ... and counted.
JoinTotal(r) ==
  /\ At(r, "total")
  /\ live' = [live EXCEPT ![req[r].live].totalViewers = @ + 1]
  /\ Goto(r, "count")
  /\ UNCHANGED <<viewer, ask, guest, hearts, room, may, history>>

\* leave, of any stream and however often.
LeaveRows(r) ==
  /\ At(r, "start")
  /\ \E l \in Stream, u \in User :
       /\ Exists(l)
       /\ Leave(Watches(l, u))
       /\ Become(r, Ask("count", "none", l, u))
  /\ UNCHANGED <<live, ask, guest, hearts, room, may, history>>

\* refreshViewersCount: the open rows are counted...
RefreshCount(r) ==
  /\ At(r, "count")
  /\ Become(r, [req[r] EXCEPT !.at = "peak", !.count = Cardinality(Watching(req[r].live))])
  /\ UNCHANGED <<rows, may, history>>

\* ... the peak is read...
RefreshPeak(r) ==
  /\ At(r, "peak")
  /\ Become(r, [req[r] EXCEPT !.at = "write", !.peak = live[req[r].live].peakViewers])
  /\ UNCHANGED <<rows, may, history>>

\* Mutant: the peak is left alone.
RefreshCountOnly(r) ==
  LET l == req[r].live
  IN  /\ At(r, "write")
      /\ live' = [live EXCEPT ![l].viewersCount = req[r].count]
      /\ Counted(l, req[r].count)
      /\ Goto(r, "end")
      /\ UNCHANGED <<viewer, ask, guest, hearts, room, may, twin, broken, again>>

\* ... and both are written.  The viewers are told the count.
RefreshWrite(r) ==
  LET l == req[r].live
      n == req[r].count
  IN  /\ At(r, "write")
      /\ live' = [live EXCEPT ![l].viewersCount = n,
                              ![l].peakViewers = IF n > req[r].peak THEN n ELSE req[r].peak]
      /\ Counted(l, n)
      /\ Goto(r, "end")
      /\ UNCHANGED <<viewer, ask, guest, hearts, room, may, twin, broken, again>>

-----------------------------------------------------------------------------
\* like: a row for every heart...
LikeInsert(r) ==
  /\ At(r, "heart")
  /\ hearts' = [hearts EXCEPT ![req[r].live] = @ + 1]
  /\ Goto(r, "likes")
  /\ UNCHANGED <<live, viewer, ask, guest, room, may, history>>

\* ... and the number of them.
LikeCount(r) ==
  /\ At(r, "likes")
  /\ live' = [live EXCEPT ![req[r].live].likesCount = @ + 1]
  /\ Goto(r, "end")
  /\ UNCHANGED <<viewer, ask, guest, hearts, room, may, history>>

\* onSubscribe, after canView.
Subscribe(r) ==
  /\ At(r, "room")
  /\ room' = room \cup {<<req[r].live, req[r].user>>}
  /\ Goto(r, "end")
  /\ UNCHANGED <<live, viewer, ask, guest, hearts, may, history>>

\* onUnsubscribe.
Unsubscribe(r) ==
  /\ At(r, "start")
  /\ \E p \in room : room' = room \ {p}
  /\ Goto(r, "end")
  /\ UNCHANGED <<live, viewer, ask, guest, hearts, may, history>>

\* setCamera and setAudio: one column of the row.
Switch(r) ==
  /\ At(r, "start")
  /\ \E l \in Stream, what \in {"camera", "audio"} :
       /\ Exists(l)
       /\ \E on \in {live[l].on \cup {what}, live[l].on \ {what}} :
            live' = [live EXCEPT ![l].on = on]
  /\ Goto(r, "end")
  /\ UNCHANGED <<viewer, ask, guest, hearts, room, may, history>>

-----------------------------------------------------------------------------
\* requestJoin: one row per stream and user, PENDING again whatever it was.
RequestJoin(r) ==
  LET p == <<req[r].live, req[r].user>>
  IN  /\ At(r, "ask")
      /\ ask' = [ask EXCEPT ![p] = "PENDING"]
      /\ again' = IF guest[p] = "in" THEN again \cup {p} ELSE again \ {p}
      /\ Goto(r, "end")
      /\ UNCHANGED <<live, viewer, guest, hearts, room, may, twin, old, broken>>

\* acceptRequest: any request to a stream that has not ended...
AcceptRead(r) ==
  /\ At(r, "start")
  /\ \E p \in Seat : ask[p] # "none" /\ IsLive(p[1]) /\ Become(r, Ask("accept", "host", p[1], p[2]))
  /\ UNCHANGED <<rows, may, history>>

\* A request that was decided before is decided again.
Decide(p, to) ==
  /\ ask' = [ask EXCEPT ![p] = to]
  /\ again' = IF ask[p] # "PENDING" THEN again \cup {p} ELSE again

\* Mutant: the guest's row is left out of the transaction.
AcceptAlone(r) ==
  LET p == <<req[r].live, req[r].user>>
  IN  /\ At(r, "accept")
      /\ Decide(p, "ACCEPTED")
      /\ Goto(r, "end")
      /\ UNCHANGED <<live, viewer, guest, hearts, room, may, twin, old, broken>>

\* ... becomes a guest in one transaction.
Accept(r) ==
  LET p == <<req[r].live, req[r].user>>
  IN  /\ At(r, "accept")
      /\ Decide(p, "ACCEPTED")
      /\ guest' = [guest EXCEPT ![p] = "in"]
      /\ Goto(r, "end")
      /\ UNCHANGED <<live, viewer, hearts, room, may, twin, old, broken>>

DeclineRead(r) ==
  /\ At(r, "start")
  /\ \E p \in Seat : ask[p] # "none" /\ Become(r, Ask("decline", "host", p[1], p[2]))
  /\ UNCHANGED <<rows, may, history>>

\* declineRequest: a guest stays on screen.
Decline(r) ==
  /\ At(r, "decline")
  /\ Decide(<<req[r].live, req[r].user>>, "DECLINED")
  /\ Goto(r, "end")
  /\ UNCHANGED <<live, viewer, guest, hearts, room, may, twin, old, broken>>

\* kick: the viewer's rows...
KickViewer(r) ==
  /\ At(r, "start")
  /\ \E p \in Seat :
       /\ Exists(p[1])
       /\ Leave(Watches(p[1], p[2]))
       /\ Become(r, Ask("kickGuest", "host", p[1], p[2]))
  /\ UNCHANGED <<live, ask, guest, hearts, room, may, history>>

\* ... then the guest's; the count is refreshed.
KickGuest(r) ==
  LET p == <<req[r].live, req[r].user>>
  IN  /\ At(r, "kickGuest")
      /\ guest' = [guest EXCEPT ![p] = IF @ = "in" THEN "left" ELSE @]
      /\ Goto(r, "count")
      /\ UNCHANGED <<live, viewer, ask, hearts, room, may, history>>

-----------------------------------------------------------------------------
\* A follow, a block or a switch of the privacy changes who may see the streams.
Access ==
  /\ \E u \in User : may' \in {may \cup {u}, may \ {u}}
  /\ UNCHANGED <<rows, req, history>>

UnderWay(r) == req[r].at \notin {"start", "end"}

\* An awaited call rejects, or the process dies.
Fail(r) ==
  /\ UnderWay(r)
  /\ Goto(r, "end")
  /\ broken' = IF req[r].live = None THEN broken ELSE broken \cup {req[r].live}
  /\ UNCHANGED <<rows, may, twin, old, again>>

HostSteps(r) ==
  \/ StartRead(r) \/ StartCreate(r) \/ EndRead(r) \/ EndViewers(r) \/ EndRow(r) \/ Switch(r)
  \/ AcceptRead(r) \/ Accept(r) \/ DeclineRead(r) \/ Decline(r) \/ KickViewer(r) \/ KickGuest(r)

ViewerSteps(r) ==
  \/ ReadLive(r) \/ ReadAny(r) \/ AssertCanView(r) \/ JoinFind(r) \/ JoinInsert(r) \/ JoinTotal(r)
  \/ LeaveRows(r) \/ RefreshCount(r) \/ RefreshPeak(r) \/ RefreshWrite(r)
  \/ LikeInsert(r) \/ LikeCount(r) \/ Subscribe(r) \/ Unsubscribe(r) \/ RequestJoin(r)

Next == Access \/ \E r \in Req : HostSteps(r) \/ ViewerSteps(r) \/ Fail(r)

Spec == Init /\ [][Next]_vars

-----------------------------------------------------------------------------
\* refreshViewersCount, join, like: with no handler under way for a stream and none failed,
\* its three viewer numbers and its likes are those of the rows, unless the last count
\* written was taken before another handler changed the rows; and never is the count above
\* the peak, or the peak above the number of rows there have been.
NumbersAgree ==
  \A l \in Stream :
    /\ live[l].viewersCount # Cardinality(Watching(l)) =>
         \/ l \in old \cup broken
         \/ On(l, {"endRow", "total", "count", "peak", "write", "kickGuest"}) # {}
    /\ live[l].viewersCount <= live[l].peakViewers
    /\ live[l].peakViewers <= Cardinality(RowsOf(l))
    /\ l \notin broken =>
         /\ live[l].totalViewers + Cardinality(On(l, {"total"})) = Cardinality(RowsOf(l))
         /\ live[l].likesCount + Cardinality(On(l, {"likes"})) = hearts[l]

\* start, join, end: a host has one live stream, a viewer one open row, and an ended stream
\* none, but for rows inserted by a handler whose check was overtaken.
SinglesAreSingle ==
  /\ \A k, l \in Stream : IsLive(k) /\ IsLive(l) /\ k # l => k \in twin \/ l \in twin
  /\ \A l \in Stream : \A v, w \in Watching(l) :
       v # w /\ viewer[v].user = viewer[w].user => v \in twin \/ w \in twin
  /\ \A l \in Stream : live[l].status = "ENDED" => Watching(l) \subseteq twin

\* acceptRequest, declineRequest, kick: whoever is or was on screen has asked; an accepted
\* request has its guest, also after a failure; and a guest whose request is declined is on
\* screen only if the host has decided the request twice, or the guest asked while on screen.
GuestsFollowTheDecision ==
  \A p \in Seat :
    /\ guest[p] # "none" => ask[p] # "none"
    /\ ask[p] = "ACCEPTED" => guest[p] # "none"
    /\ ask[p] = "DECLINED" /\ guest[p] = "in" => p \in again

\* The rows and the numbers of a stream tell one story, with the exceptions above (start, end,
\* join, leave, kick, like).
RoomsAgree == NumbersAgree /\ SinglesAreSingle

\* Rows, numbers and guests of a stream agree, with the exceptions above.
StreamsAgree == RoomsAgree /\ GuestsFollowTheDecision
=============================================================================
