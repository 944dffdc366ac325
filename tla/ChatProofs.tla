---------------------------- MODULE ChatProofs -----------------------------
(***************************************************************************)
(* What is proved of the two protocols of ChatService: of GroupChat, for   *)
(* every finite set of users and every set of requests; of Calls, for      *)
(* every set of participants and requests; and, at the end of the module,  *)
(* that Chats takes the steps of both and so keeps the promises of both.   *)
(***************************************************************************)
EXTENDS Chats, FiniteSetTheorems, TLAPS

LEMMA LoadedType ==
  ASSUME TypeOK, NEW u \in User, NEW arg \in SUBSET User,
         NEW o \in {"add", "remove", "leave", "deleteChat"},
         NEW l \in {"insert", "deleteTarget", "deleteSelf"}
  PROVE  Loaded(o, l, u, arg) \in Request
  <1> DEFINE b == u \in admin
  <1>1. b \in BOOLEAN
    OBVIOUS
  <1> HIDE DEF b
  <1>2. [Idle EXCEPT !.op = o, !.at = l, !.actor = u, !.snap = member, !.isAdmin = b,
                     !.arg = arg] \in Request
    BY <1>1 DEF Idle, Request, member
  <1>3. QED BY <1>2 DEF Loaded, b

LEMMA BecomeIs ==
  ASSUME TypeOK, NEW r \in Req, NEW x, Become(r, x)
  PROVE  req'[r] = x /\ \A q \in Req \ {r} : req'[q] = req[q]
  BY DEF Become, TypeOK

LEMMA BecomeType ==
  ASSUME TypeOK, NEW r \in Req, NEW x \in Request, Become(r, x)
  PROVE  req' \in [Req -> Request]
  BY DEF Become, TypeOK

LEMMA ReplyType ==
  ASSUME TypeOK, NEW r \in Req, NEW a \in {"ok", "refused", "error"}, Reply(r, a)
  PROVE  req' \in [Req -> Request]
  <1>1. [Idle EXCEPT !.at = "end", !.reply = a] \in Request
    BY DEF Idle, Request
  <1>2. QED BY <1>1, BecomeType DEF Reply

LEMMA GotoType ==
  ASSUME TypeOK, NEW r \in Req,
         NEW l \in {"deleteTarget", "pick", "promote", "count", "deleteGroup", "notice"},
         Goto(r, l)
  PROVE  req' \in [Req -> Request]
  <1>1. [req[r] EXCEPT !.at = l] \in Request
    BY DEF TypeOK, Request
  <1>2. QED BY <1>1, BecomeType DEF Goto

LEMMA BlameType ==
  ASSUME TypeOK, NEW c \in Cause, NEW bad, Blame(c, bad)
  PROVE  cause' \in SUBSET Cause /\ cause \subseteq cause'
  BY DEF TypeOK, Blame

\* The three ways the membership changes.
LEMMA RowDeleted ==
  ASSUME TypeOK, NEW u \in User, DeleteRow(u)
  PROVE  /\ joined' \in [User -> Nat]
         /\ member' = member \ {u}
         /\ admin' = admin \ {u}
  BY DEF TypeOK, DeleteRow, member

LEMMA RowsInserted ==
  ASSUME TypeOK, NEW new \in SUBSET User, now' = now + 1,
         joined' = [u \in User |-> IF u \in new \ member THEN now' ELSE joined[u]]
  PROVE  /\ joined' \in [User -> Nat]
         /\ member' = member \cup new
  BY DEF TypeOK, member

LEMMA AllDeleted ==
  ASSUME joined' = [u \in User |-> 0]
  PROVE  joined' \in [User -> Nat] /\ member' = {}
  BY DEF member

LEMMA TypeInit == Init => TypeOK
  <1> SUFFICES ASSUME Init PROVE TypeOK
    OBVIOUS
  <1>1. PICK creator \in User, invited \in SUBSET User :
          /\ joined = [u \in User |-> IF u \in invited \cup {creator} THEN 1 ELSE 0]
          /\ admin = {creator}
    BY DEF Init
  <1>2. joined \in [User -> Nat] /\ member = invited \cup {creator}
    BY <1>1 DEF member
  <1>3. Idle \in Request
    BY DEF Idle, Request
  <1>4. QED BY <1>1, <1>2, <1>3 DEF Init, TypeOK

LEMMA TypeNext == TypeOK /\ [Next]_vars => TypeOK'
  <1> SUFFICES ASSUME TypeOK, [Next]_vars PROVE TypeOK'
    OBVIOUS
  <1>a. ASSUME UNCHANGED <<exists, joined, admin, now, cause>>, req' \in [Req -> Request]
        PROVE  TypeOK'
    BY <1>a DEF TypeOK, member
  <1>1. ASSUME NEW r \in Req, LoadAdd(r) PROVE TypeOK'
    <2>1. PICK u \in User, toAdd \in SUBSET User :
            Reply(r, "refused") \/ Become(r, Loaded("add", "insert", u, toAdd))
      BY <1>1 DEF LoadAdd
    <2>2. QED BY <1>1, <1>a, <2>1, LoadedType, BecomeType, ReplyType DEF LoadAdd
  <1>2. ASSUME NEW r \in Req, InsertParticipants(r) PROVE TypeOK'
    <2>1. CASE exists
      <3>1. joined' \in [User -> Nat] /\ member' = member \cup req[r].arg
        BY <1>2, <2>1, RowsInserted DEF InsertParticipants, TypeOK, Request
      <3>2. req' \in [Req -> Request] /\ cause' \in SUBSET Cause
        BY <1>2, <2>1, GotoType, BlameType DEF InsertParticipants, Cause
      <3>3. QED BY <1>2, <2>1, <3>1, <3>2 DEF InsertParticipants, TypeOK
    <2>2. CASE ~exists
      <3>1. req' \in [Req -> Request]
        BY <1>2, <2>2, ReplyType DEF InsertParticipants
      <3>2. QED BY <1>a, <1>2, <2>2, <3>1 DEF InsertParticipants
    <2>3. QED BY <2>1, <2>2
  <1>3. ASSUME NEW r \in Req, LoadRemove(r) PROVE TypeOK'
    <2>1. PICK u \in User, target \in User :
            Reply(r, "refused") \/ Become(r, Loaded("remove", "deleteTarget", u, {target}))
      BY <1>3 DEF LoadRemove
    <2>2. QED BY <1>3, <1>a, <2>1, LoadedType, BecomeType, ReplyType DEF LoadRemove
  <1>b. ASSUME NEW u \in User, DeleteRow(u), UNCHANGED <<exists, now>>,
               req' \in [Req -> Request], cause' \in SUBSET Cause
        PROVE  TypeOK'
    BY <1>b, RowDeleted DEF TypeOK
  <1>4. ASSUME NEW r \in Req, DeleteTarget(r) PROVE TypeOK'
    <2>1. PICK target \in req[r].arg :
            IF target \in member
            THEN /\ DeleteRow(target)
                 /\ Blame("stale", Stale(r))
                 /\ Goto(r, "notice")
            ELSE /\ Reply(r, "error")
                 /\ UNCHANGED <<joined, admin, cause>>
      BY <1>4 DEF DeleteTarget
    <2>2. CASE target \in member
      <3>1. req' \in [Req -> Request] /\ cause' \in SUBSET Cause
        BY <2>1, <2>2, GotoType, BlameType DEF Cause
      <3>2. QED BY <1>4, <1>b, <2>1, <2>2, <3>1 DEF DeleteTarget, member
    <2>3. CASE target \notin member
      <3>1. req' \in [Req -> Request]
        BY <2>1, <2>3, ReplyType
      <3>2. QED BY <1>4, <1>a, <2>1, <2>3, <3>1 DEF DeleteTarget
    <2>4. QED BY <2>2, <2>3
  <1>5. ASSUME NEW r \in Req, LoadLeave(r) \/ LoadDeleteChat(r) PROVE TypeOK'
    <2>1. PICK u \in User, o \in {"leave", "deleteChat"} :
            Reply(r, "refused") \/ Become(r, Loaded(o, "deleteSelf", u, {}))
      BY <1>5 DEF LoadLeave, LoadDeleteChat
    <2>2. QED
      BY <1>5, <1>a, <2>1, LoadedType, BecomeType, ReplyType DEF LoadLeave, LoadDeleteChat
  <1>6. ASSUME NEW r \in Req, DeleteSelf(r) \/ DeleteOwnRow(r) PROVE TypeOK'
    <2>1. CASE req[r].actor \in member
      <3>1. cause' \in SUBSET Cause
        BY <1>6, <2>1, BlameType DEF DeleteSelf, DeleteOwnRow, Cause
      <3>2. req' \in [Req -> Request]
        BY <1>6, <2>1, GotoType DEF DeleteSelf, DeleteOwnRow, AfterLeaving
      <3>3. QED BY <1>6, <1>b, <2>1, <3>1, <3>2 DEF DeleteSelf, DeleteOwnRow, member
    <2>2. CASE req[r].actor \notin member
      <3>1. req' \in [Req -> Request]
        BY <1>6, <2>2, ReplyType DEF DeleteSelf, DeleteOwnRow
      <3>2. QED BY <1>6, <1>a, <2>2, <3>1 DEF DeleteSelf, DeleteOwnRow
    <2>3. QED BY <2>1, <2>2
  <1>7. ASSUME NEW r \in Req, PickSuccessor(r) PROVE TypeOK'
    <2>1. ASSUME NEW u \in User
          PROVE  [req[r] EXCEPT !.at = "promote", !.next = u] \in Request
      BY DEF TypeOK, Request
    <2>2. req' \in [Req -> Request]
      BY <1>7, <2>1, BecomeType, GotoType DEF PickSuccessor, member
    <2>3. QED BY <1>7, <1>a, <2>2 DEF PickSuccessor
  <1>8. ASSUME NEW r \in Req, Promote(r) PROVE TypeOK'
    <2>1. cause' \in SUBSET Cause
      BY <1>8, BlameType DEF Promote, Cause, TypeOK
    <2>2. req' \in [Req -> Request]
      BY <1>8, GotoType, ReplyType DEF Promote
    <2>3. admin' \in SUBSET member
      BY <1>8 DEF Promote, TypeOK
    <2>4. QED BY <1>8, <2>1, <2>2, <2>3 DEF Promote, TypeOK, member
  <1>9. ASSUME NEW r \in Req, DeleteGroup(r) PROVE TypeOK'
    <2>1. req' \in [Req -> Request]
      BY <1>9, ReplyType DEF DeleteGroup
    <2>2. CASE exists
      BY <1>9, <2>1, <2>2, AllDeleted DEF DeleteGroup, TypeOK
    <2>3. CASE ~exists
      BY <1>9, <1>a, <2>1, <2>3 DEF DeleteGroup
    <2>4. QED BY <2>2, <2>3
  <1>10. ASSUME NEW r \in Req, CountLeft(r) \/ Notice(r) PROVE TypeOK'
    <2>1. req' \in [Req -> Request]
      BY <1>10, GotoType, ReplyType DEF CountLeft, Notice
    <2>2. QED BY <1>10, <1>a, <2>1 DEF CountLeft, Notice
  <1>11. ASSUME NEW r \in Req, Fail(r) PROVE TypeOK'
    <2>1. req' \in [Req -> Request] /\ cause' \in SUBSET Cause
      BY <1>11, ReplyType, BlameType DEF Fail, Cause
    <2>2. QED BY <1>11, <2>1 DEF Fail, TypeOK, member
  <1>12. CASE UNCHANGED vars
    BY <1>12, <1>a DEF vars, TypeOK
  <1>13. QED
    BY <1>1, <1>2, <1>3, <1>4, <1>5, <1>6, <1>7, <1>8, <1>9, <1>10, <1>11, <1>12 DEF Next

\* Types and the database's own constraints: administrators are participants,
\* participants need their chat.
THEOREM TypeCorrect == Spec => []TypeOK
  <1>1. QED BY TypeInit, TypeNext, PTL DEF Spec

-----------------------------------------------------------------------------
(***************************************************************************)
(* The inductive invariant.  As long as no handler has acted on a stale    *)
(* snapshot, there is at most one administrator or one leaver handing the  *)
(* administration over, never both, and a chat about to be deleted is      *)
(* empty and stays so: every later insertion would be stale.               *)
(***************************************************************************)
HandingOver(r) == req[r].at \in {"pick", "promote"}

Finishing(r) == req[r].at \in {"count", "deleteGroup"}

\* What a handler has checked before it writes.
LocalOK(r) ==
  /\ req[r].at # "end" => req[r].reply = "none"
  /\ req[r].at \in {"insert", "deleteTarget", "deleteSelf"} => req[r].actor \in req[r].snap
  /\ req[r].at = "insert" => Cardinality(req[r].snap \cup req[r].arg) <= GROUP_MAX_MEMBERS
  /\ req[r].at = "deleteTarget" => req[r].isAdmin /\ req[r].actor \notin req[r].arg

LocalsOK == \A r \in Req : LocalOK(r)

OneHand ==
  "stale" \notin cause =>
    /\ \A u, v \in admin : u = v
    /\ \A r \in Req : HandingOver(r) => admin = {}
    /\ \A r, q \in Req : HandingOver(r) /\ HandingOver(q) => r = q

NoRebirth ==
  "stale" \notin cause => \A r \in Req : req[r].at = "deleteGroup" => member = {}

WithinLimit == "stale" \notin cause => Cardinality(member) <= GROUP_MAX_MEMBERS

NoOrphan ==
  cause = {} /\ member # {} /\ admin = {} => \E r \in Req : HandingOver(r)

NoEmptyChat ==
  exists /\ member = {} /\ cause \cap {"stale", "crash"} = {} => \E r \in Req : Finishing(r)

GroupInv == /\ TypeOK /\ LocalsOK
            /\ OneHand /\ NoRebirth /\ WithinLimit /\ NoOrphan /\ NoEmptyChat

\* A step that changes no row, by a handler that has and gets no duty.
Quiet(r) ==
  /\ UNCHANGED <<exists, member, admin, cause>>
  /\ ~HandingOver(r) /\ ~Finishing(r)
  /\ ~HandingOver(r)' /\ ~Finishing(r)'

Others(r) == \A q \in Req \ {r} : req'[q] = req[q]

LEMMA QuietKeeps ==
  ASSUME GroupInv, NEW r \in Req, Others(r), Quiet(r)
  PROVE  OneHand' /\ NoRebirth' /\ WithinLimit' /\ NoOrphan' /\ NoEmptyChat'
  <1> USE DEF GroupInv, Others, Quiet, HandingOver, Finishing
  <1>1. OneHand'
    BY DEF OneHand
  <1>2. NoRebirth'
    BY DEF NoRebirth
  <1>3. WithinLimit'
    BY DEF WithinLimit
  <1>4. NoOrphan'
    BY DEF NoOrphan
  <1>5. NoEmptyChat'
    BY DEF NoEmptyChat
  <1>6. QED BY <1>1, <1>2, <1>3, <1>4, <1>5

LEMMA ReplyIs ==
  ASSUME TypeOK, NEW r \in Req, NEW a, Reply(r, a)
  PROVE  req'[r].at = "end" /\ Others(r)
  <1>1. req'[r] = [Idle EXCEPT !.at = "end", !.reply = a] /\ Others(r)
    BY BecomeIs DEF Reply, Others
  <1>2. QED BY <1>1 DEF Idle

LEMMA GotoIs ==
  ASSUME TypeOK, NEW r \in Req, NEW l, Goto(r, l)
  PROVE  /\ req'[r].at = l /\ req'[r].reply = req[r].reply
         /\ Others(r)
  <1>1. req'[r] = [req[r] EXCEPT !.at = l] /\ Others(r)
    BY BecomeIs DEF Goto, Others
  <1>2. QED BY <1>1 DEF TypeOK, Request

LEMMA LoadedIs ==
  ASSUME TypeOK, NEW r \in Req, NEW o, NEW l, NEW u, NEW arg, Become(r, Loaded(o, l, u, arg))
  PROVE  /\ req'[r].at = l /\ req'[r].reply = "none"
         /\ req'[r].actor = u /\ req'[r].snap = member /\ req'[r].arg = arg
         /\ req'[r].isAdmin = (u \in admin)
         /\ Others(r)
  <1> DEFINE b == u \in admin
  <1>1. req'[r] = Loaded(o, l, u, arg) /\ Others(r)
    BY BecomeIs DEF Others
  <1>2. Loaded(o, l, u, arg) =
          [Idle EXCEPT !.op = o, !.at = l, !.actor = u, !.snap = member, !.isAdmin = b,
                       !.arg = arg]
    BY DEF Loaded
  <1> HIDE DEF b
  <1>3. /\ req'[r].at = l /\ req'[r].reply = "none"
        /\ req'[r].actor = u /\ req'[r].snap = member /\ req'[r].arg = arg
        /\ req'[r].isAdmin = b
    BY <1>1, <1>2 DEF Idle
  <1>4. QED BY <1>1, <1>3 DEF b

LEMMA MembersAreFinite == IsFiniteSet(member) /\ \A S \in SUBSET User : IsFiniteSet(S)
  BY FiniteUsers, FS_Subset DEF member

LEMMA LocalsNext == TypeOK /\ LocalsOK /\ [Next]_vars => LocalsOK'
  <1> SUFFICES ASSUME TypeOK, LocalsOK, [Next]_vars PROVE LocalsOK'
    OBVIOUS
  <1>a. ASSUME NEW r \in Req, Others(r), LocalOK(r)' PROVE LocalsOK'
    <2>1. ASSUME NEW q \in Req, q # r PROVE LocalOK(q)'
      <3>1. req'[q] = req[q] /\ LocalOK(q)
        BY <1>a, <2>1 DEF LocalsOK, Others
      <3>2. QED BY <3>1 DEF LocalOK
    <2>2. QED BY <1>a, <2>1 DEF LocalsOK
  <1>b. ASSUME NEW r \in Req, NEW a, Reply(r, a) PROVE LocalsOK'
    BY <1>a, <1>b, ReplyIs DEF LocalOK
  <1>c. ASSUME NEW r \in Req, NEW l \in {"pick", "promote", "count", "deleteGroup", "notice"},
               Goto(r, l), req[r].reply = "none"
        PROVE  LocalsOK'
    BY <1>a, <1>c, GotoIs DEF LocalOK
  <1>1. ASSUME NEW r \in Req, LoadAdd(r) PROVE LocalsOK'
    <2>1. ASSUME NEW u \in member, NEW toAdd \in SUBSET User, toAdd \cap member = {},
                 Cardinality(member) + Cardinality(toAdd) <= GROUP_MAX_MEMBERS,
                 Become(r, Loaded("add", "insert", u, toAdd))
          PROVE  LocalsOK'
      <3>1. Cardinality(member \cup toAdd) = Cardinality(member) + Cardinality(toAdd) - Cardinality(member \cap toAdd)
        BY MembersAreFinite, FS_Union
      <3>2. Cardinality(member \cap toAdd) = 0
        <4>1. member \cap toAdd = {}
          BY <2>1
        <4>2. QED BY <4>1, FS_EmptySet
      <3>3. Cardinality(member) \in Nat /\ Cardinality(toAdd) \in Nat
        BY MembersAreFinite, FS_CardinalityType
      <3>4. Cardinality(member \cup toAdd) <= GROUP_MAX_MEMBERS
        BY <2>1, <3>1, <3>2, <3>3
      <3>5. /\ req'[r].at = "insert" /\ req'[r].reply = "none"
            /\ req'[r].actor = u /\ req'[r].snap = member /\ req'[r].arg = toAdd
            /\ Others(r)
        BY <2>1, LoadedIs
      <3>6. QED BY <1>a, <2>1, <3>4, <3>5 DEF LocalOK
    <2>2. QED BY <1>1, <1>b, <2>1 DEF LoadAdd
  <1>2. ASSUME NEW r \in Req, LoadRemove(r) PROVE LocalsOK'
    <2>1. ASSUME NEW u \in User, NEW target \in User, u \in admin, target # u,
                 Become(r, Loaded("remove", "deleteTarget", u, {target}))
          PROVE  LocalsOK'
      <3>1. u \in member
        BY <2>1 DEF TypeOK
      <3>2. /\ req'[r].at = "deleteTarget" /\ req'[r].reply = "none"
            /\ req'[r].actor = u /\ req'[r].snap = member /\ req'[r].arg = {target}
            /\ req'[r].isAdmin = (u \in admin)
            /\ Others(r)
        BY <2>1, LoadedIs
      <3>3. QED BY <1>a, <2>1, <3>1, <3>2 DEF LocalOK
    <2>2. QED BY <1>2, <1>b, <2>1 DEF LoadRemove
  <1>3. ASSUME NEW r \in Req, LoadLeave(r) \/ LoadDeleteChat(r) PROVE LocalsOK'
    <2>1. ASSUME NEW u \in User, u \in member, NEW o, Become(r, Loaded(o, "deleteSelf", u, {}))
          PROVE  LocalsOK'
      BY <1>a, <2>1, LoadedIs DEF LocalOK
    <2>2. QED BY <1>3, <1>b, <2>1 DEF LoadLeave, LoadDeleteChat
  <1>4. ASSUME NEW r \in Req, InsertParticipants(r) \/ DeleteTarget(r) \/ Promote(r)
        PROVE  LocalsOK'
    BY <1>4, <1>b, <1>c DEF InsertParticipants, DeleteTarget, Promote, At
  <1>5. ASSUME NEW r \in Req, DeleteSelf(r) \/ DeleteOwnRow(r) PROVE LocalsOK'
    <2>1. AfterLeaving(r) \in {"pick", "deleteGroup", "notice"}
      BY DEF AfterLeaving
    <2>2. QED BY <1>5, <1>b, <1>c, <2>1 DEF DeleteSelf, DeleteOwnRow, At
  <1>6. ASSUME NEW r \in Req, PickSuccessor(r) PROVE LocalsOK'
    <2>1. ASSUME NEW u, Become(r, [req[r] EXCEPT !.at = "promote", !.next = u]) PROVE LocalsOK'
      <3>1. req'[r] = [req[r] EXCEPT !.at = "promote", !.next = u] /\ Others(r)
        BY <2>1, BecomeIs DEF Others
      <3>2. req'[r].at = "promote" /\ req'[r].reply = req[r].reply
        BY <3>1 DEF TypeOK, Request
      <3>3. QED BY <1>6, <1>a, <3>1, <3>2 DEF LocalOK, PickSuccessor, At
    <2>2. QED BY <1>6, <1>c, <2>1 DEF PickSuccessor, At
  <1>7. ASSUME NEW r \in Req, DeleteGroup(r) \/ CountLeft(r) \/ Notice(r) \/ Fail(r)
        PROVE  LocalsOK'
    BY <1>7, <1>b, <1>c DEF DeleteGroup, CountLeft, Notice, Fail, At
  <1>8. CASE UNCHANGED vars
    BY <1>8 DEF vars, LocalsOK, LocalOK
  <1>9. QED BY <1>1, <1>2, <1>3, <1>4, <1>5, <1>6, <1>7, <1>8 DEF Next

\* A write under the loaded membership is what keeps "stale" out.
LEMMA BlameIs ==
  ASSUME TypeOK, NEW c \in Cause, NEW bad \in BOOLEAN, Blame(c, bad)
  PROVE  /\ cause \subseteq cause'
         /\ cause' \subseteq cause \cup {c}
         /\ bad => c \in cause'
  BY DEF Blame

LEMMA StaleIs ==
  ASSUME NEW r \in Req, Blame("stale", Stale(r)), "stale" \notin cause'
  PROVE  /\ cause' = cause
         /\ member = req[r].snap
         /\ (req[r].actor \in admin) = req[r].isAdmin
  BY DEF Blame, Stale

LEMMA SubsetWithin ==
  ASSUME TypeOK, NEW S \in SUBSET member, Cardinality(member) <= GROUP_MAX_MEMBERS
  PROVE  Cardinality(S) <= GROUP_MAX_MEMBERS
  <1>1. Cardinality(S) <= Cardinality(member)
    BY MembersAreFinite, FS_Subset
  <1>2. Cardinality(S) \in Nat /\ Cardinality(member) \in Nat
    BY <1>1, MembersAreFinite, FS_Subset, FS_CardinalityType
  <1>3. QED BY <1>1, <1>2, Limits

LEMMA InsertKeeps ==
  ASSUME GroupInv, NEW r \in Req, InsertParticipants(r)
  PROVE  OneHand' /\ NoRebirth' /\ WithinLimit' /\ NoOrphan' /\ NoEmptyChat'
  <1> USE DEF GroupInv
  <1>1. CASE ~exists
    BY <1>1, QuietKeeps, ReplyIs
    DEF InsertParticipants, Quiet, HandingOver, Finishing, At, member
  <1>2. CASE exists
    <2>1. /\ member' = member \cup req[r].arg
          /\ exists' = exists /\ admin' = admin
          /\ Blame("stale", Stale(r))
          /\ req[r].at = "insert" /\ req'[r].at = "notice" /\ Others(r)
      BY <1>2, RowsInserted, GotoIs DEF InsertParticipants, TypeOK, Request, At
    <2>2. req[r].actor \in req[r].snap
      BY <2>1 DEF LocalsOK, LocalOK
    <2>3. "stale" \notin cause' => cause' = cause /\ member = req[r].snap /\ member # {}
      BY <2>1, <2>2, StaleIs
    <2>4. OneHand'
      BY <2>1, <2>3 DEF OneHand, HandingOver, Others
    <2>5. NoRebirth'
      BY <2>1, <2>3 DEF NoRebirth, Others
    <2>6. WithinLimit'
      BY <2>1, <2>3 DEF WithinLimit, LocalsOK, LocalOK
    <2>7. NoOrphan'
      BY <2>1, <2>3 DEF NoOrphan, HandingOver, Others
    <2>8. NoEmptyChat'
      BY <2>1, <2>3 DEF NoEmptyChat
    <2>9. QED BY <2>4, <2>5, <2>6, <2>7, <2>8
  <1>3. QED BY <1>1, <1>2

LEMMA DeleteTargetKeeps ==
  ASSUME GroupInv, NEW r \in Req, DeleteTarget(r)
  PROVE  OneHand' /\ NoRebirth' /\ WithinLimit' /\ NoOrphan' /\ NoEmptyChat'
  <1> USE DEF GroupInv
  <1>1. PICK target \in req[r].arg :
          IF target \in member
          THEN /\ DeleteRow(target)
               /\ Blame("stale", Stale(r))
               /\ Goto(r, "notice")
          ELSE /\ Reply(r, "error")
               /\ UNCHANGED <<joined, admin, cause>>
    BY DEF DeleteTarget
  <1>2. CASE target \notin member
    BY <1>1, <1>2, QuietKeeps, ReplyIs
    DEF DeleteTarget, Quiet, HandingOver, Finishing, At, member
  <1>3. CASE target \in member
    <2>1. /\ member' = member \ {target} /\ admin' = admin \ {target}
          /\ exists' = exists
          /\ Blame("stale", Stale(r))
          /\ req[r].at = "deleteTarget" /\ req'[r].at = "notice" /\ Others(r)
      BY <1>1, <1>3, RowDeleted, GotoIs DEF DeleteTarget, At, member
    <2>2. req[r].isAdmin /\ req[r].actor # target
      BY <2>1 DEF LocalsOK, LocalOK
    <2>3. "stale" \notin cause' => /\ cause' = cause
                                   /\ req[r].actor \in admin'
                                   /\ req[r].actor \in member'
      <3>1. "stale" \notin cause' => cause' = cause /\ req[r].actor \in admin
        BY <2>1, <2>2, StaleIs
      <3>2. QED BY <2>1, <2>2, <3>1 DEF TypeOK
    <2>4. OneHand'
      BY <2>1, <2>3 DEF OneHand, HandingOver, Others
    <2>5. NoRebirth'
      BY <2>1, <2>3 DEF NoRebirth, Others
    <2>6. WithinLimit'
      BY <2>1, <2>3, SubsetWithin DEF WithinLimit
    <2>7. NoOrphan'
      BY <2>1, <2>3 DEF NoOrphan
    <2>8. NoEmptyChat'
      BY <2>1, <2>3 DEF NoEmptyChat
    <2>9. QED BY <2>4, <2>5, <2>6, <2>7, <2>8
  <1>4. QED BY <1>2, <1>3

LEMMA DeleteSelfKeeps ==
  ASSUME GroupInv, NEW r \in Req, DeleteSelf(r)
  PROVE  OneHand' /\ NoRebirth' /\ WithinLimit' /\ NoOrphan' /\ NoEmptyChat'
  <1> USE DEF GroupInv
  <1>1. CASE req[r].actor \notin member
    BY <1>1, QuietKeeps, ReplyIs
    DEF DeleteSelf, Quiet, HandingOver, Finishing, At, member
  <1>2. CASE req[r].actor \in member
    <2> DEFINE u == req[r].actor
    <2>1. /\ member' = member \ {u} /\ admin' = admin \ {u}
          /\ exists' = exists
          /\ Blame("stale", Stale(r))
          /\ req[r].at = "deleteSelf" /\ req'[r].at = AfterLeaving(r) /\ Others(r)
      BY <1>2, RowDeleted, GotoIs DEF DeleteSelf, At, member
    <2>2. ASSUME "stale" \notin cause'
          PROVE  /\ cause' = cause
                 /\ req'[r].at = IF member = {u} THEN "deleteGroup"
                                  ELSE IF u \in admin THEN "pick" ELSE "notice"
      BY <2>1, <2>2, StaleIs DEF AfterLeaving
    <2>3. ASSUME "stale" \notin cause', u \in admin
          PROVE  admin' = {} /\ \A q \in Req : ~HandingOver(q)
      BY <2>1, <2>2, <2>3 DEF OneHand
    <2>4. ASSUME "stale" \notin cause', u \notin admin
          PROVE  admin' = admin /\ ~HandingOver(r)'
      BY <2>1, <2>2, <2>4 DEF HandingOver
    <2>5. OneHand'
      <3>1. CASE u \in admin
        BY <2>1, <2>3, <3>1 DEF OneHand, HandingOver, Others
      <3>2. CASE u \notin admin
        BY <2>1, <2>2, <2>4, <3>2 DEF OneHand, HandingOver, Others
      <3>3. QED BY <3>1, <3>2
    <2>6. NoRebirth'
      BY <2>1, <2>2 DEF NoRebirth, Others
    <2>7. WithinLimit'
      BY <2>1, <2>2, SubsetWithin DEF WithinLimit
    <2>8. NoOrphan'
      <3>1. CASE u \in admin
        <4>1. cause' = {} /\ member' # {} => req'[r].at = "pick"
          BY <2>1, <2>2, <3>1
        <4>2. QED BY <4>1 DEF NoOrphan, HandingOver
      <3>2. CASE u \notin admin
        <4>1. cause' = {} => cause = {} /\ admin' = admin
          BY <2>2, <2>4, <3>2
        <4>2. ~HandingOver(r)
          BY <2>1 DEF HandingOver
        <4>3. QED BY <2>1, <4>1, <4>2 DEF NoOrphan, HandingOver, Others
      <3>3. QED BY <3>1, <3>2
    <2>9. NoEmptyChat'
      <3>1. "stale" \notin cause' /\ member' = {} => req'[r].at = "deleteGroup"
        BY <1>2, <2>1, <2>2
      <3>2. QED BY <3>1 DEF NoEmptyChat, Finishing
    <2>10. QED BY <2>5, <2>6, <2>7, <2>8, <2>9
  <1>3. QED BY <1>1, <1>2

LEMMA DeleteOwnRowKeeps ==
  ASSUME GroupInv, NEW r \in Req, DeleteOwnRow(r)
  PROVE  OneHand' /\ NoRebirth' /\ WithinLimit' /\ NoOrphan' /\ NoEmptyChat'
  <1> USE DEF GroupInv
  <1>1. CASE req[r].actor \notin member
    BY <1>1, QuietKeeps, ReplyIs
    DEF DeleteOwnRow, Quiet, HandingOver, Finishing, At, member
  <1>2. CASE req[r].actor \in member
    <2> DEFINE u == req[r].actor
    <2>1. /\ member' = member \ {u} /\ admin' = admin \ {u}
          /\ exists' = exists
          /\ Blame("deleteChat", u \in admin)
          /\ req[r].at = "deleteSelf" /\ req'[r].at = "count" /\ Others(r)
      BY <1>2, RowDeleted, GotoIs DEF DeleteOwnRow, At, member
    <2>2. /\ cause \subseteq cause'
          /\ u \in admin => cause' # {}
      BY <2>1 DEF Blame
    <2>3. OneHand'
      BY <2>1, <2>2 DEF OneHand, HandingOver, Others
    <2>4. NoRebirth'
      BY <2>1, <2>2 DEF NoRebirth, Others
    <2>5. WithinLimit'
      BY <2>1, <2>2, SubsetWithin DEF WithinLimit
    <2>6. NoOrphan'
      BY <2>1, <2>2 DEF NoOrphan, HandingOver, Others
    <2>7. NoEmptyChat'
      BY <2>1 DEF NoEmptyChat, Finishing
    <2>8. QED BY <2>3, <2>4, <2>5, <2>6, <2>7
  <1>3. QED BY <1>1, <1>2

LEMMA HandoverKeeps ==
  ASSUME GroupInv, NEW r \in Req, PickSuccessor(r) \/ Promote(r)
  PROVE  OneHand' /\ NoRebirth' /\ WithinLimit' /\ NoOrphan' /\ NoEmptyChat'
  <1> USE DEF GroupInv
  <1>1. ASSUME PickSuccessor(r), req'[r].at = "promote", Others(r)
        PROVE  OneHand' /\ NoRebirth' /\ WithinLimit' /\ NoOrphan' /\ NoEmptyChat'
    <2>1. UNCHANGED <<exists, member, admin, cause>> /\ req[r].at = "pick"
      BY <1>1 DEF PickSuccessor, At, member
    <2>2. OneHand'
      BY <1>1, <2>1 DEF OneHand, HandingOver, Others
    <2>3. NoRebirth' /\ WithinLimit'
      BY <1>1, <2>1 DEF NoRebirth, WithinLimit, Others
    <2>4. NoOrphan'
      BY <1>1, <2>1 DEF NoOrphan, HandingOver, Others
    <2>5. NoEmptyChat'
      BY <1>1, <2>1 DEF NoEmptyChat, Finishing, Others
    <2>6. QED BY <2>2, <2>3, <2>4, <2>5
  <1>2. ASSUME PickSuccessor(r), member = {}, Goto(r, "notice")
        PROVE  OneHand' /\ NoRebirth' /\ WithinLimit' /\ NoOrphan' /\ NoEmptyChat'
    <2>1. /\ UNCHANGED <<exists, member, admin, cause>>
          /\ req[r].at = "pick" /\ req'[r].at = "notice" /\ Others(r)
      BY <1>2, GotoIs DEF PickSuccessor, At, member
    <2>2. OneHand'
      BY <2>1 DEF OneHand, HandingOver, Others
    <2>3. NoRebirth' /\ WithinLimit'
      BY <2>1 DEF NoRebirth, WithinLimit, Others
    <2>4. NoOrphan'
      BY <1>2, <2>1 DEF NoOrphan
    <2>5. NoEmptyChat'
      BY <2>1 DEF NoEmptyChat, Finishing, Others
    <2>6. QED BY <2>2, <2>3, <2>4, <2>5
  <1>3. ASSUME NEW u, Become(r, [req[r] EXCEPT !.at = "promote", !.next = u])
        PROVE  req'[r].at = "promote" /\ Others(r)
    <2>1. req'[r] = [req[r] EXCEPT !.at = "promote", !.next = u] /\ Others(r)
      BY <1>3, BecomeIs DEF Others
    <2>2. QED BY <2>1 DEF TypeOK, Request
  <1>4. CASE Promote(r)
    <2>1. /\ UNCHANGED <<exists, member>> /\ cause \subseteq cause'
          /\ req[r].at = "promote" /\ ~HandingOver(r)' /\ ~Finishing(r)' /\ Others(r)
          /\ req'[r].at \in {"notice", "end"}
      BY <1>4, GotoIs, ReplyIs DEF Promote, At, member, HandingOver, Finishing, Blame
    <2>2. \/ "stale" \in cause'
          \/ admin' = admin \cup {req[r].next} /\ cause' = cause
      BY <1>4 DEF Promote, Blame
    <2>3. OneHand'
      BY <2>1, <2>2 DEF OneHand, HandingOver, Others
    <2>4. NoRebirth' /\ WithinLimit'
      BY <2>1, <2>2 DEF NoRebirth, WithinLimit, Others
    <2>5. NoOrphan'
      BY <2>1, <2>2 DEF NoOrphan
    <2>6. NoEmptyChat'
      BY <2>1 DEF NoEmptyChat, Finishing, Others
    <2>7. QED BY <2>3, <2>4, <2>5, <2>6
  <1>5. QED BY <1>1, <1>2, <1>3, <1>4 DEF PickSuccessor

LEMMA EndingKeeps ==
  ASSUME GroupInv, NEW r \in Req, DeleteGroup(r) \/ CountLeft(r) \/ Fail(r)
  PROVE  OneHand' /\ NoRebirth' /\ WithinLimit' /\ NoOrphan' /\ NoEmptyChat'
  <1> USE DEF GroupInv
  <1>1. CASE DeleteGroup(r)
    <2>1. /\ req[r].at = "deleteGroup" /\ req'[r].at = "end" /\ Others(r)
          /\ cause' = cause /\ ~exists' /\ member' = {} /\ admin' = {}
      <3>1. CASE exists
        BY <1>1, <3>1, ReplyIs, AllDeleted DEF DeleteGroup, At
      <3>2. CASE ~exists
        BY <1>1, <3>2, ReplyIs DEF DeleteGroup, At, TypeOK, member
      <3>3. QED BY <3>1, <3>2
    <2>2. Cardinality(member') = 0 /\ 0 <= GROUP_MAX_MEMBERS
      BY <2>1, FS_EmptySet, Limits
    <2>3. OneHand'
      BY <2>1 DEF OneHand, HandingOver, Others
    <2>4. QED BY <2>1, <2>2, <2>3 DEF NoRebirth, WithinLimit, NoOrphan, NoEmptyChat
  <1>2. CASE CountLeft(r)
    <2>1. /\ req[r].at = "count" /\ Others(r)
          /\ UNCHANGED <<exists, member, admin, cause>>
          /\ req'[r].at = IF member = {} THEN "deleteGroup" ELSE "end"
      BY <1>2, GotoIs, ReplyIs DEF CountLeft, At, member
    <2>2. OneHand'
      BY <2>1 DEF OneHand, HandingOver, Others
    <2>3. NoRebirth' /\ WithinLimit'
      BY <2>1 DEF NoRebirth, WithinLimit, Others
    <2>4. NoOrphan'
      BY <2>1 DEF NoOrphan, HandingOver, Others
    <2>5. NoEmptyChat'
      BY <2>1 DEF NoEmptyChat, Finishing, Others
    <2>6. QED BY <2>2, <2>3, <2>4, <2>5
  <1>3. CASE Fail(r)
    <2>1. /\ Others(r) /\ req'[r].at = "end"
          /\ UNCHANGED <<exists, member, admin>>
          /\ cause \subseteq cause' /\ cause' \subseteq cause \cup {"crash"}
          /\ HandingOver(r) \/ Finishing(r) => "crash" \in cause'
      BY <1>3, ReplyIs DEF Fail, Blame, member, HandingOver, Finishing
    <2>2. OneHand'
      BY <2>1 DEF OneHand, HandingOver, Others
    <2>3. NoRebirth' /\ WithinLimit'
      BY <2>1 DEF NoRebirth, WithinLimit, Others
    <2>4. NoOrphan'
      BY <2>1 DEF NoOrphan, HandingOver, Others
    <2>5. NoEmptyChat'
      BY <2>1 DEF NoEmptyChat, Finishing, Others
    <2>6. QED BY <2>2, <2>3, <2>4, <2>5
  <1>4. QED BY <1>1, <1>2, <1>3

LEMMA GroupNext == GroupInv /\ [Next]_vars => GroupInv'
  <1> SUFFICES ASSUME GroupInv, [Next]_vars PROVE GroupInv'
    OBVIOUS
  <1>0. TypeOK' /\ LocalsOK'
    BY TypeNext, LocalsNext DEF GroupInv
  <1> DEFINE Kept == OneHand' /\ NoRebirth' /\ WithinLimit' /\ NoOrphan' /\ NoEmptyChat'
  <1>a. ASSUME NEW r \in Req, req[r].at \in {"start", "notice"}, Others(r),
               UNCHANGED <<exists, joined, admin, cause>>,
               req'[r].at \in {"insert", "deleteTarget", "deleteSelf", "end"}
        PROVE  Kept
    BY <1>a, QuietKeeps DEF Quiet, HandingOver, Finishing, member
  <1>1. ASSUME NEW r \in Req, LoadAdd(r) \/ LoadRemove(r) \/ LoadLeave(r) \/ LoadDeleteChat(r)
        PROVE  Kept
    <2>1. PICK u \in User, arg \in SUBSET User,
               o \in {"add", "remove", "leave", "deleteChat"},
               l \in {"insert", "deleteTarget", "deleteSelf"} :
            Reply(r, "refused") \/ Become(r, Loaded(o, l, u, arg))
      BY <1>1 DEF LoadAdd, LoadRemove, LoadLeave, LoadDeleteChat
    <2>2. req'[r].at \in {"insert", "deleteTarget", "deleteSelf", "end"} /\ Others(r)
      BY <2>1, LoadedIs, ReplyIs DEF GroupInv
    <2>3. req[r].at = "start" /\ UNCHANGED <<exists, joined, admin, cause>>
      BY <1>1 DEF LoadAdd, LoadRemove, LoadLeave, LoadDeleteChat, At
    <2>4. QED BY <1>a, <2>2, <2>3
  <1>2. ASSUME NEW r \in Req, Notice(r) PROVE Kept
    BY <1>2, <1>a, ReplyIs DEF Notice, At, GroupInv
  <1>3. ASSUME UNCHANGED vars PROVE Kept
    <2>1. UNCHANGED <<exists, member, admin, req, cause>>
      BY <1>3 DEF vars, member
    <2>2. OneHand'
      BY <2>1 DEF GroupInv, OneHand, HandingOver
    <2>3. NoRebirth' /\ WithinLimit' /\ NoOrphan' /\ NoEmptyChat'
      BY <2>1 DEF GroupInv, NoRebirth, WithinLimit, NoOrphan, NoEmptyChat, HandingOver,
                  Finishing
    <2>4. QED BY <2>2, <2>3
  <1>4. Kept
    BY <1>1, <1>2, <1>3, InsertKeeps, DeleteTargetKeeps, DeleteSelfKeeps, DeleteOwnRowKeeps,
       HandoverKeeps, EndingKeeps DEF Next
  <1>5. QED BY <1>0, <1>4 DEF GroupInv

LEMMA GroupInit == Init => GroupInv
  <1> SUFFICES ASSUME Init PROVE GroupInv
    OBVIOUS
  <1>0. TypeOK
    BY TypeInit
  <1>1. PICK creator \in User, invited \in SUBSET User :
          /\ creator \notin invited
          /\ Cardinality(invited) + 1 <= GROUP_MAX_MEMBERS
          /\ joined = [u \in User |-> IF u \in invited \cup {creator} THEN 1 ELSE 0]
          /\ admin = {creator}
    BY DEF Init
  <1>2. member = invited \cup {creator}
    BY <1>1 DEF member
  <1>3. Cardinality(member) <= GROUP_MAX_MEMBERS
    BY <1>1, <1>2, MembersAreFinite, FS_AddElement
  <1>4. \A r \in Req : req[r].at = "start" /\ req[r].reply = "none"
    BY DEF Init, Idle
  <1>5. QED
    BY <1>0, <1>1, <1>2, <1>3, <1>4
    DEF GroupInv, LocalsOK, LocalOK, OneHand, NoRebirth, WithinLimit, NoOrphan, NoEmptyChat,
        HandingOver

LEMMA GroupInvariant == Spec => []GroupInv
  <1>1. QED BY GroupInit, GroupNext, PTL DEF Spec

\* leaveGroup never orphans a group: an administrator is missing only while one
\* is handing over, or after a stale write, a crash or "delete chat".
THEOREM NoUnexplainedOrphan == Spec => []OrphansAreExplained
  <1>1. GroupInv => OrphansAreExplained
    <2> SUFFICES ASSUME GroupInv, member # {}, admin = {}, cause = {}
                 PROVE  Pending("pick") \/ Pending("promote")
      BY DEF OrphansAreExplained
    <2>1. PICK r \in Req : HandingOver(r)
      BY DEF GroupInv, NoOrphan
    <2>2. req[r].reply = "none"
      BY <2>1 DEF GroupInv, LocalsOK, LocalOK, HandingOver
    <2>3. QED BY <2>1, <2>2 DEF Pending, At, HandingOver
  <1>2. QED BY <1>1, GroupInvariant, PTL

\* Whoever goes last takes the chat along, unless handlers overlapped or failed.
THEOREM NoUnexplainedEmptyChat == Spec => []EmptyChatsAreExplained
  <1>1. GroupInv => EmptyChatsAreExplained
    <2> SUFFICES ASSUME GroupInv, exists, member = {}, cause \cap {"stale", "crash"} = {}
                 PROVE  Pending("count") \/ Pending("deleteGroup")
      BY DEF EmptyChatsAreExplained
    <2>1. PICK r \in Req : Finishing(r)
      BY DEF GroupInv, NoEmptyChat
    <2>2. req[r].reply = "none"
      BY <2>1 DEF GroupInv, LocalsOK, LocalOK, Finishing
    <2>3. QED BY <2>1, <2>2 DEF Pending, At, Finishing
  <1>2. QED BY <1>1, GroupInvariant, PTL

\* The limit on the size yields only to a stale insertion.
THEOREM LimitHolds == Spec => []LimitIsExplained
  <1>1. GroupInv => LimitIsExplained
    <2> SUFFICES ASSUME GroupInv, "stale" \notin cause
                 PROVE  ~(Cardinality(member) > GROUP_MAX_MEMBERS)
      BY DEF LimitIsExplained
    <2>1. Cardinality(member) <= GROUP_MAX_MEMBERS /\ Cardinality(member) \in Nat
      BY MembersAreFinite, FS_CardinalityType DEF GroupInv, WithinLimit
    <2>2. QED BY <2>1, Limits
  <1>2. QED BY <1>1, GroupInvariant, PTL

\* However many leave at once, the administration goes to one participant.
THEOREM OneAdministrator == Spec => []SecondAdminIsExplained
  <1>1. GroupInv => SecondAdminIsExplained
    <2> SUFFICES ASSUME GroupInv, "stale" \notin cause PROVE ~(Cardinality(admin) > 1)
      BY DEF SecondAdminIsExplained
    <2>1. ASSUME NEW u \in admin PROVE admin = {u}
      BY <2>1 DEF GroupInv, OneHand
    <2>2. Cardinality(admin) \in {0, 1}
      BY <2>1, FS_EmptySet, FS_Singleton
    <2>3. QED BY <2>2
  <1>2. QED BY <1>1, GroupInvariant, PTL

\* A chat goes only when it is empty, but for someone inserted by a stale add.
THEOREM ChatsAreNotPulledAway == Spec => NobodyLosesALiveChat
  <1>1. GroupInv /\ [Next]_vars => [exists /\ ~exists' => member = {} \/ "stale" \in cause]_vars
    <2> SUFFICES ASSUME GroupInv, Next, exists, ~exists', "stale" \notin cause
                 PROVE  member = {}
      OBVIOUS
    <2>1. PICK r \in Req : DeleteGroup(r)
      BY DEF Next, LoadAdd, InsertParticipants, LoadRemove, DeleteTarget, LoadLeave, DeleteSelf,
             PickSuccessor, Promote, LoadDeleteChat, DeleteOwnRow, CountLeft, Notice, Fail
    <2>2. QED BY <2>1 DEF DeleteGroup, At, GroupInv, NoRebirth
  <1>2. QED BY <1>1, GroupInvariant, PTL DEF Spec, NobodyLosesALiveChat

\* A group with participants has exactly one administrator, but for the overlaps named.
THEOREM AdministrationExplained == Spec => []AdministrationIsExplained
  BY NoUnexplainedOrphan, OneAdministrator, PTL DEF AdministrationIsExplained

\* A chat has a participant and no more than the limit, but for the overlaps named.
THEOREM SizeExplained == Spec => []SizeIsExplained
  BY NoUnexplainedEmptyChat, LimitHolds, PTL DEF SizeIsExplained

-----------------------------------------------------------------------------
(***************************************************************************)
(* Calls.                                                                  *)
(***************************************************************************)

\* What a handler intends follows from the status it has read.
Intention == {<<"RINGING", "ONGOING">>, <<"RINGING", "DECLINED">>, <<"RINGING", "MISSED">>,
              <<"ONGOING", "ENDED">>}

HandOK(r) ==
  /\ C!UnderWay(r) => <<hand[r].read, hand[r].to>> \in Intention
  /\ hand[r].at = "line" => hand[r].to \in C!Final

HandsOK == \A r \in Phone : HandOK(r)

\* Nobody has done anything before the call exists.
NotYet ==
  status = "none" => /\ answeredAt = 0 /\ endedAt = 0 /\ C!AllLines = 0 /\ screen = "none"
                     /\ \A r \in Phone : hand[r].at = "start"

LEMMA HandBecomesIs ==
  ASSUME C!TypeOK, NEW r \in Phone, NEW x, C!Become(r, x)
  PROVE  hand'[r] = x /\ \A q \in Phone \ {r} : hand'[q] = hand[q]
  BY DEF C!Become, C!TypeOK

LEMMA HandGoesIs ==
  ASSUME C!TypeOK, NEW r \in Phone, NEW l \in {"line", "emit", "end"}, C!Goto(r, l)
  PROVE  /\ hand'[r].at = l /\ hand'[r].read = hand[r].read /\ hand'[r].to = hand[r].to
         /\ \A q \in Phone \ {r} : hand'[q] = hand[q]
         /\ hand' \in [Phone -> C!Request]
  <1>1. hand'[r] = [hand[r] EXCEPT !.at = l] /\ \A q \in Phone \ {r} : hand'[q] = hand[q]
    BY HandBecomesIs DEF C!Goto
  <1>2. [hand[r] EXCEPT !.at = l] \in C!Request
    BY DEF C!TypeOK, C!Request
  <1>3. hand' \in [Phone -> C!Request]
    BY <1>2 DEF C!Goto, C!Become, C!TypeOK
  <1>4. QED BY <1>1, <1>3 DEF C!TypeOK, C!Request

LEMMA IntendIs ==
  ASSUME C!TypeOK, NEW r \in Phone, NEW to \in C!Status, C!Intend(r, to)
  PROVE  /\ hand'[r].at = "update" /\ hand'[r].read = status /\ hand'[r].to = to
         /\ \A q \in Phone \ {r} : hand'[q] = hand[q]
         /\ hand' \in [Phone -> C!Request]
  <1>1. /\ hand'[r] = [at |-> "update", read |-> status, to |-> to]
        /\ \A q \in Phone \ {r} : hand'[q] = hand[q]
    BY HandBecomesIs DEF C!Intend
  <1>2. [at |-> "update", read |-> status, to |-> to] \in C!Request
    BY DEF C!TypeOK, C!Request
  <1>3. hand' \in [Phone -> C!Request]
    BY <1>2 DEF C!Intend, C!Become, C!TypeOK
  <1>4. QED BY <1>1, <1>3

\* The three handlers begin alike: nothing is written, and the handler either
\* ends or intends what the status it has read allows.
Read(r) ==
  /\ hand[r].at = "start" /\ status # "none"
  /\ \/ C!Goto(r, "end")
     \/ \E to \in C!Final \cup {"ONGOING"} : C!Intend(r, to) /\ <<status, to>> \in Intention
  /\ UNCHANGED <<C!row, lines, screen, stale, overlapped, crashed>>

LEMMA ReadIs ==
  ASSUME C!TypeOK, NEW r \in Phone, C!AnswerRead(r) \/ C!DeclineRead(r) \/ C!EndRead(r)
  PROVE  Read(r)
  <1>1. CASE C!AnswerRead(r) \/ C!DeclineRead(r)
    BY <1>1 DEF C!AnswerRead, C!DeclineRead, C!PickUpOrRefuse, Read, Intention, C!Final
  <1>2. CASE C!EndRead(r)
    BY <1>2 DEF C!EndRead, Read, Intention, C!Final, C!TypeOK, C!Status
  <1>3. QED BY <1>1, <1>2

LEMMA CallTypeInit == C!Init => C!TypeOK
  <1>1. C!Idle \in C!Request
    BY DEF C!Idle, C!Request, C!Status
  <1>2. C!Init => lines \in [C!Final -> Nat]
    BY DEF C!Init
  <1>3. C!Init => hand \in [Phone -> C!Request]
    BY <1>1 DEF C!Init
  <1>4. C!Init => stale \in BOOLEAN /\ overlapped \in BOOLEAN /\ crashed \in BOOLEAN
    BY DEF C!Init
  <1>5. QED BY <1>2, <1>3, <1>4 DEF C!Init, C!TypeOK, C!Status

LEMMA CallTypeNext == C!TypeOK /\ [C!Next]_C!vars => C!TypeOK'
  <1> SUFFICES ASSUME C!TypeOK, [C!Next]_C!vars PROVE C!TypeOK'
    OBVIOUS
  <1>1. ASSUME NEW u \in Party, C!StartCall(u) PROVE C!TypeOK'
    BY <1>1 DEF C!StartCall, C!TypeOK, C!Status
  <1>2. ASSUME NEW r \in Phone, Read(r) PROVE C!TypeOK'
    <2>1. hand' \in [Phone -> C!Request]
      BY <1>2, HandGoesIs, IntendIs DEF Read, C!Status
    <2>2. QED BY <1>2, <2>1 DEF Read, C!TypeOK, C!row
  <1>3. ASSUME NEW r \in Phone, C!Update(r) PROVE C!TypeOK'
    <2>1. hand' \in [Phone -> C!Request]
      BY <1>3, HandGoesIs DEF C!Update
    <2>2. status' \in C!Status
      BY <1>3 DEF C!Update, C!TypeOK, C!Request
    <2>3. stale' \in BOOLEAN /\ overlapped' \in BOOLEAN
      BY <1>3 DEF C!Update, C!TypeOK
    <2>4. answeredAt' \in Nat /\ endedAt' \in Nat /\ clock' \in Nat
      BY <1>3 DEF C!Update, C!TypeOK
    <2>5. QED BY <1>3, <2>1, <2>2, <2>3, <2>4 DEF C!Update, C!TypeOK
  <1>4. ASSUME NEW r \in Phone, C!CallMessage(r) PROVE C!TypeOK'
    <2>1. lines' \in [C!Final -> Nat]
      <3>1. lines' = [f \in C!Final |-> IF f = hand[r].to THEN lines[f] + 1 ELSE lines[f]]
        BY <1>4 DEF C!CallMessage, C!TypeOK
      <3>2. QED BY <3>1 DEF C!TypeOK
    <2>2. QED BY <1>4, <2>1, HandGoesIs DEF C!CallMessage, C!TypeOK, C!row
  <1>5. ASSUME NEW r \in Phone, C!Emit(r) PROVE C!TypeOK'
    <2>1. hand[r].to \in C!Status
      BY DEF C!TypeOK, C!Request
    <2>2. QED BY <1>5, <2>1, HandGoesIs DEF C!Emit, C!TypeOK, C!row
  <1>6. ASSUME NEW r \in Phone, C!Fail(r) PROVE C!TypeOK'
    <2>1. crashed' \in BOOLEAN
      BY <1>6 DEF C!Fail, C!TypeOK
    <2>2. QED BY <1>6, <2>1, HandGoesIs DEF C!Fail, C!TypeOK, C!row
  <1>7. CASE UNCHANGED C!vars
    BY <1>7 DEF C!vars, C!TypeOK
  <1>8. QED BY <1>1, <1>2, <1>3, <1>4, <1>5, <1>6, <1>7, ReadIs DEF C!Next

\* The row, the lines and the handlers' locals keep their types.
THEOREM CallsTypeCorrect == C!Spec => []C!TypeOK
  <1>1. QED BY CallTypeInit, CallTypeNext, PTL DEF C!Spec

-----------------------------------------------------------------------------
(***************************************************************************)
(* The inductive invariant: while no handler has overwritten a status it   *)
(* had not seen, the times of the row agree with its status, and the line  *)
(* of a finished call is either written or in the hands of one handler.    *)
(***************************************************************************)
Writer(r) == hand[r].at = "line"

Telling(r) == hand[r].at \in {"line", "emit"}

RowOK ==
  ~stale =>
    /\ answeredAt <= clock /\ endedAt <= clock
    /\ status = "ONGOING" => answeredAt > 0 /\ endedAt = 0
    /\ status = "ENDED" => 0 < answeredAt /\ answeredAt < endedAt
    /\ status \in {"MISSED", "DECLINED"} => answeredAt = 0 /\ endedAt > 0
    /\ status \in {"none", "RINGING"} => answeredAt = 0 /\ endedAt = 0

LinesOK ==
  /\ ~stale =>
       /\ C!AllLines <= 1
       /\ status \notin C!Final => C!AllLines = 0 /\ \A r \in Phone : ~Writer(r)
       /\ \A r \in Phone : Writer(r) => C!AllLines = 0
       /\ \A r, q \in Phone : Writer(r) /\ Writer(q) => r = q
  /\ status \in C!Final => C!AllLines > 0 \/ crashed \/ \E r \in Phone : Writer(r)

ScreenOK ==
  ~overlapped /\ ~crashed =>
    /\ \A r \in Phone : Telling(r) => hand[r].to = status
    /\ \A r, q \in Phone : Telling(r) /\ Telling(q) => r = q
    /\ (\A r \in Phone : ~Telling(r)) => screen = status

CallInv == C!TypeOK /\ HandsOK /\ NotYet /\ RowOK /\ LinesOK /\ ScreenOK

LEMMA LinesAreNumbers == C!TypeOK => C!AllLines \in Nat
  BY DEF C!TypeOK, C!AllLines, C!Final

LEMMA LineWritten ==
  ASSUME C!TypeOK, NEW r \in Phone, hand[r].to \in C!Final, C!CallMessage(r)
  PROVE  C!AllLines' = C!AllLines + 1
  <1>1. \A f \in C!Final : lines'[f] = IF f = hand[r].to THEN lines[f] + 1 ELSE lines[f]
    BY DEF C!CallMessage, C!TypeOK
  <1>2. \A f \in C!Final : lines[f] \in Nat
    BY DEF C!TypeOK
  <1>3. QED BY <1>1, <1>2 DEF C!AllLines, C!Final

LEMMA CallNext == CallInv /\ [C!Next]_C!vars => CallInv'
  <1> SUFFICES ASSUME CallInv, [C!Next]_C!vars PROVE CallInv'
    OBVIOUS
  <1>0. C!TypeOK /\ C!TypeOK' /\ C!AllLines \in Nat
    BY CallTypeNext, LinesAreNumbers DEF CallInv
  <1> DEFINE Goal == HandsOK' /\ NotYet' /\ RowOK' /\ LinesOK' /\ ScreenOK'
  <1>a. \A r \in Phone : C!UnderWay(r) <=> hand[r].at = "update" \/ Telling(r)
    BY DEF C!UnderWay, Telling
  <1>1. ASSUME NEW u \in Party, C!StartCall(u) PROVE Goal
    <2>1. /\ \A r \in Phone : hand[r].at = "start"
          /\ hand' = hand /\ C!AllLines' = C!AllLines /\ status' = "RINGING" /\ screen' = "RINGING"
      BY <1>1 DEF C!StartCall, CallInv, NotYet, C!AllLines
    <2>2. HandsOK' /\ NotYet'
      BY <2>1 DEF HandsOK, HandOK, C!UnderWay, NotYet
    <2>3. RowOK'
      BY <1>1 DEF C!StartCall, CallInv, RowOK
    <2>4. LinesOK'
      BY <1>1, <2>1 DEF C!StartCall, CallInv, NotYet, LinesOK, Writer, C!Final
    <2>5. ScreenOK'
      BY <2>1 DEF ScreenOK, Telling
    <2>6. QED BY <2>2, <2>3, <2>4, <2>5
  <1>2. ASSUME NEW r \in Phone, Read(r) PROVE Goal
    <2>1. /\ UNCHANGED <<status, answeredAt, endedAt, clock, screen, stale, overlapped, crashed>>
          /\ C!AllLines' = C!AllLines /\ status # "none"
          /\ hand[r].at = "start" /\ hand'[r].at \in {"update", "end"}
          /\ hand'[r].at = "update" => <<hand'[r].read, hand'[r].to>> \in Intention
          /\ \A q \in Phone \ {r} : hand'[q] = hand[q]
      BY <1>0, <1>2, HandGoesIs, IntendIs DEF Read, C!row, C!AllLines, C!Status
    <2>2. HandsOK'
      BY <2>1 DEF CallInv, HandsOK, HandOK, C!UnderWay
    <2>3. NotYet' /\ RowOK'
      BY <2>1 DEF CallInv, NotYet, RowOK
    <2>4. LinesOK'
      BY <2>1 DEF CallInv, LinesOK, Writer
    <2>5. ScreenOK'
      BY <2>1 DEF CallInv, ScreenOK, Telling
    <2>6. QED BY <2>2, <2>3, <2>4, <2>5
  <1>3. ASSUME NEW r \in Phone, C!Update(r) PROVE Goal
    <2>1. /\ hand[r].at = "update" /\ <<hand[r].read, hand[r].to>> \in Intention
          /\ hand'[r].at = IF hand[r].to = "ONGOING" THEN "emit" ELSE "line"
          /\ hand'[r].read = hand[r].read /\ hand'[r].to = hand[r].to
          /\ \A q \in Phone \ {r} : hand'[q] = hand[q]
          /\ status' = hand[r].to /\ clock' = clock + 1 /\ C!AllLines' = C!AllLines
          /\ UNCHANGED <<screen, crashed>>
      BY <1>0, <1>3, HandGoesIs DEF C!Update, CallInv, HandsOK, HandOK, C!UnderWay, C!AllLines
    <2>2. status' # "none" /\ (status' \in C!Final <=> hand[r].to # "ONGOING")
      BY <2>1 DEF Intention, C!Final
    <2>3. /\ ~stale' => ~stale /\ status = hand[r].read
          /\ ~overlapped' => ~overlapped /\ \A q \in Phone \ {r} : ~C!UnderWay(q)
      BY <1>3 DEF C!Update
    <2>4. HandsOK' /\ NotYet'
      BY <2>1, <2>2 DEF CallInv, HandsOK, HandOK, C!UnderWay, NotYet, Intention, C!Final
    <2>5. RowOK'
      <3>1. CASE hand[r].to = "ONGOING"
        BY <1>0, <1>3, <2>1, <2>3, <3>1 DEF C!Update, CallInv, RowOK, Intention, C!TypeOK
      <3>2. CASE hand[r].to # "ONGOING"
        BY <1>0, <1>3, <2>1, <2>3, <3>2 DEF C!Update, CallInv, RowOK, Intention, C!TypeOK
      <3>3. QED BY <3>1, <3>2
    <2>6. LinesOK'
      <3>1. ~stale' => C!AllLines = 0 /\ \A q \in Phone : ~Writer(q)
        BY <2>1, <2>3 DEF CallInv, LinesOK, Intention, C!Final
      <3>2. QED BY <2>1, <2>2, <3>1 DEF LinesOK, Writer
    <2>7. ScreenOK'
      BY <1>a, <2>1, <2>3 DEF ScreenOK, Telling
    <2>8. QED BY <2>4, <2>5, <2>6, <2>7
  <1>4. ASSUME NEW r \in Phone, C!CallMessage(r) PROVE Goal
    <2>1. /\ hand[r].at = "line" /\ hand[r].to \in C!Final
          /\ hand'[r].at = "emit" /\ hand'[r].read = hand[r].read /\ hand'[r].to = hand[r].to
          /\ \A q \in Phone \ {r} : hand'[q] = hand[q]
          /\ UNCHANGED <<status, answeredAt, endedAt, clock, screen, stale, overlapped, crashed>>
      BY <1>0, <1>4, HandGoesIs DEF C!CallMessage, CallInv, HandsOK, HandOK, C!row
    <2>2. C!AllLines' = C!AllLines + 1
      BY <1>0, <1>4, <2>1, LineWritten
    <2>3. HandsOK'
      BY <2>1 DEF CallInv, HandsOK, HandOK, C!UnderWay
    <2>4. NotYet' /\ RowOK'
      BY <2>1 DEF CallInv, NotYet, RowOK
    <2>5. LinesOK'
      <3>1. ~stale => C!AllLines = 0 /\ status \in C!Final /\ \A q \in Phone : Writer(q) => q = r
        BY <2>1 DEF CallInv, LinesOK, Writer
      <3>2. \A q \in Phone : Writer(q)' => q # r /\ Writer(q)
        BY <2>1 DEF Writer
      <3>3. QED BY <1>0, <2>1, <2>2, <3>1, <3>2 DEF LinesOK
    <2>6. ScreenOK'
      BY <2>1 DEF CallInv, ScreenOK, Telling
    <2>7. QED BY <2>3, <2>4, <2>5, <2>6
  <1>5. ASSUME NEW r \in Phone, C!Emit(r) PROVE Goal
    <2>1. /\ hand[r].at = "emit" /\ hand'[r].at = "end" /\ screen' = hand[r].to
          /\ \A q \in Phone \ {r} : hand'[q] = hand[q]
          /\ UNCHANGED <<status, answeredAt, endedAt, clock, stale, overlapped, crashed>>
          /\ C!AllLines' = C!AllLines
      BY <1>0, <1>5, HandGoesIs DEF C!Emit, C!row, C!AllLines
    <2>2. HandsOK'
      BY <2>1 DEF CallInv, HandsOK, HandOK, C!UnderWay
    <2>3. NotYet' /\ RowOK'
      BY <2>1 DEF CallInv, NotYet, RowOK
    <2>4. LinesOK'
      BY <2>1 DEF CallInv, LinesOK, Writer
    <2>5. ScreenOK'
      BY <2>1 DEF CallInv, ScreenOK, Telling
    <2>6. QED BY <2>2, <2>3, <2>4, <2>5
  <1>6. ASSUME NEW r \in Phone, C!Fail(r) PROVE Goal
    <2>1. /\ C!UnderWay(r) /\ hand'[r].at = "end"
          /\ \A q \in Phone \ {r} : hand'[q] = hand[q]
          /\ UNCHANGED <<status, answeredAt, endedAt, clock, screen, stale, overlapped>>
          /\ C!AllLines' = C!AllLines
          /\ crashed \/ Telling(r) => crashed'
      BY <1>0, <1>6, <1>a, HandGoesIs DEF C!Fail, C!row, C!AllLines, Telling
    <2>2. HandsOK'
      BY <2>1 DEF CallInv, HandsOK, HandOK, C!UnderWay
    <2>3. NotYet' /\ RowOK'
      BY <2>1 DEF CallInv, NotYet, RowOK, C!UnderWay
    <2>4. LinesOK'
      BY <2>1 DEF CallInv, LinesOK, Writer, Telling
    <2>5. ScreenOK'
      BY <2>1 DEF CallInv, ScreenOK, Telling
    <2>6. QED BY <2>2, <2>3, <2>4, <2>5
  <1>7. ASSUME UNCHANGED C!vars PROVE Goal
    BY <1>7 DEF C!vars, CallInv, HandsOK, HandOK, C!UnderWay, NotYet, RowOK, LinesOK, Writer,
                ScreenOK, Telling, C!AllLines
  <1>8. Goal
    BY <1>0, <1>1, <1>2, <1>3, <1>4, <1>5, <1>6, <1>7, ReadIs DEF C!Next
  <1>9. QED BY <1>0, <1>8 DEF CallInv

LEMMA CallInit == C!Init => CallInv
  <1> SUFFICES ASSUME C!Init PROVE CallInv
    OBVIOUS
  <1>1. C!AllLines = 0
    BY DEF C!Init, C!AllLines, C!Final
  <1>2. \A r \in Phone : hand[r].at = "start"
    BY DEF C!Init, C!Idle
  <1>3. QED
    BY <1>1, <1>2, CallTypeInit
    DEF C!Init, CallInv, HandsOK, HandOK, C!UnderWay, NotYet, RowOK, LinesOK, Writer, ScreenOK,
        Telling, C!Final

LEMMA CallInvariant == C!Spec => []CallInv
  <1>1. QED BY CallInit, CallNext, PTL DEF C!Spec

\* The times of the row agree with its status until a handler overwrites a status
\* it has not seen.
THEOREM RowTellsOneStory == C!Spec => []C!HistoryIsTrue
  <1>1. CallInv => C!HistoryIsTrue
    BY DEF CallInv, RowOK, C!HistoryIsTrue
  <1>2. QED BY <1>1, CallInvariant, PTL

\* A finished call has its one line in the chat, under the same proviso.
THEOREM OneLinePerCall == C!Spec => []C!FinishedCallsHaveOneLine
  <1>1. CallInv => C!FinishedCallsHaveOneLine
    BY DEF CallInv, LinesOK, C!FinishedCallsHaveOneLine, Writer
  <1>2. QED BY <1>1, CallInvariant, PTL

\* At rest the screens show the row's status, unless handlers overlapped.
LEMMA ScreensAreTold == C!Spec => []C!ScreensAgree
  <1>1. CallInv => C!ScreensAgree
    BY DEF CallInv, ScreenOK, C!ScreensAgree, Telling, C!UnderWay
  <1>2. QED BY <1>1, CallInvariant, PTL

-----------------------------------------------------------------------------
(***************************************************************************)
(* Chats.                                                                  *)
(***************************************************************************)

\* createGroup and the handlers of GroupChat run in Chats as they do alone.
THEOREM ChatsRunTheGroup == ChatsSpec => Spec
  <1>1. ChatsInit => Init
    BY DEF ChatsInit
  <1>2. [ChatsNext]_chatvars => [Next]_vars
    BY DEF ChatsNext, Administers, Talks, chatvars, vars
  <1>3. QED BY <1>1, <1>2, PTL DEF ChatsSpec, Spec

\* startCall and the handlers of Calls run in Chats as they do alone.
THEOREM ChatsRunTheCall == ChatsSpec => C!Spec
  <1>1. ChatsInit => C!Init
    BY DEF ChatsInit
  <1>2. [ChatsNext]_chatvars => [C!Next]_C!vars
    BY DEF ChatsNext, Administers, Talks, chatvars, cvars, C!vars
  <1>3. QED BY <1>1, <1>2, PTL DEF ChatsSpec, C!Spec

\* answerCall, declineCall, endCall: when every handler has ended, the screens show what the row
\* says, unless handlers overlapped or failed.
THEOREM ScreensFollowTheRow == ChatsSpec => []ScreensAgree
  BY ChatsRunTheCall, ScreensAreTold, PTL DEF ScreensAgree

\* answerCall, declineCall, endCall: the row of a call agrees with itself and with its line in
\* the chat.
THEOREM HistoryTold == ChatsSpec => []HistoryAgrees
  <1>1. C!HistoryIsTrue /\ C!FinishedCallsHaveOneLine => HistoryAgrees
    BY DEF HistoryAgrees, C!HistoryAgrees
  <1>2. QED BY <1>1, ChatsRunTheCall, RowTellsOneStory, OneLinePerCall, PTL
=============================================================================
