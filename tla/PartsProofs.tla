---------------------------- MODULE PartsProofs ----------------------------
(* What is proved of the components of Parts, for any number of chats,      *)
(* messages, notes, comments, notifications and handlers.                   *)
EXTENDS Parts, FiniteSetTheorems, SequenceTheorems, TLAPS

\* What a step of the whole is to each of its components.
LEMMA PartStep ==
  ASSUME [Next]_vars
  PROVE  /\ [M!Next]_mvars /\ [R!Next]_rvars /\ [N!Next]_nvars /\ [O!Next]_ovars /\ [T!Next]_tvars
  BY DEF Next, Messages, Reads, Notifies, Notices, Talks, vars, mvars, rvars, nvars, ovars, tvars

\* The instances count with the operator of FiniteSets.
LEMMA Counting ==
  ASSUME NEW S
  PROVE  /\ O!Cardinality(S) = Cardinality(S)
         /\ T!Cardinality(S) = Cardinality(S)
         /\ N!Cardinality(S) = Cardinality(S)
  BY DEF O!Cardinality, T!Cardinality, N!Cardinality, Cardinality

-----------------------------------------------------------------------------
CreatorsOK ==
  kind = "note" /\ ~twice =>
    /\ \A m, n \in Entry : O!Exists(m) /\ O!Exists(n) => m = n
    /\ \A r \in Call : O!At(r, "create") =>
         /\ \A n \in Entry : ~O!Exists(n)
         /\ \A q \in Call : O!At(q, "create") => q = r

AnswerOK(r) ==
  /\ call[r].at \in {"send", "reply"} => call[r].note \in Entry
  /\ r \in sent => call[r].at \in {"reply", "end", "failed"} /\ message[r] \in {None, call[r].note}
  /\ message[r] # None => O!Exists(message[r])
  /\ O!At(r, "reply") => r \in sent
  /\ r \in reply => r \in sent
  /\ r \in sent /\ message[r] # None /\ O!At(r, "end") => r \in reply

AnswersOK == \A r \in Call : AnswerOK(r)

NotesInv == O!TypeOK /\ CreatorsOK /\ AnswersOK

LEMMA NotesTypeNext == O!TypeOK /\ [O!Next]_ovars => O!TypeOK'
  <1> SUFFICES ASSUME O!TypeOK, [O!Next]_ovars PROVE O!TypeOK'
    OBVIOUS
  <1> USE DEF O!TypeOK
  <1>1. ASSUME NEW r \in Call, O!Clear(r) PROVE O!TypeOK'
    BY <1>1 DEF O!Clear, O!Goto, O!Drop
  <1>2. ASSUME NEW r \in Call, O!Create(r) PROVE O!TypeOK'
    BY <1>2 DEF O!Create, O!Goto
  <1>3. ASSUME NEW r \in Call, O!Remove(r) PROVE O!TypeOK'
    BY <1>3 DEF O!Remove, O!Goto, O!Drop
  <1>4. ASSUME NEW r \in Call, O!ReplyRead(r) PROVE O!TypeOK'
    BY <1>4 DEF O!ReplyRead
  <1>5. ASSUME NEW r \in Call, O!Send(r) PROVE O!TypeOK'
    BY <1>5 DEF O!Send, O!Goto
  <1>6. ASSUME NEW r \in Call, O!Reply(r) PROVE O!TypeOK'
    BY <1>6 DEF O!Reply, O!Goto
  <1>7. ASSUME NEW r \in Call, O!Fail(r) PROVE O!TypeOK'
    BY <1>7 DEF O!Fail, O!Goto
  <1>8. CASE O!Lapse
    BY <1>8 DEF O!Lapse
  <1>9. CASE O!Cleanup
    BY <1>9 DEF O!Cleanup, O!Drop
  <1>10. CASE UNCHANGED ovars
    BY <1>10 DEF ovars
  <1>11. QED BY <1>1, <1>2, <1>3, <1>4, <1>5, <1>6, <1>7, <1>8, <1>9, <1>10 DEF O!Next

LEMMA NotesInit == Init => NotesInv
  <1> SUFFICES ASSUME O!Init PROVE NotesInv
    BY DEF Init
  <1>1. O!TypeOK
    BY DEF O!Init, O!TypeOK
  <1>2. CreatorsOK
    BY DEF O!Init, CreatorsOK, O!At, O!Exists
  <1>3. AnswersOK
    BY DEF O!Init, AnswersOK, AnswerOK, O!At, O!Exists
  <1>4. QED BY <1>1, <1>2, <1>3 DEF NotesInv

LEMMA CreatorsNext == NotesInv /\ [O!Next]_ovars => CreatorsOK'
  <1> SUFFICES ASSUME NotesInv, [O!Next]_ovars PROVE CreatorsOK'
    OBVIOUS
  <1> USE DEF NotesInv, O!TypeOK, CreatorsOK, O!At, O!Exists
  <1>1. ASSUME NEW r \in Call, O!Clear(r) PROVE CreatorsOK'
    BY <1>1 DEF O!Clear, O!Goto, O!Drop
  <1>2. ASSUME NEW r \in Call, O!Create(r) PROVE CreatorsOK'
    BY <1>2 DEF O!Create, O!Goto
  <1>3. ASSUME NEW r \in Call, O!Remove(r) PROVE CreatorsOK'
    BY <1>3 DEF O!Remove, O!Goto, O!Drop
  <1>4. ASSUME NEW r \in Call, O!ReplyRead(r) PROVE CreatorsOK'
    BY <1>4 DEF O!ReplyRead
  <1>5. ASSUME NEW r \in Call, O!Send(r) PROVE CreatorsOK'
    BY <1>5 DEF O!Send, O!Goto
  <1>6. ASSUME NEW r \in Call, O!Reply(r) PROVE CreatorsOK'
    BY <1>6 DEF O!Reply, O!Goto
  <1>7. ASSUME NEW r \in Call, O!Fail(r) PROVE CreatorsOK'
    BY <1>7 DEF O!Fail, O!Goto
  <1>8. CASE O!Lapse
    BY <1>8 DEF O!Lapse
  <1>9. CASE O!Cleanup
    BY <1>9 DEF O!Cleanup, O!Drop
  <1>10. CASE UNCHANGED ovars
    BY <1>10 DEF ovars
  <1>11. QED BY <1>1, <1>2, <1>3, <1>4, <1>5, <1>6, <1>7, <1>8, <1>9, <1>10 DEF O!Next

LEMMA AnswersNext == NotesInv /\ [O!Next]_ovars => AnswersOK'
  <1> SUFFICES ASSUME NotesInv, [O!Next]_ovars, NEW q \in Call PROVE AnswerOK(q)'
    BY DEF AnswersOK
  <1>0. AnswerOK(q)
    BY DEF NotesInv, AnswersOK
  <1> USE <1>0, NothingElse DEF NotesInv, O!TypeOK, AnswerOK, O!At, O!Exists
  <1>1. ASSUME NEW r \in Call, O!Clear(r) PROVE AnswerOK(q)'
    BY <1>1 DEF O!Clear, O!Goto, O!Drop
  <1>2. ASSUME NEW r \in Call, O!Create(r) PROVE AnswerOK(q)'
    BY <1>2 DEF O!Create, O!Goto
  <1>3. ASSUME NEW r \in Call, O!Remove(r) PROVE AnswerOK(q)'
    BY <1>3 DEF O!Remove, O!Goto, O!Drop
  <1>4. ASSUME NEW r \in Call, O!ReplyRead(r) PROVE AnswerOK(q)'
    BY <1>4 DEF O!ReplyRead
  <1>5. ASSUME NEW r \in Call, O!Send(r) PROVE AnswerOK(q)'
    BY <1>5 DEF O!Send, O!Goto
  <1>6. ASSUME NEW r \in Call, O!Reply(r) PROVE AnswerOK(q)'
    BY <1>6 DEF O!Reply, O!Goto
  <1>7. ASSUME NEW r \in Call, O!Fail(r) PROVE AnswerOK(q)'
    BY <1>7 DEF O!Fail, O!Goto
  <1>8. CASE O!Lapse
    BY <1>8 DEF O!Lapse
  <1>9. CASE O!Cleanup
    BY <1>9 DEF O!Cleanup, O!Drop
  <1>10. CASE UNCHANGED ovars
    BY <1>10 DEF ovars
  <1>11. QED BY <1>1, <1>2, <1>3, <1>4, <1>5, <1>6, <1>7, <1>8, <1>9, <1>10 DEF O!Next

\* create, reply, react: a user has one note at a time unless two look-ups overlapped, and every
\* answered message is among the replies, but if the handler has failed in between.
THEOREM NotesAgreeForAll == Spec => []NotesAgree
  <1>1. NotesInv /\ [Next]_vars => NotesInv'
    BY PartStep, NotesTypeNext, CreatorsNext, AnswersNext DEF NotesInv
  <1>2. NotesInv => NotesAgree
    <2> SUFFICES ASSUME NotesInv PROVE NotesAgree
      OBVIOUS
    <2>1. O!OneNoteEach
      <3> DEFINE there == {n \in Entry : O!Exists(n)}
      <3> SUFFICES ASSUME kind = "note", ~twice, Cardinality(there) > 1 PROVE FALSE
        BY Counting, Zenon DEF O!OneNoteEach
      <3>1. there = {} \/ \E n : there = {n}
        <4>1. \A m, n \in there : m = n
          BY DEF NotesInv, CreatorsOK
        <4>2. QED BY <4>1
      <3>2. Cardinality(there) \in {0, 1}
        <4> HIDE DEF there
        <4>1. QED BY <3>1, FS_EmptySet, FS_Singleton, Zenon
      <3>3. QED BY <3>2
    <2>2. O!AnswersAgree
      BY DEF NotesInv, AnswersOK, AnswerOK, O!AnswersAgree, O!TypeOK
    <2>3. QED BY <2>1, <2>2 DEF NotesAgree, O!NotesAgree
  <1>3. QED BY <1>1, <1>2, NotesInit, PTL DEF Spec

-----------------------------------------------------------------------------
RowOK(c) ==
  comment[c].parent # None =>
    /\ comment[comment[c].parent].parent = None
    /\ comment[comment[c].parent].status # "absent"
    /\ comment[c].status = "there" => comment[comment[c].parent].status = "there"

AddOK(r) ==
  talk[r].at = "add" /\ talk[r].of # None =>
    comment[talk[r].of].parent = None /\ comment[talk[r].of].status # "absent"

FlatOK == (\A c \in Entry : RowOK(c)) /\ (\A r \in Call : AddOK(r))

PinsOK ==
  /\ ~crowded => Cardinality(T!Pins) <= MaxPins
  /\ \A r \in Call : talk[r].at = "pin" /\ ~talk[r].passed => Cardinality(T!Pins) < MaxPins

ThreadsInv == T!TypeOK /\ FlatOK /\ PinsOK

LEMMA ThreadsInit == Init => ThreadsInv
  <1> SUFFICES ASSUME T!Init PROVE ThreadsInv
    BY DEF Init
  <1>1. T!TypeOK
    BY DEF T!Init, T!TypeOK, T!CommentRow, T!Request
  <1>2. FlatOK
    BY DEF T!Init, FlatOK, RowOK, AddOK
  <1>3. T!Pins = {}
    BY DEF T!Init, T!Pins, T!There
  <1>4. PinsOK
    BY <1>3, FS_EmptySet, RowsAreFinite DEF T!Init, PinsOK
  <1>5. QED BY <1>1, <1>2, <1>4 DEF ThreadsInv

LEMMA BecomeIs ==
  ASSUME T!TypeOK, NEW r \in Call, NEW l \in {"start", "add", "count", "pin", "unpin", "end"},
         NEW c \in Entry \cup {None}, T!Become(r, l, c)
  PROVE  /\ talk' \in [Call -> T!Request]
         /\ talk'[r].at = l /\ talk'[r].of = c /\ talk'[r].passed = FALSE
         /\ \A q \in Call \ {r} : talk'[q] = talk[q]
  BY DEF T!TypeOK, T!Request, T!Become

\* Pinning and unpinning leave the threads alone.
LEMMA PinKeepsShape ==
  ASSUME T!TypeOK, NEW r \in Call, T!Pin(r) \/ T!Unpin(r)
  PROVE  /\ comment' \in [Entry -> T!CommentRow]
         /\ \A c \in Entry : comment'[c].status = comment[c].status /\ comment'[c].parent = comment[c].parent
         /\ \A c \in Entry \ {talk[r].of} : comment'[c] = comment[c]
         /\ T!Unpin(r) => \A c \in Entry : comment'[c].pinned => comment[c].pinned
         /\ ~T!There(talk[r].of) => comment' = comment
  <1>1. PICK b \in BOOLEAN :
          /\ comment' = IF T!There(talk[r].of)
                        THEN [comment EXCEPT ![talk[r].of] = [comment[talk[r].of] EXCEPT !.pinned = b]]
                        ELSE comment
          /\ T!Unpin(r) => b = FALSE
    <2>1. CASE T!Pin(r)
      <3>1. ~T!Unpin(r)
        BY <2>1 DEF T!Pin, T!Unpin, T!At
      <3>2. QED BY <2>1, <3>1 DEF T!Pin
    <2>2. CASE T!Unpin(r)
      BY <2>2 DEF T!Unpin
    <2>3. QED BY <2>1, <2>2
  <1>2. QED BY <1>1 DEF T!TypeOK, T!CommentRow, T!There

LEMMA ThreadsTypeNext == T!TypeOK /\ [T!Next]_tvars => T!TypeOK'
  <1> SUFFICES ASSUME T!TypeOK, [T!Next]_tvars PROVE T!TypeOK'
    OBVIOUS
  <1> USE DEF T!TypeOK, T!CommentRow, T!Request
  <1>1. ASSUME NEW r \in Call, T!AddRead(r) PROVE T!TypeOK'
    <2>1. PICK c \in Entry \cup {None} : T!Become(r, "add", c)
      BY <1>1 DEF T!AddRead, T!Root
    <2>2. QED BY <1>1, <2>1, BecomeIs DEF T!AddRead
  <1>2. ASSUME NEW r \in Call, T!Add(r) PROVE T!TypeOK'
    <2>1. T!Become(r, "end", None) /\ crowded' = crowded
      BY <1>2 DEF T!Add
    <2>2. comment' \in [Entry -> T!CommentRow]
      <3>1. [status |-> "there", parent |-> talk[r].of, pinned |-> FALSE] \in T!CommentRow
        OBVIOUS
      <3>2. CASE comment' = comment
        BY <3>2
      <3>3. CASE \E c \in Entry :
                   comment' = [comment EXCEPT ![c] = [status |-> "there", parent |-> talk[r].of, pinned |-> FALSE]]
        <4> HIDE DEF T!CommentRow, T!Request
        <4>1. QED BY <3>1, <3>3
      <3>4. QED BY <1>2, <3>2, <3>3 DEF T!Add
    <2>3. QED BY <2>1, <2>2, BecomeIs
  <1>3. ASSUME NEW r \in Call, T!Remove(r) PROVE T!TypeOK'
    BY <1>3 DEF T!Remove, T!Become
  <1>4. ASSUME NEW r \in Call, T!PinRead(r) PROVE T!TypeOK'
    BY <1>4 DEF T!PinRead, T!Become
  <1>5. ASSUME NEW r \in Call, T!Count(r) PROVE T!TypeOK'
    BY <1>5 DEF T!Count, T!Become
  <1>6. ASSUME NEW r \in Call, T!Pin(r) PROVE T!TypeOK'
    BY <1>6 DEF T!Pin
  <1>7. ASSUME NEW r \in Call, T!Unpin(r) PROVE T!TypeOK'
    BY <1>7 DEF T!Unpin, T!Become
  <1>8. CASE UNCHANGED tvars
    BY <1>8 DEF tvars
  <1>9. QED BY <1>1, <1>2, <1>3, <1>4, <1>5, <1>6, <1>7, <1>8 DEF T!Next

LEMMA FlatNext == ThreadsInv /\ [T!Next]_tvars => FlatOK'
  <1> SUFFICES ASSUME ThreadsInv, [T!Next]_tvars PROVE FlatOK'
    OBVIOUS
  <1> USE NothingElse DEF ThreadsInv, T!TypeOK, T!CommentRow, T!Request, FlatOK, RowOK, AddOK, T!At, T!There
  <1>1. ASSUME NEW r \in Call, T!AddRead(r) PROVE FlatOK'
    BY <1>1 DEF T!AddRead, T!Become, T!Root
  <1>2. ASSUME NEW r \in Call, T!Add(r) PROVE FlatOK'
    BY <1>2 DEF T!Add, T!Become
  <1>3. ASSUME NEW r \in Call, T!Remove(r) PROVE FlatOK'
    BY <1>3 DEF T!Remove, T!Become
  <1>4. ASSUME NEW r \in Call, T!PinRead(r) PROVE FlatOK'
    BY <1>4 DEF T!PinRead, T!Become
  <1>5. ASSUME NEW r \in Call, T!Count(r) PROVE FlatOK'
    BY <1>5 DEF T!Count, T!Become
  <1>6. ASSUME NEW r \in Call, T!Pin(r) PROVE FlatOK'
    <2>1. /\ \A q \in Call : talk'[q].at = talk[q].at \/ talk'[q].at = "end"
          /\ \A q \in Call : talk'[q].of = talk[q].of
      BY <1>6 DEF T!Pin
    <2>2. QED BY <1>6, <2>1, PinKeepsShape
  <1>7. ASSUME NEW r \in Call, T!Unpin(r) PROVE FlatOK'
    <2>1. /\ \A q \in Call : talk'[q].at = talk[q].at \/ talk'[q].at = "end"
          /\ \A q \in Call : talk'[q].of = talk[q].of
      BY <1>7 DEF T!Unpin, T!Become
    <2>2. QED BY <1>7, <2>1, PinKeepsShape
  <1>8. CASE UNCHANGED tvars
    BY <1>8 DEF tvars
  <1>9. QED BY <1>1, <1>2, <1>3, <1>4, <1>5, <1>6, <1>7, <1>8 DEF T!Next

LEMMA PinsNext == ThreadsInv /\ [T!Next]_tvars => PinsOK'
  <1> SUFFICES ASSUME ThreadsInv, [T!Next]_tvars PROVE PinsOK'
    OBVIOUS
  <1>0. T!TypeOK /\ PinsOK
    BY DEF ThreadsInv
  <1> DEFINE n == Cardinality(T!Pins)
  <1>1. IsFiniteSet(T!Pins) /\ n \in Nat
    BY RowsAreFinite, FS_Subset, FS_CardinalityType DEF T!Pins
  <1>2. ASSUME T!Pins' \subseteq T!Pins PROVE n' \in Nat /\ n' <= n
    BY <1>1, <1>2, FS_Subset, FS_CardinalityType
  <1>3. ASSUME T!Pins' \subseteq T!Pins, crowded' = crowded,
               \A q \in Call : talk'[q].at = "pin" => (talk[q].at = "pin" /\ talk'[q].passed = talk[q].passed) \/ n < MaxPins
        PROVE  PinsOK'
    BY <1>0, <1>1, <1>2, <1>3, RowsAreFinite DEF PinsOK
  <1>4. ASSUME NEW r \in Call, NEW l \in {"start", "add", "count", "unpin", "end"}, NEW c \in Entry \cup {None},
               T!Become(r, l, c), T!Pins' \subseteq T!Pins, crowded' = crowded
        PROVE  PinsOK'
    <2>1. talk'[r].at = l /\ \A q \in Call \ {r} : talk'[q] = talk[q]
      BY <1>0, <1>4, BecomeIs
    <2>2. \A q \in Call : talk'[q].at = "pin" => talk[q].at = "pin" /\ talk'[q].passed = talk[q].passed
      BY <2>1
    <2>3. QED BY <1>3, <1>4, <2>2
  <1>5. ASSUME NEW r \in Call, T!AddRead(r) \/ T!Add(r) \/ T!Remove(r) \/ T!PinRead(r) \/ T!Unpin(r) PROVE PinsOK'
    <2>1. T!Pins' \subseteq T!Pins /\ crowded' = crowded
      <3>1. CASE T!AddRead(r) \/ T!PinRead(r)
        BY <3>1 DEF T!AddRead, T!PinRead, T!Pins, T!There
      <3>2. CASE T!Add(r)
        BY <3>2, <1>0 DEF T!Add, T!Pins, T!There, T!TypeOK
      <3>3. CASE T!Remove(r)
        BY <3>3, <1>0 DEF T!Remove, T!Pins, T!There, T!TypeOK, T!CommentRow
      <3>4. CASE T!Unpin(r)
        BY <3>4, <1>0, PinKeepsShape DEF T!Unpin, T!Pins, T!There
      <3>5. QED BY <1>5, <3>1, <3>2, <3>3, <3>4
    <2>2. \E l \in {"start", "add", "count", "unpin", "end"}, c \in Entry \cup {None} : T!Become(r, l, c)
      BY <1>0, <1>5 DEF T!AddRead, T!Add, T!Remove, T!PinRead, T!Unpin, T!Root, T!TypeOK, T!CommentRow, T!Request
    <2>3. QED BY <1>4, <2>1, <2>2
  <1>6. ASSUME NEW r \in Call, T!Count(r) PROVE PinsOK'
    <2>1. T!Pins' = T!Pins /\ crowded' = crowded
      BY <1>6 DEF T!Count, T!Pins, T!There
    <2>2. talk[r].of \in Entry \cup {None}
      BY <1>0 DEF T!TypeOK, T!Request
    <2>3. CASE n < MaxPins
      <3>1. T!Become(r, "pin", talk[r].of)
        BY <1>6, <2>3, Counting DEF T!Count
      <3>2. QED BY <1>0, <1>3, <2>1, <2>2, <2>3, <3>1, BecomeIs
    <2>4. CASE ~(n < MaxPins)
      <3>1. T!Become(r, "end", talk[r].of)
        BY <1>6, <2>4, Counting DEF T!Count
      <3>2. QED BY <1>4, <2>1, <2>2, <3>1
    <2>5. QED BY <2>3, <2>4
  <1>7. ASSUME NEW r \in Call, T!Pin(r) PROVE PinsOK'
    <2>1. T!At(r, "pin")
      BY <1>7 DEF T!Pin
    <2>2. \A q \in Call : talk'[q].at = "pin" => talk'[q].passed
      BY <1>0, <1>7 DEF T!Pin, T!TypeOK, T!Request, T!At
    <2>3. CASE T!There(talk[r].of)
      <3>1. T!Pins' \subseteq T!Pins \cup {talk[r].of}
        BY <1>0, <1>7, PinKeepsShape DEF T!Pins, T!There
      <3>2. n' \in Nat /\ n' <= n + 1
        <4>1. /\ IsFiniteSet(T!Pins \cup {talk[r].of})
              /\ Cardinality(T!Pins \cup {talk[r].of}) \in {n, n + 1}
          BY <1>1, FS_AddElement
        <4>2. IsFiniteSet(T!Pins') /\ n' <= Cardinality(T!Pins \cup {talk[r].of})
          BY <3>1, <4>1, FS_Subset
        <4>3. n' \in Nat
          BY <4>2, FS_CardinalityType
        <4>4. QED BY <1>1, <4>1, <4>2, <4>3
      <3>3. ~crowded' => ~crowded /\ ~talk[r].passed
        BY <1>7, <2>3 DEF T!Pin
      <3>4. ~crowded' => n < MaxPins
        BY <1>0, <2>1, <3>3 DEF PinsOK, T!At
      <3>5. QED BY <1>1, <2>2, <3>2, <3>4, RowsAreFinite DEF PinsOK
    <2>4. CASE ~T!There(talk[r].of)
      <3>1. T!Pins' = T!Pins
        BY <1>0, <1>7, <2>4, PinKeepsShape DEF T!Pins, T!There
      <3>2. crowded' = crowded
        BY <1>0, <1>7, <2>4 DEF T!Pin, T!TypeOK
      <3>3. QED BY <1>0, <2>2, <3>1, <3>2 DEF PinsOK
    <2>5. QED BY <2>3, <2>4
  <1>8. CASE UNCHANGED tvars
    BY <1>0, <1>8 DEF tvars, PinsOK, T!Pins, T!There
  <1>9. QED BY <1>5, <1>6, <1>7, <1>8 DEF T!Next

\* add, remove, pin: replies hang on comments that are none and that stay as long as they, and no
\* more comments are pinned than allowed unless two pins overlapped.
THEOREM ThreadsKeepTheirShape == Spec => []ThreadsKeepShape
  <1>1. ThreadsInv /\ [Next]_vars => ThreadsInv'
    BY PartStep, ThreadsTypeNext, FlatNext, PinsNext DEF ThreadsInv
  <1>2. ThreadsInv => ThreadsKeepShape
    <2> SUFFICES ASSUME ThreadsInv PROVE ThreadsKeepShape
      OBVIOUS
    <2>1. T!ThreadsAreFlat
      BY NothingElse DEF ThreadsInv, FlatOK, RowOK, T!ThreadsAreFlat, T!There, T!TypeOK, T!CommentRow
    <2>2. T!PinsAreLimited
      <3>1. Cardinality(T!Pins) \in Nat
        BY RowsAreFinite, FS_Subset, FS_CardinalityType DEF T!Pins
      <3>2. QED BY <3>1, Counting, RowsAreFinite DEF ThreadsInv, PinsOK, T!PinsAreLimited, T!TypeOK
    <2>3. QED BY <2>1, <2>2 DEF ThreadsKeepShape, T!ThreadsKeepShape
  <1>3. QED BY <1>1, <1>2, ThreadsInit, PTL DEF Spec

-----------------------------------------------------------------------------
LEMMA LeastOf ==
  ASSUME NEW S \in SUBSET Int, IsFiniteSet(S), S # {}
  PROVE  \E x \in S : \A y \in S : x <= y
  <1> DEFINE Below(x) == {y \in S : y <= x}
             Heads == {Below(x) : x \in S}
             Nested == StrictSubsetOrdering(S)
  <1>1. IsWellFoundedOn(Nested, FiniteSubsetsOf(S))
    BY FS_StrictSubsetOrderingWellFounded
  <1>2. Heads \subseteq FiniteSubsetsOf(S) /\ Heads # {}
    <2>1. ASSUME NEW x \in S PROVE Below(x) \in FiniteSubsetsOf(S)
      <3>1. Below(x) \in SUBSET S
        OBVIOUS
      <3> HIDE DEF Below
      <3>2. QED BY <3>1, FS_Subset DEF FiniteSubsetsOf
    <2> HIDE DEF Below
    <2>2. QED BY <2>1
  <1>3. \E A \in Heads : \A B \in Heads : <<B, A>> \notin Nested
    <2> HIDE DEF Heads, Nested
    <2>1. QED BY <1>1, <1>2, WFMin
  <1>4. PICK x \in S : \A B \in Heads : <<B, Below(x)>> \notin Nested
    BY <1>3
  <1>5. ASSUME NEW y \in S, ~(x <= y) PROVE FALSE
    <2>1. Below(y) \subseteq Below(x) /\ x \in Below(x) /\ x \notin Below(y)
      <3>1. S \subseteq Int /\ x \in Int /\ y \in Int
        OBVIOUS
      <3>2. x <= x /\ ~(x <= y)
        BY <1>5, <3>1 
      <3>3. ASSUME NEW z \in S, z <= y PROVE z <= x
        BY <1>5, <3>1, <3>3
      <3>4. QED BY <3>2, <3>3
    <2>2. <<Below(y), Below(x)>> \in Nested
      BY <2>1 DEF StrictSubsetOrdering
    <2>3. QED BY <1>4, <2>2
  <1>6. QED BY <1>5

LEMMA GreatestOf ==
  ASSUME NEW S \in SUBSET Int, IsFiniteSet(S), S # {}
  PROVE  \E x \in S : \A y \in S : x >= y
  <1> DEFINE Above(x) == {y \in S : y >= x}
             Heads == {Above(x) : x \in S}
             Nested == StrictSubsetOrdering(S)
  <1>1. IsWellFoundedOn(Nested, FiniteSubsetsOf(S))
    BY FS_StrictSubsetOrderingWellFounded
  <1>2. Heads \subseteq FiniteSubsetsOf(S) /\ Heads # {}
    <2>1. ASSUME NEW x \in S PROVE Above(x) \in FiniteSubsetsOf(S)
      <3>1. Above(x) \in SUBSET S
        OBVIOUS
      <3> HIDE DEF Above
      <3>2. QED BY <3>1, FS_Subset DEF FiniteSubsetsOf
    <2> HIDE DEF Above
    <2>2. QED BY <2>1
  <1>3. \E A \in Heads : \A B \in Heads : <<B, A>> \notin Nested
    <2> HIDE DEF Heads, Nested
    <2>1. QED BY <1>1, <1>2, WFMin
  <1>4. PICK x \in S : \A B \in Heads : <<B, Above(x)>> \notin Nested
    BY <1>3
  <1>5. ASSUME NEW y \in S, ~(x >= y) PROVE FALSE
    <2>1. Above(y) \subseteq Above(x) /\ x \in Above(x) /\ x \notin Above(y)
      <3>1. S \subseteq Int /\ x \in Int /\ y \in Int
        OBVIOUS
      <3>2. x >= x /\ ~(x >= y)
        BY <1>5, <3>1 
      <3>3. ASSUME NEW z \in S, z >= y PROVE z >= x
        BY <1>5, <3>1, <3>3
      <3>4. QED BY <3>2, <3>3
    <2>2. <<Above(y), Above(x)>> \in Nested
      BY <2>1 DEF StrictSubsetOrdering
    <2>3. QED BY <1>4, <2>2
  <1>6. QED BY <1>5

LEMMA MinIs ==
  ASSUME NEW S \in SUBSET Int, IsFiniteSet(S), S # {}
  PROVE  N!Min(S) \in S /\ \A y \in S : N!Min(S) <= y
  BY LeastOf DEF N!Min

LEMMA MaxIs ==
  ASSUME NEW S \in SUBSET Int, IsFiniteSet(S), S # {}
  PROVE  N!Max(S) \in S /\ \A y \in S : N!Max(S) >= y
  BY GreatestOf DEF N!Max

BadgeOK ==
  /\ \A h \in Handler : hand[h].at = "push" /\ ~hand[h].passed => hand[h].count = N!Unread
  /\ N!BadgeIsExplained

PageOK ==
  /\ page.at = "start" => page.cursor = MaxRows + 1
  /\ page.at # "start" => page.first <= Len(row)
  /\ page.at = "next" => \A i \in 1..page.first : i < page.cursor \/ i \in page.seen \/ N!Enclosed(i)
  /\ page.at = "end" => \A i \in 1..page.first : i \in page.seen \/ N!Enclosed(i)

NotificationsInv == N!TypeOK /\ BadgeOK /\ PageOK

LEMMA UnreadType == ASSUME N!TypeOK PROVE N!Unread \in 0..MaxRows
  <1>1. {i \in DOMAIN row : ~row[i].read} \subseteq 1..Len(row) /\ Len(row) \in Nat /\ Len(row) <= MaxRows
    BY DEF N!TypeOK
  <1>2. IsFiniteSet(1..Len(row)) /\ Cardinality(1..Len(row)) = Len(row)
    <2>1. /\ IsFiniteSet(1..Len(row))
          /\ Cardinality(1..Len(row)) = IF 1 > Len(row) THEN 0 ELSE Len(row) - 1 + 1
      BY <1>1, FS_Interval
    <2>2. QED BY <1>1, <2>1
  <1>3. /\ Cardinality({i \in DOMAIN row : ~row[i].read}) \in Nat
        /\ Cardinality({i \in DOMAIN row : ~row[i].read}) <= Len(row)
    BY <1>1, <1>2, FS_Subset, FS_CardinalityType
  <1>4. QED BY <1>1, <1>3, Counting, SizesArePositive DEF N!Unread

LEMMA PassByIs ==
  ASSUME N!TypeOK, NEW h \in Handler, NEW x \in N!Handling, x.at # "push", N!PassBy(h, x)
  PROVE  /\ hand' \in [Handler -> N!Handling] /\ hand'[h] = x
         /\ \A g \in Handler : hand'[g].at = "push" =>
              hand[g].at = "push" /\ hand'[g].count = hand[g].count /\ hand'[g].passed
  <1>1. /\ hand' = [g \in Handler |-> hand'[g]]
        /\ hand'[h] = x
        /\ \A g \in Handler : g # h => hand'[g] = IF hand[g].at = "push"
                                                 THEN [hand[g] EXCEPT !.passed = TRUE] ELSE hand[g]
    BY DEF N!PassBy, N!At
  <1>2. ASSUME NEW g \in Handler
        PROVE  /\ hand'[g] \in N!Handling
               /\ hand'[g].at = "push" =>
                    hand[g].at = "push" /\ hand'[g].count = hand[g].count /\ hand'[g].passed
    <2>1. hand[g] \in N!Handling
      BY DEF N!TypeOK
    <2>2. CASE g = h
      BY <1>1, <2>2
    <2>3. CASE g # h /\ hand[g].at = "push"
      <3>1. hand'[g] = [hand[g] EXCEPT !.passed = TRUE]
        BY <1>1, <2>3
      <3>2. QED BY <2>1, <2>3, <3>1 DEF N!Handling
    <2>4. CASE g # h /\ hand[g].at # "push"
      BY <1>1, <2>1, <2>4
    <2>5. QED BY <2>2, <2>3, <2>4
  <1>3. QED BY <1>1, <1>2

LEMMA WaitingIs ==
  ASSUME NEW l \in {"count", "end"}
  PROVE  [N!Waiting EXCEPT !.at = l] \in N!Handling /\ [N!Waiting EXCEPT !.at = l].at = l
  <1>1. 0 \in 0..MaxRows
    BY SizesArePositive
  <1>2. CASE l = "count"
    BY <1>1, <1>2 DEF N!Waiting, N!Handling
  <1>3. CASE l = "end"
    BY <1>1, <1>3 DEF N!Waiting, N!Handling
  <1>4. QED BY <1>2, <1>3

\* However a handler changes the rows, it leaves their keys alone, and whoever has counted
\* before is told.
LEMMA RowsStep ==
  ASSUME N!TypeOK, NEW h \in Handler, N!Insert(h) \/ N!Mark(h) \/ N!MarkAll(h)
  PROVE  /\ row' \in Seq(N!Row) /\ Len(row) <= Len(row') /\ Len(row') <= MaxRows
         /\ \A i \in 1..Len(row) : row'[i].key = row[i].key
         /\ hand' \in [Handler -> N!Handling]
         /\ stale' \in BOOLEAN
         /\ badge' = badge /\ page' = page
         /\ row' # row => \A g \in Handler : hand'[g].at = "push" => hand'[g].passed
         /\ \A g \in Handler : hand'[g].at = "push" =>
              hand[g].at = "push" /\ hand'[g].count = hand[g].count /\ (hand[g].passed => hand'[g].passed)
         /\ \/ row' = row /\ hand'[h].at = "end" /\ hand[h].at \in {"start", "mark"} /\ stale' = stale
               /\ \A g \in Handler \ {h} : hand'[g] = hand[g]
            \/ stale' = TRUE
            \/ hand'[h].at = "count"
  <1>1. CASE N!Insert(h)
    <2>1. PICK k \in Thing : row' = Append(row, [key |-> k, read |-> FALSE])
      BY <1>1 DEF N!Insert
    <2>2. [key |-> k, read |-> FALSE] \in N!Row
      BY DEF N!Row
    <2>3. /\ row' \in Seq(N!Row) /\ Len(row') = Len(row) + 1
          /\ \A i \in 1..Len(row) : row'[i] = row[i]
      BY <2>1, <2>2 DEF N!TypeOK
    <2>4. Len(row) < MaxRows /\ Len(row) \in Nat
      BY <1>1 DEF N!Insert, N!TypeOK
    <2>5. /\ hand' \in [Handler -> N!Handling] /\ hand'[h].at = "count"
          /\ \A g \in Handler : hand'[g].at = "push" =>
               hand[g].at = "push" /\ hand'[g].count = hand[g].count /\ hand'[g].passed
      BY <1>1, PassByIs, WaitingIs DEF N!Insert
    <2>6. badge' = badge /\ page' = page /\ stale' = stale
      BY <1>1 DEF N!Insert
    <2>7. QED BY <2>3, <2>4, <2>5, <2>6, SizesArePositive DEF N!TypeOK
  <1>2. ASSUME NEW ids, N!Read(h, ids), hand[h].at \in {"start", "mark"}
        PROVE  /\ row' \in Seq(N!Row) /\ Len(row') = Len(row)
               /\ \A i \in 1..Len(row) : row'[i].key = row[i].key
               /\ hand' \in [Handler -> N!Handling]
               /\ stale' \in BOOLEAN
               /\ badge' = badge /\ page' = page
               /\ row' # row => \A g \in Handler : hand'[g].at = "push" => hand'[g].passed
               /\ \A g \in Handler : hand'[g].at = "push" =>
                    hand[g].at = "push" /\ hand'[g].count = hand[g].count /\ (hand[g].passed => hand'[g].passed)
               /\ \/ row' = row /\ hand'[h].at = "end" /\ stale' = stale
                     /\ \A g \in Handler \ {h} : hand'[g] = hand[g]
                  \/ stale' = TRUE
    <2>1. row' = [i \in 1..Len(row) |-> IF i \in ids THEN [row[i] EXCEPT !.read = TRUE] ELSE row[i]]
      BY <1>2 DEF N!Read, N!TypeOK
    <2>2. \A i \in 1..Len(row) : row[i] \in N!Row
      BY DEF N!TypeOK
    <2>3. Len(row) \in Nat
      BY DEF N!TypeOK
    <2>4. row' \in [1..Len(row) -> N!Row] /\ \A i \in 1..Len(row) : row'[i].key = row[i].key
      BY <2>1, <2>2 DEF N!Row
    <2>5. row' \in Seq(N!Row) /\ Len(row') = Len(row)
      BY <2>3, <2>4
    <2>6. badge' = badge /\ page' = page
      BY <1>2 DEF N!Read
    <2>7. CASE row' # row
      <3>1. stale' = TRUE /\ N!PassBy(h, [N!Waiting EXCEPT !.at = "end"])
        BY <1>2, <2>7 DEF N!Read
      <3>2. /\ hand' \in [Handler -> N!Handling]
            /\ \A g \in Handler : hand'[g].at = "push" =>
                 hand[g].at = "push" /\ hand'[g].count = hand[g].count /\ hand'[g].passed
        BY <3>1, PassByIs, WaitingIs
      <3>3. QED BY <2>4, <2>5, <2>6, <3>1, <3>2
    <2>8. CASE row' = row
      <3>1. stale' = stale /\ hand' = [hand EXCEPT ![h].at = "end"]
        BY <1>2, <2>8 DEF N!Read
      <3>2. /\ hand' \in [Handler -> N!Handling] /\ hand'[h].at = "end"
            /\ \A g \in Handler \ {h} : hand'[g] = hand[g]
        BY <3>1 DEF N!TypeOK, N!Handling
      <3>3. QED BY <2>4, <2>5, <2>6, <2>8, <3>1, <3>2 DEF N!TypeOK
    <2>9. QED BY <2>7, <2>8
  <1>3. CASE N!Mark(h) \/ N!MarkAll(h)
    <2>1. hand[h].at \in {"start", "mark"} /\ \E ids : N!Read(h, ids)
      BY <1>3 DEF N!Mark, N!MarkAll, N!At
    <2>2. Len(row) \in Nat /\ Len(row) <= MaxRows
      BY DEF N!TypeOK
    <2>3. PICK ids : N!Read(h, ids)
      BY <2>1
    <2>4. Len(row') = Len(row) => Len(row) <= Len(row') /\ Len(row') <= MaxRows
      BY <2>2
    <2>5. QED BY <1>2, <2>1, <2>3, <2>4, Zenon
  <1>4. QED BY <1>1, <1>3

\* The steps that leave the rows alone.
LEMMA CountingStep ==
  ASSUME N!TypeOK, NEW h \in Handler, N!Count(h) \/ N!Push(h) \/ N!CountFails(h) \/ N!MarkFind(h)
  PROVE  /\ row' = row /\ page' = page
         /\ hand' \in [Handler -> N!Handling] /\ badge' \in 0..MaxRows /\ stale' \in BOOLEAN
         /\ \A g \in Handler \ {h} : hand'[g] = hand[g]
  <1>1. CASE N!Count(h)
    <2>1. hand' = [hand EXCEPT ![h] = [hand[h] EXCEPT !.at = "push", !.count = N!Unread]]
      BY <1>1 DEF N!Count
    <2>2. [hand[h] EXCEPT !.at = "push", !.count = N!Unread] \in N!Handling
      BY UnreadType DEF N!TypeOK, N!Handling
    <2>3. QED BY <1>1, <2>1, <2>2 DEF N!Count, N!TypeOK
  <1>2. CASE N!Push(h)
    <2>1. [hand[h] EXCEPT !.at = "end"] \in N!Handling
      BY DEF N!TypeOK, N!Handling
    <2>2. QED BY <1>2, <2>1 DEF N!Push, N!TypeOK, N!Handling
  <1>3. CASE N!CountFails(h)
    <2>1. [hand[h] EXCEPT !.at = "end"] \in N!Handling
      BY DEF N!TypeOK, N!Handling
    <2>2. QED BY <1>3, <2>1 DEF N!CountFails, N!TypeOK
  <1>4. CASE N!MarkFind(h)
    <2>1. PICK ids \in SUBSET (DOMAIN row) : hand' = [hand EXCEPT ![h] = [hand[h] EXCEPT !.at = "mark", !.ids = ids]]
      BY <1>4 DEF N!MarkFind
    <2>2. DOMAIN row \subseteq N!Id
      BY SizesArePositive DEF N!TypeOK, N!Id
    <2>3. [hand[h] EXCEPT !.at = "mark", !.ids = ids] \in N!Handling
      BY <2>1, <2>2 DEF N!TypeOK, N!Handling
    <2>4. QED BY <1>4, <2>1, <2>3 DEF N!MarkFind, N!TypeOK
  <1>5. QED BY <1>1, <1>2, <1>3, <1>4

LEMMA BadgeNext == N!TypeOK /\ BadgeOK /\ [N!Next]_nvars => BadgeOK'
  <1> SUFFICES ASSUME N!TypeOK, BadgeOK, [N!Next]_nvars PROVE BadgeOK'
    OBVIOUS
  <1>0. N!Unread' = N!Unread \/ row' # row
    BY DEF N!Unread
  <1>1. ASSUME NEW h \in Handler, N!Insert(h) \/ N!Mark(h) \/ N!MarkAll(h) PROVE BadgeOK'
    <2>1. ASSUME NEW g \in Handler, hand'[g].at = "push", ~hand'[g].passed PROVE hand'[g].count = N!Unread'
      BY <1>0, <1>1, <2>1, RowsStep DEF BadgeOK
    <2>2. N!BadgeIsExplained'
      <3> SUFFICES ASSUME \A g \in Handler : hand'[g].at \in {"start", "mark", "end"}
                   PROVE  badge' = N!Unread' \/ stale'
        BY DEF N!BadgeIsExplained
      <3>1. CASE stale' = TRUE
        BY <3>1
      <3>2. CASE /\ row' = row /\ hand'[h].at = "end" /\ hand[h].at \in {"start", "mark"} /\ stale' = stale
                 /\ \A g \in Handler \ {h} : hand'[g] = hand[g]
        <4>1. \A g \in Handler : hand[g].at \in {"start", "mark", "end"}
          BY <3>2
        <4>2. badge' = badge
          BY <1>1, RowsStep
        <4>3. QED BY <1>0, <3>2, <4>1, <4>2 DEF BadgeOK, N!BadgeIsExplained
      <3>3. CASE hand'[h].at = "count"
        BY <3>3
      <3>4. QED BY <1>1, <3>1, <3>2, <3>3, RowsStep
    <2>3. QED BY <2>1, <2>2 DEF BadgeOK
  <1>2. ASSUME NEW h \in Handler, N!Count(h) PROVE BadgeOK'
    <2>1. row' = row /\ hand'[h].at = "push" /\ hand'[h].count = N!Unread
          /\ \A g \in Handler \ {h} : hand'[g] = hand[g]
      BY <1>2 DEF N!Count, N!TypeOK, N!Handling
    <2>2. QED BY <1>0, <2>1 DEF BadgeOK, N!BadgeIsExplained
  <1>3. ASSUME NEW h \in Handler, N!Push(h) PROVE BadgeOK'
    <2>1. /\ row' = row /\ hand[h].at = "push" /\ hand'[h].at = "end"
          /\ badge' = hand[h].count /\ stale' = hand[h].passed
          /\ \A g \in Handler \ {h} : hand'[g] = hand[g]
      BY <1>3 DEF N!Push, N!At, N!TypeOK, N!Handling
    <2>2. N!BadgeIsExplained'
      BY <1>0, <2>1 DEF BadgeOK, N!BadgeIsExplained
    <2>3. QED BY <1>0, <2>1, <2>2 DEF BadgeOK
  <1>4. ASSUME NEW h \in Handler, N!CountFails(h) PROVE BadgeOK'
    <2>1. /\ row' = row /\ hand'[h].at = "end" /\ stale' = TRUE
          /\ \A g \in Handler \ {h} : hand'[g] = hand[g]
      BY <1>4 DEF N!CountFails, N!TypeOK, N!Handling
    <2>2. QED BY <1>0, <2>1 DEF BadgeOK, N!BadgeIsExplained
  <1>5. ASSUME NEW h \in Handler, N!MarkFind(h) PROVE BadgeOK'
    <2>1. /\ row' = row /\ hand[h].at = "start" /\ hand'[h].at = "mark" /\ stale' = stale /\ badge' = badge
          /\ \A g \in Handler \ {h} : hand'[g] = hand[g]
      BY <1>5 DEF N!MarkFind, N!At, N!TypeOK, N!Handling
    <2>2. QED BY <1>0, <2>1 DEF BadgeOK, N!BadgeIsExplained
  <1>6. CASE N!List \/ UNCHANGED nvars
    BY <1>0, <1>6 DEF N!List, nvars, BadgeOK, N!BadgeIsExplained
  <1>7. QED BY <1>1, <1>2, <1>3, <1>4, <1>5, <1>6 DEF N!Next

\* A page looks at an upper end of the rows before the cursor: at all of them, or at Window.
LEMMA LookedIs ==
  ASSUME N!TypeOK, NEW c \in Int
  PROVE  LET S == N!Looked(c)
         IN  /\ S \in SUBSET (1..Len(row)) /\ IsFiniteSet(S) /\ Cardinality(S) \in Nat
             /\ \A i \in S : i < c
             /\ \A b \in S : \A i \in 1..Len(row) : b <= i /\ i < c => i \in S
             /\ Cardinality(S) <= Window
             /\ Cardinality(S) < Window => \A i \in 1..Len(row) : i < c => i \in S
  <1> DEFINE S == N!Looked(c)
             Between(i) == {j \in 1..Len(row) : i < j /\ j < c}
  <1>1. Len(row) \in Nat /\ DOMAIN row = 1..Len(row) /\ Window \in Nat \ {0}
    BY SizesArePositive DEF N!TypeOK
  <1>2. IsFiniteSet(1..Len(row))
    BY <1>1, FS_Interval
  <1>3. S = {i \in 1..Len(row) : i < c /\ Cardinality(Between(i)) < Window}
    BY <1>1, Counting DEF N!Looked
  <1> HIDE DEF S
  <1>4. S \in SUBSET (1..Len(row)) /\ IsFiniteSet(S) /\ Cardinality(S) \in Nat
    BY <1>2, <1>3, FS_Subset, FS_CardinalityType
  <1>5. ASSUME NEW i \in 1..Len(row) PROVE IsFiniteSet(Between(i)) /\ Cardinality(Between(i)) \in Nat
    BY <1>2, FS_Subset, FS_CardinalityType
  <1> HIDE DEF Between
  <1>6. ASSUME NEW b \in S, NEW i \in 1..Len(row), b <= i, i < c PROVE i \in S
    <2>1. b \in 1..Len(row) /\ Cardinality(Between(b)) < Window
      BY <1>3
    <2>2. Between(i) \in SUBSET Between(b)
      BY <1>1, <1>6, <2>1 DEF Between
    <2>3. Cardinality(Between(i)) <= Cardinality(Between(b))
      BY <1>5, <2>1, <2>2, FS_Subset
    <2>4. Cardinality(Between(i)) \in Nat /\ Cardinality(Between(b)) \in Nat
      BY <1>5, <2>1
    <2>5. Cardinality(Between(i)) < Window
      BY <1>1, <2>1, <2>3, <2>4
    <2>6. QED BY <1>3, <1>6, <2>5
  <1>7. Cardinality(S) <= Window
    <2>1. CASE S = {}
      BY <1>1, <2>1, FS_EmptySet
    <2>2. CASE S # {}
      <3>1. S \in SUBSET Int
        BY <1>1, <1>4
      <3>2. PICK b \in S : \A y \in S : b <= y
        BY <1>4, <2>2, <3>1, LeastOf
      <3>3. b \in 1..Len(row) /\ Cardinality(Between(b)) < Window
        BY <1>3
      <3>4. S \ {b} \in SUBSET Between(b)
        BY <1>1, <1>3, <3>2 DEF Between
      <3>5. Cardinality(S \ {b}) <= Cardinality(Between(b))
        BY <1>5, <3>3, <3>4, FS_Subset
      <3>6. Cardinality(S \ {b}) = Cardinality(S) - 1
        BY <1>4, FS_RemoveElement
      <3>7. Cardinality(Between(b)) \in Nat
        BY <1>5, <3>3
      <3>8. QED BY <1>1, <1>4, <3>3, <3>5, <3>6, <3>7
    <2>3. QED BY <2>1, <2>2
  <1>8. ASSUME Cardinality(S) < Window, NEW k \in 1..Len(row), k < c, k \notin S PROVE FALSE
    <2> DEFINE X == {i \in 1..Len(row) : i < c /\ i \notin S}
    <2>1. X \in SUBSET Int /\ IsFiniteSet(X) /\ X # {}
      BY <1>1, <1>2, <1>8, FS_Subset
    <2>2. PICK i \in X : \A y \in X : i >= y
      BY <2>1, GreatestOf
    <2>3. Between(i) \in SUBSET S
      BY <1>1, <2>2 DEF Between
    <2>4. Cardinality(Between(i)) <= Cardinality(S)
      BY <1>4, <2>3, FS_Subset
    <2>5. ~(Cardinality(Between(i)) < Window)
      BY <1>3
    <2>6. Cardinality(Between(i)) \in Nat
      BY <1>5
    <2>7. QED BY <1>1, <1>4, <1>8, <2>4, <2>5, <2>6
  <1>9. QED BY <1>3, <1>4, <1>6, <1>7, <1>8 DEF S

\* Of the groups in S, a fitting one has a newer row than any that does not fit; one fits, and
\* all do if they are not too many.
LEMMA FittingIs ==
  ASSUME N!TypeOK, NEW S \in SUBSET (1..Len(row)), IsFiniteSet(S)
  PROVE  /\ IsFiniteSet(N!Keys(S)) /\ Cardinality(N!Keys(S)) \in Nat
         /\ \A k \in N!Keys(S) : /\ N!Newest(k, S) \in S /\ row[N!Newest(k, S)].key = k
                                 /\ \A i \in S : row[i].key = k => N!Newest(k, S) >= i
         /\ \A k \in N!Fitting(S), l \in N!Keys(S) \ N!Fitting(S) : N!Newest(k, S) > N!Newest(l, S)
         /\ S # {} => N!Fitting(S) # {}
         /\ Cardinality(N!Keys(S)) <= Limit => N!Fitting(S) = N!Keys(S)
         /\ N!Fitting(S) \subseteq N!Keys(S)
  <1> DEFINE K == N!Keys(S)
             Newer(k) == {l \in K : N!Newest(l, S) > N!Newest(k, S)}
  <1>1. S \in SUBSET Int /\ Limit \in Nat \ {0}
    BY SizesArePositive DEF N!TypeOK
  <1>2. IsFiniteSet(K) /\ Cardinality(K) \in Nat
    <2> DEFINE f == [i \in S |-> row[i].key]
    <2>1. f \in Surjection(S, K)
      BY DEF Surjection, N!Keys
    <2>2. IsFiniteSet(K)
      <3> HIDE DEF f, K
      <3>1. QED BY <2>1, FS_Surjection
    <2>3. QED BY <2>2, FS_CardinalityType
  <1>3. ASSUME NEW k \in K
        PROVE  /\ N!Newest(k, S) \in S /\ row[N!Newest(k, S)].key = k
               /\ \A i \in S : row[i].key = k => N!Newest(k, S) >= i
    <2> DEFINE A == {i \in S : row[i].key = k}
    <2>1. A \in SUBSET S /\ A # {}
      BY DEF N!Keys
    <2>2. A \in SUBSET Int /\ IsFiniteSet(A)
      BY <1>1, <2>1, FS_Subset
    <2>3. N!Max(A) \in A /\ \A y \in A : N!Max(A) >= y
      <3> HIDE DEF A
      <3>1. QED BY <2>1, <2>2, MaxIs
    <2>4. QED BY <2>3 DEF N!Newest
  <1>4. \A k \in K : N!Newest(k, S) \in Int
    BY <1>1, <1>3
  <1>5. N!Fitting(S) = {k \in K : Cardinality(Newer(k)) < Limit}
    BY Counting DEF N!Fitting
  <1>6. ASSUME NEW k \in K PROVE IsFiniteSet(Newer(k)) /\ Cardinality(Newer(k)) \in Nat
    BY <1>2, FS_Subset, FS_CardinalityType
  <1> HIDE DEF K, Newer
  <1>7. ASSUME NEW k \in N!Fitting(S), NEW l \in K \ N!Fitting(S) PROVE N!Newest(k, S) > N!Newest(l, S)
    <2>1. k \in K /\ l \in K /\ Cardinality(Newer(k)) < Limit /\ ~(Cardinality(Newer(l)) < Limit)
      BY <1>5
    <2>2. SUFFICES ASSUME ~(N!Newest(k, S) > N!Newest(l, S)) PROVE FALSE
      OBVIOUS
    <2>3. Newer(l) \in SUBSET Newer(k)
      BY <1>4, <2>1, <2>2 DEF Newer
    <2>4. Cardinality(Newer(l)) <= Cardinality(Newer(k))
      BY <1>6, <2>1, <2>3, FS_Subset
    <2>5. Cardinality(Newer(l)) \in Nat /\ Cardinality(Newer(k)) \in Nat
      BY <1>6, <2>1
    <2>6. QED BY <1>1, <2>1, <2>4, <2>5
  <1>8. ASSUME S # {} PROVE N!Fitting(S) # {}
    <2>1. PICK i \in S : \A y \in S : i >= y
      BY <1>1, <1>8, GreatestOf
    <2>2. row[i].key \in K
      BY DEF K, N!Keys
    <2>3. N!Newest(row[i].key, S) >= i
      BY <1>3, <2>2
    <2>4. Newer(row[i].key) = {}
      <3>1. ASSUME NEW l \in K PROVE ~(N!Newest(l, S) > N!Newest(row[i].key, S))
        <4>1. N!Newest(l, S) \in S /\ N!Newest(l, S) \in Int /\ i \in Int /\ N!Newest(row[i].key, S) \in Int
          BY <1>1, <1>3, <1>4, <2>2
        <4>2. i >= N!Newest(l, S)
          BY <2>1, <4>1
        <4>3. QED BY <2>3, <4>1, <4>2
      <3>2. QED BY <3>1 DEF Newer
    <2>5. Cardinality(Newer(row[i].key)) = 0
      BY <2>4, FS_EmptySet
    <2>6. QED BY <1>1, <1>5, <2>2, <2>5
  <1>9. ASSUME Cardinality(K) <= Limit, NEW k \in K PROVE Cardinality(Newer(k)) < Limit
    <2>1. Newer(k) \in SUBSET (K \ {k})
      BY <1>4 DEF Newer
    <2>2. IsFiniteSet(K \ {k}) /\ Cardinality(K \ {k}) = Cardinality(K) - 1
      BY <1>2, FS_RemoveElement
    <2>3. Cardinality(Newer(k)) <= Cardinality(K) - 1
      BY <2>1, <2>2, FS_Subset
    <2>4. Cardinality(Newer(k)) \in Nat
      BY <1>6, <1>9
    <2>5. QED BY <1>1, <1>2, <1>9, <2>2, <2>3, <2>4
  <1>10. QED BY <1>2, <1>3, <1>5, <1>7, <1>8, <1>9 DEF K

LEMMA NotificationsInit == Init => NotificationsInv
  <1> SUFFICES ASSUME Init PROVE NotificationsInv
    OBVIOUS
  <1>1. /\ \E n \in 0..MaxRows - 1 : row \in [1..n -> N!Row]
        /\ hand = [h \in Handler |-> N!Waiting]
        /\ badge = N!Unread /\ stale = FALSE
        /\ page = [at |-> "start", cursor |-> MaxRows + 1, seen |-> {}, first |-> 0]
    BY DEF Init, N!Init
  <1>2. row \in Seq(N!Row) /\ Len(row) <= MaxRows
    <2>1. PICK n \in 0..MaxRows - 1 : row \in [1..n -> N!Row]
      BY <1>1
    <2>2. n \in Nat /\ n <= MaxRows
      BY <2>1, SizesArePositive
    <2>3. QED BY <2>1, <2>2
  <1>3. N!Waiting \in N!Handling
    BY SizesArePositive DEF N!Waiting, N!Handling
  <1>4. page \in N!Page
    BY <1>1, SizesArePositive DEF N!Page
  <1>5. N!Unread \in 0..MaxRows
    <2>1. {i \in DOMAIN row : ~row[i].read} \subseteq 1..Len(row) /\ Len(row) \in Nat
      BY <1>2
    <2>2. IsFiniteSet(1..Len(row)) /\ Cardinality(1..Len(row)) = Len(row)
      <3>1. /\ IsFiniteSet(1..Len(row))
            /\ Cardinality(1..Len(row)) = IF 1 > Len(row) THEN 0 ELSE Len(row) - 1 + 1
        BY <2>1, FS_Interval
      <3>2. QED BY <2>1, <3>1
    <2>3. /\ Cardinality({i \in DOMAIN row : ~row[i].read}) \in Nat
          /\ Cardinality({i \in DOMAIN row : ~row[i].read}) <= Len(row)
      BY <2>1, <2>2, FS_Subset, FS_CardinalityType
    <2>4. QED BY <1>2, <2>1, <2>3, Counting, SizesArePositive DEF N!Unread
  <1>6. N!TypeOK
    BY <1>1, <1>2, <1>3, <1>4, <1>5 DEF N!TypeOK
  <1>7. BadgeOK
    BY <1>1 DEF BadgeOK, N!BadgeIsExplained, N!Waiting
  <1>8. PageOK
    BY <1>1 DEF PageOK
  <1>9. QED BY <1>6, <1>7, <1>8 DEF NotificationsInv

\* Where a page leaves off, all that its client has not seen lies between two rows of a group.
LEMMA ListStep ==
  ASSUME NotificationsInv, N!List
  PROVE  page' \in N!Page /\ PageOK'
  <1> DEFINE S == N!Looked(page.cursor)
             Shown == {i \in S : row[i].key \in N!Fitting(S)}
  <1>1. /\ page.at # "end" /\ UNCHANGED <<row, hand, badge, stale>>
        /\ page' = [at     |-> IF N!HasMore(S) THEN "next" ELSE "end",
                    cursor |-> IF N!HasMore(S) THEN N!Cursor(S) ELSE page.cursor,
                    seen   |-> page.seen \cup Shown,
                    first  |-> IF page.at = "start" THEN Len(row) ELSE page.first]
    BY DEF N!List
  <1>2. /\ Len(row) \in Nat /\ Len(row) <= MaxRows /\ DOMAIN row = 1..Len(row)
        /\ MaxRows \in Nat /\ Window \in Nat \ {0} /\ Limit \in Nat \ {0}
        /\ page.cursor \in 1..MaxRows + 1 /\ page.at \in {"start", "next", "end"}
        /\ page.seen \in SUBSET (1..MaxRows) /\ page.first \in 0..MaxRows
        /\ N!TypeOK /\ PageOK
    BY SizesArePositive DEF NotificationsInv, N!TypeOK, N!Page, N!Id
  <1>3. page.cursor \in Int
    BY <1>2
  <1>4. /\ S \in SUBSET (1..Len(row)) /\ IsFiniteSet(S) /\ Cardinality(S) \in Nat
        /\ \A i \in S : i < page.cursor
        /\ \A b \in S : \A i \in 1..Len(row) : b <= i /\ i < page.cursor => i \in S
        /\ Cardinality(S) <= Window
        /\ Cardinality(S) < Window => \A i \in 1..Len(row) : i < page.cursor => i \in S
    BY <1>2, <1>3, LookedIs
  <1> HIDE DEF S
  <1>5. /\ IsFiniteSet(N!Keys(S)) /\ Cardinality(N!Keys(S)) \in Nat
        /\ \A k \in N!Keys(S) : /\ N!Newest(k, S) \in S /\ row[N!Newest(k, S)].key = k
                                /\ \A i \in S : row[i].key = k => N!Newest(k, S) >= i
        /\ \A k \in N!Fitting(S), l \in N!Keys(S) \ N!Fitting(S) : N!Newest(k, S) > N!Newest(l, S)
        /\ S # {} => N!Fitting(S) # {}
        /\ Cardinality(N!Keys(S)) <= Limit => N!Fitting(S) = N!Keys(S)
        /\ N!Fitting(S) \subseteq N!Keys(S)
    BY <1>2, <1>4, FittingIs
  <1>6. Shown \in SUBSET (1..MaxRows) /\ Shown \in SUBSET Int /\ IsFiniteSet(Shown)
    <2>1. Shown \in SUBSET S
      OBVIOUS
    <2> HIDE DEF Shown
    <2>2. IsFiniteSet(Shown)
      BY <1>4, <2>1, FS_Subset
    <2>3. S \in SUBSET (1..MaxRows) /\ S \in SUBSET Int
      BY <1>2, <1>4
    <2>4. QED BY <2>1, <2>2, <2>3
  <1>7. ASSUME N!HasMore(S)
        PROVE  N!Cursor(S) \in Shown /\ \A i \in Shown : N!Cursor(S) <= i
    <2>1. S # {}
      <3>1. SUFFICES ASSUME S = {} PROVE FALSE
        OBVIOUS
      <3>2. N!Keys(S) = {}
        BY <3>1 DEF N!Keys
      <3>3. Cardinality(S) = 0 /\ Cardinality(N!Keys(S)) = 0
        BY <3>1, <3>2, FS_EmptySet
      <3>4. QED BY <1>2, <1>7, <3>3, Counting DEF N!HasMore
    <2>2. PICK k : k \in N!Fitting(S) /\ k \in N!Keys(S)
      BY <1>5, <2>1
    <2>3. Shown # {}
      BY <1>5, <2>2
    <2>4. QED BY <1>6, <2>3, MinIs DEF N!Cursor
  <1>8. page' \in N!Page
    <2>1. page.seen \cup Shown \in SUBSET (1..MaxRows)
      BY <1>2, <1>6
    <2>2. (IF N!HasMore(S) THEN N!Cursor(S) ELSE page.cursor) \in 1..MaxRows + 1
      BY <1>2, <1>6, <1>7
    <2>3. (IF page.at = "start" THEN Len(row) ELSE page.first) \in 0..MaxRows
      BY <1>2
    <2>4. QED BY <1>1, <2>1, <2>2, <2>3 DEF N!Page, N!Id
  <1>9. /\ page'.first <= Len(row) /\ page'.first \in Nat
        /\ \A i \in 1..page'.first : i < page.cursor \/ i \in page.seen \/ N!Enclosed(i)
    <2>1. CASE page.at = "start"
      <3>1. page'.first = Len(row) /\ page.cursor = MaxRows + 1
        BY <1>1, <1>2, <2>1 DEF PageOK
      <3>2. QED BY <1>2, <3>1
    <2>2. CASE page.at = "next"
      <3>1. page'.first = page.first
        BY <1>1, <2>2
      <3>2. QED BY <1>2, <2>2, <3>1 DEF PageOK
    <2>3. QED BY <1>1, <1>2, <2>1, <2>2
  <1>10. page'.at = IF N!HasMore(S) THEN "next" ELSE "end"
    BY <1>1
  <1>11. page'.seen = page.seen \cup Shown
    BY <1>1
  <1>12. ASSUME N!HasMore(S), NEW i \in 1..page'.first
         PROVE  i < page'.cursor \/ i \in page'.seen \/ N!Enclosed(i)
    <2> DEFINE b == N!Cursor(S)
    <2>1. page'.cursor = b
      BY <1>1, <1>12
    <2>2. b \in S /\ row[b].key \in N!Fitting(S) /\ b \in 1..Len(row) /\ i \in 1..Len(row)
      <3>1. b \in Shown
        BY <1>7, <1>12
      <3>2. page'.first <= Len(row) /\ page'.first \in Nat /\ Len(row) \in Nat
        BY <1>2, <1>9
      <3> HIDE DEF b
      <3>3. i \in 1..Len(row)
        BY <1>12, <3>2
      <3>4. QED BY <1>4, <3>1, <3>3
    <2>3. SUFFICES ASSUME ~(i < b), i \notin page'.seen, i < page.cursor PROVE N!Enclosed(i)
      BY <1>9, <1>11, <2>1
    <2> HIDE DEF b
    <2>4. b <= i /\ i \in Int /\ b \in Int
      BY <1>2, <2>2, <2>3
    <2>5. i \in S
      BY <1>4, <2>2, <2>3, <2>4
    <2>6. row[i].key \in N!Keys(S) \ N!Fitting(S)
      BY <1>11, <2>3, <2>5 DEF N!Keys
    <2> DEFINE a == N!Newest(row[b].key, S)
    <2>7. a > N!Newest(row[i].key, S) /\ a \in S /\ row[a].key = row[b].key
      BY <1>5, <2>2, <2>6
    <2>8. N!Newest(row[i].key, S) >= i /\ N!Newest(row[i].key, S) \in S
      BY <1>5, <2>5, <2>6
    <2> HIDE DEF a
    <2>9. a > i
      <3>1. a \in Int /\ N!Newest(row[i].key, S) \in Int
        <4>1. \A x \in S : x \in Int
          BY <1>2, <1>4
        <4> HIDE DEF Shown
        <4>2. QED BY <2>7, <2>8, <4>1
      <3>2. QED BY <2>4, <2>7, <2>8, <3>1
    <2>10. row[a].key # row[i].key /\ b # i
      BY <2>2, <2>6, <2>7
    <2>11. i > b
      BY <2>4, <2>10
    <2>12. QED BY <1>2, <1>4, <2>2, <2>7, <2>9, <2>10, <2>11 DEF N!Enclosed
  <1>13. ASSUME ~N!HasMore(S), NEW i \in 1..page'.first
         PROVE  i \in page'.seen \/ N!Enclosed(i)
    <2>1. Cardinality(N!Keys(S)) <= Limit /\ Cardinality(S) < Window
      BY <1>2, <1>4, <1>5, <1>13, Counting DEF N!HasMore
    <2>2. i \in 1..Len(row)
      BY <1>2, <1>9, <1>13
    <2>3. i < page.cursor => i \in S
      BY <1>4, <2>1, <2>2
    <2>4. i \in S => i \in Shown
      BY <1>5, <2>1 DEF N!Keys
    <2>5. QED BY <1>9, <1>11, <2>3, <2>4
  <1>14. N!Enclosed(0) \in BOOLEAN /\ \A i : N!Enclosed(i)' <=> N!Enclosed(i)
    BY <1>1 DEF N!Enclosed
  <1>15. Len(row') = Len(row)
    BY <1>1
  <1>16. QED BY <1>8, <1>9, <1>10, <1>12, <1>13, <1>14, <1>15 DEF PageOK

LEMMA NotificationsNext == NotificationsInv /\ [N!Next]_nvars => NotificationsInv'
  <1> SUFFICES ASSUME NotificationsInv, [N!Next]_nvars PROVE NotificationsInv'
    OBVIOUS
  <1>0. N!TypeOK /\ BadgeOK /\ PageOK
    BY DEF NotificationsInv
  <1>1. BadgeOK'
    BY <1>0, BadgeNext
  <1>2. ASSUME page' = page, Len(row) <= Len(row'), Len(row') \in Nat, DOMAIN row' = 1..Len(row'),
               \A i \in 1..Len(row) : row'[i].key = row[i].key
        PROVE  PageOK'
    <2>1. Len(row) \in Nat /\ page.first \in Nat /\ DOMAIN row = 1..Len(row)
      BY <1>0 DEF N!TypeOK, N!Page
    <2>2. 1..Len(row) \subseteq 1..Len(row')
      BY <1>2, <2>1
    <2>3. ASSUME NEW i, N!Enclosed(i), i \in 1..Len(row) PROVE N!Enclosed(i)'
      BY <1>2, <2>1, <2>2, <2>3 DEF N!Enclosed
    <2>4. page.at # "start" => \A i \in 1..page.first : i \in 1..Len(row)
      BY <1>0, <2>1 DEF PageOK
    <2>5. page.at # "start" => page'.first <= Len(row')
      BY <1>0, <1>2, <2>1 DEF PageOK
    <2>6. QED BY <1>0, <1>2, <2>3, <2>4, <2>5 DEF PageOK
  <1>3. ASSUME NEW h \in Handler, N!Insert(h) \/ N!Mark(h) \/ N!MarkAll(h) PROVE NotificationsInv'
    <2>1. /\ row' \in Seq(N!Row) /\ Len(row) <= Len(row') /\ Len(row') <= MaxRows
          /\ \A i \in 1..Len(row) : row'[i].key = row[i].key
          /\ hand' \in [Handler -> N!Handling] /\ stale' \in BOOLEAN /\ badge' = badge /\ page' = page
      BY <1>0, <1>3, RowsStep
    <2>2. N!TypeOK'
      BY <1>0, <2>1 DEF N!TypeOK
    <2>3. PageOK'
      BY <1>2, <2>1
    <2>4. QED BY <1>1, <2>2, <2>3 DEF NotificationsInv
  <1>4. ASSUME NEW h \in Handler, N!Count(h) \/ N!Push(h) \/ N!CountFails(h) \/ N!MarkFind(h)
        PROVE  NotificationsInv'
    <2>1. /\ row' = row /\ page' = page
          /\ hand' \in [Handler -> N!Handling] /\ badge' \in 0..MaxRows /\ stale' \in BOOLEAN
      BY <1>0, <1>4, CountingStep
    <2>2. N!TypeOK'
      BY <1>0, <2>1 DEF N!TypeOK
    <2>3. Len(row) \in Nat /\ DOMAIN row = 1..Len(row) /\ Len(row) <= Len(row)
      BY <1>0 DEF N!TypeOK
    <2>4. PageOK'
      BY <1>2, <2>1, <2>3
    <2>5. QED BY <1>1, <2>2, <2>4 DEF NotificationsInv
  <1>5. CASE N!List
    <2>1. UNCHANGED <<row, hand, badge, stale>>
      BY <1>5 DEF N!List
    <2>2. page' \in N!Page /\ PageOK'
      BY <1>5, ListStep
    <2>3. N!TypeOK'
      BY <1>0, <2>1, <2>2 DEF N!TypeOK
    <2>4. QED BY <1>1, <2>2, <2>3 DEF NotificationsInv
  <1>6. CASE UNCHANGED nvars
    <2>1. UNCHANGED <<row, hand, badge, stale, page>>
      BY <1>6 DEF nvars
    <2>2. N!TypeOK'
      BY <1>0, <2>1 DEF N!TypeOK
    <2>3. Len(row) \in Nat /\ DOMAIN row = 1..Len(row) /\ Len(row) <= Len(row)
      BY <1>0 DEF N!TypeOK
    <2>4. PageOK'
      BY <1>2, <2>1, <2>3
    <2>5. QED BY <1>1, <2>2, <2>4 DEF NotificationsInv
  <1>7. QED BY <1>3, <1>4, <1>5, <1>6 DEF N!Next

\* The badge a user was given last is the number of unread notifications once nothing is under
\* way, unless it was overtaken; and who follows the cursors misses at most rows that lie between
\* two rows of another group.
THEOREM NotificationsAgreeForAll == Spec => []NotificationsAgree
  <1>1. NotificationsInv /\ [Next]_vars => NotificationsInv'
    BY PartStep, NotificationsNext
  <1>2. NotificationsInv => NotificationsAgree
    BY DEF NotificationsInv, BadgeOK, PageOK, NotificationsAgree, N!PagesMissOnlyEnclosed
  <1>3. QED BY NotificationsInit, <1>1, <1>2, PTL DEF Spec

------------------------------------------------------------------------------
(***************************************************************************)
(* Chats and messages.  What a handler has read still holds or is marked   *)
(* stale, and every message and every chat a handler is at has begun.      *)
(***************************************************************************)
\* The places where a handler knows who asks, and those where it knows the chat.
UserPlaces == {"find", "again", "create", "free", "asked", "ask", "blocked", "send", "unread", "reads",
               "close", "leave", "count", "empty", "accept", "decline"}

ChatPlaces == {"free", "asked", "ask", "blocked", "send", "unread", "reads", "close", "leave", "count", "empty"}

Known(r) ==
  /\ req[r].at \in UserPlaces => req[r].user \in Person
  /\ req[r].at \in ChatPlaces => req[r].chat \in Thing

\* What a handler has read holds until it is marked stale.
Creating(r) == req[r].at = "create" => req[r].stale \/ M!Direct = {}

Judging(r) ==
  /\ req[r].at = "ask" => req[r].stale \/ ask[req[r].user].status # "ACCEPTED"
  /\ req[r].at \in {"accept", "decline"} =>
       req[r].stale \/ ask[req[r].user].status \notin {"ACCEPTED", "DECLINED"}

Leaving(r) ==
  /\ req[r].at \in {"leave", "count", "empty"} => chat[req[r].chat].status # "absent"
  /\ req[r].at = "empty" => chat[req[r].chat].parts = {}

Held(r) ==
  \A m \in req[r].msgs :
    /\ msg[m].chat \in Thing
    /\ req[r].at = "edit" => req[r].stale \/ ~msg[m].isDeleted
    /\ req[r].at \in {"load", "open"} => req[r].stale \/ ~msg[m].opened
    /\ req[r].at = "close" /\ msg[m].exists =>
         msg[m].vanishing /\ (msg[m].sender = req[r].user \/ <<m, req[r].user>> \in read)

ChatsBegin == \A c \in Thing : chat[c].status = "absent" => chat[c].parts = {}

MessagesAreOfChats == \A m \in Message : msg[m].exists => msg[m].chat \in Thing

MessagingInv ==
  /\ M!TypeOK
  /\ \A r \in Req : Known(r) /\ Creating(r) /\ Judging(r) /\ Leaving(r) /\ Held(r)
  /\ ChatsBegin /\ MessagesAreOfChats
  /\ M!PairsHaveOneChat /\ M!MessagesKeepTheirWord

LEMMA PeopleAre ==
  /\ Person # {}
  /\ \A u : M!Peer(u) \in Person /\ M!Peer(u) # u
  <1>1. Person # {}
    BY TwoUsers, FS_EmptySet
  <1>2. ASSUME NEW u PROVE \E v \in Person : v # u
    <2>1. SUFFICES ASSUME Person = {u} PROVE FALSE
      BY <1>1
    <2>2. Cardinality({u}) = 1
      BY FS_Singleton
    <2>3. QED BY <2>1, <2>2, TwoUsers
  <1>3. QED BY <1>1, <1>2 DEF M!Peer

LEMMA BecomeReq ==
  ASSUME M!TypeOK, NEW r \in Req, NEW x \in M!Request, M!Become(r, x)
  PROVE  /\ req' \in [Req -> M!Request] /\ req'[r] = x
         /\ \A q \in Req \ {r} : req'[q] = req[q]
  BY DEF M!TypeOK, M!Become

LEMMA OvertakeReq ==
  ASSUME M!TypeOK, NEW r \in Req, NEW x \in M!Request, NEW S, M!Overtake(r, x, S)
  PROVE  /\ req' \in [Req -> M!Request] /\ req'[r] = x
         /\ \A q \in Req \ {r} : /\ q \in S => req'[q] = [req[q] EXCEPT !.stale = TRUE]
                                 /\ q \notin S => req'[q] = req[q]
  <1>1. \A q \in Req : [req[q] EXCEPT !.stale = TRUE] \in M!Request
    BY DEF M!TypeOK, M!Request
  <1>2. QED BY <1>1 DEF M!TypeOK, M!Overtake

Places == {"start", "find", "again", "create", "free", "asked", "ask", "blocked", "send",
           "tell", "edit", "delete", "unread", "reads", "vanish", "close", "load", "open",
           "leave", "count", "empty", "accept", "decline", "end"}

\* A handler that has its chat goes on there.
LEMMA WithChat ==
  ASSUME NEW q \in M!Request, NEW l \in Places, NEW c \in Thing
  PROVE  /\ [q EXCEPT !.at = l, !.chat = c] \in M!Request
         /\ [q EXCEPT !.at = l, !.chat = c, !.stale = FALSE] \in M!Request
  <1>1. [q EXCEPT !.at = l, !.chat = c] \in M!Request
    BY DEF M!Request, Places
  <1>2. \A x \in M!Request : [x EXCEPT !.stale = FALSE] \in M!Request
    BY DEF M!Request
  <1>3. [q EXCEPT !.at = l, !.chat = c, !.stale = FALSE]
          = [[q EXCEPT !.at = l, !.chat = c] EXCEPT !.stale = FALSE]
    BY DEF M!Request
  <1>4. QED BY <1>1, <1>2, <1>3

LEMMA GotoReq ==
  ASSUME M!TypeOK, NEW r \in Req, NEW l \in Places, M!Goto(r, l)
  PROVE  /\ req' \in [Req -> M!Request]
         /\ req'[r] = [req[r] EXCEPT !.at = l]
         /\ req'[r].at = l /\ req'[r].user = req[r].user /\ req'[r].chat = req[r].chat
         /\ req'[r].msgs = req[r].msgs /\ req'[r].stale = req[r].stale
         /\ \A q \in Req \ {r} : req'[q] = req[q]
  <1>1. /\ [req[r] EXCEPT !.at = l] \in M!Request
        /\ [req[r] EXCEPT !.at = l].at = l
        /\ [req[r] EXCEPT !.at = l].user = req[r].user
        /\ [req[r] EXCEPT !.at = l].chat = req[r].chat
        /\ [req[r] EXCEPT !.at = l].msgs = req[r].msgs
        /\ [req[r] EXCEPT !.at = l].stale = req[r].stale
    BY DEF M!TypeOK, M!Request, Places
  <1>2. QED BY <1>1, BecomeReq DEF M!Goto

LEMMA AnsweredIs ==
  ASSUME M!TypeOK, NEW r \in Req
  PROVE  /\ M!Answered(r) \in M!Request
         /\ M!Answered(r).at = "end" /\ M!Answered(r).msgs = req[r].msgs
  BY DEF M!TypeOK, M!Request, M!Answered

\* A step that only moves one handler.
LEMMA PlainStep ==
  ASSUME MessagingInv, NEW r \in Req, UNCHANGED <<chat, ask, msg, read, twin, over, shown>>,
         req' \in [Req -> M!Request], \A q \in Req \ {r} : req'[q] = req[q],
         Known(r)', Creating(r)', Judging(r)', Leaving(r)', Held(r)'
  PROVE  MessagingInv'
  <1>1. M!TypeOK'
    BY DEF MessagingInv, M!TypeOK
  <1>2. ASSUME NEW q \in Req PROVE (Known(q) /\ Creating(q) /\ Judging(q) /\ Leaving(q) /\ Held(q))'
    <2>1. CASE q = r
      BY <2>1
    <2>2. CASE q # r
      <3>1. req'[q] = req[q] /\ Known(q) /\ Creating(q) /\ Judging(q) /\ Leaving(q) /\ Held(q)
        BY <2>2 DEF MessagingInv
      <3>2. QED BY <3>1 DEF Known, Creating, Judging, Leaving, Held, M!Direct
    <2>3. QED BY <2>1, <2>2
  <1>3. ChatsBegin' /\ MessagesAreOfChats' /\ M!PairsHaveOneChat' /\ M!MessagesKeepTheirWord'
    BY DEF MessagingInv, ChatsBegin, MessagesAreOfChats, M!PairsHaveOneChat, M!Direct, M!MessagesKeepTheirWord
  <1>4. QED BY <1>1, <1>2, <1>3 DEF MessagingInv

\* What a handler may begin as.
Fresh(x) ==
  /\ x.at \notin {"create", "ask", "count", "empty"}
  /\ x.at \in UserPlaces => x.user \in Person
  /\ x.at \in ChatPlaces => x.chat \in Thing
  /\ x.at \in {"accept", "decline"} => ask[x.user].status = "PENDING"
  /\ x.at = "leave" => chat[x.chat].status # "absent"
  /\ \A m \in x.msgs : /\ msg[m].chat \in Thing
                       /\ x.at = "edit" => ~msg[m].isDeleted
                       /\ x.at \in {"load", "open"} => ~msg[m].opened
                       /\ x.at = "close" => msg[m].vanishing /\ (msg[m].sender = x.user \/ <<m, x.user>> \in read)

LEMMA BeginStep ==
  ASSUME MessagingInv, NEW r \in Req, NEW x \in M!Request, Fresh(x), M!Become(r, x),
         UNCHANGED <<chat, ask, msg, read, twin, over, shown>>
  PROVE  MessagingInv'
  <1>0. /\ req' \in [Req -> M!Request] /\ req'[r] = x
        /\ \A q \in Req \ {r} : req'[q] = req[q]
    BY BecomeReq DEF MessagingInv
  <1>1. Known(r)'
    BY <1>0 DEF Known, Fresh
  <1>2. Creating(r)' /\ Judging(r)'
    BY <1>0 DEF Creating, Judging, Fresh
  <1>3. Leaving(r)'
    BY <1>0 DEF Leaving, Fresh
  <1>4. Held(r)'
    BY <1>0 DEF Held, Fresh
  <1>5. QED BY <1>0, <1>1, <1>2, <1>3, <1>4, PlainStep

\* A handler that goes on.
LEMMA GoStep ==
  ASSUME MessagingInv, NEW r \in Req, NEW l \in Places \ {"edit", "close", "load"},
         UNCHANGED <<chat, ask, msg, read, twin, over, shown>>,
         req' \in [Req -> M!Request], \A q \in Req \ {r} : req'[q] = req[q],
         req'[r].at = l, req'[r].user = req[r].user, req'[r].msgs = req[r].msgs,
         req'[r].stale = req[r].stale,
         l \in UserPlaces => req[r].at \in UserPlaces,
         l \in ChatPlaces => req'[r].chat \in Thing,
         l = "create" => M!Direct = {},
         l = "ask" => ask[req[r].user].status # "ACCEPTED",
         l \notin {"accept", "decline", "leave"},
         l = "open" => req[r].at = "load",
         l \in {"count", "empty"} => req'[r].chat = req[r].chat /\ req[r].at \in {"leave", "count"},
         l = "empty" => chat[req[r].chat].parts = {}
  PROVE  MessagingInv'
  <1>0. Known(r) /\ Leaving(r) /\ Held(r)
    BY DEF MessagingInv
  <1>1. Known(r)'
    BY <1>0 DEF Known
  <1>2. Creating(r)' /\ Judging(r)'
    BY DEF Creating, Judging, M!Direct
  <1>3. Leaving(r)'
    BY <1>0 DEF Leaving
  <1>4. Held(r)'
    BY <1>0 DEF Held
  <1>5. QED BY <1>1, <1>2, <1>3, <1>4, PlainStep

LEMMA LoadedChat ==
  ASSUME MessagingInv, NEW u \in Person, NEW c \in Thing, M!MayLoad(u, c)
  PROVE  chat[c].status # "absent"
  BY DEF MessagingInv, ChatsBegin, M!MayLoad

LEMMA StartSteps ==
  ASSUME MessagingInv, NEW r \in Req,
         \/ M!CreateOrGet(r) \/ M!ShareElsewhere(r) \/ M!OwnRequest(r) \/ M!LoadToSend(r)
         \/ M!LoadToRead(r) \/ M!FindSeen(r) \/ M!ReadOnce(r) \/ M!LeaveChat(r) \/ M!OwnMessage(r)
  PROVE  MessagingInv'
  <1>0. M!TypeOK
    BY DEF MessagingInv
  <1>1. UNCHANGED <<chat, ask, msg, read, twin, over, shown>>
    BY DEF M!CreateOrGet, M!ShareElsewhere, M!OwnRequest, M!LoadToSend, M!LoadToRead, M!FindSeen,
           M!ReadOnce, M!LeaveChat, M!OwnMessage, M!rows, M!history
  <1>2. ASSUME NEW x \in M!Request, Fresh(x), M!Become(r, x) PROVE MessagingInv'
    BY <1>1, <1>2, BeginStep
  <1>3. CASE M!CreateOrGet(r)
    <2>1. PICK u \in Person : M!Become(r, [M!Ask("find", u, None, {}) EXCEPT !.op = "createOrGet"])
      BY <1>3 DEF M!CreateOrGet
    <2> DEFINE x == [M!Ask("find", u, None, {}) EXCEPT !.op = "createOrGet"]
    <2>2. x \in M!Request /\ x.at = "find" /\ x.user = u /\ x.chat = None /\ x.msgs = {}
      BY DEF M!Ask, M!Idle, M!Request
    <2>3. Fresh(x)
      <3> HIDE DEF x
      <3>1. QED BY <2>2 DEF Fresh, UserPlaces, ChatPlaces
    <2>4. QED BY <1>2, <2>1, <2>2, <2>3
  <1>4. CASE M!ShareElsewhere(r)
    <2>1. PICK u \in Person : M!Become(r, [M!Ask("again", u, None, {}) EXCEPT !.op = "share"])
      BY <1>4 DEF M!ShareElsewhere
    <2> DEFINE x == [M!Ask("again", u, None, {}) EXCEPT !.op = "share"]
    <2>2. x \in M!Request /\ x.at = "again" /\ x.user = u /\ x.chat = None /\ x.msgs = {}
      BY DEF M!Ask, M!Idle, M!Request
    <2>3. Fresh(x)
      <3> HIDE DEF x
      <3>1. QED BY <2>2 DEF Fresh, UserPlaces, ChatPlaces
    <2>4. QED BY <1>2, <2>1, <2>2, <2>3
  <1>5. CASE M!OwnRequest(r)
    <2>1. PICK u \in Person, l \in {"accept", "decline"} :
            ask[u].status = "PENDING" /\ M!Become(r, M!Ask(l, u, None, {}))
      BY <1>5 DEF M!OwnRequest
    <2>2. l \in Places /\ {} \in SUBSET Message
      BY DEF Places
    <2> DEFINE x == M!Ask(l, u, None, {})
    <2>3. x \in M!Request /\ x.at = l /\ x.user = u /\ x.chat = None /\ x.msgs = {}
      BY <2>2 DEF M!Ask, M!Idle, M!Request, Places
    <2>4. Fresh(x)
      <3> HIDE DEF x
      <3>1. QED BY <2>1, <2>2, <2>3 DEF Fresh, UserPlaces, ChatPlaces
    <2>5. QED BY <1>2, <2>1, <2>3, <2>4
  <1>6. CASE M!LoadToSend(r)
    <2>1. PICK u \in Person, c \in Thing :
            M!Become(r, [M!Ask("blocked", u, c, {}) EXCEPT !.vanish = chat[c].vanish])
      BY <1>6 DEF M!LoadToSend
    <2> DEFINE x == [M!Ask("blocked", u, c, {}) EXCEPT !.vanish = chat[c].vanish]
    <2>2. x \in M!Request /\ x.at = "blocked" /\ x.user = u /\ x.chat = c /\ x.msgs = {}
      BY <1>0 DEF M!Ask, M!Idle, M!Request, M!TypeOK, M!ChatRow
    <2>3. Fresh(x)
      <3> HIDE DEF x
      <3>1. QED BY <2>2 DEF Fresh, UserPlaces, ChatPlaces
    <2>4. QED BY <1>2, <2>1, <2>2, <2>3
  <1>7. CASE M!LoadToRead(r)
    <2>1. PICK u \in Person, c \in Thing : M!Become(r, M!Ask("unread", u, c, {}))
      BY <1>7 DEF M!LoadToRead
    <2>2. "unread" \in Places /\ {} \in SUBSET Message
      BY DEF Places
    <2> DEFINE x == M!Ask("unread", u, c, {})
    <2>3. x \in M!Request /\ x.at = "unread" /\ x.user = u /\ x.chat = c /\ x.msgs = {}
      BY <2>2 DEF M!Ask, M!Idle, M!Request, Places
    <2>4. Fresh(x)
      <3> HIDE DEF x
      <3>1. QED BY <2>1, <2>2, <2>3 DEF Fresh, UserPlaces, ChatPlaces
    <2>5. QED BY <1>2, <2>1, <2>3, <2>4
  <1>8. CASE M!FindSeen(r)
    <2>1. PICK u \in Person, c \in Thing : M!Become(r, M!Ask("close", u, c, M!Seen(u, c)))
      BY <1>8 DEF M!FindSeen
    <2>2. "close" \in Places /\ M!Seen(u, c) \in SUBSET Message
      BY DEF Places, M!Seen, M!Of
    <2>3. \A m \in M!Seen(u, c) : /\ msg[m].chat \in Thing /\ msg[m].vanishing
                                  /\ msg[m].sender = u \/ <<m, u>> \in read
      BY DEF M!Seen, M!Of
    <2> DEFINE x == M!Ask("close", u, c, M!Seen(u, c))
    <2>4. x \in M!Request /\ x.at = "close" /\ x.user = u /\ x.chat = c /\ x.msgs = M!Seen(u, c)
      BY <2>2 DEF M!Ask, M!Idle, M!Request, Places
    <2>5. Fresh(x)
      <3> HIDE DEF x
      <3>1. QED BY <2>1, <2>2, <2>3, <2>4 DEF Fresh, UserPlaces, ChatPlaces
    <2>6. QED BY <1>2, <2>1, <2>4, <2>5
  <1>9. CASE M!ReadOnce(r)
    <2>1. PICK m \in Message :
            /\ msg[m].exists /\ ~msg[m].opened
            /\ M!Become(r, M!Ask("load", M!Peer(msg[m].sender), msg[m].chat, {m}))
      BY <1>9 DEF M!ReadOnce, M!Exists
    <2>2. /\ "load" \in Places /\ {m} \in SUBSET Message /\ M!Peer(msg[m].sender) \in Person
          /\ msg[m].chat \in Thing
      BY <2>1, PeopleAre DEF Places, MessagingInv, MessagesAreOfChats
    <2> DEFINE x == M!Ask("load", M!Peer(msg[m].sender), msg[m].chat, {m})
    <2>3. x \in M!Request /\ x.at = "load" /\ x.user = M!Peer(msg[m].sender) /\ x.chat = msg[m].chat /\ x.msgs = {m}
      BY <2>2 DEF M!Ask, M!Idle, M!Request, Places
    <2>4. Fresh(x)
      <3> HIDE DEF x
      <3>1. QED BY <2>1, <2>2, <2>3 DEF Fresh, UserPlaces, ChatPlaces
    <2>5. QED BY <1>2, <2>1, <2>3, <2>4
  <1>10. CASE M!LeaveChat(r)
    <2>1. PICK u \in Person, c \in Thing : M!MayLoad(u, c) /\ M!Become(r, M!Ask("leave", u, c, {}))
      BY <1>10 DEF M!LeaveChat
    <2>2. "leave" \in Places /\ {} \in SUBSET Message /\ chat[c].status # "absent"
      BY <2>1, LoadedChat DEF Places
    <2> DEFINE x == M!Ask("leave", u, c, {})
    <2>3. x \in M!Request /\ x.at = "leave" /\ x.user = u /\ x.chat = c /\ x.msgs = {}
      BY <2>2 DEF M!Ask, M!Idle, M!Request, Places
    <2>4. Fresh(x)
      <3> HIDE DEF x
      <3>1. QED BY <2>1, <2>2, <2>3 DEF Fresh, UserPlaces, ChatPlaces
    <2>5. QED BY <1>2, <2>1, <2>3, <2>4
  <1>11. CASE M!OwnMessage(r)
    <2>1. PICK m \in Message, l \in {"edit", "delete"} :
            /\ msg[m].exists /\ ~msg[m].isDeleted
            /\ M!Become(r, M!Ask(l, msg[m].sender, msg[m].chat, {m}))
      BY <1>11 DEF M!OwnMessage, M!Exists
    <2>2. /\ l \in Places /\ {m} \in SUBSET Message /\ msg[m].sender \in Person \cup {None}
          /\ msg[m].chat \in Thing
      BY <1>0, <2>1 DEF Places, MessagingInv, MessagesAreOfChats, M!TypeOK, M!MessageRow
    <2> DEFINE x == M!Ask(l, msg[m].sender, msg[m].chat, {m})
    <2>3. x \in M!Request /\ x.at = l /\ x.user = msg[m].sender /\ x.chat = msg[m].chat /\ x.msgs = {m}
      BY <2>2 DEF M!Ask, M!Idle, M!Request, Places
    <2>4. Fresh(x)
      <3> HIDE DEF x
      <3>1. QED BY <2>1, <2>2, <2>3 DEF Fresh, UserPlaces, ChatPlaces
    <2>5. QED BY <1>2, <2>1, <2>3, <2>4
  <1>12. QED BY <1>3, <1>4, <1>5, <1>6, <1>7, <1>8, <1>9, <1>10, <1>11

LEMMA DirectIs == ASSUME NEW c \in M!Direct PROVE c \in Thing /\ chat[c].parts = Person
  BY DEF M!Direct

LEMMA GoSteps ==
  ASSUME MessagingInv, NEW r \in Req,
         \/ M!FindChat(r) \/ M!FindAgain(r) \/ M!MayWriteFreely(r) \/ M!AskedBefore(r)
         \/ M!AssertNotBlocked(r) \/ M!LoadToOpen(r) \/ M!CountLeft(r) \/ M!Fail(r)
  PROVE  MessagingInv'
  <1>0. M!TypeOK /\ Known(r)
    BY DEF MessagingInv
  <1>1. UNCHANGED <<chat, ask, msg, read, twin, over, shown>>
    BY DEF M!FindChat, M!FindAgain, M!MayWriteFreely, M!AskedBefore, M!AssertNotBlocked, M!LoadToOpen,
           M!CountLeft, M!Fail, M!rows, M!history
  <1>2. CASE M!FindChat(r)
    <2>1. req[r].at = "find"
      BY <1>2 DEF M!FindChat, M!At
    <2>2. CASE M!Direct = {}
      <3>1. M!Goto(r, "again")
        BY <1>2, <2>2 DEF M!FindChat
      <3>2. QED BY <1>0, <1>1, <2>1, <3>1, GotoReq, GoStep DEF UserPlaces, ChatPlaces, Places
    <2>3. CASE M!Direct # {}
      <3>1. PICK c \in M!Direct : M!Become(r, [req[r] EXCEPT !.at = "free", !.chat = c])
        BY <1>2, <2>3 DEF M!FindChat
      <3> DEFINE x == [req[r] EXCEPT !.at = "free", !.chat = c]
      <3>2. /\ x \in M!Request /\ x.at = "free" /\ x.chat \in Thing /\ x.user = req[r].user
            /\ x.msgs = req[r].msgs /\ x.stale = req[r].stale
        <4>1. req[r] \in M!Request /\ "free" \in Places /\ c \in Thing
          BY <1>0, DirectIs DEF M!TypeOK, Places
        <4>2. x \in M!Request
          BY <4>1, WithChat
        <4>3. QED BY <4>1, <4>2 DEF M!Request
      <3>3. M!Become(r, x)
        BY <3>1
      <3> HIDE DEF x
      <3>4. /\ req' \in [Req -> M!Request] /\ req'[r] = x /\ \A q \in Req \ {r} : req'[q] = req[q]
        BY <1>0, <3>2, <3>3, BecomeReq
      <3>5. QED BY <1>1, <2>1, <3>2, <3>4, GoStep DEF UserPlaces, ChatPlaces, Places
    <2>4. QED BY <2>2, <2>3
  <1>3. CASE M!FindAgain(r)
    <2>1. req[r].at = "again"
      BY <1>3 DEF M!FindAgain, M!At
    <2>2. CASE M!Direct = {}
      <3>1. M!Goto(r, "create")
        BY <1>3, <2>2 DEF M!FindAgain
      <3>2. QED BY <1>0, <1>1, <2>1, <2>2, <3>1, GotoReq, GoStep DEF UserPlaces, ChatPlaces, Places
    <2>3. CASE M!Direct # {}
      <3>1. PICK c \in M!Direct, l \in {"free", "send"} : M!Become(r, [req[r] EXCEPT !.at = l, !.chat = c])
        BY <1>3, <2>3 DEF M!FindAgain, M!Found
      <3> DEFINE x == [req[r] EXCEPT !.at = l, !.chat = c]
      <3>2. /\ x \in M!Request /\ x.at \in {"free", "send"} /\ x.chat \in Thing /\ x.user = req[r].user
            /\ x.msgs = req[r].msgs /\ x.stale = req[r].stale
        <4>1. req[r] \in M!Request /\ l \in Places /\ c \in Thing
          BY <1>0, DirectIs DEF M!TypeOK, Places
        <4>2. x \in M!Request
          BY <4>1, WithChat
        <4>3. QED BY <4>1, <4>2 DEF M!Request
      <3>3. M!Become(r, x)
        BY <3>1
      <3> HIDE DEF x
      <3>4. /\ req' \in [Req -> M!Request] /\ req'[r] = x /\ \A q \in Req \ {r} : req'[q] = req[q]
        BY <1>0, <3>2, <3>3, BecomeReq
      <3>5. QED BY <1>1, <2>1, <3>2, <3>4, GoStep DEF UserPlaces, ChatPlaces, Places
    <2>4. QED BY <2>2, <2>3
  <1>4. CASE M!MayWriteFreely(r)
    <2>1. req[r].at = "free" /\ (M!Goto(r, "end") \/ M!Goto(r, "asked"))
      BY <1>4 DEF M!MayWriteFreely, M!At
    <2>2. QED BY <1>0, <1>1, <2>1, GotoReq, GoStep DEF UserPlaces, ChatPlaces, Places, Known
  <1>5. CASE M!AskedBefore(r)
    <2>1. /\ req[r].at = "asked"
          /\ M!Goto(r, "end") \/ (M!Goto(r, "ask") /\ ask[req[r].user].status # "ACCEPTED")
      BY <1>5 DEF M!AskedBefore, M!At
    <2>2. QED BY <1>0, <1>1, <2>1, GotoReq, GoStep DEF UserPlaces, ChatPlaces, Places, Known
  <1>6. CASE M!AssertNotBlocked(r)
    <2>1. req[r].at = "blocked" /\ (M!Goto(r, "end") \/ M!Goto(r, "send"))
      BY <1>6 DEF M!AssertNotBlocked, M!At
    <2>2. QED BY <1>0, <1>1, <2>1, GotoReq, GoStep DEF UserPlaces, ChatPlaces, Places, Known
  <1>7. CASE M!LoadToOpen(r)
    <2>1. req[r].at = "load" /\ (M!Goto(r, "end") \/ M!Goto(r, "open"))
      BY <1>7 DEF M!LoadToOpen, M!At
    <2>2. QED BY <1>0, <1>1, <2>1, GotoReq, GoStep DEF UserPlaces, ChatPlaces, Places
  <1>8. CASE M!CountLeft(r)
    <2>1. /\ req[r].at = "count"
          /\ M!Goto(r, "end") \/ (M!Goto(r, "empty") /\ chat[req[r].chat].parts = {})
      BY <1>8 DEF M!CountLeft, M!At
    <2>2. QED BY <1>0, <1>1, <2>1, GotoReq, GoStep DEF UserPlaces, ChatPlaces, Places, Known
  <1>9. CASE M!Fail(r)
    <2>1. M!Goto(r, "end")
      BY <1>9 DEF M!Fail, M!Answered, M!Goto
    <2>2. QED BY <1>0, <1>1, <2>1, GotoReq, GoStep DEF UserPlaces, ChatPlaces, Places
  <1>10. QED BY <1>2, <1>3, <1>4, <1>5, <1>6, <1>7, <1>8, <1>9

LEMMA FindUnreadStep == ASSUME MessagingInv, NEW r \in Req, M!FindUnread(r) PROVE MessagingInv'
  <1> DEFINE S == {m \in M!Of(req[r].chat) : msg[m].sender # req[r].user /\ <<m, req[r].user>> \notin read}
             x == [req[r] EXCEPT !.at = "reads", !.msgs = S]
  <1>0. M!TypeOK /\ Known(r)
    BY DEF MessagingInv
  <1>1. UNCHANGED <<chat, ask, msg, read, twin, over, shown>> /\ req[r].at = "unread" /\ M!Become(r, x)
    BY DEF M!FindUnread, M!rows, M!history, M!At
  <1>2. req[r].user \in Person /\ req[r].chat \in Thing
    BY <1>0, <1>1 DEF Known, UserPlaces, ChatPlaces
  <1>3. S \in SUBSET Message /\ \A m \in S : msg[m].chat \in Thing
    BY <1>2 DEF M!Of
  <1> HIDE DEF S
  <1>4. /\ x \in M!Request /\ x.at = "reads" /\ x.user = req[r].user /\ x.chat = req[r].chat /\ x.msgs = S
    BY <1>0, <1>3 DEF M!TypeOK, M!Request
  <1> HIDE DEF x
  <1>5. Fresh(x)
    BY <1>2, <1>3, <1>4 DEF Fresh
  <1>6. QED BY <1>1, <1>4, <1>5, BeginStep

\* The handlers that a step passes by: at most they are marked stale.
Passed(q) == /\ \/ req'[q] = req[q]
                \/ req'[q] = [req[q] EXCEPT !.stale = TRUE]
             /\ req'[q] \in M!Request

LEMMA PassedIs ==
  ASSUME M!TypeOK, NEW q \in Req, Passed(q)
  PROVE  /\ req'[q].at = req[q].at /\ req'[q].user = req[q].user /\ req'[q].chat = req[q].chat
         /\ req'[q].msgs = req[q].msgs /\ (req[q].stale => req'[q].stale)
  BY DEF M!TypeOK, M!Request, Passed

LEMMA PassKnown ==
  ASSUME M!TypeOK, NEW q \in Req, Known(q), Passed(q)
  PROVE  Known(q)'
  BY PassedIs DEF Known

LEMMA PassCreating ==
  ASSUME M!TypeOK, NEW q \in Req, Creating(q), Passed(q),
         req[q].at = "create" => req'[q].stale \/ (M!Direct = {} => M!Direct' = {})
  PROVE  Creating(q)'
  BY PassedIs DEF Creating

LEMMA PassJudging ==
  ASSUME M!TypeOK, NEW q \in Req, Judging(q), Passed(q),
         req[q].at \in {"ask", "accept", "decline"} =>
           \/ req'[q].stale
           \/ ask'[req[q].user].status \in {ask[req[q].user].status, "PENDING", "none"}
  PROVE  Judging(q)'
  BY PassedIs DEF Judging

LEMMA PassLeaving ==
  ASSUME M!TypeOK, NEW q \in Req, Known(q), Leaving(q), Passed(q),
         \A c \in Thing : chat[c].status # "absent" =>
           chat'[c].status # "absent" /\ (chat[c].parts = {} => chat'[c].parts = {})
  PROVE  Leaving(q)'
  BY PassedIs DEF Leaving, Known, ChatPlaces

LEMMA PassHeld ==
  ASSUME M!TypeOK, NEW q \in Req, Held(q), Passed(q),
         \A m \in Message : msg[m].chat \in Thing =>
           /\ msg'[m].chat \in Thing
           /\ msg'[m].isDeleted => msg[m].isDeleted \/ (req[q].at = "edit" /\ m \in req[q].msgs => req'[q].stale)
           /\ msg'[m].opened =>
                msg[m].opened \/ (req[q].at \in {"load", "open"} /\ m \in req[q].msgs => req'[q].stale)
           /\ msg'[m].exists => /\ msg[m].exists /\ msg'[m].sender = msg[m].sender
                                /\ msg'[m].vanishing = msg[m].vanishing
                                /\ \A u \in Person : <<m, u>> \in read => <<m, u>> \in read'
  PROVE  Held(q)'
  <1>1. SUFFICES ASSUME NEW m \in req'[q].msgs
                 PROVE  /\ msg'[m].chat \in Thing
                        /\ req'[q].at = "edit" => req'[q].stale \/ ~msg'[m].isDeleted
                        /\ req'[q].at \in {"load", "open"} => req'[q].stale \/ ~msg'[m].opened
                        /\ req'[q].at = "close" /\ msg'[m].exists =>
                             msg'[m].vanishing /\ (msg'[m].sender = req'[q].user \/ <<m, req'[q].user>> \in read')
    BY DEF Held
  <1>2. m \in req[q].msgs /\ m \in Message /\ msg[m].chat \in Thing
    BY <1>1, PassedIs DEF Held, M!TypeOK, M!Request
  <1>3. <<m, req[q].user>> \in read => req[q].user \in Person
    BY DEF M!TypeOK
  <1>4. QED BY <1>2, <1>3, PassedIs DEF Held

\* A handler that ends, or has only to tell, leaves nothing to be kept.
LEMMA ToldKept ==
  ASSUME NEW r \in Req, req'[r].at \in {"end", "tell"}, \A m \in req'[r].msgs : msg'[m].chat \in Thing
  PROVE  Known(r)' /\ Creating(r)' /\ Judging(r)' /\ Leaving(r)' /\ Held(r)'
  <1>1. Held(r)'
    BY DEF Held
  <1>2. QED BY <1>1 DEF Known, Creating, Judging, Leaving, UserPlaces, ChatPlaces

LEMMA EndKept ==
  ASSUME MessagingInv, NEW r \in Req, req'[r].at = "end", req'[r].msgs = req[r].msgs,
         \A m \in Message : msg[m].chat \in Thing => msg'[m].chat \in Thing
  PROVE  Known(r)' /\ Creating(r)' /\ Judging(r)' /\ Leaving(r)' /\ Held(r)'
  <1>1. \A m \in req[r].msgs : m \in Message /\ msg[m].chat \in Thing
    BY DEF MessagingInv, Held, M!TypeOK, M!Request
  <1>2. QED BY <1>1, ToldKept

\* A step that writes a request to write.
LEMMA AskStep ==
  ASSUME MessagingInv, NEW r \in Req, UNCHANGED <<chat, msg, read, twin, shown>>,
         ask' \in [Person -> M!RequestRow], over \subseteq over', over' \subseteq Message \cup Person,
         req' \in [Req -> M!Request], req'[r].at = "end", req'[r].msgs = req[r].msgs,
         \A q \in Req \ {r} :
           /\ Passed(q)
           /\ req[q].at \in {"ask", "accept", "decline"} =>
                req'[q].stale \/ ask'[req[q].user].status \in {ask[req[q].user].status, "PENDING", "none"}
  PROVE  MessagingInv'
  <1>1. M!TypeOK /\ M!TypeOK'
    BY DEF MessagingInv, M!TypeOK
  <1>2. ASSUME NEW q \in Req PROVE (Known(q) /\ Creating(q) /\ Judging(q) /\ Leaving(q) /\ Held(q))'
    <2>1. CASE q = r
      BY <2>1, EndKept
    <2>2. CASE q # r
      <3>1. Known(q) /\ Creating(q) /\ Judging(q) /\ Leaving(q) /\ Held(q) /\ Passed(q)
        BY <2>2 DEF MessagingInv
      <3>2. M!Direct' = M!Direct
        BY DEF M!Direct
      <3>3. Known(q)' /\ Creating(q)' /\ Leaving(q)'
        BY <1>1, <3>1, <3>2, PassKnown, PassCreating, PassLeaving
      <3>4. Judging(q)'
        BY <1>1, <2>2, <3>1, PassJudging
      <3>5. Held(q)'
        BY <1>1, <3>1, PassHeld
      <3>6. QED BY <3>3, <3>4, <3>5
    <2>3. QED BY <2>1, <2>2
  <1>3. ChatsBegin' /\ MessagesAreOfChats' /\ M!PairsHaveOneChat' /\ M!MessagesKeepTheirWord'
    BY DEF MessagingInv, ChatsBegin, MessagesAreOfChats, M!PairsHaveOneChat, M!Direct, M!MessagesKeepTheirWord
  <1>4. QED BY <1>1, <1>2, <1>3 DEF MessagingInv

\* A step that writes messages...
LEMMA WriteStep ==
  ASSUME MessagingInv, NEW r \in Req, UNCHANGED <<chat, ask, twin>>,
         msg' \in [Message -> M!MessageRow], read' \subseteq Message \X Person,
         shown' \in [Message -> [open : Nat, event : Nat]], over' \subseteq Message \cup Person,
         req' \in [Req -> M!Request], req'[r].at \in {"end", "tell"},
         \A m \in req'[r].msgs : msg'[m].chat \in Thing,
         \A m \in Message : msg[m].chat \in Thing =>
           /\ msg'[m].chat \in Thing
           /\ msg'[m].exists => /\ msg[m].exists /\ msg'[m].sender = msg[m].sender
                                /\ msg'[m].vanishing = msg[m].vanishing
                                /\ \A u \in Person : <<m, u>> \in read => <<m, u>> \in read',
         \A q \in Req \ {r} :
           /\ Passed(q)
           /\ \A m \in req[q].msgs :
                /\ req[q].at = "edit" /\ msg'[m].isDeleted => msg[m].isDeleted \/ req'[q].stale
                /\ req[q].at \in {"load", "open"} /\ msg'[m].opened => msg[m].opened \/ req'[q].stale,
         MessagesAreOfChats', M!MessagesKeepTheirWord'
  PROVE  MessagingInv'
  <1>1. M!TypeOK /\ M!TypeOK'
    BY DEF MessagingInv, M!TypeOK
  <1>2. ASSUME NEW q \in Req PROVE (Known(q) /\ Creating(q) /\ Judging(q) /\ Leaving(q) /\ Held(q))'
    <2>1. CASE q = r
      BY <2>1, ToldKept
    <2>2. CASE q # r
      <3>1. Known(q) /\ Creating(q) /\ Judging(q) /\ Leaving(q) /\ Held(q) /\ Passed(q)
        BY <2>2 DEF MessagingInv
      <3>2. M!Direct' = M!Direct
        BY DEF M!Direct
      <3>3. Known(q)' /\ Creating(q)' /\ Leaving(q)'
        BY <1>1, <3>1, <3>2, PassKnown, PassCreating, PassLeaving
      <3>4. Judging(q)'
        BY <1>1, <2>2, <3>1, PassJudging
      <3>5. Held(q)'
        BY <1>1, <2>2, <3>1, PassHeld
      <3>6. QED BY <3>3, <3>4, <3>5
    <2>3. QED BY <2>1, <2>2
  <1>3. ChatsBegin' /\ M!PairsHaveOneChat'
    BY DEF MessagingInv, ChatsBegin, M!PairsHaveOneChat, M!Direct
  <1>4. QED BY <1>1, <1>2, <1>3 DEF MessagingInv

\* ... and is the last of its handler.
LEMMA MessageStep ==
  ASSUME MessagingInv, NEW r \in Req, UNCHANGED <<chat, ask, twin>>,
         msg' \in [Message -> M!MessageRow], read' \subseteq Message \X Person,
         shown' \in [Message -> [open : Nat, event : Nat]], over' \subseteq Message \cup Person,
         req' \in [Req -> M!Request], req'[r].at = "end", req'[r].msgs = req[r].msgs,
         \A m \in Message : msg[m].chat \in Thing =>
           /\ msg'[m].chat \in Thing
           /\ msg'[m].exists => /\ msg[m].exists /\ msg'[m].sender = msg[m].sender
                                /\ msg'[m].vanishing = msg[m].vanishing
                                /\ \A u \in Person : <<m, u>> \in read => <<m, u>> \in read',
         \A q \in Req \ {r} :
           /\ Passed(q)
           /\ \A m \in req[q].msgs :
                /\ req[q].at = "edit" /\ msg'[m].isDeleted => msg[m].isDeleted \/ req'[q].stale
                /\ req[q].at \in {"load", "open"} /\ msg'[m].opened => msg[m].opened \/ req'[q].stale,
         MessagesAreOfChats', M!MessagesKeepTheirWord'
  PROVE  MessagingInv'
  <1>1. \A m \in req[r].msgs : m \in Message /\ msg[m].chat \in Thing
    BY DEF MessagingInv, Held, M!TypeOK, M!Request
  <1>2. QED BY <1>1, WriteStep

\* A step that writes a chat.
LEMMA ChatStep ==
  ASSUME MessagingInv, NEW r \in Req, UNCHANGED <<ask, msg, read, over, shown>>,
         chat' \in [Thing -> M!ChatRow], twin' \subseteq Thing,
         req' \in [Req -> M!Request], Known(r)', Creating(r)', Judging(r)', Leaving(r)', Held(r)',
         \A c \in Thing : chat[c].status # "absent" =>
           chat'[c].status # "absent" /\ (chat[c].parts = {} => chat'[c].parts = {}),
         \A q \in Req \ {r} :
           /\ Passed(q)
           /\ req[q].at = "create" => req'[q].stale \/ (M!Direct = {} => M!Direct' = {}),
         ChatsBegin', M!PairsHaveOneChat'
  PROVE  MessagingInv'
  <1>1. M!TypeOK /\ M!TypeOK'
    BY DEF MessagingInv, M!TypeOK
  <1>2. ASSUME NEW q \in Req PROVE (Known(q) /\ Creating(q) /\ Judging(q) /\ Leaving(q) /\ Held(q))'
    <2>1. CASE q = r
      BY <2>1
    <2>2. CASE q # r
      <3>1. Known(q) /\ Creating(q) /\ Judging(q) /\ Leaving(q) /\ Held(q) /\ Passed(q)
        BY <2>2 DEF MessagingInv
      <3>3. Known(q)' /\ Creating(q)' /\ Leaving(q)'
        BY <1>1, <2>2, <3>1, PassKnown, PassCreating, PassLeaving
      <3>4. Judging(q)'
        BY <1>1, <2>2, <3>1, PassJudging
      <3>5. Held(q)'
        BY <1>1, <3>1, PassHeld
      <3>6. QED BY <3>3, <3>4, <3>5
    <2>3. QED BY <2>1, <2>2
  <1>3. MessagesAreOfChats' /\ M!MessagesKeepTheirWord'
    BY DEF MessagingInv, MessagesAreOfChats, M!MessagesKeepTheirWord
  <1>4. QED BY <1>1, <1>2, <1>3 DEF MessagingInv

LEMMA AnsweredBy ==
  ASSUME M!TypeOK, NEW r \in Req, M!Become(r, M!Answered(r))
  PROVE  /\ req' \in [Req -> M!Request] /\ req'[r].at = "end" /\ req'[r].msgs = req[r].msgs
         /\ \A q \in Req \ {r} : Passed(q) /\ req'[q] = req[q]
  BY AnsweredIs, BecomeReq DEF Passed

LEMMA AnsweredOver ==
  ASSUME M!TypeOK, NEW r \in Req, NEW S, M!Overtake(r, M!Answered(r), S)
  PROVE  /\ req' \in [Req -> M!Request] /\ req'[r].at = "end" /\ req'[r].msgs = req[r].msgs
         /\ \A q \in Req \ {r} : Passed(q) /\ (q \in S => req'[q].stale)
  <1>1. /\ req' \in [Req -> M!Request] /\ req'[r] = M!Answered(r)
        /\ \A q \in Req \ {r} : /\ q \in S => req'[q] = [req[q] EXCEPT !.stale = TRUE]
                                /\ q \notin S => req'[q] = req[q]
    BY AnsweredIs, OvertakeReq
  <1>2. \A q \in Req : [req[q] EXCEPT !.stale = TRUE].stale
    BY DEF M!TypeOK, M!Request
  <1>3. QED BY <1>1, <1>2, AnsweredIs DEF Passed

LEMMA DecidingSteps ==
  ASSUME MessagingInv, NEW r \in Req, M!UpsertRequest(r) \/ M!Accept(r) \/ M!Decline(r)
  PROVE  MessagingInv'
  <1>0. M!TypeOK /\ Known(r)
    BY DEF MessagingInv
  <1> DEFINE u == req[r].user
  <1>1. u \in Person
    BY <1>0 DEF Known, UserPlaces, M!UpsertRequest, M!Accept, M!Decline, M!Decide, M!At
  <1>2. CASE M!UpsertRequest(r)
    <2>1. M!Become(r, M!Answered(r)) /\ UNCHANGED <<chat, msg, read, twin, shown>> /\ req[r].at = "ask"
      BY <1>2 DEF M!UpsertRequest, M!At
    <2>2. /\ \/ ask' = [ask EXCEPT ![u].status = "PENDING"]
             \/ ask' = [ask EXCEPT ![u] = [status |-> "PENDING", chat |-> req[r].chat]]
             \/ ask' = ask
          /\ over' \in {over, over \cup {u}}
      BY <1>2 DEF M!UpsertRequest
    <2>3. req[r].chat \in Thing
      BY <1>0, <2>1 DEF Known, ChatPlaces
    <2>4. /\ ask' \in [Person -> M!RequestRow]
          /\ \A v \in Person : ask'[v].status \in {ask[v].status, "PENDING", "none"}
      BY <1>0, <1>1, <2>2, <2>3 DEF M!TypeOK, M!RequestRow
    <2>5. /\ req' \in [Req -> M!Request] /\ req'[r].at = "end" /\ req'[r].msgs = req[r].msgs
          /\ \A q \in Req \ {r} : Passed(q)
      BY <1>0, <2>1, AnsweredBy
    <2>6. over \subseteq over' /\ over' \subseteq Message \cup Person
      BY <1>0, <1>1, <2>2 DEF M!TypeOK
    <2>7. \A q \in Req : req[q].at \in {"ask", "accept", "decline"} => req[q].user \in Person
      BY DEF MessagingInv, Known, UserPlaces
    <2>8. QED BY <2>1, <2>4, <2>5, <2>6, <2>7, AskStep
  <1>3. ASSUME NEW l \in {"accept", "decline"}, NEW s \in {"ACCEPTED", "DECLINED"}, M!Decide(r, l, s)
        PROVE  MessagingInv'
    <2>1. UNCHANGED <<chat, msg, read, twin, shown>>
      BY <1>3 DEF M!Decide
    <2>2. CASE ask[u].status = "none"
      <3>1. M!Become(r, M!Answered(r)) /\ UNCHANGED <<ask, over>>
        BY <1>3, <2>2 DEF M!Decide
      <3>2. /\ req' \in [Req -> M!Request] /\ req'[r].at = "end" /\ req'[r].msgs = req[r].msgs
            /\ \A q \in Req \ {r} : Passed(q)
        BY <1>0, <3>1, AnsweredBy
      <3>3. QED BY <1>0, <2>1, <3>1, <3>2, AskStep DEF M!TypeOK
    <2>3. CASE ask[u].status # "none"
      <3>1. /\ ask' = [ask EXCEPT ![u].status = s]
            /\ over' \in {over, over \cup {u}}
            /\ M!Overtake(r, M!Answered(r), M!Deciding(u, {"accept", "decline", "ask"}))
        BY <1>3, <2>3 DEF M!Decide
      <3>2. /\ req' \in [Req -> M!Request] /\ req'[r].at = "end" /\ req'[r].msgs = req[r].msgs
            /\ \A q \in Req \ {r} : Passed(q) /\ (q \in M!Deciding(u, {"accept", "decline", "ask"}) => req'[q].stale)
        BY <1>0, <3>1, AnsweredOver
      <3>3. /\ ask' \in [Person -> M!RequestRow]
            /\ \A v \in Person \ {u} : ask'[v] = ask[v]
        BY <1>0, <1>1, <3>1 DEF M!TypeOK, M!RequestRow
      <3>4. over \subseteq over' /\ over' \subseteq Message \cup Person
        BY <1>0, <1>1, <3>1 DEF M!TypeOK
      <3>5. ASSUME NEW q \in Req \ {r}, req[q].at \in {"ask", "accept", "decline"}
            PROVE  req'[q].stale \/ ask'[req[q].user].status = ask[req[q].user].status
        <4>1. req[q].user \in Person
          BY <3>5 DEF MessagingInv, Known, UserPlaces
        <4>2. QED BY <3>2, <3>3, <3>5, <4>1 DEF M!Deciding
      <3>6. QED BY <2>1, <3>2, <3>3, <3>4, <3>5, AskStep
    <2>4. QED BY <2>2, <2>3
  <1>4. QED BY <1>2, <1>3 DEF M!Accept, M!Decline

LEMMA CreateMessageStep == ASSUME MessagingInv, NEW r \in Req, M!CreateMessage(r) PROVE MessagingInv'
  <1> DEFINE c == req[r].chat
  <1>0. M!TypeOK /\ Known(r) /\ M!MessagesKeepTheirWord /\ MessagesAreOfChats
    BY DEF MessagingInv
  <1>1. UNCHANGED <<chat, ask, read, twin, over, shown>> /\ req[r].at = "send"
    BY DEF M!CreateMessage, M!history, M!At
  <1>2. ASSUME M!Become(r, M!Answered(r))
        PROVE  /\ req' \in [Req -> M!Request] /\ req'[r].at = "end" /\ req'[r].msgs = req[r].msgs
               /\ \A q \in Req \ {r} : Passed(q)
    BY <1>0, <1>2, AnsweredBy
  <1>3. CASE M!Become(r, M!Answered(r)) /\ msg' = msg
    BY <1>0, <1>1, <1>2, <1>3, MessageStep DEF M!TypeOK, MessagesAreOfChats, M!MessagesKeepTheirWord
  <1>4. CASE ~(M!Become(r, M!Answered(r)) /\ msg' = msg)
    <2>1. PICK n \in Message, once \in BOOLEAN :
            /\ msg[n] = M!NoMessage
            /\ msg' = [msg EXCEPT ![n] = [M!NoMessage EXCEPT !.chat = c, !.sender = req[r].user,
                             !.text = TRUE, !.vanishing = req[r].vanish, !.once = once, !.exists = TRUE]]
            /\ M!Become(r, IF once THEN [req[r] EXCEPT !.at = "tell", !.msgs = {n}] ELSE M!Answered(r))
      BY <1>4 DEF M!CreateMessage
    <2> DEFINE x == [M!NoMessage EXCEPT !.chat = c, !.sender = req[r].user,
                       !.text = TRUE, !.vanishing = req[r].vanish, !.once = once, !.exists = TRUE]
    <2>2. c \in Thing /\ req[r].user \in Person \cup {None} /\ req[r].vanish \in BOOLEAN
      BY <1>0, <1>1 DEF Known, ChatPlaces, M!TypeOK, M!Request
    <2>3. x \in M!MessageRow /\ x.chat \in Thing /\ ~x.isDeleted /\ ~x.opened
      BY <2>2 DEF M!MessageRow, M!NoMessage
    <2>4. msg[n].chat = None /\ ~msg[n].opened
      BY <2>1 DEF M!NoMessage
    <2>5. msg' = [msg EXCEPT ![n] = x]
      BY <2>1
    <2> HIDE DEF x
    <2>6. msg' \in [Message -> M!MessageRow] /\ msg'[n] = x /\ \A m \in Message \ {n} : msg'[m] = msg[m]
      BY <1>0, <2>3, <2>5 DEF M!TypeOK
    <2>7. MessagesAreOfChats'
      BY <1>0, <2>3, <2>6 DEF MessagesAreOfChats
    <2>8. M!MessagesKeepTheirWord'
      <3>1. SUFFICES ASSUME NEW m \in Message, m \notin over
                     PROVE  /\ msg'[m].isDeleted => ~msg'[m].text
                            /\ shown[m].open <= 1 /\ (shown[m].open = 1 => msg'[m].opened)
        BY <1>1 DEF M!MessagesKeepTheirWord
      <3>2. /\ msg[m].isDeleted => ~msg[m].text
            /\ shown[m].open <= 1 /\ (shown[m].open = 1 => msg[m].opened)
        BY <1>0, <3>1 DEF M!MessagesKeepTheirWord
      <3>3. QED BY <2>3, <2>4, <2>6, <3>2
    <2>9. \A m \in Message : msg[m].chat \in Thing => m # n
      BY <2>4, NothingElse
    <2>10. \A q \in Req : \A m \in req[q].msgs : m \in Message /\ msg[m].chat \in Thing
      BY DEF MessagingInv, Held, M!TypeOK, M!Request
    <2>11. \A m \in Message : msg[m].chat \in Thing => msg'[m] = msg[m]
      BY <2>6, <2>9
    <2>12. CASE once
      <3> DEFINE y == [req[r] EXCEPT !.at = "tell", !.msgs = {n}]
      <3>1. y \in M!Request /\ y.at = "tell" /\ y.msgs = {n}
        BY <1>0 DEF M!TypeOK, M!Request
      <3>2. M!Become(r, y)
        BY <2>1, <2>12
      <3> HIDE DEF y
      <3>3. /\ req' \in [Req -> M!Request] /\ req'[r].at = "tell" /\ req'[r].msgs = {n}
            /\ \A q \in Req \ {r} : Passed(q)
        BY <1>0, <3>1, <3>2, BecomeReq DEF Passed
      <3>4. msg'[n].chat \in Thing
        BY <2>3, <2>6
      <3>5. QED BY <1>0, <1>1, <2>6, <2>7, <2>8, <2>10, <2>11, <3>3, <3>4, WriteStep DEF M!TypeOK, MessagesAreOfChats
    <2>13. CASE ~once
      <3>1. M!Become(r, M!Answered(r))
        BY <2>1, <2>13
      <3>2. QED BY <1>0, <1>1, <1>2, <2>6, <2>7, <2>8, <2>10, <2>11, <3>1, MessageStep DEF M!TypeOK, MessagesAreOfChats
    <2>14. QED BY <2>12, <2>13
  <1>5. QED BY <1>3, <1>4

\* What a handler holds are messages of chats.
LEMMA HeldAre == MessagingInv => \A q \in Req : \A m \in req[q].msgs : m \in Message /\ msg[m].chat \in Thing
  BY DEF MessagingInv, Held, M!TypeOK, M!Request

LEMMA EditStep == ASSUME MessagingInv, NEW r \in Req, M!Edit(r) PROVE MessagingInv'
  <1>0. M!TypeOK /\ Held(r) /\ M!MessagesKeepTheirWord /\ MessagesAreOfChats
    BY DEF MessagingInv
  <1>1. UNCHANGED <<chat, ask, read, twin, shown>> /\ req[r].at = "edit"
    BY DEF M!Edit, M!At
  <1>2. PICK m \in req[r].msgs :
          IF msg[m].exists
          THEN /\ msg' = [msg EXCEPT ![m].text = TRUE]
               /\ over' = IF req[r].stale THEN over \cup {m} ELSE over
               /\ M!Goto(r, IF msg[m].once /\ ~msg[m].isDeleted THEN "tell" ELSE "end")
          ELSE M!Become(r, M!Answered(r)) /\ UNCHANGED <<msg, over>>
    BY DEF M!Edit, M!Exists
  <1>3. m \in Message /\ msg[m].chat \in Thing /\ (req[r].stale \/ ~msg[m].isDeleted)
    BY <1>0, <1>1, HeldAre DEF Held
  <1>4. /\ req' \in [Req -> M!Request] /\ req'[r].at \in {"end", "tell"} /\ req'[r].msgs = req[r].msgs
        /\ \A q \in Req \ {r} : Passed(q)
    <2>1. CASE M!Become(r, M!Answered(r))
      BY <1>0, <2>1, AnsweredBy
    <2>2. CASE M!Goto(r, "end") \/ M!Goto(r, "tell")
      BY <1>0, <2>2, GotoReq DEF Passed, Places
    <2>3. QED BY <1>2, <2>1, <2>2
  <1>5. /\ msg' \in [Message -> M!MessageRow]
        /\ \A n \in Message : /\ msg'[n].chat = msg[n].chat /\ msg'[n].exists = msg[n].exists
                              /\ msg'[n].sender = msg[n].sender /\ msg'[n].vanishing = msg[n].vanishing
                              /\ msg'[n].isDeleted = msg[n].isDeleted /\ msg'[n].opened = msg[n].opened
                              /\ n # m => msg'[n] = msg[n]
    <2>1. CASE msg' = msg
      BY <1>0, <2>1 DEF M!TypeOK
    <2>2. CASE msg' = [msg EXCEPT ![m].text = TRUE]
      <3>1. msg[m] \in M!MessageRow
        BY <1>0, <1>3 DEF M!TypeOK
      <3> DEFINE x == [msg[m] EXCEPT !.text = TRUE]
      <3>2. /\ x \in M!MessageRow /\ x.chat = msg[m].chat /\ x.exists = msg[m].exists
            /\ x.sender = msg[m].sender /\ x.vanishing = msg[m].vanishing
            /\ x.isDeleted = msg[m].isDeleted /\ x.opened = msg[m].opened
        BY <3>1 DEF M!MessageRow
      <3>3. msg' = [msg EXCEPT ![m] = x]
        BY <2>2
      <3> HIDE DEF x
      <3>4. QED BY <1>0, <1>3, <3>2, <3>3 DEF M!TypeOK
    <2>3. QED BY <1>2, <2>1, <2>2
  <1>6. /\ over \subseteq over' /\ over' \subseteq Message \cup Person
        /\ msg' # msg /\ req[r].stale => m \in over'
    BY <1>0, <1>2, <1>3 DEF M!TypeOK
  <1>7. M!MessagesKeepTheirWord'
    <2>1. SUFFICES ASSUME NEW n \in Message, n \notin over'
                   PROVE  /\ msg'[n].isDeleted => ~msg'[n].text
                          /\ shown[n].open <= 1 /\ (shown[n].open = 1 => msg'[n].opened)
      BY <1>1 DEF M!MessagesKeepTheirWord
    <2>2. /\ msg[n].isDeleted => ~msg[n].text
          /\ shown[n].open <= 1 /\ (shown[n].open = 1 => msg[n].opened)
      BY <1>0, <1>6, <2>1 DEF M!MessagesKeepTheirWord
    <2>3. QED BY <1>3, <1>5, <1>6, <2>1, <2>2
  <1>8. MessagesAreOfChats'
    BY <1>0, <1>5 DEF MessagesAreOfChats
  <1>9. QED BY <1>0, <1>1, <1>4, <1>5, <1>6, <1>7, <1>8, HeldAre, WriteStep DEF M!TypeOK

LEMMA EmitStep == ASSUME MessagingInv, NEW r \in Req, M!Emit(r) PROVE MessagingInv'
  <1>0. M!TypeOK /\ M!MessagesKeepTheirWord /\ MessagesAreOfChats
    BY DEF MessagingInv
  <1>1. UNCHANGED <<chat, ask, msg, read, twin, over>> /\ M!Become(r, M!Answered(r))
    BY DEF M!Emit, M!rows
  <1>2. /\ req' \in [Req -> M!Request] /\ req'[r].at = "end" /\ req'[r].msgs = req[r].msgs
        /\ \A q \in Req \ {r} : Passed(q)
    BY <1>0, <1>1, AnsweredBy
  <1>3. /\ shown' \in [Message -> [open : Nat, event : Nat]]
        /\ \A m \in Message : shown'[m].open = shown[m].open
    BY <1>0 DEF M!Emit, M!TypeOK
  <1>4. M!MessagesKeepTheirWord' /\ MessagesAreOfChats'
    BY <1>0, <1>1, <1>3 DEF M!MessagesKeepTheirWord, MessagesAreOfChats
  <1>5. QED BY <1>0, <1>1, <1>2, <1>3, <1>4, MessageStep DEF M!TypeOK

LEMMA DeleteStep == ASSUME MessagingInv, NEW r \in Req, M!Delete(r) PROVE MessagingInv'
  <1>0. M!TypeOK /\ M!MessagesKeepTheirWord /\ MessagesAreOfChats
    BY DEF MessagingInv
  <1>1. UNCHANGED <<chat, ask, read, twin, over, shown>>
    BY DEF M!Delete, M!history
  <1>2. PICK m \in req[r].msgs :
          /\ msg' = IF msg[m].exists THEN [msg EXCEPT ![m].isDeleted = TRUE, ![m].text = FALSE] ELSE msg
          /\ M!Overtake(r, M!Answered(r), M!Holding(m, {"edit"}))
    BY DEF M!Delete, M!Exists
  <1>3. m \in Message /\ msg[m].chat \in Thing
    BY HeldAre
  <1>4. /\ req' \in [Req -> M!Request] /\ req'[r].at = "end" /\ req'[r].msgs = req[r].msgs
        /\ \A q \in Req \ {r} : Passed(q) /\ (q \in M!Holding(m, {"edit"}) => req'[q].stale)
    BY <1>0, <1>2, AnsweredOver
  <1>5. /\ msg' \in [Message -> M!MessageRow]
        /\ \A n \in Message : /\ msg'[n].chat = msg[n].chat /\ msg'[n].exists = msg[n].exists
                              /\ msg'[n].sender = msg[n].sender /\ msg'[n].vanishing = msg[n].vanishing
                              /\ msg'[n].opened = msg[n].opened
                              /\ msg'[n].isDeleted /\ ~msg[n].isDeleted => n = m
                              /\ (msg[n].isDeleted => ~msg[n].text) => (msg'[n].isDeleted => ~msg'[n].text)
    <2>1. msg[m] \in M!MessageRow
      BY <1>0, <1>3 DEF M!TypeOK
    <2> DEFINE x == [msg[m] EXCEPT !.isDeleted = TRUE, !.text = FALSE]
    <2>2. /\ x \in M!MessageRow /\ x.chat = msg[m].chat /\ x.exists = msg[m].exists
          /\ x.sender = msg[m].sender /\ x.vanishing = msg[m].vanishing
          /\ x.opened = msg[m].opened /\ x.isDeleted /\ ~x.text
      BY <2>1 DEF M!MessageRow
    <2>3. msg' = msg \/ msg' = [msg EXCEPT ![m] = x]
      BY <1>0, <1>2, <1>3 DEF M!TypeOK
    <2> HIDE DEF x
    <2>4. CASE msg' = msg
      BY <1>0, <2>4 DEF M!TypeOK
    <2>5. CASE msg' = [msg EXCEPT ![m] = x]
      BY <1>0, <1>3, <2>2, <2>5 DEF M!TypeOK
    <2>6. QED BY <2>3, <2>4, <2>5
  <1>6. M!MessagesKeepTheirWord'
    BY <1>0, <1>1, <1>5 DEF M!MessagesKeepTheirWord
  <1>7. MessagesAreOfChats'
    BY <1>0, <1>5 DEF MessagesAreOfChats
  <1>8. \A q \in Req \ {r} : \A n \in req[q].msgs :
          req[q].at = "edit" /\ msg'[n].isDeleted => msg[n].isDeleted \/ req'[q].stale
    BY <1>4, <1>5, HeldAre DEF M!Holding
  <1>9. QED BY <1>0, <1>1, <1>4, <1>5, <1>6, <1>7, <1>8, HeldAre, MessageStep DEF M!TypeOK

LEMMA CreateReadsStep == ASSUME MessagingInv, NEW r \in Req, M!CreateReads(r) PROVE MessagingInv'
  <1>0. M!TypeOK /\ Known(r) /\ M!MessagesKeepTheirWord /\ MessagesAreOfChats
    BY DEF MessagingInv
  <1>1. /\ UNCHANGED <<chat, ask, msg, twin, over, shown>> /\ M!Become(r, M!Answered(r)) /\ req[r].at = "reads"
        /\ read' = read \/ read' = read \cup (req[r].msgs \X {req[r].user})
    BY DEF M!CreateReads, M!At, M!history
  <1>2. /\ req' \in [Req -> M!Request] /\ req'[r].at = "end" /\ req'[r].msgs = req[r].msgs
        /\ \A q \in Req \ {r} : Passed(q)
    BY <1>0, <1>1, AnsweredBy
  <1>3. req[r].user \in Person /\ req[r].msgs \subseteq Message
    BY <1>0, <1>1, HeldAre DEF Known, UserPlaces
  <1>4. read' \subseteq Message \X Person /\ read \subseteq read'
    BY <1>0, <1>1, <1>3 DEF M!TypeOK
  <1>5. M!MessagesKeepTheirWord' /\ MessagesAreOfChats'
    BY <1>0, <1>1 DEF M!MessagesKeepTheirWord, MessagesAreOfChats
  <1>6. QED BY <1>0, <1>1, <1>2, <1>4, <1>5, MessageStep DEF M!TypeOK

\* Removing messages changes nothing else about them.
LEMMA RemoveIs ==
  ASSUME M!TypeOK, NEW S, M!Remove(S)
  PROVE  /\ msg' \in [Message -> M!MessageRow] /\ read' \subseteq Message \X Person
         /\ \A n \in Message : /\ msg'[n].chat = msg[n].chat /\ msg'[n].sender = msg[n].sender
                               /\ msg'[n].vanishing = msg[n].vanishing /\ msg'[n].opened = msg[n].opened
                               /\ msg'[n].isDeleted = msg[n].isDeleted /\ msg'[n].text = msg[n].text
                               /\ msg'[n].exists => msg[n].exists /\ n \notin S
                               /\ msg[n].exists /\ ~msg'[n].exists => n \in S
         /\ \A n \in Message \ S, u \in Person : <<n, u>> \in read => <<n, u>> \in read'
  <1>1. \A n \in Message : msg'[n] = IF n \in S THEN [msg[n] EXCEPT !.exists = FALSE] ELSE msg[n]
    BY DEF M!Remove
  <1>2. \A n \in Message : msg[n] \in M!MessageRow
    BY DEF M!TypeOK
  <1>3. msg' = [n \in Message |-> msg'[n]]
    BY DEF M!Remove
  <1>4. ASSUME NEW n \in Message
        PROVE  /\ msg'[n] \in M!MessageRow
               /\ msg'[n].chat = msg[n].chat /\ msg'[n].sender = msg[n].sender
               /\ msg'[n].vanishing = msg[n].vanishing /\ msg'[n].opened = msg[n].opened
               /\ msg'[n].isDeleted = msg[n].isDeleted /\ msg'[n].text = msg[n].text
               /\ msg'[n].exists => msg[n].exists /\ n \notin S
               /\ msg[n].exists /\ ~msg'[n].exists => n \in S
    BY <1>1, <1>2 DEF M!MessageRow
  <1>5. read' \subseteq Message \X Person
    BY DEF M!Remove, M!TypeOK
  <1>6. \A n \in Message \ S, u \in Person : <<n, u>> \in read => <<n, u>> \in read'
    BY DEF M!Remove
  <1>7. QED BY <1>3, <1>4, <1>5, <1>6

LEMMA CloseChatStep == ASSUME MessagingInv, NEW r \in Req, M!CloseChat(r) PROVE MessagingInv'
  <1>0. M!TypeOK /\ M!MessagesKeepTheirWord /\ MessagesAreOfChats
    BY DEF MessagingInv
  <1>1. UNCHANGED <<chat, ask, twin, over, shown>> /\ M!Become(r, M!Answered(r)) /\ M!Remove(req[r].msgs)
    BY DEF M!CloseChat, M!history
  <1>2. /\ req' \in [Req -> M!Request] /\ req'[r].at = "end" /\ req'[r].msgs = req[r].msgs
        /\ \A q \in Req \ {r} : Passed(q)
    BY <1>0, <1>1, AnsweredBy
  <1>3. /\ msg' \in [Message -> M!MessageRow] /\ read' \subseteq Message \X Person
        /\ \A n \in Message : /\ msg'[n].chat = msg[n].chat /\ msg'[n].sender = msg[n].sender
                              /\ msg'[n].vanishing = msg[n].vanishing /\ msg'[n].opened = msg[n].opened
                              /\ msg'[n].isDeleted = msg[n].isDeleted /\ msg'[n].text = msg[n].text
                              /\ msg'[n].exists => msg[n].exists /\ n \notin req[r].msgs
        /\ \A n \in Message \ req[r].msgs, u \in Person : <<n, u>> \in read => <<n, u>> \in read'
    BY <1>0, <1>1, RemoveIs
  <1>4. M!MessagesKeepTheirWord' /\ MessagesAreOfChats'
    BY <1>0, <1>1, <1>3 DEF M!MessagesKeepTheirWord, MessagesAreOfChats
  <1>5. QED BY <1>0, <1>1, <1>2, <1>3, <1>4, HeldAre, MessageStep DEF M!TypeOK

LEMMA OpenOnceStep == ASSUME MessagingInv, NEW r \in Req, M!OpenOnce(r) PROVE MessagingInv'
  <1>0. M!TypeOK /\ Held(r) /\ M!MessagesKeepTheirWord /\ MessagesAreOfChats
    BY DEF MessagingInv
  <1>1. UNCHANGED <<chat, ask, read, twin>> /\ req[r].at = "open"
    BY DEF M!OpenOnce, M!At
  <1>2. PICK m \in req[r].msgs :
          IF msg[m].exists
          THEN /\ msg' = [msg EXCEPT ![m].opened = TRUE]
               /\ shown' = [shown EXCEPT ![m].open = IF msg[m].isDeleted THEN @ ELSE @ + 1]
               /\ over' = IF req[r].stale THEN over \cup {m} ELSE over
               /\ M!Overtake(r, M!Answered(r), M!Holding(m, {"load", "open"}))
          ELSE M!Become(r, M!Answered(r)) /\ UNCHANGED <<msg, shown, over>>
    BY DEF M!OpenOnce, M!Exists
  <1>3. m \in Message /\ msg[m].chat \in Thing /\ (req[r].stale \/ ~msg[m].opened)
    BY <1>0, <1>1, HeldAre DEF Held
  <1>4. CASE ~msg[m].exists
    <2>1. M!Become(r, M!Answered(r)) /\ UNCHANGED <<msg, shown, over>>
      BY <1>2, <1>4
    <2>2. /\ req' \in [Req -> M!Request] /\ req'[r].at = "end" /\ req'[r].msgs = req[r].msgs
          /\ \A q \in Req \ {r} : Passed(q)
      BY <1>0, <2>1, AnsweredBy
    <2>3. M!MessagesKeepTheirWord' /\ MessagesAreOfChats'
      BY <1>0, <2>1 DEF M!MessagesKeepTheirWord, MessagesAreOfChats
    <2>4. QED BY <1>0, <1>1, <2>1, <2>2, <2>3, MessageStep DEF M!TypeOK
  <1>5. CASE msg[m].exists
    <2>1. /\ msg' = [msg EXCEPT ![m].opened = TRUE]
          /\ shown' = [shown EXCEPT ![m].open = IF msg[m].isDeleted THEN @ ELSE @ + 1]
          /\ over' = IF req[r].stale THEN over \cup {m} ELSE over
          /\ M!Overtake(r, M!Answered(r), M!Holding(m, {"load", "open"}))
      BY <1>2, <1>5
    <2>2. /\ req' \in [Req -> M!Request] /\ req'[r].at = "end" /\ req'[r].msgs = req[r].msgs
          /\ \A q \in Req \ {r} : Passed(q) /\ (q \in M!Holding(m, {"load", "open"}) => req'[q].stale)
      BY <1>0, <2>1, AnsweredOver
    <2>3. /\ msg' \in [Message -> M!MessageRow]
          /\ \A n \in Message : /\ msg'[n].chat = msg[n].chat /\ msg'[n].exists = msg[n].exists
                                /\ msg'[n].sender = msg[n].sender /\ msg'[n].vanishing = msg[n].vanishing
                                /\ msg'[n].isDeleted = msg[n].isDeleted /\ msg'[n].text = msg[n].text
                                /\ n # m => msg'[n].opened = msg[n].opened
          /\ msg'[m].opened
      <3>1. msg[m] \in M!MessageRow
        BY <1>0, <1>3 DEF M!TypeOK
      <3> DEFINE x == [msg[m] EXCEPT !.opened = TRUE]
      <3>2. /\ x \in M!MessageRow /\ x.chat = msg[m].chat /\ x.exists = msg[m].exists
            /\ x.sender = msg[m].sender /\ x.vanishing = msg[m].vanishing
            /\ x.isDeleted = msg[m].isDeleted /\ x.text = msg[m].text /\ x.opened
        BY <3>1 DEF M!MessageRow
      <3>3. msg' = [msg EXCEPT ![m] = x]
        BY <2>1
      <3> HIDE DEF x
      <3>4. QED BY <1>0, <1>3, <3>2, <3>3 DEF M!TypeOK
    <2>4. /\ shown' \in [Message -> [open : Nat, event : Nat]]
          /\ \A n \in Message \ {m} : shown'[n] = shown[n]
          /\ shown'[m].open \in {shown[m].open, shown[m].open + 1}
      BY <1>0, <1>3, <2>1 DEF M!TypeOK
    <2>5. /\ over \subseteq over' /\ over' \subseteq Message \cup Person /\ (req[r].stale => m \in over')
      BY <1>0, <1>3, <2>1 DEF M!TypeOK
    <2>6. M!MessagesKeepTheirWord'
      <3>1. SUFFICES ASSUME NEW n \in Message, n \notin over'
                     PROVE  /\ msg'[n].isDeleted => ~msg'[n].text
                            /\ shown'[n].open <= 1 /\ (shown'[n].open = 1 => msg'[n].opened)
        BY DEF M!MessagesKeepTheirWord
      <3>2. /\ msg[n].isDeleted => ~msg[n].text
            /\ shown[n].open <= 1 /\ (shown[n].open = 1 => msg[n].opened) /\ shown[n].open \in Nat
        BY <1>0, <2>5, <3>1 DEF M!MessagesKeepTheirWord, M!TypeOK
      <3>3. CASE n = m
        <4>1. shown[m].open = 0
          BY <1>3, <2>5, <3>1, <3>2, <3>3
        <4>2. QED BY <2>3, <2>4, <3>2, <3>3, <4>1
      <3>4. CASE n # m
        BY <2>3, <2>4, <3>2, <3>4
      <3>5. QED BY <3>3, <3>4
    <2>7. MessagesAreOfChats'
      BY <1>0, <2>3 DEF MessagesAreOfChats
    <2>8. \A q \in Req \ {r} : \A n \in req[q].msgs :
            req[q].at \in {"load", "open"} /\ msg'[n].opened => msg[n].opened \/ req'[q].stale
      BY <2>2, <2>3, HeldAre DEF M!Holding
    <2>9. QED BY <1>0, <1>1, <2>2, <2>3, <2>4, <2>5, <2>6, <2>7, <2>8, HeldAre, MessageStep DEF M!TypeOK
  <1>6. QED BY <1>4, <1>5

LEMMA CreateChatStep == ASSUME MessagingInv, NEW r \in Req, M!CreateChat(r) PROVE MessagingInv'
  <1>0. M!TypeOK /\ Known(r) /\ Creating(r) /\ Held(r) /\ ChatsBegin /\ M!PairsHaveOneChat
    BY DEF MessagingInv
  <1>1. UNCHANGED <<ask, msg, read, over, shown>> /\ req[r].at = "create"
    BY DEF M!CreateChat, M!At
  <1>2. PICK c \in Thing :
          /\ chat[c].status = "absent"
          /\ chat' = [chat EXCEPT ![c] = [status |-> "there", parts |-> Person, vanish |-> FALSE]]
          /\ twin' = IF req[r].stale THEN twin \cup {c} ELSE twin \ {c}
          /\ M!Overtake(r, [req[r] EXCEPT !.at = M!Found(r), !.chat = c, !.stale = FALSE],
                        {q \in Req : M!At(q, "create")})
    BY DEF M!CreateChat
  <1>3. PICK l \in {"free", "send"} : l = M!Found(r)
    BY DEF M!Found
  <1> DEFINE x == [req[r] EXCEPT !.at = l, !.chat = c, !.stale = FALSE]
  <1>4. x \in M!Request /\ x.at = l /\ x.chat = c /\ x.user = req[r].user /\ x.msgs = req[r].msgs
    <2>1. req[r] \in M!Request /\ l \in Places
      BY <1>0, <1>3 DEF M!TypeOK, M!Found, Places
    <2>2. x \in M!Request
      BY <2>1, WithChat
    <2>3. QED BY <2>1, <2>2 DEF M!Request
  <1>5. M!Overtake(r, x, {q \in Req : M!At(q, "create")})
    BY <1>2, <1>3
  <1> HIDE DEF x
  <1>6. /\ req' \in [Req -> M!Request] /\ req'[r] = x
        /\ \A q \in Req \ {r} : /\ req[q].at = "create" => req'[q] = [req[q] EXCEPT !.stale = TRUE]
                                /\ req[q].at # "create" => req'[q] = req[q]
    BY <1>0, <1>4, <1>5, OvertakeReq DEF M!At
  <1>7. \A q \in Req : [req[q] EXCEPT !.stale = TRUE].stale
    BY <1>0 DEF M!TypeOK, M!Request
  <1>8. \A q \in Req \ {r} : Passed(q) /\ (req[q].at = "create" => req'[q].stale)
    BY <1>6, <1>7 DEF Passed
  <1>9. /\ chat' \in [Thing -> M!ChatRow] /\ chat'[c].parts = Person /\ chat'[c].status = "there"
        /\ \A d \in Thing \ {c} : chat'[d] = chat[d]
    BY <1>0, <1>2 DEF M!TypeOK, M!ChatRow
  <1>10. Known(r)'
    BY <1>0, <1>1, <1>3, <1>4, <1>6 DEF Known, UserPlaces
  <1>11. Creating(r)' /\ Judging(r)' /\ Leaving(r)'
    BY <1>3, <1>4, <1>6 DEF Creating, Judging, Leaving
  <1>12. Held(r)'
    BY <1>0, <1>1, <1>3, <1>4, <1>6 DEF Held
  <1>13. ChatsBegin'
    BY <1>0, <1>9 DEF ChatsBegin
  <1>14. M!PairsHaveOneChat'
    <2>1. SUFFICES ASSUME NEW d \in M!Direct', NEW e \in M!Direct', d # e PROVE d \in twin' \/ e \in twin'
      BY DEF M!PairsHaveOneChat
    <2>2. /\ d \in Thing /\ e \in Thing
          /\ d # c => d \in M!Direct
          /\ e # c => e \in M!Direct
      BY <1>9 DEF M!Direct
    <2>3. CASE req[r].stale
      BY <1>0, <1>2, <2>1, <2>2, <2>3 DEF M!PairsHaveOneChat
    <2>4. CASE ~req[r].stale
      BY <1>0, <1>1, <2>1, <2>2, <2>4 DEF Creating
    <2>5. QED BY <2>3, <2>4
  <1>15. twin' \subseteq Thing
    BY <1>0, <1>2 DEF M!TypeOK
  <1>16. QED BY <1>1, <1>2, <1>6, <1>8, <1>9, <1>10, <1>11, <1>12, <1>13, <1>14, <1>15, ChatStep

\* Fewer direct chats are no more twins.
LEMMA PairsKept ==
  ASSUME M!PairsHaveOneChat, M!Direct' \subseteq M!Direct, twin' = twin
  PROVE  M!PairsHaveOneChat'
  BY DEF M!PairsHaveOneChat

LEMMA SetVanishModeStep == ASSUME MessagingInv, NEW r \in Req, M!SetVanishMode(r) PROVE MessagingInv'
  <1>0. M!TypeOK /\ ChatsBegin /\ M!PairsHaveOneChat
    BY DEF MessagingInv
  <1>1. UNCHANGED <<ask, msg, read, twin, over, shown>> /\ M!Become(r, M!Answered(r))
    BY DEF M!SetVanishMode, M!history
  <1>2. PICK c \in Thing, on \in BOOLEAN : chat' = [chat EXCEPT ![c].vanish = on]
    BY DEF M!SetVanishMode
  <1>3. /\ req' \in [Req -> M!Request] /\ req'[r].at = "end" /\ req'[r].msgs = req[r].msgs
        /\ \A q \in Req \ {r} : Passed(q)
    BY <1>0, <1>1, AnsweredBy
  <1>4. /\ chat' \in [Thing -> M!ChatRow]
        /\ \A d \in Thing : chat'[d].status = chat[d].status /\ chat'[d].parts = chat[d].parts
    BY <1>0, <1>2 DEF M!TypeOK, M!ChatRow
  <1>5. M!Direct' = M!Direct
    BY <1>4 DEF M!Direct
  <1>6. ChatsBegin' /\ M!PairsHaveOneChat'
    BY <1>0, <1>1, <1>4, <1>5, PairsKept DEF ChatsBegin
  <1>7. Known(r)' /\ Creating(r)' /\ Judging(r)' /\ Leaving(r)' /\ Held(r)'
    BY <1>1, <1>3, EndKept
  <1>8. twin' \subseteq Thing
    BY <1>0, <1>1 DEF M!TypeOK
  <1>9. QED BY <1>1, <1>3, <1>4, <1>5, <1>6, <1>7, <1>8, ChatStep

LEMMA DeleteParticipantStep ==
  ASSUME MessagingInv, NEW r \in Req, M!DeleteParticipant(r)
  PROVE  MessagingInv'
  <1> DEFINE c == req[r].chat
  <1>0. M!TypeOK /\ Known(r) /\ Leaving(r) /\ Held(r) /\ ChatsBegin /\ M!PairsHaveOneChat
    BY DEF MessagingInv
  <1>1. UNCHANGED <<ask, msg, read, twin, over, shown>> /\ req[r].at = "leave"
    BY DEF M!DeleteParticipant, M!history, M!At
  <1>2. c \in Thing /\ chat[c].status # "absent" /\ twin' \subseteq Thing
    BY <1>0, <1>1 DEF Known, ChatPlaces, Leaving, M!TypeOK
  <1>3. CASE req[r].user \in chat[c].parts
    <2>1. chat' = [chat EXCEPT ![c].parts = @ \ {req[r].user}] /\ M!Goto(r, "count")
      BY <1>3 DEF M!DeleteParticipant
    <2>2. /\ req' \in [Req -> M!Request]
          /\ req'[r].at = "count" /\ req'[r].user = req[r].user /\ req'[r].chat = req[r].chat
          /\ req'[r].msgs = req[r].msgs
          /\ \A q \in Req \ {r} : Passed(q)
      BY <1>0, <2>1, GotoReq DEF Passed, Places
    <2>3. /\ chat' \in [Thing -> M!ChatRow]
          /\ \A d \in Thing : chat'[d].status = chat[d].status /\ chat'[d].parts \subseteq chat[d].parts
          /\ \A d \in Thing \ {c} : chat'[d] = chat[d]
          /\ req[r].user \notin chat'[c].parts
      BY <1>0, <1>2, <2>1 DEF M!TypeOK, M!ChatRow
    <2>4. req[r].user \in Person
      BY <1>0, <1>1 DEF Known, UserPlaces
    <2>5. M!Direct' \subseteq M!Direct
      BY <2>3, <2>4 DEF M!Direct
    <2>6. ChatsBegin' /\ M!PairsHaveOneChat'
      BY <1>0, <1>1, <2>3, <2>5, PairsKept DEF ChatsBegin
    <2>7. Known(r)' /\ Creating(r)' /\ Judging(r)'
      BY <1>2, <2>2, <2>4 DEF Known, Creating, Judging
    <2>8. Leaving(r)'
      BY <1>2, <2>2, <2>3 DEF Leaving
    <2>9. Held(r)'
      BY <1>0, <1>1, <2>2 DEF Held
    <2>10. QED BY <1>1, <1>2, <2>2, <2>3, <2>5, <2>6, <2>7, <2>8, <2>9, ChatStep
  <1>4. CASE req[r].user \notin chat[c].parts
    <2>1. M!Goto(r, "end") /\ chat' = chat
      BY <1>4 DEF M!DeleteParticipant, M!Goto, M!Answered
    <2>2. QED BY <1>0, <1>1, <2>1, GotoReq, GoStep DEF UserPlaces, ChatPlaces, Places
  <1>5. QED BY <1>3, <1>4

LEMMA DeleteChatStep == ASSUME MessagingInv, NEW r \in Req, M!DeleteChat(r) PROVE MessagingInv'
  <1> DEFINE c == req[r].chat
  <1>0. M!TypeOK /\ Known(r) /\ ChatsBegin /\ M!PairsHaveOneChat /\ M!MessagesKeepTheirWord /\ MessagesAreOfChats
    BY DEF MessagingInv
  <1>1. /\ UNCHANGED <<twin, over, shown>> /\ req[r].at = "empty" /\ M!Become(r, M!Answered(r))
        /\ M!Remove(M!Of(c))
        /\ chat' = [chat EXCEPT ![c] = [M!NoChat EXCEPT !.status = "gone"]]
        /\ ask' = [u \in Person |-> IF ask[u].chat = c THEN [status |-> "none", chat |-> None] ELSE ask[u]]
    BY DEF M!DeleteChat, M!history, M!At
  <1>2. c \in Thing
    BY <1>0, <1>1 DEF Known, ChatPlaces
  <1>3. /\ req' \in [Req -> M!Request] /\ req'[r].at = "end" /\ req'[r].msgs = req[r].msgs
        /\ \A q \in Req \ {r} : Passed(q)
    BY <1>0, <1>1, AnsweredBy
  <1>4. /\ msg' \in [Message -> M!MessageRow] /\ read' \subseteq Message \X Person
        /\ \A n \in Message : /\ msg'[n].chat = msg[n].chat /\ msg'[n].sender = msg[n].sender
                              /\ msg'[n].vanishing = msg[n].vanishing /\ msg'[n].opened = msg[n].opened
                              /\ msg'[n].isDeleted = msg[n].isDeleted /\ msg'[n].text = msg[n].text
                              /\ msg'[n].exists => msg[n].exists /\ n \notin M!Of(c)
        /\ \A n \in Message \ M!Of(c), u \in Person : <<n, u>> \in read => <<n, u>> \in read'
    BY <1>0, <1>1, RemoveIs
  <1>5. /\ chat' \in [Thing -> M!ChatRow] /\ chat'[c].parts = {} /\ chat'[c].status = "gone"
        /\ \A d \in Thing \ {c} : chat'[d] = chat[d]
    BY <1>0, <1>1, <1>2 DEF M!TypeOK, M!ChatRow, M!NoChat
  <1>6. /\ ask' \in [Person -> M!RequestRow]
        /\ \A u \in Person : ask'[u].status \in {ask[u].status, "none"}
    BY <1>0, <1>1 DEF M!TypeOK, M!RequestRow
  <1>7. M!Direct' \subseteq M!Direct
    BY <1>5, PeopleAre DEF M!Direct
  <1>8. M!TypeOK'
    BY <1>0, <1>1, <1>3, <1>4, <1>5, <1>6 DEF M!TypeOK
  <1>9. ASSUME NEW q \in Req PROVE (Known(q) /\ Creating(q) /\ Judging(q) /\ Leaving(q) /\ Held(q))'
    <2>1. CASE q = r
      BY <1>3, <1>4, <2>1, EndKept
    <2>2. CASE q # r
      <3>1. Known(q) /\ Creating(q) /\ Judging(q) /\ Leaving(q) /\ Held(q) /\ Passed(q)
        BY <1>3, <2>2 DEF MessagingInv
      <3>2. Known(q)'
        BY <1>0, <3>1, PassKnown
      <3>3. Creating(q)'
        BY <1>0, <1>7, <3>1, PassCreating
      <3>4. Leaving(q)'
        BY <1>0, <1>5, <3>1, PassLeaving
      <3>5. req[q].at \in {"ask", "accept", "decline"} => req[q].user \in Person
        BY <3>1 DEF Known, UserPlaces
      <3>6. Judging(q)'
        BY <1>0, <1>6, <3>1, <3>5, PassJudging
      <3>7. Held(q)'
        BY <1>0, <1>4, <3>1, PassHeld
      <3>8. QED BY <3>2, <3>3, <3>4, <3>6, <3>7
    <2>3. QED BY <2>1, <2>2
  <1>10. ChatsBegin' /\ M!PairsHaveOneChat'
    BY <1>0, <1>1, <1>5, <1>7, PairsKept DEF ChatsBegin
  <1>11. M!MessagesKeepTheirWord' /\ MessagesAreOfChats'
    BY <1>0, <1>1, <1>4 DEF M!MessagesKeepTheirWord, MessagesAreOfChats
  <1>12. QED BY <1>8, <1>9, <1>10, <1>11 DEF MessagingInv

LEMMA MessagingNext == MessagingInv /\ [M!Next]_mvars => MessagingInv'
  <1> SUFFICES ASSUME MessagingInv, [M!Next]_mvars PROVE MessagingInv'
    OBVIOUS
  <1>1. ASSUME NEW r \in Req, M!ChatSteps(r) PROVE MessagingInv'
    BY <1>1, StartSteps, GoSteps, CreateChatStep, DecidingSteps DEF M!ChatSteps
  <1>2. ASSUME NEW r \in Req, M!RequestSteps(r) PROVE MessagingInv'
    BY <1>2, StartSteps, DecidingSteps DEF M!RequestSteps
  <1>3. ASSUME NEW r \in Req, M!LeaveSteps(r) PROVE MessagingInv'
    BY <1>3, StartSteps, GoSteps, DeleteParticipantStep, DeleteChatStep DEF M!LeaveSteps
  <1>4. ASSUME NEW r \in Req, M!MessageSteps(r) PROVE MessagingInv'
    BY <1>4, StartSteps, GoSteps, CreateMessageStep, EmitStep, FindUnreadStep, CreateReadsStep DEF M!MessageSteps
  <1>5. ASSUME NEW r \in Req, M!OwnMessageSteps(r) PROVE MessagingInv'
    BY <1>5, StartSteps, EditStep, DeleteStep DEF M!OwnMessageSteps
  <1>6. ASSUME NEW r \in Req, M!VanishSteps(r) PROVE MessagingInv'
    BY <1>6, StartSteps, GoSteps, SetVanishModeStep, CloseChatStep, OpenOnceStep DEF M!VanishSteps
  <1>7. ASSUME NEW r \in Req, M!Fail(r) PROVE MessagingInv'
    BY <1>7, GoSteps
  <1>8. CASE UNCHANGED mvars
    <2>1. UNCHANGED <<chat, ask, msg, read, req, twin, over, shown>>
      BY <1>8 DEF mvars
    <2>2. QED BY <2>1 DEF MessagingInv, M!TypeOK, Known, Creating, Judging, Leaving, Held, ChatsBegin,
                      MessagesAreOfChats, M!PairsHaveOneChat, M!Direct, M!MessagesKeepTheirWord
  <1>9. QED BY <1>1, <1>2, <1>3, <1>4, <1>5, <1>6, <1>7, <1>8 DEF M!Next

LEMMA MessagingInit == Init => MessagingInv
  <1> SUFFICES ASSUME Init PROVE MessagingInv
    OBVIOUS
  <1>0. M!Init
    BY DEF Init
  <1>1. /\ read = {} /\ req = [r \in Req |-> M!Idle]
        /\ twin = {} /\ over = {} /\ shown = [m \in Message |-> [open |-> 0, event |-> 0]]
    BY <1>0 DEF M!Init
  <1>2. \A r \in Req : req[r] \in M!Request /\ req[r].at = "start" /\ req[r].msgs = {}
    BY <1>1 DEF M!Idle, M!Request
  <1>3. \A r \in Req : Known(r) /\ Creating(r) /\ Judging(r) /\ Leaving(r) /\ Held(r)
    BY <1>2 DEF Known, Creating, Judging, Leaving, Held, UserPlaces, ChatPlaces
  <1>4. /\ chat \in [Thing -> M!ChatRow] /\ ask \in [Person -> M!RequestRow]
        /\ msg \in [Message -> M!MessageRow]
        /\ ChatsBegin /\ MessagesAreOfChats
        /\ \A m \in Message : ~msg[m].isDeleted
        /\ \A c, d \in Thing : chat[c].parts # {} /\ chat[d].parts # {} => c = d
    <2>1. M!NoChat \in M!ChatRow /\ M!NoMessage \in M!MessageRow /\ M!NoRequests \in [Person -> M!RequestRow]
      BY DEF M!NoChat, M!ChatRow, M!NoMessage, M!MessageRow, M!NoRequests, M!RequestRow
    <2>2. CASE /\ chat = [c \in Thing |-> M!NoChat]
               /\ msg = [m \in Message |-> M!NoMessage]
               /\ ask = M!NoRequests
      BY <2>1, <2>2 DEF ChatsBegin, MessagesAreOfChats, M!NoChat, M!NoMessage
    <2>3. ASSUME NEW c \in Thing, NEW mode \in BOOLEAN, M!OnlyChat(c, mode)
          PROVE  /\ chat \in [Thing -> M!ChatRow] /\ ChatsBegin
                 /\ \A d, e \in Thing : chat[d].parts # {} /\ chat[e].parts # {} => d = e
      BY <2>3 DEF M!OnlyChat, M!NoChat, M!ChatRow, ChatsBegin
    <2>5. CASE \E c \in Thing, m \in Message, u \in Person, once, vanishing \in BOOLEAN :
                 /\ M!OnlyChat(c, vanishing)
                 /\ msg = [n \in Message |-> IF n = m
                             THEN [M!NoMessage EXCEPT !.chat = c, !.sender = u, !.text = TRUE,
                                     !.vanishing = vanishing, !.once = once, !.exists = TRUE]
                             ELSE M!NoMessage]
                 /\ ask = M!NoRequests
      <3>1. PICK c \in Thing, m \in Message, u \in Person, once \in BOOLEAN, vanishing \in BOOLEAN :
                 /\ M!OnlyChat(c, vanishing)
                 /\ msg = [n \in Message |-> IF n = m
                             THEN [M!NoMessage EXCEPT !.chat = c, !.sender = u, !.text = TRUE,
                                     !.vanishing = vanishing, !.once = once, !.exists = TRUE]
                             ELSE M!NoMessage]
                 /\ ask = M!NoRequests
        BY <2>5
      <3>2. /\ msg \in [Message -> M!MessageRow] /\ MessagesAreOfChats
            /\ \A n \in Message : ~msg[n].isDeleted
        BY <2>1, <3>1 DEF M!NoMessage, M!MessageRow, MessagesAreOfChats
      <3>3. QED BY <2>1, <2>3, <3>1, <3>2
    <2>6. CASE \E c \in Thing, u \in Person :
                 /\ M!OnlyChat(c, FALSE)
                 /\ msg = [m \in Message |-> M!NoMessage]
                 /\ ask = [M!NoRequests EXCEPT ![u] = [status |-> "ACCEPTED", chat |-> c]]
      <3>1. PICK c \in Thing, u \in Person :
                 /\ M!OnlyChat(c, FALSE)
                 /\ msg = [m \in Message |-> M!NoMessage]
                 /\ ask = [M!NoRequests EXCEPT ![u] = [status |-> "ACCEPTED", chat |-> c]]
        BY <2>6
      <3>2. [status |-> "ACCEPTED", chat |-> c] \in M!RequestRow
        BY DEF M!RequestRow
      <3>3. ask \in [Person -> M!RequestRow]
        BY <2>1, <3>1, <3>2
      <3>4. /\ msg \in [Message -> M!MessageRow] /\ MessagesAreOfChats
            /\ \A m \in Message : ~msg[m].isDeleted
        BY <2>1, <3>1 DEF M!NoMessage, MessagesAreOfChats
      <3>5. QED BY <2>3, <3>1, <3>3, <3>4
    <2>7. QED BY <1>0, <2>2, <2>5, <2>6 DEF M!Init
  <1>5. M!PairsHaveOneChat
    BY <1>4, PeopleAre DEF M!PairsHaveOneChat, M!Direct
  <1>6. M!MessagesKeepTheirWord
    BY <1>1, <1>4 DEF M!MessagesKeepTheirWord
  <1>7. M!TypeOK
    BY <1>1, <1>2, <1>4 DEF M!TypeOK
  <1>8. QED BY <1>3, <1>4, <1>5, <1>6, <1>7 DEF MessagingInv

Answers(u) ==
  /\ ask[u].status = "ACCEPTED" /\ ask'[u].status \notin {"ACCEPTED", "none"} =>
       \E r \in Req : req[r].stale /\ req'[r].at # req[r].at /\ req[r].user = u
  /\ ask[u].status = "DECLINED" /\ ask'[u].status = "ACCEPTED" =>
       \E r \in Req : req[r].stale /\ M!At(r, "accept") /\ req[r].user = u

Leaves(m) ==
  M!Exists(m) /\ ~M!Exists(m)' =>
    \/ chat[msg[m].chat].parts = {}
    \/ /\ msg[m].vanishing
       /\ \E r \in Req : /\ M!At(r, "close") /\ req'[r].at # req[r].at
                         /\ req[r].user = msg[m].sender \/ <<m, req[r].user>> \in read

LEMMA DecisionsStandStep ==
  ASSUME MessagingInv, [M!Next]_mvars, NEW u \in Person
  PROVE  Answers(u)
  <1>0. M!TypeOK
    BY DEF MessagingInv
  <1>1. CASE ask' = ask
    BY <1>1 DEF Answers
  <1>2. ASSUME NEW r \in Req, M!UpsertRequest(r) PROVE Answers(u)
    <2>1. Judging(r) /\ req[r].at = "ask" /\ Known(r) /\ M!Become(r, M!Answered(r))
      BY <1>2 DEF MessagingInv, M!UpsertRequest, M!At
    <2>2. req'[r].at = "end"
      BY <1>0, <2>1, AnsweredBy
    <2>3. req[r].user \in Person
      BY <2>1 DEF Known, UserPlaces
    <2>4. CASE u = req[r].user
      <3>1. ask[u].status # "none" => ask' = [ask EXCEPT ![u].status = "PENDING"]
        BY <1>2, <2>4 DEF M!UpsertRequest
      <3>2. ask[u].status # "none" => ask'[u].status = "PENDING"
        BY <1>0, <3>1 DEF M!TypeOK, M!RequestRow
      <3>3. ask[u].status = "ACCEPTED" => req[r].stale
        BY <2>1, <2>4 DEF Judging
      <3>4. QED BY <2>1, <2>2, <2>4, <3>2, <3>3 DEF Answers
    <2>5. CASE u # req[r].user
      <3>1. ask'[u] = ask[u]
        BY <1>0, <1>2, <2>3, <2>5 DEF M!UpsertRequest, M!TypeOK
      <3>2. QED BY <3>1 DEF Answers
    <2>6. QED BY <2>4, <2>5
  <1>3. ASSUME NEW r \in Req, NEW l \in {"accept", "decline"}, NEW s \in {"ACCEPTED", "DECLINED"},
               M!Decide(r, l, s), l = "accept" <=> s = "ACCEPTED", ask' # ask
        PROVE  Answers(u)
    <2>1. /\ Judging(r) /\ req[r].at = l /\ ask' = [ask EXCEPT ![req[r].user].status = s]
          /\ M!Overtake(r, M!Answered(r), M!Deciding(req[r].user, {"accept", "decline", "ask"}))
      BY <1>3 DEF MessagingInv, M!Decide, M!At
    <2>2. req'[r].at = "end"
      BY <1>0, <2>1, AnsweredOver
    <2>3. CASE u = req[r].user
      <3>1. ask'[u].status = s
        BY <1>0, <2>1, <2>3 DEF M!TypeOK, M!RequestRow
      <3>2. ask[u].status \in {"ACCEPTED", "DECLINED"} => req[r].stale
        BY <2>1, <2>3 DEF Judging
      <3>3. QED BY <1>3, <2>1, <2>2, <2>3, <3>1, <3>2 DEF Answers, M!At
    <2>4. CASE u # req[r].user
      <3>1. ask'[u] = ask[u]
        BY <1>0, <2>1, <2>4 DEF M!TypeOK
      <3>2. QED BY <3>1 DEF Answers
    <2>5. QED BY <2>3, <2>4
  <1>4. ASSUME NEW r \in Req, M!DeleteChat(r) PROVE Answers(u)
    <2>1. ask'[u].status \in {ask[u].status, "none"}
      BY <1>4 DEF M!DeleteChat
    <2>2. QED BY <2>1 DEF Answers
  <1>5. ASSUME ask' # ask
        PROVE  \E r \in Req : M!UpsertRequest(r) \/ M!Accept(r) \/ M!Decline(r) \/ M!DeleteChat(r)
    <2>1. ~UNCHANGED mvars
      BY <1>5 DEF mvars
    <2>2. PICK r \in Req : \/ M!ChatSteps(r) \/ M!RequestSteps(r) \/ M!LeaveSteps(r)
                           \/ M!MessageSteps(r) \/ M!OwnMessageSteps(r) \/ M!VanishSteps(r)
                           \/ M!Fail(r)
      BY <2>1 DEF M!Next
    <2>3. CASE M!ChatSteps(r)
      BY <1>5, <2>3 DEF M!ChatSteps, M!CreateOrGet, M!FindChat, M!ShareElsewhere, M!FindAgain, M!CreateChat,
                        M!MayWriteFreely, M!AskedBefore, M!rows
    <2>4. CASE M!RequestSteps(r)
      BY <1>5, <2>4 DEF M!RequestSteps, M!OwnRequest, M!rows
    <2>5. CASE M!LeaveSteps(r)
      BY <1>5, <2>5 DEF M!LeaveSteps, M!LeaveChat, M!DeleteParticipant, M!CountLeft, M!rows
    <2>6. CASE M!MessageSteps(r)
      BY <1>5, <2>6 DEF M!MessageSteps, M!LoadToSend, M!AssertNotBlocked, M!CreateMessage, M!Emit, M!LoadToRead,
                        M!FindUnread, M!CreateReads, M!rows
    <2>7. CASE M!OwnMessageSteps(r)
      BY <1>5, <2>7 DEF M!OwnMessageSteps, M!OwnMessage, M!Edit, M!Delete, M!rows
    <2>8. CASE M!VanishSteps(r)
      BY <1>5, <2>8 DEF M!VanishSteps, M!SetVanishMode, M!FindSeen, M!CloseChat, M!ReadOnce, M!LoadToOpen,
                        M!OpenOnce, M!rows
    <2>9. CASE M!Fail(r)
      BY <1>5, <2>9 DEF M!Fail, M!rows
    <2>10. QED BY <2>2, <2>3, <2>4, <2>5, <2>6, <2>7, <2>8, <2>9
  <1>6. QED BY <1>1, <1>2, <1>3, <1>4, <1>5 DEF M!Accept, M!Decline

LEMMA MessagesStayStep ==
  ASSUME MessagingInv, [M!Next]_mvars, NEW m \in Message
  PROVE  Leaves(m)
  <1>0. M!TypeOK
    BY DEF MessagingInv
  <1>1. CASE msg'[m].exists \/ ~msg[m].exists
    BY <1>1 DEF Leaves, M!Exists
  <1>2. ASSUME NEW r \in Req, M!CloseChat(r), msg[m].exists, ~msg'[m].exists PROVE Leaves(m)
    <2>1. req[r].at = "close" /\ M!Become(r, M!Answered(r)) /\ M!Remove(req[r].msgs) /\ Held(r)
      BY <1>2 DEF M!CloseChat, M!At, MessagingInv
    <2>2. m \in req[r].msgs
      BY <1>0, <1>2, <2>1, RemoveIs
    <2>3. msg[m].vanishing /\ (msg[m].sender = req[r].user \/ <<m, req[r].user>> \in read)
      BY <1>2, <2>1, <2>2 DEF Held
    <2>4. req'[r].at = "end"
      BY <1>0, <2>1, AnsweredBy
    <2>5. QED BY <2>1, <2>3, <2>4 DEF Leaves, M!At
  <1>3. ASSUME NEW r \in Req, M!DeleteChat(r), msg[m].exists, ~msg'[m].exists PROVE Leaves(m)
    <2>1. req[r].at = "empty" /\ M!Remove(M!Of(req[r].chat)) /\ Leaving(r)
      BY <1>3 DEF M!DeleteChat, M!At, MessagingInv
    <2>2. m \in M!Of(req[r].chat)
      BY <1>0, <1>3, <2>1, RemoveIs
    <2>3. chat[msg[m].chat].parts = {}
      BY <2>1, <2>2 DEF M!Of, Leaving
    <2>4. QED BY <2>3 DEF Leaves
  <1>4. ASSUME NEW r \in Req, M!CreateMessage(r), msg[m].exists PROVE msg'[m].exists
    <2>1. CASE msg' = msg
      BY <1>4, <2>1
    <2>2. CASE msg' # msg
      <3>1. PICK n \in Message : msg[n] = M!NoMessage /\ \A k \in Message \ {n} : msg'[k] = msg[k]
        BY <1>0, <1>4, <2>2 DEF M!CreateMessage, M!TypeOK
      <3>2. n # m
        BY <1>4, <3>1 DEF M!NoMessage
      <3>3. QED BY <1>0, <1>4, <3>1, <3>2
    <2>3. QED BY <2>1, <2>2
  <1>5. ASSUME NEW r \in Req, M!Edit(r) \/ M!Delete(r) \/ M!OpenOnce(r), msg[m].exists PROVE msg'[m].exists
    <2>1. PICK n \in req[r].msgs :
            \/ msg' = msg
            \/ msg' = [msg EXCEPT ![n].text = TRUE]
            \/ msg' = [msg EXCEPT ![n].isDeleted = TRUE, ![n].text = FALSE]
            \/ msg' = [msg EXCEPT ![n].opened = TRUE]
      BY <1>5 DEF M!Edit, M!Delete, M!OpenOnce
    <2>2. QED BY <1>0, <1>5, <2>1 DEF M!TypeOK, M!MessageRow
  <1>6. ASSUME msg' # msg
        PROVE  \E r \in Req : \/ M!CloseChat(r) \/ M!DeleteChat(r) \/ M!CreateMessage(r)
                              \/ M!Edit(r) \/ M!Delete(r) \/ M!OpenOnce(r)
    <2>1. ~UNCHANGED mvars
      BY <1>6 DEF mvars
    <2>2. PICK r \in Req : \/ M!ChatSteps(r) \/ M!RequestSteps(r) \/ M!LeaveSteps(r)
                           \/ M!MessageSteps(r) \/ M!OwnMessageSteps(r) \/ M!VanishSteps(r)
                           \/ M!Fail(r)
      BY <2>1 DEF M!Next
    <2>3. CASE M!ChatSteps(r)
      BY <1>6, <2>3 DEF M!ChatSteps, M!CreateOrGet, M!FindChat, M!ShareElsewhere, M!FindAgain, M!CreateChat,
                        M!MayWriteFreely, M!AskedBefore, M!UpsertRequest, M!rows
    <2>4. CASE M!RequestSteps(r)
      BY <1>6, <2>4 DEF M!RequestSteps, M!OwnRequest, M!Accept, M!Decline, M!Decide, M!rows
    <2>5. CASE M!LeaveSteps(r)
      BY <1>6, <2>5 DEF M!LeaveSteps, M!LeaveChat, M!DeleteParticipant, M!CountLeft, M!rows
    <2>6. CASE M!MessageSteps(r)
      BY <1>6, <2>6 DEF M!MessageSteps, M!LoadToSend, M!AssertNotBlocked, M!Emit, M!LoadToRead,
                        M!FindUnread, M!CreateReads, M!rows
    <2>7. CASE M!OwnMessageSteps(r)
      BY <1>6, <2>7 DEF M!OwnMessageSteps, M!OwnMessage, M!rows
    <2>8. CASE M!VanishSteps(r)
      BY <1>6, <2>8 DEF M!VanishSteps, M!SetVanishMode, M!FindSeen, M!ReadOnce, M!LoadToOpen, M!rows
    <2>9. CASE M!Fail(r)
      BY <1>6, <2>9 DEF M!Fail, M!rows
    <2>10. QED BY <2>2, <2>3, <2>4, <2>5, <2>6, <2>7, <2>8, <2>9
  <1>7. QED BY <1>1, <1>2, <1>3, <1>4, <1>5, <1>6

LEMMA MessagingAlways == Spec => []MessagingInv
  <1>1. MessagingInv /\ [Next]_vars => MessagingInv'
    BY PartStep, MessagingNext
  <1>2. QED BY MessagingInit, <1>1, PTL DEF Spec

\* A pair has one direct chat, but for chats created on a search that another handler had
\* overtaken: createOrGet, findOrCreateDirectChat.
THEOREM PairsHaveOneChatForAll == Spec => []PairsHaveOneChat
  <1>1. MessagingInv => PairsHaveOneChat
    BY DEF MessagingInv, PairsHaveOneChat
  <1>2. QED BY <1>1, MessagingAlways, PTL

\* A deleted message has lost its text and openViewOnce hands out a medium to be seen once a single
\* time, but for messages written by a handler that had read them before another write; the events
\* of sending and editing hand it out besides.
THEOREM MessagesKeepTheirWordForAll == Spec => []MessagesKeepTheirWord
  <1>1. MessagingInv => MessagesKeepTheirWord
    BY DEF MessagingInv, MessagesKeepTheirWord
  <1>2. QED BY <1>1, MessagingAlways, PTL

\* What was decided about a request stands, and a message goes only if it vanishes for the one
\* who closes the chat or with a chat that nobody is in.
THEOREM ChatsAreKeptForAll == Spec => ChatsAreKept
  <1>1. ASSUME MessagingInv, [Next]_vars
        PROVE  /\ [\A u \in Person :
                     /\ ask[u].status = "ACCEPTED" /\ ask'[u].status \notin {"ACCEPTED", "none"} =>
                          \E r \in Req : req[r].stale /\ req'[r].at # req[r].at /\ req[r].user = u
                     /\ ask[u].status = "DECLINED" /\ ask'[u].status = "ACCEPTED" =>
                          \E r \in Req : req[r].stale /\ M!At(r, "accept") /\ req[r].user = u]_M!vars
               /\ [\A m \in Message : 
                     M!Exists(m) /\ ~M!Exists(m)' =>
                       \/ chat[msg[m].chat].parts = {}
                       \/ /\ msg[m].vanishing
                          /\ \E r \in Req : /\ M!At(r, "close") /\ req'[r].at # req[r].at
                                            /\ req[r].user = msg[m].sender \/ <<m, req[r].user>> \in read]_M!vars
    <2>1. [M!Next]_mvars
      BY <1>1, PartStep
    <2>2. \A u \in Person : Answers(u)
      BY <1>1, <2>1, DecisionsStandStep
    <2>3. \A m \in Message : Leaves(m)
      BY <1>1, <2>1, MessagesStayStep
    <2>4. QED BY <2>2, <2>3, Zenon DEF Answers, Leaves
  <1>2. QED BY <1>1, MessagingAlways, PTL DEF Spec, ChatsAreKept, M!DecisionsStand, M!MessagesStay

------------------------------------------------------------------------------
(***************************************************************************)
(* Reading.  Every awaited read of a list leaves something behind that no  *)
(* later change undoes, and the order of the reads of a list sees to it that *)
(* together they amount to what canViewContent would have said.            *)
(***************************************************************************)
\* A sequence of known length is known by its elements.
LEMMA Four ==
  ASSUME NEW Read, NEW s \in Seq(Read), NEW a, NEW b, NEW c, NEW d,
         Len(s) = 4, s[1] = a, s[2] = b, s[3] = c, s[4] = d
  PROVE  s = <<a, b, c, d>>
  OBVIOUS

LEMMA Five ==
  ASSUME NEW Read, NEW s \in Seq(Read), NEW a, NEW b, NEW c, NEW d, NEW e,
         Len(s) = 5, s[1] = a, s[2] = b, s[3] = c, s[4] = d, s[5] = e
  PROVE  s = <<a, b, c, d, e>>
  OBVIOUS

LEMMA GateThen ==
  /\ R!Gate \o <<"rows">> = <<"block", "privacy", "follow", "rows">>
  /\ R!Gate \o <<"rows", "friend">> = <<"block", "privacy", "follow", "rows", "friend">>
  /\ <<"rows">> \o R!Gate = <<"rows", "block", "privacy", "follow">>
  /\ <<"rows">> \o R!Gate \o <<"friend">> = <<"rows", "block", "privacy", "follow", "friend">>
  <1> DEFINE Read == {"block", "privacy", "follow", "rows", "friend"}
             g == R!Gate
             r == <<"rows">>
             f == <<"friend">>
             rf == <<"rows", "friend">>
             cat(s, t) == s \o t
  <1>1. /\ g \in Seq(Read) /\ Len(g) = 3 /\ g[1] = "block" /\ g[2] = "privacy" /\ g[3] = "follow"
        /\ r \in Seq(Read) /\ Len(r) = 1 /\ r[1] = "rows"
        /\ f \in Seq(Read) /\ Len(f) = 1 /\ f[1] = "friend"
        /\ rf \in Seq(Read) /\ Len(rf) = 2 /\ rf[1] = "rows" /\ rf[2] = "friend"
    BY DEF R!Gate
  <1> HIDE DEF Read, g, r, f, rf
  <1>2. ASSUME NEW s \in Seq(Read), NEW t \in Seq(Read)
        PROVE  /\ cat(s, t) \in Seq(Read) /\ Len(cat(s, t)) = Len(s) + Len(t)
               /\ \A i \in 1..Len(s) + Len(t) : cat(s, t)[i] = IF i <= Len(s) THEN s[i] ELSE t[i - Len(s)]
    BY <1>2, ConcatProperties DEF cat
  <1> HIDE DEF cat
  <1>3. cat(g, r) = <<"block", "privacy", "follow", "rows">>
    <2> DEFINE x == cat(g, r)
    <2>1. /\ x \in Seq(Read) /\ Len(x) = 4
          /\ \A i \in 1..4 : x[i] = IF i <= 3 THEN g[i] ELSE r[i - 3]
      <3>1. /\ x \in Seq(Read) /\ Len(x) = Len(g) + Len(r)
            /\ \A i \in 1..Len(g) + Len(r) : x[i] = IF i <= Len(g) THEN g[i] ELSE r[i - Len(g)]
        BY <1>1, <1>2
      <3>2. Len(g) = 3 /\ Len(g) + Len(r) = 4
        BY <1>1
      <3> HIDE DEF x
      <3>3. QED BY <3>1, <3>2
    <2> HIDE DEF x
    <2>2. x[1] = "block" /\ x[2] = "privacy" /\ x[3] = "follow" /\ x[4] = "rows"
      BY <1>1, <2>1
    <2>3. x = <<"block", "privacy", "follow", "rows">>
      BY <2>1, <2>2, Four
    <2>4. QED BY <2>3 DEF x
  <1>4. cat(r, g) = <<"rows", "block", "privacy", "follow">>
    <2> DEFINE x == cat(r, g)
    <2>1. /\ x \in Seq(Read) /\ Len(x) = 4
          /\ \A i \in 1..4 : x[i] = IF i <= 1 THEN r[i] ELSE g[i - 1]
      <3>1. /\ x \in Seq(Read) /\ Len(x) = Len(r) + Len(g)
            /\ \A i \in 1..Len(r) + Len(g) : x[i] = IF i <= Len(r) THEN r[i] ELSE g[i - Len(r)]
        BY <1>1, <1>2
      <3>2. Len(r) = 1 /\ Len(r) + Len(g) = 4
        BY <1>1
      <3> HIDE DEF x
      <3>3. QED BY <3>1, <3>2
    <2> HIDE DEF x
    <2>2. x[1] = "rows" /\ x[2] = "block" /\ x[3] = "privacy" /\ x[4] = "follow"
      BY <1>1, <2>1
    <2>3. x = <<"rows", "block", "privacy", "follow">>
      BY <2>1, <2>2, Four
    <2>4. QED BY <2>3 DEF x
  <1>5. cat(g, rf) = <<"block", "privacy", "follow", "rows", "friend">>
    <2> DEFINE x == cat(g, rf)
    <2>1. /\ x \in Seq(Read) /\ Len(x) = 5
          /\ \A i \in 1..5 : x[i] = IF i <= 3 THEN g[i] ELSE rf[i - 3]
      <3>1. /\ x \in Seq(Read) /\ Len(x) = Len(g) + Len(rf)
            /\ \A i \in 1..Len(g) + Len(rf) : x[i] = IF i <= Len(g) THEN g[i] ELSE rf[i - Len(g)]
        BY <1>1, <1>2
      <3>2. Len(g) = 3 /\ Len(g) + Len(rf) = 5
        BY <1>1
      <3> HIDE DEF x
      <3>3. QED BY <3>1, <3>2
    <2> HIDE DEF x
    <2>2. x[1] = "block" /\ x[2] = "privacy" /\ x[3] = "follow" /\ x[4] = "rows" /\ x[5] = "friend"
      BY <1>1, <2>1
    <2>3. x = <<"block", "privacy", "follow", "rows", "friend">>
      BY <2>1, <2>2, Five
    <2>4. QED BY <2>3 DEF x
  <1>6. cat(cat(r, g), f) = <<"rows", "block", "privacy", "follow", "friend">>
    <2> DEFINE y == cat(r, g)
               x == cat(y, f)
    <2>1. y \in Seq(Read) /\ Len(y) = 4 /\ y = <<"rows", "block", "privacy", "follow">>
      BY <1>1, <1>2, <1>4
    <2> HIDE DEF y
    <2>2. /\ x \in Seq(Read) /\ Len(x) = 5
          /\ \A i \in 1..5 : x[i] = IF i <= 4 THEN y[i] ELSE f[i - 4]
      <3>1. /\ x \in Seq(Read) /\ Len(x) = Len(y) + Len(f)
            /\ \A i \in 1..Len(y) + Len(f) : x[i] = IF i <= Len(y) THEN y[i] ELSE f[i - Len(y)]
        BY <1>1, <1>2, <2>1
      <3>2. Len(y) = 4 /\ Len(y) + Len(f) = 5
        BY <1>1, <2>1
      <3> HIDE DEF x
      <3>3. QED BY <3>1, <3>2
    <2> HIDE DEF x
    <2>3. x[1] = "rows" /\ x[2] = "block" /\ x[3] = "privacy" /\ x[4] = "follow" /\ x[5] = "friend"
      BY <1>1, <2>1, <2>2
    <2>4. x = <<"rows", "block", "privacy", "follow", "friend">>
      BY <2>2, <2>3, Five
    <2>5. QED BY <2>4 DEF x, y
  <1>7. QED BY <1>3, <1>4, <1>5, <1>6 DEF g, r, f, rf, cat

LEMMA ReadsAre ==
  /\ R!Reads["feed"] = <<"authors", "rows", "load">>
  /\ R!Reads["suggested"] = <<"authors", "hidden", "rows">>
  /\ R!Reads["explore"] = <<"hidden", "rows">>
  /\ R!Reads["tab"] = <<"block", "privacy", "follow", "rows">>
  /\ R!Reads["my"] = <<"rows">>
  /\ R!Reads["kept"] = <<"rows">>
  /\ R!Reads["post"] = <<"rows", "block", "privacy", "follow">>
  /\ R!Reads["react"] = <<"rows", "block", "privacy", "follow">>
  /\ R!Reads["comments"] = <<"rows", "block", "privacy", "follow">>
  /\ R!Reads["rail"] = <<"authors", "close", "rows">>
  /\ R!Reads["byUser"] = <<"block", "privacy", "follow", "rows", "friend">>
  /\ R!Reads["story"] = <<"rows", "block", "privacy", "follow", "friend">>
  /\ R!Reads["addYours"] = <<"hidden", "rows", "friend">>
  /\ R!Reads["highlight"] = <<"block", "privacy", "follow", "rows">>
  /\ R!Reads["notes"] = <<"authors", "hidden", "close", "rows">>
  /\ R!Reads["note"] = <<"rows", "block", "privacy", "follow", "friend">>
  /\ R!Reads["lives"] = <<"rows">>
  /\ R!Reads["live"] = <<"row", "block", "follow">>
  BY GateThen DEF R!Reads

Lists == {"feed", "suggested", "explore", "tab", "my", "kept", "post", "react", "comments",
          "rail", "byUser", "story", "addYours", "highlight", "notes", "note", "lives", "live"}

Steps == {"authors", "hidden", "close", "block", "privacy", "follow", "row", "rows", "load", "friend"}

LEMMA ListsAre == R!List = Lists
  BY DEF R!List, R!Reads, Lists

\* Before its place i, list l makes the read x.
Earlier(l, i, x) == \E j \in 1..Len(R!Reads[l]) : j < i /\ R!Reads[l][j] = x

\* What precedes a read of a list, and what a list never does without.
LEMMA Order ==
  ASSUME NEW l \in Lists
  PROVE  /\ R!Reads[l] \in Seq(Steps) /\ Len(R!Reads[l]) \in Nat \ {0}
         /\ \A i, j \in 1..Len(R!Reads[l]) : R!Reads[l][i] = R!Reads[l][j] => i = j
         /\ \A i \in 1..Len(R!Reads[l]) :
              /\ R!Reads[l][i] \in {"authors", "row"} => i = 1
              /\ R!Reads[l][i] = "row" => l = "live"
              /\ R!Reads[l][i] = "privacy" => l # "live" /\ Earlier(l, i, "block")
              /\ R!Reads[l][i] = "block" /\ l = "live" => Earlier(l, i, "row")
              /\ R!Reads[l][i] = "follow" => /\ Earlier(l, i, "block")
                                             /\ l # "live" => Earlier(l, i, "privacy")
              /\ R!Reads[l][i] = "hidden" /\ l = "notes" => Earlier(l, i, "authors")
              /\ R!Reads[l][i] = "rows" =>
                   /\ l \in {"feed", "rail"} => Earlier(l, i, "authors")
                   /\ l \in {"suggested", "explore", "addYours", "notes"} => Earlier(l, i, "hidden")
                   /\ l \in {"rail", "notes"} => Earlier(l, i, "close")
         /\ l # "live" => Earlier(l, Len(R!Reads[l]) + 1, "rows")
         /\ l \in {"tab", "post", "react", "comments", "byUser", "story", "highlight", "note", "live"} =>
              Earlier(l, Len(R!Reads[l]) + 1, "follow")
         /\ l \in {"byUser", "story", "addYours", "note"} => Earlier(l, Len(R!Reads[l]) + 1, "friend")
  <1>1. CASE l = "feed"
    BY <1>1, ReadsAre DEF Earlier, Steps
  <1>2. CASE l = "suggested"
    BY <1>2, ReadsAre DEF Earlier, Steps
  <1>3. CASE l = "explore"
    BY <1>3, ReadsAre DEF Earlier, Steps
  <1>4. CASE l = "tab"
    BY <1>4, ReadsAre DEF Earlier, Steps
  <1>5. CASE l = "my"
    BY <1>5, ReadsAre DEF Earlier, Steps
  <1>6. CASE l = "kept"
    BY <1>6, ReadsAre DEF Earlier, Steps
  <1>7. CASE l = "post"
    BY <1>7, ReadsAre DEF Earlier, Steps
  <1>8. CASE l = "react"
    BY <1>8, ReadsAre DEF Earlier, Steps
  <1>9. CASE l = "comments"
    BY <1>9, ReadsAre DEF Earlier, Steps
  <1>10. CASE l = "rail"
    BY <1>10, ReadsAre DEF Earlier, Steps
  <1>11. CASE l = "byUser"
    BY <1>11, ReadsAre DEF Earlier, Steps
  <1>12. CASE l = "story"
    BY <1>12, ReadsAre DEF Earlier, Steps
  <1>13. CASE l = "addYours"
    BY <1>13, ReadsAre DEF Earlier, Steps
  <1>14. CASE l = "highlight"
    BY <1>14, ReadsAre DEF Earlier, Steps
  <1>15. CASE l = "notes"
    BY <1>15, ReadsAre DEF Earlier, Steps
  <1>16. CASE l = "note"
    BY <1>16, ReadsAre DEF Earlier, Steps
  <1>17. CASE l = "lives"
    BY <1>17, ReadsAre DEF Earlier, Steps
  <1>18. CASE l = "live"
    BY <1>18, ReadsAre DEF Earlier, Steps
  <1>19. QED BY <1>1, <1>2, <1>3, <1>4, <1>5, <1>6, <1>7, <1>8, <1>9, <1>10, <1>11, <1>12, <1>13, <1>14, <1>15, <1>16, <1>17, <1>18 DEF Lists

Seen(x) == x \in could \cup shifts

\* What the selection of a list has made sure of, about somebody else's item.
RowsKept ==
  item.author # Viewer =>
    /\ get.list \in {"feed", "rail", "lives"} => item.author \in could \cup odd
    /\ get.list \in {"suggested", "explore", "addYours", "notes"} => Seen(item.author)
    /\ get.list \in {"rail", "notes"} /\ item.only => item.author \in near
    /\ get.list # "comments" => ~item.draft
    /\ get.list \in {"feed", "suggested", "explore", "tab", "kept"} /\ item.archived => "archived" \in shifts
    /\ get.list \in {"rail", "byUser", "addYours", "notes"} /\ item.expired => "expired" \in shifts

\* What each read has made sure of, whatever has changed since.
Kept(x) ==
  /\ x = "authors" /\ item.author # Viewer /\ item.author \in get.authors =>
       item.author \in could \/ (item.author \in odd /\ item.author \in block \cup shifts)
  /\ x = "hidden" /\ item.author # Viewer /\ item.author \notin get.hidden =>
       /\ item.author \in block => item.author \in shifts
       /\ get.list = "notes" /\ item.author \in get.authors => Seen(item.author)
  /\ x = "close" => get.friends \subseteq near
  /\ x = "block" /\ get.target # Viewer =>
       /\ get.target \in block => get.target \in shifts
       /\ get.list = "live" /\ ~get.closed => Seen(get.target)
  /\ x = "privacy" /\ get.target # Viewer /\ ~get.closed => Seen(get.target)
  /\ x = "row" /\ get.target # Viewer /\ ~get.closed => Seen(get.target) \/ get.target \in block
  /\ x = "follow" /\ get.target # Viewer => Seen(get.target)
  /\ x = "rows" => RowsKept
  /\ x = "friend" /\ item.author # Viewer /\ item.only => item.author \in near

Suffix(n) ==
  /\ n \in Nat /\ n < Len(R!Reads[get.list])
  /\ Len(get.todo) = Len(R!Reads[get.list]) - n
  /\ \A i \in 1..Len(get.todo) : get.todo[i] = R!Reads[get.list][n + i]

Stage ==
  \/ get.todo = <<>> /\ (get.shown => \A i \in 1..Len(R!Reads[get.list]) : Kept(R!Reads[get.list][i]))
  \/ ~get.shown /\ \E n : Suffix(n) /\ \A i \in 1..n : Kept(R!Reads[get.list][i])

Shape ==
  /\ item.kind # "post" => ~item.draft /\ ~item.archived
  /\ item.kind \notin {"story", "note"} => ~item.only /\ ~item.expired
  /\ get.list \in R!ListsOf[item.kind]
  /\ IF get.list = "tab" THEN get.target \in {item.author, item.tab} \ {None} ELSE get.target = item.author

\* What can be seen now was seen.
Remembered ==
  /\ \A x \in R!Asked : R!CanView(x) => x \in could
  /\ close \subseteq near
  /\ follow \cap block \subseteq odd

ReadingInv == R!TypeOK /\ Shape /\ Remembered /\ Stage

LEMMA ListsOfAre ==
  /\ R!ListsOf["post"] = {"feed", "suggested", "explore", "tab", "my", "kept", "post", "react", "comments"}
  /\ R!ListsOf["story"] = {"rail", "byUser", "story", "addYours", "highlight"}
  /\ R!ListsOf["note"] = {"notes", "note"}
  /\ R!ListsOf["live"] = {"lives", "live"}
  BY DEF R!ListsOf

LEMMA ShapeIs ==
  ASSUME R!TypeOK, Shape
  PROVE  /\ get.list \in Lists /\ item.kind \in {"post", "story", "note", "live"}
         /\ get.list \in {"feed", "suggested", "explore", "tab", "my", "kept", "post", "react", "comments"}
              <=> item.kind = "post"
         /\ get.list \in {"lives", "live"} <=> item.kind = "live"
         /\ get.target \in Thing \cup {Viewer} /\ item.author \in Thing \cup {Viewer}
         /\ item.author # Viewer => item.author \in R!Asked
         /\ get.target # Viewer => get.target \in R!Asked
         /\ item.author # Viewer => get.target # Viewer
         /\ get.list # "tab" => get.target = item.author
         /\ R!Asked \subseteq Thing
  <1>1. /\ item.kind \in {"post", "story", "note", "live"} /\ item.author \in Thing \cup {Viewer}
        /\ item.tab \in Thing \cup {None}
    BY DEF R!TypeOK, R!Item, R!User
  <1>2. get.target \in Thing \cup {Viewer}
    BY <1>1 DEF Shape
  <1>3. item.author # Viewer => get.target # Viewer
    BY <1>1, ViewerIsApart DEF Shape
  <1>4. /\ get.list \in Lists
        /\ get.list \in {"feed", "suggested", "explore", "tab", "my", "kept", "post", "react", "comments"}
             <=> item.kind = "post"
        /\ get.list \in {"lives", "live"} <=> item.kind = "live"
    BY <1>1, ListsOfAre DEF Shape, Lists
  <1>5. QED BY <1>1, <1>2, <1>3, <1>4 DEF R!Asked, Shape

LEMMA KeptAtEnd ==
  ASSUME ReadingInv, get.shown
  PROVE  /\ get.list # "live" => RowsKept
         /\ get.list \in {"tab", "post", "react", "comments", "byUser", "story", "highlight", "note", "live"} =>
              (get.target # Viewer => Seen(get.target))
         /\ get.list \in {"byUser", "story", "addYours", "note"} =>
              (item.author # Viewer /\ item.only => item.author \in near)
  <1>1. get.list \in Lists
    BY ShapeIs DEF ReadingInv
  <1>2. \A i \in 1..Len(R!Reads[get.list]) : Kept(R!Reads[get.list][i])
    BY DEF ReadingInv, Stage
  <1>3. \A x : Earlier(get.list, Len(R!Reads[get.list]) + 1, x) => Kept(x)
    BY <1>2 DEF Earlier
  <1>4. QED BY <1>1, <1>3, Order DEF Kept

LEMMA GuardedContent == ReadingInv => ContentIsGuarded
  <1> SUFFICES ASSUME ReadingInv, get.shown, item.author # Viewer
               PROVE  ContentIsGuarded
    BY DEF ContentIsGuarded, R!AudienceIsKept, R!PrivateStaysPrivate, R!FriendsOnly, R!WithdrawnIsGone, R!Own
  <1>1. get.list \in Lists /\ get.target # Viewer /\ (get.list # "tab" => get.target = item.author)
    BY ShapeIs DEF ReadingInv
  <1>2. Shape /\ (get.list = "tab" => get.target \in {item.author, item.tab})
    BY DEF ReadingInv, Shape
  <1>3. R!PrivateStaysPrivate
    BY <1>1, <1>2, KeptAtEnd DEF R!PrivateStaysPrivate, R!Invited, RowsKept, Seen, Lists
  <1>4. R!FriendsOnly
    <2>1. item.only => get.list \in {"rail", "byUser", "story", "addYours", "highlight", "notes", "note"}
      BY <1>1, <1>2, ShapeIs DEF ReadingInv, Shape, Lists
    <2>2. QED BY <1>1, <2>1, KeptAtEnd DEF R!FriendsOnly, RowsKept
  <1>5. R!WithdrawnIsGone
    <2>1. item.draft \/ item.archived =>
            get.list \in {"feed", "suggested", "explore", "tab", "my", "kept", "post", "react", "comments"}
      BY <1>2, ShapeIs DEF ReadingInv, Shape
    <2>2. item.expired => get.list \in {"rail", "byUser", "story", "addYours", "highlight", "notes", "note"}
      BY <1>1, <1>2, ShapeIs DEF ReadingInv, Shape, Lists
    <2>3. QED BY <1>1, <2>1, <2>2, KeptAtEnd DEF R!WithdrawnIsGone, RowsKept
  <1>6. QED BY <1>3, <1>4, <1>5 DEF ContentIsGuarded, R!AudienceIsKept

LEMMA ReadingInit == Init => ReadingInv
  <1> SUFFICES ASSUME R!Init PROVE ReadingInv
    BY DEF Init
  <1>1. PICK a \in R!User, t \in Thing \cup {None}, b \in BOOLEAN, c \in BOOLEAN, d \in BOOLEAN :
          t # a /\ item \in {[R!Blank EXCEPT !.author = a],
                            [R!Blank EXCEPT !.kind = "post", !.author = a, !.tab = t, !.mine = b,
                                            !.draft = c, !.archived = d],
                            [R!Blank EXCEPT !.kind = "story", !.author = a, !.only = b, !.expired = c],
                            [R!Blank EXCEPT !.kind = "note", !.author = a, !.only = b, !.expired = c]}
    BY DEF R!Init
  <1>2. /\ item \in R!Item
        /\ item.kind # "post" => ~item.draft /\ ~item.archived
        /\ item.kind \notin {"story", "note"} => ~item.only /\ ~item.expired
    <2>1. R!Blank \in R!Item
      BY DEF R!Blank, R!Item, R!User
    <2>2. CASE item = [R!Blank EXCEPT !.author = a]
      BY <2>1, <2>2 DEF R!Blank, R!Item
    <2>3. CASE item = [R!Blank EXCEPT !.kind = "post", !.author = a, !.tab = t, !.mine = b,
                                      !.draft = c, !.archived = d]
      BY <2>1, <2>3 DEF R!Blank, R!Item
    <2>4. CASE item = [R!Blank EXCEPT !.kind = "story", !.author = a, !.only = b, !.expired = c]
      BY <2>1, <2>4 DEF R!Blank, R!Item
    <2>5. CASE item = [R!Blank EXCEPT !.kind = "note", !.author = a, !.only = b, !.expired = c]
      BY <2>1, <2>5 DEF R!Blank, R!Item
    <2>6. QED BY <1>1, <2>2, <2>3, <2>4, <2>5
  <1>3. PICK l \in R!ListsOf[item.kind] :
          \E t2 \in IF l = "tab" THEN {item.author, item.tab} \ {None} ELSE {item.author} :
             get = [R!Idle EXCEPT !.list = l, !.target = t2, !.todo = R!Reads[l]]
    BY DEF R!Init
  <1>4. PICK u \in (IF l = "tab" THEN {item.author, item.tab} \ {None} ELSE {item.author}) :
             get = [R!Idle EXCEPT !.list = l, !.target = u, !.todo = R!Reads[l]]
    BY <1>3
  <1>5. l \in Lists
    BY <1>2, ListsOfAre DEF R!Item, Lists
  <1>6. u \in R!User
    BY <1>2, <1>4 DEF R!Item, R!User
  <1>7. R!Reads[l] \in Seq(Steps) /\ Len(R!Reads[l]) \in Nat \ {0}
    BY <1>5, Order
  <1>8. /\ get \in R!Request /\ get.list = l /\ get.target = u /\ get.todo = R!Reads[l] /\ ~get.shown
    BY <1>4, <1>5, <1>6, <1>7, ListsAre DEF R!Idle, R!Request, Steps
  <1>9. Shape
    BY <1>2, <1>3, <1>4, <1>8 DEF Shape
  <1>10. R!Asked \subseteq Thing
    BY <1>2, <1>6, <1>8 DEF R!Asked, R!User, R!Item
  <1>11. /\ follow \subseteq R!Asked /\ block \subseteq R!Asked /\ close \subseteq R!Asked /\ private \subseteq R!Asked
         /\ could = {x \in R!Asked : R!CanView(x)} /\ near = close
         /\ odd = follow \cap block /\ shifts = {}
    BY DEF R!Init
  <1>12. R!TypeOK
    BY <1>2, <1>8, <1>10, <1>11 DEF R!TypeOK, R!GraphTypeOK
  <1>13. Remembered
    BY <1>11 DEF Remembered
  <1>14. Stage
    <2>1. Suffix(0)
      BY <1>7, <1>8 DEF Suffix
    <2>2. \A i \in 1..0 : Kept(R!Reads[get.list][i])
      OBVIOUS
    <2>3. QED BY <1>8, <2>1, <2>2 DEF Stage
  <1>15. QED BY <1>9, <1>12, <1>13, <1>14 DEF ReadingInv

\* What every step leaves true of what was before.
Flow ==
  /\ get'.list = get.list /\ get'.target = get.target
  /\ could \subseteq could' /\ near \subseteq near' /\ odd \subseteq odd' /\ shifts \subseteq shifts'
  /\ \A x \in R!Asked : /\ x \in block => x \in block' \/ x \in shifts'
                        /\ x \in block' => x \in block \/ x \in shifts'
  /\ item'.author = item.author /\ item'.only = item.only
  /\ item'.draft => item.draft
  /\ item'.archived => item.archived \/ "archived" \in shifts'
  /\ item'.expired => item.expired \/ "expired" \in shifts'

LEMMA FlowKeeps ==
  ASSUME R!TypeOK, Shape, Flow, NEW x, Kept(x),
         x \in {"authors", "hidden"} => get'.authors = get.authors,
         x = "hidden" => get'.hidden = get.hidden,
         x = "close" => get'.friends \subseteq near',
         x \in {"privacy", "row"} \/ (x = "block" /\ get.list = "live") => get'.closed = get.closed
  PROVE  Kept(x)'
  <1>0. /\ item.author # Viewer => item.author \in R!Asked
        /\ get.target # Viewer => get.target \in R!Asked
    BY ShapeIs
  <1>1. CASE x = "authors"
    <2>1. SUFFICES ASSUME item.author # Viewer, item.author \in get.authors
                   PROVE  item.author \in could' \/ (item.author \in odd' /\ item.author \in block' \cup shifts')
      BY <1>1 DEF Kept, Flow
    <2>2. item.author \in could \/ (item.author \in odd /\ item.author \in block \cup shifts)
      BY <1>1, <2>1 DEF Kept
    <2>3. item.author \in block => item.author \in block' \cup shifts'
      BY <1>0, <2>1 DEF Flow
    <2>4. QED BY <2>2, <2>3 DEF Flow
  <1>2. CASE x = "hidden"
    BY <1>0, <1>2 DEF Kept, Flow, Seen
  <1>3. CASE x = "close"
    BY <1>3 DEF Kept
  <1>4. CASE x \in {"block", "privacy", "row", "follow"}
    <2>1. CASE get.target = Viewer
      BY <1>4, <2>1 DEF Kept, Flow
    <2>2. CASE get.target # Viewer
      <3>1. /\ Seen(get.target) => Seen(get.target)'
            /\ get.target \in block' => get.target \in block \/ get.target \in shifts'
            /\ get.target \in block => get.target \in block' \/ get.target \in shifts'
            /\ get'.target = get.target /\ get'.list = get.list
            /\ get.target \in shifts => get.target \in shifts'
        BY <1>0, <2>2 DEF Flow, Seen
      <3>2. get.target \in shifts' => Seen(get.target)'
        BY <3>1 DEF Seen
      <3>3. CASE x = "follow"
        BY <2>2, <3>1, <3>3 DEF Kept, Seen
      <3>4. CASE x = "block"
        BY <2>2, <3>1, <3>4 DEF Kept, Seen
      <3>5. CASE x = "privacy"
        BY <2>2, <3>1, <3>5 DEF Kept, Seen
      <3>6. CASE x = "row"
        BY <2>2, <3>1, <3>2, <3>6 DEF Kept, Seen
      <3>7. QED BY <1>4, <3>3, <3>4, <3>5, <3>6
    <2>3. QED BY <2>1, <2>2
  <1>5. CASE x \in {"rows", "friend"}
    <2>1. RowsKept => RowsKept'
      BY DEF RowsKept, Flow, Seen
    <2>2. QED BY <1>5, <2>1 DEF Kept, Flow
  <1>6. CASE x \notin {"authors", "hidden", "close", "block", "privacy", "row", "follow", "rows", "friend"}
    BY <1>6 DEF Kept
  <1>7. QED BY <1>1, <1>2, <1>3, <1>4, <1>5, <1>6

\* A step that leaves the request alone.
LEMMA ChangeKeepsStage ==
  ASSUME R!TypeOK, Shape, Stage, Flow, get' = get, near \subseteq near'
  PROVE  Stage'
  <1>1. ASSUME NEW x, Kept(x) PROVE Kept(x)'
    <2>1. x = "close" => get'.friends \subseteq near'
      BY <1>1 DEF Kept
    <2>2. QED BY <1>1, <2>1, FlowKeeps
  <1>2. CASE get.todo = <<>> /\ (get.shown => \A i \in 1..Len(R!Reads[get.list]) : Kept(R!Reads[get.list][i]))
    <2>1. get'.shown => \A i \in 1..Len(R!Reads[get'.list]) : Kept(R!Reads[get.list][i])'
      BY <1>1, <1>2
    <2>2. QED BY <1>2, <2>1 DEF Stage
  <1>3. CASE ~get.shown /\ \E n : Suffix(n) /\ \A i \in 1..n : Kept(R!Reads[get.list][i])
    <2>1. PICK n : Suffix(n) /\ \A i \in 1..n : Kept(R!Reads[get.list][i])
      BY <1>3
    <2>2. Suffix(n)'
      BY <2>1 DEF Suffix
    <2>3. \A i \in 1..n : Kept(R!Reads[get.list][i])'
      BY <1>1, <2>1
    <2>4. QED BY <1>3, <2>2, <2>3 DEF Stage
  <1>4. QED BY <1>2, <1>3 DEF Stage

\* A look at the graph after a step forgets nothing.
LEMMA LookRemembers ==
  ASSUME R!TypeOK, Shape, R!Look, R!Asked' = R!Asked,
         follow' \subseteq Thing, block' \subseteq Thing, close' \subseteq Thing
  PROVE  /\ Remembered'
         /\ could \subseteq could' /\ near \subseteq near' /\ odd \subseteq odd'
         /\ could' \subseteq Thing /\ near' \subseteq Thing /\ odd' \subseteq Thing
  <1>1. R!Asked \subseteq Thing
    BY ShapeIs
  <1>2. could \subseteq Thing /\ near \subseteq Thing /\ odd \subseteq Thing
    BY DEF R!TypeOK
  <1>3. Remembered'
    BY DEF Remembered, R!Look
  <1>4. QED BY <1>1, <1>2, <1>3 DEF R!Look

LEMMA GraphStep ==
  ASSUME ReadingInv, R!GraphChanges, R!Look
  PROVE  ReadingInv'
  <1>1. R!TypeOK /\ Shape /\ Stage
    BY DEF ReadingInv
  <1>2. item' = item /\ get' = get /\ R!Asked' = R!Asked
    BY DEF R!GraphChanges, R!Asked
  <1>3. R!Asked \subseteq Thing
    BY <1>1, ShapeIs
  <1>4. follow' \subseteq Thing /\ block' \subseteq Thing /\ close' \subseteq Thing /\ private' \subseteq Thing
    <2>1. PICK x \in R!Asked : R!Follow(x) \/ R!Block(x) \/ R!Unblock(x) \/ R!SetPrivacy(x) \/ R!Befriend(x)
      BY DEF R!GraphChanges, R!Change
    <2>2. follow \subseteq Thing /\ block \subseteq Thing /\ close \subseteq Thing /\ private \subseteq Thing /\ x \in Thing
      BY <1>1, <1>3 DEF R!TypeOK, R!GraphTypeOK
    <2>3. QED BY <2>1, <2>2 DEF R!Follow, R!Block, R!Unblock, R!SetPrivacy, R!Befriend
  <1>5. /\ Remembered'
        /\ could \subseteq could' /\ near \subseteq near' /\ odd \subseteq odd'
        /\ could' \subseteq Thing /\ near' \subseteq Thing /\ odd' \subseteq Thing
    BY <1>1, <1>2, <1>4, LookRemembers
  <1>6. shifts' = shifts \cup {x \in R!Asked : (x \in block) # (x \in block')}
    BY DEF R!GraphChanges
  <1>7. R!TypeOK'
    BY <1>1, <1>2, <1>3, <1>4, <1>5, <1>6 DEF R!TypeOK, R!GraphTypeOK
  <1>8. Shape'
    BY <1>1, <1>2 DEF Shape
  <1>9. Flow
    BY <1>2, <1>5, <1>6 DEF Flow
  <1>10. Stage'
    BY <1>1, <1>2, <1>5, <1>9, ChangeKeepsStage
  <1>11. QED BY <1>5, <1>7, <1>8, <1>10 DEF ReadingInv

LEMMA ItemStep ==
  ASSUME ReadingInv, R!ItemChanges, R!Look
  PROVE  ReadingInv'
  <1>1. R!TypeOK /\ Shape /\ Stage /\ item \in R!Item
    BY DEF ReadingInv, R!TypeOK
  <1>2. get' = get /\ follow' = follow /\ block' = block /\ close' = close /\ private' = private
    BY DEF R!ItemChanges, R!graph
  <1>3. /\ item' \in R!Item
        /\ item'.kind = item.kind /\ item'.author = item.author /\ item'.tab = item.tab /\ item'.only = item.only
        /\ item'.draft => item.draft
        /\ item'.archived => item.archived \/ "archived" \in shifts'
        /\ item'.expired => item.expired \/ "expired" \in shifts'
        /\ shifts \subseteq shifts' /\ shifts' \subseteq shifts \cup {"archived", "expired"}
        /\ item.kind # "post" => item'.draft = item.draft /\ item'.archived = item.archived
        /\ item.kind \notin {"story", "note"} => item'.expired = item.expired
    <2>1. CASE item.kind = "post" /\ item' = [item EXCEPT !.archived = ~@] /\ shifts' = shifts \cup {"archived"}
      BY <1>1, <2>1 DEF R!Item
    <2>2. CASE item.kind = "post" /\ item' = [item EXCEPT !.draft = FALSE] /\ item.draft /\ shifts' = shifts
      BY <1>1, <2>2 DEF R!Item
    <2>3. CASE /\ item.kind \in {"story", "note"} /\ ~item.expired
               /\ item' = [item EXCEPT !.expired = TRUE] /\ shifts' = shifts \cup {"expired"}
      BY <1>1, <2>3 DEF R!Item
    <2>4. QED BY <2>1, <2>2, <2>3 DEF R!ItemChanges
  <1>4. R!Asked' = R!Asked
    BY <1>2, <1>3 DEF R!Asked
  <1>5. follow \subseteq Thing /\ block \subseteq Thing /\ close \subseteq Thing /\ private \subseteq Thing
    BY <1>1 DEF R!TypeOK, R!GraphTypeOK
  <1>6. /\ Remembered'
        /\ could \subseteq could' /\ near \subseteq near' /\ odd \subseteq odd'
        /\ could' \subseteq Thing /\ near' \subseteq Thing /\ odd' \subseteq Thing
    BY <1>1, <1>2, <1>4, <1>5, LookRemembers
  <1>7. R!TypeOK'
    BY <1>1, <1>2, <1>3, <1>5, <1>6 DEF R!TypeOK, R!GraphTypeOK
  <1>8. Shape'
    BY <1>1, <1>2, <1>3 DEF Shape
  <1>9. Flow
    BY <1>2, <1>3, <1>6 DEF Flow
  <1>10. Stage'
    BY <1>1, <1>2, <1>6, <1>9, ChangeKeepsStage
  <1>11. QED BY <1>6, <1>7, <1>8, <1>10 DEF ReadingInv

\* What the selection of the list has found.
Chosen ==
  /\ get.list \in {"feed", "suggested", "explore", "tab", "kept"} => R!Published
  /\ get.list \in {"feed", "rail"} => item.author \in get.authors
  /\ get.list = "suggested" => item.author \notin get.hidden \cup private
  /\ get.list = "explore" => item.author \notin get.hidden /\ R!Open
  /\ get.list = "addYours" => item.author \notin get.hidden /\ (R!Open \/ R!Own)
  /\ get.list = "notes" => item.author \in get.authors \ get.hidden
  /\ get.list \in {"rail", "notes"} => R!ForFriends(get.friends)
  /\ get.list = "lives" => item.author \in follow
  /\ get.list \in {"my", "post", "react"} => ~item.draft \/ R!Own
  /\ get.list \in {"rail", "byUser", "addYours", "notes"} => ~item.expired

\* What the read at the head of the request has found, and what it has stored.
Found(h) ==
  /\ get'.authors = IF h = "authors" THEN follow \cup {Viewer} ELSE get.authors
  /\ get'.hidden = IF h = "hidden" THEN block ELSE get.hidden
  /\ get'.friends = IF h = "close" THEN close ELSE get.friends
  /\ get'.closed = IF h = "privacy" THEN get.target \in private
                   ELSE IF h = "row" THEN item.author \in private ELSE get.closed
  /\ h = "block" => get.target \notin block
  /\ h = "follow" => ~get.closed \/ get.target \in follow
  /\ h = "friend" => R!ForFriends(close)
  /\ h = "rows" => Chosen

LEMMA DoneIs ==
  ASSUME get \in R!Request, get.todo # <<>>, NEW x \in R!Request, R!Done(x),
         x.todo = get.todo, x.list = get.list, x.target = get.target
  PROVE  /\ get' \in R!Request /\ get'.todo = Tail(get.todo) /\ get'.shown = (Len(get.todo) = 1)
         /\ get'.list = get.list /\ get'.target = get.target
         /\ get'.authors = x.authors /\ get'.hidden = x.hidden /\ get'.friends = x.friends /\ get'.closed = x.closed
  <1>1. Tail(get.todo) \in Seq(Steps) /\ (Len(get.todo) = 1) \in BOOLEAN
    BY DEF R!Request, Steps
  <1> DEFINE t == Tail(get.todo)
             b == Len(get.todo) = 1
  <1>2. get' = [x EXCEPT !.todo = t, !.shown = b]
    BY DEF R!Done
  <1> HIDE DEF t, b
  <1>3. t \in Seq(Steps) /\ b \in BOOLEAN
    BY <1>1 DEF t, b
  <1>4. get' \in R!Request
    BY <1>2, <1>3 DEF R!Request, Steps
  <1>5. QED BY <1>2, <1>4 DEF R!Request, t, b

\* The read at the head of the request is done, and the answer given with the last.
Answered ==
  /\ get' \in R!Request /\ get'.todo = Tail(get.todo) /\ get'.shown = (Len(get.todo) = 1)
  /\ get'.list = get.list /\ get'.target = get.target
  /\ Found(Head(get.todo))

\* A read that stores nothing.
LEMMA ReadPassed ==
  ASSUME R!TypeOK, NEW h, R!At(h), h \notin {"authors", "hidden", "close", "privacy", "row"}, R!Done(get),
         h = "block" => get.target \notin block,
         h = "follow" => ~get.closed \/ get.target \in follow,
         h = "friend" => R!ForFriends(close),
         h = "rows" => Chosen
  PROVE  Answered
  <1>1. get \in R!Request /\ get.todo # <<>> /\ Head(get.todo) = h
    BY DEF R!TypeOK, R!At
  <1>2. QED BY <1>1, DoneIs DEF Answered, Found

LEMMA ReadIs ==
  ASSUME R!TypeOK, R!Read
  PROVE  get.todo # <<>> /\ (R!Refuse \/ Answered)
  <1>0. get \in R!Request /\ follow \subseteq Thing /\ block \subseteq Thing /\ close \subseteq Thing
    BY DEF R!TypeOK, R!GraphTypeOK
  <1>1. get.todo # <<>>
    BY DEF R!Read, R!ReadAuthors, R!ReadHidden, R!ReadClose, R!NotBlocked, R!ReadPrivacy, R!IsFollowing, R!IsClose,
       R!Feed, R!Load, R!Suggested, R!Explore, R!Tab, R!My, R!Kept, R!Post, R!React, R!Comments, R!Rail, R!ByUser,
       R!Story, R!AddYours, R!Highlight, R!Notes, R!Note, R!Lives, R!Live, R!Select, R!At
  <1>2. CASE R!ReadAuthors
    <2> DEFINE x == [get EXCEPT !.authors = follow \cup {Viewer}]
    <2>1. x \in R!Request /\ x.todo = get.todo /\ x.list = get.list /\ x.target = get.target
          /\ x.authors = follow \cup {Viewer} /\ x.hidden = get.hidden /\ x.friends = get.friends /\ x.closed = get.closed
      BY <1>0 DEF R!Request, R!User
    <2>2. R!Done(x) /\ Head(get.todo) = "authors"
      BY <1>2 DEF R!ReadAuthors, R!At
    <2> HIDE DEF x
    <2>3. QED BY <1>0, <1>1, <2>1, <2>2, DoneIs DEF Answered, Found
  <1>3. CASE R!ReadHidden
    <2> DEFINE x == [get EXCEPT !.hidden = block]
    <2>1. x \in R!Request /\ x.todo = get.todo /\ x.list = get.list /\ x.target = get.target
          /\ x.authors = get.authors /\ x.hidden = block /\ x.friends = get.friends /\ x.closed = get.closed
      BY <1>0 DEF R!Request
    <2>2. R!Done(x) /\ Head(get.todo) = "hidden"
      BY <1>3 DEF R!ReadHidden, R!At
    <2> HIDE DEF x
    <2>3. QED BY <1>0, <1>1, <2>1, <2>2, DoneIs DEF Answered, Found
  <1>4. CASE R!ReadClose
    <2> DEFINE x == [get EXCEPT !.friends = close]
    <2>1. x \in R!Request /\ x.todo = get.todo /\ x.list = get.list /\ x.target = get.target
          /\ x.authors = get.authors /\ x.hidden = get.hidden /\ x.friends = close /\ x.closed = get.closed
      BY <1>0 DEF R!Request
    <2>2. R!Done(x) /\ Head(get.todo) = "close"
      BY <1>4 DEF R!ReadClose, R!At
    <2> HIDE DEF x
    <2>3. QED BY <1>0, <1>1, <2>1, <2>2, DoneIs DEF Answered, Found
  <1>5. CASE R!ReadPrivacy
    <2> DEFINE c == get.target \in private
               x == [get EXCEPT !.closed = c]
    <2>1. c \in BOOLEAN
      OBVIOUS
    <2> HIDE DEF c
    <2>2. x \in R!Request /\ x.todo = get.todo /\ x.list = get.list /\ x.target = get.target
          /\ x.authors = get.authors /\ x.hidden = get.hidden /\ x.friends = get.friends /\ x.closed = c
      BY <1>0, <2>1 DEF R!Request
    <2>3. R!Done(x) /\ Head(get.todo) = "privacy"
      BY <1>5 DEF R!ReadPrivacy, R!At, c
    <2> HIDE DEF x
    <2>4. /\ get' \in R!Request /\ get'.todo = Tail(get.todo) /\ get'.shown = (Len(get.todo) = 1)
          /\ get'.list = get.list /\ get'.target = get.target
          /\ get'.authors = get.authors /\ get'.hidden = get.hidden /\ get'.friends = get.friends /\ get'.closed = c
      BY <1>0, <1>1, <2>2, <2>3, DoneIs
    <2>5. QED BY <1>1, <2>3, <2>4 DEF Answered, Found, c
  <1>6. CASE R!Live
    <2> DEFINE c == item.author \in private
               x == [get EXCEPT !.closed = c]
    <2>1. c \in BOOLEAN
      OBVIOUS
    <2> HIDE DEF c
    <2>2. x \in R!Request /\ x.todo = get.todo /\ x.list = get.list /\ x.target = get.target
          /\ x.authors = get.authors /\ x.hidden = get.hidden /\ x.friends = get.friends /\ x.closed = c
      BY <1>0, <2>1 DEF R!Request
    <2>3. R!Done(x) /\ Head(get.todo) = "row"
      BY <1>6 DEF R!Live, R!At, c
    <2> HIDE DEF x
    <2>4. /\ get' \in R!Request /\ get'.todo = Tail(get.todo) /\ get'.shown = (Len(get.todo) = 1)
          /\ get'.list = get.list /\ get'.target = get.target
          /\ get'.authors = get.authors /\ get'.hidden = get.hidden /\ get'.friends = get.friends /\ get'.closed = c
      BY <1>0, <1>1, <2>2, <2>3, DoneIs
    <2>5. QED BY <1>1, <2>3, <2>4 DEF Answered, Found, c
  <1>7. CASE R!NotBlocked
    BY <1>7, <1>1, ReadPassed DEF R!NotBlocked, R!Pass
  <1>8. CASE R!IsFollowing
    BY <1>8, <1>1, ReadPassed DEF R!IsFollowing, R!Pass
  <1>9. CASE R!IsClose
    BY <1>9, <1>1, ReadPassed DEF R!IsClose, R!Pass
  <1>10. CASE R!Load
    <2>1. R!Done(get) /\ Head(get.todo) = "load"
      BY <1>10 DEF R!Load, R!At
    <2>2. QED BY <1>0, <1>1, <2>1, DoneIs DEF Answered, Found
  <1>11. CASE R!Feed
    BY <1>11, <1>1, ReadPassed DEF R!Feed, R!Select, R!Pass, Chosen
  <1>12. CASE R!Suggested
    BY <1>12, <1>1, ReadPassed DEF R!Suggested, R!Select, R!Pass, Chosen
  <1>13. CASE R!Explore
    BY <1>13, <1>1, ReadPassed DEF R!Explore, R!Select, R!Pass, Chosen
  <1>14. CASE R!Tab
    BY <1>14, <1>1, ReadPassed DEF R!Tab, R!Select, R!Pass, Chosen
  <1>15. CASE R!My
    BY <1>15, <1>1, ReadPassed DEF R!My, R!Select, R!Pass, Chosen
  <1>16. CASE R!Kept
    BY <1>16, <1>1, ReadPassed DEF R!Kept, R!Select, R!Pass, Chosen
  <1>17. CASE R!Post
    BY <1>17, <1>1, ReadPassed DEF R!Post, R!Select, R!Pass, Chosen
  <1>18. CASE R!React
    BY <1>18, <1>1, ReadPassed DEF R!React, R!Select, R!Pass, Chosen
  <1>19. CASE R!Comments
    BY <1>19, <1>1, ReadPassed DEF R!Comments, R!Select, R!Pass, Chosen
  <1>20. CASE R!Rail
    BY <1>20, <1>1, ReadPassed DEF R!Rail, R!Select, R!Pass, Chosen
  <1>21. CASE R!ByUser
    BY <1>21, <1>1, ReadPassed DEF R!ByUser, R!Select, R!Pass, Chosen
  <1>22. CASE R!Story
    BY <1>22, <1>1, ReadPassed DEF R!Story, R!Select, R!Pass, Chosen
  <1>23. CASE R!AddYours
    BY <1>23, <1>1, ReadPassed DEF R!AddYours, R!Select, R!Pass, Chosen
  <1>24. CASE R!Highlight
    BY <1>24, <1>1, ReadPassed DEF R!Highlight, R!Select, R!Pass, Chosen
  <1>25. CASE R!Notes
    BY <1>25, <1>1, ReadPassed DEF R!Notes, R!Select, R!Pass, Chosen
  <1>26. CASE R!Note
    BY <1>26, <1>1, ReadPassed DEF R!Note, R!Select, R!Pass, Chosen
  <1>27. CASE R!Lives
    BY <1>27, <1>1, ReadPassed DEF R!Lives, R!Select, R!Pass, Chosen
  <1>28. QED BY <1>1, <1>2, <1>3, <1>4, <1>5, <1>6, <1>7, <1>8, <1>9, <1>10, <1>11, <1>12, <1>13, <1>14, <1>15,
              <1>16, <1>17, <1>18, <1>19, <1>20, <1>21, <1>22, <1>23, <1>24, <1>25, <1>26, <1>27 DEF R!Read

\* What a read finds is what it makes sure of, given what the earlier ones have made sure of.
LEMMA HeadKept ==
  ASSUME R!TypeOK, Shape, Remembered, NEW h, Found(h), Flow, item' = item, block' = block, private' = private,
         close \subseteq near',
         h = "row" => get.list = "live",
         h = "privacy" => get.list # "live" /\ Kept("block"),
         h = "block" /\ get.list = "live" => Kept("row"),
         h = "follow" => Kept("block") /\ (get.list # "live" => Kept("privacy")),
         h = "hidden" /\ get.list = "notes" => Kept("authors"),
         h = "rows" => /\ get.list \in {"feed", "rail"} => Kept("authors")
                       /\ get.list \in {"suggested", "explore", "addYours", "notes"} => Kept("hidden")
                       /\ get.list \in {"rail", "notes"} => Kept("close")
  PROVE  Kept(h)'
  <1>0. /\ item.author # Viewer => item.author \in R!Asked
        /\ get.target # Viewer => get.target \in R!Asked
        /\ get.list \in Lists /\ item.kind \in {"post", "story", "note", "live"}
        /\ get.list # "tab" => get.target = item.author
        /\ item.author # Viewer => get.target # Viewer
        /\ get.list \in {"feed", "suggested", "explore", "tab", "my", "kept", "post", "react", "comments"}
             <=> item.kind = "post"
    BY ShapeIs
  <1>1. /\ \A x \in R!Asked : x \notin block /\ (x \notin private \/ x \in follow) => x \in could'
        /\ \A x \in R!Asked : x \in follow => x \in could' \/ (x \in odd' /\ x \in block)
    BY DEF Remembered, R!CanView, Flow
  <1>2. CASE h = "authors"
    BY <1>0, <1>1, <1>2 DEF Kept, Found
  <1>3. CASE h = "hidden"
    BY <1>0, <1>1, <1>3 DEF Kept, Found, Flow, Seen
  <1>4. CASE h = "close"
    BY <1>4 DEF Kept, Found
  <1>5. CASE h = "block"
    BY <1>0, <1>1, <1>5 DEF Kept, Found, Flow, Seen
  <1>6. CASE h = "privacy"
    BY <1>0, <1>1, <1>6 DEF Kept, Found, Flow, Seen
  <1>7. CASE h = "row"
    BY <1>0, <1>1, <1>7 DEF Kept, Found, Flow, Seen
  <1>8. CASE h = "follow"
    BY <1>0, <1>1, <1>8 DEF Kept, Found, Flow, Seen
  <1>9. CASE h = "friend"
    BY <1>0, <1>1, <1>9 DEF Kept, Found, Flow, R!ForFriends, R!Own
  <1>10. CASE h = "rows"
    <2>1. SUFFICES RowsKept'
      BY <1>10 DEF Kept
    <2>2. SUFFICES ASSUME item.author # Viewer
                   PROVE  /\ get.list \in {"feed", "rail", "lives"} => item.author \in could' \cup odd'
                          /\ get.list \in {"suggested", "explore", "addYours", "notes"} => item.author \in could' \cup shifts'
                          /\ get.list \in {"rail", "notes"} /\ item.only => item.author \in near'
                          /\ get.list # "comments" => ~item.draft
                          /\ get.list \in {"feed", "suggested", "explore", "tab", "kept"} => ~item.archived
                          /\ get.list \in {"rail", "byUser", "addYours", "notes"} => ~item.expired
      BY DEF RowsKept, Flow, Seen
    <2>3. Chosen
      BY <1>10 DEF Found
    <2>4. get.list \in {"feed", "rail", "lives"} => item.author \in could' \cup odd'
      BY <1>0, <1>1, <1>10, <2>2, <2>3 DEF Chosen, Kept, Flow
    <2>5. get.list \in {"suggested", "explore", "addYours", "notes"} => item.author \in could' \cup shifts'
      BY <1>0, <1>1, <1>10, <2>2, <2>3 DEF Chosen, Kept, Flow, Seen, R!Open, R!Own
    <2>6. get.list \in {"rail", "notes"} /\ item.only => item.author \in near'
      BY <1>10, <2>2, <2>3 DEF Chosen, Kept, Flow, R!ForFriends, R!Own
    <2>7. get.list # "comments" => ~item.draft
      BY <1>0, <2>2, <2>3 DEF Chosen, Shape, Lists, R!Published, R!Own
    <2>8. QED BY <2>2, <2>3, <2>4, <2>5, <2>6, <2>7 DEF Chosen, R!Published
  <1>11. CASE h \notin {"authors", "hidden", "close", "block", "privacy", "row", "follow", "rows", "friend"}
    BY <1>11 DEF Kept
  <1>12. QED BY <1>2, <1>3, <1>4, <1>5, <1>6, <1>7, <1>8, <1>9, <1>10, <1>11

LEMMA ReadStep ==
  ASSUME ReadingInv, R!Read, R!Look
  PROVE  ReadingInv'
  <1>0. PICK l, s, h : l = get.list /\ s = R!Reads[l] /\ h = Head(get.todo)
    OBVIOUS
  <1>1. R!TypeOK /\ Shape /\ Remembered /\ Stage /\ get \in R!Request /\ l \in Lists
    BY <1>0, ShapeIs DEF ReadingInv, R!TypeOK
  <1>2. /\ item' = item /\ follow' = follow /\ block' = block /\ close' = close /\ private' = private
        /\ shifts' = shifts
    BY DEF R!Read, R!graph
  <1>3. get.todo # <<>> /\ (R!Refuse \/ Answered)
    BY <1>1, ReadIs
  <1>4. /\ get' \in R!Request /\ get'.list = get.list /\ get'.target = get.target
        /\ R!Refuse => get'.todo = <<>> /\ get'.shown = get.shown
    <2>1. CASE R!Refuse
      <3>1. <<>> \in Seq(Steps)
        OBVIOUS
      <3>2. QED BY <1>1, <2>1, <3>1 DEF R!Refuse, R!Request, Steps
    <2>2. CASE Answered /\ ~R!Refuse
      BY <2>2 DEF Answered
    <2>3. QED BY <1>3, <2>1, <2>2
  <1>5. R!Asked' = R!Asked
    BY <1>2, <1>4 DEF R!Asked
  <1>6. follow \subseteq Thing /\ block \subseteq Thing /\ close \subseteq Thing /\ private \subseteq Thing
    BY <1>1 DEF R!TypeOK, R!GraphTypeOK
  <1>7. /\ Remembered'
        /\ could \subseteq could' /\ near \subseteq near' /\ odd \subseteq odd'
        /\ could' \subseteq Thing /\ near' \subseteq Thing /\ odd' \subseteq Thing
    BY <1>1, <1>2, <1>5, <1>6, LookRemembers
  <1>8. R!TypeOK'
    BY <1>1, <1>2, <1>4, <1>6, <1>7 DEF R!TypeOK, R!GraphTypeOK
  <1>9. Shape'
    BY <1>1, <1>2, <1>4 DEF Shape
  <1>10. Flow
    BY <1>2, <1>4, <1>7 DEF Flow
  <1>11. PICK n : ~get.shown /\ Suffix(n) /\ \A i \in 1..n : Kept(s[i])
    BY <1>0, <1>1, <1>3 DEF Stage
  <1>12. /\ s \in Seq(Steps) /\ Len(s) \in Nat \ {0} /\ n \in Nat /\ n < Len(s)
         /\ n + 1 \in 1..Len(s) /\ h = s[n + 1]
         /\ get.todo \in Seq(Steps) /\ Len(get.todo) = Len(s) - n
    <2>1. s \in Seq(Steps) /\ Len(s) \in Nat \ {0}
      BY <1>0, <1>1, Order
    <2>2. n \in Nat /\ n < Len(s) /\ Len(get.todo) = Len(s) - n
          /\ \A i \in 1..Len(get.todo) : get.todo[i] = s[n + i]
      BY <1>0, <1>11 DEF Suffix
    <2>3. get.todo \in Seq(Steps)
      BY <1>1 DEF R!Request, Steps
    <2>4. h = get.todo[1]
      BY <1>0, <1>3, <2>3
    <2>5. QED BY <2>1, <2>2, <2>3, <2>4
  <1>13. \A x : Earlier(l, n + 1, x) => Kept(x)
    BY <1>0, <1>11, <1>12 DEF Earlier
  <1>14. /\ h \in {"authors", "row"} => n = 0
         /\ h = "row" => l = "live"
         /\ h = "privacy" => l # "live" /\ Kept("block")
         /\ h = "block" /\ l = "live" => Kept("row")
         /\ h = "follow" => Kept("block") /\ (l # "live" => Kept("privacy"))
         /\ h = "hidden" /\ l = "notes" => Kept("authors")
         /\ h = "rows" => /\ l \in {"feed", "rail"} => Kept("authors")
                          /\ l \in {"suggested", "explore", "addYours", "notes"} => Kept("hidden")
                          /\ l \in {"rail", "notes"} => Kept("close")
    <2>1. /\ R!Reads[l][n + 1] = h /\ n + 1 \in 1..Len(R!Reads[l])
      BY <1>0, <1>12
    <2>2. /\ h \in {"authors", "row"} => n + 1 = 1
          /\ h = "row" => l = "live"
          /\ h = "privacy" => l # "live" /\ Earlier(l, n + 1, "block")
          /\ h = "block" /\ l = "live" => Earlier(l, n + 1, "row")
          /\ h = "follow" => Earlier(l, n + 1, "block") /\ (l # "live" => Earlier(l, n + 1, "privacy"))
          /\ h = "hidden" /\ l = "notes" => Earlier(l, n + 1, "authors")
          /\ h = "rows" =>
               /\ l \in {"feed", "rail"} => Earlier(l, n + 1, "authors")
               /\ l \in {"suggested", "explore", "addYours", "notes"} => Earlier(l, n + 1, "hidden")
               /\ l \in {"rail", "notes"} => Earlier(l, n + 1, "close")
      BY <1>1, <2>1, Order
    <2>3. QED BY <1>12, <1>13, <2>2
  <1>15. close \subseteq near'
    BY <1>1, <1>7 DEF Remembered
  <1>16. CASE R!Refuse
    BY <1>4, <1>7, <1>8, <1>9, <1>11, <1>16 DEF ReadingInv, Stage
  <1>17. CASE Answered
    <2>1. Found(h) /\ get'.todo = Tail(get.todo) /\ get'.shown = (Len(get.todo) = 1)
      BY <1>0, <1>17 DEF Answered
    <2>2. Kept(h)'
      BY <1>0, <1>1, <1>2, <1>10, <1>14, <1>15, <2>1, HeadKept
    <2>3. ASSUME NEW i \in 1..n PROVE Kept(s[i])'
      <3>1. Kept(s[i]) /\ i \in 1..Len(s) /\ i # n + 1 /\ n > 0
        BY <1>11, <1>12
      <3>2. s[i] # h
        BY <1>0, <1>1, <1>12, <3>1, Order
      <3>3. s[i] = "row" => l = "live"
        BY <1>0, <1>1, <3>1, Order
      <3>4. s[i] = "privacy" => l # "live"
        BY <1>0, <1>1, <3>1, Order
      <3>0. PICK x : x = s[i]
        OBVIOUS
      <3>5. x \in {"authors", "hidden"} => get'.authors = get.authors
        BY <3>0, <1>14, <2>1, <3>1 DEF Found
      <3>6. x = "hidden" => get'.hidden = get.hidden
        BY <3>0, <2>1, <3>2 DEF Found
      <3>7. x = "close" => get'.friends \subseteq near'
        BY <3>0, <1>7, <2>1, <3>1, <3>2 DEF Found, Kept
      <3>8. x \in {"privacy", "row"} \/ (x = "block" /\ get.list = "live") => get'.closed = get.closed
        BY <1>0, <3>0, <1>14, <2>1, <3>1, <3>2, <3>3, <3>4 DEF Found
      <3>9. Kept(x)'
        BY <1>1, <1>10, <3>1, <3>5, <3>6, <3>7, <3>8, FlowKeeps, <3>0
      <3>10. QED BY <3>0, <3>9
    <2>4. \A i \in 1..n + 1 : Kept(s[i])'
      <3>1. ASSUME NEW i \in 1..n + 1 PROVE Kept(s[i])'
        <4>1. i \in 1..n \/ i = n + 1
          BY <1>12
        <4>2. CASE i \in 1..n
          BY <2>3, <4>2
        <4>3. CASE i = n + 1
          BY <1>12, <2>2, <4>3
        <4>4. QED BY <4>1, <4>2, <4>3
      <3>2. QED BY <3>1
    <2>5. R!Reads[get'.list] = s
      BY <1>0, <1>4
    <2>6. \A i \in 1..n + 1 : Kept(R!Reads[get.list][i])'
      BY <2>4, <2>5
    <2>7. /\ Len(get.todo) \in Nat \ {0} /\ Len(get'.todo) = Len(get.todo) - 1
          /\ \A i \in 1..Len(get'.todo) : get'.todo[i] = get.todo[i + 1]
          /\ get'.todo \in Seq(Steps)
      BY <1>3, <1>12, <2>1, HeadTailProperties
    <2>8. Stage'
      <3>1. CASE Len(get.todo) = 1
        <4>1. get'.todo = <<>> /\ n + 1 = Len(s)
          BY <1>12, <2>7, <3>1, EmptySeq
        <4>2. \A i \in 1..Len(s) : Kept(R!Reads[get.list][i])'
          BY <2>6, <4>1
        <4>3. QED BY <2>5, <4>1, <4>2 DEF Stage
      <3>2. CASE Len(get.todo) # 1
        <4>1. ~get'.shown
          BY <2>1, <3>2
        <4>2. Suffix(n + 1)'
          <5>1. Len(get.todo) = Len(s) - n /\ \A i \in 1..Len(get.todo) : get.todo[i] = s[n + i]
            BY <1>0, <1>11 DEF Suffix
          <5>2. n + 1 \in Nat /\ n + 1 < Len(s) /\ Len(get'.todo) = Len(s) - (n + 1)
            BY <1>12, <2>7, <3>2, <5>1
          <5>3. \A i \in 1..Len(get'.todo) : get'.todo[i] = s[n + 1 + i]
            BY <1>12, <2>7, <5>1
          <5>4. QED BY <2>5, <5>2, <5>3 DEF Suffix
        <4>3. QED BY <2>6, <4>1, <4>2 DEF Stage
      <3>3. QED BY <3>1, <3>2
    <2>9. QED BY <1>7, <1>8, <1>9, <2>8 DEF ReadingInv
  <1>18. QED BY <1>3, <1>16, <1>17

LEMMA ReadingNext == ReadingInv /\ [R!Next]_rvars => ReadingInv'
  <1> SUFFICES ASSUME ReadingInv, [R!Next]_rvars PROVE ReadingInv'
    OBVIOUS
  <1>1. CASE R!Next
    BY <1>1, ReadStep, GraphStep, ItemStep DEF R!Next
  <1>2. CASE UNCHANGED rvars
    <2>1. /\ get' = get /\ item' = item /\ follow' = follow /\ block' = block /\ close' = close /\ private' = private
          /\ could' = could /\ near' = near /\ odd' = odd /\ shifts' = shifts
      BY <1>2 DEF rvars
    <2>2. R!TypeOK' /\ Shape' /\ Remembered'
      BY <2>1 DEF ReadingInv, R!TypeOK, R!GraphTypeOK, Shape, Remembered, R!Asked, R!CanView
    <2>3. Flow
      BY <2>1 DEF Flow
    <2>4. QED BY <2>1, <2>2, <2>3, ChangeKeepsStage DEF ReadingInv
  <1>3. QED BY <1>1, <1>2

\* Whatever list or page is asked for, and however the graph and the item change between its reads:
\* what is handed out could be seen, was for close friends only if the viewer was one, and has not
\* been withdrawn before, with the exceptions AudienceIsKept and WithdrawnIsGone name.
THEOREM ContentIsGuardedForAll == Spec => []ContentIsGuarded
  <1>1. Init => ReadingInv
    BY ReadingInit
  <1>2. ReadingInv /\ [Next]_vars => ReadingInv'
    BY PartStep, ReadingNext
  <1>3. ReadingInv => ContentIsGuarded
    BY GuardedContent
  <1>4. QED BY <1>1, <1>2, <1>3, PTL DEF Spec
==============================================================================
