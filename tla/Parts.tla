-------------------------------- MODULE Parts --------------------------------
(***************************************************************************)
(* Components that share no state, side by side: one of them takes its     *)
(* steps while the others rest in one of their initial states.             *)
(***************************************************************************)
EXTENDS Naturals, Sequences, FiniteSets

CONSTANTS
  Person, Message, Req,                 \* Messaging
  Viewer,                               \* Reading
  Handler, MaxRows, Window, Limit,      \* Notifications
  Entry, Call, MaxPins,                 \* Notes and Threads
  Thing,                                \* the chats, the other users, the keys
  None

ASSUME TwoUsers == Cardinality(Person) = 2
ASSUME ViewerIsApart == Viewer \notin Thing
ASSUME NothingElse == None \notin Person \cup Message \cup Entry \cup Call \cup Thing \cup {Viewer}
ASSUME SizesArePositive == {MaxRows, Window, Limit} \subseteq Nat \ {0}
ASSUME RowsAreFinite == IsFiniteSet(Entry) /\ MaxPins \in Nat

VARIABLES
  part,
  chat, ask, msg, read, req, twin, over, shown,
  follow, block, close, private, item, get, could, near, odd, shifts,
  row, hand, badge, stale, page,
  kind, note, message, sent, reply, call, twice,
  comment, talk, crowded

M == INSTANCE Messaging WITH Chat <- Thing, User <- Person
R == INSTANCE Reading WITH Other <- Thing
N == INSTANCE Notifications WITH Key <- Thing
O == INSTANCE Notes WITH Note <- Entry, Req <- Call, req <- call
T == INSTANCE Threads WITH Comment <- Entry, Req <- Call, req <- talk

mvars == <<chat, ask, msg, read, req, twin, over, shown>>
rvars == <<follow, block, close, private, item, get, could, near, odd, shifts>>
nvars == <<row, hand, badge, stale, page>>
ovars == <<kind, note, message, sent, reply, call, twice>>
tvars == <<comment, talk, crowded>>
vars == <<part, chat, ask, msg, read, req, twin, over, shown,
          follow, block, close, private, item, get, could, near, odd, shifts,
          row, hand, badge, stale, page,
          kind, note, message, sent, reply, call, twice,
          comment, talk, crowded>>

\* A component at rest has nothing in it.
Init ==
  /\ part \in {"messaging", "reading", "notifications", "notes", "threads"}
  /\ M!Init /\ (part # "messaging" => chat = [c \in Thing |-> M!NoChat])
  /\ N!Init /\ (part # "notifications" => row = <<>>)
  /\ O!Init /\ (part # "notes" => kind = "note")
  /\ T!Init
  /\ R!Init /\ (part # "reading" => item.kind = "live" /\ item.author = Viewer /\ get.list = "lives")

Messages == part = "messaging" /\ M!Next /\ UNCHANGED <<rvars, nvars, ovars, tvars>>
Reads == part = "reading" /\ R!Next /\ UNCHANGED <<mvars, nvars, ovars, tvars>>
Notifies == part = "notifications" /\ N!Next /\ UNCHANGED <<mvars, rvars, ovars, tvars>>
Notices == part = "notes" /\ O!Next /\ UNCHANGED <<mvars, rvars, nvars, tvars>>
Talks == part = "threads" /\ T!Next /\ UNCHANGED <<mvars, rvars, nvars, ovars>>

Next == (Messages \/ Reads \/ Notifies \/ Notices \/ Talks) /\ UNCHANGED part

Spec == Init /\ [][Next]_vars

\* The properties of the components, each explained where it is defined.
PairsHaveOneChat == M!PairsHaveOneChat
MessagesKeepTheirWord == M!MessagesKeepTheirWord
ChatsAreKept == M!DecisionsStand /\ M!MessagesStay
ContentIsGuarded == R!AudienceIsKept /\ R!WithdrawnIsGone
NotificationsAgree == N!BadgeIsExplained /\ N!PagesMissOnlyEnclosed
NotesAgree == O!NotesAgree
ThreadsKeepShape == T!ThreadsKeepShape
==============================================================================
