----------------------------- MODULE Messaging -----------------------------
(***************************************************************************)
(* The two users of a pair write to each other: ChatService and            *)
(* ChatUtilService.  A pair should have one direct chat and, each way, one *)
(* request to write; messages are edited, deleted, read, opened once or    *)
(* vanish.  Every handler checks in one awaited call what it relies on in  *)
(* a later one.  Blocks, follows and settings (AccessService,              *)
(* SettingsService.canMessage) may change at any moment: every question to *)
(* them is answered either way.                                            *)
(***************************************************************************)
EXTENDS FiniteSets, Naturals

CONSTANTS User,
          Chat,    \* ids of Chat rows
          Message, \* ids of Message rows
          Req,     \* requests; each one is handled once
          None

VARIABLES chat,    \* the Chat rows with their ChatParticipants
          ask,     \* the MessageRequest each user has sent
          msg,     \* the Message rows
          read,    \* the MessageRead rows
          req,     \* the state of every request
          twin,    \* history: chats created on a search that no longer held
          over,    \* history: messages and requests written on a row read before another write
          shown    \* history: how often the medium of a view-once message was handed out, by
                   \* openViewOnce and by the events of sending and editing

rows == <<chat, ask, msg, read>>
history == <<twin, over, shown>>
vars == <<chat, ask, msg, read, req, twin, over, shown>>

Peer(u) == CHOOSE v \in User : v # u

ChatRow == [status : {"absent", "there", "gone"}, parts : SUBSET User, vanish : BOOLEAN]

NoChat == [status |-> "absent", parts |-> {}, vanish |-> FALSE]

MessageRow == [chat : Chat \cup {None}, sender : User \cup {None}, text : BOOLEAN, vanishing : BOOLEAN,
               once : BOOLEAN, opened : BOOLEAN, isDeleted : BOOLEAN, exists : BOOLEAN]

NoMessage == [chat |-> None, sender |-> None, text |-> FALSE, vanishing |-> FALSE,
              once |-> FALSE, opened |-> FALSE, isDeleted |-> FALSE, exists |-> FALSE]

RequestRow == [status : {"none", "PENDING", "ACCEPTED", "DECLINED"}, chat : Chat \cup {None}]

\* user is who asks, chat and msgs what was loaded, vanish the mode the chat was in;
\* stale (history): a row this handler has read was written by another one since.
Request == [at : {"start", "find", "again", "create", "free", "asked", "ask", "blocked", "send",
                  "tell", "edit", "delete", "unread", "reads", "vanish", "close", "load", "open",
                  "leave", "count", "empty", "accept", "decline", "end"},
            op : {"none", "createOrGet", "share"},
            user : User \cup {None}, chat : Chat \cup {None}, msgs : SUBSET Message,
            vanish : BOOLEAN, stale : BOOLEAN]

Idle == [at |-> "start", op |-> "none", user |-> None, chat |-> None, msgs |-> {},
         vanish |-> FALSE, stale |-> FALSE]

TypeOK ==
  /\ chat \in [Chat -> ChatRow] /\ ask \in [User -> RequestRow]
  /\ msg \in [Message -> MessageRow] /\ read \subseteq Message \X User
  /\ req \in [Req -> Request]
  /\ twin \subseteq Chat /\ over \subseteq Message \cup User
  /\ shown \in [Message -> [open : Nat, event : Nat]]

Exists(m) == msg[m].exists

\* The direct chats of the two.
Direct == {c \in Chat : chat[c].parts = User}

\* loadChat: a chat the user is in, with the other one.
MayLoad(u, c) == u \in chat[c].parts /\ Peer(u) \in chat[c].parts

NoRequests == [u \in User |-> [status |-> "none", chat |-> None]]

\* The two have one chat, c, in this mode.
OnlyChat(c, mode) == chat = [d \in Chat |-> IF d = c THEN [status |-> "there", parts |-> User, vanish |-> mode]
                                           ELSE NoChat]

\* No chat yet; or one, with a message of some kind in it or with an accepted request.
Init ==
  /\ \/ /\ chat = [c \in Chat |-> NoChat]
        /\ msg = [m \in Message |-> NoMessage]
        /\ ask = NoRequests
     \/ \E c \in Chat, m \in Message, u \in User, once, vanishing \in BOOLEAN :
          /\ OnlyChat(c, vanishing)
          /\ msg = [n \in Message |-> IF n = m
                      THEN [NoMessage EXCEPT !.chat = c, !.sender = u, !.text = TRUE,
                              !.vanishing = vanishing, !.once = once, !.exists = TRUE]
                      ELSE NoMessage]
          /\ ask = NoRequests
     \/ \E c \in Chat, u \in User :
          /\ OnlyChat(c, FALSE)
          /\ msg = [m \in Message |-> NoMessage]
          /\ ask = [NoRequests EXCEPT ![u] = [status |-> "ACCEPTED", chat |-> c]]
  /\ read = {}
  /\ req = [r \in Req |-> Idle]
  /\ twin = {} /\ over = {} /\ shown = [m \in Message |-> [open |-> 0, event |-> 0]]

-----------------------------------------------------------------------------
At(r, l) == req[r].at = l

Become(r, x) == req' = [req EXCEPT ![r] = x]

Goto(r, l) == Become(r, [req[r] EXCEPT !.at = l])

Ask(l, u, c, S) == [Idle EXCEPT !.at = l, !.user = u, !.chat = c, !.msgs = S]

Answered(r) == [req[r] EXCEPT !.at = "end"]

\* r becomes x; the handlers in others now hold a row that has changed.
Overtake(r, x, others) ==
  req' = [q \in Req |-> IF q = r THEN x
                        ELSE IF q \in others THEN [req[q] EXCEPT !.stale = TRUE] ELSE req[q]]

\* Handlers at one of these places that hold message m.
Holding(m, places) == {q \in Req : req[q].at \in places /\ m \in req[q].msgs}

\* Handlers at one of these places about the request that user u has sent.
Deciding(u, places) == {q \in Req : req[q].at \in places /\ req[q].user = u}

-----------------------------------------------------------------------------
\* createOrGet, when nobody has blocked...
CreateOrGet(r) ==
  /\ At(r, "start")
  /\ \E u \in User : Become(r, [Ask("find", u, None, {}) EXCEPT !.op = "createOrGet"])
  /\ UNCHANGED <<rows, history>>

\* ... a chat of the two is looked for...
FindChat(r) ==
  /\ At(r, "find")
  /\ IF Direct = {} THEN Goto(r, "again")
                    ELSE \E c \in Direct : Become(r, [req[r] EXCEPT !.at = "free", !.chat = c])
  /\ UNCHANGED <<rows, history>>

\* A post is shared, a story or a note answered: findOrCreateDirectChat, then a message.
ShareElsewhere(r) ==
  /\ At(r, "start")
  /\ \E u \in User : Become(r, [Ask("again", u, None, {}) EXCEPT !.op = "share"])
  /\ UNCHANGED <<rows, history>>

\* What follows once there is a chat.
Found(r) == IF req[r].op = "share" THEN "send" ELSE "free"

\* Mutant: findOrCreateDirectChat does not look for a chat.
FindNever(r) ==
  /\ At(r, "again")
  /\ Goto(r, "create")
  /\ UNCHANGED <<rows, history>>

\* findOrCreateDirectChat: again...
FindAgain(r) ==
  /\ At(r, "again")
  /\ IF Direct = {} THEN Goto(r, "create")
                    ELSE \E c \in Direct : Become(r, [req[r] EXCEPT !.at = Found(r), !.chat = c])
  /\ UNCHANGED <<rows, history>>

\* ... and created.  No index forbids a second one.
CreateChat(r) ==
  /\ At(r, "create")
  /\ \E c \in Chat :
       /\ chat[c].status = "absent"
       /\ chat' = [chat EXCEPT ![c] = [status |-> "there", parts |-> User, vanish |-> FALSE]]
       /\ twin' = IF req[r].stale THEN twin \cup {c} ELSE twin \ {c}
       /\ Overtake(r, [req[r] EXCEPT !.at = Found(r), !.chat = c, !.stale = FALSE],
                   {q \in Req : At(q, "create")})
  /\ UNCHANGED <<ask, msg, read, over, shown>>

\* createOrGet: whoever may write freely needs no request...
MayWriteFreely(r) ==
  /\ At(r, "free")
  /\ \E free \in BOOLEAN : Goto(r, IF free THEN "end" ELSE "asked")
  /\ UNCHANGED <<rows, history>>

\* ... nor does one whose request was accepted...
AskedBefore(r) ==
  /\ At(r, "asked")
  /\ Goto(r, IF ask[req[r].user].status = "ACCEPTED" THEN "end" ELSE "ask")
  /\ UNCHANGED <<rows, history>>

\* ... and a request is made, or made PENDING again: then it keeps the chat it had.
UpsertRequest(r) ==
  LET u == req[r].user
  IN  /\ At(r, "ask")
      /\ IF ask[u].status # "none"
         THEN /\ ask' = [ask EXCEPT ![u].status = "PENDING"]
              /\ over' = IF req[r].stale THEN over \cup {u} ELSE over
         ELSE /\ ask' = IF chat[req[r].chat].status = "there"
                        THEN [ask EXCEPT ![u] = [status |-> "PENDING", chat |-> req[r].chat]]
                        ELSE ask
              /\ UNCHANGED over
      /\ Become(r, Answered(r))
      /\ UNCHANGED <<chat, msg, read, twin, shown>>

\* Mutant: one that is decided may be decided again.
OwnRequestAny(r) ==
  /\ At(r, "start")
  /\ \E u \in User, l \in {"accept", "decline"} :
       ask[u].status # "none" /\ Become(r, Ask(l, u, None, {}))
  /\ UNCHANGED <<rows, history>>

\* acceptRequest and declineRequest: a pending one to the user...
OwnRequest(r) ==
  /\ At(r, "start")
  /\ \E u \in User, l \in {"accept", "decline"} :
       ask[u].status = "PENDING" /\ Become(r, Ask(l, u, None, {}))
  /\ UNCHANGED <<rows, history>>

\* ... is updated by its id; it may be gone with its chat.
Decide(r, l, status) ==
  LET u == req[r].user
  IN  /\ At(r, l)
      /\ IF ask[u].status = "none"
         THEN Become(r, Answered(r)) /\ UNCHANGED <<ask, over>>
         ELSE /\ ask' = [ask EXCEPT ![u].status = status]
              /\ over' = IF req[r].stale THEN over \cup {u} ELSE over
              /\ Overtake(r, Answered(r), Deciding(u, {"accept", "decline", "ask"}))
      /\ UNCHANGED <<chat, msg, read, twin, shown>>

Accept(r) == Decide(r, "accept", "ACCEPTED")

Decline(r) == Decide(r, "decline", "DECLINED")

-----------------------------------------------------------------------------
\* sendMessage: the chat is loaded, with its mode...
LoadToSend(r) ==
  /\ At(r, "start")
  /\ \E u \in User, c \in Chat :
       MayLoad(u, c) /\ Become(r, [Ask("blocked", u, c, {}) EXCEPT !.vanish = chat[c].vanish])
  /\ UNCHANGED <<rows, history>>

\* ... nobody has blocked...
AssertNotBlocked(r) ==
  /\ At(r, "blocked")
  /\ \E blocked \in BOOLEAN : Goto(r, IF blocked THEN "end" ELSE "send")
  /\ UNCHANGED <<rows, history>>

\* ... and the message is there, unless the chat is not.  Only a message sent in the chat
\* itself vanishes or can be opened once.
CreateMessage(r) ==
  LET c == req[r].chat
  IN  /\ At(r, "send")
      /\ IF chat[c].status = "there"
         THEN \E m \in Message, once \in BOOLEAN :
                /\ msg[m] = NoMessage
                /\ req[r].op = "share" => ~once
                /\ msg' = [msg EXCEPT ![m] = [NoMessage EXCEPT !.chat = c, !.sender = req[r].user,
                             !.text = TRUE, !.vanishing = req[r].vanish, !.once = once, !.exists = TRUE]]
                /\ Become(r, IF once THEN [req[r] EXCEPT !.at = "tell", !.msgs = {m}] ELSE Answered(r))
         ELSE Become(r, Answered(r)) /\ UNCHANGED msg
      /\ UNCHANGED <<chat, ask, read, history>>

\* sendMessage and editMessage: the message as its sender sees it, the medium of a view-once
\* one included, is emitted to whoever else is in the chat.  (Other messages go out too: nothing
\* is said of them.)
Emit(r) ==
  /\ At(r, "tell")
  /\ shown' = IF Peer(req[r].user) \in chat[req[r].chat].parts
              THEN [m \in Message |-> IF m \in req[r].msgs THEN [shown[m] EXCEPT !.event = @ + 1] ELSE shown[m]]
              ELSE shown
  /\ Become(r, Answered(r))
  /\ UNCHANGED <<rows, twin, over>>

\* editMessage, deleteMessage and bulkDelete: an own message that is not deleted...
OwnMessage(r) ==
  /\ At(r, "start")
  /\ \E m \in Message, l \in {"edit", "delete"} :
       /\ Exists(m) /\ ~msg[m].isDeleted
       /\ Become(r, Ask(l, msg[m].sender, msg[m].chat, {m}))
  /\ UNCHANGED <<rows, history>>

\* ... gets its text, if it is still there...
Edit(r) ==
  /\ At(r, "edit")
  /\ \E m \in req[r].msgs :
       IF Exists(m)
       THEN /\ msg' = [msg EXCEPT ![m].text = TRUE]
            /\ over' = IF req[r].stale THEN over \cup {m} ELSE over
            /\ Goto(r, IF msg[m].once /\ ~msg[m].isDeleted THEN "tell" ELSE "end")
       ELSE Become(r, Answered(r)) /\ UNCHANGED <<msg, over>>
  /\ UNCHANGED <<chat, ask, read, twin, shown>>

\* Mutant: the text is kept.
DeleteSoftly(r) ==
  /\ At(r, "delete")
  /\ \E m \in req[r].msgs :
       /\ msg' = IF Exists(m) THEN [msg EXCEPT ![m].isDeleted = TRUE] ELSE msg
       /\ Overtake(r, Answered(r), Holding(m, {"edit"}))
  /\ UNCHANGED <<chat, ask, read, history>>

\* ... or loses it and is marked.
Delete(r) ==
  /\ At(r, "delete")
  /\ \E m \in req[r].msgs :
       /\ msg' = IF Exists(m) THEN [msg EXCEPT ![m].isDeleted = TRUE, ![m].text = FALSE] ELSE msg
       /\ Overtake(r, Answered(r), Holding(m, {"edit"}))
  /\ UNCHANGED <<chat, ask, read, history>>

\* markRead: the chat is loaded and the time of reading set...
LoadToRead(r) ==
  /\ At(r, "start")
  /\ \E u \in User, c \in Chat : MayLoad(u, c) /\ Become(r, Ask("unread", u, c, {}))
  /\ UNCHANGED <<rows, history>>

Of(c) == {m \in Message : Exists(m) /\ msg[m].chat = c}

\* ... the other's messages without a MessageRead are found...
FindUnread(r) ==
  LET u == req[r].user
  IN  /\ At(r, "unread")
      /\ Become(r, [req[r] EXCEPT !.at = "reads",
                      !.msgs = {m \in Of(req[r].chat) : msg[m].sender # u /\ <<m, u>> \notin read}])
      /\ UNCHANGED <<rows, history>>

\* ... and get one, all of them or, when one is gone, none.
CreateReads(r) ==
  /\ At(r, "reads")
  /\ read' = IF \A m \in req[r].msgs : Exists(m)
             THEN read \cup (req[r].msgs \X {req[r].user}) ELSE read
  /\ Become(r, Answered(r))
  /\ UNCHANGED <<chat, ask, msg, history>>

\* setVanishMode: messages sent before keep their kind.
SetVanishMode(r) ==
  /\ At(r, "start")
  /\ \E u \in User, c \in Chat, on \in BOOLEAN :
       MayLoad(u, c) /\ chat' = [chat EXCEPT ![c].vanish = on]
  /\ Become(r, Answered(r))
  /\ UNCHANGED <<ask, msg, read, history>>

\* Mutant: all messages of the chat that vanish.
SeenOrNot(u, c) == {m \in Of(c) : msg[m].vanishing}

\* The vanishing messages the user has seen: sent or read.
Seen(u, c) == {m \in Of(c) : msg[m].vanishing /\ (msg[m].sender = u \/ <<m, u>> \in read)}

\* closeChat: they are found...
FindSeen(r) ==
  /\ At(r, "start")
  /\ \E u \in User, c \in Chat : MayLoad(u, c) /\ Become(r, Ask("close", u, c, Seen(u, c)))
  /\ UNCHANGED <<rows, history>>

\* Removing messages takes what hangs on them along.
Remove(S) ==
  /\ msg' = [m \in Message |-> IF m \in S THEN [msg[m] EXCEPT !.exists = FALSE] ELSE msg[m]]
  /\ read' = {x \in read : x[1] \notin S}

\* ... and deleted for good.
CloseChat(r) ==
  /\ At(r, "close")
  /\ Remove(req[r].msgs)
  /\ Become(r, Answered(r))
  /\ UNCHANGED <<chat, ask, history>>

\* openViewOnce: a message of the other's that was not opened...
ReadOnce(r) ==
  /\ At(r, "start")
  /\ \E m \in Message :
       /\ Exists(m) /\ msg[m].once /\ ~msg[m].opened
       /\ Become(r, Ask("load", Peer(msg[m].sender), msg[m].chat, {m}))
  /\ UNCHANGED <<rows, history>>

\* ... in a chat the user is in...
LoadToOpen(r) ==
  /\ At(r, "load")
  /\ Goto(r, IF MayLoad(req[r].user, req[r].chat) THEN "open" ELSE "end")
  /\ UNCHANGED <<rows, history>>

\* ... is marked as opened, by its id, and handed out with what medium it still has.
OpenOnce(r) ==
  /\ At(r, "open")
  /\ \E m \in req[r].msgs :
       IF Exists(m)
       THEN /\ msg' = [msg EXCEPT ![m].opened = TRUE]
            /\ shown' = [shown EXCEPT ![m].open = IF msg[m].isDeleted THEN @ ELSE @ + 1]
            /\ over' = IF req[r].stale THEN over \cup {m} ELSE over
            /\ Overtake(r, Answered(r), Holding(m, {"load", "open"}))
       ELSE Become(r, Answered(r)) /\ UNCHANGED <<msg, shown, over>>
  /\ UNCHANGED <<chat, ask, read, twin>>

\* deleteChat: the user leaves...
LeaveChat(r) ==
  /\ At(r, "start")
  /\ \E u \in User, c \in Chat : MayLoad(u, c) /\ Become(r, Ask("leave", u, c, {}))
  /\ UNCHANGED <<rows, history>>

\* ... if nobody else has made them leave...
DeleteParticipant(r) ==
  LET c == req[r].chat
  IN  /\ At(r, "leave")
      /\ IF req[r].user \in chat[c].parts
         THEN chat' = [chat EXCEPT ![c].parts = @ \ {req[r].user}] /\ Goto(r, "count")
         ELSE Become(r, Answered(r)) /\ UNCHANGED chat
      /\ UNCHANGED <<ask, msg, read, history>>

\* ... and the last one...
CountLeft(r) ==
  /\ At(r, "count")
  /\ Goto(r, IF chat[req[r].chat].parts = {} THEN "empty" ELSE "end")
  /\ UNCHANGED <<rows, history>>

\* ... takes along the chat, its messages and its requests.
DeleteChat(r) ==
  LET c == req[r].chat
  IN  /\ At(r, "empty")
      /\ chat' = [chat EXCEPT ![c] = [NoChat EXCEPT !.status = "gone"]]
      /\ Remove(Of(c))
      /\ ask' = [u \in User |-> IF ask[u].chat = c THEN [status |-> "none", chat |-> None] ELSE ask[u]]
      /\ Become(r, Answered(r))
      /\ UNCHANGED history

\* An awaited call rejects, or the process dies.
Fail(r) ==
  /\ ~At(r, "start") /\ ~At(r, "end")
  /\ Become(r, Answered(r))
  /\ UNCHANGED <<rows, history>>

\* What the controller offers.
ChatSteps(r) ==
  \/ CreateOrGet(r) \/ FindChat(r) \/ ShareElsewhere(r) \/ FindAgain(r) \/ CreateChat(r)
  \/ MayWriteFreely(r) \/ AskedBefore(r) \/ UpsertRequest(r)

RequestSteps(r) == OwnRequest(r) \/ Accept(r) \/ Decline(r)

LeaveSteps(r) == LeaveChat(r) \/ DeleteParticipant(r) \/ CountLeft(r) \/ DeleteChat(r)

MessageSteps(r) ==
  LoadToSend(r) \/ AssertNotBlocked(r) \/ CreateMessage(r) \/ Emit(r)
  \/ LoadToRead(r) \/ FindUnread(r) \/ CreateReads(r)

OwnMessageSteps(r) == OwnMessage(r) \/ Edit(r) \/ Delete(r)

VanishSteps(r) ==
  SetVanishMode(r) \/ FindSeen(r) \/ CloseChat(r) \/ ReadOnce(r) \/ LoadToOpen(r) \/ OpenOnce(r)

Next ==
  \E r \in Req :
    \/ ChatSteps(r) \/ RequestSteps(r) \/ LeaveSteps(r)
    \/ MessageSteps(r) \/ OwnMessageSteps(r) \/ VanishSteps(r)
    \/ Fail(r)

Spec == Init /\ [][Next]_vars

-----------------------------------------------------------------------------
\* createOrGet, findOrCreateDirectChat: a pair has one chat, but for chats created after
\* another handler had created one on the same search.
PairsHaveOneChat == \A c, d \in Direct : c # d => c \in twin \/ d \in twin

\* acceptRequest, declineRequest, createOrGet: a request that was accepted or declined stays
\* so until its sender asks again; and an accepted one is only undone by a handler that had
\* read it before it was accepted, or with its chat.
DecisionsStand ==
  [][\A u \in User :
       /\ ask[u].status = "ACCEPTED" /\ ask'[u].status \notin {"ACCEPTED", "none"} =>
            \E r \in Req : req[r].stale /\ req'[r].at # req[r].at /\ req[r].user = u
       /\ ask[u].status = "DECLINED" /\ ask'[u].status = "ACCEPTED" =>
            \E r \in Req : req[r].stale /\ At(r, "accept") /\ req[r].user = u]_vars

\* editMessage, deleteMessage, openViewOnce: a deleted message has no text, and openViewOnce hands
\* out a medium to be seen once only once, and then it is marked, unless a handler that had read
\* the message before another one wrote it is to blame.  It is not the only one to hand it out:
\* the events of sendMessage and editMessage do, whether or not it was opened (see ShownOnce).
MessagesKeepTheirWord ==
  \A m \in Message :
    m \notin over =>
      /\ msg[m].isDeleted => ~msg[m].text
      /\ shown[m].open <= 1 /\ (shown[m].open = 1 => msg[m].opened)

\* toMessage (chat.service.ts:1282-1284): the medium of a view-once message goes to the other one
\* a single time, from openViewOnce.
ShownOnce == \A m \in Message : m \notin over => shown[m].open + shown[m].event <= 1

\* closeChat, deleteChat: a message disappears only when it vanishes and was sent or read by
\* the one who closes the chat, or with a chat that nobody is in.
MessagesStay ==
  [][\A m \in Message :
       Exists(m) /\ ~Exists(m)' =>
         \/ chat[msg[m].chat].parts = {}
         \/ /\ msg[m].vanishing
            /\ \E r \in Req : /\ At(r, "close") /\ req'[r].at # req[r].at
                              /\ req[r].user = msg[m].sender \/ <<m, req[r].user>> \in read]_vars
=============================================================================
