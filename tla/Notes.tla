-------------------------------- MODULE Notes --------------------------------
(***************************************************************************)
(* The notes of one user, or his stories, and what others answer to them.  *)
(* A new note takes the place of the old ones by a deletion and a          *)
(* creation, expired ones go by the hour, and an answer becomes a message  *)
(* and a row of its own in two calls.                                      *)
(***************************************************************************)
EXTENDS Naturals, FiniteSets

CONSTANTS Note, \* ids of notes or stories, handed out once
          Req,  \* REST calls; each one is handled once, and its answer has its name
          None

VARIABLES kind,    \* "note" or "story"
          note,    \* the state of every note
          message, \* the note that the message of every answer points at
          sent,    \* the answers whose message is in the chat
          reply,   \* the answers with a reply row
          req,     \* the state of every request
          twice    \* history: two creations overlapped

vars == <<kind, note, message, sent, reply, req, twice>>

TypeOK ==
  /\ kind \in {"note", "story"}
  /\ note \in [Note -> {"absent", "live", "expired", "gone"}]
  /\ message \in [Req -> Note \cup {None}] /\ sent \subseteq Req /\ reply \subseteq Req
  /\ req \in [Req -> [at : {"start", "create", "send", "reply", "end", "failed"}, note : Note \cup {None}]]
  /\ twice \in BOOLEAN

Init ==
  /\ kind \in {"note", "story"}
  /\ note = [n \in Note |-> "absent"]
  /\ message = [r \in Req |-> None] /\ sent = {} /\ reply = {}
  /\ req = [r \in Req |-> [at |-> "start", note |-> None]]
  /\ twice = FALSE

-----------------------------------------------------------------------------
At(r, l) == req[r].at = l

Goto(r, l) == req' = [req EXCEPT ![r].at = l]

Exists(n) == note[n] \in {"live", "expired"}

\* The notes in S go; a message that points at one forgets it, a reply goes with it.
Drop(S) ==
  /\ note' = [n \in Note |-> IF n \in S /\ Exists(n) THEN "gone" ELSE note[n]]
  /\ message' = [r \in Req |-> IF message[r] \in S THEN None ELSE message[r]]
  /\ reply' = {r \in reply : req[r].note \notin S}

\* NotesService.create: the notes before go...
Clear(r) ==
  /\ kind = "note"
  /\ At(r, "start") /\ Goto(r, "create")
  /\ Drop(Note)
  /\ twice' = (twice \/ \E q \in Req \ {r} : At(q, "create"))
  /\ UNCHANGED <<kind, sent>>

\* ... and the new one comes.  A story comes besides those that are there.
Create(r) ==
  /\ At(r, IF kind = "note" THEN "create" ELSE "start") /\ Goto(r, "end")
  /\ \E n \in Note : note[n] = "absent" /\ note' = [note EXCEPT ![n] = "live"]
  /\ UNCHANGED <<kind, message, sent, reply, twice>>

\* remove.
Remove(r) ==
  /\ At(r, "start") /\ Goto(r, "end")
  /\ \E n \in Note : Exists(n) /\ Drop({n})
  /\ UNCHANGED <<kind, sent, twice>>

\* loadVisible: a note has not expired, a story need only be there.
Answerable(n) == IF kind = "note" THEN note[n] = "live" ELSE Exists(n)

\* reply and reaction, react: a note or story that is visible...
ReplyRead(r) ==
  /\ At(r, "start")
  /\ \E n \in Note : Answerable(n) /\ req' = [req EXCEPT ![r] = [at |-> "send", note |-> n]]
  /\ UNCHANGED <<kind, note, message, sent, reply, twice>>

\* ... its message, unless the note has gone...
Send(r) ==
  /\ At(r, "send")
  /\ IF Exists(req[r].note)
     THEN sent' = sent \cup {r} /\ message' = [message EXCEPT ![r] = req[r].note] /\ Goto(r, "reply")
     ELSE Goto(r, "end") /\ UNCHANGED <<message, sent>>
  /\ UNCHANGED <<kind, note, reply, twice>>

\* Mutant: the reply is only written for a note that has not expired.
ReplyFresh(r) ==
  /\ At(r, "reply") /\ Goto(r, "end")
  /\ reply' = IF note[req[r].note] = "live" THEN reply \cup {r} ELSE reply
  /\ UNCHANGED <<kind, note, message, sent, twice>>

\* ... and its reply, likewise.
Reply(r) ==
  /\ At(r, "reply") /\ Goto(r, "end")
  /\ reply' = IF Exists(req[r].note) THEN reply \cup {r} ELSE reply
  /\ UNCHANGED <<kind, note, message, sent, twice>>

\* An awaited call rejects, or the process dies.
Fail(r) ==
  /\ req[r].at \in {"create", "send", "reply"} /\ Goto(r, "failed")
  /\ UNCHANGED <<kind, note, message, sent, reply, twice>>

\* A day passes for a note or story.
Lapse ==
  /\ \E n \in Note : note[n] = "live" /\ note' = [note EXCEPT ![n] = "expired"]
  /\ UNCHANGED <<kind, message, sent, reply, req, twice>>

\* cleanupExpired, by the hour: all notes at once, stories (those not kept) one by one.
Cleanup ==
  /\ LET expired == {n \in Note : note[n] = "expired"}
     IN  \E n \in expired : Drop(IF kind = "note" THEN expired ELSE {n})
  /\ UNCHANGED <<kind, sent, req, twice>>

Next ==
  \/ \E r \in Req : Clear(r) \/ Create(r) \/ Remove(r) \/ ReplyRead(r) \/ Send(r) \/ Reply(r) \/ Fail(r)
  \/ Lapse \/ Cleanup

Spec == Init /\ [][Next]_vars

-----------------------------------------------------------------------------
\* create: a user has one note, unless a second creation had deleted before the first created.
OneNoteEach == kind = "note" /\ Cardinality({n \in Note : Exists(n)}) > 1 => twice

\* reply, react: however deletion, expiry and cleanup come in between, an answered message that
\* still points at its note or story is among the replies its author sees, but if the handler has
\* failed between the two, and every reply has its message.
AnswersAgree ==
  /\ reply \subseteq sent
  /\ \A r \in sent : message[r] # None /\ At(r, "end") => r \in reply

\* create, reply: one note at a time, and its answers in both places, with the exceptions above.
NotesAgree == OneNoteEach /\ AnswersAgree
==============================================================================
