------------------------------- MODULE Presence -------------------------------
(***************************************************************************)
(* Whether one user is online: the connect and disconnect handlers of      *)
(* RealtimeGateway and PresenceService.  The room of the user's sockets is *)
(* in memory, the key in Redis with a time to live, the row in Postgres,   *)
(* and what the others have been told on their screens; a handler changes  *)
(* them one call after the other, and handlers of several sockets overlap. *)
(***************************************************************************)
EXTENDS Naturals

CONSTANTS Socket, \* the user's sockets; each one connects once
          TTL     \* how long the key lives after a touch: two heartbeats

VARIABLES sock,   \* how far the connect handler of every socket is
          leave,  \* how far the disconnect handler is
          open,   \* the sockets that have not been closed
          room,   \* the sockets in the user's room
          key,    \* how long the key in Redis still lives
          isOnline, \* the row in Postgres
          told,   \* what presence:update has told the others last
          tangled \* history: handlers got in each other's way, or one broke off

vars == <<sock, leave, open, room, key, isOnline, told, tangled>>

TypeOK ==
  /\ sock \in [Socket -> {"new", "auth", "touch", "row", "tell", "done"}]
  /\ leave \in [Socket -> {"none", "del", "row", "tell", "done"}]
  /\ open \subseteq Socket /\ room \subseteq Socket
  /\ key \in 0..TTL /\ isOnline \in BOOLEAN /\ told \in BOOLEAN /\ tangled \in BOOLEAN

Init ==
  /\ sock = [s \in Socket |-> "new"] /\ leave = [s \in Socket |-> "none"]
  /\ open = {} /\ room = {}
  /\ key = 0 /\ isOnline = FALSE /\ told = FALSE /\ tangled = FALSE

Coming == \E s \in Socket : sock[s] \in {"touch", "row", "tell"}
Leaving == \E s \in Socket : leave[s] \in {"del", "row", "tell"}
Quiet == ~Coming /\ ~Leaving

\* A handler that begins when nothing is under way starts afresh.
Tangle == tangled' = \/ Coming' /\ (Leaving' \/ room' = {})
                     \/ tangled /\ ~(Quiet /\ ~Quiet')

-----------------------------------------------------------------------------
Connect(s) ==
  /\ sock[s] = "new"
  /\ sock' = [sock EXCEPT ![s] = "auth"] /\ open' = open \cup {s}
  /\ UNCHANGED <<leave, room, key, isOnline, told>>

\* handleConnection: nobody, and the socket is closed; if Redis rejects the ticket's burn, it
\* stays, without a user...
Refuse(s) ==
  /\ sock[s] = "auth"
  /\ sock' = [sock EXCEPT ![s] = "done"] /\ open' \in {open, open \ {s}}
  /\ UNCHANGED <<leave, room, key, isOnline, told>>

\* ... or the user; a socket that has been closed meanwhile joins no room.
Join(s) ==
  /\ sock[s] = "auth"
  /\ sock' = [sock EXCEPT ![s] = "touch"] /\ room' = room \cup ({s} \cap open)
  /\ UNCHANGED <<leave, open, key, isOnline, told>>

Touch(s) ==
  /\ sock[s] = "touch"
  /\ sock' = [sock EXCEPT ![s] = "row"] /\ key' = TTL
  /\ UNCHANGED <<leave, open, room, isOnline, told>>

\* The upsert's error is swallowed.
Upsert(s) ==
  /\ sock[s] = "row"
  /\ sock' = [sock EXCEPT ![s] = "tell"] /\ isOnline' \in {isOnline, TRUE}
  /\ UNCHANGED <<leave, open, room, key, told>>

Tell(s) ==
  /\ sock[s] = "tell"
  /\ sock' = [sock EXCEPT ![s] = "done"] /\ told' = TRUE
  /\ UNCHANGED <<leave, open, room, key, isOnline>>

\* Mutant: the other sockets of the user are not looked at.
CloseAnyway(s) ==
  /\ s \in open
  /\ open' = open \ {s} /\ room' = room \ {s}
  /\ leave' = IF s \in room THEN [leave EXCEPT ![s] = "del"] ELSE leave
  /\ UNCHANGED <<sock, key, isOnline, told>>

\* handleDisconnect: nothing for a socket without a user, or if others remain in the room.
Close(s) ==
  /\ s \in open
  /\ open' = open \ {s} /\ room' = room \ {s}
  /\ leave' = IF s \in room /\ room' = {} THEN [leave EXCEPT ![s] = "del"] ELSE leave
  /\ UNCHANGED <<sock, key, isOnline, told>>

\* goOffline: the key, the row...
DeleteKey(s) ==
  /\ leave[s] = "del"
  /\ leave' = [leave EXCEPT ![s] = "row"] /\ key' = 0
  /\ UNCHANGED <<sock, open, room, isOnline, told>>

GoOffline(s) ==
  /\ leave[s] = "row"
  /\ leave' = [leave EXCEPT ![s] = "tell"] /\ isOnline' = FALSE
  /\ UNCHANGED <<sock, open, room, key, told>>

\* ... and the others.
TellOff(s) ==
  /\ leave[s] = "tell"
  /\ leave' = [leave EXCEPT ![s] = "done"] /\ told' = FALSE
  /\ UNCHANGED <<sock, open, room, key, isOnline>>

\* Mutant: a heartbeat prolongs a key that is there.
HeartbeatProlongs(s) ==
  /\ s \in room /\ key > 0
  /\ key' = TTL
  /\ UNCHANGED <<sock, leave, open, room, isOnline, told>>

Heartbeat(s) ==
  /\ s \in room
  /\ key' = TTL
  /\ UNCHANGED <<sock, leave, open, room, isOnline, told>>

\* An awaited call of a handler rejects, and nobody catches it: the rest is not done.
Fail(s) ==
  /\ \/ /\ sock[s] \in {"touch", "tell"} /\ sock' = [sock EXCEPT ![s] = "done"]
        /\ UNCHANGED leave
     \/ /\ leave[s] \in {"del", "row", "tell"} /\ leave' = [leave EXCEPT ![s] = "done"]
        /\ UNCHANGED sock
  /\ tangled' = TRUE
  /\ UNCHANGED <<open, room, key, isOnline, told>>

\* The process dies, and with it its sockets, rooms and handlers; nobody says goodbye.
Crash ==
  /\ open # {} \/ ~Quiet
  /\ sock' = [s \in Socket |-> IF sock[s] = "new" THEN "new" ELSE "done"]
  /\ leave' = [s \in Socket |-> IF leave[s] = "none" THEN "none" ELSE "done"]
  /\ open' = {} /\ room' = {} /\ tangled' = TRUE
  /\ UNCHANGED <<key, isOnline, told>>

\* Half a minute passes.
Tick ==
  /\ key > 0 /\ key' = key - 1
  /\ UNCHANGED <<sock, leave, open, room, isOnline, told>>

Handle(s) ==
  \/ Join(s) \/ Touch(s) \/ Upsert(s) \/ Tell(s)
  \/ DeleteKey(s) \/ GoOffline(s) \/ TellOff(s)

Next ==
  \/ /\ (\E s \in Socket : Connect(s) \/ Refuse(s) \/ Handle(s) \/ Close(s) \/ Heartbeat(s)) \/ Tick
     /\ Tangle
  \/ (\E s \in Socket : Fail(s)) \/ Crash

\* The server finishes its handlers unless they fail, Redis drops keys, and of the heartbeats
\* that a connected client sends some get through.
Fairness ==
  /\ \A s \in Socket : WF_vars(Handle(s) /\ Tangle) /\ WF_vars(Heartbeat(s) /\ Tangle)
  /\ WF_vars(Tick /\ Tangle)

Spec == Init /\ [][Next]_vars /\ Fairness

-----------------------------------------------------------------------------
\* handleConnection, handleDisconnect: once nothing is under way, the others have been told what
\* is so, nobody without a socket has a row that says online, and the key is gone with the last
\* socket; unless a connect and a disconnect overlapped, a socket was closed before it was known
\* whose it is, or a call of a handler failed or the process died.  None of it lasts: the next
\* connect or last disconnect that runs by itself sets it right.
OthersKnow ==
  Quiet /\ ~tangled =>
    /\ told <=> room # {}
    /\ room = {} => ~isOnline /\ key = 0

\* The key heals whatever got in whose way, and whatever failed: as long as a socket stays, it
\* comes back with a heartbeat; once none does, it expires.
TheKeyHeals ==
  /\ <>[](room # {}) => []<>(key > 0)
  /\ <>[](room = {}) => <>[](key = 0)
===============================================================================
