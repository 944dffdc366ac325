------------------------------- MODULE Calls -------------------------------
(***************************************************************************)
(* One call in one chat: ChatService.startCall, answerCall, declineCall    *)
(* and endCall.  Each handler reads the CallSession row, decides on what   *)
(* it read, and only then updates the row by its id, writes the line in    *)
(* the chat and tells the participants' screens; requests of both sides    *)
(* interleave between these awaited calls.                                 *)
(***************************************************************************)
EXTENDS Naturals

CONSTANTS User,  \* the participants of the chat
          Req,   \* HTTP requests; each one is handled once
          None

VARIABLES status,      \* CallSession.status, "none" before startCall
          caller,      \* CallSession.callerId
          answeredAt,  \* CallSession.answeredAt, 0 for null
          endedAt,     \* CallSession.endedAt, 0 for null
          now,         \* the time of the last update of the row
          lines,       \* the Messages of type CALL that name this call: how many
                       \* were written on each way to finish it
          screen,      \* the last event emitted to the participants
          req,         \* the state of every request
          stale,       \* history: an update overwrote a status its handler had not read
          overlapped,  \* history: an update ran while another handler was under way
          crashed      \* history: a handler failed between its update and its end

vars == <<status, caller, answeredAt, endedAt, now, lines, screen, req, stale, overlapped,
          crashed>>

row == <<status, caller, answeredAt, endedAt, now>>

Final == {"ENDED", "MISSED", "DECLINED"}

Status == {"none", "RINGING", "ONGOING"} \cup Final

Request == [at : {"start", "update", "line", "emit", "end"},
            read : Status,  \* the status the handler has read
            to : Status]    \* the status it will write

Idle == [at |-> "start", read |-> "none", to |-> "none"]

TypeOK ==
  /\ status \in Status /\ caller \in User \cup {None}
  /\ answeredAt \in Nat /\ endedAt \in Nat /\ now \in Nat
  /\ lines \in [Final -> Nat]
  /\ screen \in Status
  /\ req \in [Req -> Request]
  /\ stale \in BOOLEAN /\ overlapped \in BOOLEAN /\ crashed \in BOOLEAN

Init ==
  /\ status = "none" /\ caller = None
  /\ answeredAt = 0 /\ endedAt = 0 /\ now = 0
  /\ lines = [f \in Final |-> 0]
  /\ screen = "none"
  /\ req = [r \in Req |-> Idle]
  /\ stale = FALSE /\ overlapped = FALSE /\ crashed = FALSE

-----------------------------------------------------------------------------
Become(r, x) == req' = [req EXCEPT ![r] = x]

Goto(r, l) == Become(r, [req[r] EXCEPT !.at = l])

UnderWay(r) == req[r].at \in {"update", "line", "emit"}

Intend(r, to) == Become(r, [at |-> "update", read |-> status, to |-> to])

\* startCall: the row is created RINGING and everybody else's phone rings.
StartCall(u) ==
  /\ status = "none"
  /\ status' = "RINGING" /\ caller' = u /\ screen' = "RINGING"
  /\ UNCHANGED <<answeredAt, endedAt, now, lines, req, stale, overlapped, crashed>>

\* answerCall and declineCall, up to the update: not by the caller, and only
\* while it rings.  Anything else is refused with a 400.
PickUpOrRefuse(r, to) ==
  /\ req[r].at = "start" /\ status # "none"
  /\ \E u \in User : IF u # caller /\ status = "RINGING" THEN Intend(r, to)
                                                         ELSE Goto(r, "end")
  /\ UNCHANGED <<row, lines, screen, stale, overlapped, crashed>>

AnswerRead(r) == PickUpOrRefuse(r, "ONGOING")

DeclineRead(r) == PickUpOrRefuse(r, "DECLINED")

\* Mutant: a call that nobody has answered ends like any other.
EndReadNeverMissed(r) ==
  /\ req[r].at = "start" /\ status # "none"
  /\ IF status \in Final THEN Goto(r, "end") ELSE Intend(r, "ENDED")
  /\ UNCHANGED <<row, lines, screen, stale, overlapped, crashed>>

\* endCall, by any participant: nothing to do for a call that is over; one that
\* still rings was missed.
EndRead(r) ==
  /\ req[r].at = "start" /\ status # "none"
  /\ IF status \in Final
     THEN Goto(r, "end")
     ELSE Intend(r, IF status = "RINGING" THEN "MISSED" ELSE "ENDED")
  /\ UNCHANGED <<row, lines, screen, stale, overlapped, crashed>>

\* callSession.update by id: whatever the status is by now.
Update(r) ==
  LET to == req[r].to IN
  /\ req[r].at = "update"
  /\ status' = to
  /\ now' = now + 1
  /\ IF to = "ONGOING" THEN answeredAt' = now' /\ UNCHANGED endedAt /\ Goto(r, "emit")
                       ELSE endedAt' = now' /\ UNCHANGED answeredAt /\ Goto(r, "line")
  /\ stale' = (stale \/ status # req[r].read)
  /\ overlapped' = (overlapped \/ \E q \in Req \ {r} : UnderWay(q))
  /\ UNCHANGED <<caller, lines, screen, crashed>>

\* callMessage: the call's line in the chat.
CallMessage(r) ==
  /\ req[r].at = "line"
  /\ lines' = [lines EXCEPT ![req[r].to] = @ + 1]
  /\ Goto(r, "emit")
  /\ UNCHANGED <<row, screen, stale, overlapped, crashed>>

\* Mutant: the others' screens are not told.
EmitNothing(r) ==
  /\ req[r].at = "emit"
  /\ Goto(r, "end")
  /\ UNCHANGED <<row, lines, screen, stale, overlapped, crashed>>

\* call:answered, call:declined or call:ended, to all participants.
Emit(r) ==
  /\ req[r].at = "emit"
  /\ screen' = req[r].to
  /\ Goto(r, "end")
  /\ UNCHANGED <<row, lines, stale, overlapped, crashed>>

\* An awaited call rejects, or the process dies; what was written stays.
Fail(r) ==
  /\ UnderWay(r)
  /\ crashed' = (crashed \/ req[r].at # "update")
  /\ Goto(r, "end")
  /\ UNCHANGED <<row, lines, screen, stale, overlapped>>

Next ==
  \/ \E u \in User : StartCall(u)
  \/ \E r \in Req : \/ AnswerRead(r) \/ DeclineRead(r) \/ EndRead(r)
                    \/ Update(r) \/ CallMessage(r) \/ Emit(r)
                    \/ Fail(r)

Spec == Init /\ [][Next]_vars

-----------------------------------------------------------------------------
\* The row tells one story, unless a handler overwrote a status it had not seen:
\* who is talking has not hung up, a finished conversation began before it
\* ended, and a missed or declined call was never answered.
HistoryIsTrue ==
  \/ stale
  \/ /\ status = "ONGOING" => answeredAt > 0 /\ endedAt = 0
     /\ status = "ENDED" => 0 < answeredAt /\ answeredAt < endedAt
     /\ status \in {"MISSED", "DECLINED"} => answeredAt = 0 /\ endedAt > 0
     /\ status = "RINGING" => answeredAt = 0 /\ endedAt = 0

\* The finished call's lines in the chat.
AllLines == lines["ENDED"] + lines["MISSED"] + lines["DECLINED"]

\* A finished call gets its line in the chat, and one only, as long as no
\* handler overwrote a status it had not seen and none failed half way.
FinishedCallsHaveOneLine ==
  /\ ~stale => AllLines <= 1
  /\ status \in Final => AllLines > 0 \/ crashed \/ \E r \in Req : req[r].at = "line"

\* When every handler has ended, what the screens show is what the row says,
\* unless handlers overlapped (a late call:answered can follow call:ended even
\* when the row is right) or failed.
ScreensAgree ==
  (\A r \in Req : ~UnderWay(r)) => screen = status \/ overlapped \/ crashed

\* answerCall, declineCall, endCall: the row and the line in the chat tell one story of the call.
HistoryAgrees == HistoryIsTrue /\ FinishedCallsHaveOneLine
=============================================================================
