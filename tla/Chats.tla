------------------------------- MODULE Chats -------------------------------
(***************************************************************************)
(* The two protocols ChatService runs on the rows of a chat: who is in the *)
(* group (GroupChat) and the call of a chat (Calls).  They write different *)
(* tables and read nothing of one another but who participates, so one     *)
(* takes its steps while the other rests in an initial state.              *)
(***************************************************************************)
EXTENDS GroupChat

CONSTANTS Party,  \* the participants of the chat of the call
          Phone   \* the requests that call makes; each one is handled once

ASSUME NobodyIsNone == None \notin Party

VARIABLES part,
          status, caller, answeredAt, endedAt, clock,  \* Calls: the row
          lines, screen, hand, stale, overlapped, crashed

C == INSTANCE Calls WITH User <- Party, Req <- Phone, now <- clock, req <- hand

cvars == <<status, caller, answeredAt, endedAt, clock, lines, screen, hand, stale, overlapped,
           crashed>>
chatvars == <<part, exists, joined, admin, now, req, cause,
              status, caller, answeredAt, endedAt, clock, lines, screen, hand, stale, overlapped,
              crashed>>

\* A group at rest is as small as createGroup allows.
AtRest == part = "call" => Cardinality(member) = GROUP_MIN_INVITES + 1

ChatsInit == part \in {"group", "call"} /\ Init /\ C!Init /\ AtRest

Administers == part = "group" /\ Next /\ UNCHANGED cvars
Talks       == part = "call" /\ C!Next /\ UNCHANGED vars

ChatsNext == (Administers \/ Talks) /\ UNCHANGED part

ChatsSpec == ChatsInit /\ [][ChatsNext]_chatvars

\* answerCall, declineCall, endCall: the row and the line in the chat tell one story of the call.
HistoryAgrees == C!HistoryAgrees

\* answerCall, declineCall, endCall: when every handler has ended, the screens show what the row
\* says, unless handlers overlapped or failed.
ScreensAgree == C!ScreensAgree
=============================================================================
