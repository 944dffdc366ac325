------------------------------- MODULE Tracks -------------------------------
(***************************************************************************)
(* Music: the catalogues that are searched, the tracks that are imported   *)
(* from them, and the parts of a file that a player asks for.              *)
(***************************************************************************)
EXTENDS Integers, Sequences, FiniteSets

CONSTANTS Track,       \* tracks of the catalogues, each of one of them
          Req,         \* requests, numbered as they come
          MaxVersions, \* bounds how often what a catalogue says of a track changes
          MaxSize,     \* bounds the size of a file
          None

VARIABLES version, \* what the catalogue of each track says of it now
          row,     \* what the row of each imported track says, or None
          keys,    \* whether Spotify is configured; Deezer needs no keys
          req,     \* the state of every request
          late     \* history: the tracks whose row was written by an import that had fetched
                   \* before another one wrote

vars == <<version, row, keys, req, late>>

Providers == <<"DEEZER", "SPOTIFY">>

Version == 0..MaxVersions

\* tried: how many of the catalogues have been asked; got: what was fetched of the track;
\* passed (history): another import of it wrote meanwhile.
Request == [at : {"start", "search", "fetch", "write", "done", "failed"},
            track : Track \cup {None}, tried : 0..2, got : Version, passed : BOOLEAN]

Fresh == [at |-> "start", track |-> None, tried |-> 0, got |-> 0, passed |-> FALSE]

TypeOK ==
  /\ version \in [Track -> Version] /\ row \in [Track -> Version \cup {None}] /\ keys \in BOOLEAN
  /\ req \in [Req -> Request] /\ late \subseteq Track

Init ==
  /\ version = [t \in Track |-> 0] /\ row = [t \in Track |-> None] /\ keys \in BOOLEAN
  /\ req = [r \in Req |-> Fresh] /\ late = {}

-----------------------------------------------------------------------------
At(r, l) == req[r].at = l

\* The next request to come is r.
Comes(r) == At(r, "start") /\ \A q \in Req : q < r => ~At(q, "start")

Configured == IF keys THEN Providers ELSE <<"DEEZER">>

\* OnlineMusicService.search: the first catalogue that answers; the last error if none does.
Search(r) ==
  /\ Comes(r)
  /\ req' = [req EXCEPT ![r].at = "search"]
  /\ UNCHANGED <<version, row, keys, late>>

\* A catalogue answers, or with an error, or not within eight seconds; Spotify also when it
\* gives no token.
AskCatalogue(r) ==
  /\ At(r, "search")
  /\ \E next \in {"done", IF req[r].tried + 1 = Len(Configured) THEN "failed" ELSE "search"} :
       req' = [req EXCEPT ![r].tried = @ + 1, ![r].at = next]
  /\ UNCHANGED <<version, row, keys, late>>

\* ensureImported, for a track of one catalogue: no other one is asked instead.
Import(r, t) ==
  /\ Comes(r)
  /\ req' = [req EXCEPT ![r].at = "fetch", ![r].track = t]
  /\ UNCHANGED <<version, row, keys, late>>

\* getTrack: an error, or nothing under this id, ends it.
Fetch(r) ==
  /\ At(r, "fetch")
  /\ \E next \in {"write", "failed"} :
       req' = [req EXCEPT ![r].at = next, ![r].got = version[req[r].track]]
  /\ UNCHANGED <<version, row, keys, late>>

\* importTrack: one row for a provider and an id, made or brought up to date.
Upsert(r) ==
  LET t == req[r].track
  IN  /\ At(r, "write")
      /\ row' = [row EXCEPT ![t] = req[r].got]
      /\ late' = IF req[r].passed THEN late \cup {t} ELSE late \ {t}
      /\ req' = [q \in Req |-> IF q = r THEN [req[r] EXCEPT !.at = "done"]
                               ELSE IF At(q, "write") /\ req[q].track = t
                               THEN [req[q] EXCEPT !.passed = TRUE] ELSE req[q]]
      /\ UNCHANGED <<version, keys>>

\* The catalogue says something else of the track, a preview or a title.
Changes(t) ==
  /\ version[t] < MaxVersions /\ version' = [version EXCEPT ![t] = @ + 1]
  /\ UNCHANGED <<row, keys, req, late>>

Next ==
  \/ \E r \in Req : Search(r) \/ AskCatalogue(r) \/ Fetch(r) \/ Upsert(r)
  \/ \E r \in Req, t \in Track : Import(r, t)
  \/ \E t \in Track : Changes(t)

Spec == Init /\ [][Next]_vars

-----------------------------------------------------------------------------
\* The header "bytes=<from>-<to>", either of them may be missing (None).
Whole == [start |-> 0, end |-> -1]

\* Mutant: the last byte is taken for the size.
RangeToSize(from, to, size) ==
  LET start == IF from = None THEN (IF size > to THEN size - to ELSE 0) ELSE from
      end   == IF from = None \/ to = None THEN size - 1 ELSE to
  IN  IF (from = None /\ to \in {None, 0}) \/ start > end \/ start > size THEN Whole
      ELSE [start |-> start, end |-> IF end < size THEN end ELSE size]

\* parseRange: Whole stands for an answer with the whole file, with or without a header.
ParseRange(from, to, size) ==
  LET start == IF from = None THEN (IF size > to THEN size - to ELSE 0) ELSE from
      end   == IF from = None \/ to = None THEN size - 1 ELSE to
  IN  IF (from = None /\ to \in {None, 0}) \/ start > end \/ start >= size THEN Whole
      ELSE [start |-> start, end |-> IF end < size THEN end ELSE size - 1]

\* What the header asks for: the last bytes, or those from one on, up to another.
Asked(from, to, size) ==
  IF from = None THEN {b \in 0..size - 1 : to # None /\ b >= size - to}
                 ELSE {b \in 0..size - 1 : b >= from /\ (to # None => b <= to)}

\* This speaks of no variable: to check it in one state is enough.
RangesAreAnswered ==
  \A size \in 0..MaxSize, from, to \in (0..MaxSize + 1) \cup {None} :
    LET range == ParseRange(from, to, size)
    IN  range.start..range.end = Asked(from, to, size)

\* OnlineMusicService, parseRange: a search fails only when every configured catalogue has
\* been asked; an import that is answered is not undone by what another one had fetched
\* before, unless the two overlapped; and a player is sent exactly the bytes of the file it
\* has asked for, or the whole file if they are none.
TracksAgree ==
  /\ \A r \in Req : At(r, "failed") /\ req[r].track = None => req[r].tried = Len(Configured)
  /\ \A r \in Req : LET t == req[r].track
                    IN  At(r, "done") /\ t # None /\ t \notin late => row[t] >= req[r].got
  /\ (\A r \in Req : At(r, "start")) => RangesAreAnswered
=============================================================================
