------------------------------ MODULE Pictures ------------------------------
(***************************************************************************)
(* Files that are uploaded: the avatar of a user, which one row names, and *)
(* the files of an upload, which only its answer names.  The storage knows *)
(* nothing of the database, and either of them may fail.                   *)
(***************************************************************************)
EXTENDS Naturals, FiniteSets

CONSTANTS Req,      \* requests, numbered as they come
          MaxFiles, \* files of an upload
          None

VARIABLES stored, \* the objects in the storage
          avatar, \* Profile.avatarUrl
          req,    \* the state of every request
          missed, \* history: the objects that the storage would not remove
          taken   \* history: the objects that clients have removed by their keys

vars == <<stored, avatar, req, missed, taken>>

\* The objects that requests can make: a file and its thumbnail, of each.  Every put has a
\* new key, the n-th of its request.
Object == Req \X (1..2 * MaxFiles)

\* own: what the request has put; old: what it has read; files: how many of an upload are to
\* come; kept: those of its objects that the upload takes back if it fails, and that its
\* answer names if it does not; over (history): another request for the avatar was under way.
Request == [at : {"start", "put", "thumb", "push", "read", "write", "remove", "undo", "done", "failed"},
            op : {"set", "delete", "upload"}, own : SUBSET Object, old : Object \cup {None},
            files : 0..MaxFiles, kept : SUBSET Object, over : BOOLEAN]

Fresh == [at |-> "start", op |-> "set", own |-> {}, old |-> None, files |-> 0, kept |-> {}, over |-> FALSE]

TypeOK ==
  /\ stored \subseteq Object /\ avatar \in Object \cup {None}
  /\ req \in [Req -> Request] /\ missed \subseteq Object /\ taken \subseteq Object

Init == stored = {} /\ avatar = None /\ req = [r \in Req |-> Fresh] /\ missed = {} /\ taken = {}

-----------------------------------------------------------------------------
At(r, l) == req[r].at = l

\* The next request to come is r.
Comes(r) == At(r, "start") /\ \A q \in Req : q < r => ~At(q, "start")

Goes(r, l) == req' = [req EXCEPT ![r].at = l]

Ended(r) == req[r].at \in {"start", "done", "failed"}

\* StorageService.put: a new object under a new key, or an error.
Put(r, next) ==
  \/ LET o == <<r, Cardinality(req[r].own) + 1>>
     IN  stored' = stored \cup {o} /\ req' = [req EXCEPT ![r].own = @ \cup {o}, ![r].at = next]
  \/ Goes(r, IF req[r].op = "upload" THEN "undo" ELSE "failed") /\ UNCHANGED stored

\* StorageService.remove: it tries every type and never throws, whether it has worked or not.
Remove(o) ==
  \/ stored' = stored \ {o} /\ UNCHANGED missed
  \/ o \in stored /\ missed' = missed \cup {o} /\ UNCHANGED stored

\* setAvatar and deleteAvatar begin: the one with a file that is an image, the other by
\* reading.  Others under way overlap with it.
Begin(r, op) ==
  LET others == {q \in Req : ~Ended(q) /\ req[q].op # "upload"}
  IN  /\ Comes(r)
      /\ req' = [q \in Req |->
           IF q = r THEN [Fresh EXCEPT !.op = op, !.at = IF op = "set" THEN "put" ELSE "read",
                                       !.over = others # {}]
           ELSE IF q \in others THEN [req[q] EXCEPT !.over = TRUE] ELSE req[q]]
      /\ UNCHANGED <<stored, avatar, missed, taken>>

PutAvatar(r) ==
  At(r, "put") /\ req[r].op = "set" /\ Put(r, "read") /\ UNCHANGED <<avatar, missed, taken>>

\* Mutant: the old object goes before the profile is written.
ReadAndRemove(r) ==
  /\ At(r, "read") /\ avatar # None /\ Remove(avatar)
  /\ req' = [req EXCEPT ![r].at = "write"]
  /\ UNCHANGED <<avatar, taken>>

\* The avatar there is.  Without one there is nothing to delete.
ReadOld(r) ==
  /\ At(r, "read")
  /\ req' = [req EXCEPT ![r].old = avatar,
                        ![r].at = IF req[r].op = "delete" /\ avatar = None THEN "done" ELSE "write"]
  /\ UNCHANGED <<stored, avatar, missed, taken>>

\* The new one, or none, is written to the profile; or the database fails.
WriteAvatar(r) ==
  /\ At(r, "write")
  /\ \/ /\ avatar' = IF req[r].op = "set" THEN <<r, 1>> ELSE None
        /\ Goes(r, IF req[r].old = None THEN "done" ELSE "remove")
     \/ Goes(r, "failed") /\ UNCHANGED avatar
  /\ UNCHANGED <<stored, missed, taken>>

\* removeAvatarObject: the one that was read, after the profile has forgotten it.
RemoveOld(r) ==
  /\ At(r, "remove") /\ Remove(req[r].old)
  /\ Goes(r, "done") /\ UNCHANGED <<avatar, taken>>

\* uploadMany: all files are valid; they are stored one after the other.  Bounded to one
\* upload: two have no object in common.
Upload(r, n) ==
  /\ Comes(r) /\ \A q \in Req : req[q].op # "upload"
  /\ req' = [req EXCEPT ![r] = [Fresh EXCEPT !.op = "upload", !.at = "put", !.files = n]]
  /\ UNCHANGED <<stored, avatar, missed, taken>>

\* storeOne: the file, and its thumbnail if it has one.
StoreFile(r) ==
  /\ At(r, "put") /\ req[r].op = "upload"
  /\ \E next \in {"thumb", "push"} : Put(r, next)
  /\ UNCHANGED <<avatar, missed, taken>>

StoreThumb(r) == At(r, "thumb") /\ Put(r, "push") /\ UNCHANGED <<avatar, missed, taken>>

\* The file counts as stored only now, with its thumbnail; the next one follows.
Push(r) ==
  /\ At(r, "push")
  /\ req' = [req EXCEPT ![r].kept = req[r].own, ![r].files = @ - 1,
                        ![r].at = IF req[r].files = 1 THEN "done" ELSE "put"]
  /\ UNCHANGED <<stored, avatar, missed, taken>>

\* cleanup: what counts as stored goes again, one after the other, and the upload fails.
Undo(r) ==
  /\ At(r, "undo")
  /\ \/ \E o \in req[r].kept : Remove(o) /\ req' = [req EXCEPT ![r].kept = @ \ {o}]
     \/ req[r].kept = {} /\ Goes(r, "failed") /\ UNCHANGED <<stored, missed>>
  /\ UNCHANGED <<avatar, taken>>

\* A profile or an answer has named o, so that clients know its key.
Named(o) == req[o[1]].at \in {"remove", "done"}

\* UploadService.remove: any user removes any object that is there, an avatar too.  If the
\* storage would not, nothing has happened.
RemoveFile(o) ==
  /\ o \in stored /\ Named(o)
  /\ stored' = stored \ {o} /\ taken' = taken \cup {o}
  /\ UNCHANGED <<avatar, req, missed>>

Next ==
  \/ \E o \in Object : RemoveFile(o)
  \/ \E r \in Req :
    \/ \E op \in {"set", "delete"} : Begin(r, op)
    \/ \E n \in 1..MaxFiles : Upload(r, n)
    \/ PutAvatar(r) \/ ReadOld(r) \/ WriteAvatar(r) \/ RemoveOld(r)
    \/ StoreFile(r) \/ StoreThumb(r) \/ Push(r) \/ Undo(r)

Spec == Init /\ [][Next]_vars

-----------------------------------------------------------------------------
\* setAvatar, deleteAvatar, uploadMany, remove: no order of their steps leaves a profile with an
\* object that is gone, nor an answered upload without one of its objects, unless a client
\* removed it by its key: DELETE /upload asks neither whose it is nor what names it.  When
\* nothing is under way, an object that neither names is one that the storage would not
\* remove, an avatar whose request failed or overlapped with another, or the file of an upload
\* that failed at its thumbnail: at most one of each upload.
PicturesAgree ==
  /\ avatar # None => avatar \in stored \cup taken
  /\ \A r \in Req : At(r, "done") => req[r].kept \subseteq stored \cup taken
  /\ (\A r \in Req : Ended(r)) =>
       \A r \in Req : \A o \in (req[r].own \cap stored) \ (missed \cup {avatar}) :
         \/ req[r].op = "set" /\ (At(r, "failed") \/ req[r].over)
         \/ At(r, "done") /\ o \in req[r].kept
         \/ req[r].op = "upload" /\ At(r, "failed") /\ (req[r].own \cap stored) \ missed = {o}
=============================================================================
