------------------------------ MODULE Stories ------------------------------
(***************************************************************************)
(* The life of stories and of their media: StoriesService.create,          *)
(* createFromPost and remove, the delayed job of StoriesProcessor, the     *)
(* hourly StoriesCron, HighlightsService.create, update and remove, and    *)
(* PostsService.remove, whose media a reposted story shares.  The database,*)
(* the queue and the media store are three systems with no transaction     *)
(* between them, and every awaited call is a step.                         *)
(***************************************************************************)
EXTENDS Integers, FiniteSets

CONSTANTS Story,      \* story ids, handed out once
          Post,       \* published posts, each with one cover
          Highlight,  \* highlight ids, handed out once
          Req,        \* HTTP requests; each one is handled once
          None,
          ATTEMPTS,   \* attempts of a deletion job
          FAULTS      \* bound: how often the queue, the database, the store or a process fails,
                      \* or media is removed by its key

ASSUME NoMedia == None \notin Story \cup Post \cup Highlight
ASSUME Apart == Story \cap Post = {}
ASSUME Bounds == ATTEMPTS \in Nat \ {0} /\ FAULTS \in Nat

VARIABLES row,       \* the Story row: "unborn", "live" or "gone"
          file,      \* its mediaUrl: media of its own, or the post's cover
          archived,  \* stories with saveToArchive
          due,       \* stories whose expiresAt has passed
          post,      \* posts that exist
          store,     \* media in the store
          highlight, \* the Highlight row: "unborn", "live" or "gone"
          linked,    \* its HighlightStory rows
          cover,     \* its coverUrl: the media of one of its first stories; None: what the client named
          job,       \* the deletion job of a story
          cron,      \* the hourly sweep
          req,       \* the state of every request
          faults,    \* how many failures have happened
          late,      \* history: linked when a deleter had already found them unlinked
          undeleted, \* history: the sweep failed to delete their row
          undone,    \* history: created by a request that failed afterwards
          taken      \* history: media that somebody removed by its key

service == <<row, file, archived, due>>
showcase == <<highlight, linked, cover>>
history == <<late, undeleted, undone, taken>>
vars == <<row, file, archived, due, post, store, highlight, linked, cover, job, cron, req, faults,
          late, undeleted, undone, taken>>

Media == Story \cup Post

Life == {"unborn", "live", "gone"}

NoJob == [at |-> "none", left |-> 0]

\* A job in the queue has an attempt left.
Job == {NoJob} \cup [at : {"queued", "delete", "files"}, left : 1..ATTEMPTS]

NewJob == [at |-> "queued", left |-> ATTEMPTS]

\* The rows the sweep has read and not finished, and the one whose media is next.
Cron == [list : SUBSET Story, victim : Story \cup {None}]

Request == [at : {"start", "insert", "more", "undo", "insertRepost", "drop", "files",
                  "dropPost", "postFiles", "link", "unlink", "relink", "cover", "end"},
            picked : SUBSET Story,
            target : Post \cup Highlight \cup {None}]

Idle == [at |-> "start", picked |-> {}, target |-> None]

TypeOK ==
  /\ row \in [Story -> Life] /\ file \in [Story -> Media]
  /\ archived \subseteq Story /\ due \subseteq Story
  /\ post \subseteq Post /\ store \subseteq Media
  /\ highlight \in [Highlight -> Life] /\ linked \in [Highlight -> SUBSET Story]
  /\ cover \in [Highlight -> Media \cup {None}]
  /\ job \in [Story -> Job] /\ cron \in Cron
  /\ req \in [Req -> Request]
  /\ faults \in Nat
  /\ late \subseteq Story /\ undeleted \subseteq Story /\ undone \subseteq Story
  /\ taken \subseteq Media

\* Some highlights may exist, their stories gone with earlier ones.
Init ==
  /\ row = [s \in Story |-> "unborn"] /\ file = [s \in Story |-> s]
  /\ archived = {} /\ due = {}
  /\ post = Post /\ store = Post
  /\ highlight \in [Highlight -> {"unborn", "live"}] /\ linked = [h \in Highlight |-> {}]
  /\ cover = [h \in Highlight |-> None]
  /\ job = [s \in Story |-> NoJob]
  /\ cron = [list |-> {}, victim |-> None]
  /\ req = [r \in Req |-> Idle]
  /\ faults = 0
  /\ late = {} /\ undeleted = {} /\ undone = {} /\ taken = {}

-----------------------------------------------------------------------------
At(r, l) == req[r].at = l

Become(r, x) == req' = [req EXCEPT ![r] = x]

Goto(r, l) == Become(r, [req[r] EXCEPT !.at = l])

Ends(r) == Become(r, [Idle EXCEPT !.at = "end"])

Live == {s \in Story : row[s] = "live"}

InHighlight == UNION {linked[h] : h \in Highlight}

Bounded == faults + Cardinality(taken) < FAULTS

Fault == Bounded /\ faults' = faults + 1

\* storage.remove(key).catch(() => undefined): what fails stays in the store.
RemoveMedia(keys) ==
  \/ store' = store \ keys /\ UNCHANGED faults
  \/ Fault /\ \E kept \in SUBSET keys : store' = store \ (keys \ kept)

DeleteRow(s) ==
  /\ row' = [row EXCEPT ![s] = "gone"]
  /\ linked' = [h \in Highlight |-> linked[h] \ {s}]

\* An id for the next story.
Unused(s) == row[s] = "unborn" /\ s \notin store

\* story.create, then scheduleDeletion, which swallows a failing queue.add.
CreateRow(s, media) ==
  /\ row' = [row EXCEPT ![s] = "live"]
  /\ file' = [file EXCEPT ![s] = media]
  /\ archived' \in {archived, archived \cup {s}}
  /\ \/ job' = [job EXCEPT ![s] = NewJob] /\ UNCHANGED faults
     \/ Fault /\ UNCHANGED job
  /\ UNCHANGED <<due, post, store, showcase, cron, history>>

-----------------------------------------------------------------------------
\* create, one turn of its loop: the media is uploaded first.
PutMedia(r) ==
  /\ At(r, "start") \/ At(r, "more")
  /\ \E s \in Story :
       /\ Unused(s)
       /\ store' = store \cup {s}
       /\ Become(r, [at |-> "insert", picked |-> req[r].picked \cup {s}, target |-> None])
  /\ UNCHANGED <<service, post, showcase, job, cron, faults, history>>

InsertStory(r) ==
  /\ At(r, "insert")
  /\ \E s \in req[r].picked : row[s] = "unborn" /\ CreateRow(s, s)
  /\ Goto(r, "more")

Created(r) ==
  /\ At(r, "more")
  /\ Ends(r)
  /\ UNCHANGED <<service, post, store, showcase, job, cron, faults, history>>

\* Something in the loop or after it throws: its catch removes the media of every
\* story of this request, and no row.
CreateFails(r) ==
  /\ At(r, "insert") \/ At(r, "more")
  /\ Fault
  /\ undone' = undone \cup {s \in req[r].picked : row[s] # "unborn"}
  /\ Goto(r, "undo")
  /\ UNCHANGED <<service, post, store, showcase, job, cron, late, undeleted, taken>>

UndoCreate(r) ==
  /\ At(r, "undo")
  /\ RemoveMedia(req[r].picked)
  /\ Ends(r)
  /\ UNCHANGED <<service, post, showcase, job, cron, history>>

\* createFromPost: the story takes the post's own cover.
RepostRead(r) ==
  /\ At(r, "start")
  /\ \E p \in post : Become(r, [at |-> "insertRepost", picked |-> {}, target |-> p])
  /\ UNCHANGED <<service, post, store, showcase, job, cron, faults, history>>

\* The foreign key refuses a post that is gone by now.
InsertRepost(r) ==
  /\ At(r, "insertRepost")
  /\ Ends(r)
  /\ \/ /\ req[r].target \in post
        /\ \E s \in Story : Unused(s) /\ CreateRow(s, req[r].target)
     \/ /\ req[r].target \notin post
        /\ UNCHANGED <<service, post, store, showcase, job, cron, faults, history>>

\* remove: the owner's story is read, its row deleted, then its media.
RemoveRead(r) ==
  /\ At(r, "start")
  /\ \E s \in Live : Become(r, [at |-> "drop", picked |-> {s}, target |-> None])
  /\ UNCHANGED <<service, post, store, showcase, job, cron, faults, history>>

RemoveDelete(r) ==
  /\ At(r, "drop")
  /\ IF req[r].picked \subseteq Live
     THEN Goto(r, "files") /\ \E s \in req[r].picked : DeleteRow(s)
     ELSE Ends(r) /\ UNCHANGED <<row, linked>>
  /\ UNCHANGED <<file, archived, due, post, store, highlight, cover, job, cron, faults, history>>

RemoveFiles(r) ==
  /\ At(r, "files")
  /\ \E s \in req[r].picked : RemoveMedia({file[s]})
  /\ Ends(r)
  /\ UNCHANGED <<service, post, showcase, job, cron, history>>

\* PostsService.remove: its row first, then the media, reposted or not.
RemovePostRead(r) ==
  /\ At(r, "start")
  /\ \E p \in post : Become(r, [at |-> "dropPost", picked |-> {}, target |-> p])
  /\ UNCHANGED <<service, post, store, showcase, job, cron, faults, history>>

RemovePostDelete(r) ==
  /\ At(r, "dropPost")
  /\ IF req[r].target \in post THEN Goto(r, "postFiles") ELSE Ends(r)
  /\ post' = post \ {req[r].target}
  /\ UNCHANGED <<service, store, showcase, job, cron, faults, history>>

RemovePostFiles(r) ==
  /\ At(r, "postFiles")
  /\ RemoveMedia({req[r].target})
  /\ Ends(r)
  /\ UNCHANGED <<service, post, showcase, job, cron, history>>

-----------------------------------------------------------------------------
\* Who deletes on a check made before: a job or the sweep that has found s unlinked.
Condemned(s) == s \in cron.list \/ job[s].at = "delete"

\* The HighlightStory rows of h; both foreign keys and the primary key hold.
AddLinks(h, stories) ==
  /\ linked' = [linked EXCEPT ![h] = @ \cup stories]
  /\ late' = late \cup {s \in stories : Condemned(s)}

Linkable(h, stories) ==
  highlight[h] = "live" /\ stories \subseteq Live /\ linked[h] \cap stories = {}

\* HighlightsService.create (under an id of its own) and update, with other stories or with a
\* new title or cover only, up to assertOwnStories.
HighlightRead(r) ==
  /\ At(r, "start")
  /\ \E h \in Highlight, stories \in SUBSET Live :
       \/ /\ highlight[h] = "unborn" /\ stories # {} /\ \A q \in Req : req[q].target # h
          /\ Become(r, [at |-> "link", picked |-> stories, target |-> h])
       \/ /\ highlight[h] = "live"
          /\ Become(r, [at |-> IF stories = {} THEN "cover" ELSE "unlink", picked |-> stories, target |-> h])
  /\ UNCHANGED <<service, post, store, showcase, job, cron, faults, history>>

\* highlight.create with its stories, in one nested write; without a coverUrl from the client
\* the cover is the media of the first one.
CreateHighlight(r) ==
  LET h == req[r].target IN
  /\ At(r, "link")
  /\ Ends(r)
  /\ IF req[r].picked \subseteq Live
     THEN /\ highlight' = [highlight EXCEPT ![h] = "live"]
          /\ AddLinks(h, req[r].picked)
          /\ \E m \in {None} \cup {file[s] : s \in req[r].picked} : cover' = [cover EXCEPT ![h] = m]
     ELSE UNCHANGED <<showcase, late>>
  /\ UNCHANGED <<service, post, store, job, cron, faults, undeleted, undone, taken>>

\* update: the old composition goes first, in a write of its own...
UnlinkAll(r) ==
  /\ At(r, "unlink")
  /\ linked' = [linked EXCEPT ![req[r].target] = {}]
  /\ Goto(r, "relink")
  /\ UNCHANGED <<service, post, store, highlight, cover, job, cron, faults, history>>

\* ... the new one follows...
Relink(r) ==
  LET h == req[r].target IN
  /\ At(r, "relink")
  /\ IF Linkable(h, req[r].picked) THEN AddLinks(h, req[r].picked) /\ Goto(r, "cover")
                                   ELSE Ends(r) /\ UNCHANGED <<linked, late>>
  /\ UNCHANGED <<service, post, store, highlight, cover, job, cron, faults, undeleted, undone, taken>>

\* ... and the title and the cover last: the old cover, or one that the client names.
UpdateCover(r) ==
  LET h == req[r].target IN
  /\ At(r, "cover")
  /\ Ends(r)
  /\ cover' \in {cover, [cover EXCEPT ![h] = None]}
  /\ UNCHANGED <<service, post, store, highlight, linked, job, cron, faults, history>>

RemoveHighlight(r) ==
  /\ At(r, "start")
  /\ \E h \in Highlight :
       /\ highlight[h] = "live"
       /\ highlight' = [highlight EXCEPT ![h] = "gone"]
       /\ linked' = [linked EXCEPT ![h] = {}]
       /\ cover' = [cover EXCEPT ![h] = None]
  /\ Ends(r)
  /\ UNCHANGED <<service, post, store, job, cron, faults, history>>

\* A call of a handler without a catch rejects, or the process dies.
Crash(r) ==
  /\ req[r].at \notin {"start", "end"}
  /\ Fault
  /\ Ends(r)
  /\ UNCHANGED <<service, post, store, showcase, job, cron, history>>

\* UploadService.remove: anybody removes whatever they name the key of, as the urls that were
\* handed out tell them; nobody asks what names it still.
RemoveByKey(m) ==
  /\ Bounded
  /\ m \in store \ {s \in Story : row[s] = "unborn"}
  /\ store' = store \ {m} /\ taken' = taken \cup {m}
  /\ UNCHANGED <<service, post, showcase, job, cron, req, faults, late, undeleted, undone>>

-----------------------------------------------------------------------------
Expire(s) ==
  /\ row[s] = "live" /\ s \notin due
  /\ due' = due \cup {s}
  /\ UNCHANGED <<row, file, archived, post, store, showcase, job, cron, req, faults, history>>

JobAt(s, l) == job' = [job EXCEPT ![s].at = l]

JobEnds(s) == job' = [job EXCEPT ![s] = NoJob]

\* process throws: BullMQ tries again until the attempts are used up.
JobThrows(s) ==
  job' = [job EXCEPT ![s] = IF @.left > 1 THEN [at |-> "queued", left |-> @.left - 1]
                                          ELSE NoJob]

\* The delayed job comes up once the story has expired; a difference between the
\* clocks that set its delay and that check it brings it up early.
JobComesUp(s) ==
  /\ job[s].at = "queued"
  /\ \/ s \in due /\ UNCHANGED faults
     \/ s \notin due /\ Fault

\* Mutant: the link to a highlight is not looked at.
JobReadNoHighlights(s) ==
  /\ JobComesUp(s)
  /\ IF row[s] = "gone" \/ s \in archived THEN JobEnds(s)
     ELSE IF s \notin due THEN JobThrows(s)
     ELSE JobAt(s, "delete")
  /\ UNCHANGED <<service, post, store, showcase, cron, req, history>>

\* process, up to the delete.
JobRead(s) ==
  /\ JobComesUp(s)
  /\ IF row[s] = "gone" \/ s \in InHighlight \/ s \in archived THEN JobEnds(s)
     ELSE IF s \notin due THEN JobThrows(s)
     ELSE JobAt(s, "delete")
  /\ UNCHANGED <<service, post, store, showcase, cron, req, history>>

\* story.delete throws when the row is gone by now.
JobDelete(s) ==
  /\ job[s].at = "delete"
  /\ IF row[s] = "live" THEN DeleteRow(s) /\ JobAt(s, "files")
                        ELSE UNCHANGED <<row, linked>> /\ JobThrows(s)
  /\ UNCHANGED <<file, archived, due, post, store, highlight, cover, cron, req, faults, history>>

JobFiles(s) ==
  /\ job[s].at = "files"
  /\ RemoveMedia({file[s]})
  /\ JobEnds(s)
  /\ UNCHANGED <<service, post, showcase, cron, req, history>>

\* A call of the job rejects, or its worker dies and the job is taken up again.
JobFails(s) ==
  /\ job[s].at \in {"delete", "files"}
  /\ Fault
  /\ JobThrows(s)
  /\ UNCHANGED <<service, post, store, showcase, cron, req, history>>

\* cleanupExpired: every expired story that is neither in a highlight nor archived.
Sweepable == (Live \cap due) \ (InHighlight \cup archived)

\* Mutant: the sweep leaves reposts alone.
CronReadOwnMedia ==
  LET found == {s \in Sweepable : file[s] = s} IN
  /\ cron.list = {} /\ found # {}
  /\ cron' = [cron EXCEPT !.list = found]
  /\ UNCHANGED <<service, post, store, showcase, job, req, faults, history>>

CronRead ==
  /\ cron.list = {} /\ Sweepable # {}
  /\ cron' = [cron EXCEPT !.list = Sweepable]
  /\ UNCHANGED <<service, post, store, showcase, job, req, faults, history>>

\* Mutant: the media of the row goes first.
CronDeleteMediaFirst(s) ==
  /\ s \in cron.list /\ cron.victim = None
  /\ cron' = [cron EXCEPT !.victim = s]
  /\ store' = store \ {file[s]}
  /\ UNCHANGED <<service, post, showcase, job, req, faults, history>>

\* story.delete(...).catch(() => undefined): failed or not, the media is next.
CronDelete(s) ==
  /\ s \in cron.list /\ cron.victim = None
  /\ cron' = [cron EXCEPT !.victim = s]
  /\ \/ /\ IF row[s] = "live" THEN DeleteRow(s) ELSE UNCHANGED <<row, linked>>
        /\ UNCHANGED <<faults, undeleted>>
     \/ /\ row[s] = "live" /\ Fault
        /\ undeleted' = undeleted \cup {s}
        /\ UNCHANGED <<row, linked>>
  /\ UNCHANGED <<file, archived, due, post, store, highlight, cover, job, req, late, undone, taken>>

CronFiles ==
  /\ cron.victim # None
  /\ RemoveMedia({file[cron.victim]})
  /\ cron' = [list |-> cron.list \ {cron.victim}, victim |-> None]
  /\ UNCHANGED <<service, post, showcase, job, req, history>>

CronCrash ==
  /\ cron.list # {}
  /\ Fault
  /\ cron' = [list |-> {}, victim |-> None]
  /\ UNCHANGED <<service, post, store, showcase, job, req, history>>

-----------------------------------------------------------------------------
Next ==
  \/ \E r \in Req :
       \/ PutMedia(r) \/ InsertStory(r) \/ Created(r) \/ CreateFails(r) \/ UndoCreate(r)
       \/ RepostRead(r) \/ InsertRepost(r)
       \/ RemoveRead(r) \/ RemoveDelete(r) \/ RemoveFiles(r)
       \/ RemovePostRead(r) \/ RemovePostDelete(r) \/ RemovePostFiles(r)
       \/ HighlightRead(r) \/ CreateHighlight(r) \/ UnlinkAll(r) \/ Relink(r) \/ UpdateCover(r)
       \/ RemoveHighlight(r) \/ Crash(r)
  \/ \E m \in Media : RemoveByKey(m)
  \/ \E s \in Story :
       \/ Expire(s) \/ JobRead(s) \/ JobDelete(s) \/ JobFiles(s) \/ JobFails(s)
       \/ CronDelete(s)
  \/ CronRead \/ CronFiles \/ CronCrash

\* The scheduler starts the sweep every hour and Node runs it to its end; no
\* handler and no job is assumed to get anywhere.
Fairness ==
  /\ WF_vars(CronRead) /\ WF_vars(CronFiles)
  /\ \A s \in Story : WF_vars(CronDelete(s))

Spec == Init /\ [][Next]_vars

FairSpec == Spec /\ Fairness

-----------------------------------------------------------------------------
\* What is shown: a story's media, a post's, a highlight's cover.
Shown == {file[s] : s \in Live} \cup post \cup ({cover[h] : h \in {g \in Highlight : highlight[g] = "live"}} \ {None})

\* How the code loses media: its story is gone, or the sweep failed to delete its row; its post
\* is gone; the request that created it failed later; somebody removed it by its key.
Lost(m) ==
  \/ \E s \in Story : file[s] = m /\ (row[s] = "gone" \/ s \in undeleted)
  \/ m \in Post \ post
  \/ m \in undone \cup taken

\* StoriesProcessor, StoriesCron and the two remove handlers delete rows before media: the media
\* of whatever is shown is in the store, except for what the code does lose.  A row that is still
\* there names lost media if the sweep failed to delete it, if its request failed after creating
\* it, if a post and its reposts share their cover and one of them is deleted, if it is a
\* highlight whose cover is the media of a story that is deleted, or if somebody removed the
\* media by its key.
MissingMediaIsExplained == \A m \in Shown : m \in store \/ Lost(m)

\* Of all who may delete one story at once (its owner, the job, the sweep), the
\* one who succeeds takes its media away too, unless something fails.
GoneStoriesLeaveNoMedia ==
  \A s \in Story :
    row[s] = "gone" /\ file[s] = s /\ s \in store =>
      \/ faults > 0
      \/ job[s].at = "files" \/ cron.victim = s
      \/ \E r \in Req : At(r, "files") /\ s \in req[r].picked

\* A story goes because its owner removes it, or because it has expired, is not
\* kept in the archive and was in no highlight when its deleter looked.
ExpiryIsJustified ==
  [][\A s \in Story :
       row[s] = "live" /\ row'[s] = "gone" =>
         \/ \E r \in Req : At(r, "drop") /\ s \in req[r].picked
         \/ s \in due \ archived /\ (s \in InHighlight => s \in late)]_vars

\* Even if its job was never queued or has used up its attempts, no expired story
\* that nobody keeps stays for good: the hourly sweep is the safety net (StoriesCron).
ExpiredStoriesGo == \A s \in Story : []<>(s \notin Sweepable)

\* StorageService.put and remove, called beside the rows and in no transaction with them: the store
\* has the media of what is there, and nothing of what has gone, with the exceptions above.
MediaAgree == MissingMediaIsExplained /\ GoneStoriesLeaveNoMedia
=============================================================================
