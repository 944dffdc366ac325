--------------------------- MODULE StoriesProofs ---------------------------
(* What is proved of Stories for every set of stories, posts, highlights and *)
(* requests and every bound on attempts and failures.                        *)
EXTENDS Stories, TLAPS

-----------------------------------------------------------------------------
(***************************************************************************)
(* The inductive invariant, in parts.                                      *)
(***************************************************************************)

\* A story shows its own media or a post's cover.
FilesOK == \A s \in Story : file[s] = s \/ file[s] \in Post

\* Jobs, the sweep and the history speak of stories that were created.
BornOK ==
  \A s \in Story :
    row[s] = "unborn" =>
      /\ job[s] = NoJob /\ s \notin due
      /\ s \notin cron.list /\ s \notin undeleted /\ s \notin undone

\* A deleter acts on a check that still holds, but for links that came later.
CondemnedOK ==
  \A s \in Live : Condemned(s) => s \in due \ archived /\ (s \in InHighlight => s \in late)

\* Media is removed for rows that are gone or that the sweep failed to delete.
DeletersOK ==
  /\ \A s \in Story : job[s].at = "files" => row[s] = "gone"
  /\ cron.victim # None =>
       /\ cron.victim \in cron.list
       /\ row[cron.victim] = "gone" \/ cron.victim \in undeleted

\* The requests of create, each of which owns the stories it has picked.
Creating(r) == req[r].at \in {"insert", "more", "undo"}

RequestOK(r) ==
  /\ req[r].at = "start" => req[r].picked = {}
  /\ req[r].at \in {"drop", "files"} =>
       \E s \in Story : req[r].picked = {s} /\ row[s] # "unborn"
  /\ req[r].at = "files" => \A s \in req[r].picked : row[s] = "gone"
  /\ req[r].at \in {"insertRepost", "dropPost", "postFiles"} => req[r].target \in Post
  /\ req[r].at = "postFiles" => req[r].target \notin post
  /\ Creating(r) =>
       \A s \in req[r].picked :
         IF row[s] = "unborn" THEN s \in store
                              ELSE req[r].at = "undo" => s \in undone

RequestsOK == \A r \in Req : RequestOK(r)

PicksApart ==
  \A q, r \in Req :
    q # r /\ Creating(q) /\ Creating(r) => req[q].picked \cap req[r].picked = {}

\* A highlight's cover is the media of a story or a post that was there.
CoversOK == \A h \in Highlight : cover[h] \in Story => row[cover[h]] # "unborn"

MediaOK == CoversOK /\ MissingMediaIsExplained

CleanOK ==
  \A s \in Story :
    row[s] = "gone" /\ file[s] = s /\ s \in store =>
      \/ faults > 0
      \/ job[s].at = "files" \/ cron.victim = s
      \/ \E r \in Req : At(r, "files") /\ s \in req[r].picked

StoryInv == FilesOK /\ BornOK /\ CondemnedOK /\ DeletersOK /\ RequestsOK /\ PicksApart

-----------------------------------------------------------------------------
(***************************************************************************)
(* What the building blocks of the actions do.                             *)
(***************************************************************************)
Label == {"start", "insert", "more", "undo", "insertRepost", "drop", "files",
          "dropPost", "postFiles", "link", "unlink", "relink", "cover", "end"}

LEMMA BecomeIs ==
  ASSUME TypeOK, NEW r \in Req, NEW x \in Request, Become(r, x)
  PROVE  /\ req' \in [Req -> Request] /\ req'[r] = x
         /\ \A q \in Req \ {r} : req'[q] = req[q]
  BY DEF Become, TypeOK

LEMMA BecomesIs ==
  ASSUME TypeOK, NEW r \in Req, NEW l \in Label, NEW stories \in SUBSET Story,
         NEW t \in Post \cup Highlight \cup {None},
         Become(r, [at |-> l, picked |-> stories, target |-> t])
  PROVE  /\ req' \in [Req -> Request]
         /\ req'[r].at = l /\ req'[r].picked = stories /\ req'[r].target = t
         /\ \A q \in Req \ {r} : req'[q] = req[q]
  <1>1. [at |-> l, picked |-> stories, target |-> t] \in Request
    BY DEF Request, Label
  <1>2. QED BY <1>1, BecomeIs

LEMMA RequestFields ==
  ASSUME TypeOK, NEW r \in Req
  PROVE  /\ req[r].at \in Label /\ req[r].picked \subseteq Story
         /\ req[r].target \in Post \cup Highlight \cup {None}
         /\ req[r] = [at |-> req[r].at, picked |-> req[r].picked, target |-> req[r].target]
  BY DEF TypeOK, Request, Label

LEMMA GotoIs ==
  ASSUME TypeOK, NEW r \in Req, NEW l \in Label, Goto(r, l)
  PROVE  /\ req' \in [Req -> Request]
         /\ req'[r].at = l /\ req'[r].picked = req[r].picked /\ req'[r].target = req[r].target
         /\ \A q \in Req \ {r} : req'[q] = req[q]
  <1>1. [req[r] EXCEPT !.at = l] = [at |-> l, picked |-> req[r].picked, target |-> req[r].target]
    BY DEF TypeOK, Request
  <1>2. Become(r, [at |-> l, picked |-> req[r].picked, target |-> req[r].target])
    BY <1>1 DEF Goto
  <1>3. QED BY <1>2, BecomesIs, RequestFields

LEMMA EndsIs ==
  ASSUME TypeOK, NEW r \in Req, Ends(r)
  PROVE  /\ req' \in [Req -> Request] /\ req'[r].at = "end"
         /\ \A q \in Req \ {r} : req'[q] = req[q]
  <1>1. [Idle EXCEPT !.at = "end"] = [at |-> "end", picked |-> {}, target |-> None]
    BY DEF Idle
  <1>2. QED BY <1>1, BecomesIs DEF Ends, Label

LEMMA FaultIs ==
  ASSUME TypeOK, Fault
  PROVE  faults' \in Nat /\ faults' > 0 /\ faults \in Nat
  BY DEF TypeOK, Fault

LEMMA RemoveMediaIs ==
  ASSUME TypeOK, NEW keys, RemoveMedia(keys)
  PROVE  /\ store' \subseteq store /\ store \ keys \subseteq store'
         /\ faults' \in Nat
         /\ (faults' = faults /\ store' = store \ keys) \/ faults' > 0
  BY FaultIs DEF RemoveMedia, TypeOK

LEMMA DeleteRowIs ==
  ASSUME TypeOK, NEW s \in Story, DeleteRow(s)
  PROVE  /\ row' \in [Story -> Life] /\ linked' \in [Highlight -> SUBSET Story]
         /\ row'[s] = "gone" /\ \A z \in Story \ {s} : row'[z] = row[z]
         /\ InHighlight' \subseteq InHighlight
  <1>1. row' \in [Story -> Life] /\ row'[s] = "gone" /\ \A z \in Story \ {s} : row'[z] = row[z]
    BY DEF DeleteRow, TypeOK, Life
  <1>2. linked' \in [Highlight -> SUBSET Story] /\ \A h \in Highlight : linked'[h] \subseteq linked[h]
    BY DEF DeleteRow, TypeOK
  <1>3. QED BY <1>1, <1>2 DEF InHighlight

LEMMA JobTypes ==
  /\ NoJob \in Job /\ NewJob \in Job
  /\ \A j \in Job : j.at # "none" => /\ j.left \in 1..ATTEMPTS
                                     /\ j.at \in {"queued", "delete", "files"}
  /\ \A l \in {"queued", "delete", "files"}, n \in 1..ATTEMPTS : [at |-> l, left |-> n] \in Job
  BY Bounds DEF NoJob, NewJob, Job

LEMMA JobEndsIs ==
  ASSUME TypeOK, NEW s \in Story, JobEnds(s)
  PROVE  /\ job' \in [Story -> Job] /\ job'[s] = NoJob /\ job'[s].at = "none"
         /\ \A z \in Story \ {s} : job'[z] = job[z]
  BY JobTypes DEF JobEnds, TypeOK, NoJob

LEMMA JobThrowsIs ==
  ASSUME TypeOK, NEW s \in Story, job[s].at # "none", JobThrows(s)
  PROVE  /\ job' \in [Story -> Job] /\ job'[s].at \in {"none", "queued"}
         /\ \A z \in Story \ {s} : job'[z] = job[z]
  <1>1. job[s] \in Job /\ job[s].left \in 1..ATTEMPTS
    BY JobTypes DEF TypeOK
  <1> DEFINE next == IF job[s].left > 1 THEN [at |-> "queued", left |-> job[s].left - 1] ELSE NoJob
  <1>2. next \in Job /\ next.at \in {"none", "queued"}
    <2>1. CASE job[s].left > 1
      <3>1. job[s].left - 1 \in 1..ATTEMPTS
        BY <1>1, <2>1, Bounds
      <3>2. QED BY <2>1, <3>1, JobTypes
    <2>2. CASE ~(job[s].left > 1)
      BY <2>2, JobTypes DEF NoJob
    <2>3. QED BY <2>1, <2>2
  <1>3. job' = [job EXCEPT ![s] = next]
    BY DEF JobThrows
  <1>4. QED BY <1>2, <1>3 DEF TypeOK

LEMMA JobAtIs ==
  ASSUME TypeOK, NEW s \in Story, job[s].at # "none", NEW l \in {"delete", "files"}, JobAt(s, l)
  PROVE  /\ job' \in [Story -> Job] /\ job'[s].at = l
         /\ \A z \in Story \ {s} : job'[z] = job[z]
  <1>1. job[s] \in Job /\ job[s].left \in 1..ATTEMPTS
    BY JobTypes DEF TypeOK
  <1>2. [job[s] EXCEPT !.at = l] = [at |-> l, left |-> job[s].left]
    BY <1>1 DEF Job, NoJob
  <1>3. [job[s] EXCEPT !.at = l] \in Job
    BY <1>1, <1>2, JobTypes
  <1>4. QED BY <1>2, <1>3 DEF JobAt, TypeOK

LEMMA CreateRowIs ==
  ASSUME TypeOK, NEW s \in Story, NEW media \in Media, CreateRow(s, media)
  PROVE  /\ row' \in [Story -> Life] /\ row'[s] = "live"
         /\ file' \in [Story -> Media] /\ file'[s] = media
         /\ job' \in [Story -> Job] /\ job'[s] \in {NewJob, job[s]}
         /\ \A z \in Story \ {s} : row'[z] = row[z] /\ file'[z] = file[z] /\ job'[z] = job[z]
         /\ archived' \subseteq Story /\ archived' \subseteq archived \cup {s}
         /\ faults' \in Nat /\ (faults' = faults \/ faults' > 0)
  <1>1. row' \in [Story -> Life] /\ row'[s] = "live" /\ \A z \in Story \ {s} : row'[z] = row[z]
    BY DEF CreateRow, TypeOK, Life
  <1>2. file' \in [Story -> Media] /\ file'[s] = media /\ \A z \in Story \ {s} : file'[z] = file[z]
    BY DEF CreateRow, TypeOK
  <1>3. /\ job' \in [Story -> Job] /\ job'[s] \in {NewJob, job[s]}
        /\ \A z \in Story \ {s} : job'[z] = job[z]
    BY JobTypes DEF CreateRow, TypeOK
  <1>4. archived' \subseteq Story /\ archived' \subseteq archived \cup {s}
    BY DEF CreateRow, TypeOK
  <1>5. faults' \in Nat /\ (faults' = faults \/ faults' > 0)
    BY FaultIs DEF CreateRow, TypeOK
  <1>6. QED BY <1>1, <1>2, <1>3, <1>4, <1>5
-----------------------------------------------------------------------------
(***************************************************************************)
(* Types.                                                                  *)
(***************************************************************************)
LEMMA TypeInit == Init => TypeOK
  <1> SUFFICES ASSUME Init PROVE TypeOK
    OBVIOUS
  <1>1. Idle \in Request
    BY DEF Idle, Request
  <1>2. req \in [Req -> Request] /\ job \in [Story -> Job]
    BY <1>1, JobTypes DEF Init
  <1>3. row \in [Story -> Life] /\ file \in [Story -> Media] /\ highlight \in [Highlight -> Life]
    BY DEF Init, Life, Media
  <1>4. faults \in Nat
    BY DEF Init
  <1>5. cron \in Cron
    BY DEF Init, Cron
  <1>6. QED BY <1>2, <1>3, <1>4, <1>5 DEF Init, TypeOK, Media

\* The sweep's record.
LEMMA CronIs ==
  ASSUME TypeOK
  PROVE  /\ cron.list \subseteq Story /\ cron.victim \in Story \cup {None}
         /\ \A found \in SUBSET Story, v \in Story \cup {None} :
              [list |-> found, victim |-> v] \in Cron
  BY DEF TypeOK, Cron

LEMMA AddLinksIs ==
  ASSUME TypeOK, NEW h \in Highlight, NEW stories \in SUBSET Story, AddLinks(h, stories)
  PROVE  /\ linked' \in [Highlight -> SUBSET Story] /\ late' \subseteq Story
         /\ late' = late \cup {s \in stories : Condemned(s)}
         /\ InHighlight' \subseteq InHighlight \cup stories
  <1>1. /\ linked' \in [Highlight -> SUBSET Story]
        /\ \A g \in Highlight : linked'[g] \subseteq linked[g] \cup stories
    BY DEF AddLinks, TypeOK
  <1>2. QED BY <1>1 DEF AddLinks, TypeOK, InHighlight

LEMMA CreateTypes ==
  ASSUME TypeOK, NEW r \in Req,
         PutMedia(r) \/ InsertStory(r) \/ Created(r) \/ CreateFails(r) \/ UndoCreate(r)
  PROVE  TypeOK'
  <1>1. CASE PutMedia(r)
    <2>1. PICK s \in Story :
            /\ store' = store \cup {s}
            /\ Become(r, [at |-> "insert", picked |-> req[r].picked \cup {s}, target |-> None])
      BY <1>1 DEF PutMedia
    <2>2. req' \in [Req -> Request]
      <3>1. req[r].picked \cup {s} \in SUBSET Story /\ "insert" \in Label
        BY RequestFields DEF Label
      <3>2. QED BY <2>1, <3>1, BecomesIs
    <2>3. QED BY <1>1, <2>1, <2>2 DEF PutMedia, Media, service, showcase, history, TypeOK
  <1>2. CASE InsertStory(r)
    <2>1. PICK s \in Story : CreateRow(s, s)
      BY <1>2, RequestFields DEF InsertStory
    <2>2. req' \in [Req -> Request]
      BY <1>2, GotoIs DEF InsertStory, Label
    <2>3. s \in Media
      BY DEF Media
    <2>4. QED BY <2>1, <2>2, <2>3, CreateRowIs DEF CreateRow, showcase, history, TypeOK
  <1>3. CASE Created(r)
    BY <1>3, EndsIs DEF Created, service, showcase, history, TypeOK
  <1>4. CASE CreateFails(r)
    <2>1. req' \in [Req -> Request] /\ undone' \subseteq Story
      BY <1>4, GotoIs, RequestFields DEF CreateFails, Label, TypeOK
    <2>2. QED BY <1>4, <2>1, FaultIs DEF CreateFails, service, showcase, TypeOK
  <1>5. CASE UndoCreate(r)
    BY <1>5, EndsIs, RemoveMediaIs DEF UndoCreate, service, showcase, history, TypeOK
  <1>6. QED BY <1>1, <1>2, <1>3, <1>4, <1>5

LEMMA RepostAndRemoveTypes ==
  ASSUME TypeOK, NEW r \in Req,
         \/ RepostRead(r) \/ InsertRepost(r) \/ RemoveRead(r) \/ RemoveDelete(r) \/ RemoveFiles(r)
         \/ RemovePostRead(r) \/ RemovePostDelete(r) \/ RemovePostFiles(r)
  PROVE  TypeOK'
  <1>1. CASE RepostRead(r) \/ RemovePostRead(r)
    <2>1. req' \in [Req -> Request]
      BY <1>1, BecomesIs DEF RepostRead, RemovePostRead, Label, TypeOK
    <2>2. QED BY <1>1, <2>1 DEF RepostRead, RemovePostRead, service, showcase, history, TypeOK
  <1>2. CASE InsertRepost(r)
    <2>1. req' \in [Req -> Request]
      BY <1>2, EndsIs DEF InsertRepost
    <2>2. CASE \E s \in Story : CreateRow(s, req[r].target) /\ req[r].target \in post
      <3>1. PICK s \in Story : CreateRow(s, req[r].target) /\ req[r].target \in post
        BY <2>2
      <3>2. req[r].target \in Media
        BY <3>1 DEF TypeOK, Media
      <3>3. QED BY <2>1, <3>1, <3>2, CreateRowIs DEF CreateRow, showcase, history, TypeOK
    <2>3. CASE UNCHANGED <<service, post, store, showcase, job, cron, faults, history>>
      BY <2>1, <2>3 DEF service, showcase, history, TypeOK
    <2>4. QED BY <1>2, <2>2, <2>3 DEF InsertRepost
  <1>3. CASE RemoveRead(r)
    <2>1. req' \in [Req -> Request]
      BY <1>3, BecomesIs DEF RemoveRead, Live, Label
    <2>2. QED BY <1>3, <2>1 DEF RemoveRead, service, showcase, history, TypeOK
  <1>4. CASE RemoveDelete(r)
    <2>1. req' \in [Req -> Request]
      BY <1>4, GotoIs, EndsIs DEF RemoveDelete, Label
    <2>2. row' \in [Story -> Life] /\ linked' \in [Highlight -> SUBSET Story]
      BY <1>4, DeleteRowIs, RequestFields DEF RemoveDelete, TypeOK
    <2>3. QED BY <1>4, <2>1, <2>2 DEF RemoveDelete, history, TypeOK
  <1>5. CASE RemoveFiles(r)
    <2>1. PICK s \in Story : RemoveMedia({file[s]})
      BY <1>5, RequestFields DEF RemoveFiles
    <2>2. QED BY <1>5, <2>1, EndsIs, RemoveMediaIs
          DEF RemoveFiles, service, showcase, history, TypeOK
  <1>6. CASE RemovePostDelete(r)
    <2>1. req' \in [Req -> Request]
      BY <1>6, GotoIs, EndsIs DEF RemovePostDelete, Label
    <2>2. QED BY <1>6, <2>1 DEF RemovePostDelete, service, showcase, history, TypeOK
  <1>7. CASE RemovePostFiles(r)
    BY <1>7, EndsIs, RemoveMediaIs DEF RemovePostFiles, service, showcase, history, TypeOK
  <1>8. QED BY <1>1, <1>2, <1>3, <1>4, <1>5, <1>6, <1>7

LEMMA HighlightTypes ==
  ASSUME TypeOK, NEW r \in Req,
         \/ HighlightRead(r) \/ CreateHighlight(r) \/ UnlinkAll(r) \/ Relink(r) \/ UpdateCover(r)
         \/ RemoveHighlight(r) \/ Crash(r)
  PROVE  TypeOK'
  <1>1. CASE HighlightRead(r)
    <2>1. req' \in [Req -> Request]
      BY <1>1, BecomesIs DEF HighlightRead, Live, Label
    <2>2. QED BY <1>1, <2>1 DEF HighlightRead, service, showcase, history, TypeOK
  <1>2. CASE CreateHighlight(r)
    <2>1. req' \in [Req -> Request]
      BY <1>2, EndsIs DEF CreateHighlight
    <2>2. CASE highlight' = [highlight EXCEPT ![req[r].target] = "live"]
               /\ AddLinks(req[r].target, req[r].picked)
      <3>1. highlight' \in [Highlight -> Life]
        BY <2>2 DEF TypeOK, Life
      <3>2. linked' \in [Highlight -> SUBSET Story] /\ late' \subseteq Story
        BY <2>2, RequestFields DEF AddLinks, TypeOK
      <3>3. CASE cover' = cover
        BY <1>2, <2>1, <3>1, <3>2, <3>3 DEF CreateHighlight, service, TypeOK
      <3>4. ASSUME NEW m \in {None} \cup {file[s] : s \in req[r].picked},
                   cover' = [cover EXCEPT ![req[r].target] = m]
            PROVE  TypeOK'
        <4>1. m \in Media \cup {None}
          BY RequestFields DEF TypeOK
        <4>2. cover' \in [Highlight -> Media \cup {None}]
          BY <3>4, <4>1 DEF TypeOK
        <4>3. QED BY <1>2, <2>1, <3>1, <3>2, <4>2 DEF CreateHighlight, service, TypeOK
      <3>5. QED BY <1>2, <3>3, <3>4 DEF CreateHighlight, showcase
    <2>3. CASE UNCHANGED <<showcase, late>>
      BY <1>2, <2>1, <2>3 DEF CreateHighlight, service, showcase, TypeOK
    <2>4. QED BY <1>2, <2>2, <2>3 DEF CreateHighlight
  <1>3. CASE UnlinkAll(r)
    <2>1. req' \in [Req -> Request]
      BY <1>3, GotoIs DEF UnlinkAll, Label
    <2>2. linked' \in [Highlight -> SUBSET Story]
      BY <1>3 DEF UnlinkAll, TypeOK
    <2>3. QED BY <1>3, <2>1, <2>2 DEF UnlinkAll, service, history, TypeOK
  <1>4. CASE Relink(r)
    <2>1. req' \in [Req -> Request]
      BY <1>4, GotoIs, EndsIs DEF Relink, Label
    <2>2. linked' \in [Highlight -> SUBSET Story] /\ late' \subseteq Story
      BY <1>4, RequestFields DEF Relink, AddLinks, TypeOK
    <2>3. QED BY <1>4, <2>1, <2>2 DEF Relink, service, TypeOK
  <1>5. CASE RemoveHighlight(r)
    <2>1. highlight' \in [Highlight -> Life] /\ linked' \in [Highlight -> SUBSET Story]
      BY <1>5 DEF RemoveHighlight, TypeOK, Life
    <2>2. cover' \in [Highlight -> Media \cup {None}]
      BY <1>5 DEF RemoveHighlight, TypeOK
    <2>3. QED BY <1>5, <2>1, <2>2, EndsIs DEF RemoveHighlight, service, history, TypeOK
  <1>6. CASE Crash(r)
    BY <1>6, EndsIs, FaultIs DEF Crash, service, showcase, history, TypeOK
  <1>7. CASE UpdateCover(r)
    <2>1. cover' \in [Highlight -> Media \cup {None}]
      BY <1>7 DEF UpdateCover, TypeOK
    <2>2. QED BY <1>7, <2>1, EndsIs DEF UpdateCover, service, history, TypeOK
  <1>8. QED BY <1>1, <1>2, <1>3, <1>4, <1>5, <1>6, <1>7

LEMMA DeleterTypes ==
  ASSUME TypeOK,
         \/ \E s \in Story : \/ Expire(s) \/ JobRead(s) \/ JobDelete(s) \/ JobFiles(s)
                             \/ JobFails(s) \/ CronDelete(s)
         \/ CronRead \/ CronFiles \/ CronCrash
  PROVE  TypeOK'
  <1>1. ASSUME NEW s \in Story, Expire(s) PROVE TypeOK'
    BY <1>1 DEF Expire, showcase, history, TypeOK
  <1>2. ASSUME NEW s \in Story, JobRead(s) PROVE TypeOK'
    <2>1. job' \in [Story -> Job]
      BY <1>2, JobEndsIs, JobThrowsIs, JobAtIs DEF JobRead, JobComesUp
    <2>2. faults' \in Nat
      BY <1>2, FaultIs DEF JobRead, JobComesUp, TypeOK
    <2>3. QED BY <1>2, <2>1, <2>2 DEF JobRead, service, showcase, history, TypeOK
  <1>3. ASSUME NEW s \in Story, JobDelete(s) PROVE TypeOK'
    <2>1. job' \in [Story -> Job]
      BY <1>3, JobThrowsIs, JobAtIs DEF JobDelete
    <2>2. row' \in [Story -> Life] /\ linked' \in [Highlight -> SUBSET Story]
      BY <1>3, DeleteRowIs DEF JobDelete, TypeOK
    <2>3. QED BY <1>3, <2>1, <2>2 DEF JobDelete, history, TypeOK
  <1>4. ASSUME NEW s \in Story, JobFiles(s) PROVE TypeOK'
    BY <1>4, JobEndsIs, RemoveMediaIs DEF JobFiles, service, showcase, history, TypeOK
  <1>5. ASSUME NEW s \in Story, JobFails(s) PROVE TypeOK'
    BY <1>5, JobThrowsIs, FaultIs DEF JobFails, service, showcase, history, TypeOK
  <1>6. ASSUME NEW s \in Story, CronDelete(s) PROVE TypeOK'
    <2>1. cron' \in Cron
      BY <1>6 DEF CronDelete, TypeOK, Cron
    <2>2. row' \in [Story -> Life] /\ linked' \in [Highlight -> SUBSET Story]
      BY <1>6, DeleteRowIs DEF CronDelete, TypeOK
    <2>3. faults' \in Nat /\ undeleted' \subseteq Story
      BY <1>6, FaultIs DEF CronDelete, TypeOK
    <2>4. QED BY <1>6, <2>1, <2>2, <2>3 DEF CronDelete, TypeOK
  <1>7. CASE CronRead
    <2>1. cron' \in Cron
      BY <1>7 DEF CronRead, Sweepable, Live, TypeOK, Cron
    <2>2. QED BY <1>7, <2>1 DEF CronRead, service, showcase, history, TypeOK
  <1>8. CASE CronFiles
    <2>1. cron' \in Cron
      BY <1>8, CronIs DEF CronFiles
    <2>2. QED BY <1>8, <2>1, RemoveMediaIs DEF CronFiles, service, showcase, history, TypeOK
  <1>9. CASE CronCrash
    <2>1. cron' \in Cron
      BY <1>9, CronIs DEF CronCrash
    <2>2. QED BY <1>9, <2>1, FaultIs DEF CronCrash, service, showcase, history, TypeOK
  <1>10. QED BY <1>1, <1>2, <1>3, <1>4, <1>5, <1>6, <1>7, <1>8, <1>9

LEMMA RemoveByKeyTypes == ASSUME TypeOK, NEW m \in Media, RemoveByKey(m) PROVE TypeOK'
  <1>1. store' \subseteq Media /\ taken' \subseteq Media
    BY DEF RemoveByKey, TypeOK
  <1>2. QED BY <1>1 DEF RemoveByKey, service, showcase, TypeOK

LEMMA TypeNext == TypeOK /\ [Next]_vars => TypeOK'
  <1> SUFFICES ASSUME TypeOK, [Next]_vars PROVE TypeOK'
    OBVIOUS
  <1>1. CASE UNCHANGED vars
    BY <1>1 DEF vars, TypeOK
  <1>2. QED BY <1>1, CreateTypes, RepostAndRemoveTypes, HighlightTypes, RemoveByKeyTypes, DeleterTypes
        DEF Next

\* The rows, the links, the media, the jobs, the sweep and the handlers' locals keep
\* their types.
THEOREM TypeCorrect == Spec => []TypeOK
  <1>1. QED BY TypeInit, TypeNext, PTL DEF Spec
-----------------------------------------------------------------------------
(***************************************************************************)
(* StoryInv is inductive.  Most steps of a request are calm: the rows, the *)
(* jobs and the sweep do not move.                                         *)
(***************************************************************************)
Calm ==
  /\ UNCHANGED <<row, file, archived, due, job, cron, undeleted>>
  /\ \A s \in undone' \ undone : row[s] # "unborn"
  /\ late \subseteq late'
  /\ \A s \in InHighlight' \ InHighlight : Condemned(s) => s \in late'

LEMMA CalmKeeps ==
  ASSUME TypeOK, StoryInv, Calm
  PROVE  FilesOK' /\ BornOK' /\ CondemnedOK' /\ DeletersOK'
  <1>1. FilesOK' /\ DeletersOK'
    BY DEF StoryInv, Calm, FilesOK, DeletersOK
  <1>2. BornOK'
    BY DEF StoryInv, Calm, BornOK
  <1>3. CondemnedOK'
    <2>1. Live' = Live /\ \A s \in Story : Condemned(s)' = Condemned(s)
      BY DEF Calm, Live, Condemned
    <2>2. QED BY <2>1 DEF StoryInv, Calm, CondemnedOK, Live
  <1>4. QED BY <1>1, <1>2, <1>3

\* Rows only move from unborn to live to gone, posts only go.
Onward ==
  /\ \A s \in Story : /\ row[s] = "gone" => row'[s] = "gone"
                      /\ row'[s] = "unborn" => row[s] = "unborn"
  /\ post' \subseteq post
  /\ undone \subseteq undone'

\* A request that does not move keeps what it relies on.
LEMMA OthersKeep ==
  ASSUME TypeOK, NEW q \in Req, RequestOK(q), req'[q] = req[q], Onward,
         Creating(q) => \A s \in req[q].picked :
                          /\ row[s] = "unborn" => row'[s] = "unborn"
                          /\ row[s] = "unborn" /\ s \in store => s \in store'
  PROVE  RequestOK(q)'
  <1>1. req[q].picked \subseteq Story
    BY RequestFields
  <1>2. QED BY <1>1 DEF RequestOK, Onward, Creating

LEMMA PicksStayApart ==
  ASSUME TypeOK, PicksApart, NEW r \in Req, \A q \in Req \ {r} : req'[q] = req[q],
         \/ req'[r].at \notin {"insert", "more", "undo"}
         \/ Creating(r) /\ req'[r].picked = req[r].picked
  PROVE  PicksApart'
  BY DEF PicksApart, Creating

LEMMA PutMediaKeeps ==
  ASSUME TypeOK, StoryInv, NEW r \in Req, PutMedia(r)
  PROVE  StoryInv'
  <1>1. PICK s \in Story :
          /\ Unused(s) /\ store' = store \cup {s}
          /\ Become(r, [at |-> "insert", picked |-> req[r].picked \cup {s}, target |-> None])
    BY DEF PutMedia
  <1>2. /\ req'[r].at = "insert" /\ req'[r].picked = req[r].picked \cup {s}
        /\ \A q \in Req \ {r} : req'[q] = req[q]
    <2>1. req[r].picked \cup {s} \in SUBSET Story /\ "insert" \in Label
      BY RequestFields DEF Label
    <2>2. QED BY <1>1, <2>1, BecomesIs
  <1>3. Calm
    BY DEF PutMedia, Calm, service, showcase, history, InHighlight
  <1>4. Onward
    BY DEF PutMedia, Onward, service, history
  <1>5. \A q \in Req : RequestOK(q)
    BY DEF StoryInv, RequestsOK
  <1>6. ASSUME NEW q \in Req \ {r} PROVE RequestOK(q)'
    BY <1>1, <1>2, <1>4, <1>5, OthersKeep DEF PutMedia, service
  <1>7. RequestOK(r)'
    <2>1. \A z \in req[r].picked : row[z] = "unborn" => z \in store
      BY <1>5, RequestFields DEF PutMedia, RequestOK, Creating, At
    <2>2. row' = row
      BY DEF PutMedia, service
    <2>3. QED BY <1>1, <1>2, <2>1, <2>2 DEF RequestOK, Creating
  <1>8. PicksApart'
    <2>1. \A q \in Req \ {r} : Creating(q) => s \notin req[q].picked
      BY <1>1, <1>5 DEF RequestOK, Unused
    <2>2. req[r].at = "start" => req[r].picked = {}
      BY <1>5 DEF RequestOK
    <2>3. \A q \in Req \ {r} : Creating(q) => (req[r].picked \cup {s}) \cap req[q].picked = {}
      BY <2>1, <2>2 DEF StoryInv, PicksApart, Creating, PutMedia, At
    <2>4. QED BY <1>2, <2>3 DEF StoryInv, PicksApart, Creating
  <1>9. QED BY <1>3, <1>6, <1>7, <1>8, CalmKeeps DEF StoryInv, RequestsOK

LEMMA CreateFailsKeeps ==
  ASSUME TypeOK, StoryInv, NEW r \in Req, CreateFails(r)
  PROVE  StoryInv'
  <1>1. /\ req'[r].at = "undo" /\ req'[r].picked = req[r].picked
        /\ \A q \in Req \ {r} : req'[q] = req[q]
    BY GotoIs DEF CreateFails, Label
  <1>2. Calm
    BY DEF CreateFails, Calm, service, showcase, InHighlight
  <1>3. Onward /\ row' = row /\ store' = store
    BY DEF CreateFails, Onward, service
  <1>4. ASSUME NEW q \in Req \ {r} PROVE RequestOK(q)'
    BY <1>1, <1>3, OthersKeep DEF StoryInv, RequestsOK
  <1>5. RequestOK(r)'
    <2>1. Creating(r) /\ undone' = undone \cup {s \in req[r].picked : row[s] # "unborn"}
      BY DEF CreateFails, At, Creating
    <2>2. QED BY <1>1, <1>3, <2>1 DEF StoryInv, RequestsOK, RequestOK, Creating
  <1>6. PicksApart'
    BY <1>1, PicksStayApart DEF StoryInv, CreateFails, At, Creating
  <1>7. QED BY <1>2, <1>4, <1>5, <1>6, CalmKeeps DEF StoryInv, RequestsOK

LEMMA UndoCreateKeeps ==
  ASSUME TypeOK, StoryInv, NEW r \in Req, UndoCreate(r)
  PROVE  StoryInv'
  <1>1. req'[r].at = "end" /\ \A q \in Req \ {r} : req'[q] = req[q]
    BY EndsIs DEF UndoCreate
  <1>2. Calm
    BY DEF UndoCreate, Calm, service, showcase, history, InHighlight
  <1>3. Onward /\ row' = row
    BY DEF UndoCreate, Onward, service, history
  <1>4. store \ req[r].picked \subseteq store'
    BY RemoveMediaIs DEF UndoCreate
  <1>5. ASSUME NEW q \in Req \ {r} PROVE RequestOK(q)'
    <2>1. Creating(q) => req[q].picked \cap req[r].picked = {}
      BY DEF StoryInv, PicksApart, UndoCreate, At, Creating
    <2>2. RequestOK(q)
      BY DEF StoryInv, RequestsOK
    <2>3. QED BY <1>1, <1>3, <1>4, <2>1, <2>2, OthersKeep
  <1>6. RequestOK(r)'
    BY <1>1 DEF RequestOK, Creating
  <1>7. PicksApart'
    BY <1>1, PicksStayApart DEF StoryInv
  <1>8. QED BY <1>2, <1>5, <1>6, <1>7, CalmKeeps DEF StoryInv, RequestsOK

\* The calm steps that leave the creation of stories alone, or end it.
Aside(r) ==
  \/ Created(r) \/ RepostRead(r) \/ RemoveRead(r) \/ RemoveFiles(r) \/ RemovePostRead(r)
  \/ RemovePostDelete(r) \/ RemovePostFiles(r) \/ HighlightRead(r) \/ CreateHighlight(r)
  \/ UnlinkAll(r) \/ Relink(r) \/ UpdateCover(r) \/ RemoveHighlight(r) \/ Crash(r)

LEMMA AsideIsCalm ==
  ASSUME TypeOK, NEW r \in Req, Aside(r)
  PROVE  Calm
  <1>1. CASE \/ Created(r) \/ RepostRead(r) \/ RemoveRead(r) \/ RemoveFiles(r)
             \/ RemovePostRead(r) \/ RemovePostDelete(r) \/ RemovePostFiles(r)
             \/ HighlightRead(r) \/ UpdateCover(r) \/ Crash(r)
    BY <1>1 DEF Created, RepostRead, RemoveRead, RemoveFiles, RemovePostRead, RemovePostDelete,
         RemovePostFiles, HighlightRead, UpdateCover, Crash, Calm, service, showcase, history, InHighlight
  <1>2. CASE CreateHighlight(r)
    <2>1. UNCHANGED <<row, file, archived, due, job, cron, undeleted, undone>>
      BY <1>2 DEF CreateHighlight, service
    <2>2. CASE UNCHANGED <<showcase, late>>
      BY <2>1, <2>2 DEF Calm, showcase, InHighlight
    <2>3. CASE AddLinks(req[r].target, req[r].picked)
      <3>1. late \subseteq late' /\ InHighlight' \subseteq InHighlight \cup req[r].picked
        BY <2>3, RequestFields DEF AddLinks, TypeOK, InHighlight
      <3>2. QED BY <2>1, <2>3, <3>1 DEF Calm, AddLinks
    <2>4. QED BY <1>2, <2>2, <2>3 DEF CreateHighlight
  <1>3. CASE Relink(r)
    <2>1. UNCHANGED <<row, file, archived, due, job, cron, undeleted, undone>>
      BY <1>3 DEF Relink, service
    <2>2. CASE UNCHANGED <<linked, late>>
      BY <2>1, <2>2 DEF Calm, InHighlight
    <2>3. CASE AddLinks(req[r].target, req[r].picked)
      <3>1. late \subseteq late' /\ InHighlight' \subseteq InHighlight \cup req[r].picked
        BY <2>3, RequestFields DEF AddLinks, TypeOK, InHighlight
      <3>2. QED BY <2>1, <2>3, <3>1 DEF Calm, AddLinks
    <2>4. QED BY <1>3, <2>2, <2>3 DEF Relink
  <1>4. CASE UnlinkAll(r) \/ RemoveHighlight(r)
    <2>1. \A h \in Highlight : linked'[h] \subseteq linked[h]
      BY <1>4 DEF UnlinkAll, RemoveHighlight, TypeOK
    <2>2. InHighlight' \subseteq InHighlight
      BY <2>1 DEF InHighlight
    <2>3. QED BY <1>4, <2>2 DEF UnlinkAll, RemoveHighlight, Calm, service, history
  <1>5. QED BY <1>1, <1>2, <1>3, <1>4 DEF Aside

LEMMA AsideMoves ==
  ASSUME TypeOK, StoryInv, NEW r \in Req, Aside(r)
  PROVE  /\ \A q \in Req \ {r} : req'[q] = req[q]
         /\ req'[r].at \notin {"start", "insert", "more", "undo", "files"}
         /\ RequestOK(r)'
  <1> DEFINE Moved(labels) == /\ \A q \in Req \ {r} : req'[q] = req[q]
                              /\ req'[r].at \in labels
  <1>1. CASE \/ Created(r) \/ RemoveFiles(r) \/ RemovePostFiles(r) \/ CreateHighlight(r)
             \/ Relink(r) \/ UpdateCover(r) \/ RemoveHighlight(r) \/ Crash(r)
    <2>1. Moved({"end", "cover"})
      BY <1>1, EndsIs, GotoIs DEF Created, RemoveFiles, RemovePostFiles, CreateHighlight, Relink,
                          UpdateCover, RemoveHighlight, Crash, Label
    <2>2. QED BY <2>1 DEF RequestOK, Creating
  <1>2. CASE RepostRead(r) \/ RemovePostRead(r)
    <2>1. PICK p \in post, l \in {"insertRepost", "dropPost"} :
            Become(r, [at |-> l, picked |-> {}, target |-> p])
      BY <1>2 DEF RepostRead, RemovePostRead
    <2>2. p \in Post /\ l \in Label /\ {} \in SUBSET Story
      BY DEF Label, TypeOK
    <2>3. Moved({"insertRepost", "dropPost"}) /\ req'[r].target \in Post
      BY <2>1, <2>2, BecomesIs
    <2>4. QED BY <2>3 DEF RequestOK, Creating
  <1>3. CASE RemoveRead(r)
    <2>1. PICK s \in Live : Become(r, [at |-> "drop", picked |-> {s}, target |-> None])
      BY <1>3 DEF RemoveRead
    <2>2. s \in Story /\ row[s] = "live" /\ row' = row
      BY <1>3 DEF RemoveRead, Live, service
    <2>3. Moved({"drop"}) /\ req'[r].picked = {s}
      BY <2>1, <2>2, BecomesIs DEF Label
    <2>4. QED BY <2>2, <2>3 DEF RequestOK, Creating
  <1>4. CASE RemovePostDelete(r)
    <2>1. CASE Ends(r)
      <3>1. Moved({"end"})
        BY <2>1, EndsIs
      <3>2. QED BY <3>1 DEF RequestOK, Creating
    <2>2. CASE Goto(r, "postFiles")
      <3>1. Moved({"postFiles"}) /\ req'[r].target = req[r].target
        BY <2>2, GotoIs DEF Label
      <3>2. req[r].target \in Post /\ post' = post \ {req[r].target}
        BY <1>4 DEF RemovePostDelete, StoryInv, RequestsOK, RequestOK, At
      <3>3. QED BY <3>1, <3>2 DEF RequestOK, Creating
    <2>3. QED BY <1>4, <2>1, <2>2 DEF RemovePostDelete
  <1>5. CASE HighlightRead(r)
    <2>1. PICK h \in Highlight, stories \in SUBSET Live, l \in {"link", "unlink", "cover"} :
            Become(r, [at |-> l, picked |-> stories, target |-> h])
      BY <1>5 DEF HighlightRead
    <2>2. stories \in SUBSET Story /\ l \in Label
      BY DEF Live, Label
    <2>3. Moved({"link", "unlink", "cover"})
      BY <2>1, <2>2, BecomesIs
    <2>4. QED BY <2>3 DEF RequestOK, Creating
  <1>6. CASE UnlinkAll(r)
    <2>1. Moved({"relink"})
      BY <1>6, GotoIs DEF UnlinkAll, Label
    <2>2. QED BY <2>1 DEF RequestOK, Creating
  <1>7. QED BY <1>1, <1>2, <1>3, <1>4, <1>5, <1>6 DEF Aside

\* No removal of media takes what a creator has just uploaded.
LEMMA UploadsStay ==
  ASSUME TypeOK, StoryInv, NEW r \in Req, Aside(r), NEW s \in Story, row[s] = "unborn", s \in store
  PROVE  s \in store'
  <1>1. CASE RemoveFiles(r)
    <2>1. PICK z \in req[r].picked : RemoveMedia({file[z]})
      BY <1>1 DEF RemoveFiles
    <2>2. z \in Story /\ row[z] = "gone"
      BY <1>1, <2>1, RequestFields DEF RemoveFiles, StoryInv, RequestsOK, RequestOK, At
    <2>3. file[z] # s
      BY <2>2, Apart DEF StoryInv, FilesOK
    <2>4. QED BY <2>1, <2>3, RemoveMediaIs
  <1>2. CASE RemovePostFiles(r)
    <2>1. req[r].target # s
      BY <1>2, Apart DEF RemovePostFiles, StoryInv, RequestsOK, RequestOK, At
    <2>2. QED BY <1>2, <2>1, RemoveMediaIs DEF RemovePostFiles
  <1>3. CASE ~RemoveFiles(r) /\ ~RemovePostFiles(r)
    BY <1>3 DEF Aside, Created, RepostRead, RemoveRead, RemovePostRead, RemovePostDelete,
         HighlightRead, CreateHighlight, UnlinkAll, Relink, UpdateCover, RemoveHighlight, Crash
  <1>4. QED BY <1>1, <1>2, <1>3

LEMMA AsideKeeps ==
  ASSUME TypeOK, StoryInv, NEW r \in Req, Aside(r)
  PROVE  StoryInv'
  <1>1. Calm
    BY AsideIsCalm
  <1>2. Onward
    <2>1. post' \subseteq post /\ undone' = undone
      BY DEF Aside, Created, RepostRead, RemoveRead, RemoveFiles, RemovePostRead,
             RemovePostDelete, RemovePostFiles, HighlightRead, CreateHighlight, UnlinkAll, Relink,
             UpdateCover, RemoveHighlight, Crash, history
    <2>2. QED BY <1>1, <2>1 DEF Calm, Onward
  <1>3. ASSUME NEW q \in Req \ {r} PROVE RequestOK(q)'
    <2>1. RequestOK(q) /\ req'[q] = req[q] /\ req[q].picked \subseteq Story
      BY AsideMoves, RequestFields DEF StoryInv, RequestsOK
    <2>2. QED BY <1>1, <1>2, <2>1, UploadsStay, OthersKeep DEF Calm
  <1>4. RequestOK(r)' /\ PicksApart'
    BY AsideMoves, PicksStayApart DEF StoryInv
  <1>5. QED BY <1>1, <1>3, <1>4, CalmKeeps DEF StoryInv, RequestsOK
\* A story appears: nothing speaks of it yet.
LEMMA CreateRowKeeps ==
  ASSUME TypeOK, StoryInv, NEW s \in Story, row[s] = "unborn", NEW media \in {s} \cup Post,
         CreateRow(s, media)
  PROVE  FilesOK' /\ BornOK' /\ CondemnedOK' /\ DeletersOK' /\ Onward
  <1>1. /\ row'[s] = "live" /\ file'[s] = media /\ job'[s] \in {NewJob, NoJob}
        /\ \A z \in Story \ {s} : row'[z] = row[z] /\ file'[z] = file[z] /\ job'[z] = job[z]
        /\ archived' \subseteq archived \cup {s}
    BY CreateRowIs DEF StoryInv, BornOK, Media
  <1>2. /\ UNCHANGED <<due, post, linked, cron, late, undeleted, undone>>
        /\ s \notin cron.list /\ s \notin undeleted
    BY DEF CreateRow, showcase, history, StoryInv, BornOK
  <1>3. job'[s].at \in {"queued", "none"}
    BY <1>1 DEF NewJob, NoJob
  <1>4. FilesOK'
    BY <1>1 DEF StoryInv, FilesOK
  <1>5. BornOK'
    BY <1>1, <1>2 DEF StoryInv, BornOK
  <1>6. CondemnedOK'
    <2>1. ~Condemned(s)'
      BY <1>2, <1>3 DEF Condemned
    <2>2. \A z \in Story \ {s} : Condemned(z)' = Condemned(z)
      BY <1>1, <1>2 DEF Condemned
    <2>3. InHighlight' = InHighlight
      BY <1>2 DEF InHighlight
    <2>4. QED BY <1>1, <1>2, <2>1, <2>2, <2>3 DEF StoryInv, CondemnedOK, Live
  <1>7. DeletersOK'
    BY <1>1, <1>2, <1>3, NoMedia DEF StoryInv, DeletersOK, TypeOK, Cron
  <1>8. Onward
    BY <1>1, <1>2 DEF Onward
  <1>9. QED BY <1>4, <1>5, <1>6, <1>7, <1>8

LEMMA InsertStoryKeeps ==
  ASSUME TypeOK, StoryInv, NEW r \in Req, InsertStory(r)
  PROVE  StoryInv'
  <1>1. PICK s \in req[r].picked : row[s] = "unborn" /\ CreateRow(s, s)
    BY DEF InsertStory
  <1>2. s \in Story /\ s \in Media
    BY RequestFields DEF Media
  <1>3. FilesOK' /\ BornOK' /\ CondemnedOK' /\ DeletersOK' /\ Onward
    BY <1>1, <1>2, CreateRowKeeps
  <1>4. /\ req'[r].at = "more" /\ req'[r].picked = req[r].picked
        /\ \A q \in Req \ {r} : req'[q] = req[q]
    BY GotoIs DEF InsertStory, Label
  <1>5. /\ \A z \in Story \ {s} : row'[z] = row[z]
        /\ row'[s] = "live" /\ store' = store
    BY <1>1, <1>2, CreateRowIs DEF CreateRow
  <1>6. ASSUME NEW q \in Req \ {r} PROVE RequestOK(q)'
    <2>1. Creating(q) => s \notin req[q].picked
      BY <1>1 DEF StoryInv, PicksApart, InsertStory, At, Creating
    <2>2. RequestOK(q) /\ req[q].picked \subseteq Story
      BY RequestFields DEF StoryInv, RequestsOK
    <2>3. QED BY <1>3, <1>4, <1>5, <2>1, <2>2, OthersKeep
  <1>7. RequestOK(r)'
    <2>1. \A z \in req[r].picked : row[z] = "unborn" => z \in store
      BY DEF InsertStory, At, StoryInv, RequestsOK, RequestOK, Creating
    <2>2. QED BY <1>4, <1>5, <2>1, RequestFields DEF RequestOK, Creating
  <1>8. PicksApart'
    BY <1>4, PicksStayApart DEF StoryInv, InsertStory, At, Creating
  <1>9. QED BY <1>3, <1>6, <1>7, <1>8 DEF StoryInv, RequestsOK

LEMMA InsertRepostKeeps ==
  ASSUME TypeOK, StoryInv, NEW r \in Req, InsertRepost(r)
  PROVE  StoryInv'
  <1>1. req'[r].at = "end" /\ \A q \in Req \ {r} : req'[q] = req[q]
    BY EndsIs DEF InsertRepost
  <1>2. RequestOK(r)' /\ PicksApart'
    BY <1>1, PicksStayApart DEF StoryInv, RequestOK, Creating
  <1>3. CASE UNCHANGED <<service, post, store, showcase, job, cron, faults, history>>
    <2>1. Calm /\ Onward /\ row' = row /\ store' = store
      BY <1>3 DEF Calm, Onward, service, showcase, history, InHighlight
    <2>2. ASSUME NEW q \in Req \ {r} PROVE RequestOK(q)'
      BY <1>1, <2>1, OthersKeep DEF StoryInv, RequestsOK
    <2>3. QED BY <1>2, <2>1, <2>2, CalmKeeps DEF StoryInv, RequestsOK
  <1>4. CASE ~UNCHANGED <<service, post, store, showcase, job, cron, faults, history>>
    <2>1. PICK s \in Story : Unused(s) /\ CreateRow(s, req[r].target) /\ req[r].target \in post
      BY <1>4 DEF InsertRepost
    <2>2. req[r].target \in Post /\ req[r].target \in Media /\ row[s] = "unborn" /\ s \notin store
      BY <2>1 DEF TypeOK, Media, Unused
    <2>3. FilesOK' /\ BornOK' /\ CondemnedOK' /\ DeletersOK' /\ Onward
      BY <2>1, <2>2, CreateRowKeeps
    <2>4. (\A z \in Story \ {s} : row'[z] = row[z]) /\ store' = store
      BY <2>1, <2>2, CreateRowIs DEF CreateRow
    <2>5. ASSUME NEW q \in Req \ {r} PROVE RequestOK(q)'
      <3>1. RequestOK(q) /\ req[q].picked \subseteq Story
        BY RequestFields DEF StoryInv, RequestsOK
      <3>2. Creating(q) => s \notin req[q].picked
        BY <2>2, <3>1 DEF RequestOK
      <3>3. QED BY <1>1, <2>3, <2>4, <3>1, <3>2, OthersKeep
    <2>6. QED BY <1>2, <2>3, <2>5 DEF StoryInv, RequestsOK
  <1>5. QED BY <1>3, <1>4

\* A row is deleted or stays; whoever asked for it may rely on its being gone.
LEMMA DeleteRowKeeps ==
  ASSUME TypeOK, StoryInv, NEW s \in Story, row[s] = "live",
         DeleteRow(s) \/ UNCHANGED <<row, linked>>,
         UNCHANGED <<file, archived, due, post, store, highlight, late, undone>>,
         undeleted \subseteq undeleted'
  PROVE  /\ \A z \in Live' : z \in Live /\ (z \in InHighlight' => z \in InHighlight)
         /\ Onward /\ FilesOK'
         /\ \A z \in Story : row'[z] = "unborn" <=> row[z] = "unborn"
  <1>1. /\ \A z \in Story \ {s} : row'[z] = row[z]
        /\ row'[s] \in {"live", "gone"} /\ InHighlight' \subseteq InHighlight
    BY DeleteRowIs DEF InHighlight
  <1>2. QED BY <1>1 DEF Live, Onward, StoryInv, FilesOK

LEMMA CondemnedStay ==
  ASSUME StoryInv, UNCHANGED <<due, archived, late>>,
         \A z \in Live' : z \in Live /\ (z \in InHighlight' => z \in InHighlight),
         \A z \in Story : Condemned(z)' => Condemned(z)
  PROVE  CondemnedOK'
  <1> SUFFICES ASSUME NEW z \in Live', Condemned(z)'
               PROVE  z \in due \ archived /\ (z \in InHighlight' => z \in late)
    BY DEF CondemnedOK
  <1>1. z \in Story /\ z \in Live /\ Condemned(z)
    BY DEF Live
  <1>2. QED BY <1>1 DEF StoryInv, CondemnedOK

LEMMA RemoveDeleteKeeps ==
  ASSUME TypeOK, StoryInv, NEW r \in Req, RemoveDelete(r)
  PROVE  StoryInv'
  <1>1. PICK s \in Story : req[r].picked = {s} /\ row[s] # "unborn"
    BY DEF RemoveDelete, At, StoryInv, RequestsOK, RequestOK
  <1>2. UNCHANGED <<file, archived, due, post, store, highlight, job, cron, faults,
                    late, undeleted, undone>>
    BY DEF RemoveDelete, history
  <1>3. CASE row[s] # "live"
    <2>1. Ends(r) /\ UNCHANGED <<row, linked>>
      BY <1>1, <1>3 DEF RemoveDelete, Live
    <2>2. req'[r].at = "end" /\ \A q \in Req \ {r} : req'[q] = req[q]
      BY <2>1, EndsIs
    <2>3. Calm /\ Onward
      BY <1>2, <2>1 DEF Calm, Onward, InHighlight
    <2>4. ASSUME NEW q \in Req \ {r} PROVE RequestOK(q)'
      BY <1>2, <2>1, <2>2, <2>3, OthersKeep DEF StoryInv, RequestsOK
    <2>5. RequestOK(r)' /\ PicksApart'
      BY <2>2, PicksStayApart DEF StoryInv, RequestOK, Creating
    <2>6. QED BY <2>3, <2>4, <2>5, CalmKeeps DEF StoryInv, RequestsOK
  <1>4. CASE row[s] = "live"
    <2>1. Goto(r, "files") /\ DeleteRow(s)
      BY <1>1, <1>4 DEF RemoveDelete, Live
    <2>2. /\ req'[r].at = "files" /\ req'[r].picked = {s}
          /\ \A q \in Req \ {r} : req'[q] = req[q]
      BY <1>1, <2>1, GotoIs DEF Label
    <2>3. /\ \A z \in Live' : z \in Live /\ (z \in InHighlight' => z \in InHighlight)
          /\ Onward /\ FilesOK'
          /\ \A z \in Story : row'[z] = "unborn" <=> row[z] = "unborn"
      BY <1>2, <1>4, <2>1, DeleteRowKeeps
    <2>4. row'[s] = "gone"
      BY <2>1, DeleteRowIs
    <2>5. BornOK' /\ CondemnedOK'
      <3>1. BornOK'
        BY <1>2, <2>3 DEF StoryInv, BornOK
      <3>2. \A z \in Story : Condemned(z)' => Condemned(z)
        BY <1>2 DEF Condemned
      <3>3. QED BY <1>2, <2>3, <3>1, <3>2, CondemnedStay
    <2>6. DeletersOK'
      BY <1>2, <2>3 DEF StoryInv, DeletersOK, Onward, TypeOK, Cron
    <2>7. ASSUME NEW q \in Req \ {r} PROVE RequestOK(q)'
      <3>1. RequestOK(q) /\ req[q].picked \subseteq Story
        BY RequestFields DEF StoryInv, RequestsOK
      <3>2. QED BY <1>2, <2>2, <2>3, <3>1, OthersKeep
    <2>8. RequestOK(r)' /\ PicksApart'
      BY <2>2, <2>4, PicksStayApart DEF StoryInv, RequestOK, Creating
    <2>9. QED BY <2>3, <2>5, <2>6, <2>7, <2>8 DEF StoryInv, RequestsOK
  <1>5. QED BY <1>3, <1>4

\* The steps of the clock, the jobs and the sweep leave the requests alone.
LEMMA RequestsKeep ==
  ASSUME TypeOK, StoryInv, req' = req, Onward, post' = post,
         \A s \in Story : row'[s] = "unborn" <=> row[s] = "unborn",
         \A s \in Story : row[s] = "unborn" /\ s \in store => s \in store'
  PROVE  RequestsOK' /\ PicksApart'
  <1>1. ASSUME NEW q \in Req PROVE RequestOK(q)'
    <2>1. RequestOK(q) /\ req[q].picked \subseteq Story /\ req'[q] = req[q]
      BY RequestFields DEF StoryInv, RequestsOK
    <2>2. QED BY <2>1, OthersKeep
  <1>2. QED BY <1>1 DEF RequestsOK, StoryInv, PicksApart, Creating

\* Media of a story that was created is not what a creator has just uploaded.
LEMMA OldMediaOnly ==
  ASSUME TypeOK, StoryInv, NEW s \in Story, row[s] # "unborn", RemoveMedia({file[s]})
  PROVE  \A z \in Story : row[z] = "unborn" /\ z \in store => z \in store'
  <1>1. \A z \in Story : row[z] = "unborn" => z # file[s]
    BY Apart DEF StoryInv, FilesOK
  <1>2. QED BY <1>1, RemoveMediaIs

LEMMA RemoveByKeyKeeps ==
  ASSUME TypeOK, StoryInv, NEW m \in Media, RemoveByKey(m)
  PROVE  StoryInv'
  <1>1. /\ UNCHANGED <<row, file, archived, due, post, linked, job, cron, req, late, undeleted, undone>>
        /\ store' = store \ {m} /\ ~(m \in Story /\ row[m] = "unborn")
    BY DEF RemoveByKey, service, showcase
  <1>2. Calm /\ Onward
    BY <1>1 DEF Calm, Onward, InHighlight
  <1>3. FilesOK' /\ BornOK' /\ CondemnedOK' /\ DeletersOK'
    BY <1>2, CalmKeeps
  <1>4. RequestsOK' /\ PicksApart'
    BY <1>1, <1>2, RequestsKeep
  <1>5. QED BY <1>3, <1>4 DEF StoryInv

LEMMA ExpireKeeps ==
  ASSUME TypeOK, StoryInv, NEW s \in Story, Expire(s)
  PROVE  StoryInv'
  <1>1. /\ UNCHANGED <<row, file, archived, post, store, linked, job, cron, req,
                       late, undeleted, undone>>
        /\ due' = due \cup {s} /\ row[s] = "live"
    BY DEF Expire, showcase, history
  <1>2. Live' = Live /\ InHighlight' = InHighlight /\ \A z \in Story : Condemned(z)' = Condemned(z)
    BY <1>1 DEF Live, InHighlight, Condemned
  <1>3. FilesOK' /\ BornOK' /\ CondemnedOK' /\ DeletersOK'
    BY <1>1, <1>2 DEF StoryInv, FilesOK, BornOK, CondemnedOK, DeletersOK, Live
  <1>4. RequestsOK' /\ PicksApart'
    BY <1>1, RequestsKeep DEF Onward
  <1>5. QED BY <1>3, <1>4 DEF StoryInv

LEMMA JobReadKeeps ==
  ASSUME TypeOK, StoryInv, NEW s \in Story, JobRead(s)
  PROVE  StoryInv'
  <1>1. UNCHANGED <<row, file, archived, due, post, store, linked, cron, req,
                    late, undeleted, undone>>
    BY DEF JobRead, service, showcase, history
  <1>2. job[s].at = "queued" /\ row[s] # "unborn"
    BY DEF JobRead, JobComesUp, StoryInv, BornOK, NoJob
  <1>3. /\ \A z \in Story \ {s} : job'[z] = job[z]
        /\ job'[s].at # "files"
        /\ job'[s].at = "delete" => s \in due \ archived /\ s \notin InHighlight
    <2>1. CASE JobEnds(s)
      BY <2>1, JobEndsIs
    <2>2. CASE JobThrows(s)
      BY <1>2, <2>2, JobThrowsIs
    <2>3. CASE JobAt(s, "delete") /\ s \in due \ archived /\ s \notin InHighlight
      BY <1>2, <2>3, JobAtIs
    <2>4. QED BY <2>1, <2>2, <2>3 DEF JobRead
  <1>4. FilesOK' /\ BornOK' /\ DeletersOK'
    BY <1>1, <1>2, <1>3 DEF StoryInv, FilesOK, BornOK, DeletersOK
  <1>5. CondemnedOK'
    BY <1>1, <1>3 DEF StoryInv, CondemnedOK, Condemned, Live, InHighlight
  <1>6. RequestsOK' /\ PicksApart'
    BY <1>1, RequestsKeep DEF Onward
  <1>7. QED BY <1>4, <1>5, <1>6 DEF StoryInv

LEMMA JobDeleteKeeps ==
  ASSUME TypeOK, StoryInv, NEW s \in Story, JobDelete(s)
  PROVE  StoryInv'
  <1>1. UNCHANGED <<file, archived, due, post, store, highlight, cron, req, late, undeleted, undone>>
    BY DEF JobDelete, history
  <1>2. row[s] # "unborn" /\ row[s] \in Life
    BY DEF JobDelete, StoryInv, BornOK, NoJob, TypeOK
  <1>3. /\ \A z \in Story \ {s} : job'[z] = job[z]
        /\ job'[s].at # "delete" /\ (job'[s].at = "files" => row'[s] = "gone")
    <2>1. CASE row[s] = "live"
      BY <2>1, JobAtIs, DeleteRowIs DEF JobDelete
    <2>2. CASE row[s] # "live"
      BY <2>2, JobThrowsIs DEF JobDelete
    <2>3. QED BY <2>1, <2>2
  <1>4. /\ \A z \in Live' : z \in Live /\ (z \in InHighlight' => z \in InHighlight)
        /\ Onward /\ FilesOK'
        /\ \A z \in Story : row'[z] = "unborn" <=> row[z] = "unborn"
    <2>1. CASE row[s] = "live"
      BY <1>1, <2>1, DeleteRowKeeps DEF JobDelete
    <2>2. CASE row[s] # "live"
      <3>1. UNCHANGED <<row, linked>>
        BY <2>2 DEF JobDelete
      <3>2. QED BY <1>1, <3>1 DEF Live, InHighlight, Onward, StoryInv, FilesOK
    <2>3. QED BY <2>1, <2>2
  <1>5. BornOK'
    BY <1>1, <1>2, <1>3, <1>4 DEF StoryInv, BornOK
  <1>6. CondemnedOK'
    <2>1. \A z \in Story : Condemned(z)' => Condemned(z)
      BY <1>1, <1>3 DEF Condemned
    <2>2. QED BY <1>1, <1>4, <2>1, CondemnedStay
  <1>7. DeletersOK'
    BY <1>1, <1>3, <1>4 DEF StoryInv, DeletersOK, Onward, TypeOK, Cron
  <1>8. RequestsOK' /\ PicksApart'
    BY <1>1, <1>4, RequestsKeep
  <1>9. QED BY <1>4, <1>5, <1>6, <1>7, <1>8 DEF StoryInv

LEMMA JobEndKeeps ==
  ASSUME TypeOK, StoryInv, NEW s \in Story, JobFiles(s) \/ JobFails(s)
  PROVE  StoryInv'
  <1>1. UNCHANGED <<row, file, archived, due, post, linked, cron, req, late, undeleted, undone>>
    BY DEF JobFiles, JobFails, service, showcase, history
  <1>2. row[s] # "unborn"
    BY DEF JobFiles, JobFails, StoryInv, BornOK, NoJob
  <1>3. (\A z \in Story \ {s} : job'[z] = job[z]) /\ job'[s].at \in {"none", "queued"}
    BY JobEndsIs, JobThrowsIs DEF JobFiles, JobFails
  <1>4. \A z \in Story : row[z] = "unborn" /\ z \in store => z \in store'
    BY <1>2, OldMediaOnly DEF JobFiles, JobFails
  <1>5. FilesOK' /\ BornOK' /\ DeletersOK'
    BY <1>1, <1>2, <1>3 DEF StoryInv, FilesOK, BornOK, DeletersOK
  <1>6. CondemnedOK'
    BY <1>1, <1>3 DEF StoryInv, CondemnedOK, Condemned, Live, InHighlight
  <1>7. RequestsOK' /\ PicksApart'
    BY <1>1, <1>4, RequestsKeep DEF Onward
  <1>8. QED BY <1>5, <1>6, <1>7 DEF StoryInv

LEMMA CronReadKeeps ==
  ASSUME TypeOK, StoryInv, CronRead
  PROVE  StoryInv'
  <1>1. UNCHANGED <<row, file, archived, due, post, store, linked, job, req,
                    late, undeleted, undone>>
    BY DEF CronRead, service, showcase, history
  <1>2. cron'.list = Sweepable /\ cron'.victim = cron.victim /\ cron.list = {}
    BY DEF CronRead, TypeOK, Cron
  <1>3. FilesOK' /\ BornOK' /\ DeletersOK'
    BY <1>1, <1>2 DEF StoryInv, FilesOK, BornOK, DeletersOK, Sweepable, Live
  <1>4. CondemnedOK'
    BY <1>1, <1>2 DEF StoryInv, CondemnedOK, Condemned, Live, InHighlight, Sweepable
  <1>5. RequestsOK' /\ PicksApart'
    BY <1>1, RequestsKeep DEF Onward
  <1>6. QED BY <1>3, <1>4, <1>5 DEF StoryInv

LEMMA CronDeleteKeeps ==
  ASSUME TypeOK, StoryInv, NEW s \in Story, CronDelete(s)
  PROVE  StoryInv'
  <1>1. /\ UNCHANGED <<file, archived, due, post, store, highlight, job, req, late, undone>>
        /\ undeleted' \subseteq undeleted \cup {s} /\ undeleted \subseteq undeleted'
    BY DEF CronDelete
  <1>2. /\ cron'.list = cron.list /\ cron'.victim = s /\ s \in cron.list /\ s # None
        /\ row[s] # "unborn" /\ row[s] \in Life
    BY NoMedia DEF CronDelete, TypeOK, Cron, StoryInv, BornOK
  <1>3. row'[s] = "gone" \/ s \in undeleted'
    BY <1>2, DeleteRowIs DEF CronDelete, Life
  <1>4. /\ \A z \in Live' : z \in Live /\ (z \in InHighlight' => z \in InHighlight)
        /\ Onward /\ FilesOK'
        /\ \A z \in Story : row'[z] = "unborn" <=> row[z] = "unborn"
    <2>1. CASE row[s] = "live"
      BY <1>1, <2>1, DeleteRowKeeps DEF CronDelete
    <2>2. CASE row[s] # "live"
      <3>1. UNCHANGED <<row, linked>>
        BY <2>2 DEF CronDelete
      <3>2. QED BY <1>1, <3>1 DEF Live, InHighlight, Onward, StoryInv, FilesOK
    <2>3. QED BY <2>1, <2>2
  <1>5. BornOK' /\ CondemnedOK'
    <2>1. BornOK'
      BY <1>1, <1>2, <1>4 DEF StoryInv, BornOK
    <2>2. \A z \in Story : Condemned(z)' => Condemned(z)
      BY <1>1, <1>2 DEF Condemned
    <2>3. QED BY <1>1, <1>4, <2>1, <2>2, CondemnedStay
  <1>6. DeletersOK'
    BY <1>1, <1>2, <1>3, <1>4 DEF StoryInv, DeletersOK, Onward
  <1>7. RequestsOK' /\ PicksApart'
    BY <1>1, <1>4, RequestsKeep
  <1>8. QED BY <1>4, <1>5, <1>6, <1>7 DEF StoryInv

LEMMA CronEndKeeps ==
  ASSUME TypeOK, StoryInv, CronFiles \/ CronCrash
  PROVE  StoryInv'
  <1>1. UNCHANGED <<row, file, archived, due, post, linked, job, req, late, undeleted, undone>>
    BY DEF CronFiles, CronCrash, service, showcase, history
  <1>2. cron'.list \subseteq cron.list /\ cron'.victim = None
    BY DEF CronFiles, CronCrash
  <1>3. \A z \in Story : row[z] = "unborn" /\ z \in store => z \in store'
    <2>1. CASE CronFiles
      <3>1. cron.victim \in Story /\ row[cron.victim] # "unborn"
        BY <2>1 DEF CronFiles, TypeOK, Cron, StoryInv, DeletersOK, BornOK
      <3>2. QED BY <2>1, <3>1, OldMediaOnly DEF CronFiles
    <2>2. CASE CronCrash
      BY <2>2 DEF CronCrash
    <2>3. QED BY <2>1, <2>2
  <1>4. FilesOK' /\ BornOK' /\ DeletersOK'
    BY <1>1, <1>2 DEF StoryInv, FilesOK, BornOK, DeletersOK
  <1>5. CondemnedOK'
    BY <1>1, <1>2 DEF StoryInv, CondemnedOK, Condemned, Live, InHighlight
  <1>6. RequestsOK' /\ PicksApart'
    BY <1>1, <1>3, RequestsKeep DEF Onward
  <1>7. QED BY <1>4, <1>5, <1>6 DEF StoryInv

LEMMA StoryInvInit == Init => StoryInv
  <1> SUFFICES ASSUME Init PROVE StoryInv
    OBVIOUS
  <1>1. FilesOK /\ BornOK /\ CondemnedOK /\ DeletersOK
    BY DEF Init, FilesOK, BornOK, CondemnedOK, DeletersOK, Live, NoJob
  <1>2. RequestsOK /\ PicksApart
    BY DEF Init, RequestsOK, RequestOK, PicksApart, Creating, Idle
  <1>3. QED BY <1>1, <1>2 DEF StoryInv

LEMMA StoryInvNext == TypeOK /\ StoryInv /\ [Next]_vars => StoryInv'
  <1> SUFFICES ASSUME TypeOK, StoryInv, [Next]_vars PROVE StoryInv'
    OBVIOUS
  <1>1. CASE UNCHANGED vars
    <2>1. Calm /\ Onward
      BY <1>1 DEF vars, Calm, Onward, InHighlight
    <2>2. RequestsOK' /\ PicksApart'
      BY <1>1, <2>1, RequestsKeep DEF vars
    <2>3. QED BY <2>1, <2>2, CalmKeeps DEF StoryInv
  <1>2. ASSUME NEW r \in Req,
               \/ PutMedia(r) \/ InsertStory(r) \/ CreateFails(r) \/ UndoCreate(r)
               \/ InsertRepost(r) \/ RemoveDelete(r) \/ Aside(r)
        PROVE  StoryInv'
    BY <1>2, PutMediaKeeps, InsertStoryKeeps, CreateFailsKeeps, UndoCreateKeeps,
       InsertRepostKeeps, RemoveDeleteKeeps, AsideKeeps
  <1>3. ASSUME NEW s \in Story,
               \/ Expire(s) \/ JobRead(s) \/ JobDelete(s) \/ JobFiles(s) \/ JobFails(s)
               \/ CronDelete(s)
        PROVE  StoryInv'
    BY <1>3, ExpireKeeps, JobReadKeeps, JobDeleteKeeps, JobEndKeeps, CronDeleteKeeps
  <1>4. CASE CronRead \/ CronFiles \/ CronCrash
    BY <1>4, CronReadKeeps, CronEndKeeps
  <1>5. QED BY <1>1, <1>2, <1>3, <1>4, RemoveByKeyKeeps DEF Next, Aside

LEMMA Inductive == Spec => [](TypeOK /\ StoryInv)
  <1>1. QED BY TypeInit, TypeNext, StoryInvInit, StoryInvNext, PTL DEF Spec
-----------------------------------------------------------------------------
(***************************************************************************)
(* Who deletes a story, and why.                                           *)
(***************************************************************************)

\* The steps that delete no row.
Sparing ==
  \/ \E r \in Req : \/ PutMedia(r) \/ InsertStory(r) \/ CreateFails(r) \/ UndoCreate(r)
                    \/ InsertRepost(r) \/ Aside(r)
  \/ \E m \in Media : RemoveByKey(m)
  \/ \E s \in Story : Expire(s) \/ JobRead(s) \/ JobFiles(s) \/ JobFails(s)
  \/ CronRead \/ CronFiles \/ CronCrash

LEMMA SparingSpares ==
  ASSUME TypeOK, Sparing
  PROVE  \A z \in Story : row[z] = "live" => row'[z] = "live"
  <1>1. CASE \E r \in Req : InsertStory(r) \/ InsertRepost(r)
    BY <1>1 DEF InsertStory, InsertRepost, CreateRow, service, TypeOK
  <1>2. ASSUME NEW r \in Req, Aside(r) PROVE row' = row
    BY <1>2, AsideIsCalm DEF Calm
  <1>3. CASE \E r \in Req : PutMedia(r) \/ CreateFails(r) \/ UndoCreate(r)
    BY <1>3 DEF PutMedia, CreateFails, UndoCreate, service
  <1>4. CASE \E s \in Story : Expire(s) \/ JobRead(s) \/ JobFiles(s) \/ JobFails(s)
    BY <1>4 DEF Expire, JobRead, JobFiles, JobFails, service
  <1>5. CASE CronRead \/ CronFiles \/ CronCrash \/ \E m \in Media : RemoveByKey(m)
    BY <1>5 DEF CronRead, CronFiles, CronCrash, RemoveByKey, service
  <1>6. QED BY <1>1, <1>2, <1>3, <1>4, <1>5 DEF Sparing

Justified(s) ==
  row[s] = "live" /\ row'[s] = "gone" =>
    \/ \E r \in Req : At(r, "drop") /\ s \in req[r].picked
    \/ s \in due \ archived /\ (s \in InHighlight => s \in late)

LEMMA StepsAreJustified ==
  ASSUME TypeOK, StoryInv, [Next]_vars, NEW s \in Story
  PROVE  Justified(s)
  <1>1. CASE UNCHANGED vars
    BY <1>1 DEF vars, Justified
  <1>2. CASE Sparing
    BY <1>2, SparingSpares DEF Justified
  <1>3. ASSUME NEW r \in Req, RemoveDelete(r) PROVE Justified(s)
    <2>1. PICK z \in Story : req[r].picked = {z}
      BY <1>3 DEF RemoveDelete, At, StoryInv, RequestsOK, RequestOK
    <2>2. row'[s] # row[s] => s = z
      BY <1>3, <2>1 DEF RemoveDelete, DeleteRow, TypeOK
    <2>3. QED BY <1>3, <2>1, <2>2 DEF RemoveDelete, Justified
  <1>4. ASSUME NEW z \in Story, JobDelete(z) \/ CronDelete(z) PROVE Justified(s)
    <2>1. Condemned(z)
      BY <1>4 DEF JobDelete, CronDelete, Condemned
    <2>2. row'[s] # row[s] => s = z
      BY <1>4 DEF JobDelete, CronDelete, DeleteRow, TypeOK
    <2>3. QED BY <2>1, <2>2 DEF StoryInv, CondemnedOK, Live, Justified
  <1>5. QED BY <1>1, <1>2, <1>3, <1>4 DEF Next, Sparing, Aside

\* remove, StoriesProcessor and StoriesCron: a story goes by its owner's hand or, if
\* expired and not archived, by a deleter that found it in no highlight.
THEOREM DeletionsAreJustified == Spec => ExpiryIsJustified
  <1>1. TypeOK /\ StoryInv /\ [Next]_vars => \A s \in Story : Justified(s)
    BY StepsAreJustified
  <1>2. QED BY <1>1, Inductive, PTL DEF Spec, ExpiryIsJustified, Justified

-----------------------------------------------------------------------------
(***************************************************************************)
(* What can be seen has its media.                                         *)
(***************************************************************************)

\* What was lost stays lost.
LEMMA LostStays ==
  ASSUME StoryInv, Onward, undeleted \subseteq undeleted', taken \subseteq taken',
         \A s \in Story : row[s] # "unborn" => file'[s] = file[s],
         NEW m, Lost(m)
  PROVE  Lost(m)'
  BY DEF StoryInv, BornOK, Lost, Onward

\* Nothing that is shown is yet to be created.
LEMMA ShownIsBorn ==
  ASSUME TypeOK, StoryInv, MediaOK, NEW m \in Shown, m \in Story
  PROVE  row[m] # "unborn"
  <1>1. m \notin Post /\ m # None
    BY Apart, NoMedia
  <1>2. CASE \E s \in Live : file[s] = m
    BY <1>1, <1>2 DEF StoryInv, FilesOK, Live
  <1>3. CASE m \in post
    BY <1>1, <1>3 DEF TypeOK
  <1>4. CASE \E h \in Highlight : cover[h] = m
    BY <1>4 DEF MediaOK, CoversOK
  <1>5. QED BY <1>2, <1>3, <1>4 DEF Shown

\* The covers of highlights are old ones or what is shown.
Showcase ==
  \A h \in Highlight : /\ cover'[h] \in {None, cover[h]} \cup Shown
                       /\ highlight'[h] = "live" => cover'[h] \in {None} \cup Shown

LEMMA OldShowcase ==
  ASSUME \A h \in Highlight : /\ cover'[h] \in {None, cover[h]}
                              /\ highlight'[h] = "live" => highlight[h] = "live"
  PROVE  Showcase
  <1>1. \A h \in Highlight : highlight[h] = "live" => cover[h] \in {None} \cup Shown
    BY DEF Shown
  <1>2. QED BY <1>1 DEF Showcase

\* Whatever a step shows was shown or is there, and what it removes is lost.
LEMMA MediaStep ==
  ASSUME TypeOK, StoryInv, MediaOK, Onward, Showcase,
         undeleted \subseteq undeleted', taken \subseteq taken',
         \A s \in Story : row[s] # "unborn" => file'[s] = file[s],
         \A s \in Live' : s \in Live \/ file'[s] \in store' \cup Shown,
         \A m \in Shown : m \in store \ store' => Lost(m)'
  PROVE  MediaOK'
  <1>1. CoversOK'
    <2>1. SUFFICES ASSUME NEW h \in Highlight, cover'[h] \in Story PROVE row'[cover'[h]] # "unborn"
      BY DEF CoversOK
    <2>2. cover'[h] = cover[h] \/ cover'[h] \in Shown
      BY <2>1, NoMedia DEF Showcase
    <2>3. row[cover'[h]] # "unborn"
      BY <2>1, <2>2, ShownIsBorn DEF MediaOK, CoversOK
    <2>4. QED BY <2>1, <2>3 DEF Onward
  <1>2. ASSUME NEW m \in Shown' PROVE m \in Shown \cup store'
    <2>1. CASE \E s \in Live' : file'[s] = m
      <3>1. PICK s \in Live' : file'[s] = m
        BY <2>1
      <3>2. s \in Live => file[s] = m
        BY <3>1 DEF Live
      <3>3. QED BY <3>1, <3>2 DEF Shown
    <2>2. CASE m \in post'
      BY <2>2 DEF Onward, Shown
    <2>3. CASE \E h \in Highlight : highlight'[h] = "live" /\ cover'[h] = m /\ m # None
      BY <2>3 DEF Showcase
    <2>4. QED BY <2>1, <2>2, <2>3 DEF Shown
  <1>3. ASSUME NEW m \in Shown PROVE m \in store' \/ Lost(m)'
    <2>1. m \in store \/ Lost(m)
      BY DEF MediaOK, MissingMediaIsExplained
    <2>2. QED BY <2>1, LostStays
  <1>4. QED BY <1>1, <1>2, <1>3 DEF MediaOK, MissingMediaIsExplained

\* A removal of media takes only what is not shown or already lost.
LEMMA RemovalKeepsMedia ==
  ASSUME TypeOK, StoryInv, MediaOK, UNCHANGED <<service, post, showcase, history>>,
         NEW keys, store \ keys \subseteq store', \A m \in keys \cap Shown : Lost(m)
  PROVE  MediaOK'
  <1>1. UNCHANGED <<row, file, post, highlight, cover, undeleted, undone, taken>>
    BY DEF service, showcase, history
  <1>2. Showcase /\ Onward /\ Live' = Live
    BY <1>1, OldShowcase DEF Onward, Live
  <1>3. \A m \in Shown : m \in store \ store' => Lost(m)'
    BY <1>1, <1>2, LostStays
  <1>4. QED BY <1>1, <1>2, <1>3, MediaStep

LEMMA OneRemovalKeepsMedia ==
  ASSUME TypeOK, StoryInv, MediaOK, UNCHANGED <<service, post, showcase, history>>,
         NEW m, RemoveMedia({m}), Lost(m)
  PROVE  MediaOK'
  <1> DEFINE keys == {m}
  <1>1. store \ keys \subseteq store' /\ \A k \in keys \cap Shown : Lost(k)
    BY RemoveMediaIs
  <1> HIDE DEF keys
  <1>2. QED BY <1>1, RemovalKeepsMedia

LEMMA CreationKeepsMedia ==
  ASSUME TypeOK, StoryInv, MediaOK, NEW s \in Story, row[s] = "unborn",
         NEW media \in {s} \cup Post, CreateRow(s, media),
         media = s => s \in store, media # s => media \in post
  PROVE  MediaOK'
  <1>1. /\ row'[s] = "live" /\ file'[s] = media
        /\ \A z \in Story \ {s} : row'[z] = row[z] /\ file'[z] = file[z]
    BY CreateRowIs DEF Media
  <1>2. UNCHANGED <<post, store, highlight, cover, undeleted, undone, taken>> /\ Onward
    BY CreateRowKeeps DEF CreateRow, showcase, history
  <1>3. media \in store' \cup Shown
    BY <1>2 DEF Shown
  <1>4. Showcase
    BY <1>2, OldShowcase
  <1>5. QED BY <1>1, <1>2, <1>3, <1>4, MediaStep DEF Live

\* The steps that delete rows or media, or show something; the others do neither.
Harm ==
  \/ \E r \in Req : \/ InsertStory(r) \/ UndoCreate(r) \/ InsertRepost(r) \/ CreateHighlight(r)
                    \/ RemoveDelete(r) \/ RemoveFiles(r) \/ RemovePostFiles(r)
  \/ \E m \in Media : RemoveByKey(m)
  \/ \E s \in Story : JobDelete(s) \/ JobFiles(s) \/ CronDelete(s)
  \/ CronFiles

LEMMA RestKeepsMedia ==
  ASSUME TypeOK, StoryInv, Next, ~Harm
  PROVE  /\ UNCHANGED <<row, file, undeleted, taken>> /\ store \subseteq store'
         /\ post' \subseteq post /\ undone \subseteq undone' /\ Showcase
  <1>1. ASSUME UNCHANGED <<highlight, cover>> PROVE Showcase
    BY <1>1, OldShowcase
  <1>2. ASSUME NEW r \in Req, UpdateCover(r) \/ RemoveHighlight(r) PROVE Showcase
    <2>1. \A h \in Highlight : /\ cover'[h] \in {None, cover[h]}
                               /\ highlight'[h] = "live" => highlight[h] = "live"
      BY <1>2 DEF UpdateCover, RemoveHighlight, TypeOK
    <2>2. QED BY <2>1, OldShowcase
  <1>3. ASSUME NEW r \in Req, Aside(r), ~RemoveFiles(r), ~RemovePostFiles(r), ~CreateHighlight(r)
        PROVE  UNCHANGED <<row, file, undeleted, taken, store, undone>> /\ post' \subseteq post /\ Showcase
    <2>1. UNCHANGED <<row, file, undeleted, taken, store, undone>> /\ post' \subseteq post
      BY <1>3 DEF Aside, Created, RepostRead, RemoveRead, RemovePostRead, RemovePostDelete,
         HighlightRead, UnlinkAll, Relink, UpdateCover, RemoveHighlight, Crash, service, history
    <2>2. UpdateCover(r) \/ RemoveHighlight(r) \/ UNCHANGED <<highlight, cover>>
      BY <1>3 DEF Aside, Created, RepostRead, RemoveRead, RemovePostRead, RemovePostDelete,
         HighlightRead, UnlinkAll, Relink, Crash, showcase
    <2>3. QED BY <1>1, <1>2, <2>1, <2>2
  <1>4. CASE \E r \in Req : PutMedia(r) \/ CreateFails(r)
    BY <1>1, <1>4 DEF PutMedia, CreateFails, service, showcase, history
  <1>5. CASE \E s \in Story : Expire(s) \/ JobRead(s) \/ JobFails(s)
    BY <1>1, <1>5 DEF Expire, JobRead, JobFails, service, showcase, history
  <1>6. CASE CronRead \/ CronCrash
    BY <1>1, <1>6 DEF CronRead, CronCrash, service, showcase, history
  <1>7. QED BY <1>3, <1>4, <1>5, <1>6 DEF Next, Harm, Aside

LEMMA MediaInit == Init => MediaOK
  <1> SUFFICES ASSUME Init PROVE MediaOK
    OBVIOUS
  <1>1. CoversOK
    BY NoMedia DEF Init, CoversOK
  <1>2. Shown \subseteq store
    BY DEF Init, Shown, Live
  <1>3. QED BY <1>1, <1>2 DEF MediaOK, MissingMediaIsExplained

LEMMA CreateHighlightKeepsMedia ==
  ASSUME TypeOK, StoryInv, MediaOK, NEW r \in Req, CreateHighlight(r)
  PROVE  MediaOK'
  <1>1. UNCHANGED <<row, file, post, store, undeleted, undone, taken>>
    BY DEF CreateHighlight, service
  <1>2. Onward /\ Live' = Live
    BY <1>1 DEF Onward, Live
  <1>3. Showcase
    <2>1. CASE UNCHANGED showcase
      BY <2>1, OldShowcase DEF showcase
    <2>2. CASE ~UNCHANGED showcase
      <3> DEFINE h == req[r].target
      <3>1. PICK m \in {None} \cup {file[s] : s \in req[r].picked} : cover' = [cover EXCEPT ![h] = m]
        BY <2>2 DEF CreateHighlight
      <3>2. req[r].picked \subseteq Live /\ highlight' = [highlight EXCEPT ![h] = "live"]
        BY <2>2 DEF CreateHighlight
      <3>3. m \in {None} \cup Shown
        BY <3>2 DEF Shown
      <3>4. \A g \in Highlight : \/ g = h /\ cover'[g] = m
                                 \/ cover'[g] = cover[g] /\ highlight'[g] = highlight[g]
        BY <3>1, <3>2 DEF TypeOK
      <3>5. \A g \in Highlight : highlight[g] = "live" => cover[g] \in {None} \cup Shown
        BY DEF Shown
      <3>6. QED BY <3>3, <3>4, <3>5 DEF Showcase
    <2>3. QED BY <2>1, <2>2
  <1>4. QED BY <1>1, <1>2, <1>3, MediaStep

LEMMA MediaNext == TypeOK /\ StoryInv /\ MediaOK /\ [Next]_vars => MediaOK'
  <1> SUFFICES ASSUME TypeOK, StoryInv, MediaOK, [Next]_vars PROVE MediaOK'
    OBVIOUS
  <1>1. CASE UNCHANGED vars
    BY <1>1 DEF vars, MediaOK, CoversOK, MissingMediaIsExplained, Shown, Lost, Live
  <1>2. CASE Next /\ ~Harm
    <2>1. /\ UNCHANGED <<row, file, undeleted, taken>> /\ store \subseteq store'
          /\ post' \subseteq post /\ undone \subseteq undone' /\ Showcase
      BY <1>2, RestKeepsMedia
    <2>2. Onward /\ Live' = Live
      BY <2>1 DEF Onward, Live
    <2>3. QED BY <2>1, <2>2, MediaStep
  <1>3. ASSUME NEW r \in Req, InsertStory(r) PROVE MediaOK'
    <2>1. PICK s \in req[r].picked : row[s] = "unborn" /\ CreateRow(s, s)
      BY <1>3 DEF InsertStory
    <2>2. s \in store /\ s \in Story
      BY <1>3, <2>1, RequestFields DEF InsertStory, At, StoryInv, RequestsOK, RequestOK, Creating
    <2>3. QED BY <2>1, <2>2, CreationKeepsMedia
  <1>4. ASSUME NEW r \in Req, InsertRepost(r) PROVE MediaOK'
    <2>1. CASE UNCHANGED <<service, post, store, showcase, job, cron, faults, history>>
      <3>1. UNCHANGED <<service, post, showcase, history>> /\ store \ {} \subseteq store'
        BY <2>1
      <3>2. \A m \in {} \cap Shown : Lost(m)
        OBVIOUS
      <3>3. QED BY <3>1, <3>2, RemovalKeepsMedia
    <2>2. CASE ~UNCHANGED <<service, post, store, showcase, job, cron, faults, history>>
      <3>1. PICK s \in Story : Unused(s) /\ CreateRow(s, req[r].target) /\ req[r].target \in post
        BY <1>4, <2>2 DEF InsertRepost
      <3>2. req[r].target \in Post /\ req[r].target # s /\ row[s] = "unborn"
        BY <3>1, Apart DEF TypeOK, Unused
      <3>3. QED BY <3>1, <3>2, CreationKeepsMedia
    <2>3. QED BY <2>1, <2>2
  <1>5. ASSUME NEW r \in Req, UndoCreate(r) PROVE MediaOK'
    <2>1. UNCHANGED <<service, post, showcase, history>>
      BY <1>5 DEF UndoCreate
    <2>2. store \ req[r].picked \subseteq store'
      BY <1>5, RemoveMediaIs DEF UndoCreate
    <2>3. ASSUME NEW m \in req[r].picked \cap Shown PROVE Lost(m)
      <3>1. m \in Story /\ row[m] # "unborn"
        BY RequestFields, ShownIsBorn
      <3>2. m \in undone
        BY <1>5, <3>1 DEF UndoCreate, At, StoryInv, RequestsOK, RequestOK, Creating
      <3>3. QED BY <3>2 DEF Lost
    <2>4. QED BY <2>1, <2>2, <2>3, RemovalKeepsMedia
  <1>6. ASSUME NEW r \in Req, RemoveFiles(r) PROVE MediaOK'
    <2>1. PICK s \in req[r].picked : RemoveMedia({file[s]})
      BY <1>6 DEF RemoveFiles
    <2>2. s \in Story /\ row[s] = "gone"
      BY <1>6, RequestFields DEF RemoveFiles, At, StoryInv, RequestsOK, RequestOK
    <2>3. Lost(file[s])
      BY <2>2 DEF Lost
    <2>4. QED BY <1>6, <2>1, <2>3, OneRemovalKeepsMedia DEF RemoveFiles
  <1>7. ASSUME NEW r \in Req, RemovePostFiles(r) PROVE MediaOK'
    <2>1. req[r].target \in Post \ post
      BY <1>7 DEF RemovePostFiles, At, StoryInv, RequestsOK, RequestOK
    <2>2. Lost(req[r].target)
      BY <2>1 DEF Lost
    <2>3. QED BY <1>7, <2>2, OneRemovalKeepsMedia DEF RemovePostFiles
  <1>8. ASSUME \/ \E r \in Req : RemoveDelete(r)
               \/ \E s \in Story : JobDelete(s) \/ CronDelete(s)
        PROVE  MediaOK'
    <2>1. UNCHANGED <<file, post, store, highlight, cover, undone, taken>> /\ undeleted \subseteq undeleted'
      BY <1>8 DEF RemoveDelete, JobDelete, CronDelete, history
    <2>2. \A z \in Story : row'[z] = row[z] \/ (row[z] = "live" /\ row'[z] = "gone")
      <3>1. \A s \in Live :
              DeleteRow(s) => \A z \in Story : row'[z] = row[z] \/ (row[z] = "live" /\ row'[z] = "gone")
        BY DEF DeleteRow, Live, TypeOK
      <3>2. row' = row \/ \E s \in Live : DeleteRow(s)
        BY <1>8, RequestFields DEF RemoveDelete, JobDelete, CronDelete, Live
      <3>3. QED BY <3>1, <3>2
    <2>3. Onward /\ Live' \subseteq Live /\ Showcase
      BY <2>1, <2>2, OldShowcase DEF Onward, Live
    <2>4. QED BY <2>1, <2>3, MediaStep
  <1>9. ASSUME NEW s \in Story, JobFiles(s) PROVE MediaOK'
    <2>1. row[s] = "gone"
      BY <1>9 DEF JobFiles, StoryInv, DeletersOK
    <2>2. Lost(file[s])
      BY <2>1 DEF Lost
    <2>3. QED BY <1>9, <2>2, OneRemovalKeepsMedia DEF JobFiles
  <1>10. CASE CronFiles
    <2> DEFINE s == cron.victim
    <2>1. s \in Story /\ (row[s] = "gone" \/ s \in undeleted)
      BY <1>10, CronIs DEF CronFiles, StoryInv, DeletersOK
    <2>2. Lost(file[s])
      BY <2>1 DEF Lost
    <2>3. QED BY <1>10, <2>2, OneRemovalKeepsMedia DEF CronFiles
  <1>11. ASSUME NEW m \in Media, RemoveByKey(m) PROVE MediaOK'
    <2>1. /\ UNCHANGED <<row, file, post, highlight, cover, undeleted, undone>>
          /\ store' = store \ {m} /\ taken' = taken \cup {m}
      BY <1>11 DEF RemoveByKey, service, showcase
    <2>2. Showcase /\ Onward /\ Live' = Live
      BY <2>1, OldShowcase DEF Onward, Live
    <2>3. \A k \in store \ store' : Lost(k)'
      BY <2>1 DEF Lost
    <2>4. QED BY <2>1, <2>2, <2>3, MediaStep
  <1>12. ASSUME NEW r \in Req, CreateHighlight(r) PROVE MediaOK'
    BY <1>12, CreateHighlightKeepsMedia
  <1>13. Harm => MediaOK'
    BY <1>3, <1>4, <1>5, <1>6, <1>7, <1>8, <1>9, <1>10, <1>11, <1>12 DEF Harm
  <1>14. QED BY <1>1, <1>2, <1>13

\* StoriesService, StoriesProcessor, StoriesCron and PostsService delete rows before media: the
\* stories, posts and covers of highlights that are shown have their media, but for the named losses.
THEOREM MediaLossIsExplained == Spec => []MissingMediaIsExplained
  <1>1. MediaOK => MissingMediaIsExplained
    BY DEF MediaOK
  <1>2. QED BY <1>1, TypeInit, TypeNext, StoryInvInit, StoryInvNext, MediaInit, MediaNext, PTL
        DEF Spec
-----------------------------------------------------------------------------
(***************************************************************************)
(* What is gone leaves no media.                                           *)
(***************************************************************************)

\* Somebody is about to remove the media of s.
InHand(s) ==
  \/ job[s].at = "files" \/ cron.victim = s
  \/ \E r \in Req : At(r, "files") /\ s \in req[r].picked

Left(s) == row[s] = "gone" /\ file[s] = s /\ s \in store

LEMMA FaultsGrow == TypeOK /\ Next => faults' = faults \/ faults' > 0
  <1> SUFFICES ASSUME TypeOK, Next PROVE faults' = faults \/ faults' > 0
    OBVIOUS
  <1>1. ASSUME NEW s \in Story, NEW media \in Media, CreateRow(s, media)
        PROVE  faults' = faults \/ faults' > 0
    BY <1>1, CreateRowIs
  <1>2. ASSUME NEW r \in Req, InsertStory(r) \/ InsertRepost(r) PROVE faults' = faults \/ faults' > 0
    BY <1>1, <1>2, RequestFields DEF InsertStory, InsertRepost, Media, TypeOK
  <1>3. CASE \E r \in Req : UndoCreate(r) \/ RemoveFiles(r) \/ RemovePostFiles(r)
    BY <1>3, RemoveMediaIs DEF UndoCreate, RemoveFiles, RemovePostFiles
  <1>4. CASE \/ \E r \in Req : CreateFails(r) \/ Crash(r)
             \/ \E s \in Story : JobRead(s) \/ JobFails(s) \/ CronDelete(s)
             \/ CronCrash
    BY <1>4, FaultIs DEF CreateFails, Crash, JobRead, JobComesUp, JobFails, CronDelete, CronCrash
  <1>5. CASE (\E s \in Story : JobFiles(s)) \/ CronFiles
    BY <1>5, RemoveMediaIs DEF JobFiles, CronFiles
  <1>6. CASE \E r \in Req : \/ PutMedia(r) \/ Created(r) \/ RepostRead(r) \/ RemoveRead(r)
                            \/ RemoveDelete(r) \/ RemovePostRead(r) \/ RemovePostDelete(r)
                            \/ HighlightRead(r) \/ CreateHighlight(r) \/ UnlinkAll(r)
                            \/ Relink(r) \/ UpdateCover(r) \/ RemoveHighlight(r)
    BY <1>6 DEF PutMedia, Created, RepostRead, RemoveRead, RemoveDelete, RemovePostRead,
         RemovePostDelete, HighlightRead, CreateHighlight, UnlinkAll, Relink, UpdateCover, RemoveHighlight
  <1>7. CASE (\E s \in Story : Expire(s) \/ JobDelete(s)) \/ CronRead \/ \E m \in Media : RemoveByKey(m)
    BY <1>7 DEF Expire, JobDelete, CronRead, RemoveByKey
  <1>8. QED BY <1>2, <1>3, <1>4, <1>5, <1>6, <1>7 DEF Next

\* Whoever has the media of s in hand keeps it, or removes it.
LEMMA RequestsKeepHands ==
  ASSUME TypeOK, StoryInv, NEW s \in Story, InHand(s), row[s] = "gone", faults' = 0, Left(s)',
         NEW r \in Req,
         \/ PutMedia(r) \/ InsertStory(r) \/ CreateFails(r) \/ UndoCreate(r)
         \/ InsertRepost(r) \/ RemoveDelete(r) \/ Aside(r)
  PROVE  InHand(s)'
  <1>1. job'[s] = job[s] /\ cron' = cron
    <2>1. CASE InsertStory(r) \/ InsertRepost(r)
      <3>1. ASSUME NEW z \in Story, NEW m \in Media, CreateRow(z, m)
            PROVE  job'[s] = job[s] /\ cron' = cron
        BY <3>1, CreateRowIs DEF CreateRow, Left
      <3>2. \/ \E z \in Story, m \in Media : CreateRow(z, m)
            \/ UNCHANGED <<job, cron>>
        BY <2>1, RequestFields DEF InsertStory, InsertRepost, Media, TypeOK
      <3>3. QED BY <3>1, <3>2
    <2>2. CASE Aside(r)
      BY <2>2, AsideIsCalm DEF Calm
    <2>3. CASE PutMedia(r) \/ CreateFails(r) \/ UndoCreate(r) \/ RemoveDelete(r)
      BY <2>3 DEF PutMedia, CreateFails, UndoCreate, RemoveDelete
    <2>4. QED BY <2>1, <2>2, <2>3
  <1>2. \A q \in Req \ {r} : req'[q] = req[q]
    <2>1. CASE PutMedia(r)
      BY <2>1 DEF PutMedia, Become, TypeOK
    <2>2. CASE InsertStory(r) \/ CreateFails(r) \/ UndoCreate(r) \/ InsertRepost(r) \/ RemoveDelete(r)
      BY <2>2, GotoIs, EndsIs
         DEF InsertStory, CreateFails, UndoCreate, InsertRepost, RemoveDelete, Label
    <2>3. QED BY <2>1, <2>2, AsideMoves
  <1>3. At(r, "files") /\ s \in req[r].picked => FALSE
    <2>1. SUFFICES ASSUME At(r, "files"), s \in req[r].picked PROVE FALSE
      OBVIOUS
    <2>2. RemoveFiles(r) \/ Crash(r)
      BY <2>1 DEF At, PutMedia, InsertStory, CreateFails, UndoCreate, InsertRepost, RemoveDelete,
           Aside, Created, RepostRead, RemoveRead, RemovePostRead, RemovePostDelete,
           RemovePostFiles, HighlightRead, CreateHighlight, UnlinkAll, Relink, UpdateCover, RemoveHighlight
    <2>3. CASE Crash(r)
      BY <2>3, FaultIs DEF Crash
    <2>4. CASE RemoveFiles(r)
      <3>1. req[r].picked = {s}
        BY <2>1 DEF At, StoryInv, RequestsOK, RequestOK
      <3>2. RemoveMedia({file[s]}) /\ file' = file
        BY <2>4, <3>1 DEF RemoveFiles, service
      <3>3. QED BY <3>2, RemoveMediaIs DEF Left
    <2>5. QED BY <2>2, <2>3, <2>4
  <1>4. QED BY <1>1, <1>2, <1>3 DEF InHand, At

LEMMA DeletersKeepHands ==
  ASSUME TypeOK, StoryInv, NEW s \in Story, InHand(s), row[s] = "gone", faults' = 0, Left(s)',
         \/ \E z \in Story : \/ Expire(z) \/ JobRead(z) \/ JobDelete(z) \/ JobFiles(z)
                             \/ JobFails(z) \/ CronDelete(z)
         \/ CronRead \/ CronFiles \/ CronCrash
  PROVE  InHand(s)'
  <1>1. req' = req
    BY DEF Expire, JobRead, JobDelete, JobFiles, JobFails, CronDelete, CronRead, CronFiles, CronCrash
  <1>2. ASSUME NEW z \in Story, Expire(z) PROVE InHand(s)'
    BY <1>1, <1>2 DEF Expire, InHand, At
  <1>3. ASSUME NEW z \in Story, JobRead(z) \/ JobDelete(z) PROVE InHand(s)'
    <2>1. job[z].at \in {"queued", "delete"}
      BY <1>3 DEF JobRead, JobComesUp, JobDelete
    <2>2. (\A y \in Story \ {z} : job'[y] = job[y]) /\ cron' = cron
      BY <1>3, <2>1, JobEndsIs, JobThrowsIs, JobAtIs DEF JobRead, JobDelete
    <2>3. QED BY <1>1, <2>1, <2>2 DEF InHand, At
  <1>4. ASSUME NEW z \in Story, JobFiles(z) PROVE InHand(s)'
    <2>1. s # z
      BY <1>4, RemoveMediaIs DEF JobFiles, service, Left
    <2>2. job'[s] = job[s] /\ cron' = cron
      BY <1>4, <2>1, JobEndsIs DEF JobFiles
    <2>3. QED BY <1>1, <2>2 DEF InHand, At
  <1>5. ASSUME NEW z \in Story, CronDelete(z) PROVE InHand(s)'
    <2>1. cron.victim # s /\ job' = job
      BY <1>5, NoMedia DEF CronDelete
    <2>2. QED BY <1>1, <2>1 DEF InHand, At
  <1>6. CASE CronRead
    <2>1. cron'.victim = cron.victim /\ job' = job
      BY <1>6 DEF CronRead, TypeOK, Cron
    <2>2. QED BY <1>1, <2>1 DEF InHand, At
  <1>7. CASE CronFiles
    <2>1. cron.victim # s /\ job' = job
      BY <1>7, RemoveMediaIs DEF CronFiles, service, Left
    <2>2. QED BY <1>1, <2>1 DEF InHand, At
  <1>8. CASE CronCrash \/ \E z \in Story : JobFails(z)
    BY <1>8, FaultIs DEF CronCrash, JobFails
  <1>9. QED BY <1>2, <1>3, <1>4, <1>5, <1>6, <1>7, <1>8

\* Whoever deletes the row of s has its media in hand.
LEMMA DeletionTakesInHand ==
  ASSUME TypeOK, StoryInv, Next, NEW s \in Story, row[s] # "gone", row'[s] = "gone"
  PROVE  InHand(s)'
  <1>1. row[s] = "live"
    <2>1. CASE Sparing
      <3>1. CASE \E r \in Req : InsertStory(r) \/ InsertRepost(r)
        BY <3>1 DEF InsertStory, InsertRepost, CreateRow, service, TypeOK
      <3>2. ASSUME NEW r \in Req, Aside(r) PROVE row' = row
        BY <3>2, AsideIsCalm DEF Calm
      <3>3. CASE \E r \in Req : PutMedia(r) \/ CreateFails(r) \/ UndoCreate(r)
        BY <3>3 DEF PutMedia, CreateFails, UndoCreate, service
      <3>4. CASE \E z \in Story : Expire(z) \/ JobRead(z) \/ JobFiles(z) \/ JobFails(z)
        BY <3>4 DEF Expire, JobRead, JobFiles, JobFails, service
      <3>5. CASE CronRead \/ CronFiles \/ CronCrash \/ \E m \in Media : RemoveByKey(m)
        BY <3>5 DEF CronRead, CronFiles, CronCrash, RemoveByKey, service
      <3>6. QED BY <2>1, <3>1, <3>2, <3>3, <3>4, <3>5 DEF Sparing
    <2>2. CASE ~Sparing
      BY <2>2, RequestFields
         DEF Next, Sparing, Aside, RemoveDelete, JobDelete, CronDelete, DeleteRow, Live, TypeOK
    <2>3. QED BY <2>1, <2>2
  <1>2. ~Sparing
    BY <1>1, SparingSpares
  <1>3. ASSUME NEW r \in Req, RemoveDelete(r) PROVE InHand(s)'
    <2>1. PICK z \in Story : req[r].picked = {z}
      BY <1>3 DEF RemoveDelete, At, StoryInv, RequestsOK, RequestOK
    <2>2. s = z /\ Goto(r, "files")
      BY <1>1, <1>3, <2>1 DEF RemoveDelete, DeleteRow, TypeOK
    <2>3. req'[r].at = "files" /\ s \in req'[r].picked
      BY <2>1, <2>2, GotoIs DEF Label
    <2>4. QED BY <2>3 DEF InHand, At
  <1>4. ASSUME NEW z \in Story, JobDelete(z) PROVE InHand(s)'
    <2>1. s = z /\ JobAt(s, "files") /\ job[s].at # "none"
      BY <1>1, <1>4 DEF JobDelete, DeleteRow, TypeOK
    <2>2. QED BY <2>1, JobAtIs DEF InHand
  <1>5. ASSUME NEW z \in Story, CronDelete(z) PROVE InHand(s)'
    <2>1. s = z
      BY <1>1, <1>5 DEF CronDelete, DeleteRow, TypeOK
    <2>2. cron'.victim = s
      BY <1>5, <2>1 DEF CronDelete, TypeOK, Cron
    <2>3. QED BY <2>2 DEF InHand
  <1>6. QED BY <1>2, <1>3, <1>4, <1>5 DEF Next, Sparing, Aside

LEMMA CleanNext == TypeOK /\ StoryInv /\ CleanOK /\ [Next]_vars => CleanOK'
  <1> SUFFICES ASSUME TypeOK, StoryInv, CleanOK, [Next]_vars PROVE CleanOK'
    OBVIOUS
  <1>1. CASE UNCHANGED vars
    BY <1>1 DEF vars, CleanOK, At
  <1>2. CASE Next
    <2> SUFFICES ASSUME NEW s \in Story, Left(s)', ~(faults' > 0) PROVE InHand(s)'
      BY DEF CleanOK, Left, InHand, At
    <2>1. faults' = faults /\ faults = 0 /\ faults' = 0
      BY <1>2, FaultsGrow DEF TypeOK
    <2>2. CASE row[s] # "gone"
      BY <1>2, <2>2, DeletionTakesInHand DEF Left
    <2>3. CASE row[s] = "gone"
      <3>1. file'[s] = file[s] /\ (s \in store' => s \in store)
        <4>1. ASSUME NEW z \in Story, NEW m, Unused(z) \/ row[z] = "unborn", CreateRow(z, m)
              PROVE  file'[s] = file[s] /\ store' = store
          BY <2>3, <4>1 DEF CreateRow, Unused, TypeOK
        <4>2. ASSUME NEW r \in Req, InsertStory(r) \/ InsertRepost(r)
              PROVE  file'[s] = file[s] /\ store' = store
          BY <4>1, <4>2, RequestFields DEF InsertStory, InsertRepost, service
        <4>3. ASSUME NEW r \in Req, PutMedia(r) PROVE file' = file /\ (s \in store' => s \in store)
          BY <2>3, <4>3 DEF PutMedia, Unused, service
        <4>4. CASE \E r \in Req : CreateFails(r) \/ UndoCreate(r) \/ RemoveDelete(r)
          BY <4>4, RemoveMediaIs DEF CreateFails, UndoCreate, RemoveDelete, service
        <4>5. ASSUME NEW r \in Req, Aside(r) PROVE file' = file /\ store' \subseteq store
          BY <4>5, RemoveMediaIs
             DEF Aside, Created, RepostRead, RemoveRead, RemoveFiles, RemovePostRead,
                 RemovePostDelete, RemovePostFiles, HighlightRead, CreateHighlight, UnlinkAll,
                 Relink, UpdateCover, RemoveHighlight, Crash, service
        <4>6. CASE \/ \E z \in Story : \/ Expire(z) \/ JobRead(z) \/ JobDelete(z) \/ JobFiles(z)
                                       \/ JobFails(z) \/ CronDelete(z)
                   \/ CronRead \/ CronFiles \/ CronCrash
          BY <4>6, RemoveMediaIs DEF Expire, JobRead, JobDelete, JobFiles, JobFails, CronDelete,
               CronRead, CronFiles, CronCrash, service
        <4>7. ASSUME NEW m \in Media, RemoveByKey(m) PROVE file' = file /\ store' \subseteq store
          BY <4>7 DEF RemoveByKey, service
        <4>8. QED BY <1>2, <4>2, <4>3, <4>4, <4>5, <4>6, <4>7 DEF Next, Aside
      <3>2. InHand(s)
        BY <2>1, <2>3, <3>1 DEF CleanOK, Left, InHand
      <3>3. ASSUME NEW m \in Media, RemoveByKey(m) PROVE InHand(s)'
        BY <3>2, <3>3 DEF RemoveByKey, InHand, At
      <3>4. QED BY <1>2, <2>1, <2>3, <3>2, <3>3, RequestsKeepHands, DeletersKeepHands DEF Next, Aside
    <2>4. QED BY <2>2, <2>3
  <1>3. QED BY <1>1, <1>2

\* Of the owner, the job and the sweep, whoever deletes a row removes its media,
\* unless something fails.
THEOREM DeletersCleanUp == Spec => []GoneStoriesLeaveNoMedia
  <1>1. Init => CleanOK
    BY DEF Init, CleanOK
  <1>2. CleanOK => GoneStoriesLeaveNoMedia
    BY DEF CleanOK, GoneStoriesLeaveNoMedia
  <1>3. QED BY <1>1, <1>2, TypeInit, TypeNext, StoryInvInit, StoryInvNext, CleanNext, PTL DEF Spec

\* The store has what the rows need and nothing else, but for the failures named.
THEOREM MediaFollowTheStories == Spec => []MediaAgree
  BY MediaLossIsExplained, DeletersCleanUp, PTL DEF MediaAgree
=============================================================================
