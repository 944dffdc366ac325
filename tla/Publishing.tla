----------------------------- MODULE Publishing -----------------------------
(***************************************************************************)
(* One post from its upload to its removal: PostsService.create, publish,  *)
(* publishScheduled, updateCaption and remove, and PostsProcessor.         *)
(* finalizePublish is a sequence of writes without a transaction, reached  *)
(* from three places.                                                      *)
(***************************************************************************)
EXTENDS Naturals, FiniteSets

CONSTANTS Tag,     \* hashtags
          Req,     \* requests; each one is handled once
          Job,     \* the delayed job publish-post-<id>
          None,
          FAULTS   \* bound on failures

ASSUME Distinct == Job \notin Req /\ None \notin Tag
ASSUME FaultsBound == FAULTS \in Nat

VARIABLES status,   \* Post.status, or that there is no row yet or no more
          due,      \* scheduledAt has come
          caption,  \* the hashtags in Post.caption
          links,    \* PostHashtag
          count,    \* what this post has added to Hashtag.postsCount
          told,     \* how often its followers were notified
          uses,     \* what this post has added to Music.usesCount
          files,    \* its media in the store; a client of DELETE /upload may have taken them
          proc,     \* the handlers and the job
          faults,
          cause     \* history: what may spoil the effects of a publication

content == <<caption, links, count, told, uses>>
vars == <<status, due, content, files, proc, faults, cause>>

Proc == Req \cup {Job}

Status == {"none", "DRAFT", "SCHEDULED", "PUBLISHED", "gone"}

Exists == status \in {"DRAFT", "SCHEDULED", "PUBLISHED"}

\* From its update of the post to its last effect.
Effects == {"update", "unlink", "link", "insert", "tell", "music"}

\* seen: the status it has read; todo: hashtags to link; tag: counted, and not linked.
Process == [op : {"none", "create", "publish", "job", "edit", "remove"},
            at : Effects \cup {"start", "post", "enqueue", "unqueue", "waiting", "check", "reply",
                               "undo", "caption", "delete", "files", "failed", "end"},
            seen : Status, todo : SUBSET Tag, tag : Tag \cup {None}]

Idle == [op |-> "none", at |-> "start", seen |-> "none", todo |-> {}, tag |-> None]

TypeOK ==
  /\ status \in Status /\ due \in BOOLEAN
  /\ caption \subseteq Tag /\ links \subseteq Tag /\ count \in [Tag -> Nat]
  /\ told \in Nat /\ uses \in Nat
  /\ files \in {"none", "kept", "removed", "taken"}
  /\ proc \in [Proc -> Process] /\ faults \in 0..FAULTS
  /\ cause \subseteq {"failure", "draft edited", "edited", "overlap", "lost"}

\* There is no post yet, or one that was left alone so far.
Init ==
  /\ status \in {"none", "DRAFT", "SCHEDULED", "PUBLISHED"} /\ due = FALSE
  /\ caption \in SUBSET Tag /\ (status = "none" => caption = {})
  /\ links = IF status = "PUBLISHED" THEN caption ELSE {}
  /\ count = [t \in Tag |-> IF t \in links THEN 1 ELSE 0]
  /\ told = IF status = "PUBLISHED" THEN 1 ELSE 0
  /\ uses = told
  /\ files = IF status = "none" THEN "none" ELSE "kept"
  /\ proc = [p \in Proc |-> IF p = Job /\ status = "SCHEDULED"
                              THEN [Idle EXCEPT !.op = "job", !.at = "waiting"] ELSE Idle]
  /\ faults = 0 /\ cause = {}

-----------------------------------------------------------------------------
At(p, l) == proc[p].at = l

Become(p, x) == proc' = [proc EXCEPT ![p] = x]

Goto(p, l) == Become(p, [proc[p] EXCEPT !.at = l])

\* An awaited call throws: the catch of create tidies up, a job has one attempt.
Rejects(p) ==
  Goto(p, IF proc[p].op = "create" THEN "undo" ELSE IF p = Job THEN "failed" ELSE "end")

Starts(p, op, l) ==
  p \in Req /\ At(p, "start") /\ Become(p, [Idle EXCEPT !.op = op, !.at = l, !.seen = status])

\* Another one is at work on the post.
Busy(p) == \E q \in Proc \ {p} : proc[q].at \in Effects

-----------------------------------------------------------------------------
\* create: the media go to the store...
PutMedia(p) ==
  /\ status = "none" /\ files = "none"
  /\ Starts(p, "create", "post")
  /\ files' = "kept"
  /\ UNCHANGED <<status, due, content, faults, cause>>

\* ... then the row is inserted, in one of three states...
InsertPost(p) ==
  /\ At(p, "post")
  /\ \E s \in {"DRAFT", "SCHEDULED", "PUBLISHED"} :
       /\ status' = s
       /\ Become(p, [proc[p] EXCEPT !.seen = s,
                       !.at = CASE s = "PUBLISHED" -> "update" [] s = "SCHEDULED" -> "enqueue"
                                [] OTHER -> "reply"])
  /\ caption' \in SUBSET Tag
  /\ UNCHANGED <<due, links, count, told, uses, files, faults, cause>>

\* Mutant: the loss of the job makes create fail.
EnqueuePublishOrFail(p) ==
  /\ At(p, "enqueue")
  /\ \/ /\ proc' = [proc EXCEPT ![p].at = "reply",
                                ![Job] = [Idle EXCEPT !.op = "job", !.at = "waiting"]]
        /\ UNCHANGED <<faults, cause>>
     \/ /\ faults < FAULTS /\ faults' = faults + 1
        /\ cause' = cause \cup {"lost"}
        /\ Rejects(p)
  /\ UNCHANGED <<status, due, content, files>>

\* ... and, for a scheduled one, the job, whose loss is swallowed.
EnqueuePublish(p) ==
  /\ At(p, "enqueue")
  /\ \/ /\ proc' = [proc EXCEPT ![p].at = "reply",
                                ![Job] = [Idle EXCEPT !.op = "job", !.at = "waiting"]]
        /\ UNCHANGED <<faults, cause>>
     \/ /\ faults < FAULTS /\ faults' = faults + 1
        /\ cause' = cause \cup {"lost"}
        /\ Goto(p, "reply")
  /\ UNCHANGED <<status, due, content, files>>

\* The answer of create reads the post again.  Its promise is returned and not awaited: if it
\* rejects, the catch of create has been left.
Answer(p) ==
  /\ At(p, "reply")
  /\ Goto(p, "end")
  /\ UNCHANGED <<status, due, content, files, faults, cause>>

\* The catch of create: the files of this call go, whether or not its row stays.
UndoCreate(p) ==
  /\ At(p, "undo")
  /\ files' = "removed"
  /\ Goto(p, "end")
  /\ UNCHANGED <<status, due, content, faults, cause>>

\* Mutant: whatever its status.
PublishReadAny(p) ==
  /\ Exists
  /\ Starts(p, "publish", "unqueue")
  /\ UNCHANGED <<status, due, content, files, faults, cause>>

\* publish: a post that is not published yet...
PublishRead(p) ==
  /\ Exists /\ status # "PUBLISHED"
  /\ Starts(p, "publish", "unqueue")
  /\ UNCHANGED <<status, due, content, files, faults, cause>>

\* ... loses its job, unless that is under way or cannot be removed...
Unqueue(p) ==
  /\ At(p, "unqueue")
  /\ \/ proc' = [proc EXCEPT ![p].at = "update", ![Job].at = IF @ = "waiting" THEN "end" ELSE @]
     \/ Goto(p, "update")
  /\ UNCHANGED <<status, due, content, files, faults, cause>>

\* Mutant: the comparison of the times is the wrong way round.
JobReadSwapped ==
  /\ At(Job, "waiting")
  /\ Goto(Job, IF status # "SCHEDULED" THEN "end" ELSE IF due THEN "failed" ELSE "check")
  /\ UNCHANGED <<status, due, content, files, faults, cause>>

\* The job: the processor looks at the post...
JobRead ==
  /\ At(Job, "waiting")
  /\ \/ /\ status # "SCHEDULED" /\ Goto(Job, "end")
        /\ UNCHANGED faults
     \/ /\ status = "SCHEDULED" /\ due /\ Goto(Job, "check")
        /\ UNCHANGED faults
     \/ /\ status = "SCHEDULED" /\ ~due /\ faults < FAULTS
        /\ faults' = faults + 1 /\ Goto(Job, "failed")
  /\ cause' = IF faults' # faults THEN cause \cup {"lost"} ELSE cause
  /\ UNCHANGED <<status, due, content, files>>

\* ... and publishScheduled again.
PublishScheduled ==
  /\ At(Job, "check")
  /\ Become(Job, [proc[Job] EXCEPT !.seen = status,
                     !.at = IF Exists /\ status # "PUBLISHED" THEN "update" ELSE "end"])
  /\ UNCHANGED <<status, due, content, files, faults, cause>>

-----------------------------------------------------------------------------
\* finalizePublish: the update, which returns the caption...
FinalizeUpdate(p) ==
  /\ At(p, "update")
  /\ IF Exists
     THEN /\ status' = "PUBLISHED"
          /\ Become(p, [proc[p] EXCEPT !.at = "link", !.todo = caption])
          /\ cause' = IF Busy(p) \/ proc[p].seen # status THEN cause \cup {"overlap"} ELSE cause
     ELSE Rejects(p) /\ UNCHANGED <<status, cause>>
  /\ UNCHANGED <<due, content, files, faults>>

\* ... linkHashtags: one more post for a hashtag...
CountTag(p) ==
  /\ At(p, "link")
  /\ \E t \in proc[p].todo :
       /\ count' = [count EXCEPT ![t] = @ + 1]
       /\ Become(p, [proc[p] EXCEPT !.at = "insert", !.tag = t, !.todo = @ \ {t}])
  /\ UNCHANGED <<status, due, caption, links, told, uses, files, faults, cause>>

\* ... and the link, which its primary key or its foreign key may reject...
LinkTag(p) ==
  /\ At(p, "insert")
  /\ IF Exists /\ proc[p].tag \notin links
     THEN /\ links' = links \cup {proc[p].tag}
          /\ Become(p, [proc[p] EXCEPT !.at = "link", !.tag = None])
     ELSE Rejects(p) /\ UNCHANGED links
  /\ UNCHANGED <<status, due, caption, count, told, uses, files, faults, cause>>

\* ... linkMentions, which the foreign key may reject if there is somebody to mention...
LinkMentions(p) ==
  /\ At(p, "link") /\ proc[p].todo = {}
  /\ \/ Goto(p, IF proc[p].op = "edit" THEN "end" ELSE "tell")
     \/ ~Exists /\ Rejects(p)
  /\ UNCHANGED <<status, due, content, files, faults, cause>>

\* ... notifyNewPost...
NotifyNewPost(p) ==
  /\ At(p, "tell")
  /\ told' = told + 1
  /\ Goto(p, "music")
  /\ UNCHANGED <<status, due, caption, links, count, uses, files, faults, cause>>

\* ... and the counter of the track.
CountMusic(p) ==
  /\ At(p, "music")
  /\ uses' = uses + 1
  /\ Goto(p, IF proc[p].op = "create" THEN "reply" ELSE "end")
  /\ UNCHANGED <<status, due, caption, links, count, told, files, faults, cause>>

-----------------------------------------------------------------------------
\* updateCaption, of a post in any status: the owner's post...
EditRead(p) ==
  /\ Exists
  /\ Starts(p, "edit", "caption")
  /\ UNCHANGED <<status, due, content, files, faults, cause>>

\* ... gets the new caption...
EditCaption(p) ==
  /\ At(p, "caption")
  /\ IF Exists
     THEN /\ \E c \in SUBSET Tag :
               caption' = c /\ Become(p, [proc[p] EXCEPT !.at = "unlink", !.todo = c])
          /\ cause' = cause \cup {IF status = "PUBLISHED" THEN "edited" ELSE "draft edited"}
                            \cup (IF Busy(p) THEN {"overlap"} ELSE {})
     ELSE Rejects(p) /\ UNCHANGED <<caption, cause>>
  /\ UNCHANGED <<status, due, links, count, told, uses, files, faults>>

\* Mutant: the old links stay.
UnlinkNothing(p) ==
  /\ At(p, "unlink")
  /\ Goto(p, "link")
  /\ UNCHANGED <<status, due, content, files, faults, cause>>

\* ... and loses its links, which linkHashtags and linkMentions then make anew.
Unlink(p) ==
  /\ At(p, "unlink")
  /\ links' = {}
  /\ Goto(p, "link")
  /\ UNCHANGED <<status, due, caption, count, told, uses, files, faults, cause>>

\* remove: the owner's post and its media...
RemoveRead(p) ==
  /\ Exists
  /\ Starts(p, "remove", "delete")
  /\ UNCHANGED <<status, due, content, files, faults, cause>>

\* ... the row, and with it its links...
DeletePost(p) ==
  /\ At(p, "delete")
  /\ IF Exists
     THEN status' = "gone" /\ links' = {} /\ Goto(p, "files")
     ELSE Rejects(p) /\ UNCHANGED <<status, links>>
  /\ UNCHANGED <<due, caption, count, told, uses, files, faults, cause>>

\* ... and the media.
RemoveFiles(p) ==
  /\ At(p, "files")
  /\ files' = "removed"
  /\ Goto(p, "end")
  /\ UNCHANGED <<status, due, content, faults, cause>>

\* UploadService.remove: any client removes an object whose key it knows.
RemoveByKey ==
  /\ status # "none" /\ files = "kept" /\ files' = "taken"
  /\ UNCHANGED <<status, due, content, proc, faults, cause>>

-----------------------------------------------------------------------------
\* A call throws.  Those of the media store are caught one by one, and that of the answer
\* throws after the catch.
Fail(p) ==
  /\ faults < FAULTS /\ faults' = faults + 1
  /\ proc[p].at \in Effects \cup {"post", "reply", "waiting", "check", "caption", "delete", "undo", "files"}
  /\ IF proc[p].at \in {"reply", "undo", "files"} THEN Goto(p, "end") ELSE Rejects(p)
  /\ cause' = cause \cup {"failure"}
  /\ UNCHANGED <<status, due, content, files>>

\* The process dies.  BullMQ runs the job that stalled once more.
Crash(p) ==
  /\ faults < FAULTS /\ faults' = faults + 1
  /\ proc[p].at \notin {"start", "waiting", "failed", "end"}
  /\ Goto(p, IF p = Job THEN "waiting" ELSE "end")
  /\ cause' = cause \cup {"failure"}
  /\ UNCHANGED <<status, due, content, files>>

\* The time the post was scheduled for.
ComesDue ==
  /\ status = "SCHEDULED" /\ ~due /\ due' = TRUE
  /\ UNCHANGED <<status, content, files, proc, faults, cause>>

Start(p) == PutMedia(p) \/ PublishRead(p) \/ EditRead(p) \/ RemoveRead(p)

\* What a handler goes on with once it has started.
Continue(p) ==
  \/ InsertPost(p) \/ EnqueuePublish(p) \/ Answer(p) \/ UndoCreate(p) \/ Unqueue(p)
  \/ FinalizeUpdate(p) \/ CountTag(p) \/ LinkTag(p) \/ LinkMentions(p)
  \/ NotifyNewPost(p) \/ CountMusic(p)
  \/ EditCaption(p) \/ Unlink(p) \/ DeletePost(p) \/ RemoveFiles(p)

JobStep == JobRead \/ PublishScheduled \/ Continue(Job)

Next ==
  \/ \E p \in Req : Start(p) \/ Continue(p)
  \/ JobStep
  \/ \E p \in Proc : Fail(p) \/ Crash(p)
  \/ ComesDue \/ RemoveByKey

\* Node takes a handler that has started to its end; the queue runs its jobs; time passes.
Fairness ==
  /\ \A p \in Req : WF_vars(Continue(p))
  /\ WF_vars(JobStep) /\ WF_vars(ComesDue)

Spec == Init /\ [][Next]_vars /\ Fairness

-----------------------------------------------------------------------------
Quiet == \A p \in Proc : proc[p].at \notin Effects

\* finalizePublish, updateCaption: once nobody is at work on it, a published post is listed
\* under the hashtags of its caption, unless a writer failed, two overlapped, or the caption
\* was edited before publication.
TagsFollowTheCaption ==
  status = "PUBLISHED" /\ Quiet /\ cause \subseteq {"edited", "lost"} => links = caption

\* linkHashtags: postsCount never misses a post that is listed, and counts it once unless
\* the caption was edited (nothing is ever subtracted), a writer failed, or two overlapped.
CountersAgree ==
  /\ \A t \in links : count[t] > 0
  /\ Quiet /\ status # "gone" /\ cause \subseteq {"lost"} =>
       \A t \in Tag : count[t] = IF t \in links THEN 1 ELSE 0

\* finalizePublish: nobody hears of a post before it is out; then its followers hear of it
\* exactly once, as the counter of its track does, with the exceptions above.
FollowersHearOnce ==
  /\ status \in {"none", "DRAFT", "SCHEDULED"} => told = 0 /\ uses = 0
  /\ status = "PUBLISHED" /\ Quiet /\ cause \subseteq {"edited", "lost"} =>
       told = 1 /\ uses = 1
  /\ told > 1 => "overlap" \in cause

\* create, remove: a post has its media until somebody removes them by their keys, and a post
\* that is gone leaves none, unless a call failed or the catch of create ran for a row that
\* stays because another writer overlapped.
MediaFollowThePost ==
  /\ Exists /\ files \notin {"kept", "taken"} => cause \cap {"failure", "overlap"} # {}
  /\ status = "gone" /\ (\A p \in Proc : proc[p].at # "files") =>
       files \in {"removed", "taken"} \/ "failure" \in cause

\* A scheduled post is published or removed in the end, unless its job was lost or came
\* up early, or somebody failed: there is no second net under it.
ScheduledPostsGoOut ==
  status = "SCHEDULED" ~> (status # "SCHEDULED" \/ cause \cap {"failure", "lost"} # {})

\* linkHashtags and updateCaption: caption, links and counters agree, with the exceptions above.
BookkeepingAgrees == TagsFollowTheCaption /\ CountersAgree
=============================================================================
